SPECIFICATION Spec
CONSTANTS
  Names = {r1}
  MaxRunners = 1
  MinRunners = 1
  MaxJobs = 0
  Faults = {}
INVARIANT RegistrationsRemovedAtExit
