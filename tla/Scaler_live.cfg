SPECIFICATION LiveSpec
CONSTANTS
  Names = {r1, r2}
  MaxRunners = 1
  MinRunners = 1
  MaxJobs = 1
  Faults = {}
INVARIANT CapacityInv
PROPERTIES
  ShutdownTerminates
  RegistrationRemoved
  DrainEndsByItself
  PoolRefilled
