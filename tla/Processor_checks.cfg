SPECIFICATION FairSpec
CONSTANTS
  PageSize = 1
  Orgs = {o1}
  Users = {u1}
  Others = {x1}
  Repos <- TwoRepositories
  ConfigMax = 0
  NumCPU = 1
  Flaky = {1}
  Faults = {"lost", "crash", "race"}
INVARIANTS
  TypeOK
  ListedWhole
  OneScaleSet
  CapacityAcrossRestarts
  CleanExit
  LiveIsKnown
PROPERTIES
  StartEnds
  StopObeyed
  FaultIsolation
