SPECIFICATION PersistentSpec
CONSTANTS
  ToolsInstalled = FALSE
  TypedSizes = {0, 8}
  LightweightSize = 2
  Compressed = 2
  Expanded <- ExpandedSizes
  Free = 4
  MkfsMinimum = 1
  MaxLitter = 1
  Faults = {"fail", "kill", "reboot"}
INVARIANTS
  TypeOK
  CompleteMeansReady
PROPERTIES
  FormatsOnce
  RerunCompletes
  ServiceReturns
