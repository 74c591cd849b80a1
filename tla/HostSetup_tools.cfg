SPECIFICATION PersistentSpec
CONSTANTS
  ToolsInstalled = FALSE
  TypedSizes = {}
  LightweightSize = 2
  Compressed = 2
  Expanded <- ExpandedSizes
  Free = 4
  MkfsMinimum = 1
  MaxLitter = 2
  Faults = {}
PROPERTY SetupCompletes
