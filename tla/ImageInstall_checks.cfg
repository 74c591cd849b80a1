SPECIFICATION FairSpec
CONSTANTS
  PageSize = 1
  Artifacts = {1, 2, 3}
  Rootfs <- Packed
  HardLinks <- FurtherNames
  OldTree <- Old
  Parts = {p1, p2, p3}
  Concurrency = 2
  Modes = {"parts", "stream", "light", "artifact"}
  Faults = {"call", "replaced", "disk", "kill"}
INVARIANTS
  TypeOK
  LatestPicked
  SuccessMeansNew
  EntriesFit
  FailedDownloadKeepsImage
PROPERTY CommandEnds
