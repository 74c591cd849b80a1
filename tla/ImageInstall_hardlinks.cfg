SPECIFICATION Spec
CONSTANTS
  PageSize = 1
  Artifacts = {1, 2, 3}
  Rootfs <- Packed
  HardLinks <- FurtherNames
  OldTree <- Old
  Parts = {p1, p2, p3}
  Concurrency = 2
  Modes = {"stream"}
  Faults = {}
INVARIANT HardLinksHandled
