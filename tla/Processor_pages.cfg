SPECIFICATION Spec
CONSTANTS
  PageSize = 2
  Orgs = {o1, o2, o3}
  Users = {u1}
  Others = {}
  Repos <- TwoRepositories
  ConfigMax = 1
  NumCPU = 1
  Flaky = {}
  Faults = {}
INVARIANT AllInstallationsListed
