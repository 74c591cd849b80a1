SPECIFICATION Spec
CONSTANTS
  PageSize = 1
  Orgs = {}
  Users = {u1}
  Others = {}
  Repos <- TwoRepositories
  ConfigMax = 1
  NumCPU = 1
  Flaky = {}
  Faults = {}
INVARIANT DashboardShowsAll
