SPECIFICATION Spec
CONSTANTS
  Names = {r1, r2}
  MaxRunners = 2
  MinRunners = 1
  MaxJobs = 1
  Faults = {"generate", "lost", "mkdir", "write", "chown", "start", "remove", "listener"}
SYMMETRY Symmetry
INVARIANTS
  TypeOK
  CapacityIInv
  RegistrationOwned
  CredentialOwned
  IdleKillSparesPunctualJobs
  DrainAccountsForAll
PROPERTY ImplementsPool
