SPECIFICATION GateSpec
CONSTANTS
  Tenants = {"northstar", "acme"}
  Instances = {"a", "b"}
  Requests = {"g1", "r"}
  Contents = {"rumor"}
  Genesis = "genesis"
  KeyRoot <- SameRoot
  Skew <- NoSkew
  Contracts <- ContractValues
  Calls <- GateCalls
  Concurrency = 2
  CrashProne = {"a"}
  Northstar = "northstar"
  Finds <- FindsValues
  Carries <- CarriesValues
  Tokens <- TokenValues
  Gate <- GateValues
INVARIANTS
  GateTypeOK
  PassedMeansAttested
  QuarantineIffFailed
  AttestationBackedByProbe
PROPERTIES
  GateEnds
  LeakLeadsToQuarantine
