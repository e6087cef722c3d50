SPECIFICATION Spec
CONSTANTS
  Tenants = {"northstar", "acme", "globex"}
  Contents = {"ops", "flight", "rumor"}
  Genesis = genesis
  Requests = {r1, r2, r3}
  Instances = {"a"}
  Concurrency = 1
  CrashProne = {}
  Northstar = "northstar"
  KeyRoot <- SameRoot
  Skew <- NoSkew
  Contracts <- ContractValues
  Calls <- SerialCalls
  Finds <- FindsValues
  Carries <- CarriesValues
INVARIANTS
  CappedNeverAttested
PROPERTIES
  RefinesChain
  RefinesFence
