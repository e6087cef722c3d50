SPECIFICATION Spec
CONSTANTS
  Tenants = {"northstar", "acme", "globex"}
  Contents = {"ops", "flight", "rumor"}
  Genesis = genesis
  Requests = {r1, r2}
  Instances = {"a"}
  Concurrency = 2
  CrashProne = {}
  Northstar = "northstar"
  KeyRoot <- SameRoot
  Skew <- NoSkew
  Contracts <- ContractValues
  Calls <- RetrievalCalls
  Finds <- FindsValues
  Carries <- CarriesValues
SYMMETRY AnyRequest
INVARIANTS
  SingleChain
