SPECIFICATION Spec
CONSTANTS
  Tenants = {"northstar", "acme", "globex"}
  Contents = {"ops", "flight", "rumor"}
  Genesis = genesis
  Requests = {r1, r2, r3}
  Instances = {"a", "b"}
  Concurrency = 1
  CrashProne = {"a"}
  Northstar = "northstar"
  KeyRoot <- OwnRoot
  Skew <- NoSkew
  Contracts <- ContractValues
  Calls <- MixedCalls
  Finds <- FindsValues
  Carries <- CarriesValues
SYMMETRY AnyRequest
INVARIANTS
  TypeOK
  ForkWidth
  ReceiptIsBacked
  IngestLedgerAgrees
  DistinctIngests
  UndecryptableOnlyAfterRotation
  ChainWellFounded
