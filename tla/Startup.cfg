SPECIFICATION Spec
CONSTANTS
  Tenants = {"northstar", "acme"}
  Instances = {"a", "b", "c"}
  Requests = {"e1", "e2"}
  Contents = {"ops", "flight"}
  Genesis = "genesis"
  KeyRoot <- RootValues
  Skew <- SkewValues
  Demo <- DemoValues
  Seed <- SeedValues
  MaxFaults = 2
  Controls = {"signed_tenant_claim", "postgres_force_rls", "tenant_bound_aes_gcm", "signed_isolation_receipt", "other"}
  Files <- FileValues
CHECK_DEADLOCK FALSE
INVARIANTS
  StartTypeOK
  ContractsBounded
  CompilesToMeaning
  ServingSeeded
  UnauditedOnlyAfterFault
  SeedAuditedOnce
PROPERTIES
  EventuallyServes
