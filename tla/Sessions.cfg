SPECIFICATION Spec
CONSTANTS
  Handlers = {"h1", "h2", "h3"}
  TenantOf <- TenantValues
  Backends = {"b1", "b2"}
  Operations = 2
  MaxErrors = 2
  None = "none"
INVARIANTS
  ContextIsTransactionLocal
  StatementUnderOwnTenant
  RefusedOnlyWhenBusy
