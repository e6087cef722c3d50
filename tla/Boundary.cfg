SPECIFICATION Spec
CONSTANTS
  Tenants = {"northstar", "acme"}
  Processes = {"old1", "old2", "new"}
  Secret <- SecretValues
  Skew <- SkewValues
  Lifetime = 2
  Horizon = 6
  MaxTokens = 2
INVARIANTS
  IdentityIsIssued
  AdmittedWhileFresh
