SPECIFICATION Spec
CONSTANTS
  Tenants = {"northstar", "acme"}
  Instances = {"a"}
  Contents = {"x", "y"}
  Genesis = genesis
  Requests = {r1, r2, r3}
  Jobs <- JobValues
  Seeded = {"northstar"}
INVARIANTS
  MemoryTypeOK
  NothingLost
  LinksResolve
PROPERTIES
  RefinesFence
