SPECIFICATION MeasureSpec
CONSTANTS
  TENANTS <- TenantValues
  iterations = 3
  workers = 2
  Service = {"good", "error"}
  Latencies = {1, 2}
  Fraction <- ThreeFifths
INVARIANTS
  PassedMeansAllValid
  PercentileIsNearestRank
PROPERTIES
  MeasurementEnds
