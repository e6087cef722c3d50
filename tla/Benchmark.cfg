SPECIFICATION Spec
CONSTANTS
  tenant_count = 3
  documents_per_tenant = 2
  Similarities <- SimilarityValues
  Threshold = 2
CHECK_DEADLOCK FALSE
INVARIANTS
  PassedIffFencesStand
  RatesAreOverAllPairs
