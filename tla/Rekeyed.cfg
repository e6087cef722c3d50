SPECIFICATION Spec
CONSTANTS
  MaxRuns = 2
  MaxParallel = 1
CHECK_DEADLOCK FALSE
INVARIANTS
  DocumentsReadable
