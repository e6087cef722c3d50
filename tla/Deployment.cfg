SPECIFICATION Spec
CONSTANTS
  MaxRuns = 3
  MaxParallel = 2
CHECK_DEADLOCK FALSE
INVARIANTS
  OutageIsARollout
  NeverRefused
