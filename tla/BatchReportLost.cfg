SPECIFICATION Spec
CONSTANTS
  N = 2
  BatchSize = 1
  Abandons = FALSE
  Faults = {}
INVARIANTS
  ErrorsReported
\* The request ends, and with it the behaviour.
CHECK_DEADLOCK FALSE
