SPECIFICATION FairSpec
CONSTANTS
  N = 5
  BatchSize = 3
  Abandons = FALSE
  Faults = {"conn"}
INVARIANTS
  IInv
  WaitSettlesAll
  IsolationExact
  OnlyFailedReported
  CleanReturn
PROPERTIES
  SettledOnce
  ContractSpec
  BatchCompletes
\* The request ends, and with it the behaviour.
CHECK_DEADLOCK FALSE
