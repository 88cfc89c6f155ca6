SPECIFICATION Spec
CONSTANTS
  Pods = {"p", "q"}
  Places = {1, 2}
  Kinds = {"ManagedCluster"}
  None = None
  MaxFailures = 2
  Faults = {"exec", "lease", "terminate", "crash", "crd"}
INVARIANTS
  IInv
  OneLiveTerm
  InformersOwned
  ListeningHasTables
PROPERTIES
  TermEnds
  LeaderWatches
\* At last a leader watches, and nothing changes any more.
CHECK_DEADLOCK FALSE
