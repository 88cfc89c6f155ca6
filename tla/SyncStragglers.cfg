SPECIFICATION Spec
CONSTANTS
  Clusters = {"a", "b"}
  Names = {"p", "q"}
  Data = {"x", "y"}
  States <- TwoWriters
  Initial <- UsedDatabase
  Unknown = Unknown
  Faults = {"conn", "late"}
INVARIANTS
  IInv
  SyncInv
PROPERTIES
  ForeignRowsKept
  NodesKept
