SPECIFICATION Spec
CONSTANTS
  Clusters = {"a", "b"}
  Names = {"p", "q"}
  Data = {"x", "y"}
  States <- OneWriter
  Initial <- UsedDatabase
  Unknown = Unknown
  Faults = {"bad", "conn", "close", "decode", "cut", "query"}
INVARIANTS
  InSync
  SyncInv
PROPERTIES
  StoreSpec
