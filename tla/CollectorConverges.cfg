SPECIFICATION CycleSpec
CONSTANTS
  Clusters = {"a", "b"}
  Names = {"p", "q"}
  Data = {"x", "y"}
  States <- ClusterStates
  Initial <- Databases
  Unknown = Unknown
  Faults = {"bad", "conn", "close", "decode", "cut", "query"}
  MaxChanges = 3
  MaxDisturbances = 3
INVARIANTS
  TrustHolds
  TrustInv
PROPERTIES
  NodesKept
  TrustEarned
  Converges
  ResyncsCease
