SPECIFICATION Spec
CONSTANTS
  Clusters = {"a"}
  Pods = {"p", "q"}
  Status = {"x"}
  Infos = {}
  None = None
  MaxChanges = 3
  MaxTerms = 2
  MaxFailures = 1
  Faults = {"delete", "list", "commit", "restart", "tombstone", "zombie"}
PROPERTIES
  RowsGo
\* The changes of the objects, the terms and the failures run out.
CHECK_DEADLOCK FALSE
