SPECIFICATION Spec
CONSTANTS
  Clusters = {"a"}
  Pods = {"p"}
  Status = {"x", "y"}
  Infos = {"i"}
  None = None
  MaxChanges = 5
  MaxTerms = 1
  MaxFailures = 1
  Faults = {"delete", "exec"}
INVARIANTS
  TypeOK
  CacheAgrees
  CacheInv
  MergeInv
PROPERTIES
  NodeFollows
  FieldsMerged
\* The changes of the objects, the terms and the failures run out.
CHECK_DEADLOCK FALSE
