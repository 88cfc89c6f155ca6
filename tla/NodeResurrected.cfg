SPECIFICATION Spec
CONSTANTS
  Clusters = {"a"}
  Pods = {"p"}
  Status = {"x"}
  Infos = {"i"}
  None = None
  MaxChanges = 4
  MaxTerms = 1
  MaxFailures = 0
  Faults = {"delete"}
PROPERTIES
  DeletedNodeGoes
\* The changes of the objects, the terms and the failures run out.
CHECK_DEADLOCK FALSE
