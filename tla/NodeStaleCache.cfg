SPECIFICATION Spec
CONSTANTS
  Clusters = {"a"}
  Pods = {"p", "q"}
  Status = {"x", "y"}
  Infos = {}
  None = None
  MaxChanges = 3
  MaxTerms = 3
  MaxFailures = 0
  Faults = {}
PROPERTIES
  NodeFollows
\* The changes of the objects, the terms and the failures run out.
CHECK_DEADLOCK FALSE
