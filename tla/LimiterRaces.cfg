SPECIFICATION FairSpec
CONSTANTS
  Clusters = {c1, c2}
  Requests = {r1, r2, r3}
  RequestLimit = 1
  LargeRequestLimit = 1
  Patient = FALSE
INVARIANTS
  EntryHasOwner
  LargeCountExact
PROPERTIES
  EntryDeleted
