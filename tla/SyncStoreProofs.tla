--------------------------- MODULE SyncStoreProofs ---------------------------
(***************************************************************************)
(* Proofs that the sync and resync requests implement ClusterStore, and    *)
(* that a state which was confirmed is stored (InSync), for every set of   *)
(* clusters and states, whatever the order of the statements and whatever  *)
(* faults there are, as long as none of them goes unreported (lapses).     *)
(*                                                                         *)
(* The invariant is SyncInv.  Its part Progress says what the waiting      *)
(* statements of a request will have done when the last one has run.       *)
(***************************************************************************)
EXTENDS SyncRequestProofs

------------------------------------------------------------------------------
(* What a cluster knows of the tables.                                     *)

LEMMA OwnResourceRow ==
    ASSUME NEW table \in SUBSET ResourceRow, NEW c \in Clusters
    PROVE  /\ OwnResources(table, c) \subseteq Resource
           /\ \A r \in Resource : r \in OwnResources(table, c) <=>
                /\ r.uid # Node(c)
                /\ [uid |-> r.uid, cluster |-> c, data |-> r.data] \in table
<1>1. OwnResources(table, c) \subseteq Resource
  BY DEF OwnResources, ResourceRow, Resource
<1>2. ASSUME NEW r \in Resource, r \in OwnResources(table, c)
      PROVE  r.uid # Node(c) /\ [uid |-> r.uid, cluster |-> c, data |-> r.data] \in table
  <2>1. PICK row \in table : /\ row.cluster = c /\ row.uid # Node(c)
                             /\ r = [uid |-> row.uid, data |-> row.data]
    BY <1>2 DEF OwnResources
  <2>2. row = [uid |-> row.uid, cluster |-> row.cluster, data |-> row.data]
    BY DEF ResourceRow
  <2> QED BY <2>1, <2>2
<1>3. ASSUME NEW r \in Resource, r.uid # Node(c),
             [uid |-> r.uid, cluster |-> c, data |-> r.data] \in table
      PROVE  r \in OwnResources(table, c)
  <2>1. r = [uid |-> r.uid, data |-> r.data]
    BY DEF Resource
  <2> QED BY <1>3, <2>1 DEF OwnResources
<1> QED BY <1>1, <1>2, <1>3

LEMMA OwnEdgeRow ==
    ASSUME NEW table \in SUBSET EdgeRow, NEW c \in Clusters
    PROVE  /\ OwnEdges(table, c) \subseteq Edge
           /\ \A e \in Edge : e \in OwnEdges(table, c) <=>
                e.type # "interCluster" /\ [edge |-> e, cluster |-> c] \in table
<1>1. OwnEdges(table, c) \subseteq Edge
  BY DEF OwnEdges, EdgeRow
<1>2. ASSUME NEW e \in Edge, e \in OwnEdges(table, c)
      PROVE  e.type # "interCluster" /\ [edge |-> e, cluster |-> c] \in table
  <2>1. PICK row \in table : /\ row.cluster = c /\ row.edge.type # "interCluster"
                             /\ e = row.edge
    BY <1>2 DEF OwnEdges
  <2>2. row = [edge |-> row.edge, cluster |-> row.cluster]
    BY DEF EdgeRow
  <2> QED BY <2>1, <2>2
<1>3. ASSUME NEW e \in Edge, e.type # "interCluster",
             [edge |-> e, cluster |-> c] \in table
      PROVE  e \in OwnEdges(table, c)
  BY <1>3 DEF OwnEdges
<1> QED BY <1>1, <1>2, <1>3

(* A request of another cluster does not touch it.                         *)
LEMMA OwnOfOthers ==
    ASSUME NEW d \in Clusters, NEW c \in Clusters \ {d},
           NEW table, NEW after, Foreign(after, d) = Foreign(table, d)
    PROVE  /\ OwnResources(after, c) = OwnResources(table, c)
           /\ OwnEdges(after, c) = OwnEdges(table, c)
<1>1. {q \in after : q.cluster = c} = {q \in table : q.cluster = c}
  BY DEF Foreign
<1>2. /\ {q \in after : q.cluster = c /\ q.uid # Node(c)}
           = {q \in table : q.cluster = c /\ q.uid # Node(c)}
      /\ {q \in after : q.cluster = c /\ q.edge.type # "interCluster"}
           = {q \in table : q.cluster = c /\ q.edge.type # "interCluster"}
  BY <1>1
<1> QED BY <1>2 DEF OwnResources, OwnEdges

(* The resource that a statement writes.                                   *)
Written(s) == [uid |-> s.uid, data |-> s.data]
Writes(s) == s.op \in {"addResource", "updateResource"}

(* UPDATE of a resource of cluster c.                                      *)
LEMMA OwnAfterUpdate ==
    ASSUME NEW table \in SUBSET ResourceRow, UniqueUids(table),
           \A row \in table : row.uid[1] = row.cluster,
           NEW c \in Clusters, NEW uid \in Uid, validateUIDPrefix(uid, c),
           NEW data \in Data
    PROVE  LET after == Changed(table, c, uid, data)
               own == OwnResources(table, c)
               new == OwnResources(after, c)
               r == [uid |-> uid, data |-> data]
           IN  /\ \A row \in after : row.uid[1] = row.cluster
               /\ \A q \in new : q \in own \/ q = r
               /\ \A q \in own : q \in new \/ q.uid = uid
               /\ (\E row \in table : row.uid = uid) => r \in new
<1> DEFINE change(row) == IF row.uid = uid /\ row.cluster = c
                            THEN [row EXCEPT !.data = data] ELSE row
           after == Changed(table, c, uid, data)
           r == [uid |-> uid, data |-> data]
<1>1. after = {change(row) : row \in table}
  BY DEF Changed
<1>2. \A row \in table :
        /\ row \in ResourceRow
        /\ row.uid # uid => change(row) = row
        /\ row.uid = uid /\ row.cluster = c
             => change(row) = [uid |-> uid, cluster |-> c, data |-> data]
        /\ row.uid = uid => row.cluster = c
  BY DEF ResourceRow, validateUIDPrefix
<1> HIDE DEF change, after
<1>3. after \in SUBSET ResourceRow
  BY UpdateRows DEF after
<1>4. r \in Resource /\ uid # Node(c)
  BY DEF Resource, validateUIDPrefix
<1>5. \A row \in after : row.uid[1] = row.cluster
  BY <1>1, <1>2
<1>6. ASSUME NEW q \in OwnResources(after, c)
      PROVE  q \in OwnResources(table, c) \/ q = r
  <2>1. /\ q \in Resource /\ q.uid # Node(c)
        /\ [uid |-> q.uid, cluster |-> c, data |-> q.data] \in after
    BY <1>3, <1>6, OwnResourceRow
  <2>2. q = [uid |-> q.uid, data |-> q.data]
    BY <2>1 DEF Resource
  <2>3. PICK row \in table : [uid |-> q.uid, cluster |-> c, data |-> q.data] = change(row)
    BY <1>1, <2>1
  <2>4. CASE row.uid = uid
    BY <1>2, <2>2, <2>3, <2>4
  <2>5. CASE row.uid # uid
    BY <1>2, <2>1, <2>3, <2>5, OwnResourceRow
  <2> QED BY <2>4, <2>5
<1>7. ASSUME NEW q \in OwnResources(table, c), q.uid # uid
      PROVE  q \in OwnResources(after, c)
  <2>1. /\ q \in Resource /\ q.uid # Node(c)
        /\ [uid |-> q.uid, cluster |-> c, data |-> q.data] \in table
    BY OwnResourceRow
  <2>2. change([uid |-> q.uid, cluster |-> c, data |-> q.data])
          = [uid |-> q.uid, cluster |-> c, data |-> q.data]
    BY <1>2, <1>7, <2>1
  <2>3. [uid |-> q.uid, cluster |-> c, data |-> q.data] \in after
    BY <1>1, <2>1, <2>2
  <2> QED BY <1>3, <2>1, <2>3, OwnResourceRow
<1>8. ASSUME NEW row \in table, row.uid = uid
      PROVE  r \in OwnResources(after, c)
  <2>1. [uid |-> uid, cluster |-> c, data |-> data] \in after
    BY <1>1, <1>2, <1>8
  <2> QED BY <1>3, <1>4, <2>1, OwnResourceRow
<1> QED BY <1>5, <1>6, <1>7, <1>8 DEF after

(* What a statement of cluster c does to what c knows of the resources.    *)
LEMMA OwnResourcesAfter ==
    ASSUME NEW table \in SUBSET ResourceRow, UniqueUids(table),
           \A row \in table : row.uid[1] = row.cluster,
           NEW c \in Clusters, NEW s \in Statements(c)
    PROVE  LET after == ResourcesAfter(table, c, s)
               own == OwnResources(table, c)
               new == OwnResources(after, c)
           IN  /\ \A row \in after : row.uid[1] = row.cluster
               /\ \A q \in new : /\ q \in own \/ (Writes(s) /\ q = Written(s))
                                 /\ ~Removes(s, q.uid)
               /\ \A q \in own : \/ q \in new \/ Removes(s, q.uid)
                                 \/ Writes(s) /\ q.uid = s.uid
               /\ s.op = "addResource" => Written(s) \in new
               /\ s.op = "updateResource" /\ s.uid \in Uids(own) => Written(s) \in new
<1> DEFINE after == ResourcesAfter(table, c, s)
           own == OwnResources(table, c)
           new == OwnResources(after, c)
<1>0. after \in SUBSET ResourceRow
  BY ResourceStatement
<1>1. CASE Writes(s)
  <2>1. s.uid \in Uid /\ s.data \in Data /\ validateUIDPrefix(s.uid, c)
    BY <1>1 DEF Statements, Writes
  <2>2. \A uid : ~Removes(s, uid)
    BY <1>1 DEF Writes, Removes
  <2>3. CASE \E row \in table : row.uid = s.uid
    <3>1. after = Changed(table, c, s.uid, s.data)
      BY <1>1, <2>3 DEF ResourcesAfter, Writes, Upsert, Changed
    <3>2. /\ \A row \in after : row.uid[1] = row.cluster
          /\ \A q \in new : q \in own \/ q = Written(s)
          /\ \A q \in own : q \in new \/ q.uid = s.uid
          /\ Written(s) \in new
      BY <2>1, <2>3, <3>1, OwnAfterUpdate DEF Written
    <3> QED BY <1>1, <2>2, <3>2
  <2>4. CASE ~ \E row \in table : row.uid = s.uid
    <3>1. s.uid \notin Uids(own)
      BY <2>4, OwnResourceRow DEF Uids
    <3>2. CASE s.op = "addResource"
      <4> DEFINE row == [uid |-> s.uid, cluster |-> c, data |-> s.data]
      <4>1. after = table \cup {row}
        BY <2>4, <3>2 DEF ResourcesAfter, Upsert
      <4>2. row.uid[1] = row.cluster /\ row \in ResourceRow
        BY <2>1 DEF validateUIDPrefix, ResourceRow
      <4>3. Written(s) \in Resource /\ s.uid # Node(c)
        BY <2>1 DEF Written, Resource, validateUIDPrefix
      <4>4. ASSUME NEW q \in new PROVE q \in own \/ q = Written(s)
        <5>1. /\ q \in Resource /\ q.uid # Node(c)
              /\ [uid |-> q.uid, cluster |-> c, data |-> q.data] \in after
          BY <1>0, OwnResourceRow
        <5>2. q = [uid |-> q.uid, data |-> q.data]
          BY <5>1 DEF Resource
        <5> QED BY <4>1, <5>1, <5>2, OwnResourceRow DEF Written
      <4>5. \A q \in own : q \in new
        BY <1>0, <4>1, OwnResourceRow
      <4>6. Written(s) \in new
        BY <1>0, <4>1, <4>3, OwnResourceRow DEF Written
      <4> QED BY <1>1, <2>2, <3>2, <4>1, <4>2, <4>4, <4>5, <4>6
    <3>3. CASE s.op = "updateResource"
      <4>1. after = table
        <5>1. after = Changed(table, c, s.uid, s.data)
          BY <3>3 DEF ResourcesAfter, Changed
        <5> QED BY <2>4, <5>1 DEF Changed
      <4> QED BY <2>2, <3>1, <3>3, <4>1
    <3> QED BY <1>1, <3>2, <3>3 DEF Writes
  <2> QED BY <2>3, <2>4
<1>2. CASE s.op \in {"deleteResources", "deleteOtherResources"}
  <2>1. after = {row \in table : ~(row.cluster = c /\ Removes(s, row.uid))}
    BY <1>2 DEF ResourcesAfter, Removes
  <2> HIDE DEF after
  <2>2. \A q \in new : q \in own /\ ~Removes(s, q.uid)
    BY <1>0, <2>1, OwnResourceRow
  <2>3. \A q \in own : q \in new \/ Removes(s, q.uid)
    BY <1>0, <2>1, OwnResourceRow
  <2> QED BY <1>2, <2>1, <2>2, <2>3 DEF after
<1>3. CASE ~Writes(s) /\ s.op \notin {"deleteResources", "deleteOtherResources"}
  <2>1. after = table
    BY <1>3 DEF ResourcesAfter, Writes
  <2> QED BY <1>3, <2>1 DEF Removes, Writes
<1> QED BY <1>1, <1>2, <1>3

(* What it does to what c knows of the edges, if nobody else has the edge. *)
LEMMA OwnEdgesAfter ==
    ASSUME NEW table \in SUBSET EdgeRow, NEW c \in Clusters,
           NEW s \in Statements(c),
           s.op = "addEdge" =>
             \A row \in table : row.edge = s.edge => row.cluster = c
    PROVE  LET after == EdgesAfter(table, c, s)
               own == OwnEdges(table, c)
               new == OwnEdges(after, c)
           IN  /\ \A row \in after :
                    \/ row \in table
                    \/ s.op = "addEdge" /\ row = [edge |-> s.edge, cluster |-> c]
               /\ \A e \in new : /\ e \in own \/ (s.op = "addEdge" /\ e = s.edge)
                                 /\ ~Cuts(s, e)
               /\ \A e \in own : e \in new \/ Cuts(s, e)
               /\ s.op = "addEdge" /\ s.edge.type # "interCluster" => s.edge \in new
<1> DEFINE after == EdgesAfter(table, c, s)
           own == OwnEdges(table, c)
           new == OwnEdges(after, c)
<1>1. CASE s.op = "addEdge"
  <2>1. s.edge \in Edge
    BY <1>1 DEF Statements
  <2>2. after = table \cup {[edge |-> s.edge, cluster |-> c]}
    <3>1. CASE \E row \in table : row.edge = s.edge
      <4>1. PICK row \in table : row.edge = s.edge
        BY <3>1
      <4>2. row = [edge |-> s.edge, cluster |-> c]
        BY <1>1, <4>1 DEF EdgeRow
      <4> QED BY <1>1, <3>1, <4>2 DEF EdgesAfter
    <3>2. CASE ~ \E row \in table : row.edge = s.edge
      BY <1>1, <3>2 DEF EdgesAfter
    <3> QED BY <3>1, <3>2
  <2>3. after \in SUBSET EdgeRow
    BY <2>1, <2>2 DEF EdgeRow
  <2> HIDE DEF after
  <2>4. \A e \in new : e \in own \/ e = s.edge
    BY <2>2, <2>3, OwnEdgeRow
  <2>5. \A e \in own : e \in new
    BY <2>2, <2>3, OwnEdgeRow
  <2>6. s.edge.type # "interCluster" => s.edge \in new
    BY <2>1, <2>2, <2>3, OwnEdgeRow
  <2> QED BY <1>1, <2>2, <2>4, <2>5, <2>6 DEF Cuts, after
<1>2. CASE s.op \in {"deleteEdge", "deleteEdgesOf", "deleteOtherEdges"}
  <2>1. after = {row \in table : ~(row.cluster = c /\ Cuts(s, row.edge))}
    <3>1. CASE s.op = "deleteEdge"
      <4>1. after = table \ {[edge |-> s.edge, cluster |-> c]}
        BY <3>1 DEF EdgesAfter
      <4>2. \A row \in table :
              row = [edge |-> s.edge, cluster |-> c] <=> row.cluster = c /\ Cuts(s, row.edge)
        BY <3>1 DEF EdgeRow, Cuts
      <4> HIDE DEF after
      <4> QED BY <4>1, <4>2
    <3>2. CASE s.op \in {"deleteEdgesOf", "deleteOtherEdges"}
      BY <3>2 DEF EdgesAfter, Cuts
    <3> QED BY <1>2, <3>1, <3>2
  <2> HIDE DEF after
  <2>2. after \in SUBSET EdgeRow /\ \A row \in after : row \in table
    BY <2>1
  <2>3. \A e \in new : e \in own /\ ~Cuts(s, e)
    BY <2>1, <2>2, OwnEdgeRow
  <2>4. \A e \in own : e \in new \/ Cuts(s, e)
    BY <2>1, <2>2, OwnEdgeRow
  <2> QED BY <1>2, <2>2, <2>3, <2>4 DEF after
<1>3. CASE s.op \notin {"addEdge", "deleteEdge", "deleteEdgesOf", "deleteOtherEdges"}
  <2>1. after = table
    BY <1>3 DEF EdgesAfter
  <2> QED BY <1>3, <2>1 DEF Cuts
<1> QED BY <1>1, <1>2, <1>3
------------------------------------------------------------------------------
(* A statement that is executed brings its cluster nearer to its state.    *)

LEMMA StatementOwned ==
    ASSUME ConsistentStates, IInv, RowsOwned,
           NEW c \in Clusters, NEW s \in Waiting(c), Apply(c, s)
    PROVE  /\ \A row \in resources' : row.uid[1] = row.cluster
           /\ \A row \in edges' : \A d \in Clusters \ {row.cluster} : ~Claims(d, row.edge)
<1>1. /\ resources \in SUBSET ResourceRow /\ UniqueUids(resources)
      /\ edges \in SUBSET EdgeRow /\ s \in Statements(c)
  BY DEF IInv, TypeOK, Waiting
<1>2. resources' = ResourcesAfter(resources, c, s) /\ edges' = EdgesAfter(edges, c, s)
  BY DEF Apply
<1>3. \A row \in resources' : row.uid[1] = row.cluster
  BY <1>1, <1>2, OwnResourcesAfter DEF RowsOwned
<1>4. ASSUME NEW row \in edges', NEW d \in Clusters \ {row.cluster}
      PROVE  ~Claims(d, row.edge)
  <2>1. row \in edges \/ (s.op = "addEdge" /\ row = [edge |-> s.edge, cluster |-> c])
    BY <1>1, <1>2 DEF EdgesAfter
  <2> QED BY <1>4, <2>1 DEF RowsOwned, Claims, ConsistentStates
<1> QED BY <1>3, <1>4

(* The resources that the request shall leave behind, when statement s of  *)
(* it is executed and no other is taken.                                   *)
LEMMA StatementResources ==
    ASSUME IInv, RowsOwned, NEW c \in Clusters, NEW s \in todo[c], Apply(c, s),
           todo' = [todo EXCEPT ![c] = @ \ {s}], UNCHANGED body,
           body[c] \in ClusterState, UniqueUids(body[c].resources),
           ResourcesComing(c)
    PROVE  ResourcesComing(c)'
<1> DEFINE own == OwnResources(resources, c)
           goal == body[c].resources
<1>0. /\ resources \in SUBSET ResourceRow /\ UniqueUids(resources)
      /\ s \in Statements(c)
      /\ resources' = ResourcesAfter(resources, c, s)
      /\ todo'[c] = todo[c] \ {s}
      /\ \A r \in goal : r = [uid |-> r.uid, data |-> r.data]
  BY DEF IInv, TypeOK, Apply, ClusterState, Resource
<1>1. /\ \A q \in own' : /\ q \in own \/ (Writes(s) /\ q = Written(s))
                         /\ ~Removes(s, q.uid)
      /\ \A q \in own : \/ q \in own' \/ Removes(s, q.uid)
                        \/ Writes(s) /\ q.uid = s.uid
      /\ s.op = "addResource" => Written(s) \in own'
      /\ s.op = "updateResource" /\ s.uid \in Uids(own) => Written(s) \in own'
  BY <1>0, OwnResourcesAfter DEF RowsOwned
<1>2. /\ \A uid \in Uids(goal) : ~Removes(s, uid)
      /\ Writes(s) => Written(s) \in goal
  BY DEF ResourcesComing, Writes, Written
<1>3. UniqueUids(goal)
  OBVIOUS
<1>4. \A q \in own : q.uid \in Uids(goal) => q.uid \in Uids(own')
  BY <1>1, <1>2 DEF Writes, Written, Uids
<1>5. ASSUME NEW r \in goal
      PROVE  \/ r \in own'
             \/ AddResource(r) \in todo'[c]
             \/ UpdateResource(r) \in todo'[c] /\ r.uid \in Uids(own')
  <2>1. r.uid \in Uids(goal)
    BY DEF Uids
  <2>2. CASE r \in own
    <3>1. Writes(s) /\ r.uid = s.uid => r = Written(s) /\ s.uid \in Uids(own)
      BY <1>2, <1>3, <2>2 DEF UniqueUids, Written, Uids
    <3> QED BY <1>1, <1>2, <2>1, <2>2, <3>1 DEF Writes
  <2>3. CASE AddResource(r) \in todo[c]
    <3>1. s = AddResource(r) => s.op = "addResource" /\ Written(s) = r
      BY <1>0 DEF AddResource, Written
    <3> QED BY <1>0, <1>1, <2>3, <3>1
  <2>4. CASE UpdateResource(r) \in todo[c] /\ r.uid \in Uids(own)
    <3>1. s = UpdateResource(r) =>
            s.op = "updateResource" /\ s.uid = r.uid /\ Written(s) = r
      BY <1>0 DEF UpdateResource, Written
    <3>2. r.uid \in Uids(own')
      BY <1>4, <2>1, <2>4 DEF Uids
    <3> QED BY <1>0, <1>1, <2>4, <3>1, <3>2
  <2> QED BY <2>2, <2>3, <2>4 DEF ResourcesComing
<1>6. ASSUME NEW q \in own'
      PROVE  q.uid \in Uids(goal) \/ \E t \in todo'[c] : Removes(t, q.uid)
  <2>1. CASE q \in own
    BY <1>0, <1>1, <2>1 DEF ResourcesComing
  <2>2. CASE Writes(s) /\ q = Written(s)
    BY <1>2, <2>2 DEF Uids
  <2> QED BY <1>1, <2>1, <2>2
<1>7. \A t \in todo'[c] :
        /\ t.op \in {"addResource", "updateResource"} =>
             [uid |-> t.uid, data |-> t.data] \in goal
        /\ \A uid \in Uids(goal) : ~Removes(t, uid)
  BY <1>0 DEF ResourcesComing
<1>8. \A r \in goal : validateUIDPrefix(r.uid, c)
  BY DEF ResourcesComing
<1>9. goal' = goal
  OBVIOUS
<1> HIDE DEF goal
<1> QED BY <1>5, <1>6, <1>7, <1>8, <1>9 DEF ResourcesComing, goal

LEMMA StatementEdges ==
    ASSUME IInv, RowsOwned, NEW c \in Clusters, NEW s \in todo[c], Apply(c, s),
           todo' = [todo EXCEPT ![c] = @ \ {s}], UNCHANGED body,
           \A e \in body[c].edges : e.type # "interCluster",
           EdgesComing(c)
    PROVE  EdgesComing(c)'
<1> DEFINE own == OwnEdges(edges, c)
           goal == body[c].edges
<1>0. /\ edges \in SUBSET EdgeRow /\ s \in Statements(c)
      /\ edges' = EdgesAfter(edges, c, s)
      /\ todo'[c] = todo[c] \ {s}
  BY DEF IInv, TypeOK, Apply
<1>1. s.op = "addEdge" => \A row \in edges : row.edge = s.edge => row.cluster = c
  BY DEF RowsOwned, Waiting
<1>2. /\ \A e \in own' : /\ e \in own \/ (s.op = "addEdge" /\ e = s.edge)
                         /\ ~Cuts(s, e)
      /\ \A e \in own : e \in own' \/ Cuts(s, e)
      /\ s.op = "addEdge" /\ s.edge.type # "interCluster" => s.edge \in own'
  BY <1>0, <1>1, OwnEdgesAfter
<1>3. /\ \A e \in goal : ~Cuts(s, e)
      /\ s.op = "addEdge" => s.edge \in goal
  BY DEF EdgesComing
<1>4. ASSUME NEW e \in goal PROVE e \in own' \/ AddEdge(e) \in todo'[c]
  <2>1. s = AddEdge(e) => s.op = "addEdge" /\ s.edge = e
    BY DEF AddEdge
  <2>2. e \in own \/ AddEdge(e) \in todo[c]
    BY DEF EdgesComing
  <2> QED BY <1>0, <1>2, <1>3, <2>1, <2>2
<1>5. ASSUME NEW e \in own'
      PROVE  e \in goal \/ \E t \in todo'[c] : Cuts(t, e)
  BY <1>0, <1>2, <1>3 DEF EdgesComing
<1>6. \A t \in todo'[c] : /\ t.op = "addEdge" => t.edge \in goal
                          /\ \A e \in goal : ~Cuts(t, e)
  BY <1>0 DEF EdgesComing
<1>7. goal' = goal
  OBVIOUS
<1> HIDE DEF goal
<1> QED BY <1>4, <1>5, <1>6, <1>7 DEF EdgesComing, goal
------------------------------------------------------------------------------
(* The invariant of one cluster, and what keeps it.                        *)

Confirmed(c) ==
    phase[c] = "idle" /\ known[c] # Unknown /\ lapses[c] = {} =>
      /\ OwnResources(resources, c) = known[c].resources
      /\ OwnEdges(edges, c) = known[c].edges
      /\ totals[c] = <<Cardinality(known[c].resources),
                       Cardinality(known[c].edges)>>

Untouched(d) ==
    UNCHANGED <<phase[d], body[d], base[d], todo[d], errors[d], connError[d],
                decodeErr[d], known[d], totals[d], lapses[d],
                OwnResources(resources, d), OwnEdges(edges, d)>>

LEMMA UntouchedKeeps ==
    ASSUME NEW d \in Clusters, Untouched(d), Progress(d), Confirmed(d)
    PROVE  Progress(d)' /\ Confirmed(d)'
<1>1. /\ Clean(d)' = Clean(d)
      /\ ResourcesComing(d)' = ResourcesComing(d)
      /\ EdgesComing(d)' = EdgesComing(d)
  BY DEF Untouched, Clean, Faultless, ResourcesComing, EdgesComing
<1>2. Progress(d)'
  BY <1>1 DEF Untouched, Progress, Counted
<1>3. Confirmed(d)'
  BY DEF Untouched, Confirmed
<1> QED BY <1>2, <1>3

LEMMA StepKeepsSyncInv ==
    ASSUME SyncInv, NEW c \in Clusters, IInv', RowsOwned',
           \A d \in Clusters \ {c} : Untouched(d),
           Progress(c)', Confirmed(c)'
    PROVE  SyncInv'
<1>1. ASSUME NEW d \in Clusters PROVE Progress(d)' /\ Confirmed(d)'
  <2>1. Progress(d) /\ Confirmed(d)
    BY DEF SyncInv, InSync, Confirmed
  <2> QED BY <2>1, UntouchedKeeps
<1>2. InSync'
  BY <1>1 DEF InSync, Confirmed
<1> QED BY <1>1, <1>2 DEF SyncInv

(* What waits did so before, or it is an edge of its cluster.              *)
LEMMA WaitingOwned ==
    ASSUME RowsOwned,
           \A d \in Clusters : \A s \in todo'[d] :
             s \in todo[d] \/ (s.op = "addEdge" => Claims(d, s.edge)),
           \A x \in late' : x \in late \/ x[2] \in todo[x[1]]
    PROVE  \A d \in Clusters : \A s \in Waiting(d)' :
             s.op = "addEdge" => Claims(d, s.edge)
<1> SUFFICES ASSUME NEW d \in Clusters, NEW s \in Waiting(d)', s.op = "addEdge"
             PROVE  Claims(d, s.edge)
  OBVIOUS
<1>1. \A t \in Waiting(d) : t.op = "addEdge" => Claims(d, t.edge)
  BY DEF RowsOwned
<1>2. CASE s \in todo'[d]
  BY <1>1, <1>2 DEF Waiting
<1>3. CASE s \notin todo'[d]
  <2>1. PICK x \in late' : x[1] = d /\ s = x[2]
    BY <1>3 DEF Waiting
  <2>2. s \in Waiting(d)
    BY <2>1 DEF Waiting
  <2> QED BY <1>1, <2>2
<1> QED BY <1>2, <1>3

(* Nothing is written, and the request queues edges of its cluster.        *)
LEMMA QueueOwned ==
    ASSUME RowsOwned, UNCHANGED tables,
           \A d \in Clusters : \A s \in todo'[d] :
             s \in todo[d] \/ (s.op = "addEdge" => Claims(d, s.edge)),
           \A x \in late' : x \in late \/ x[2] \in todo[x[1]]
    PROVE  RowsOwned'
<1>1. \A d \in Clusters : \A s \in Waiting(d)' : s.op = "addEdge" => Claims(d, s.edge)
  BY WaitingOwned
<1> QED BY <1>1 DEF RowsOwned, tables, Claims

LEMMA StatementKeepsSyncInv ==
    ASSUME ConsistentStates, SyncInv, NEW c \in Clusters, Statement(c)
    PROVE  SyncInv'
<1>1. PICK s \in todo[c] : \/ Execute(c, s) \/ Isolate(c, s) \/ Lose(c, s)
                           \/ Drop(c, s) \/ Refuse(c, s)
  BY DEF Statement
<1>2. /\ IInv /\ TypeOK /\ RowsOwned /\ Progress(c)
      /\ s \in Statements(c) /\ s \in Waiting(c)
  BY DEF SyncInv, IInv, Waiting
<1>3. /\ todo' = [todo EXCEPT ![c] = @ \ {s}]
      /\ UNCHANGED <<late, phase, body, base, decodeErr, known, totals>>
      /\ Apply(c, s) \/ UNCHANGED tables
      /\ \A d \in Clusters \ {c} :
           UNCHANGED <<todo[d], errors[d], connError[d], lapses[d]>>
      /\ todo'[c] = todo[c] \ {s}
  BY <1>1, <1>2 DEF Execute, Isolate, Lose, Drop, Refuse, Take, rest, IInv, TypeOK
<1>4. phase[c] \in {"sync", "resources", "edges"} /\ body[c] \in States[c]
  BY <1>2 DEF Progress, IInv, TypeOK, Phases, Counting
<1>5. ASSUME NEW d \in Clusters \ {c} PROVE Untouched(d)
  <2>1. /\ OwnResources(resources, d)' = OwnResources(resources, d)
        /\ OwnEdges(edges, d)' = OwnEdges(edges, d)
    <3>1. CASE Apply(c, s)
      BY <1>2, <3>1, ApplyStatement, OwnOfOthers
    <3>2. CASE UNCHANGED tables
      BY <3>2 DEF tables
    <3> QED BY <1>3, <3>1, <3>2
  <2> QED BY <1>3, <2>1 DEF Untouched
<1>6. RowsOwned'
  <2>1. CASE Apply(c, s)
    <3>1. \A d \in Clusters : \A t \in Waiting(d)' : t.op = "addEdge" => Claims(d, t.edge)
      BY <1>2, <1>3, WaitingOwned
    <3> QED BY <1>2, <2>1, <3>1, StatementOwned DEF RowsOwned, Claims
  <2>2. CASE UNCHANGED tables
    BY <1>2, <1>3, <2>2, QueueOwned
  <2> QED BY <1>3, <2>1, <2>2
<1>7. ASSUME Clean(c)' PROVE Execute(c, s) /\ Clean(c)
  <2>1. CASE Execute(c, s)
    BY <1>7, <2>1 DEF Execute, Clean, Faultless, rest
  <2>2. CASE Isolate(c, s)
    BY <1>2, <1>7, <2>2 DEF Isolate, Clean, Faultless, TypeOK
  <2>3. CASE Lose(c, s)
    BY <1>2, <1>7, <2>3 DEF Lose, Clean, Faultless, TypeOK
  <2>4. CASE Drop(c, s)
    BY <1>2, <1>7, <2>4 DEF Drop, Clean, TypeOK
  <2>5. CASE Refuse(c, s)
    BY <1>7, <2>5 DEF Refuse, Clean, Faultless
  <2> QED BY <1>1, <2>1, <2>2, <2>3, <2>4, <2>5
<1>8. /\ body[c] \in ClusterState /\ UniqueUids(body[c].resources)
      /\ \A e \in body[c].edges : e.type # "interCluster"
  BY <1>4, StatesAssumption DEF ConsistentStates
<1>9. ASSUME Clean(c)' PROVE ResourcesComing(c)'
  <2>1. Apply(c, s) /\ ResourcesComing(c)
    BY <1>2, <1>4, <1>7, <1>9 DEF Execute, Progress
  <2> QED BY <1>2, <1>3, <1>8, <2>1, StatementResources
<1>10. ASSUME Clean(c)', phase'[c] \in {"sync", "edges"} PROVE EdgesComing(c)'
  <2>1. Apply(c, s) /\ EdgesComing(c)
    BY <1>2, <1>3, <1>7, <1>10 DEF Execute, Progress
  <2> QED BY <1>2, <1>3, <1>8, <2>1, StatementEdges
<1>11. Progress(c)'
  BY <1>2, <1>3, <1>4, <1>9, <1>10 DEF Progress, Counting, Counted
<1>12. Confirmed(c)'
  BY <1>3, <1>4 DEF Confirmed
<1>13. IInv'
  BY <1>2, StatementKeepsIInv
<1> QED BY <1>2, <1>3, <1>5, <1>6, <1>11, <1>12, <1>13, StepKeepsSyncInv
(* A handler returns; the collector is told k.                             *)
LEMMA ReturnKeepsSyncInv ==
    ASSUME SyncInv, NEW c \in Clusters, Return(c),
           NEW k, known' = [known EXCEPT ![c] = k],
           \A d \in Clusters \ {c} : totals'[d] = totals[d],
           \A x \in late' : x \in late \/ x[2] \in todo[x[1]],
           IInv', Confirmed(c)'
    PROVE  SyncInv'
<1>1. IInv /\ TypeOK /\ RowsOwned
  BY DEF SyncInv, IInv
<1>2. /\ UNCHANGED tables
      /\ todo' = [todo EXCEPT ![c] = {}]
      /\ phase'[c] = "idle" /\ todo'[c] = {}
      /\ \A d \in Clusters : todo'[d] \subseteq todo[d]
  BY <1>1 DEF Return, IInv, TypeOK
<1>3. ASSUME NEW d \in Clusters \ {c} PROVE Untouched(d)
  BY <1>1 DEF Return, Untouched, tables, IInv, TypeOK
<1>4. RowsOwned'
  BY <1>1, <1>2, QueueOwned
<1>5. Progress(c)'
  BY <1>2 DEF Progress, Counting, Counted
<1> QED BY <1>3, <1>4, <1>5, StepKeepsSyncInv

LEMMA FailKeepsSyncInv ==
    ASSUME SyncInv, NEW c \in Clusters, Fail(c),
           late' = late \/ late' = late \cup ({c} \X todo[c])
    PROVE  SyncInv'
<1>1. /\ Return(c)
      /\ known' = [known EXCEPT ![c] = Unknown]
      /\ totals' = [totals EXCEPT ![c] = <<0, 0>>]
  BY DEF Fail
<1>2. IInv /\ DOMAIN known = Clusters /\ DOMAIN totals = Clusters
  BY DEF SyncInv, IInv, TypeOK
<1>3. IInv'
  BY <1>2, FailKeepsIInv
<1>4. Confirmed(c)'
  BY <1>1, <1>2 DEF Confirmed
<1>5. /\ \A x \in late' : x \in late \/ x[2] \in todo[x[1]]
      /\ \A d \in Clusters \ {c} : totals'[d] = totals[d]
  BY <1>1, <1>2
<1> HIDE DEF Return
<1> QED BY <1>1, <1>3, <1>4, <1>5, ReturnKeepsSyncInv

(* The request goes on to its next phase.                                  *)
LEMMA ContinueKeepsSyncInv ==
    ASSUME SyncInv, NEW c \in Clusters, NEW next \in {"query", "totals"},
           Continue(c, next), UNCHANGED late, todo[c] = {},
           \/ next = "query" /\ phase[c] = "resources"
           \/ next = "totals" /\ phase[c] \in {"sync", "edges"},
           ~connError[c], ~decodeErr[c]
    PROVE  SyncInv'
<1>1. IInv /\ TypeOK /\ RowsOwned /\ Progress(c)
  BY DEF SyncInv, IInv
<1>2. /\ phase' = [phase EXCEPT ![c] = next]
      /\ UNCHANGED <<resources, edges, body, base, todo, errors, connError, decodeErr,
                      known, totals, lapses>>
      /\ phase'[c] = next
  BY <1>1 DEF Continue, Goto, tables, TypeOK
<1>3. next \in Phases /\ phase[c] # "idle"
  BY DEF Phases
<1>4. IInv'
  BY <1>1, <1>3, ContinueKeepsIInv
<1>5. ASSUME NEW d \in Clusters \ {c} PROVE Untouched(d)
  BY <1>1, <1>2 DEF Untouched, TypeOK
<1>6. RowsOwned'
  BY <1>1, <1>2, QueueOwned DEF tables
<1>7. /\ Clean(c)' = Clean(c)
      /\ ResourcesComing(c)' = ResourcesComing(c)
      /\ EdgesComing(c)' = EdgesComing(c)
  BY <1>2 DEF Clean, Faultless, ResourcesComing, EdgesComing
<1>8. Progress(c)'
  BY <1>1, <1>2, <1>3, <1>7 DEF Progress, Counting, Counted
<1>9. Confirmed(c)'
  BY <1>2 DEF Confirmed
<1> QED BY <1>1, <1>4, <1>5, <1>6, <1>8, <1>9, StepKeepsSyncInv

LEMMA DoneKeepsSyncInv ==
    ASSUME SyncInv, NEW c \in Clusters,
           SyncDone(c) \/ ResourcesDone(c) \/ EdgesDone(c)
    PROVE  SyncInv'
<1>1. Progress(c)
  BY DEF SyncInv
<1>2. CASE SyncDone(c)
  <2>1. phase[c] = "sync" /\ todo[c] = {} /\ ~decodeErr[c] /\ UNCHANGED late
    BY <1>1, <1>2 DEF SyncDone, Progress
  <2>2. CASE connError[c]
    BY <1>1, <1>2, <2>1, <2>2, FailKeepsSyncInv DEF SyncDone
  <2>3. CASE ~connError[c]
    BY <1>2, <2>1, <2>3, ContinueKeepsSyncInv DEF SyncDone
  <2> QED BY <2>2, <2>3
<1>3. CASE ResourcesDone(c)
  <2>1. phase[c] = "resources" /\ todo[c] = {} /\ UNCHANGED late
    BY <1>3 DEF ResourcesDone
  <2>2. CASE decodeErr[c] \/ connError[c]
    BY <1>1, <1>3, <2>1, <2>2, FailKeepsSyncInv DEF ResourcesDone
  <2>3. CASE ~decodeErr[c] /\ ~connError[c]
    BY <1>3, <2>1, <2>3, ContinueKeepsSyncInv DEF ResourcesDone
  <2> QED BY <2>2, <2>3
<1>4. CASE EdgesDone(c)
  <2>1. phase[c] = "edges" /\ todo[c] = {} /\ UNCHANGED late
    BY <1>4 DEF EdgesDone
  <2>2. CASE decodeErr[c] \/ connError[c]
    BY <1>1, <1>4, <2>1, <2>2, FailKeepsSyncInv DEF EdgesDone
  <2>3. CASE ~decodeErr[c] /\ ~connError[c]
    BY <1>4, <2>1, <2>3, ContinueKeepsSyncInv DEF EdgesDone
  <2> QED BY <2>2, <2>3
<1> QED BY <1>2, <1>3, <1>4
(* When nothing waits any more, the state of the request is stored.        *)
LEMMA ResourcesSettled ==
    ASSUME IInv, NEW c \in Clusters, todo[c] = {}, ResourcesComing(c)
    PROVE  OwnResources(resources, c) = body[c].resources
<1> DEFINE own == OwnResources(resources, c)
<1>1. UniqueUids(own)
  <2>1. resources \in SUBSET ResourceRow /\ UniqueUids(resources)
    BY DEF IInv, TypeOK
  <2> QED BY <2>1 DEF OwnResources, UniqueUids
<1>2. /\ \A r \in body[c].resources : r \in own
      /\ \A r \in own : r.uid \in Uids(body[c].resources)
  BY DEF ResourcesComing
<1> HIDE DEF own
<1>3. \A r \in own : r \in body[c].resources
  BY <1>1, <1>2 DEF UniqueUids, Uids
<1> QED BY <1>2, <1>3 DEF own

LEMMA EdgesSettled ==
    ASSUME NEW c \in Clusters, todo[c] = {}, EdgesComing(c)
    PROVE  OwnEdges(edges, c) = body[c].edges
BY DEF EdgesComing

(* ClusterTotals counts what is stored.                                    *)
LEMMA CountsKeepSyncInv ==
    ASSUME SyncInv, NEW c \in Clusters, CountResources(c) \/ CountEdges(c)
    PROVE  SyncInv'
<1> DEFINE rs == Cardinality(OwnResources(resources, c))
           es == Cardinality(OwnEdges(edges, c))
<1>1. IInv /\ TypeOK /\ RowsOwned /\ Progress(c)
  BY DEF SyncInv, IInv
<1>2. /\ UNCHANGED <<resources, edges, body, base, todo, errors, connError,
                      decodeErr, late, known, lapses>>
      /\ \A d \in Clusters \ {c} : UNCHANGED <<phase[d], totals[d]>>
      /\ \/ /\ phase[c] = "totals" /\ phase'[c] = "count"
            /\ totals'[c][1] = rs
         \/ /\ phase[c] = "count" /\ phase'[c] = "respond"
            /\ totals'[c][1] = totals[c][1] /\ totals'[c][2] = es
  BY <1>1 DEF CountResources, CountEdges, Goto, tables, TypeOK
<1>3. IInv'
  BY <1>1, CountsKeepIInv
<1>4. ASSUME NEW d \in Clusters \ {c} PROVE Untouched(d)
  BY <1>2 DEF Untouched
<1>5. RowsOwned'
  BY <1>1, <1>2, QueueOwned DEF tables
<1>6. /\ Clean(c)' = Clean(c)
      /\ ResourcesComing(c)' = ResourcesComing(c)
      /\ EdgesComing(c)' = EdgesComing(c)
  BY <1>2 DEF Clean, Faultless, ResourcesComing, EdgesComing
<1>7. ASSUME Clean(c) PROVE Counted(c, body[c])'
  <2>1. /\ todo[c] = {} /\ ResourcesComing(c) /\ EdgesComing(c)
        /\ phase[c] = "count" => totals[c][1] = Cardinality(body[c].resources)
    BY <1>1, <1>2, <1>7 DEF Progress, Counting, Counted
  <2>2. rs = Cardinality(body[c].resources) /\ es = Cardinality(body[c].edges)
    BY <1>1, <2>1, ResourcesSettled, EdgesSettled
  <2> HIDE DEF rs, es
  <2> QED BY <1>2, <2>1, <2>2 DEF Counted
<1> HIDE DEF rs, es
<1>8. Progress(c)'
  BY <1>1, <1>2, <1>6, <1>7 DEF Progress, Counting
<1>9. Confirmed(c)'
  BY <1>2 DEF Confirmed
<1> QED BY <1>3, <1>4, <1>5, <1>8, <1>9, StepKeepsSyncInv

(* What a response without an error confirms.                              *)
LEMMA RespondsWithGoal ==
    ASSUME SyncInv, NEW c \in Clusters, phase[c] = "respond",
           base[c], ~errors[c], lapses[c] = {}
    PROVE  /\ OwnResources(resources, c) = body[c].resources
           /\ OwnEdges(edges, c) = body[c].edges
           /\ totals[c] = <<Cardinality(body[c].resources), Cardinality(body[c].edges)>>
<1>1. IInv /\ TypeOK /\ Progress(c)
  BY DEF SyncInv, IInv
<1>2. Clean(c) /\ todo[c] = {}
  BY <1>1 DEF Progress, Counting, Clean, Faultless
<1>3. ResourcesComing(c) /\ EdgesComing(c) /\ Counted(c, body[c])
  BY <1>1, <1>2 DEF Progress, Counting
<1>4. totals[c] = <<totals[c][1], totals[c][2]>>
  BY <1>1 DEF TypeOK
<1>5. totals[c] = <<Cardinality(body[c].resources), Cardinality(body[c].edges)>>
  BY <1>3, <1>4 DEF Counted
<1> QED BY <1>1, <1>2, <1>3, <1>5, ResourcesSettled, EdgesSettled

LEMMA RespondOkKeepsSyncInv ==
    ASSUME SyncInv, NEW c \in Clusters, RespondOk(c)
    PROVE  SyncInv'
<1> DEFINE k == IF base[c] /\ ~errors[c] THEN body[c] ELSE Unknown
<1>1. /\ Return(c)
      /\ known' = [known EXCEPT ![c] = k]
      /\ UNCHANGED <<late, totals>>
      /\ phase[c] = "respond"
  BY DEF RespondOk
<1>2. IInv /\ TypeOK /\ DOMAIN known = Clusters
  BY DEF SyncInv, IInv
<1>3. IInv'
  BY <1>2, RespondOkKeepsIInv
<1>4. Confirmed(c)'
  <2>1. known'[c] = k /\ UNCHANGED <<resources, edges, lapses, totals>>
    BY <1>1, <1>2 DEF Return, tables
  <2>2. CASE k = Unknown
    BY <2>1, <2>2 DEF Confirmed
  <2>3. CASE k # Unknown /\ lapses[c] = {}
    <3>1. base[c] /\ ~errors[c] /\ k = body[c]
      BY <2>3
    <3> HIDE DEF k
    <3> QED BY <1>1, <2>1, <2>3, <3>1, RespondsWithGoal DEF Confirmed
  <2>4. CASE lapses[c] # {}
    BY <2>1, <2>4 DEF Confirmed
  <2> QED BY <2>2, <2>3, <2>4
<1> HIDE DEF Return, k
<1> QED BY <1>1, <1>2, <1>3, <1>4, ReturnKeepsSyncInv

(* A request queues statements.                                            *)
LEMMA QueueKeepsSyncInv ==
    ASSUME SyncInv, NEW c \in Clusters, IInv',
           UNCHANGED <<resources, edges, late>>,
           \A d \in Clusters \ {c} :
             UNCHANGED <<phase[d], body[d], base[d], todo[d], errors[d],
                         connError[d], decodeErr[d], known[d], totals[d], lapses[d]>>,
           phase'[c] \in {"sync", "resources", "edges"},
           phase'[c] = "sync" => ~decodeErr'[c],
           known'[c] = Unknown,
           \A s \in todo'[c] : s.op = "addEdge" => Claims(c, s.edge),
           Clean(c)' => ResourcesComing(c)',
           Clean(c)' /\ phase'[c] \in {"sync", "edges"} => EdgesComing(c)'
    PROVE  SyncInv'
<1>1. RowsOwned
  BY DEF SyncInv
<1>2. RowsOwned'
  BY <1>1, QueueOwned DEF tables
<1>3. ASSUME NEW d \in Clusters \ {c} PROVE Untouched(d)
  BY DEF Untouched
<1>4. Progress(c)'
  BY DEF Progress, Counting, Counted
<1>5. Confirmed(c)'
  BY DEF Confirmed
<1> QED BY <1>1, <1>2, <1>3, <1>4, <1>5, StepKeepsSyncInv
(* A delta that starts from the state that is stored.                      *)
LEMMA SyncReachesGoal ==
    ASSUME NEW c \in Clusters, NEW from \in ClusterState, NEW to \in ClusterState,
           UniqueUids(to.resources),
           \A r \in from.resources : validateUIDPrefix(r.uid, c),
           \A e \in to.edges : \A uid \in {e.source, e.dest} :
             validateUIDPrefix(uid, c) => uid \in Uids(to.resources),
           ~Rejected(Added(from, to) \cup Updated(from, to), c)
    PROVE  LET todo_c == SyncStatements(c, from, to)
           IN  /\ \A r \in to.resources :
                    /\ validateUIDPrefix(r.uid, c)
                    /\ \/ r \in from.resources
                       \/ AddResource(r) \in todo_c
                       \/ UpdateResource(r) \in todo_c /\ r.uid \in Uids(from.resources)
               /\ \A r \in from.resources :
                    r.uid \in Uids(to.resources) \/ \E s \in todo_c : Removes(s, r.uid)
               /\ \A s \in todo_c :
                    /\ s.op \in {"addResource", "updateResource"} =>
                         [uid |-> s.uid, data |-> s.data] \in to.resources
                    /\ \A uid \in Uids(to.resources) : ~Removes(s, uid)
               /\ \A e \in to.edges : e \in from.edges \/ AddEdge(e) \in todo_c
               /\ \A e \in from.edges :
                    e \in to.edges \/ \E s \in todo_c : Cuts(s, e)
               /\ \A s \in todo_c : /\ s.op = "addEdge" => s.edge \in to.edges
                                    /\ \A e \in to.edges : ~Cuts(s, e)
<1> DEFINE todo_c == SyncStatements(c, from, to)
           gone == Deleted(from, to)
<1>1. \A r \in Added(from, to) \cup Updated(from, to) : validateUIDPrefix(r.uid, c)
  BY DEF Rejected, Valid
<1>2. /\ Valid(Added(from, to), c) = Added(from, to)
      /\ Valid(Updated(from, to), c) = Updated(from, to)
  BY <1>1 DEF Valid
<1>3. /\ \A r \in Added(from, to) : AddResource(r) \in todo_c
      /\ \A r \in Updated(from, to) : UpdateResource(r) \in todo_c
      /\ gone # {} => DeleteResources(gone) \in todo_c
      /\ \A e \in to.edges \ from.edges : AddEdge(e) \in todo_c
      /\ \A e \in from.edges \ to.edges : DeleteEdge(e) \in todo_c
  BY <1>2 DEF SyncStatements
<1>4. ASSUME NEW s \in todo_c
      PROVE  \/ \E r \in to.resources : s = AddResource(r) \/ s = UpdateResource(r)
             \/ s = DeleteResources(gone) \/ s = DeleteEdgesOf(gone)
             \/ \E e \in to.edges : s = AddEdge(e)
             \/ \E e \in from.edges \ to.edges : s = DeleteEdge(e)
  BY <1>4 DEF SyncStatements, Valid, Added, Updated
<1> HIDE DEF todo_c
<1>5. ASSUME NEW r \in to.resources
      PROVE  /\ validateUIDPrefix(r.uid, c)
             /\ \/ r \in from.resources
                \/ AddResource(r) \in todo_c
                \/ UpdateResource(r) \in todo_c /\ r.uid \in Uids(from.resources)
  <2>1. r \in from.resources \/ r \in Added(from, to) \/ r \in Updated(from, to)
    BY DEF Added, Updated
  <2>2. r \in Updated(from, to) => r.uid \in Uids(from.resources)
    BY DEF Updated
  <2> QED BY <1>1, <1>3, <2>1, <2>2
<1>6. ASSUME NEW r \in from.resources, r.uid \notin Uids(to.resources)
      PROVE  \E s \in todo_c : Removes(s, r.uid)
  <2>1. r.uid \in gone
    BY <1>6 DEF Deleted, Uids
  <2> QED BY <1>3, <2>1 DEF Removes, DeleteResources
<1>7. \A uid \in gone : uid \notin Uids(to.resources) /\ validateUIDPrefix(uid, c)
  BY DEF Deleted, Uids
<1> HIDE DEF gone
<1>8. ASSUME NEW s \in todo_c, Writes(s)
      PROVE  [uid |-> s.uid, data |-> s.data] \in to.resources
  <2>1. PICK r \in to.resources : s = AddResource(r) \/ s = UpdateResource(r)
    BY <1>4, <1>8 DEF Writes, DeleteResources, DeleteEdgesOf, AddEdge, DeleteEdge
  <2>2. s.uid = r.uid /\ s.data = r.data
    BY <2>1 DEF AddResource, UpdateResource
  <2>3. r = [uid |-> r.uid, data |-> r.data]
    BY DEF ClusterState, Resource
  <2> QED BY <2>2, <2>3
<1>9. ASSUME NEW s \in todo_c, NEW uid \in Uids(to.resources) PROVE ~Removes(s, uid)
  BY <1>4, <1>7 DEF Removes, AddResource, UpdateResource, DeleteResources,
                    DeleteEdgesOf, AddEdge, DeleteEdge
<1>10. ASSUME NEW s \in todo_c, s.op = "addEdge" PROVE s.edge \in to.edges
  BY <1>4, <1>10 DEF AddResource, UpdateResource, DeleteResources, DeleteEdgesOf,
                     AddEdge, DeleteEdge
<1>11. ASSUME NEW s \in todo_c, NEW e \in to.edges PROVE ~Cuts(s, e)
  <2>1. e.source \notin gone /\ e.dest \notin gone
    BY <1>7
  <2> QED BY <1>4, <2>1 DEF Cuts, AddResource, UpdateResource, DeleteResources,
                            DeleteEdgesOf, AddEdge, DeleteEdge
<1>12. ASSUME NEW e \in from.edges, e \notin to.edges
       PROVE  \E s \in todo_c : Cuts(s, e)
  <2>1. Cuts(DeleteEdge(e), e)
    BY DEF Cuts, DeleteEdge
  <2> QED BY <1>3, <1>12, <2>1
<1>13. \A e \in to.edges : e \in from.edges \/ AddEdge(e) \in todo_c
  BY <1>3
<1> QED BY <1>5, <1>6, <1>8, <1>9, <1>10, <1>11, <1>12, <1>13 DEF todo_c, Writes

LEMMA StartSyncKeepsSyncInv ==
    ASSUME ConsistentStates, SyncInv, NEW c \in Clusters,
           NEW from \in States[c], NEW to \in States[c], StartSync(c, from, to)
    PROVE  SyncInv'
<1>1. IInv /\ TypeOK /\ RowsOwned /\ InSync /\ DOMAIN known = Clusters
      /\ DOMAIN todo = Clusters /\ DOMAIN body = Clusters
  BY DEF SyncInv, IInv
<1>2. /\ UNCHANGED <<resources, edges, late>>
      /\ phase[c] = "idle" /\ phase'[c] = "sync"
      /\ body'[c] = to /\ todo'[c] = SyncStatements(c, from, to)
      /\ base'[c] = (from = known[c]) /\ decodeErr'[c] = FALSE
      /\ errors'[c] = Rejected(Added(from, to) \cup Updated(from, to), c)
      /\ \A d \in Clusters \ {c} :
           UNCHANGED <<phase[d], body[d], base[d], todo[d], errors[d],
                       connError[d], decodeErr[d], known[d], totals[d], lapses[d]>>
      /\ known'[c] = Unknown /\ lapses'[c] = lapses[c]
  BY <1>1 DEF StartSync, Goto, Await, TypeOK
<1>3. IInv'
  BY <1>1, StartSyncKeepsIInv
<1>4. /\ from \in ClusterState /\ to \in ClusterState /\ from # Unknown
      /\ UniqueUids(to.resources)
      /\ \A e \in to.edges : \A uid \in {e.source, e.dest} :
           validateUIDPrefix(uid, c) => uid \in Uids(to.resources)
  BY StatesAssumption DEF ConsistentStates
<1>5. \A s \in todo'[c] : s.op = "addEdge" => Claims(c, s.edge)
  <2>1. \A s \in todo'[c] : s.op = "addEdge" => s.edge \in to.edges
    BY <1>2 DEF SyncStatements, AddResource, UpdateResource, DeleteResources,
                DeleteEdgesOf, AddEdge, DeleteEdge
  <2> QED BY <2>1 DEF Claims
<1>6. ASSUME Clean(c)' PROVE ResourcesComing(c)' /\ EdgesComing(c)'
  <2>1. /\ from = known[c]
        /\ ~Rejected(Added(from, to) \cup Updated(from, to), c)
        /\ lapses[c] = {}
    BY <1>2, <1>6 DEF Clean, Faultless
  <2>2. /\ OwnResources(resources, c) = from.resources
        /\ OwnEdges(edges, c) = from.edges
    BY <1>1, <1>2, <1>4, <2>1 DEF InSync
  <2>3. \A r \in from.resources : validateUIDPrefix(r.uid, c)
    <3>1. resources \in SUBSET ResourceRow
      BY <1>1 DEF TypeOK
    <3> QED BY <1>1, <2>2, <3>1 DEF OwnResources, RowsOwned, validateUIDPrefix
  <2>4. /\ OwnResources(resources, c)' = from.resources
        /\ OwnEdges(edges, c)' = from.edges
    BY <1>2, <2>2
  <2> QED BY <1>2, <1>4, <2>1, <2>3, <2>4, SyncReachesGoal
          DEF ResourcesComing, EdgesComing
<1> QED BY <1>2, <1>3, <1>5, <1>6, QueueKeepsSyncInv

LEMMA StartResyncKeepsSyncInv ==
    ASSUME ConsistentStates, SyncInv, NEW c \in Clusters, NEW to \in States[c],
           NEW decoded \in SUBSET to.resources, NEW failed \in BOOLEAN,
           StartResync(c, to, decoded, failed)
    PROVE  SyncInv'
<1> DEFINE incoming == Valid(decoded, c)
           kept == KeptUids(incoming, c)
<1>1. /\ IInv /\ TypeOK /\ DOMAIN known = Clusters
      /\ DOMAIN todo = Clusters /\ DOMAIN body = Clusters
  BY DEF SyncInv, IInv
<1>2. /\ UNCHANGED <<resources, edges, late>>
      /\ phase'[c] = "resources" /\ body'[c] = to
      /\ todo'[c] = {AddResource(r) : r \in incoming}
                      \cup {DeleteOtherResources(kept), DeleteOtherEdges(kept)}
      /\ errors'[c] = Rejected(decoded, c)
      /\ decodeErr'[c] = failed /\ known'[c] = Unknown
      /\ lapses'[c] = {} => failed \/ decoded = to.resources
      /\ \A d \in Clusters \ {c} :
           UNCHANGED <<phase[d], body[d], base[d], todo[d], errors[d],
                       connError[d], decodeErr[d], known[d], totals[d], lapses[d]>>
  BY <1>1 DEF StartResync, Goto, Await, TypeOK
<1>3. IInv'
  BY <1>1, StartResyncKeepsIInv
<1>4. \A s \in todo'[c] : s.op # "addEdge"
  BY <1>2 DEF AddResource, DeleteOtherResources, DeleteOtherEdges
<1>5. ASSUME Clean(c)' PROVE ResourcesComing(c)'
  <2>1. decoded = to.resources /\ incoming = to.resources
    BY <1>2, <1>5 DEF Clean, Faultless, Rejected
  <2>2. \A r \in to.resources : validateUIDPrefix(r.uid, c)
    BY <2>1 DEF Valid
  <2>3. kept = Uids(to.resources) \cup {Node(c)}
    BY <2>1 DEF KeptUids
  <2>4. \A r \in to.resources : AddResource(r) \in todo'[c]
    BY <1>2, <2>1
  <2>5. \A r \in OwnResources(resources, c) : r.uid # Node(c)
    BY DEF OwnResources
  <2>6. ASSUME NEW r \in OwnResources(resources, c), r.uid \notin Uids(to.resources)
        PROVE  \E s \in todo'[c] : Removes(s, r.uid)
    <3>1. r.uid \notin kept
      BY <2>3, <2>5, <2>6
    <3>2. Removes(DeleteOtherResources(kept), r.uid)
      BY <3>1 DEF Removes, DeleteOtherResources
    <3> QED BY <1>2, <3>2
  <2>7. \A s \in todo'[c] : \/ \E r \in to.resources : s = AddResource(r)
                            \/ s = DeleteOtherResources(kept)
                            \/ s = DeleteOtherEdges(kept)
    BY <1>2, <2>1
  <2> HIDE DEF incoming, kept
  <2>8. \A s \in todo'[c] : \A uid \in Uids(to.resources) : ~Removes(s, uid)
    BY <2>3, <2>7 DEF Removes, AddResource, DeleteOtherResources, DeleteOtherEdges
  <2>9. ASSUME NEW s \in todo'[c], s.op \in {"addResource", "updateResource"}
        PROVE  [uid |-> s.uid, data |-> s.data] \in to.resources
    <3>1. PICK r \in to.resources : s = AddResource(r)
      BY <2>7, <2>9 DEF DeleteOtherResources, DeleteOtherEdges
    <3>2. r = [uid |-> r.uid, data |-> r.data]
      BY StatesAssumption DEF ClusterState, Resource
    <3> QED BY <3>1, <3>2 DEF AddResource
  <2>10. OwnResources(resources, c)' = OwnResources(resources, c)
    BY <1>2
  <2> QED BY <1>2, <2>2, <2>4, <2>6, <2>8, <2>9, <2>10 DEF ResourcesComing
<1> HIDE DEF incoming, kept
<1> QED BY <1>2, <1>3, <1>4, <1>5, QueueKeepsSyncInv

LEMMA ResetEdgesKeepsSyncInv ==
    ASSUME SyncInv, NEW c \in Clusters, NEW existing,
           NEW decoded \in SUBSET body[c].edges, NEW failed \in BOOLEAN,
           ResetEdges(c, existing, decoded, failed)
    PROVE  SyncInv'
<1>1. IInv /\ TypeOK /\ Progress(c) /\ DOMAIN todo = Clusters
  BY DEF SyncInv, IInv
<1>2. /\ UNCHANGED <<resources, edges, late, body>>
      /\ phase[c] = "query" /\ phase'[c] = "edges"
      /\ todo'[c] = {AddEdge(e) : e \in decoded \ existing}
                      \cup {DeleteEdge(e) : e \in existing \ decoded}
      /\ base'[c] = base[c] /\ errors'[c] = errors[c]
      /\ decodeErr'[c] = failed /\ known'[c] = known[c]
      /\ lapses'[c] = {} => /\ lapses[c] = {}
                            /\ failed \/ decoded = body[c].edges
                            /\ existing = OwnEdges(edges, c)
      /\ \A d \in Clusters \ {c} :
           UNCHANGED <<phase[d], body[d], base[d], todo[d], errors[d],
                       connError[d], decodeErr[d], known[d], totals[d], lapses[d]>>
  BY <1>1 DEF ResetEdges, Goto, tables, TypeOK
<1>3. IInv'
  BY <1>1, ResetEdgesKeepsIInv
<1>4. body[c] \in States[c] /\ decoded \subseteq body[c].edges
  BY <1>1, <1>2 DEF IInv
<1>5. \A s \in todo'[c] : \/ \E e \in decoded : s = AddEdge(e)
                         \/ \E e \in existing \ decoded : s = DeleteEdge(e)
  BY <1>2
<1>6. \A s \in todo'[c] : s.op = "addEdge" => s.edge \in body[c].edges
  BY <1>4, <1>5 DEF AddEdge, DeleteEdge
<1>7. \A s \in todo'[c] : s.op = "addEdge" => Claims(c, s.edge)
  BY <1>4, <1>6 DEF Claims
<1>8. ASSUME Clean(c)' PROVE ResourcesComing(c)' /\ EdgesComing(c)'
  <2>1. /\ decoded = body[c].edges /\ existing = OwnEdges(edges, c)
        /\ todo[c] = {} /\ Clean(c) /\ ResourcesComing(c)
    BY <1>1, <1>2, <1>8 DEF Clean, Faultless, Progress
  <2>2. /\ OwnResources(resources, c)' = OwnResources(resources, c)
        /\ OwnEdges(edges, c)' = OwnEdges(edges, c)
        /\ body'[c] = body[c]
    BY <1>2
  <2>3. \A s \in todo'[c] : /\ s.op \notin {"addResource", "updateResource"}
                            /\ \A uid : ~Removes(s, uid)
    BY <1>5 DEF AddEdge, DeleteEdge, Removes
  <2>4. ResourcesComing(c)'
    BY <2>1, <2>2, <2>3 DEF ResourcesComing
  <2>5. \A s \in todo'[c] : \A e \in body[c].edges : ~Cuts(s, e)
    BY <1>5, <2>1 DEF AddEdge, DeleteEdge, Cuts
  <2>6. /\ \A e \in body[c].edges : e \in existing \/ AddEdge(e) \in todo'[c]
        /\ \A e \in existing : e \in body[c].edges \/ DeleteEdge(e) \in todo'[c]
    BY <1>2, <2>1
  <2>7. \A e : Cuts(DeleteEdge(e), e)
    BY DEF Cuts, DeleteEdge
  <2>8. EdgesComing(c)'
    BY <1>2, <1>6, <2>1, <2>2, <2>5, <2>6, <2>7 DEF EdgesComing
  <2> QED BY <2>4, <2>8
<1>9. known'[c] = Unknown
  BY <1>1, <1>2 DEF Progress
<1> QED BY <1>2, <1>3, <1>7, <1>8, <1>9, QueueKeepsSyncInv

(* A statement of a request that was given up.                             *)
LEMMA LateKeepsSyncInv ==
    ASSUME ConsistentStates, SyncInv, NEW x \in late, LateStatement(x[1], x[2])
    PROVE  SyncInv'
<1> DEFINE c == x[1]
           s == x[2]
<1>1. IInv /\ TypeOK /\ RowsOwned /\ InSync
  BY DEF SyncInv, IInv
<1>2. c \in Clusters /\ s \in Statements(c) /\ s \in Waiting(c) /\ Progress(c)
  BY <1>1 DEF IInv, Waiting, SyncInv
<1>3. /\ UNCHANGED <<phase, body, base, todo, errors, connError, decodeErr,
                      known, totals>>
      /\ late' \subseteq late
      /\ \/ Apply(c, s) /\ lapses' = [lapses EXCEPT ![c] = @ \cup {"late"}]
         \/ UNCHANGED <<tables, lapses>>
  BY DEF LateStatement, rest
<1> HIDE DEF c, s
<1>4. IInv'
  BY <1>1, LateKeepsIInv
<1>5. ASSUME NEW d \in Clusters \ {c} PROVE Untouched(d)
  <2>1. /\ OwnResources(resources, d)' = OwnResources(resources, d)
        /\ OwnEdges(edges, d)' = OwnEdges(edges, d)
    <3>1. CASE Apply(c, s)
      BY <1>1, <1>2, <3>1, ApplyStatement, OwnOfOthers
    <3>2. CASE UNCHANGED tables
      BY <3>2 DEF tables
    <3> QED BY <1>3, <3>1, <3>2
  <2>2. lapses'[d] = lapses[d]
    BY <1>1, <1>3 DEF TypeOK
  <2> QED BY <1>3, <2>1, <2>2 DEF Untouched
<1>6. RowsOwned'
  <2>1. CASE Apply(c, s)
    <3>1. \A d \in Clusters : \A t \in Waiting(d)' : t.op = "addEdge" => Claims(d, t.edge)
      BY <1>1, <1>3, WaitingOwned
    <3> QED BY <1>1, <1>2, <2>1, <3>1, StatementOwned DEF RowsOwned, Claims
  <2>2. CASE UNCHANGED tables
    BY <1>1, <1>3, <2>2, QueueOwned
  <2> QED BY <1>3, <2>1, <2>2
<1>7. Progress(c)' /\ Confirmed(c)'
  <2>1. CASE UNCHANGED <<tables, lapses>>
    <3>1. Untouched(c) /\ Confirmed(c)
      BY <1>1, <1>2, <1>3, <2>1 DEF Untouched, tables, InSync, Confirmed
    <3> QED BY <1>2, <3>1, UntouchedKeeps
  <2>2. CASE lapses' = [lapses EXCEPT ![c] = @ \cup {"late"}]
    <3>1. lapses'[c] # {}
      BY <1>1, <1>2, <2>2 DEF TypeOK
    <3> QED BY <1>2, <1>3, <3>1 DEF Progress, Confirmed, Clean
  <2> QED BY <1>3, <2>1, <2>2
<1> QED BY <1>2, <1>4, <1>5, <1>6, <1>7, StepKeepsSyncInv
------------------------------------------------------------------------------
(* SyncInv is an invariant.                                                *)

LEMMA InitSyncInv == ASSUME ConsistentStates PROVE Init => SyncInv
<1> SUFFICES ASSUME Init PROVE SyncInv
  OBVIOUS
<1>1. IInv
  BY InitIInv
<1>2. \A c \in Clusters : phase[c] = "idle" /\ todo[c] = {} /\ known[c] = Unknown
  BY DEF Init
<1>3. \A c \in Clusters : Waiting(c) = {}
  BY <1>2 DEF Init, Waiting
<1>4. RowsOwned
  <2>1. PICK db \in Initial : resources = db.resources /\ edges = db.edges
    BY DEF Init
  <2> QED BY <1>3, <2>1 DEF RowsOwned, Claims, ConsistentStates
<1>5. \A c \in Clusters : Progress(c)
  BY <1>2 DEF Progress, Counting, Counted
<1>6. InSync
  BY <1>2 DEF InSync
<1> QED BY <1>1, <1>4, <1>5, <1>6 DEF SyncInv

LEMMA PhaseKeepsSyncInv ==
    ASSUME SyncInv, NEW c \in Clusters, Phase(c)
    PROVE  SyncInv'
<1>1. CASE EdgesAbandoned(c)
  <2>1. Fail(c) /\ (late' = late \/ late' = late \cup ({c} \X todo[c]))
    BY <1>1 DEF EdgesAbandoned
  <2> QED BY <2>1, FailKeepsSyncInv
<1>2. CASE TotalsFail(c)
  BY <1>2, FailKeepsSyncInv DEF TotalsFail
<1>3. ASSUME NEW existing, NEW decoded \in SUBSET body[c].edges,
             NEW failed \in BOOLEAN, ResetEdges(c, existing, decoded, failed)
      PROVE  SyncInv'
  BY <1>3, ResetEdgesKeepsSyncInv
<1> QED BY <1>1, <1>2, <1>3, DoneKeepsSyncInv, CountsKeepSyncInv, RespondOkKeepsSyncInv
        DEF Phase

LEMMA CollectorKeepsSyncInv ==
    ASSUME ConsistentStates, SyncInv, NEW c \in Clusters, Collector(c)
    PROVE  SyncInv'
<1>1. CASE BadRequest(c)
  BY <1>1, FailKeepsSyncInv DEF BadRequest
<1>2. ASSUME NEW from \in States[c], NEW to \in States[c], StartSync(c, from, to)
      PROVE  SyncInv'
  BY <1>2, StartSyncKeepsSyncInv
<1>3. ASSUME NEW to \in States[c], NEW decoded \in SUBSET to.resources,
             NEW failed \in BOOLEAN, StartResync(c, to, decoded, failed)
      PROVE  SyncInv'
  BY <1>3, StartResyncKeepsSyncInv
<1> QED BY <1>1, <1>2, <1>3 DEF Collector

LEMMA NextKeepsSyncInv ==
    ASSUME ConsistentStates, SyncInv, [Next]_vars
    PROVE  SyncInv'
<1>1. CASE Next
  <2>1. PICK c \in Clusters : \/ Statement(c) \/ Phase(c) \/ Collector(c)
                             \/ \E x \in late : x[1] = c /\ LateStatement(c, x[2])
    BY <1>1 DEF Next
  <2> QED BY <2>1, StatementKeepsSyncInv, PhaseKeepsSyncInv, CollectorKeepsSyncInv,
             LateKeepsSyncInv
<1>2. CASE UNCHANGED vars
  <2>1. IInv'
    BY <1>2, NextKeepsIInv DEF SyncInv
  <2>2. RowsOwned' = RowsOwned /\ InSync' = InSync
    BY <1>2 DEF vars, RowsOwned, InSync, Claims, Waiting
  <2>3. \A d \in Clusters : Progress(d)' <=> Progress(d)
    BY <1>2 DEF vars, Progress, Clean, Faultless, Counted, ResourcesComing, EdgesComing
  <2> QED BY <2>1, <2>2, <2>3 DEF SyncInv
<1> QED BY <1>1, <1>2
------------------------------------------------------------------------------
(* The theorems.                                                           *)

(* Whatever order the statements run in and whatever faults there are: the *)
(* statements of a request that can still end without an error, and of     *)
(* which nothing went wrong unreported, lead to its state.                 *)
THEOREM SyncInvariance ==
    ASSUME ConsistentStates
    PROVE  Spec => []SyncInv
<1>1. Init => SyncInv
  BY InitSyncInv
<1>2. SyncInv /\ [Next]_vars => SyncInv'
  BY NextKeepsSyncInv
<1> QED BY <1>1, <1>2, PTL DEF Spec

(* A response without a failure or an error leaves the state of its        *)
(* collector in the tables, and holds its totals, until the next request   *)
(* of the cluster, unless since the last resync began a batch was dropped, *)
(* a body ended between two elements, a query for edges failed or a late   *)
(* statement took effect.                                                  *)
THEOREM InSyncHolds ==
    ASSUME ConsistentStates
    PROVE  Spec => []InSync
<1>1. SyncInv => InSync
  BY DEF SyncInv
<1> QED BY <1>1, SyncInvariance, PTL

LEMMA StatementWrites ==
    ASSUME SyncInv, NEW c \in Clusters, Statement(c)
    PROVE  Store!Write(c)
<1>1. PICK s \in todo[c] : \/ Execute(c, s) \/ Isolate(c, s) \/ Lose(c, s)
                           \/ Drop(c, s) \/ Refuse(c, s)
  BY DEF Statement
<1>2. IInv /\ TypeOK /\ s \in Statements(c) /\ phase[c] # "idle" /\ known[c] = Unknown
  BY DEF SyncInv, IInv, Progress
<1>3. /\ UNCHANGED <<phase, known>>
      /\ Apply(c, s) \/ UNCHANGED tables
      /\ \A d \in Clusters \ {c} : lapses'[d] = lapses[d]
  BY <1>1, <1>2 DEF Execute, Isolate, Lose, Drop, Refuse, rest, TypeOK
<1>4. ASSUME NEW d \in Clusters \ {c} PROVE Stored(d)' = Stored(d)
  <2>1. CASE Apply(c, s)
    BY <1>2, <2>1, ApplyStatement, OwnOfOthers DEF Stored
  <2>2. CASE UNCHANGED tables
    BY <2>2 DEF tables, Stored
  <2> QED BY <1>3, <2>1, <2>2
<1>5. UNCHANGED [d \in Clusters |-> IF lapses[d] = {} THEN known[d] ELSE Unknown]
  BY <1>2, <1>3
<1> QED BY <1>2, <1>3, <1>4, <1>5 DEF Store!Write

LEMMA BeginsRequest ==
    ASSUME SyncInv, NEW c \in Clusters, phase[c] = "idle",
           NEW next \in Phases \ {"idle"}, Goto(c, next), Await(c),
           \A d \in Clusters \ {c} : lapses'[d] = lapses[d],
           UNCHANGED <<resources, edges>>
    PROVE  Store!Begin(c)
<1> DEFINE confirmed == [d \in Clusters |-> IF lapses[d] = {} THEN known[d] ELSE Unknown]
<1>1. phase \in [Clusters -> Phases] /\ DOMAIN known = Clusters
  BY DEF SyncInv, IInv, TypeOK
<1>2. {d \in Clusters : phase'[d] # "idle"} = {d \in Clusters : phase[d] # "idle"} \cup {c}
  BY <1>1 DEF Goto
<1>3. UNCHANGED [d \in Clusters |-> Stored(d)]
  BY DEF Stored
<1>4. confirmed' = [confirmed EXCEPT ![c] = Unknown]
  BY <1>1 DEF Await
<1> QED BY <1>2, <1>3, <1>4 DEF Store!Begin

(* The handler returns; the collector is told k.                           *)
LEMMA ReturnLeaves ==
    ASSUME SyncInv, NEW c \in Clusters, Return(c), NEW k,
           known' = [known EXCEPT ![c] = k]
    PROVE  LET confirmed == [d \in Clusters |->
                               IF lapses[d] = {} THEN known[d] ELSE Unknown]
           IN  /\ {d \in Clusters : phase'[d] # "idle"}
                    = {d \in Clusters : phase[d] # "idle"} \ {c}
               /\ UNCHANGED [d \in Clusters |-> Stored(d)]
               /\ confirmed' = [confirmed EXCEPT ![c] =
                                  IF lapses[c] = {} THEN k ELSE Unknown]
<1>1. phase \in [Clusters -> Phases] /\ DOMAIN known = Clusters
  BY DEF SyncInv, IInv, TypeOK
<1>2. {d \in Clusters : phase'[d] # "idle"} = {d \in Clusters : phase[d] # "idle"} \ {c}
  BY <1>1 DEF Return
<1>3. lapses' = lapses /\ UNCHANGED tables
  BY DEF Return
<1> QED BY <1>1, <1>2, <1>3 DEF tables, Stored

LEMMA FailDisappoints ==
    ASSUME SyncInv, NEW c \in Clusters, Fail(c)
    PROVE  Store!Disappoint(c)
<1>1. Return(c) /\ known' = [known EXCEPT ![c] = Unknown]
  BY DEF Fail
<1> QED BY <1>1, ReturnLeaves DEF Store!Disappoint

LEMMA RespondOkConfirms ==
    ASSUME SyncInv, NEW c \in Clusters, RespondOk(c)
    PROVE  Store!Confirm(c) \/ Store!Disappoint(c)
<1> DEFINE k == IF base[c] /\ ~errors[c] THEN body[c] ELSE Unknown
<1>1. /\ IInv /\ phase[c] = "respond" /\ Return(c)
      /\ known' = [known EXCEPT ![c] = k]
  BY DEF SyncInv, RespondOk
<1>2. CASE base[c] /\ ~errors[c] /\ lapses[c] = {}
  <2>1. Stored(c) = [resources |-> body[c].resources, edges |-> body[c].edges]
    BY <1>1, <1>2, RespondsWithGoal DEF Stored
  <2>2. body[c] \in ClusterState
    BY <1>1, StatesAssumption DEF IInv
  <2>3. Stored(c) = body[c]
    BY <2>1, <2>2 DEF ClusterState
  <2>4. k = Stored(c)
    BY <1>2, <2>3
  <2> HIDE DEF k
  <2>5. Store!Confirm(c)
    BY <1>1, <1>2, <2>4, ReturnLeaves DEF Store!Confirm
  <2> QED BY <2>5
<1>3. CASE ~(base[c] /\ ~errors[c]) \/ lapses[c] # {}
  <2>1. (IF lapses[c] = {} THEN k ELSE Unknown) = Unknown
    BY <1>3
  <2> HIDE DEF k
  <2>2. Store!Disappoint(c)
    BY <1>1, <2>1, ReturnLeaves DEF Store!Disappoint
  <2> QED BY <2>2
<1> QED BY <1>2, <1>3

(* The request of a cluster goes on within its busy period.                *)
LEMMA GoesOn ==
    ASSUME SyncInv, NEW c \in Clusters, phase[c] # "idle",
           NEW next \in Phases \ {"idle"}, Goto(c, next),
           \A d \in Clusters \ {c} : lapses'[d] = lapses[d],
           UNCHANGED <<resources, edges, known>>
    PROVE  UNCHANGED Store!vars
<1>1. phase \in [Clusters -> Phases] /\ known[c] = Unknown
  BY DEF SyncInv, IInv, TypeOK, Progress
<1>2. UNCHANGED {d \in Clusters : phase[d] # "idle"}
  BY <1>1 DEF Goto
<1>3. UNCHANGED [d \in Clusters |-> Stored(d)]
  BY DEF Stored
<1>4. UNCHANGED [d \in Clusters |-> IF lapses[d] = {} THEN known[d] ELSE Unknown]
  BY <1>1
<1> QED BY <1>2, <1>3, <1>4 DEF Store!vars

LEMMA NextKeepsStore ==
    ASSUME SyncInv, late = {}, [Next]_vars
    PROVE  [Store!Next]_(Store!vars)
<1>0. /\ {"sync", "resources", "query", "edges"} \cup Counting \subseteq Phases \ {"idle"}
      /\ {"count", "respond", "totals"} \subseteq Counting
      /\ lapses \in [Clusters -> SUBSET Lapse]
  BY DEF Phases, Counting, SyncInv, IInv, TypeOK
<1>1. ASSUME NEW c \in Clusters, Statement(c) PROVE Store!Next
  BY <1>1, StatementWrites DEF Store!Next
<1>2. ASSUME NEW c \in Clusters, Fail(c) PROVE Store!Next
  BY <1>2, FailDisappoints DEF Store!Next
<1>3. ASSUME NEW c \in Clusters, Phase(c) PROVE [Store!Next]_(Store!vars)
  <2>1. CASE SyncDone(c) \/ ResourcesDone(c) \/ EdgesDone(c)
    <3>1. /\ phase[c] # "idle"
          /\ Fail(c) \/ \E next \in {"query", "totals"} : Continue(c, next)
      BY <2>1 DEF SyncDone, ResourcesDone, EdgesDone
    <3> QED BY <1>0, <1>2, <3>1, GoesOn DEF Continue, tables
  <2>2. CASE EdgesAbandoned(c) \/ TotalsFail(c)
    BY <1>2, <2>2 DEF EdgesAbandoned, TotalsFail
  <2>3. CASE RespondOk(c)
    BY <2>3, RespondOkConfirms DEF Store!Next
  <2>4. CASE CountResources(c) \/ CountEdges(c)
    <3>1. /\ phase[c] # "idle"
          /\ \E next \in {"count", "respond"} : Goto(c, next)
          /\ UNCHANGED <<resources, edges, known, lapses>>
      BY <2>4 DEF CountResources, CountEdges, tables
    <3> QED BY <1>0, <3>1, GoesOn
  <2>5. ASSUME NEW existing, NEW decoded, NEW failed,
               ResetEdges(c, existing, decoded, failed)
        PROVE  UNCHANGED Store!vars
    <3>1. /\ phase[c] # "idle" /\ Goto(c, "edges")
          /\ UNCHANGED <<resources, edges, known>>
          /\ \A d \in Clusters \ {c} : lapses'[d] = lapses[d]
      BY <1>0, <2>5 DEF ResetEdges, tables
    <3> QED BY <1>0, <3>1, GoesOn
  <2> QED BY <1>3, <2>1, <2>2, <2>3, <2>4, <2>5 DEF Phase
<1>4. ASSUME NEW c \in Clusters, Collector(c) PROVE Store!Next
  <2>1. CASE BadRequest(c)
    BY <1>2, <2>1 DEF BadRequest
  <2>2. ASSUME NEW from, NEW to, StartSync(c, from, to) PROVE Store!Next
    <3>1. /\ phase[c] = "idle" /\ Goto(c, "sync") /\ Await(c)
          /\ UNCHANGED <<resources, edges, lapses>>
      BY <2>2 DEF StartSync
    <3> QED BY <1>0, <3>1, BeginsRequest DEF Store!Next
  <2>3. ASSUME NEW to, NEW decoded, NEW failed, StartResync(c, to, decoded, failed)
        PROVE  Store!Next
    <3>1. /\ phase[c] = "idle" /\ Goto(c, "resources") /\ Await(c)
          /\ UNCHANGED <<resources, edges>>
          /\ \A d \in Clusters \ {c} : lapses'[d] = lapses[d]
      BY <1>0, <2>3 DEF StartResync
    <3> QED BY <1>0, <3>1, BeginsRequest DEF Store!Next
  <2> QED BY <1>4, <2>1, <2>2, <2>3 DEF Collector
<1>5. CASE UNCHANGED vars
  BY <1>5 DEF vars, Store!vars, Stored
<1> QED BY <1>1, <1>3, <1>4, <1>5 DEF Next

LEMMA NothingLate ==
    ASSUME "late" \notin Faults, late = {}, [Next]_vars
    PROVE  late' = {}
<1>1. ASSUME NEW c \in Clusters, Phase(c) PROVE late' = {}
  BY <1>1 DEF Phase, SyncDone, ResourcesDone, EdgesDone, EdgesAbandoned,
              CountResources, CountEdges, TotalsFail, RespondOk, ResetEdges
<1>2. ASSUME NEW c \in Clusters, Statement(c) \/ Collector(c) PROVE late' = {}
  BY <1>2 DEF Statement, Execute, Isolate, Lose, Drop, Refuse,
              Collector, BadRequest, StartSync, StartResync
<1>3. CASE UNCHANGED vars
  BY <1>3 DEF vars
<1> QED BY <1>1, <1>2, <1>3 DEF Next

(* The requests implement a store with one state per cluster, if no        *)
(* statement takes effect after its request was given up.  What a response *)
(* after an unreported lapse says confirms nothing.                        *)
THEOREM ImplementsStore ==
    ASSUME ConsistentStates, "late" \notin Faults
    PROVE  Spec => StoreSpec
<1>1. Init => Store!Init /\ late = {}
  BY DEF Init, Store!Init
<1>2. SyncInv /\ late = {} /\ [Next]_vars => [Store!Next]_(Store!vars)
  BY NextKeepsStore
<1>3. late = {} /\ [Next]_vars => (late = {})'
  BY NothingLate
<1> QED BY <1>1, <1>2, <1>3, SyncInvariance, PTL DEF Spec, StoreSpec, Store!Spec
=============================================================================
