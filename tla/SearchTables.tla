---------------------------- MODULE SearchTables ----------------------------
(***************************************************************************)
(* The two tables of the database and the statements that the indexer runs *)
(* on them for a request of a cluster.  A table is a set of rows.          *)
(*   search.resources   primary key uid                                    *)
(*   search.edges       primary key source, dest, type                     *)
(***************************************************************************)
EXTENDS Integers, FiniteSets

CONSTANTS Clusters,   \* names of the clusters
          Names,      \* what follows "<cluster>/" in the uid of a resource
          Data        \* contents of a resource

(* The uid "<cluster>/<name>" that a collector gives to a resource, and    *)
(* the uid "cluster__<cluster>" of the node that stands for the cluster.   *)
Node(c) == <<c, "node">>
Uid == (Clusters \X Names) \cup {Node(c) : c \in Clusters}

EdgeType == {"uses", "interCluster"}
Edge == [source : Uid, dest : Uid, type : EdgeType]

Resource == [uid : Uid, data : Data]
ResourceRow == [uid : Uid, cluster : Clusters, data : Data]
EdgeRow == [edge : Edge, cluster : Clusters]

(* The primary keys.                                                       *)
UniqueUids(table) == \A r, q \in table : r.uid = q.uid => r = q
UniqueEdges(table) == \A r, q \in table : r.edge = q.edge => r = q

(* The name of the node is not the name of a resource.                     *)
ASSUME TablesAssumption == /\ IsFiniteSet(Resource)
                           /\ IsFiniteSet(Edge)
                           /\ "node" \notin Names

(* Mutant of validateUIDPrefix: any uid is accepted.                       *)
AnyUID(uid, c) == uid \in Uid

(* The uid begins with the name of the cluster and a slash.                *)
validateUIDPrefix(uid, c) == uid[1] = c /\ uid # Node(c)

------------------------------------------------------------------------------
(* Statements of a batch.                                                  *)

AddResource(r) == [op |-> "addResource", uid |-> r.uid, data |-> r.data]
UpdateResource(r) == [op |-> "updateResource", uid |-> r.uid, data |-> r.data]
DeleteResources(uids) == [op |-> "deleteResources", uids |-> uids]
DeleteEdgesOf(uids) == [op |-> "deleteEdgesOf", uids |-> uids]
DeleteOtherResources(uids) == [op |-> "deleteOtherResources", uids |-> uids]
DeleteOtherEdges(uids) == [op |-> "deleteOtherEdges", uids |-> uids]
AddEdge(e) == [op |-> "addEdge", edge |-> e]
DeleteEdge(e) == [op |-> "deleteEdge", edge |-> e]

(* Mutant of Upsert: the conflict clause is missing.                       *)
Insert(table, c, uid, data) ==
    table \cup {[uid |-> uid, cluster |-> c, data |-> data]}

(* INSERT ... ON CONFLICT (uid) DO UPDATE SET data WHERE cluster = c       *)
Upsert(table, c, uid, data) ==
    IF \E row \in table : row.uid = uid
      THEN {IF row.uid = uid /\ row.cluster = c
              THEN [row EXCEPT !.data = data] ELSE row : row \in table}
      ELSE table \cup {[uid |-> uid, cluster |-> c, data |-> data]}

(* Mutant of ResourcesAfter: the deletes are not scoped to the cluster.    *)
ResourcesAfterUnscoped(table, c, s) ==
    CASE s.op = "addResource" -> Upsert(table, c, s.uid, s.data)
      [] s.op = "deleteResources" -> {row \in table : row.uid \notin s.uids}
      [] s.op = "deleteOtherResources" -> {row \in table : row.uid \in s.uids}
      [] OTHER -> table

(* search.resources after statement s of cluster c.                        *)
ResourcesAfter(table, c, s) ==
    CASE s.op = "addResource" -> Upsert(table, c, s.uid, s.data)
      [] s.op = "updateResource" ->
           {IF row.uid = s.uid /\ row.cluster = c
              THEN [row EXCEPT !.data = s.data] ELSE row : row \in table}
      [] s.op = "deleteResources" ->
           {row \in table : ~(row.cluster = c /\ row.uid \in s.uids)}
      [] s.op = "deleteOtherResources" ->
           {row \in table : ~(row.cluster = c /\ row.uid \notin s.uids)}
      [] OTHER -> table

(* search.edges after statement s of cluster c; an insert does nothing     *)
(* when the edge exists, whatever cluster it belongs to.                   *)
EdgesAfter(table, c, s) ==
    CASE s.op = "addEdge" ->
           IF \E row \in table : row.edge = s.edge THEN table
             ELSE table \cup {[edge |-> s.edge, cluster |-> c]}
      [] s.op = "deleteEdge" ->
           table \ {[edge |-> s.edge, cluster |-> c]}
      [] s.op = "deleteEdgesOf" ->
           {row \in table : ~(row.cluster = c /\
               (row.edge.source \in s.uids \/ row.edge.dest \in s.uids))}
      [] s.op = "deleteOtherEdges" ->
           {row \in table : ~(row.cluster = c /\
               (row.edge.source \notin s.uids \/ row.edge.dest \notin s.uids))}
      [] OTHER -> table

(* What a collector knows of its cluster: neither the node of the cluster  *)
(* nor interCluster edges (dataValidation.go:23, 36).                      *)
OwnResources(table, c) ==
    {[uid |-> row.uid, data |-> row.data] :
        row \in {q \in table : q.cluster = c /\ q.uid # Node(c)}}
OwnEdges(table, c) ==
    {row.edge : row \in {q \in table : q.cluster = c
                                         /\ q.edge.type # "interCluster"}}

Uids(rs) == {r.uid : r \in rs}

(* The statements that a request of cluster c may send.  The uids that a   *)
(* delta deletes are not validated (sync.go:79-82).                        *)
Statements(c) ==
    [op : {"addResource", "updateResource"},
     uid : {uid \in Uid : validateUIDPrefix(uid, c)}, data : Data]
      \cup [op : {"deleteResources", "deleteEdgesOf"}, uids : SUBSET Uid]
      \cup [op : {"deleteOtherResources", "deleteOtherEdges"},
            uids : {uids \in SUBSET Uid : Node(c) \in uids}]
      \cup [op : {"addEdge", "deleteEdge"}, edge : Edge]
=============================================================================
