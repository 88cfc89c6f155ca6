-------------------------- MODULE SyncRequestProofs --------------------------
(***************************************************************************)
(* Proofs about the statements of the sync and resync requests, for every  *)
(* set of clusters, of resources and of states of the clusters.            *)
(***************************************************************************)
EXTENDS SyncRequest, FiniteSetTheorems, TLAPS

------------------------------------------------------------------------------
(* The statements.                                                         *)

(* UPDATE search.resources SET data WHERE uid AND cluster.                 *)
Changed(table, c, uid, data) ==
    {IF row.uid = uid /\ row.cluster = c
       THEN [row EXCEPT !.data = data] ELSE row : row \in table}

LEMMA UpdateRows ==
    ASSUME NEW table \in SUBSET ResourceRow, UniqueUids(table),
           NEW c \in Clusters, NEW uid \in Uid, NEW data \in Data
    PROVE  LET after == Changed(table, c, uid, data)
           IN  /\ after \in SUBSET ResourceRow
               /\ UniqueUids(after)
               /\ Foreign(after, c) = Foreign(table, c)
               /\ \A row \in table : row.uid # uid => row \in after
<1> DEFINE change(row) == IF row.uid = uid /\ row.cluster = c
                            THEN [row EXCEPT !.data = data] ELSE row
           after == Changed(table, c, uid, data)
<1>1. after = {change(row) : row \in table}
  BY DEF Changed
<1>2. \A row \in table : /\ change(row) \in ResourceRow
                         /\ change(row).uid = row.uid
                         /\ change(row).cluster = row.cluster
                         /\ row.cluster # c \/ row.uid # uid => change(row) = row
  BY DEF ResourceRow
<1> HIDE DEF change, after
<1>3. Foreign(after, c) = Foreign(table, c)
  BY <1>1, <1>2 DEF Foreign
<1>4. UniqueUids(after)
  BY <1>1, <1>2 DEF UniqueUids
<1>5. after \in SUBSET ResourceRow /\ \A row \in table : row.uid # uid => row \in after
  BY <1>1, <1>2
<1> QED BY <1>3, <1>4, <1>5 DEF after

LEMMA UpsertRows ==
    ASSUME NEW table \in SUBSET ResourceRow, UniqueUids(table),
           NEW c \in Clusters, NEW uid \in Uid, NEW data \in Data
    PROVE  LET after == Upsert(table, c, uid, data)
           IN  /\ after \in SUBSET ResourceRow
               /\ UniqueUids(after)
               /\ Foreign(after, c) = Foreign(table, c)
               /\ \A row \in table : row.uid # uid => row \in after
<1>1. CASE \E row \in table : row.uid = uid
  <2>1. Upsert(table, c, uid, data) = Changed(table, c, uid, data)
    BY <1>1 DEF Upsert, Changed
  <2> QED BY <2>1, UpdateRows
<1>2. CASE ~ \E row \in table : row.uid = uid
  <2> DEFINE new == [uid |-> uid, cluster |-> c, data |-> data]
  <2>1. Upsert(table, c, uid, data) = table \cup {new}
    BY <1>2 DEF Upsert
  <2>2. new \in ResourceRow /\ new.uid = uid /\ new.cluster = c
    BY DEF ResourceRow
  <2> HIDE DEF new
  <2> QED BY <1>2, <2>1, <2>2 DEF Foreign, UniqueUids
<1> QED BY <1>1, <1>2

(* A statement of a cluster keeps the primary key of search.resources, the *)
(* rows of the other clusters, and the nodes of all clusters, unless it    *)
(* deletes resources by uid and names the node of its own cluster.         *)
LEMMA ResourceStatement ==
    ASSUME NEW table \in SUBSET ResourceRow, UniqueUids(table),
           NEW c \in Clusters, NEW s \in Statements(c)
    PROVE  /\ ResourcesAfter(table, c, s) \in SUBSET ResourceRow
           /\ UniqueUids(ResourcesAfter(table, c, s))
           /\ Foreign(ResourcesAfter(table, c, s), c) = Foreign(table, c)
           /\ \A row \in table : row.uid = Node(row.cluster) =>
                \/ row \in ResourcesAfter(table, c, s)
                \/ row.cluster = c /\ s.op = "deleteResources" /\ Node(c) \in s.uids
<1> DEFINE after == ResourcesAfter(table, c, s)
<1>1. CASE s.op \in {"addResource", "updateResource"}
  <2>1. s.uid \in Uid /\ s.data \in Data /\ validateUIDPrefix(s.uid, c)
    BY <1>1 DEF Statements
  <2>2. /\ after \in SUBSET ResourceRow
        /\ UniqueUids(after)
        /\ Foreign(after, c) = Foreign(table, c)
        /\ \A row \in table : row.uid # s.uid => row \in after
    <3>1. CASE s.op = "addResource"
      <4>1. after = Upsert(table, c, s.uid, s.data)
        BY <3>1 DEF ResourcesAfter
      <4> QED BY <2>1, <4>1, UpsertRows
    <3>2. CASE s.op = "updateResource"
      <4>1. after = Changed(table, c, s.uid, s.data)
        BY <3>2 DEF ResourcesAfter, Changed
      <4> QED BY <2>1, <4>1, UpdateRows
    <3> QED BY <1>1, <3>1, <3>2
  <2>3. ASSUME NEW row \in table, row.uid = Node(row.cluster) PROVE row.uid # s.uid
    BY <2>1, <2>3 DEF validateUIDPrefix, Node
  <2> QED BY <2>2, <2>3
<1>2. CASE s.op = "deleteResources"
  <2>3. after = {row \in table : ~(row.cluster = c /\ row.uid \in s.uids)}
    BY <1>2 DEF ResourcesAfter
  <2> HIDE DEF after
  <2>4. /\ after \in SUBSET ResourceRow
        /\ UniqueUids(after)
        /\ Foreign(after, c) = Foreign(table, c)
    BY <2>3 DEF UniqueUids, Foreign
  <2>5. \A row \in table : row.uid = Node(row.cluster) =>
          row \in after \/ (row.cluster = c /\ Node(c) \in s.uids)
    BY <2>3
  <2> QED BY <1>2, <2>4, <2>5 DEF after
<1>3. CASE s.op = "deleteOtherResources"
  <2>1. Node(c) \in s.uids
    BY <1>3 DEF Statements
  <2>2. after = {row \in table : ~(row.cluster = c /\ row.uid \notin s.uids)}
    BY <1>3 DEF ResourcesAfter
  <2> HIDE DEF after
  <2>3. /\ after \in SUBSET ResourceRow
        /\ UniqueUids(after)
        /\ Foreign(after, c) = Foreign(table, c)
    BY <2>2 DEF UniqueUids, Foreign
  <2>4. \A row \in table : row.uid = Node(row.cluster) => row \in after
    BY <2>1, <2>2
  <2> QED BY <2>3, <2>4 DEF after
<1>4. CASE s.op \notin {"addResource", "updateResource", "deleteResources",
                        "deleteOtherResources"}
  BY <1>4 DEF ResourcesAfter
<1> QED BY <1>1, <1>2, <1>3, <1>4

(* A statement of a cluster keeps the primary key of search.edges and the  *)
(* edges of the other clusters.                                            *)
LEMMA EdgeStatement ==
    ASSUME NEW table \in SUBSET EdgeRow, UniqueEdges(table),
           NEW c \in Clusters, NEW s \in Statements(c)
    PROVE  /\ EdgesAfter(table, c, s) \in SUBSET EdgeRow
           /\ UniqueEdges(EdgesAfter(table, c, s))
           /\ Foreign(EdgesAfter(table, c, s), c) = Foreign(table, c)
<1>1. CASE s.op = "addEdge"
  <2>1. [edge |-> s.edge, cluster |-> c] \in EdgeRow
    BY <1>1 DEF Statements, EdgeRow
  <2> QED BY <1>1, <2>1 DEF EdgesAfter, UniqueEdges, Foreign
<1>2. CASE s.op \in {"deleteEdge", "deleteEdgesOf", "deleteOtherEdges"}
  <2>1. EdgesAfter(table, c, s) \subseteq table
    BY <1>2 DEF EdgesAfter
  <2>2. Foreign(EdgesAfter(table, c, s), c) = Foreign(table, c)
    BY <1>2 DEF EdgesAfter, Foreign
  <2> QED BY <2>1, <2>2 DEF UniqueEdges
<1>3. CASE s.op \notin {"addEdge", "deleteEdge", "deleteEdgesOf", "deleteOtherEdges"}
  BY <1>3 DEF EdgesAfter
<1> QED BY <1>1, <1>2, <1>3
------------------------------------------------------------------------------
(* The statements that a request queues are statements of its cluster.     *)

LEMMA SyncQueues ==
    ASSUME NEW c \in Clusters, NEW from \in ClusterState, NEW to \in ClusterState
    PROVE  SyncStatements(c, from, to) \subseteq Statements(c)
<1>1. ASSUME NEW r \in Valid(to.resources, c)
      PROVE  AddResource(r) \in Statements(c) /\ UpdateResource(r) \in Statements(c)
  BY <1>1 DEF Valid, ClusterState, Resource, AddResource, UpdateResource, Statements
<1>2. /\ Valid(Added(from, to), c) \subseteq Valid(to.resources, c)
      /\ Valid(Updated(from, to), c) \subseteq Valid(to.resources, c)
  BY DEF Valid, Added, Updated
<1>3. Deleted(from, to) \in SUBSET Uid
  BY DEF Deleted, Uids, ClusterState, Resource
<1>4. /\ DeleteResources(Deleted(from, to)) \in Statements(c)
      /\ DeleteEdgesOf(Deleted(from, to)) \in Statements(c)
  BY <1>3 DEF DeleteResources, DeleteEdgesOf, Statements
<1>5. ASSUME NEW e \in Edge PROVE AddEdge(e) \in Statements(c) /\ DeleteEdge(e) \in Statements(c)
  BY DEF AddEdge, DeleteEdge, Statements
<1>6. from.edges \subseteq Edge /\ to.edges \subseteq Edge
  BY DEF ClusterState
<1> QED BY <1>1, <1>2, <1>4, <1>5, <1>6 DEF SyncStatements

LEMMA ResyncQueues ==
    ASSUME NEW c \in Clusters, NEW decoded \in SUBSET Resource
    PROVE  /\ {AddResource(r) : r \in Valid(decoded, c)} \subseteq Statements(c)
           /\ DeleteOtherResources(KeptUids(Valid(decoded, c), c)) \in Statements(c)
           /\ DeleteOtherEdges(KeptUids(Valid(decoded, c), c)) \in Statements(c)
<1>1. ASSUME NEW r \in Valid(decoded, c) PROVE AddResource(r) \in Statements(c)
  BY <1>1 DEF Valid, Resource, AddResource, Statements
<1>2. Node(c) \in Uid
  BY DEF Uid
<1>3. KeptUids(Valid(decoded, c), c) \in SUBSET Uid /\ Node(c) \in KeptUids(Valid(decoded, c), c)
  BY <1>2 DEF KeptUids, Valid, Uids, Resource
<1> QED BY <1>1, <1>3 DEF DeleteOtherResources, DeleteOtherEdges, Statements

LEMMA EdgeQueues ==
    ASSUME NEW c \in Clusters, edges \subseteq EdgeRow, NEW existing,
           existing \subseteq OwnEdges(edges, c), NEW decoded \in SUBSET Edge
    PROVE  /\ {AddEdge(e) : e \in decoded \ existing} \subseteq Statements(c)
           /\ {DeleteEdge(e) : e \in existing \ decoded} \subseteq Statements(c)
<1>1. existing \subseteq Edge
  BY DEF OwnEdges, EdgeRow
<1>2. ASSUME NEW e \in Edge PROVE AddEdge(e) \in Statements(c) /\ DeleteEdge(e) \in Statements(c)
  BY DEF AddEdge, DeleteEdge, Statements
<1> QED BY <1>1, <1>2
------------------------------------------------------------------------------
(* The invariant.                                                          *)

LEMMA InitIInv == Init => IInv
<1> SUFFICES ASSUME Init PROVE IInv
  OBVIOUS
<1>1. PICK db \in Initial : resources = db.resources /\ edges = db.edges
  BY DEF Init
<1>2. /\ resources \in SUBSET ResourceRow /\ UniqueUids(resources)
      /\ edges \in SUBSET EdgeRow /\ UniqueEdges(edges)
  BY <1>1, StatesAssumption
<1>3. TypeOK
  BY <1>2 DEF Init, TypeOK, Phases
<1> QED BY <1>3 DEF Init, IInv

(* A statement of cluster c is executed: every row of another cluster and  *)
(* every node stays, unless the statement names the node of cluster c.     *)
LEMMA ApplyStatement ==
    ASSUME IInv, NEW c \in Clusters, NEW s \in Statements(c), Apply(c, s)
    PROVE  /\ resources' \in SUBSET ResourceRow /\ UniqueUids(resources')
           /\ edges' \in SUBSET EdgeRow /\ UniqueEdges(edges')
           /\ Foreign(resources', c) = Foreign(resources, c)
           /\ Foreign(edges', c) = Foreign(edges, c)
           /\ \A row \in resources : row.uid = Node(row.cluster) =>
                \/ row \in resources'
                \/ row.cluster = c /\ s.op = "deleteResources" /\ Node(c) \in s.uids
<1>1. /\ resources \in SUBSET ResourceRow /\ UniqueUids(resources)
      /\ edges \in SUBSET EdgeRow /\ UniqueEdges(edges)
  BY DEF IInv, TypeOK
<1>2. resources' = ResourcesAfter(resources, c, s) /\ edges' = EdgesAfter(edges, c, s)
  BY DEF Apply
<1> QED BY <1>1, <1>2, ResourceStatement, EdgeStatement

LEMMA StatementKeepsIInv ==
    ASSUME IInv, NEW c \in Clusters, Statement(c)
    PROVE  IInv'
<1>1. PICK s \in todo[c] : \/ Execute(c, s) \/ Isolate(c, s) \/ Lose(c, s)
                           \/ Drop(c, s) \/ Refuse(c, s)
  BY DEF Statement
<1>2. s \in Statements(c)
  BY DEF IInv
<1>3. /\ todo' = [todo EXCEPT ![c] = @ \ {s}]
      /\ UNCHANGED <<late, rest>>
      /\ connError' = connError \/ connError' = [connError EXCEPT ![c] = TRUE]
      /\ errors' = errors \/ errors' = [errors EXCEPT ![c] = TRUE]
      /\ lapses' = lapses \/ lapses' = [lapses EXCEPT ![c] = @ \cup {"batch"}]
      /\ Apply(c, s) \/ UNCHANGED tables
  BY <1>1 DEF Execute, Isolate, Lose, Drop, Refuse, Take
<1>4. /\ resources' \in SUBSET ResourceRow /\ UniqueUids(resources')
      /\ edges' \in SUBSET EdgeRow /\ UniqueEdges(edges')
  <2>1. CASE Apply(c, s)
    BY <1>2, <2>1, ApplyStatement
  <2>2. CASE UNCHANGED tables
    BY <2>2 DEF tables, IInv, TypeOK
  <2> QED BY <1>3, <2>1, <2>2
<1>5. /\ connError' \in [Clusters -> BOOLEAN] /\ errors' \in [Clusters -> BOOLEAN]
      /\ lapses' \in [Clusters -> SUBSET Lapse]
  <2>1. connError' \in [Clusters -> BOOLEAN] /\ errors' \in [Clusters -> BOOLEAN]
    BY <1>3 DEF IInv, TypeOK
  <2>2. "batch" \in Lapse /\ lapses \in [Clusters -> SUBSET Lapse]
    BY DEF IInv, TypeOK, Lapse
  <2>3. lapses' \in [Clusters -> SUBSET Lapse]
    BY <1>3, <2>2
  <2> QED BY <2>1, <2>3
<1>6. TypeOK'
  <2>1. UNCHANGED <<phase, body, base, decodeErr, known, totals>>
    BY <1>3 DEF rest
  <2>2. /\ phase' \in [Clusters -> Phases]
        /\ \A d \in Clusters : /\ body'[d] \in States[d] \cup {Unknown}
                               /\ known'[d] \in States[d] \cup {Unknown}
        /\ base' \in [Clusters -> BOOLEAN] /\ decodeErr' \in [Clusters -> BOOLEAN]
        /\ totals' \in [Clusters -> Nat \X Nat]
    BY <2>1 DEF IInv, TypeOK
  <2> QED BY <1>4, <1>5, <2>2 DEF TypeOK
<1>7. /\ DOMAIN todo' = Clusters
      /\ \A d \in Clusters : todo'[d] \subseteq Statements(d)
  BY <1>3 DEF IInv
<1> QED BY <1>3, <1>6, <1>7 DEF IInv, rest

(* A handler returns.                                                      *)
LEMMA ReturnKeepsIInv ==
    ASSUME IInv, NEW c \in Clusters, Return(c),
           NEW k \in States[c] \cup {Unknown}, known' = [known EXCEPT ![c] = k],
           totals' \in [Clusters -> Nat \X Nat],
           \/ UNCHANGED late
           \/ late' = late \cup ({c} \X todo[c])
    PROVE  IInv'
<1>1. /\ DOMAIN todo = Clusters /\ DOMAIN body = Clusters
      /\ DOMAIN known = Clusters
  BY DEF IInv
<1>2. TypeOK'
  BY <1>1 DEF IInv, TypeOK, Return, tables, Phases
<1>3. \A x \in late' : /\ x = <<x[1], x[2]>>
                      /\ x[1] \in Clusters
                      /\ x[2] \in Statements(x[1])
  <2>1. CASE UNCHANGED late
    BY <2>1 DEF IInv
  <2>2. CASE late' = late \cup ({c} \X todo[c])
    BY <2>2 DEF IInv
  <2> QED BY <2>1, <2>2
<1>4. /\ DOMAIN todo' = Clusters /\ DOMAIN body' = Clusters
      /\ DOMAIN known' = Clusters
  BY <1>1 DEF Return
<1>5. \A d \in Clusters : todo'[d] \subseteq Statements(d)
  BY <1>1 DEF IInv, TypeOK, Return
<1>6. \A d \in Clusters : phase'[d] # "idle" => body'[d] \in States[d]
  BY <1>1 DEF IInv, TypeOK, Return
<1> HIDE DEF Return
<1> QED BY <1>2, <1>3, <1>4, <1>5, <1>6, Zenon DEF IInv

LEMMA FailKeepsIInv ==
    ASSUME IInv, NEW c \in Clusters, Fail(c),
           \/ UNCHANGED late
           \/ late' = late \cup ({c} \X todo[c])
    PROVE  IInv'
<1>1. Return(c) /\ known' = [known EXCEPT ![c] = Unknown]
  BY DEF Fail
<1>2. Unknown \in States[c] \cup {Unknown} /\ totals' \in [Clusters -> Nat \X Nat]
  BY DEF Fail, IInv, TypeOK
<1> HIDE DEF Return
<1> QED BY <1>1, <1>2, ReturnKeepsIInv

LEMMA ContinueKeepsIInv ==
    ASSUME IInv, NEW c \in Clusters, NEW next \in Phases, Continue(c, next),
           phase[c] # "idle", UNCHANGED late
    PROVE  IInv'
<1>1. TypeOK'
  BY DEF IInv, TypeOK, Continue, Goto, tables
<1> QED BY <1>1 DEF IInv, TypeOK, Continue, Goto

(* A request queues statements.                                            *)
LEMMA QueueKeepsIInv ==
    ASSUME IInv, NEW c \in Clusters,
           NEW next \in Phases, Goto(c, next),
           NEW to \in States[c], body' = [body EXCEPT ![c] = to] \/ (UNCHANGED body /\ to = body[c]),
           NEW based \in BOOLEAN, base' = [base EXCEPT ![c] = based] \/ UNCHANGED base,
           NEW reported \in BOOLEAN,
           errors' = [errors EXCEPT ![c] = reported] \/ UNCHANGED errors,
           NEW queue \in SUBSET Statements(c), todo' = [todo EXCEPT ![c] = queue],
           connError' = [connError EXCEPT ![c] = FALSE],
           NEW undecoded \in BOOLEAN, decodeErr' = [decodeErr EXCEPT ![c] = undecoded],
           Await(c) \/ UNCHANGED <<known, totals>>,
           lapses' \in [Clusters -> SUBSET Lapse],
           UNCHANGED <<resources, edges, late>>
    PROVE  IInv'
<1>1. /\ DOMAIN todo = Clusters /\ DOMAIN body = Clusters
      /\ DOMAIN known = Clusters
  BY DEF IInv
<1>2. /\ DOMAIN todo' = Clusters /\ DOMAIN body' = Clusters
      /\ DOMAIN known' = Clusters
  BY <1>1 DEF Await
<1>3. /\ \A d \in Clusters : known'[d] \in States[d] \cup {Unknown}
      /\ totals' \in [Clusters -> Nat \X Nat]
  BY <1>1 DEF IInv, TypeOK, Await
<1>4. TypeOK'
  BY <1>1, <1>3 DEF IInv, TypeOK, Goto
<1>5. \A d \in Clusters : /\ todo'[d] \subseteq Statements(d)
                         /\ phase'[d] # "idle" => body'[d] \in States[d]
  BY <1>1 DEF IInv, TypeOK, Goto
<1> QED BY <1>2, <1>4, <1>5 DEF IInv

LEMMA StartSyncKeepsIInv ==
    ASSUME IInv, NEW c \in Clusters, NEW from \in States[c], NEW to \in States[c],
           StartSync(c, from, to)
    PROVE  IInv'
<1> DEFINE based == from = known[c]
           reported == Rejected(Added(from, to) \cup Updated(from, to), c)
<1>1. SyncStatements(c, from, to) \in SUBSET Statements(c)
  BY SyncQueues, StatesAssumption
<1>2. /\ Goto(c, "sync")
      /\ body' = [body EXCEPT ![c] = to]
      /\ base' = [base EXCEPT ![c] = based]
      /\ errors' = [errors EXCEPT ![c] = reported]
      /\ Await(c)
      /\ todo' = [todo EXCEPT ![c] = SyncStatements(c, from, to)]
      /\ connError' = [connError EXCEPT ![c] = FALSE]
      /\ decodeErr' = [decodeErr EXCEPT ![c] = FALSE]
      /\ UNCHANGED <<resources, edges, late, lapses>>
  BY DEF StartSync
<1>3. /\ "sync" \in Phases /\ based \in BOOLEAN /\ reported \in BOOLEAN
      /\ lapses' \in [Clusters -> SUBSET Lapse]
  BY <1>2 DEF Phases, Rejected, IInv, TypeOK
<1> HIDE DEF based, reported
<1> QED BY <1>1, <1>2, <1>3, QueueKeepsIInv

LEMMA StartResyncKeepsIInv ==
    ASSUME IInv, NEW c \in Clusters, NEW to \in States[c],
           NEW decoded \in SUBSET to.resources, NEW failed \in BOOLEAN,
           StartResync(c, to, decoded, failed)
    PROVE  IInv'
<1> DEFINE queue == {AddResource(r) : r \in Valid(decoded, c)}
                      \cup {DeleteOtherResources(KeptUids(Valid(decoded, c), c)),
                            DeleteOtherEdges(KeptUids(Valid(decoded, c), c))}
           reported == Rejected(decoded, c)
<1>0. decoded \in SUBSET Resource
  BY StatesAssumption DEF ClusterState
<1>1. queue \in SUBSET Statements(c)
  BY <1>0, ResyncQueues
<1>2. /\ Goto(c, "resources")
      /\ body' = [body EXCEPT ![c] = to]
      /\ base' = [base EXCEPT ![c] = TRUE]
      /\ errors' = [errors EXCEPT ![c] = reported]
      /\ Await(c)
      /\ todo' = [todo EXCEPT ![c] = queue]
      /\ connError' = [connError EXCEPT ![c] = FALSE]
      /\ decodeErr' = [decodeErr EXCEPT ![c] = failed]
      /\ UNCHANGED <<resources, edges, late>>
  BY DEF StartResync
<1>3. /\ "resources" \in Phases /\ reported \in BOOLEAN
      /\ lapses' \in [Clusters -> SUBSET Lapse]
  BY DEF Phases, Rejected, StartResync, IInv, TypeOK, Lapse
<1> HIDE DEF queue, reported
<1> QED BY <1>1, <1>2, <1>3, QueueKeepsIInv

LEMMA ResetEdgesKeepsIInv ==
    ASSUME IInv, NEW c \in Clusters, NEW existing,
           NEW decoded \in SUBSET body[c].edges, NEW failed \in BOOLEAN,
           ResetEdges(c, existing, decoded, failed)
    PROVE  IInv'
<1> DEFINE queue == {AddEdge(e) : e \in decoded \ existing}
                      \cup {DeleteEdge(e) : e \in existing \ decoded}
<1>1. /\ body[c] \in States[c]
      /\ existing \subseteq OwnEdges(edges, c)
      /\ edges \subseteq EdgeRow
  BY DEF ResetEdges, IInv, TypeOK
<1>2. queue \in SUBSET Statements(c)
  <2>1. decoded \in SUBSET Edge
    BY <1>1, StatesAssumption DEF ClusterState
  <2> QED BY <1>1, <2>1, EdgeQueues
<1>3. /\ Goto(c, "edges")
      /\ UNCHANGED <<body, base, errors>>
      /\ todo' = [todo EXCEPT ![c] = queue]
      /\ connError' = [connError EXCEPT ![c] = FALSE]
      /\ decodeErr' = [decodeErr EXCEPT ![c] = failed]
      /\ UNCHANGED <<resources, edges, late, known, totals>>
  BY DEF ResetEdges, tables
<1>4. "edges" \in Phases /\ lapses' \in [Clusters -> SUBSET Lapse]
  BY DEF Phases, ResetEdges, IInv, TypeOK, Lapse
<1> HIDE DEF queue
<1> QED BY <1>1, <1>2, <1>3, <1>4, QueueKeepsIInv

LEMMA RespondOkKeepsIInv ==
    ASSUME IInv, NEW c \in Clusters, RespondOk(c)
    PROVE  IInv'
<1> DEFINE k == IF base[c] /\ ~errors[c] THEN body[c] ELSE Unknown
<1>1. k \in States[c] \cup {Unknown}
  BY DEF IInv, TypeOK
<1>2. /\ Return(c)
      /\ known' = [known EXCEPT ![c] = k]
      /\ totals' \in [Clusters -> Nat \X Nat]
      /\ UNCHANGED late
  BY DEF RespondOk, IInv, TypeOK
<1> HIDE DEF k
<1> QED BY <1>1, <1>2, ReturnKeepsIInv

LEMMA CountsKeepIInv ==
    ASSUME IInv, NEW c \in Clusters, CountResources(c) \/ CountEdges(c)
    PROVE  IInv'
<1> DEFINE rs == Cardinality(OwnResources(resources, c))
           es == Cardinality(OwnEdges(edges, c))
<1>1. rs \in Nat /\ es \in Nat
  <2>1. OwnResources(resources, c) \in SUBSET Resource /\ OwnEdges(edges, c) \in SUBSET Edge
    BY DEF IInv, TypeOK, OwnResources, OwnEdges, ResourceRow, EdgeRow, Resource
  <2> QED BY <2>1, FS_Subset, FS_CardinalityType, TablesAssumption
<1>2. /\ phase[c] # "idle"
      /\ \E next \in {"count", "respond"} : phase' = [phase EXCEPT ![c] = next]
      /\ \E t \in {<<rs, 0>>, <<totals[c][1], es>>} : totals' = [totals EXCEPT ![c] = t]
      /\ UNCHANGED <<resources, edges, body, base, todo, errors, connError, decodeErr,
                     late, known, lapses>>
  BY DEF CountResources, CountEdges, Goto, tables, IInv, TypeOK
<1> HIDE DEF rs, es
<1>3. totals' \in [Clusters -> Nat \X Nat]
  BY <1>1, <1>2 DEF IInv, TypeOK
<1>4. TypeOK'
  BY <1>2, <1>3 DEF IInv, TypeOK, Phases
<1>5. \A d \in Clusters : phase'[d] # "idle" => body'[d] \in States[d]
  BY <1>2 DEF IInv, TypeOK
<1> QED BY <1>2, <1>4, <1>5 DEF IInv

LEMMA PhaseKeepsIInv ==
    ASSUME IInv, NEW c \in Clusters, Phase(c)
    PROVE  IInv'
<1>0. {"query", "totals"} \subseteq Phases
  BY DEF Phases
<1>1. CASE SyncDone(c) \/ ResourcesDone(c) \/ EdgesDone(c)
  <2>1. /\ phase[c] # "idle"
        /\ UNCHANGED late
        /\ Fail(c) \/ \E next \in {"query", "totals"} : Continue(c, next)
    BY <1>1 DEF SyncDone, ResourcesDone, EdgesDone
  <2> QED BY <1>0, <2>1, FailKeepsIInv, ContinueKeepsIInv
<1>2. CASE EdgesAbandoned(c)
  <2>1. late' = late \/ late' = late \cup ({c} \X todo[c])
    BY <1>2 DEF EdgesAbandoned
  <2> QED BY <1>2, <2>1, FailKeepsIInv DEF EdgesAbandoned
<1>3. CASE RespondOk(c)
  BY <1>3, RespondOkKeepsIInv
<1>4. CASE TotalsFail(c)
  BY <1>4, FailKeepsIInv DEF TotalsFail
<1>5. ASSUME NEW existing, NEW decoded \in SUBSET body[c].edges, NEW failed \in BOOLEAN,
             ResetEdges(c, existing, decoded, failed)
      PROVE  IInv'
  BY <1>5, ResetEdgesKeepsIInv
<1>6. CASE CountResources(c) \/ CountEdges(c)
  BY <1>6, CountsKeepIInv
<1> QED BY <1>1, <1>2, <1>3, <1>4, <1>5, <1>6 DEF Phase

LEMMA LateKeepsIInv ==
    ASSUME IInv, NEW x \in late, LateStatement(x[1], x[2])
    PROVE  IInv'
<1>1. x[1] \in Clusters /\ x[2] \in Statements(x[1])
  BY DEF IInv
<1>2. /\ resources' \in SUBSET ResourceRow /\ UniqueUids(resources')
      /\ edges' \in SUBSET EdgeRow /\ UniqueEdges(edges')
  <2>1. CASE Apply(x[1], x[2])
    BY <1>1, <2>1, ApplyStatement
  <2>2. CASE UNCHANGED tables
    BY <2>2 DEF tables, IInv, TypeOK
  <2> QED BY <2>1, <2>2 DEF LateStatement
<1>3. /\ UNCHANGED <<todo, errors, connError, phase, body, base, decodeErr, known, totals>>
      /\ late' \subseteq late
  BY DEF LateStatement, rest
<1>4. lapses' \in [Clusters -> SUBSET Lapse]
  BY DEF LateStatement, IInv, TypeOK, Lapse
<1>5. TypeOK'
  BY <1>2, <1>3, <1>4 DEF IInv, TypeOK
<1> QED BY <1>3, <1>5 DEF IInv

LEMMA NextKeepsIInv == IInv /\ [Next]_vars => IInv'
<1> SUFFICES ASSUME IInv, [Next]_vars PROVE IInv'
  OBVIOUS
<1>1. ASSUME NEW c \in Clusters, Statement(c) PROVE IInv'
  BY <1>1, StatementKeepsIInv
<1>2. ASSUME NEW c \in Clusters, Phase(c) PROVE IInv'
  BY <1>2, PhaseKeepsIInv
<1>3. ASSUME NEW c \in Clusters, Collector(c) PROVE IInv'
  <2>1. CASE BadRequest(c)
    BY <2>1, FailKeepsIInv DEF BadRequest
  <2>2. ASSUME NEW from \in States[c], NEW to \in States[c], StartSync(c, from, to)
        PROVE  IInv'
    BY <2>2, StartSyncKeepsIInv
  <2>3. ASSUME NEW to \in States[c], NEW decoded \in SUBSET to.resources,
               NEW failed \in BOOLEAN, StartResync(c, to, decoded, failed)
        PROVE  IInv'
    BY <2>3, StartResyncKeepsIInv
  <2> QED BY <1>3, <2>1, <2>2, <2>3 DEF Collector
<1>4. ASSUME NEW c \in Clusters, NEW x \in late, x[1] = c, LateStatement(c, x[2])
      PROVE  IInv'
  BY <1>4, LateKeepsIInv
<1>5. CASE UNCHANGED vars
  BY <1>5 DEF vars, IInv, TypeOK
<1> QED BY <1>1, <1>2, <1>3, <1>4, <1>5 DEF Next
------------------------------------------------------------------------------
(* The theorems.                                                           *)

(* The requests of the collectors keep the invariant.                      *)
THEOREM Invariance == Spec => []IInv
BY InitIInv, NextKeepsIInv, PTL DEF Spec

(* Every row has its type, no two rows have one primary key, and the       *)
(* totals in the responses are numbers.                                    *)
THEOREM TypeCorrect == Spec => []TypeOK
<1>1. IInv => TypeOK
  BY DEF IInv
<1> QED BY <1>1, Invariance, PTL

LEMMA OnlyStatementsChangeTables ==
    ASSUME IInv, Next
    PROVE  \/ UNCHANGED tables
           \/ \E c \in Clusters : \E s \in Statements(c) :
                /\ s \in Waiting(c)
                /\ Apply(c, s)
                /\ \A d \in Clusters \ {c} : UNCHANGED Sent(d)
<1>1. PICK c \in Clusters : \/ Statement(c) \/ Phase(c) \/ Collector(c)
                           \/ \E x \in late : x[1] = c /\ LateStatement(c, x[2])
  BY DEF Next
<1>2. CASE Statement(c)
  <2>1. PICK s \in todo[c] : \/ Execute(c, s) \/ Isolate(c, s) \/ Lose(c, s)
                             \/ Drop(c, s) \/ Refuse(c, s)
    BY <1>2 DEF Statement
  <2>2. s \in Statements(c) /\ s \in Waiting(c)
    BY DEF IInv, Waiting
  <2>3. Apply(c, s) \/ UNCHANGED tables
    BY <2>1 DEF Execute, Isolate, Lose, Drop, Refuse
  <2>4. todo' = [todo EXCEPT ![c] = @ \ {s}] /\ UNCHANGED late
    BY <2>1 DEF Execute, Isolate, Lose, Drop, Refuse, Take
  <2>5. \A d \in Clusters \ {c} : UNCHANGED Sent(d)
    BY <2>4 DEF Sent, IInv
  <2> QED BY <2>2, <2>3, <2>5
<1>3. CASE Phase(c) \/ Collector(c)
  BY <1>3 DEF Phase, Collector, BadRequest, SyncDone, ResourcesDone, EdgesDone,
              EdgesAbandoned, CountResources, CountEdges, RespondOk, TotalsFail,
              ResetEdges, StartSync, StartResync, Fail, Continue, Return, tables
<1>4. CASE \E x \in late : x[1] = c /\ LateStatement(c, x[2])
  <2>1. PICK x \in late : x[1] = c /\ LateStatement(c, x[2])
    BY <1>4
  <2>2. x[2] \in Statements(c) /\ x = <<c, x[2]>> /\ x[2] \in Waiting(c)
    BY <2>1 DEF IInv, Waiting
  <2>3. Apply(c, x[2]) \/ UNCHANGED tables
    BY <2>1 DEF LateStatement
  <2>4. UNCHANGED todo /\ late' = late \ {<<c, x[2]>>}
    BY <2>1 DEF LateStatement
  <2>5. \A d \in Clusters \ {c} : UNCHANGED Sent(d)
    BY <2>4 DEF Sent
  <2> QED BY <2>2, <2>3, <2>5
<1> QED BY <1>1, <1>2, <1>3, <1>4

(* No request, whatever uids it names, changes a row of another cluster.   *)
THEOREM ForeignRowsSafe == Spec => ForeignRowsKept
<1> DEFINE Kept == \A c \in Clusters : Sent(c)' # Sent(c) =>
                     /\ Foreign(resources', c) = Foreign(resources, c)
                     /\ Foreign(edges', c) = Foreign(edges, c)
<1>1. ASSUME IInv, [Next]_vars PROVE [Kept]_vars
  <2> SUFFICES ASSUME Next PROVE Kept
    BY <1>1
  <2>1. CASE UNCHANGED tables
    BY <2>1 DEF tables
  <2>2. ASSUME NEW c \in Clusters, NEW s \in Statements(c), Apply(c, s),
               \A d \in Clusters \ {c} : UNCHANGED Sent(d)
        PROVE  Kept
    <3>1. /\ Foreign(resources', c) = Foreign(resources, c)
          /\ Foreign(edges', c) = Foreign(edges, c)
      BY <1>1, <2>2, ApplyStatement
    <3> QED BY <2>2, <3>1
  <2> QED BY <1>1, <2>1, <2>2, OnlyStatementsChangeTables
<1> QED BY <1>1, Invariance, PTL DEF Spec, ForeignRowsKept

(* The node of a cluster survives every request, whatever rows and uids it *)
(* sends, unless the cluster itself has asked to delete its node among the *)
(* resources of a delta.                                                   *)
THEOREM NodesSafe == Spec => NodesKept
<1> DEFINE Kept == \A row \in resources :
                     row.uid = Node(row.cluster) =>
                       row \in resources' \/ DeletesNode(row.cluster)
<1>1. ASSUME IInv, [Next]_vars PROVE [Kept]_vars
  <2> SUFFICES ASSUME Next PROVE Kept
    BY <1>1
  <2>1. CASE UNCHANGED tables
    BY <2>1 DEF tables
  <2>2. ASSUME NEW c \in Clusters, NEW s \in Statements(c), s \in Waiting(c), Apply(c, s)
        PROVE  Kept
    BY <1>1, <2>2, ApplyStatement DEF DeletesNode
  <2> QED BY <1>1, <2>1, <2>2, OnlyStatementsChangeTables
<1> QED BY <1>1, Invariance, PTL DEF Spec, NodesKept
=============================================================================
