----------------------------- MODULE SyncRequest -----------------------------
(***************************************************************************)
(* The sync and resync requests of the collectors: SyncResources           *)
(* (pkg/server/syncHandler.go), SyncData (pkg/database/sync.go) and        *)
(* ResyncData (pkg/database/resync.go).                                    *)
(*                                                                         *)
(* A request queues statements and waits for them.  The goroutines of the  *)
(* batch run them in any order (module BatchRetry says how): here each     *)
(* statement is a batch of its own.  A larger batch only merges steps.     *)
(*                                                                         *)
(* The collector of a cluster is part of the environment: it sends the     *)
(* difference of two states of its cluster, or a complete state, and it    *)
(* remembers what the indexer acknowledged.                                *)
(***************************************************************************)
EXTENDS SearchTables

CONSTANTS States,   \* [Clusters -> set of states of the cluster]
          Initial,  \* set of initial contents of the two tables
          Unknown,  \* the collector has no acknowledged state
          Faults    \* what may go wrong

(* "bad"     the database rejects a statement; it is reported              *)
(* "conn"    the connection breaks while a statement runs                  *)
(* "close"   a batch fails in another way: it is dropped                   *)
(* "decode"  the body of a resync cannot be decoded to its end             *)
(* "cut"     the body of a resync ends between two elements                *)
(* "query"   the query for the existing edges fails, at once or half way   *)
(* "late"    the database executes a statement of a request that was given *)
(*           up although the context of the request is cancelled           *)
ASSUME FaultsAssumption ==
    Faults \subseteq {"bad", "conn", "close", "decode", "cut", "query", "late"}

(* A collector sends edges and resources of whatever uids.                 *)
ClusterState == [resources : SUBSET Resource, edges : SUBSET Edge]
ASSUME StatesAssumption ==
    /\ \A c \in Clusters : States[c] \subseteq ClusterState
    /\ \A db \in Initial : /\ db.resources \subseteq ResourceRow
                         /\ db.edges \subseteq EdgeRow
                         /\ UniqueUids(db.resources)
                         /\ UniqueEdges(db.edges)

VARIABLES resources, edges,  \* the tables
          phase,       \* [Clusters -> where the request of the cluster is]
          body,        \* the state that the request shall establish
          base,        \* the request does not depend on a state that the
                       \* collector does not know to be stored
          todo,        \* statements not executed yet
          errors,      \* the error arrays of the response are not empty
          connError,   \* a statement was lost: connError of the batch in use
          decodeErr,   \* upsertErr or addErr
          late,        \* statements of requests that were given up
          known,       \* the state that the collector takes for stored
          totals,      \* totals in the last response, as far as counted
          lapses       \* what went wrong since the last resync began and
                       \* no response has reported (history)

tables == <<resources, edges>>
vars == <<resources, edges, phase, body, base, todo, errors, connError,
          decodeErr, late, known, totals, lapses>>

(* In "totals" and "count" ClusterTotals is about to count the resources   *)
(* and the edges.                                                          *)
Phases == {"idle", "sync", "resources", "query", "edges",
           "totals", "count", "respond"}

(* A batch was dropped, the body of the resync ended between two elements, *)
(* the query for the existing edges failed, a late statement took effect.  *)
Lapse == {"batch", "body", "query", "late"}

TypeOK == /\ resources \in SUBSET ResourceRow
          /\ edges \in SUBSET EdgeRow
          /\ UniqueUids(resources)
          /\ UniqueEdges(edges)
          /\ phase \in [Clusters -> Phases]
          /\ \A c \in Clusters : /\ body[c] \in States[c] \cup {Unknown}
                                 /\ known[c] \in States[c] \cup {Unknown}
          /\ base \in [Clusters -> BOOLEAN]
          /\ errors \in [Clusters -> BOOLEAN]
          /\ connError \in [Clusters -> BOOLEAN]
          /\ decodeErr \in [Clusters -> BOOLEAN]
          /\ totals \in [Clusters -> Nat \X Nat]
          /\ lapses \in [Clusters -> SUBSET Lapse]

Init == /\ \E db \in Initial : resources = db.resources /\ edges = db.edges
        /\ phase = [c \in Clusters |-> "idle"]
        /\ body = [c \in Clusters |-> Unknown]
        /\ base = [c \in Clusters |-> FALSE]
        /\ todo = [c \in Clusters |-> {}]
        /\ errors = [c \in Clusters |-> FALSE]
        /\ connError = [c \in Clusters |-> FALSE]
        /\ decodeErr = [c \in Clusters |-> FALSE]
        /\ late = {}
        /\ known = [c \in Clusters |-> Unknown]
        /\ totals = [c \in Clusters |-> <<0, 0>>]
        /\ lapses = [c \in Clusters |-> {}]

Goto(c, next) == phase' = [phase EXCEPT ![c] = next]

(* Until the response arrives the collector cannot tell what is stored.    *)
Await(c) == /\ known' = [known EXCEPT ![c] = Unknown]
            /\ totals' = [totals EXCEPT ![c] = <<0, 0>>]

------------------------------------------------------------------------------
(* SyncData: a delta from one state of the cluster to another.             *)

Added(from, to) == {r \in to.resources : r.uid \notin Uids(from.resources)}
Updated(from, to) ==
    {r \in to.resources \ from.resources : r.uid \in Uids(from.resources)}
Deleted(from, to) == Uids(from.resources) \ Uids(to.resources)

Valid(rs, c) == {r \in rs : validateUIDPrefix(r.uid, c)}
Rejected(rs, c) == rs # Valid(rs, c)

SyncStatements(c, from, to) ==
    {AddResource(r) : r \in Valid(Added(from, to), c)}
      \cup {UpdateResource(r) : r \in Valid(Updated(from, to), c)}
      \cup (IF Deleted(from, to) = {} THEN {}
              ELSE {DeleteResources(Deleted(from, to)),
                    DeleteEdgesOf(Deleted(from, to))})
      \cup {AddEdge(e) : e \in to.edges \ from.edges}
      \cup {DeleteEdge(e) : e \in from.edges \ to.edges}

StartSync(c, from, to) ==
    /\ phase[c] = "idle"
    /\ body' = [body EXCEPT ![c] = to]
    /\ base' = [base EXCEPT ![c] = (from = known[c])]
    /\ todo' = [todo EXCEPT ![c] = SyncStatements(c, from, to)]
    /\ errors' = [errors EXCEPT ![c] =
         Rejected(Added(from, to) \cup Updated(from, to), c)]
    /\ connError' = [connError EXCEPT ![c] = FALSE]
    /\ decodeErr' = [decodeErr EXCEPT ![c] = FALSE]
    /\ Goto(c, "sync")
    /\ Await(c)
    /\ UNCHANGED <<resources, edges, late, lapses>>

------------------------------------------------------------------------------
(* The statements of a batch.                                              *)

Apply(c, s) == /\ resources' = ResourcesAfter(resources, c, s)
               /\ edges' = EdgesAfter(edges, c, s)

Take(c, s) == /\ s \in todo[c]
              /\ todo' = [todo EXCEPT ![c] = @ \ {s}]

rest == <<phase, body, base, decodeErr, known, totals>>

Execute(c, s) == /\ Take(c, s)
                 /\ Apply(c, s)
                 /\ UNCHANGED <<errors, connError, late, lapses, rest>>

(* The statement was isolated and is reported in the response.             *)
Isolate(c, s) == /\ "bad" \in Faults
                 /\ Take(c, s)
                 /\ errors' = [errors EXCEPT ![c] = TRUE]
                 /\ UNCHANGED <<tables, connError, late, lapses, rest>>

(* The connection broke before or after the transaction was committed.     *)
Lose(c, s) == /\ "conn" \in Faults
              /\ Take(c, s)
              /\ Apply(c, s) \/ UNCHANGED tables
              /\ connError' = [connError EXCEPT ![c] = TRUE]
              /\ UNCHANGED <<errors, late, lapses, rest>>

(* Close fails with a text other than the two that sendBatch knows: the    *)
(* batch is neither tried again nor reported, and the request goes on.     *)
Drop(c, s) == /\ "close" \in Faults
              /\ Take(c, s)
              /\ Apply(c, s) \/ UNCHANGED tables
              /\ lapses' = [lapses EXCEPT ![c] = @ \cup {"batch"}]
              /\ UNCHANGED <<errors, connError, late, rest>>

(* Queue refuses statements once connError is set.                         *)
Refuse(c, s) == /\ connError[c]
                /\ Take(c, s)
                /\ UNCHANGED <<tables, errors, connError, late, lapses, rest>>

------------------------------------------------------------------------------
(* The response.                                                           *)

(* The handler returns, and with it its batch and what it decoded.         *)
Return(c) == /\ phase' = [phase EXCEPT ![c] = "idle"]
             /\ body' = [body EXCEPT ![c] = Unknown]
             /\ base' = [base EXCEPT ![c] = FALSE]
             /\ todo' = [todo EXCEPT ![c] = {}]
             /\ errors' = [errors EXCEPT ![c] = FALSE]
             /\ connError' = [connError EXCEPT ![c] = FALSE]
             /\ decodeErr' = [decodeErr EXCEPT ![c] = FALSE]
             /\ UNCHANGED <<tables, lapses>>

(* Mutant of Fail: the collector is told that all went well.               *)
FailSilently(c) ==
    /\ known' = [known EXCEPT ![c] = body[c]]
    /\ UNCHANGED totals
    /\ Return(c)

(* Status 500.  The collector starts over with a resync.                   *)
Fail(c) == /\ known' = [known EXCEPT ![c] = Unknown]
           /\ totals' = [totals EXCEPT ![c] = <<0, 0>>]
           /\ Return(c)

Continue(c, next) ==
    /\ Goto(c, next)
    /\ UNCHANGED <<tables, body, base, todo, errors, connError, decodeErr,
                   known, totals, lapses>>

(* The body of a sync request cannot be decoded.                           *)
BadRequest(c) == /\ "decode" \in Faults
                 /\ phase[c] = "idle"
                 /\ Fail(c)
                 /\ UNCHANGED late

(* wg.Wait() returned at the end of SyncData.                              *)
SyncDone(c) == /\ phase[c] = "sync"
               /\ todo[c] = {}
               /\ IF connError[c] THEN Fail(c) ELSE Continue(c, "totals")
               /\ UNCHANGED late

(* Mutant of CountResources: the node of the cluster is counted.           *)
CountResourcesAndNode(c) ==
    /\ phase[c] = "totals"
    /\ totals' = [totals EXCEPT ![c] =
         <<Cardinality({row \in resources : row.cluster = c}), 0>>]
    /\ Goto(c, "count")
    /\ UNCHANGED <<tables, body, base, todo, errors, connError, decodeErr,
                   late, known, lapses>>

(* ClusterTotals: two counts, one after the other.                         *)
CountResources(c) ==
    /\ phase[c] = "totals"
    /\ totals' = [totals EXCEPT ![c] =
         <<Cardinality(OwnResources(resources, c)), 0>>]
    /\ Goto(c, "count")
    /\ UNCHANGED <<tables, body, base, todo, errors, connError, decodeErr,
                   late, known, lapses>>

CountEdges(c) ==
    /\ phase[c] = "count"
    /\ totals' = [totals EXCEPT ![c] =
         <<@[1], Cardinality(OwnEdges(edges, c))>>]
    /\ Goto(c, "respond")
    /\ UNCHANGED <<tables, body, base, todo, errors, connError, decodeErr,
                   late, known, lapses>>

TotalsFail(c) == /\ "conn" \in Faults
                 /\ phase[c] \in {"totals", "count"}
                 /\ Fail(c)
                 /\ UNCHANGED late

(* Mutant of RespondOk: the totals are those of the request.               *)
RespondOkEchoes(c) ==
    /\ phase[c] = "respond"
    /\ known' = [known EXCEPT ![c] =
         IF base[c] /\ ~errors[c] THEN body[c] ELSE Unknown]
    /\ totals' = [totals EXCEPT ![c] =
         <<Cardinality(body[c].resources), Cardinality(body[c].edges)>>]
    /\ Return(c)
    /\ UNCHANGED late

(* Status 200.  A collector whose delta started from what it knew, and who *)
(* finds no error reported, takes its new state for stored.                *)
RespondOk(c) ==
    /\ phase[c] = "respond"
    /\ known' = [known EXCEPT ![c] =
         IF base[c] /\ ~errors[c] THEN body[c] ELSE Unknown]
    /\ Return(c)
    /\ UNCHANGED <<late, totals>>

------------------------------------------------------------------------------
(* ResyncData: the complete state of the cluster.                          *)

(* Mutant of KeptUids: the node of the cluster is not excluded.            *)
KeptUidsWithoutNode(rs, c) == Uids(rs)

(* incomingUIDs                                                            *)
KeptUids(rs, c) == Uids(rs) \cup {Node(c)}

(* Part of a list is decoded.  The decoder fails, or it takes the end of   *)
(* the body between two elements for the end of the list.                  *)
Decodes(part, list, failed) ==
    /\ part \subseteq list
    /\ failed => "decode" \in Faults
    /\ ~failed /\ part # list => "cut" \in Faults

(* resetResources.  The deletes are queued even if decoding failed.        *)
StartResync(c, to, decoded, failed) ==
    /\ phase[c] = "idle"
    /\ Decodes(decoded, to.resources, failed)
    /\ body' = [body EXCEPT ![c] = to]
    /\ base' = [base EXCEPT ![c] = TRUE]
    /\ LET incoming == Valid(decoded, c)
       IN  todo' = [todo EXCEPT ![c] =
             {AddResource(r) : r \in incoming}
               \cup {DeleteOtherResources(KeptUids(incoming, c)),
                     DeleteOtherEdges(KeptUids(incoming, c))}]
    /\ errors' = [errors EXCEPT ![c] = Rejected(decoded, c)]
    /\ connError' = [connError EXCEPT ![c] = FALSE]
    /\ decodeErr' = [decodeErr EXCEPT ![c] = failed]
    /\ lapses' = [lapses EXCEPT ![c] =
         IF ~failed /\ decoded # to.resources THEN {"body"} ELSE {}]
    /\ Goto(c, "resources")
    /\ Await(c)
    /\ UNCHANGED <<resources, edges, late>>

ResourcesDone(c) ==
    /\ phase[c] = "resources"
    /\ todo[c] = {}
    /\ IF decodeErr[c] \/ connError[c] THEN Fail(c) ELSE Continue(c, "query")
    /\ UNCHANGED late

(* resetEdges reads the edges of the cluster, inserts the edges of the     *)
(* request that are not there and deletes the others.  When the query      *)
(* fails it goes on with the edges that it received.  The edges of a body  *)
(* that ended early may stand before its resources or after them.          *)
ResetEdges(c, existing, decoded, failed) ==
    /\ phase[c] = "query"
    /\ Decodes(decoded, body[c].edges, failed)
    /\ existing \subseteq OwnEdges(edges, c)
    /\ existing # OwnEdges(edges, c) => "query" \in Faults
    /\ todo' = [todo EXCEPT ![c] =
         {AddEdge(e) : e \in decoded \ existing}
           \cup {DeleteEdge(e) : e \in existing \ decoded}]
    /\ connError' = [connError EXCEPT ![c] = FALSE]
    /\ decodeErr' = [decodeErr EXCEPT ![c] = failed]
    /\ lapses' = [lapses EXCEPT ![c] = @
         \cup {x \in {"body"} : ~failed /\ decoded # body[c].edges}
         \cup {x \in {"query"} : existing # OwnEdges(edges, c)}]
    /\ Goto(c, "edges")
    /\ UNCHANGED <<tables, body, base, errors, late, known, totals>>

(* Mutant of EdgesDone: lost statements are not noticed.                   *)
EdgesDoneUnchecked(c) ==
    /\ phase[c] = "edges"
    /\ todo[c] = {}
    /\ IF decodeErr[c] THEN Fail(c) ELSE Continue(c, "totals")
    /\ UNCHANGED late

EdgesDone(c) ==
    /\ phase[c] = "edges"
    /\ todo[c] = {}
    /\ IF decodeErr[c] \/ connError[c] THEN Fail(c) ELSE Continue(c, "totals")
    /\ UNCHANGED late

(* The loop that queues the deletes returns when Queue refuses one: the    *)
(* statements that were sent already are not waited for.                   *)
EdgesAbandoned(c) ==
    /\ phase[c] = "edges"
    /\ connError[c]
    /\ \E s \in todo[c] : s.op = "deleteEdge"
    /\ late' = late \cup (IF "late" \in Faults THEN {c} \X todo[c] ELSE {})
    /\ Fail(c)

(* Such a statement takes effect after all, or it is cancelled with the    *)
(* context of its request.                                                 *)
LateStatement(c, s) ==
    /\ <<c, s>> \in late
    /\ late' = late \ {<<c, s>>}
    /\ \/ Apply(c, s) /\ lapses' = [lapses EXCEPT ![c] = @ \cup {"late"}]
       \/ UNCHANGED <<tables, lapses>>
    /\ UNCHANGED <<todo, errors, connError, rest>>

------------------------------------------------------------------------------
Statement(c) == \E s \in todo[c] :
    Execute(c, s) \/ Isolate(c, s) \/ Lose(c, s) \/ Drop(c, s) \/ Refuse(c, s)

Phase(c) == \/ SyncDone(c) \/ ResourcesDone(c) \/ EdgesDone(c)
            \/ EdgesAbandoned(c)
            \/ CountResources(c) \/ CountEdges(c) \/ TotalsFail(c) \/ RespondOk(c)
            \/ /\ phase[c] = "query"
               /\ \E existing \in SUBSET OwnEdges(edges, c) :
                  \E decoded \in SUBSET body[c].edges, failed \in BOOLEAN :
                      ResetEdges(c, existing, decoded, failed)

Collector(c) ==
    \/ BadRequest(c)
    \/ \E from, to \in States[c] : StartSync(c, from, to)
    \/ \E to \in States[c] :
       \E decoded \in SUBSET to.resources, failed \in BOOLEAN :
         StartResync(c, to, decoded, failed)

Next == \E c \in Clusters :
    \/ Statement(c) \/ Phase(c) \/ Collector(c)
    \/ \E x \in late : x[1] = c /\ LateStatement(c, x[2])

Spec == Init /\ [][Next]_vars

------------------------------------------------------------------------------
(* Properties.                                                             *)

(* What the proofs need of the statements that wait: each is a statement   *)
(* that its cluster may send.                                              *)
IInv == /\ TypeOK
        /\ DOMAIN todo = Clusters /\ DOMAIN body = Clusters
        /\ DOMAIN known = Clusters
        /\ \A c \in Clusters : /\ todo[c] \subseteq Statements(c)
                               /\ phase[c] # "idle" => body[c] \in States[c]
        /\ \A x \in late : /\ x = <<x[1], x[2]>>
                           /\ x[1] \in Clusters
                           /\ x[2] \in Statements(x[1])

(* Whatever order the statements ran in, and whatever was rejected, lost   *)
(* or not decoded before: when the response reported neither a failure nor *)
(* an error, the tables hold the state of the collector, and the totals in *)
(* the response are its totals (sync.go:38-132, resync.go:21, 50-52,       *)
(* 106-109).  Not so if, since the last resync began, a batch was dropped  *)
(* (batch.go:83), the body of this resync ended between two elements       *)
(* (resync.go:193, 332), its query for the edges failed (resync.go:125) or *)
(* a statement of a request that was given up took effect (resync.go:158): *)
(* these are not reported.                                                 *)
InSync == \A c \in Clusters :
    phase[c] = "idle" /\ known[c] # Unknown /\ lapses[c] = {} =>
      /\ OwnResources(resources, c) = known[c].resources
      /\ OwnEdges(edges, c) = known[c].edges
      /\ totals[c] = <<Cardinality(known[c].resources),
                       Cardinality(known[c].edges)>>

(* No request changes a row of another cluster, whatever uids it names     *)
(* (sync.go:36-37, 57, 74, 119, resync.go:199, 207).                       *)
Foreign(table, c) == {row \in table : row.cluster # c}
Sent(c) == <<todo[c], {x \in late : x[1] = c}>>
ForeignRowsKept == [][\A c \in Clusters : Sent(c)' # Sent(c) =>
    /\ Foreign(resources', c) = Foreign(resources, c)
    /\ Foreign(edges', c) = Foreign(edges, c)]_vars

(* The node of a cluster, which clustersync maintains, stays as it is      *)
(* whatever the requests send, unless a delta of the cluster itself names  *)
(* its node among the resources to delete, which nothing prevents          *)
(* (sync.go:79-92, resync.go:61-62).                                       *)
Waiting(c) == todo[c] \cup {x[2] : x \in {y \in late : y[1] = c}}
DeletesNode(c) ==
    \E s \in Waiting(c) : s.op = "deleteResources" /\ Node(c) \in s.uids
NodesKept == [][\A row \in resources :
    row.uid = Node(row.cluster) =>
      row \in resources' \/ DeletesNode(row.cluster)]_vars

(* "DELETE edges pointing to resources that no longer exist"               *)
(* (resync.go:80): while the resources are reset, an edge between          *)
(* resources that the cluster sent, or that other clusters have, stays.    *)
LinkedEdgesKept == [][\A c \in Clusters :
    phase[c] = "resources" /\ todo'[c] # todo[c] =>
      LET uids == Uids(body[c].resources) \cup Uids(Foreign(resources, c))
      IN  \A row \in edges :
            {row.edge.source, row.edge.dest} \subseteq uids => row \in edges']_vars

(* The state of a cluster in the tables.                                   *)
Stored(c) == [resources |-> OwnResources(resources, c),
              edges |-> OwnEdges(edges, c)]

(* The requests together implement a store with one state per cluster: only*)
(* a request under way changes the state of its cluster, and a state that  *)
(* is confirmed (syncHandler.go:93) is the one in the tables, however the  *)
(* statements of several clusters interleave and whatever is rejected or   *)
(* lost of them.  A response after an unreported lapse confirms nothing.   *)
Store == INSTANCE ClusterStore
           WITH store <- [c \in Clusters |-> Stored(c)],
                known <- [c \in Clusters |->
                            IF lapses[c] = {} THEN known[c] ELSE Unknown],
                busy <- {c \in Clusters : phase[c] # "idle"}
StoreSpec == Store!Spec
------------------------------------------------------------------------------
(* Why a response without an error leaves the state of its collector in    *)
(* the tables: the invariant that InSync and StoreSpec rest on.            *)

(* What it takes of the collectors.  A uid occurs once in a state, an edge *)
(* belongs to one cluster and links resources of its state or of other     *)
(* clusters, and the rows that are there at the start are where requests   *)
(* would put them.                                                         *)
ConsistentStates ==
    /\ \A c \in Clusters : Unknown \notin States[c]
    /\ \A c \in Clusters : \A s \in States[c] :
         /\ UniqueUids(s.resources)
         /\ \A e \in s.edges :
              /\ e.type # "interCluster"
              /\ \A uid \in {e.source, e.dest} :
                   validateUIDPrefix(uid, c) => uid \in Uids(s.resources)
         /\ \A d \in Clusters \ {c} : \A t \in States[d] : s.edges \cap t.edges = {}
    /\ \A db \in Initial :
         /\ \A row \in db.resources : row.uid[1] = row.cluster
         /\ \A row \in db.edges : \A d \in Clusters \ {row.cluster} :
              \A s \in States[d] : row.edge \notin s.edges

(* Each row is stored for the cluster that it belongs to, and no request   *)
(* is about to change this.                                                *)
Claims(c, e) == \E s \in States[c] : e \in s.edges
RowsOwned ==
    /\ \A row \in resources : row.uid[1] = row.cluster
    /\ \A row \in edges : \A d \in Clusters \ {row.cluster} : ~Claims(d, row.edge)
    /\ \A c \in Clusters : \A s \in Waiting(c) :
         s.op = "addEdge" => Claims(c, s.edge)

(* Statement s deletes the resource, or the edge, when it is executed.     *)
Removes(s, uid) == \/ s.op = "deleteResources" /\ uid \in s.uids
                   \/ s.op = "deleteOtherResources" /\ uid \notin s.uids
Cuts(s, e) == \/ s.op = "deleteEdge" /\ e = s.edge
              \/ /\ s.op = "deleteEdgesOf"
                 /\ e.source \in s.uids \/ e.dest \in s.uids
              \/ /\ s.op = "deleteOtherEdges"
                 /\ e.source \notin s.uids \/ e.dest \notin s.uids

(* What the statements that wait will do, in whatever order: each resource *)
(* of the state is stored or will be, each other one will be removed, and  *)
(* nothing that belongs to the state will be removed or overwritten.       *)
ResourcesComing(c) ==
    LET own == OwnResources(resources, c)
        goal == body[c].resources
    IN  /\ \A r \in goal :
             /\ validateUIDPrefix(r.uid, c)
             /\ \/ r \in own
                \/ AddResource(r) \in todo[c]
                \/ UpdateResource(r) \in todo[c] /\ r.uid \in Uids(own)
        /\ \A r \in own : \/ r.uid \in Uids(goal)
                          \/ \E s \in todo[c] : Removes(s, r.uid)
        /\ \A s \in todo[c] :
             /\ s.op \in {"addResource", "updateResource"} =>
                  [uid |-> s.uid, data |-> s.data] \in goal
             /\ \A uid \in Uids(goal) : ~Removes(s, uid)

EdgesComing(c) ==
    LET own == OwnEdges(edges, c)
        goal == body[c].edges
    IN  /\ \A e \in goal : e \in own \/ AddEdge(e) \in todo[c]
        /\ \A e \in own : e \in goal \/ \E s \in todo[c] : Cuts(s, e)
        /\ \A s \in todo[c] : /\ s.op = "addEdge" => s.edge \in goal
                              /\ \A e \in goal : ~Cuts(s, e)

(* So far the request can still end with a response without an error.      *)
Faultless(c) == base[c] /\ ~errors[c] /\ ~connError[c] /\ ~decodeErr[c]
Clean(c) == Faultless(c) /\ lapses[c] = {}

Counting == {"totals", "count", "respond"}

(* What was counted so far belongs to state s.                             *)
Counted(c, s) ==
    /\ phase[c] \in {"count", "respond"} => totals[c][1] = Cardinality(s.resources)
    /\ phase[c] = "respond" => totals[c][2] = Cardinality(s.edges)

Progress(c) ==
    /\ phase[c] = "idle" => todo[c] = {}
    /\ phase[c] # "idle" => known[c] = Unknown
    /\ phase[c] \in {"query"} \cup Counting =>
         todo[c] = {} /\ ~connError[c] /\ ~decodeErr[c]
    /\ phase[c] = "sync" => ~decodeErr[c]
    /\ Clean(c) /\ phase[c] # "idle" => ResourcesComing(c)
    /\ Clean(c) /\ phase[c] \in {"sync", "edges"} \cup Counting => EdgesComing(c)
    /\ Clean(c) => Counted(c, body[c])

(* The statements of a request that can still end without an error, and    *)
(* without an unreported lapse, lead to its state, and no row is stored    *)
(* for a cluster that does not own it, whatever order the statements run   *)
(* in (sync.go:38-132, resync.go:44-130).                                  *)
SyncInv == /\ IInv
           /\ RowsOwned
           /\ \A c \in Clusters : Progress(c)
           /\ InSync
=============================================================================
