--------------------------- MODULE CollectorCycle ---------------------------
(***************************************************************************)
(* SyncRequest with a collector that follows the protocol, on a cluster    *)
(* that changes, and with clustersync, which may delete the rows of the    *)
(* cluster at any time.                                                    *)
(*                                                                         *)
(* The collector sends one request after the other.  It sends the          *)
(* difference to the state that the indexer confirmed last, and its        *)
(* complete state when it has no such state or when the totals of the last *)
(* response are not its own: they are there "for validation by the         *)
(* collector" (syncHandler.go:77).                                         *)
(***************************************************************************)
EXTENDS SyncRequest

CONSTANTS MaxChanges,      \* changes of the clusters (bound)
          MaxDisturbances  \* failures and deletes by clustersync (bound)

(* The clusters that send requests.                                        *)
Collectors == {c \in Clusters : States[c] # {}}

(* Statements that outlive their request are not part of this module.      *)
ASSUME CycleAssumption == /\ MaxChanges \in Nat /\ MaxDisturbances \in Nat
                          /\ "late" \notin Faults

VARIABLES actual,          \* [Collectors -> the state of the cluster]
          changes,         \* number of changes so far
          disturbances     \* number of failures and deletes so far

around == <<actual, changes, disturbances>>
cycleVars == <<vars, around>>

CycleTypeOK == /\ TypeOK
               /\ DOMAIN actual = Collectors
               /\ \A c \in Collectors : actual[c] \in States[c]
               /\ changes \in 0 .. MaxChanges
               /\ disturbances \in 0 .. MaxDisturbances

CycleInit == /\ Init
             /\ actual \in {f \in [Collectors -> UNION {States[c] : c \in Collectors}] :
                              \A c \in Collectors : f[c] \in States[c]}
             /\ changes = 0
             /\ disturbances = 0

(* The cluster changes.                                                    *)
Change(c) == /\ changes < MaxChanges
             /\ changes' = changes + 1
             /\ \E s \in States[c] \ {actual[c]} : actual' = [actual EXCEPT ![c] = s]
             /\ UNCHANGED <<vars, disturbances>>

TotalsOf(s) == <<Cardinality(s.resources), Cardinality(s.edges)>>

(* The collector has a confirmed state and sees no reason to doubt it.     *)
Trusts(c) == known[c] # Unknown /\ totals[c] = TotalsOf(known[c])

(* Its next request, also when nothing changed.                            *)
SendDelta(c) == Trusts(c) /\ StartSync(c, known[c], actual[c])
SendState(c, decoded, failed) ==
    ~Trusts(c) /\ StartResync(c, actual[c], decoded, failed)

------------------------------------------------------------------------------
(* Mutant of DeleteClusterResources: the node is not excluded.             *)
DeleteClusterRows(c) ==
    /\ resources' = {row \in resources : row.cluster # c}
    /\ edges' = {row \in edges : row.cluster # c}
    /\ UNCHANGED <<todo, errors, connError, late, lapses, rest>>

(* DeleteClusterResourcesTxn, called for a cluster that looked stale or    *)
(* whose add-on was removed, and that has the add-on again.                *)
DeleteClusterResources(c) ==
    /\ resources' = {row \in resources : row.cluster # c \/ row.uid = Node(c)}
    /\ edges' = {row \in edges : row.cluster # c}
    /\ UNCHANGED <<todo, errors, connError, late, lapses, rest>>

(* The request ends without a response: its context is cancelled, or the   *)
(* indexer restarts.  Statements that were executed stay.                  *)
Break(c) == phase[c] # "idle" /\ Fail(c) /\ UNCHANGED late

(* What goes as the code intends.                                          *)
Work(c) ==
    \/ SendDelta(c)
    \/ SendState(c, actual[c].resources, FALSE)
    \/ \E s \in todo[c] : Execute(c, s) \/ Refuse(c, s)
    \/ SyncDone(c) \/ ResourcesDone(c) \/ EdgesDone(c) \/ EdgesAbandoned(c)
    \/ phase[c] = "query" /\ ResetEdges(c, OwnEdges(edges, c), body[c].edges, FALSE)
    \/ CountResources(c) \/ CountEdges(c) \/ RespondOk(c)

(* What goes wrong.                                                        *)
Disturb(c) ==
    \/ BadRequest(c)
    \/ \E decoded \in SUBSET actual[c].resources, failed \in BOOLEAN :
         /\ failed \/ decoded # actual[c].resources
         /\ SendState(c, decoded, failed)
    \/ \E s \in todo[c] : Isolate(c, s) \/ Lose(c, s) \/ Drop(c, s)
    \/ /\ phase[c] = "query"
       /\ \E existing \in SUBSET OwnEdges(edges, c) :
          \E decoded \in SUBSET body[c].edges, failed \in BOOLEAN :
             /\ failed \/ existing # OwnEdges(edges, c) \/ decoded # body[c].edges
             /\ ResetEdges(c, existing, decoded, failed)
    \/ TotalsFail(c)
    \/ Break(c)
    \/ DeleteClusterResources(c)

CycleNext == \E c \in Collectors :
    \/ Change(c)
    \/ Work(c) /\ UNCHANGED around
    \/ /\ disturbances < MaxDisturbances
       /\ disturbances' = disturbances + 1
       /\ Disturb(c)
       /\ UNCHANGED <<actual, changes>>

(* The goroutines of a request go on, and the collector sends its next     *)
(* request.                                                                *)
CycleSpec == /\ CycleInit
             /\ [][CycleNext]_cycleVars
             /\ \A c \in Collectors : WF_cycleVars(Work(c) /\ UNCHANGED around)

------------------------------------------------------------------------------
(* Properties.                                                             *)

(* What the totals can reveal.  They cannot if a batch was dropped, or if  *)
(* the body ended early and the query for the existing edges failed in the *)
(* same resync: what is missing and what is left over may balance.         *)
Visible(c) == "batch" \notin lapses[c] /\ ~({"body", "query"} \subseteq lapses[c])

(* What search shows is what there is: once a cluster stops changing and   *)
(* nothing goes wrong any more, the tables hold its state, whatever went   *)
(* wrong before, also where the response did not report it                 *)
(* (resync.go:80, 124, 193, clusterSync.go:144-148, 381), unless it was    *)
(* one of the lapses that the totals cannot reveal and left equal totals.  *)
Converges == <>[](\A c \in Collectors :
    \/ Stored(c) = actual[c]
    \/ ~Visible(c) /\ TotalsOf(Stored(c)) = TotalsOf(actual[c]))

(* The totals are "for validation by the collector" (syncHandler.go:77):   *)
(* when a request ends and the collector has no reason to doubt its state, *)
(* the tables hold exactly this state, although a resync can end without   *)
(* an error and leave old edges (resync.go:124-137) or miss a part of its  *)
(* body (resync.go:193, 332).  Or clustersync deleted the rows, all of     *)
(* them in one transaction (upsertCluster.go:85-118), after they were      *)
(* counted.                                                                *)
Nothing == [resources |-> {}, edges |-> {}]
TrustEarned == [][\A c \in Collectors :
    phase[c] # "idle" /\ phase'[c] = "idle" /\ Trusts(c)' /\ Visible(c)' =>
      Stored(c)' \in {known'[c], Nothing}]_cycleVars

(* Afterwards rows can go (clusterSync.go:144-148, 381), but as long as the*)
(* collector trusts its state, no search finds anything that is not there. *)
TrustHolds == \A c \in Collectors : phase[c] = "idle" /\ Trusts(c) /\ Visible(c) =>
    /\ OwnResources(resources, c) \subseteq known[c].resources
    /\ OwnEdges(edges, c) \subseteq known[c].edges

(* "This is normal, but it could be a problem if it happens often"         *)
(* (resync.go:26): the collectors return to deltas and stay with them.  A  *)
(* total that never agrees would make each request a resync.               *)
ResyncsCease ==
    <>[](\A c \in Collectors : phase[c] \in {"idle", "sync"} \cup Counting)
------------------------------------------------------------------------------
(* Why equal totals are enough: the invariant that TrustEarned and         *)
(* TrustHolds rest on.  It is weaker than SyncInv, since rows may be       *)
(* missing and edges may be left over.                                     *)

(* The request can still end without a reported error, and its totals tell *)
(* whether it reached its state.                                           *)
Noticed(c) == Faultless(c) /\ Visible(c)

(* What the statements that wait will do: no other resource, or edge, than *)
(* those of the state stays or comes.                                      *)
NoOtherResources(c) ==
    LET goal == body[c].resources
    IN  /\ \A r \in OwnResources(resources, c) :
             \/ r \in goal
             \/ \E s \in todo[c] :
                  \/ Removes(s, r.uid)
                  \/ s.op \in {"addResource", "updateResource"} /\ s.uid = r.uid
        /\ \A s \in todo[c] : s.op \in {"addResource", "updateResource"} =>
             [uid |-> s.uid, data |-> s.data] \in goal

OnlyGoalEdgesComing(c) ==
    \A s \in todo[c] : s.op = "addEdge" => s.edge \in body[c].edges

NoOtherEdges(c) ==
    \A e \in OwnEdges(edges, c) :
        e \in body[c].edges \/ \E s \in todo[c] : Cuts(s, e)

(* Each edge of the state is stored or will be, and stays.                 *)
AllEdges(c) ==
    \A e \in body[c].edges :
        /\ e \in OwnEdges(edges, c) \/ AddEdge(e) \in todo[c]
        /\ \A s \in todo[c] : ~Cuts(s, e)

(* What was counted is there, or was deleted as a whole since then.        *)
CountsHold(c) ==
    /\ phase[c] \in {"count", "respond"}
         /\ totals[c][1] = Cardinality(body[c].resources) =>
            OwnResources(resources, c) = body[c].resources \/ Stored(c) = Nothing
    /\ phase[c] = "respond" /\ totals[c] = TotalsOf(body[c]) =>
         Stored(c) \in {body[c], Nothing}

OnCourse(c) ==
    /\ phase[c] = "idle" => todo[c] = {}
    /\ phase[c] \in {"query"} \cup Counting =>
         todo[c] = {} /\ ~connError[c] /\ ~decodeErr[c]
    /\ phase[c] = "sync" => ~decodeErr[c]
    /\ Noticed(c) /\ phase[c] # "idle" => NoOtherResources(c)
    /\ Noticed(c) /\ phase[c] \in {"sync", "edges"} \cup Counting =>
         OnlyGoalEdgesComing(c)
    /\ Noticed(c) /\ phase[c] = "sync" => NoOtherEdges(c)
    /\ Noticed(c) /\ phase[c] \in {"edges"} \cup Counting =>
         NoOtherEdges(c) \/ AllEdges(c)
    /\ Noticed(c) => CountsHold(c)

(* A request that ends without an error has left nothing but its state or  *)
(* nothing less than its state, so that its totals tell the difference     *)
(* (sync.go:36-129, resync.go:44-160, syncHandler.go:62-82), unless there  *)
(* was a lapse that they cannot reveal.                                    *)
TrustInv == /\ CycleTypeOK /\ IInv
            /\ RowsOwned
            /\ late = {}
            /\ \A c \in Collectors : OnCourse(c)
            /\ TrustHolds
=============================================================================
