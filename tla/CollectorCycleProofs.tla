------------------------ MODULE CollectorCycleProofs ------------------------
(***************************************************************************)
(* Proofs about a collector that follows the protocol, with clustersync    *)
(* deleting rows at any time, for every set of clusters, of states and of  *)
(* changes and disturbances.  Nearly every step is a step of SyncRequest,  *)
(* whose invariant is reused.                                              *)
(***************************************************************************)
EXTENDS CollectorCycle, SyncStoreProofs, FiniteSetTheorems

CycleInv == IInv /\ CycleTypeOK

(* The two steps that SyncRequest does not have.                           *)
Outside(c) == Break(c) \/ DeleteClusterResources(c)

(* What the collector sends is a request of SyncRequest.                   *)
LEMMA SendsAreRequests ==
    ASSUME CycleInv, NEW c \in Collectors,
           \/ SendDelta(c)
           \/ \E decoded \in SUBSET actual[c].resources, failed \in BOOLEAN :
                SendState(c, decoded, failed)
    PROVE  Next
<1>1. c \in Clusters /\ actual[c] \in States[c]
  BY DEF Collectors, CycleInv, CycleTypeOK
<1>2. CASE SendDelta(c)
  <2>1. known[c] \in States[c]
    BY <1>1, <1>2 DEF SendDelta, Trusts, CycleInv, IInv, TypeOK
  <2>2. StartSync(c, known[c], actual[c])
    BY <1>2 DEF SendDelta
  <2>3. Collector(c)
    BY <1>1, <2>1, <2>2 DEF Collector
  <2> QED BY <1>1, <2>3 DEF Next
<1>3. ASSUME NEW decoded \in SUBSET actual[c].resources, NEW failed \in BOOLEAN,
             SendState(c, decoded, failed)
      PROVE  Next
  <2>1. StartResync(c, actual[c], decoded, failed)
    BY <1>3 DEF SendState
  <2>2. Collector(c)
    BY <1>1, <2>1 DEF Collector
  <2> QED BY <1>1, <2>2 DEF Next
<1> QED BY <1>2, <1>3

LEMMA StatementsAndPhasesAreSteps ==
    ASSUME NEW c \in Clusters, Statement(c) \/ Phase(c) \/ BadRequest(c)
    PROVE  Next
<1>1. Statement(c) \/ Phase(c) \/ Collector(c)
  BY DEF Collector
<1> QED BY <1>1 DEF Next

LEMMA WorkIsStep ==
    ASSUME CycleInv, NEW c \in Collectors, Work(c)
    PROVE  Next
<1>1. c \in Clusters
  BY DEF Collectors
<1>2. CASE SendDelta(c) \/ SendState(c, actual[c].resources, FALSE)
  BY <1>2, SendsAreRequests
<1>3. CASE \E s \in todo[c] : Execute(c, s) \/ Refuse(c, s)
  <2>1. Statement(c)
    BY <1>3 DEF Statement
  <2> QED BY <1>1, <2>1, StatementsAndPhasesAreSteps
<1>4. CASE SyncDone(c) \/ ResourcesDone(c) \/ EdgesDone(c) \/ EdgesAbandoned(c)
           \/ CountResources(c) \/ CountEdges(c) \/ RespondOk(c)
  <2>1. Phase(c)
    BY <1>4 DEF Phase
  <2> QED BY <1>1, <2>1, StatementsAndPhasesAreSteps
<1>5. CASE phase[c] = "query" /\ ResetEdges(c, OwnEdges(edges, c), body[c].edges, FALSE)
  <2>1. /\ OwnEdges(edges, c) \in SUBSET OwnEdges(edges, c)
        /\ body[c].edges \in SUBSET body[c].edges
    OBVIOUS
  <2>2. Phase(c)
    BY <1>5, <2>1 DEF Phase
  <2> QED BY <1>1, <2>2, StatementsAndPhasesAreSteps
<1> QED BY <1>2, <1>3, <1>4, <1>5 DEF Work

LEMMA DisturbIsStep ==
    ASSUME CycleInv, NEW c \in Collectors, Disturb(c)
    PROVE  Next \/ Outside(c)
<1>1. c \in Clusters
  BY DEF Collectors
<1>2. CASE \E decoded \in SUBSET actual[c].resources, failed \in BOOLEAN :
             SendState(c, decoded, failed)
  BY <1>2, SendsAreRequests
<1>3. CASE \E s \in todo[c] : Isolate(c, s) \/ Lose(c, s) \/ Drop(c, s)
  <2>1. Statement(c)
    BY <1>3 DEF Statement
  <2> QED BY <1>1, <2>1, StatementsAndPhasesAreSteps
<1>4. CASE BadRequest(c)
  BY <1>1, <1>4, StatementsAndPhasesAreSteps
<1>5. CASE TotalsFail(c)
  <2>1. Phase(c)
    BY <1>5 DEF Phase
  <2> QED BY <1>1, <2>1, StatementsAndPhasesAreSteps
<1>6. ASSUME phase[c] = "query",
             NEW existing \in SUBSET OwnEdges(edges, c),
             NEW decoded \in SUBSET body[c].edges, NEW failed \in BOOLEAN,
             ResetEdges(c, existing, decoded, failed)
      PROVE  Next
  <2>1. Phase(c)
    BY <1>6 DEF Phase
  <2> QED BY <1>1, <2>1, StatementsAndPhasesAreSteps
<1> QED BY <1>2, <1>3, <1>4, <1>5, <1>6 DEF Disturb, Outside

LEMMA CycleStep ==
    ASSUME CycleInv, [CycleNext]_cycleVars
    PROVE  UNCHANGED vars \/ Next \/ \E c \in Collectors : Outside(c)
<1>1. CASE UNCHANGED cycleVars
  BY <1>1 DEF cycleVars
<1>2. ASSUME NEW c \in Collectors, Change(c) PROVE UNCHANGED vars
  BY <1>2 DEF Change
<1>3. ASSUME NEW c \in Collectors, Work(c) PROVE Next
  BY <1>3, WorkIsStep
<1>4. ASSUME NEW c \in Collectors, Disturb(c) PROVE Next \/ Outside(c)
  BY <1>4, DisturbIsStep
<1> QED BY <1>1, <1>2, <1>3, <1>4 DEF CycleNext
------------------------------------------------------------------------------
(* The rows of a cluster are deleted: its node and what belongs to others  *)
(* stays.                                                                  *)
LEMMA DeletedRows ==
    ASSUME IInv, NEW c \in Clusters, DeleteClusterResources(c)
    PROVE  /\ resources' \subseteq resources /\ edges' \subseteq edges
           /\ \A row \in resources : row.uid = Node(row.cluster) => row \in resources'
BY DEF DeleteClusterResources

LEMMA OutsideKeepsIInv ==
    ASSUME IInv, NEW c \in Clusters, Outside(c)
    PROVE  IInv'
<1>1. CASE Break(c)
  BY <1>1, FailKeepsIInv DEF Break
<1>2. CASE DeleteClusterResources(c)
  <2>1. /\ resources' \in SUBSET ResourceRow /\ UniqueUids(resources')
        /\ edges' \in SUBSET EdgeRow /\ UniqueEdges(edges')
    BY <1>2, DeletedRows DEF IInv, TypeOK, UniqueUids, UniqueEdges
  <2>2. UNCHANGED <<phase, body, base, todo, errors, connError, decodeErr, late,
                    known, totals, lapses>>
    BY <1>2 DEF DeleteClusterResources, rest
  <2>3. TypeOK'
    BY <2>1, <2>2 DEF IInv, TypeOK
  <2> QED BY <2>2, <2>3 DEF IInv
<1> QED BY <1>1, <1>2 DEF Outside

LEMMA InitCycleInv == CycleInit => CycleInv
<1> SUFFICES ASSUME CycleInit PROVE CycleInv
  OBVIOUS
<1>1. IInv
  BY InitIInv DEF CycleInit
<1>2. /\ DOMAIN actual = Collectors
      /\ \A c \in Collectors : actual[c] \in States[c]
      /\ changes \in 0 .. MaxChanges
      /\ disturbances \in 0 .. MaxDisturbances
  BY CycleAssumption DEF CycleInit
<1> QED BY <1>1, <1>2 DEF CycleInv, CycleTypeOK, IInv

LEMMA CycleNextKeepsInv == CycleInv /\ [CycleNext]_cycleVars => CycleInv'
<1> SUFFICES ASSUME CycleInv, [CycleNext]_cycleVars PROVE CycleInv'
  OBVIOUS
<1>1. IInv'
  <2>1. IInv
    BY DEF CycleInv
  <2>2. \A c \in Collectors : c \in Clusters
    BY DEF Collectors
  <2>3. ASSUME NEW c \in Collectors, Outside(c) PROVE IInv'
    BY <2>1, <2>2, <2>3, OutsideKeepsIInv
  <2>4. CASE UNCHANGED vars \/ Next
    BY <2>1, <2>4, NextKeepsIInv
  <2> QED BY <2>3, <2>4, CycleStep
<1> DEFINE AroundOK == /\ DOMAIN actual = Collectors
                       /\ \A c \in Collectors : actual[c] \in States[c]
                       /\ changes \in 0 .. MaxChanges
                       /\ disturbances \in 0 .. MaxDisturbances
<1>2. AroundOK'
  <2>0. AroundOK /\ MaxChanges \in Nat /\ MaxDisturbances \in Nat
    BY CycleAssumption DEF CycleInv, CycleTypeOK
  <2>1. CASE UNCHANGED around
    BY <2>0, <2>1 DEF around
  <2>2. ASSUME NEW c \in Collectors, Change(c) PROVE AroundOK'
    BY <2>0, <2>2 DEF Change
  <2>3. CASE /\ disturbances < MaxDisturbances
             /\ disturbances' = disturbances + 1
             /\ UNCHANGED <<actual, changes>>
    BY <2>0, <2>3
  <2>4. CASE UNCHANGED cycleVars
    BY <2>1, <2>4 DEF cycleVars
  <2> HIDE DEF AroundOK
  <2> QED BY <2>1, <2>2, <2>3, <2>4 DEF CycleNext
<1> QED BY <1>1, <1>2 DEF CycleInv, CycleTypeOK, IInv
------------------------------------------------------------------------------
(* The theorems.                                                           *)

(* A collector that follows the protocol, on a cluster that changes while  *)
(* its requests break off and its rows are deleted, keeps the types and    *)
(* the primary keys of both tables (sync.go, resync.go, upsertCluster.go). *)
THEOREM CycleTypeCorrect == CycleSpec => []CycleTypeOK
<1>1. CycleInv => CycleTypeOK
  BY DEF CycleInv
<1> QED BY <1>1, InitCycleInv, CycleNextKeepsInv, PTL DEF CycleSpec

(* The node of a cluster survives its requests, however they end, and the  *)
(* deletes of its rows (resync.go:61-62, upsertCluster.go:280-281), unless *)
(* the collector itself names the node among the resources to delete.      *)
THEOREM CycleNodesSafe == CycleSpec => NodesKept
<1> DEFINE Kept == \A row \in resources :
                     row.uid = Node(row.cluster) =>
                       row \in resources' \/ DeletesNode(row.cluster)
<1>1. ASSUME CycleInv, [CycleNext]_cycleVars PROVE [Kept]_vars
  <2>0. IInv
    BY <1>1 DEF CycleInv
  <2>1. ASSUME NEW c \in Collectors, Outside(c) PROVE Kept
    <3>1. c \in Clusters
      BY DEF Collectors
    <3>2. CASE Break(c)
      BY <3>2 DEF Break, Fail, Return, tables
    <3>3. CASE DeleteClusterResources(c)
      BY <2>0, <3>1, <3>3, DeletedRows
    <3> QED BY <2>1, <3>2, <3>3 DEF Outside
  <2>2. CASE Next
    <3>1. CASE UNCHANGED tables
      BY <3>1 DEF tables
    <3>2. ASSUME NEW c \in Clusters, NEW s \in Statements(c), s \in Waiting(c), Apply(c, s)
          PROVE  Kept
      BY <2>0, <3>2, ApplyStatement DEF DeletesNode
    <3> QED BY <2>0, <2>2, <3>1, <3>2, OnlyStatementsChangeTables
  <2> QED BY <1>1, <2>1, <2>2, CycleStep
<1> QED BY <1>1, InitCycleInv, CycleNextKeepsInv, PTL DEF CycleSpec, NodesKept
------------------------------------------------------------------------------
(* Why a collector may trust the totals of a response: TrustInv.           *)

TrustedRows(c) == phase[c] = "idle" /\ Trusts(c) /\ Visible(c) =>
    /\ OwnResources(resources, c) \subseteq known[c].resources
    /\ OwnEdges(edges, c) \subseteq known[c].edges

(* The part of TrustInv about the variables of SyncRequest.                *)
Course == /\ IInv /\ RowsOwned /\ late = {}
          /\ \A c \in Collectors : OnCourse(c) /\ TrustedRows(c)

LEMMA CourseOfTrust == TrustInv <=> CycleTypeOK /\ Course
BY DEF TrustInv, Course, TrustHolds, TrustedRows

LEMMA UntouchedKeepsCourse ==
    ASSUME NEW d \in Clusters, Untouched(d), OnCourse(d), TrustedRows(d)
    PROVE  OnCourse(d)' /\ TrustedRows(d)'
<1>1. /\ Noticed(d)' = Noticed(d)
      /\ NoOtherResources(d)' = NoOtherResources(d)
      /\ OnlyGoalEdgesComing(d)' = OnlyGoalEdgesComing(d)
      /\ NoOtherEdges(d)' = NoOtherEdges(d)
      /\ AllEdges(d)' = AllEdges(d)
      /\ CountsHold(d)' = CountsHold(d)
  BY DEF Untouched, Noticed, Faultless, Visible, NoOtherResources, OnlyGoalEdgesComing,
         NoOtherEdges, AllEdges, CountsHold, Stored, Nothing, TotalsOf
<1>2. OnCourse(d)'
  BY <1>1 DEF Untouched, OnCourse
<1>3. TrustedRows(d)'
  BY DEF Untouched, TrustedRows, Trusts, Visible
<1> QED BY <1>2, <1>3

LEMMA StepKeepsCourse ==
    ASSUME Course, NEW c \in Clusters, IInv', RowsOwned', late' = {},
           \A d \in Clusters \ {c} : Untouched(d),
           OnCourse(c)', TrustedRows(c)'
    PROVE  Course'
<1>1. ASSUME NEW d \in Collectors PROVE OnCourse(d)' /\ TrustedRows(d)'
  <2>1. OnCourse(d) /\ TrustedRows(d) /\ d \in Clusters
    BY DEF Course, Collectors
  <2> QED BY <2>1, UntouchedKeepsCourse
<1>2. Collectors' = Collectors
  BY DEF Collectors
<1> QED BY <1>1, <1>2 DEF Course

(* A statement that is executed leaves no other resource than those that   *)
(* were there or that the state has.                                       *)
LEMMA StatementLeavesResources ==
    ASSUME IInv, RowsOwned, NEW c \in Clusters, NEW s \in todo[c], Apply(c, s),
           todo' = [todo EXCEPT ![c] = @ \ {s}], UNCHANGED body,
           NoOtherResources(c)
    PROVE  NoOtherResources(c)'
<1> DEFINE own == OwnResources(resources, c)
           goal == body[c].resources
<1>1. /\ resources \in SUBSET ResourceRow /\ UniqueUids(resources)
      /\ s \in Statements(c)
      /\ resources' = ResourcesAfter(resources, c, s)
      /\ todo'[c] = todo[c] \ {s}
  BY DEF IInv, TypeOK, Apply
<1>2. /\ \A q \in own' : /\ q \in own \/ (Writes(s) /\ q = Written(s))
                         /\ ~Removes(s, q.uid)
      /\ s.op = "addResource" => Written(s) \in own'
      /\ s.op = "updateResource" /\ s.uid \in Uids(own) => Written(s) \in own'
  BY <1>1, OwnResourcesAfter DEF RowsOwned
<1>3. UniqueUids(own')
  <2>1. resources' \in SUBSET ResourceRow /\ UniqueUids(resources')
    BY <1>1, ResourceStatement
  <2> QED BY <2>1 DEF OwnResources, UniqueUids
<1>4. /\ Writes(s) => Written(s) \in goal
      /\ \A t \in todo'[c] : Writes(t) => Written(t) \in goal
  BY <1>1 DEF NoOtherResources, Writes, Written
<1>5. ASSUME NEW q \in own', q \notin goal
      PROVE  \E t \in todo'[c] : Removes(t, q.uid) \/ (Writes(t) /\ t.uid = q.uid)
  <2>1. q \in own /\ ~Removes(s, q.uid)
    BY <1>2, <1>4, <1>5
  <2>2. ~(Writes(s) /\ s.uid = q.uid)
    <3>1. ASSUME Writes(s), s.uid = q.uid PROVE FALSE
      <4>1. Written(s) \in own' /\ Written(s).uid = q.uid
        BY <1>2, <2>1, <3>1 DEF Writes, Written, Uids
      <4>2. Written(s) = q
        BY <1>3, <4>1 DEF UniqueUids
      <4> QED BY <1>4, <1>5, <3>1, <4>2
    <3> QED BY <3>1
  <2>3. PICK t \in todo[c] : Removes(t, q.uid) \/ (Writes(t) /\ t.uid = q.uid)
    BY <1>5, <2>1 DEF NoOtherResources, Writes
  <2> QED BY <1>1, <2>1, <2>2, <2>3
<1>6. goal' = goal
  OBVIOUS
<1> HIDE DEF goal
<1> QED BY <1>4, <1>5, <1>6 DEF NoOtherResources, goal, Writes, Written

(* Likewise for the edges.                                                 *)
LEMMA StatementLeavesEdges ==
    ASSUME IInv, RowsOwned, NEW c \in Clusters, NEW s \in todo[c], Apply(c, s),
           todo' = [todo EXCEPT ![c] = @ \ {s}], UNCHANGED body,
           \A e \in body[c].edges : e.type # "interCluster",
           OnlyGoalEdgesComing(c)
    PROVE  /\ OnlyGoalEdgesComing(c)'
           /\ NoOtherEdges(c) => NoOtherEdges(c)'
           /\ AllEdges(c) => AllEdges(c)'
<1> DEFINE own == OwnEdges(edges, c)
           goal == body[c].edges
<1>1. /\ edges \in SUBSET EdgeRow /\ s \in Statements(c)
      /\ edges' = EdgesAfter(edges, c, s)
      /\ todo'[c] = todo[c] \ {s}
      /\ goal' = goal
  BY DEF IInv, TypeOK, Apply
<1>2. s.op = "addEdge" => \A row \in edges : row.edge = s.edge => row.cluster = c
  BY DEF RowsOwned, Waiting
<1>3. /\ \A e \in own' : /\ e \in own \/ (s.op = "addEdge" /\ e = s.edge)
                         /\ ~Cuts(s, e)
      /\ \A e \in own : e \in own' \/ Cuts(s, e)
      /\ s.op = "addEdge" /\ s.edge.type # "interCluster" => s.edge \in own'
  BY <1>1, <1>2, OwnEdgesAfter
<1>4. s.op = "addEdge" => s.edge \in goal
  BY DEF OnlyGoalEdgesComing
<1>5. OnlyGoalEdgesComing(c)'
  BY <1>1 DEF OnlyGoalEdgesComing
<1>6. ASSUME NoOtherEdges(c), NEW e \in own', e \notin goal
      PROVE  \E t \in todo'[c] : Cuts(t, e)
  <2>1. e \in own /\ ~Cuts(s, e)
    BY <1>3, <1>4, <1>6
  <2> QED BY <1>1, <1>6, <2>1 DEF NoOtherEdges
<1>7. ASSUME AllEdges(c), NEW e \in goal
      PROVE  /\ e \in own' \/ AddEdge(e) \in todo'[c]
             /\ \A t \in todo'[c] : ~Cuts(t, e)
  <2>1. s = AddEdge(e) => s.op = "addEdge" /\ s.edge = e
    BY DEF AddEdge
  <2>2. e \in own \/ AddEdge(e) \in todo[c]
    BY <1>7 DEF AllEdges
  <2>3. \A t \in todo[c] : ~Cuts(t, e)
    BY <1>7 DEF AllEdges
  <2> QED BY <1>1, <1>3, <2>1, <2>2, <2>3
<1> HIDE DEF goal
<1> QED BY <1>1, <1>5, <1>6, <1>7 DEF NoOtherEdges, AllEdges, goal

LEMMA StatementKeepsCourse ==
    ASSUME ConsistentStates, Course, NEW c \in Collectors, Statement(c)
    PROVE  Course'
<1>0. c \in Clusters
  BY DEF Collectors
<1>1. PICK s \in todo[c] : \/ Execute(c, s) \/ Isolate(c, s) \/ Lose(c, s)
                           \/ Drop(c, s) \/ Refuse(c, s)
  BY DEF Statement
<1>2. /\ IInv /\ TypeOK /\ RowsOwned /\ late = {} /\ OnCourse(c)
      /\ s \in Statements(c) /\ s \in Waiting(c)
  BY <1>0 DEF Course, IInv, Waiting
<1>3. /\ todo' = [todo EXCEPT ![c] = @ \ {s}]
      /\ UNCHANGED <<late, phase, body, base, decodeErr, known, totals>>
      /\ Apply(c, s) \/ UNCHANGED tables
      /\ \A d \in Clusters \ {c} :
           UNCHANGED <<todo[d], errors[d], connError[d], lapses[d]>>
      /\ todo'[c] = todo[c] \ {s}
  BY <1>0, <1>1, <1>2 DEF Execute, Isolate, Lose, Drop, Refuse, Take, rest, IInv, TypeOK
<1>4. phase[c] \in {"sync", "resources", "edges"} /\ body[c] \in States[c]
  BY <1>0, <1>2 DEF OnCourse, IInv, TypeOK, Phases, Counting
<1>5. ASSUME NEW d \in Clusters \ {c} PROVE Untouched(d)
  <2>1. /\ OwnResources(resources, d)' = OwnResources(resources, d)
        /\ OwnEdges(edges, d)' = OwnEdges(edges, d)
    <3>1. CASE Apply(c, s)
      BY <1>0, <1>2, <3>1, ApplyStatement, OwnOfOthers
    <3>2. CASE UNCHANGED tables
      BY <3>2 DEF tables
    <3> QED BY <1>3, <3>1, <3>2
  <2> QED BY <1>3, <2>1 DEF Untouched
<1>6. RowsOwned'
  <2>1. CASE Apply(c, s)
    <3>1. \A d \in Clusters : \A t \in Waiting(d)' : t.op = "addEdge" => Claims(d, t.edge)
      BY <1>2, <1>3, WaitingOwned
    <3> QED BY <1>0, <1>2, <2>1, <3>1, StatementOwned DEF RowsOwned, Claims
  <2>2. CASE UNCHANGED tables
    BY <1>0, <1>2, <1>3, <2>2, QueueOwned
  <2> QED BY <1>3, <2>1, <2>2
<1>7. ASSUME Noticed(c)' PROVE Execute(c, s) /\ Noticed(c)
  <2>1. CASE Execute(c, s)
    BY <1>7, <2>1 DEF Execute, Noticed, Faultless, Visible, rest
  <2>2. CASE Isolate(c, s)
    BY <1>0, <1>2, <1>7, <2>2 DEF Isolate, Noticed, Faultless, TypeOK
  <2>3. CASE Lose(c, s)
    BY <1>0, <1>2, <1>7, <2>3 DEF Lose, Noticed, Faultless, TypeOK
  <2>4. CASE Drop(c, s)
    BY <1>0, <1>2, <1>7, <2>4 DEF Drop, Noticed, Visible, TypeOK
  <2>5. CASE Refuse(c, s)
    BY <1>7, <2>5 DEF Refuse, Noticed, Faultless
  <2> QED BY <1>1, <2>1, <2>2, <2>3, <2>4, <2>5
<1>8. \A e \in body[c].edges : e.type # "interCluster"
  BY <1>0, <1>4 DEF ConsistentStates
<1>9. ASSUME Noticed(c)' PROVE NoOtherResources(c)'
  <2>1. Apply(c, s) /\ NoOtherResources(c)
    BY <1>2, <1>4, <1>7, <1>9 DEF Execute, OnCourse
  <2> QED BY <1>0, <1>2, <1>3, <2>1, StatementLeavesResources
<1>10. ASSUME Noticed(c)', phase'[c] \in {"sync", "edges"}
       PROVE  /\ OnlyGoalEdgesComing(c)'
              /\ phase'[c] = "sync" => NoOtherEdges(c)'
              /\ phase'[c] = "edges" => NoOtherEdges(c)' \/ AllEdges(c)'
  <2>1. /\ Apply(c, s) /\ OnlyGoalEdgesComing(c)
        /\ phase'[c] = "sync" => NoOtherEdges(c)
        /\ phase'[c] = "edges" => NoOtherEdges(c) \/ AllEdges(c)
    BY <1>2, <1>3, <1>7, <1>10 DEF Execute, OnCourse
  <2> QED BY <1>0, <1>2, <1>3, <1>8, <2>1, StatementLeavesEdges
<1>11. OnCourse(c)'
  BY <1>2, <1>3, <1>4, <1>9, <1>10 DEF OnCourse, Counting, CountsHold
<1>12. TrustedRows(c)'
  BY <1>3, <1>4 DEF TrustedRows
<1>13. IInv'
  BY <1>0, <1>2, StatementKeepsIInv
<1> QED BY <1>0, <1>2, <1>3, <1>5, <1>6, <1>11, <1>12, <1>13, StepKeepsCourse

(* A handler returns; the collector is told k.                             *)
LEMMA ReturnKeepsCourse ==
    ASSUME Course, NEW c \in Collectors, Return(c),
           NEW k, known' = [known EXCEPT ![c] = k],
           \A d \in Clusters \ {c} : totals'[d] = totals[d],
           IInv', late' = {}, TrustedRows(c)'
    PROVE  Course'
<1>1. IInv /\ TypeOK /\ RowsOwned /\ c \in Clusters
  BY DEF Course, IInv, Collectors
<1>2. /\ UNCHANGED tables
      /\ todo' = [todo EXCEPT ![c] = {}]
      /\ phase'[c] = "idle" /\ todo'[c] = {}
      /\ \A d \in Clusters : todo'[d] \subseteq todo[d]
  BY <1>1 DEF Return, IInv, TypeOK
<1>3. ASSUME NEW d \in Clusters \ {c} PROVE Untouched(d)
  BY <1>1 DEF Return, Untouched, tables, IInv, TypeOK
<1>4. RowsOwned'
  BY <1>1, <1>2, QueueOwned
<1>5. OnCourse(c)'
  BY <1>2 DEF OnCourse, Counting, CountsHold
<1> QED BY <1>1, <1>3, <1>4, <1>5, StepKeepsCourse

LEMMA FailKeepsCourse ==
    ASSUME Course, NEW c \in Collectors, Fail(c), late' = {}
    PROVE  Course'
<1>1. /\ Return(c)
      /\ known' = [known EXCEPT ![c] = Unknown]
      /\ totals' = [totals EXCEPT ![c] = <<0, 0>>]
  BY DEF Fail
<1>2. /\ IInv /\ late = {} /\ DOMAIN known = Clusters /\ c \in Clusters
      /\ DOMAIN totals = Clusters
  BY DEF Course, IInv, TypeOK, Collectors
<1>3. IInv'
  BY <1>2, FailKeepsIInv
<1>4. TrustedRows(c)'
  BY <1>1, <1>2 DEF TrustedRows, Trusts
<1>5. \A d \in Clusters \ {c} : totals'[d] = totals[d]
  BY <1>1, <1>2
<1> HIDE DEF Return
<1> QED BY <1>1, <1>3, <1>4, <1>5, ReturnKeepsCourse

(* The request goes on to its next phase.                                  *)
LEMMA ContinueKeepsCourse ==
    ASSUME Course, NEW c \in Collectors, NEW next \in {"query", "totals"},
           Continue(c, next), UNCHANGED late, todo[c] = {},
           \/ next = "query" /\ phase[c] = "resources"
           \/ next = "totals" /\ phase[c] \in {"sync", "edges"},
           ~connError[c], ~decodeErr[c]
    PROVE  Course'
<1>1. IInv /\ TypeOK /\ RowsOwned /\ late = {} /\ OnCourse(c) /\ c \in Clusters
  BY DEF Course, IInv, Collectors
<1>2. /\ phase' = [phase EXCEPT ![c] = next]
      /\ UNCHANGED <<resources, edges, body, base, todo, errors, connError, decodeErr,
                      known, totals, lapses>>
      /\ phase'[c] = next
  BY <1>1 DEF Continue, Goto, tables, TypeOK
<1>3. next \in Phases /\ phase[c] # "idle"
  BY DEF Phases
<1>4. IInv'
  BY <1>1, <1>3, ContinueKeepsIInv
<1>5. ASSUME NEW d \in Clusters \ {c} PROVE Untouched(d)
  BY <1>1, <1>2 DEF Untouched, TypeOK
<1>6. RowsOwned'
  BY <1>1, <1>2, QueueOwned DEF tables
<1>7. /\ Noticed(c)' = Noticed(c)
      /\ NoOtherResources(c)' = NoOtherResources(c)
      /\ OnlyGoalEdgesComing(c)' = OnlyGoalEdgesComing(c)
      /\ NoOtherEdges(c)' = NoOtherEdges(c)
      /\ AllEdges(c)' = AllEdges(c)
  BY <1>2 DEF Noticed, Faultless, Visible, NoOtherResources, OnlyGoalEdgesComing,
              NoOtherEdges, AllEdges
<1>8. OnCourse(c)'
  BY <1>1, <1>2, <1>3, <1>7 DEF OnCourse, Counting, CountsHold
<1>9. TrustedRows(c)'
  BY <1>2 DEF TrustedRows
<1> QED BY <1>1, <1>4, <1>5, <1>6, <1>8, <1>9, StepKeepsCourse

LEMMA DoneKeepsCourse ==
    ASSUME Course, NEW c \in Collectors,
           SyncDone(c) \/ ResourcesDone(c) \/ EdgesDone(c)
    PROVE  Course'
<1>1. late = {} /\ OnCourse(c)
  BY DEF Course
<1>2. CASE SyncDone(c)
  <2>1. phase[c] = "sync" /\ todo[c] = {} /\ ~decodeErr[c] /\ UNCHANGED late
    BY <1>1, <1>2 DEF SyncDone, OnCourse
  <2>2. CASE connError[c]
    BY <1>1, <1>2, <2>1, <2>2, FailKeepsCourse DEF SyncDone
  <2>3. CASE ~connError[c]
    BY <1>2, <2>1, <2>3, ContinueKeepsCourse DEF SyncDone
  <2> QED BY <2>2, <2>3
<1>3. CASE ResourcesDone(c)
  <2>1. phase[c] = "resources" /\ todo[c] = {} /\ UNCHANGED late
    BY <1>3 DEF ResourcesDone
  <2>2. CASE decodeErr[c] \/ connError[c]
    BY <1>1, <1>3, <2>1, <2>2, FailKeepsCourse DEF ResourcesDone
  <2>3. CASE ~decodeErr[c] /\ ~connError[c]
    BY <1>3, <2>1, <2>3, ContinueKeepsCourse DEF ResourcesDone
  <2> QED BY <2>2, <2>3
<1>4. CASE EdgesDone(c)
  <2>1. phase[c] = "edges" /\ todo[c] = {} /\ UNCHANGED late
    BY <1>4 DEF EdgesDone
  <2>2. CASE decodeErr[c] \/ connError[c]
    BY <1>1, <1>4, <2>1, <2>2, FailKeepsCourse DEF EdgesDone
  <2>3. CASE ~decodeErr[c] /\ ~connError[c]
    BY <1>4, <2>1, <2>3, ContinueKeepsCourse DEF EdgesDone
  <2> QED BY <2>2, <2>3
<1> QED BY <1>2, <1>3, <1>4
------------------------------------------------------------------------------
(* A set within or around another, of the same size, is the other.         *)
LEMMA SameSize ==
    ASSUME NEW S, NEW T, IsFiniteSet(S), IsFiniteSet(T),
           S \subseteq T \/ T \subseteq S, Cardinality(S) = Cardinality(T)
    PROVE  S = T
BY FS_Subset

(* The totals that are counted tell whether the state is stored.           *)
LEMMA CountsKeepHold ==
    ASSUME Course, NEW c \in Collectors, CountResources(c) \/ CountEdges(c),
           Noticed(c)
    PROVE  CountsHold(c)'
<1> DEFINE rs == OwnResources(resources, c)
           es == OwnEdges(edges, c)
           goal == body[c]
<1>1. c \in Clusters /\ IInv /\ TypeOK /\ OnCourse(c) /\ DOMAIN totals = Clusters
  BY DEF Course, IInv, TypeOK, Collectors
<1>2. /\ UNCHANGED <<resources, edges, body>>
      /\ phase[c] \in {"totals", "count"}
      /\ \/ /\ phase[c] = "totals" /\ phase'[c] = "count"
            /\ totals'[c][1] = Cardinality(rs)
         \/ /\ phase[c] = "count" /\ phase'[c] = "respond"
            /\ totals'[c][1] = totals[c][1] /\ totals'[c][2] = Cardinality(es)
  BY <1>1 DEF CountResources, CountEdges, Goto, tables, TypeOK
<1>3. /\ todo[c] = {} /\ NoOtherResources(c) /\ CountsHold(c)
      /\ NoOtherEdges(c) \/ AllEdges(c)
  BY <1>1, <1>2 DEF OnCourse, Counting
<1>4. goal \in ClusterState
  BY <1>1, <1>2, StatesAssumption DEF IInv
<1>5. /\ IsFiniteSet(rs) /\ IsFiniteSet(es)
      /\ IsFiniteSet(goal.resources) /\ IsFiniteSet(goal.edges)
  <2>1. rs \in SUBSET Resource /\ es \in SUBSET Edge
    BY <1>1, OwnResourceRow, OwnEdgeRow DEF TypeOK
  <2>2. goal.resources \in SUBSET Resource /\ goal.edges \in SUBSET Edge
    BY <1>4 DEF ClusterState
  <2> HIDE DEF rs, es, goal
  <2> QED BY <2>1, <2>2, FS_Subset, TablesAssumption
<1>6. rs \subseteq goal.resources
  BY <1>3 DEF NoOtherResources
<1>7. es \subseteq goal.edges \/ goal.edges \subseteq es
  BY <1>3 DEF NoOtherEdges, AllEdges
<1>8. Stored(c) = [resources |-> rs, edges |-> es] /\ Stored(c)' = Stored(c)
  BY <1>2 DEF Stored
<1>9. goal' = goal /\ OwnResources(resources, c)' = rs
  BY <1>2
<1>10. phase[c] = "count" /\ totals[c][1] = Cardinality(goal.resources) =>
         rs = goal.resources \/ Stored(c) = Nothing
  BY <1>3 DEF CountsHold
<1> HIDE DEF rs, es, goal
<1>11. ASSUME totals'[c][1] = Cardinality(goal.resources)
       PROVE  rs = goal.resources \/ Stored(c) = Nothing
  BY <1>2, <1>5, <1>6, <1>10, <1>11, SameSize
<1>12. ASSUME phase'[c] = "respond", totals'[c] = TotalsOf(goal)
       PROVE  Stored(c) \in {goal, Nothing}
  <2>1. /\ totals'[c][1] = Cardinality(goal.resources)
        /\ Cardinality(es) = Cardinality(goal.edges)
    BY <1>2, <1>12 DEF TotalsOf
  <2>2. es = goal.edges
    BY <1>5, <1>7, <2>1, SameSize
  <2>3. goal = [resources |-> goal.resources, edges |-> goal.edges]
    BY <1>4 DEF ClusterState
  <2> QED BY <1>8, <1>11, <2>1, <2>2, <2>3
<1> USE DEF goal
<1> QED BY <1>8, <1>9, <1>11, <1>12 DEF CountsHold, Nothing, TotalsOf

LEMMA CountsKeepCourse ==
    ASSUME Course, NEW c \in Collectors, CountResources(c) \/ CountEdges(c)
    PROVE  Course'
<1>1. IInv /\ TypeOK /\ RowsOwned /\ late = {} /\ OnCourse(c) /\ c \in Clusters
  BY DEF Course, IInv, Collectors
<1>2. /\ UNCHANGED <<resources, edges, body, base, todo, errors, connError,
                      decodeErr, late, known, lapses>>
      /\ \A d \in Clusters \ {c} : UNCHANGED <<phase[d], totals[d]>>
      /\ phase[c] \in Counting /\ phase'[c] \in Counting
  BY <1>1 DEF CountResources, CountEdges, Goto, tables, TypeOK, Counting
<1>3. IInv'
  BY <1>1, CountsKeepIInv
<1>4. ASSUME NEW d \in Clusters \ {c} PROVE Untouched(d)
  BY <1>2 DEF Untouched
<1>5. RowsOwned'
  BY <1>1, <1>2, QueueOwned DEF tables
<1>6. /\ Noticed(c)' = Noticed(c)
      /\ NoOtherResources(c)' = NoOtherResources(c)
      /\ OnlyGoalEdgesComing(c)' = OnlyGoalEdgesComing(c)
      /\ NoOtherEdges(c)' = NoOtherEdges(c)
      /\ AllEdges(c)' = AllEdges(c)
  BY <1>2 DEF Noticed, Faultless, Visible, NoOtherResources, OnlyGoalEdgesComing,
              NoOtherEdges, AllEdges
<1>7. Noticed(c)' => CountsHold(c)'
  BY <1>6, CountsKeepHold
<1>8. OnCourse(c)'
  BY <1>1, <1>2, <1>6, <1>7 DEF OnCourse, Counting
<1>9. TrustedRows(c)'
  BY <1>2 DEF TrustedRows, Counting
<1> QED BY <1>1, <1>2, <1>3, <1>4, <1>5, <1>8, <1>9, StepKeepsCourse

(* The collector cannot trust a response unless the tables hold its state, *)
(* or its rows were deleted after they were counted.                       *)
LEMMA TrustIsExact ==
    ASSUME Course, NEW c \in Collectors, RespondOk(c), Trusts(c)', Visible(c)'
    PROVE  Stored(c)' \in {known'[c], Nothing}
<1> DEFINE k == IF base[c] /\ ~errors[c] THEN body[c] ELSE Unknown
<1>1. c \in Clusters /\ IInv /\ TypeOK /\ OnCourse(c) /\ DOMAIN known = Clusters
  BY DEF Course, IInv, Collectors
<1>2. /\ known'[c] = k /\ phase[c] = "respond"
      /\ UNCHANGED <<resources, edges, totals, lapses>>
  BY <1>1 DEF RespondOk, Return, tables
<1>3. k # Unknown /\ totals[c] = TotalsOf(k)
  BY <1>2 DEF Trusts
<1>4. k = body[c] /\ base[c] /\ ~errors[c]
  BY <1>3
<1> HIDE DEF k
<1>5. Noticed(c)
  BY <1>1, <1>2, <1>4 DEF OnCourse, Counting, Noticed, Faultless, Visible
<1>6. Stored(c) \in {k, Nothing}
  BY <1>1, <1>2, <1>3, <1>4, <1>5 DEF OnCourse, CountsHold
<1> QED BY <1>2, <1>6 DEF Stored, Nothing

LEMMA RespondOkKeepsCourse ==
    ASSUME Course, NEW c \in Collectors, RespondOk(c)
    PROVE  Course'
<1> DEFINE k == IF base[c] /\ ~errors[c] THEN body[c] ELSE Unknown
<1>1. /\ Return(c)
      /\ known' = [known EXCEPT ![c] = k]
      /\ UNCHANGED <<late, totals>>
  BY DEF RespondOk, Return
<1>2. IInv /\ late = {} /\ c \in Clusters
  BY DEF Course, Collectors
<1>3. IInv'
  BY <1>2, RespondOkKeepsIInv
<1>4. ASSUME Trusts(c)', Visible(c)'
      PROVE  /\ OwnResources(resources, c)' \subseteq known'[c].resources
             /\ OwnEdges(edges, c)' \subseteq known'[c].edges
  <2>1. Stored(c)' = known'[c] \/ Stored(c)' = Nothing
    BY <1>4, TrustIsExact
  <2>2. /\ Stored(c)'.resources = OwnResources(resources, c)'
        /\ Stored(c)'.edges = OwnEdges(edges, c)'
    BY DEF Stored
  <2>3. Nothing.resources = {} /\ Nothing.edges = {}
    BY DEF Nothing
  <2> QED BY <2>1, <2>2, <2>3
<1>5. TrustedRows(c)'
  BY <1>4 DEF TrustedRows
<1> HIDE DEF Return, k
<1> QED BY <1>1, <1>2, <1>3, <1>5, ReturnKeepsCourse

(* A request queues statements.                                            *)
LEMMA QueueKeepsCourse ==
    ASSUME Course, NEW c \in Collectors, IInv',
           UNCHANGED <<resources, edges, late>>,
           \A d \in Clusters \ {c} :
             UNCHANGED <<phase[d], body[d], base[d], todo[d], errors[d],
                         connError[d], decodeErr[d], known[d], totals[d], lapses[d]>>,
           phase'[c] \in {"sync", "resources", "edges"},
           phase'[c] = "sync" => ~decodeErr'[c],
           \A s \in todo'[c] : s.op = "addEdge" => Claims(c, s.edge),
           Noticed(c)' => NoOtherResources(c)' /\ OnlyGoalEdgesComing(c)',
           Noticed(c)' /\ phase'[c] = "sync" => NoOtherEdges(c)',
           Noticed(c)' /\ phase'[c] = "edges" => NoOtherEdges(c)' \/ AllEdges(c)'
    PROVE  Course'
<1>1. RowsOwned /\ late' = {} /\ c \in Clusters
  BY DEF Course, Collectors
<1>2. RowsOwned'
  BY <1>1, QueueOwned DEF tables
<1>3. ASSUME NEW d \in Clusters \ {c} PROVE Untouched(d)
  BY DEF Untouched
<1>4. OnCourse(c)'
  BY DEF OnCourse, Counting, CountsHold
<1>5. TrustedRows(c)'
  BY DEF TrustedRows
<1> QED BY <1>1, <1>2, <1>3, <1>4, <1>5, StepKeepsCourse

(* A delta from a state that has all that is stored.                       *)
LEMMA DeltaLeaves ==
    ASSUME NEW c \in Clusters, NEW from \in ClusterState, NEW to \in ClusterState,
           UniqueUids(from.resources),
           ~Rejected(Added(from, to) \cup Updated(from, to), c)
    PROVE  LET todo_c == SyncStatements(c, from, to)
           IN  /\ \A r \in from.resources :
                    \/ r \in to.resources
                    \/ \E s \in todo_c : \/ Removes(s, r.uid)
                                         \/ Writes(s) /\ s.uid = r.uid
               /\ \A s \in todo_c : Writes(s) => Written(s) \in to.resources
               /\ \A s \in todo_c : s.op = "addEdge" => s.edge \in to.edges
               /\ \A e \in from.edges :
                    e \in to.edges \/ \E s \in todo_c : Cuts(s, e)
<1> DEFINE todo_c == SyncStatements(c, from, to)
           gone == Deleted(from, to)
<1>1. Valid(Updated(from, to), c) = Updated(from, to)
  BY DEF Rejected, Valid
<1>2. /\ \A r \in Updated(from, to) : UpdateResource(r) \in todo_c
      /\ gone # {} => DeleteResources(gone) \in todo_c
      /\ \A e \in from.edges \ to.edges : DeleteEdge(e) \in todo_c
  BY <1>1 DEF SyncStatements
<1>3. ASSUME NEW s \in todo_c
      PROVE  \/ \E r \in to.resources : s = AddResource(r) \/ s = UpdateResource(r)
             \/ s = DeleteResources(gone) \/ s = DeleteEdgesOf(gone)
             \/ \E e \in to.edges : s = AddEdge(e)
             \/ \E e \in from.edges \ to.edges : s = DeleteEdge(e)
  BY <1>3 DEF SyncStatements, Valid, Added, Updated
<1> HIDE DEF todo_c
<1>4. ASSUME NEW r \in from.resources, r \notin to.resources
      PROVE  \E s \in todo_c : Removes(s, r.uid) \/ (Writes(s) /\ s.uid = r.uid)
  <2>1. CASE r.uid \in Uids(to.resources)
    <3>1. PICK q \in to.resources : q.uid = r.uid
      BY <2>1 DEF Uids
    <3>2. q \notin from.resources
      BY <1>4, <3>1 DEF UniqueUids
    <3>3. q \in Updated(from, to)
      BY <3>1, <3>2 DEF Updated, Uids
    <3>4. Writes(UpdateResource(q)) /\ UpdateResource(q).uid = r.uid
      BY <3>1 DEF Writes, UpdateResource
    <3> QED BY <1>2, <3>3, <3>4
  <2>2. CASE r.uid \notin Uids(to.resources)
    <3>1. r.uid \in gone
      BY <2>2 DEF Deleted, Uids
    <3> QED BY <1>2, <3>1 DEF Removes, DeleteResources
  <2> QED BY <2>1, <2>2
<1> HIDE DEF gone
<1>5. ASSUME NEW s \in todo_c, Writes(s) PROVE Written(s) \in to.resources
  <2>1. PICK r \in to.resources : s = AddResource(r) \/ s = UpdateResource(r)
    BY <1>3, <1>5 DEF Writes, DeleteResources, DeleteEdgesOf, AddEdge, DeleteEdge
  <2>2. s.uid = r.uid /\ s.data = r.data
    BY <2>1 DEF AddResource, UpdateResource
  <2>3. r = [uid |-> r.uid, data |-> r.data]
    BY DEF ClusterState, Resource
  <2> QED BY <2>2, <2>3 DEF Written
<1>6. ASSUME NEW s \in todo_c, s.op = "addEdge" PROVE s.edge \in to.edges
  BY <1>3, <1>6 DEF AddResource, UpdateResource, DeleteResources, DeleteEdgesOf,
                    AddEdge, DeleteEdge
<1>7. ASSUME NEW e \in from.edges, e \notin to.edges
      PROVE  \E s \in todo_c : Cuts(s, e)
  <2>1. Cuts(DeleteEdge(e), e)
    BY DEF Cuts, DeleteEdge
  <2> QED BY <1>2, <1>7, <2>1
<1> QED BY <1>4, <1>5, <1>6, <1>7 DEF todo_c

LEMMA SendDeltaKeepsCourse ==
    ASSUME ConsistentStates, CycleTypeOK, Course, NEW c \in Collectors, SendDelta(c)
    PROVE  Course'
<1> DEFINE from == known[c]
           to == actual[c]
<1>0. /\ c \in Clusters /\ to \in States[c]
      /\ IInv /\ TypeOK /\ OnCourse(c) /\ TrustedRows(c) /\ DOMAIN todo = Clusters
      /\ DOMAIN body = Clusters /\ Trusts(c)
  BY DEF Course, CycleTypeOK, IInv, Collectors, SendDelta
<1>1. from \in States[c]
  BY <1>0 DEF Trusts, TypeOK
<1>2. StartSync(c, from, to)
  BY DEF SendDelta
<1> HIDE DEF from, to
<1>3. /\ UNCHANGED <<resources, edges, late>>
      /\ phase[c] = "idle" /\ phase'[c] = "sync"
      /\ body'[c] = to /\ todo'[c] = SyncStatements(c, from, to)
      /\ decodeErr'[c] = FALSE /\ UNCHANGED lapses
      /\ errors'[c] = Rejected(Added(from, to) \cup Updated(from, to), c)
      /\ \A d \in Clusters \ {c} :
           UNCHANGED <<phase[d], body[d], base[d], todo[d], errors[d],
                       connError[d], decodeErr[d], known[d], totals[d], lapses[d]>>
  BY <1>0, <1>2 DEF StartSync, Goto, Await, TypeOK, IInv
<1>4. IInv'
  BY <1>0, <1>1, <1>2, StartSyncKeepsIInv
<1>5. /\ from \in ClusterState /\ to \in ClusterState
      /\ UniqueUids(from.resources)
  BY <1>0, <1>1, StatesAssumption DEF ConsistentStates
<1>6. \A s \in todo'[c] : s.op = "addEdge" => Claims(c, s.edge)
  <2>1. \A s \in todo'[c] : s.op = "addEdge" => s.edge \in to.edges
    BY <1>3 DEF SyncStatements, AddResource, UpdateResource, DeleteResources,
                DeleteEdgesOf, AddEdge, DeleteEdge
  <2> QED BY <1>0, <2>1 DEF Claims
<1>7. ASSUME Noticed(c)'
      PROVE  NoOtherResources(c)' /\ OnlyGoalEdgesComing(c)' /\ NoOtherEdges(c)'
  <2>1. ~Rejected(Added(from, to) \cup Updated(from, to), c) /\ Visible(c)
    BY <1>3, <1>7 DEF Noticed, Faultless, Visible
  <2>2. /\ OwnResources(resources, c)' \subseteq from.resources
        /\ OwnEdges(edges, c)' \subseteq from.edges
    BY <1>0, <1>3, <2>1 DEF TrustedRows, from
  <2> QED BY <1>0, <1>3, <1>5, <2>1, <2>2, DeltaLeaves
          DEF NoOtherResources, OnlyGoalEdgesComing, NoOtherEdges, Writes, Written
<1> QED BY <1>3, <1>4, <1>6, <1>7, QueueKeepsCourse

LEMMA SendStateKeepsCourse ==
    ASSUME CycleTypeOK, Course, NEW c \in Collectors,
           NEW decoded \in SUBSET actual[c].resources, NEW failed \in BOOLEAN,
           SendState(c, decoded, failed)
    PROVE  Course'
<1> DEFINE to == actual[c]
           incoming == Valid(decoded, c)
           kept == KeptUids(incoming, c)
<1>1. /\ c \in Clusters /\ to \in States[c] /\ IInv /\ TypeOK /\ DOMAIN known = Clusters
      /\ DOMAIN todo = Clusters /\ DOMAIN body = Clusters
  BY DEF Course, CycleTypeOK, IInv, Collectors
<1>2. StartResync(c, to, decoded, failed)
  BY DEF SendState
<1>3. /\ UNCHANGED <<resources, edges, late>>
      /\ phase'[c] = "resources" /\ body'[c] = to
      /\ todo'[c] = {AddResource(r) : r \in incoming}
                      \cup {DeleteOtherResources(kept), DeleteOtherEdges(kept)}
      /\ errors'[c] = Rejected(decoded, c)
      /\ \A d \in Clusters \ {c} :
           UNCHANGED <<phase[d], body[d], base[d], todo[d], errors[d],
                       connError[d], decodeErr[d], known[d], totals[d], lapses[d]>>
  BY <1>1, <1>2 DEF StartResync, Goto, Await, TypeOK
<1>4. IInv'
  BY <1>1, <1>2, StartResyncKeepsIInv
<1>5. \A s \in todo'[c] : s.op # "addEdge"
  BY <1>3 DEF AddResource, DeleteOtherResources, DeleteOtherEdges
<1> HIDE DEF to
<1>6. ASSUME Noticed(c)' PROVE NoOtherResources(c)'
  <2>1. incoming = decoded /\ decoded \subseteq to.resources
    BY <1>3, <1>6 DEF Noticed, Faultless, Rejected, to
  <2>2. kept = Uids(decoded) \cup {Node(c)}
    BY <2>1 DEF KeptUids
  <2>3. ASSUME NEW r \in OwnResources(resources, c)
        PROVE  \E s \in todo'[c] : \/ Removes(s, r.uid)
                                   \/ Writes(s) /\ s.uid = r.uid
    <3>1. CASE r.uid \in Uids(decoded)
      <4>1. PICK q \in incoming : q.uid = r.uid
        BY <2>1, <3>1 DEF Uids
      <4>2. Writes(AddResource(q)) /\ AddResource(q).uid = r.uid
        BY <4>1 DEF Writes, AddResource
      <4> QED BY <1>3, <4>1, <4>2
    <3>2. CASE r.uid \notin Uids(decoded)
      <4>1. r.uid \notin kept
        BY <2>2, <3>2 DEF OwnResources
      <4>2. Removes(DeleteOtherResources(kept), r.uid)
        BY <4>1 DEF Removes, DeleteOtherResources
      <4> QED BY <1>3, <4>2
    <3> QED BY <3>1, <3>2
  <2>4. \A s \in todo'[c] : \/ \E r \in to.resources : s = AddResource(r)
                            \/ s = DeleteOtherResources(kept)
                            \/ s = DeleteOtherEdges(kept)
    BY <1>3, <2>1
  <2> HIDE DEF incoming, kept
  <2>5. ASSUME NEW s \in todo'[c], Writes(s) PROVE Written(s) \in to.resources
    <3>1. PICK r \in to.resources : s = AddResource(r)
      BY <2>4, <2>5 DEF Writes, DeleteOtherResources, DeleteOtherEdges
    <3>2. r = [uid |-> r.uid, data |-> r.data]
      BY <1>1, StatesAssumption DEF ClusterState, Resource
    <3> QED BY <3>1, <3>2 DEF AddResource, Written
  <2>6. OwnResources(resources, c)' = OwnResources(resources, c)
    BY <1>3
  <2> QED BY <1>3, <2>3, <2>5, <2>6 DEF NoOtherResources, Writes, Written
<1>7. OnlyGoalEdgesComing(c)'
  BY <1>5 DEF OnlyGoalEdgesComing
<1> HIDE DEF incoming, kept
<1> QED BY <1>3, <1>4, <1>5, <1>6, <1>7, QueueKeepsCourse

(* If all edges of the request were decoded then they will be stored,      *)
(* whatever the query for the existing edges delivers.  If this query      *)
(* delivers all of them then those that were not decoded will be deleted.  *)
LEMMA ResetEdgesKeepsCourse ==
    ASSUME Course, NEW c \in Collectors, NEW existing,
           NEW decoded \in SUBSET body[c].edges, NEW failed \in BOOLEAN,
           ResetEdges(c, existing, decoded, failed)
    PROVE  Course'
<1>1. c \in Clusters /\ IInv /\ TypeOK /\ OnCourse(c) /\ DOMAIN todo = Clusters
  BY DEF Course, IInv, Collectors
<1>2. /\ UNCHANGED <<resources, edges, late, body>>
      /\ phase[c] = "query" /\ phase'[c] = "edges"
      /\ existing \subseteq OwnEdges(edges, c)
      /\ todo'[c] = {AddEdge(e) : e \in decoded \ existing}
                      \cup {DeleteEdge(e) : e \in existing \ decoded}
      /\ base'[c] = base[c] /\ errors'[c] = errors[c]
      /\ decodeErr'[c] = failed
      /\ lapses[c] \subseteq lapses'[c]
      /\ ~failed /\ decoded # body[c].edges => "body" \in lapses'[c]
      /\ existing # OwnEdges(edges, c) => "query" \in lapses'[c]
      /\ \A d \in Clusters \ {c} :
           UNCHANGED <<phase[d], body[d], base[d], todo[d], errors[d],
                       connError[d], decodeErr[d], known[d], totals[d], lapses[d]>>
  BY <1>1 DEF ResetEdges, Goto, tables, TypeOK
<1>3. IInv'
  BY <1>1, ResetEdgesKeepsIInv
<1>4. body[c] \in States[c] /\ decoded \subseteq body[c].edges
  BY <1>1, <1>2 DEF IInv
<1>5. \A s \in todo'[c] : \/ \E e \in decoded : s = AddEdge(e)
                         \/ \E e \in existing \ decoded : s = DeleteEdge(e)
  BY <1>2
<1>6. \A s \in todo'[c] : s.op = "addEdge" => s.edge \in body[c].edges
  BY <1>4, <1>5 DEF AddEdge, DeleteEdge
<1>7. \A s \in todo'[c] : s.op = "addEdge" => Claims(c, s.edge)
  BY <1>4, <1>6 DEF Claims
<1>8. OnlyGoalEdgesComing(c)'
  BY <1>2, <1>6 DEF OnlyGoalEdgesComing
<1>9. ASSUME Noticed(c)'
      PROVE  NoOtherResources(c)' /\ (NoOtherEdges(c)' \/ AllEdges(c)')
  <2>1. /\ decoded = body[c].edges \/ existing = OwnEdges(edges, c)
        /\ todo[c] = {} /\ Noticed(c) /\ NoOtherResources(c)
    BY <1>1, <1>2, <1>9 DEF Noticed, Faultless, Visible, OnCourse
  <2>2. /\ OwnResources(resources, c)' = OwnResources(resources, c)
        /\ OwnEdges(edges, c)' = OwnEdges(edges, c)
        /\ body'[c] = body[c]
    BY <1>2
  <2>3. \A s \in todo'[c] : s.op \notin {"addResource", "updateResource"}
    BY <1>5 DEF AddEdge, DeleteEdge
  <2>4. NoOtherResources(c)'
    BY <2>1, <2>2, <2>3 DEF NoOtherResources
  <2>5. CASE decoded = body[c].edges
    <3>1. \A s \in todo'[c] : \A e \in body[c].edges : ~Cuts(s, e)
      BY <1>5, <2>5 DEF AddEdge, DeleteEdge, Cuts
    <3>2. \A e \in body[c].edges : e \in existing \/ AddEdge(e) \in todo'[c]
      BY <1>2, <2>5
    <3>3. AllEdges(c)'
      BY <1>2, <2>2, <3>1, <3>2 DEF AllEdges
    <3> QED BY <2>4, <3>3
  <2>6. CASE existing = OwnEdges(edges, c)
    <3>1. \A e : Cuts(DeleteEdge(e), e)
      BY DEF Cuts, DeleteEdge
    <3>2. \A e \in existing : e \in body[c].edges \/ DeleteEdge(e) \in todo'[c]
      BY <1>2
    <3>3. NoOtherEdges(c)'
      BY <2>2, <2>6, <3>1, <3>2 DEF NoOtherEdges
    <3> QED BY <2>4, <3>3
  <2> QED BY <2>1, <2>5, <2>6
<1> QED BY <1>2, <1>3, <1>7, <1>8, <1>9, QueueKeepsCourse

LEMMA PhaseKeepsCourse ==
    ASSUME Course, NEW c \in Collectors, Phase(c)
    PROVE  Course'
<1>1. late = {} /\ "late" \notin Faults
  BY CycleAssumption DEF Course
<1>2. CASE EdgesAbandoned(c)
  <2>1. late' = {} /\ Fail(c)
    BY <1>1, <1>2 DEF EdgesAbandoned
  <2> QED BY <2>1, FailKeepsCourse
<1>3. CASE TotalsFail(c)
  BY <1>1, <1>3, FailKeepsCourse DEF TotalsFail
<1>4. ASSUME NEW existing, NEW decoded \in SUBSET body[c].edges,
             NEW failed \in BOOLEAN, ResetEdges(c, existing, decoded, failed)
      PROVE  Course'
  BY <1>4, ResetEdgesKeepsCourse
<1> QED BY <1>2, <1>3, <1>4, DoneKeepsCourse, CountsKeepCourse, RespondOkKeepsCourse
        DEF Phase

(* clustersync deletes the rows of a cluster in the middle of its request: *)
(* some may be missing in the end, but there are no others.                *)
LEMMA DeleteKeepsCourse ==
    ASSUME Course, NEW c \in Collectors, DeleteClusterResources(c)
    PROVE  Course'
<1>1. c \in Clusters /\ IInv /\ RowsOwned /\ OnCourse(c) /\ TrustedRows(c)
      /\ late = {}
  BY DEF Course, Collectors
<1>2. UNCHANGED <<todo, errors, connError, late, phase, body, base, decodeErr, known,
                  totals, lapses>>
  BY DEF DeleteClusterResources, rest
<1>3. IInv'
  BY <1>1, OutsideKeepsIInv DEF Outside
<1>4. resources' \subseteq resources /\ edges' \subseteq edges
  BY <1>1, DeletedRows
<1>5. RowsOwned'
  BY <1>1, <1>2, <1>4 DEF RowsOwned, Claims, Waiting
<1>6. OwnResources(resources', c) = {} /\ OwnEdges(edges', c) = {}
  BY DEF DeleteClusterResources, OwnResources, OwnEdges
<1>7. ASSUME NEW d \in Clusters \ {c} PROVE Untouched(d)
  <2>1. Foreign(resources', c) = Foreign(resources, c) /\ Foreign(edges', c) = Foreign(edges, c)
    BY DEF DeleteClusterResources, Foreign
  <2>2. /\ OwnResources(resources', d) = OwnResources(resources, d)
        /\ OwnEdges(edges', d) = OwnEdges(edges, d)
    BY <1>1, <2>1, OwnOfOthers
  <2> QED BY <1>2, <2>2 DEF Untouched
<1>8. /\ Noticed(c)' = Noticed(c)
      /\ NoOtherResources(c) => NoOtherResources(c)'
      /\ OnlyGoalEdgesComing(c)' = OnlyGoalEdgesComing(c)
      /\ NoOtherEdges(c)'
      /\ CountsHold(c)'
  BY <1>2, <1>6 DEF Noticed, Faultless, Visible, NoOtherResources, OnlyGoalEdgesComing,
                    NoOtherEdges, CountsHold, Stored, Nothing
<1>9. OnCourse(c)'
  BY <1>1, <1>2, <1>8 DEF OnCourse
<1>10. TrustedRows(c)'
  BY <1>2, <1>6 DEF TrustedRows
<1> QED BY <1>1, <1>2, <1>3, <1>5, <1>7, <1>9, <1>10, StepKeepsCourse

LEMMA DisturbKeepsCourse ==
    ASSUME ConsistentStates, CycleTypeOK, Course, NEW c \in Collectors, Disturb(c)
    PROVE  Course'
<1>1. late = {}
  BY DEF Course
<1>2. CASE BadRequest(c)
  BY <1>1, <1>2, FailKeepsCourse DEF BadRequest
<1>3. CASE \E decoded \in SUBSET actual[c].resources, failed \in BOOLEAN :
             SendState(c, decoded, failed)
  BY <1>3, SendStateKeepsCourse
<1>4. CASE \E s \in todo[c] : Isolate(c, s) \/ Lose(c, s) \/ Drop(c, s)
  BY <1>4, StatementKeepsCourse DEF Statement
<1>5. ASSUME NEW existing, NEW decoded \in SUBSET body[c].edges,
             NEW failed \in BOOLEAN, ResetEdges(c, existing, decoded, failed)
      PROVE  Course'
  BY <1>5, ResetEdgesKeepsCourse
<1>6. CASE TotalsFail(c)
  BY <1>6, PhaseKeepsCourse DEF Phase
<1>7. CASE Break(c)
  BY <1>1, <1>7, FailKeepsCourse DEF Break
<1>8. CASE DeleteClusterResources(c)
  BY <1>8, DeleteKeepsCourse
<1> QED BY <1>2, <1>3, <1>4, <1>5, <1>6, <1>7, <1>8 DEF Disturb

LEMMA WorkKeepsCourse ==
    ASSUME ConsistentStates, CycleTypeOK, Course, NEW c \in Collectors, Work(c)
    PROVE  Course'
<1>1. CASE SendDelta(c)
  BY <1>1, SendDeltaKeepsCourse
<1>2. CASE SendState(c, actual[c].resources, FALSE)
  BY <1>2, SendStateKeepsCourse
<1>3. CASE \E s \in todo[c] : Execute(c, s) \/ Refuse(c, s)
  BY <1>3, StatementKeepsCourse DEF Statement
<1>4. CASE phase[c] = "query" /\ ResetEdges(c, OwnEdges(edges, c), body[c].edges, FALSE)
  BY <1>4, ResetEdgesKeepsCourse
<1>5. CASE SyncDone(c) \/ ResourcesDone(c) \/ EdgesDone(c) \/ EdgesAbandoned(c)
           \/ CountResources(c) \/ CountEdges(c) \/ RespondOk(c)
  BY <1>5, PhaseKeepsCourse DEF Phase
<1> QED BY <1>1, <1>2, <1>3, <1>4, <1>5 DEF Work

LEMMA InitTrustInv == ASSUME ConsistentStates PROVE CycleInit => TrustInv
<1> SUFFICES ASSUME CycleInit PROVE TrustInv
  OBVIOUS
<1>1. CycleTypeOK
  BY InitCycleInv DEF CycleInv
<1>2. IInv /\ RowsOwned /\ late = {}
  BY InitSyncInv DEF CycleInit, Init, SyncInv
<1>3. \A c \in Collectors : OnCourse(c) /\ TrustedRows(c)
  BY DEF CycleInit, Init, OnCourse, Counting, CountsHold, TrustedRows, Trusts, Collectors
<1> QED BY <1>1, <1>2, <1>3, CourseOfTrust DEF Course

LEMMA NextKeepsTrustInv ==
    ASSUME ConsistentStates, TrustInv, [CycleNext]_cycleVars
    PROVE  TrustInv'
<1>1. CycleTypeOK /\ Course /\ CycleInv
  BY CourseOfTrust DEF Course, CycleInv
<1>2. CycleTypeOK'
  BY <1>1, CycleNextKeepsInv DEF CycleInv
<1>3. Course'
  <2>1. CASE UNCHANGED vars
    <3>1. IInv' /\ RowsOwned' /\ late' = {}
      BY <1>1, <2>1 DEF Course, IInv, TypeOK, RowsOwned, Claims, Waiting, vars
    <3>2. ASSUME NEW d \in Collectors PROVE OnCourse(d)' /\ TrustedRows(d)'
      <4>1. Untouched(d) /\ d \in Clusters
        BY <2>1 DEF vars, Untouched, Collectors
      <4> QED BY <1>1, <4>1, UntouchedKeepsCourse DEF Course
    <3> QED BY <3>1, <3>2 DEF Course, Collectors
  <2>2. ASSUME NEW c \in Collectors, Change(c) PROVE UNCHANGED vars
    BY <2>2 DEF Change
  <2>3. CASE UNCHANGED cycleVars
    BY <2>1, <2>3 DEF cycleVars
  <2> QED BY <1>1, <2>1, <2>2, <2>3, WorkKeepsCourse, DisturbKeepsCourse DEF CycleNext
<1> QED BY <1>2, <1>3 DEF TrustInv, Course, TrustHolds, TrustedRows

(* A request that ends and leaves its collector with a state was answered  *)
(* by RespondOk.                                                           *)
LEMMA ConfirmsByRespondOk ==
    ASSUME CycleInv, [CycleNext]_cycleVars, NEW c \in Collectors,
           phase[c] # "idle", phase'[c] = "idle", known'[c] # Unknown
    PROVE  RespondOk(c)
<1>1. c \in Clusters /\ phase \in [Clusters -> Phases] /\ DOMAIN known = Clusters
  BY DEF CycleInv, IInv, TypeOK, Collectors
<1>2. ASSUME NEW d \in Clusters, Fail(d) PROVE FALSE
  BY <1>1, <1>2 DEF Fail, Return
<1>3. ASSUME NEW d \in Clusters, NEW next \in Phases \ {"idle"}, Goto(d, next) PROVE FALSE
  BY <1>1, <1>3 DEF Goto
<1>4. {"sync", "resources", "query", "edges", "totals", "count", "respond"}
        \subseteq Phases \ {"idle"}
  BY DEF Phases
<1>5. ASSUME NEW d \in Clusters, Statement(d) PROVE FALSE
  BY <1>5 DEF Statement, Execute, Isolate, Lose, Drop, Refuse, rest
<1>6. ASSUME NEW d \in Clusters, RespondOk(d) PROVE d = c
  BY <1>1, <1>6 DEF RespondOk, Return
<1>7. ASSUME NEW d \in Clusters, Phase(d) PROVE RespondOk(c)
  BY <1>2, <1>3, <1>4, <1>6, <1>7
     DEF Phase, SyncDone, ResourcesDone, EdgesDone, EdgesAbandoned, TotalsFail,
         CountResources, CountEdges, Continue, ResetEdges
<1>8. ASSUME NEW d \in Clusters, Collector(d) PROVE FALSE
  BY <1>2, <1>3, <1>4, <1>8 DEF Collector, BadRequest, StartSync, StartResync
<1>9. ASSUME NEW d \in Clusters, Outside(d) PROVE FALSE
  <2>1. CASE Break(d)
    BY <1>2, <2>1 DEF Break
  <2>2. CASE DeleteClusterResources(d)
    BY <2>2 DEF DeleteClusterResources, rest
  <2> QED BY <1>9, <2>1, <2>2 DEF Outside
<1>10. ASSUME NEW d, NEW s, LateStatement(d, s) PROVE FALSE
  BY <1>10 DEF LateStatement, rest
<1>11. CASE Next
  BY <1>5, <1>7, <1>8, <1>10, <1>11 DEF Next
<1>12. CASE UNCHANGED vars
  BY <1>12 DEF vars
<1> QED BY <1>9, <1>11, <1>12, CycleStep DEF Collectors

------------------------------------------------------------------------------
(* The theorems about the totals.                                          *)

(* A request that can still end without an error leads to nothing but its  *)
(* state or nothing less than its state, whatever order its statements run *)
(* in and whenever clustersync deletes the rows, unless a batch of it was  *)
(* dropped, or its body ended early and its query for the edges failed     *)
(* (sync.go:36-129, resync.go:44-160, clusterSync.go:381).                 *)
THEOREM TrustInvariance == ASSUME ConsistentStates PROVE CycleSpec => []TrustInv
<1>1. CycleInit => TrustInv
  BY InitTrustInv
<1>2. TrustInv /\ [CycleNext]_cycleVars => TrustInv'
  BY NextKeepsTrustInv
<1> QED BY <1>1, <1>2, PTL DEF CycleSpec

(* As long as a collector trusts its state, the tables hold nothing that   *)
(* this state does not have (syncHandler.go:77), unless since the last     *)
(* resync began a batch was dropped, or the body of the resync ended early *)
(* and its query for the edges failed.                                     *)
THEOREM TrustIsSafe == ASSUME ConsistentStates PROVE CycleSpec => []TrustHolds
<1>1. TrustInv => TrustHolds
  BY DEF TrustInv
<1> QED BY <1>1, TrustInvariance, PTL

(* Equal totals are enough: a request that ends and leaves its collector   *)
(* without doubt has left exactly the state of the collector, or nothing   *)
(* if clustersync deleted the rows since they were counted, also when a    *)
(* body ended early or a query failed unreported (resync.go:124, 193).     *)
(* They are not enough when a batch was dropped (batch.go:83), or when     *)
(* both happened in one resync: missing and left over rows may balance.    *)
THEOREM TotalsAreEnough == ASSUME ConsistentStates PROVE CycleSpec => TrustEarned
<1> DEFINE Earned == \A c \in Collectors :
                       phase[c] # "idle" /\ phase'[c] = "idle"
                         /\ Trusts(c)' /\ Visible(c)' =>
                       Stored(c)' \in {known'[c], Nothing}
<1>1. ASSUME TrustInv, [CycleNext]_cycleVars PROVE Earned
  <2>1. CycleInv /\ Course
    BY <1>1, CourseOfTrust DEF Course, CycleInv
  <2>2. ASSUME NEW c \in Collectors, phase[c] # "idle", phase'[c] = "idle",
               Trusts(c)', Visible(c)'
        PROVE  Stored(c)' \in {known'[c], Nothing}
    <3>1. RespondOk(c)
      BY <1>1, <2>1, <2>2, ConfirmsByRespondOk DEF Trusts
    <3> QED BY <2>1, <2>2, <3>1, TrustIsExact
  <2> QED BY <2>2
<1>2. TrustInv /\ [CycleNext]_cycleVars => [Earned]_cycleVars
  BY <1>1
<1> QED BY <1>2, TrustInvariance, PTL DEF CycleSpec, TrustEarned
=============================================================================
