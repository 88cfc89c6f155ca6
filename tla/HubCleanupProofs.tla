-------------------------- MODULE HubCleanupProofs --------------------------
(***************************************************************************)
(* Theorems about HubCleanup for any number of names and goroutines, any   *)
(* number of renames and failures, and every fault.                        *)
(***************************************************************************)
EXTENDS HubCleanup, TLAPS

(* What Loop leaves in a goroutine that looks for other names than its own.*)
LEMMA LoopKeepsTypes ==
    ASSUME TypeOK, NEW t \in Tasks, task[t].pc # "free",
           NEW old \in SUBSET Names, task[t].cluster \notin old, Loop(t, old)
    PROVE  /\ task' \in [Tasks -> TaskState]
           /\ \A u \in Tasks : task'[u].pc \in {"resources", "edges"} =>
                 task'[u].cluster \notin task'[u].old \cup {task'[u].name}
<1>1. task[t] \in TaskState /\ task[t].cluster \in Names
  BY DEF TypeOK, TaskState, Free, Checking
<1>2. CASE task' = [task EXCEPT ![t] = Free]
  BY <1>2 DEF TypeOK, TaskState, Free
<1>3. CASE \E n \in old : task' = [task EXCEPT ![t] =
               Deleting("resources", task[t].cluster, n, old \ {n})]
  <2>1. PICK n \in old : task' = [task EXCEPT ![t] =
               Deleting("resources", task[t].cluster, n, old \ {n})]
    BY <1>3
  <2> DEFINE new == Deleting("resources", task[t].cluster, n, old \ {n})
  <2>2. new \in TaskState
    BY <1>1 DEF TaskState, Deleting
  <2>3. new.cluster \notin new.old \cup {new.name}
    BY DEF Deleting
  <2> HIDE DEF new
  <2>4. /\ task'[t] = new
        /\ \A u \in Tasks \ {t} : task'[u] = task[u]
    BY <2>1 DEF TypeOK, new
  <2> QED
    BY <2>1, <2>2, <2>3, <2>4 DEF TypeOK, new
<1> QED
  BY <1>2, <1>3 DEF Loop

LEMMA TypeStep == TypeOK /\ [Next]_vars => TypeOK'
<1> SUFFICES ASSUME TypeOK, [Next]_vars PROVE TypeOK'
  OBVIOUS
<1> USE HubAssumption
<1>1. ASSUME NEW n \in Names, Rename(n) PROVE TypeOK'
  BY <1>1 DEF TypeOK, Rename
<1>2. ASSUME NEW n \in Names, StartResync(n) PROVE TypeOK'
  BY <1>2 DEF TypeOK, StartResync, ResyncGoto
<1>3. ASSUME NEW n \in Names, ResetResources(n) PROVE TypeOK'
  BY <1>3 DEF TypeOK, ResetResources, ResyncGoto
<1>4. ASSUME NEW n \in Names, ResetEdges(n) PROVE TypeOK'
  BY <1>4 DEF TypeOK, ResetEdges, ResyncGoto
<1>5. ASSUME NEW n \in Names, NEW t \in Tasks, StartCleanup(n, t) PROVE TypeOK'
  BY <1>5 DEF TypeOK, StartCleanup, ResyncGoto, TaskState, Checking
<1>6. ASSUME NEW n \in Names, ResyncFails(n) PROVE TypeOK'
  BY <1>6 DEF TypeOK, ResyncFails, ResyncGoto, FailureOf
<1>0. ASSUME NEW n \in Names, ResetEdgesUnmarked(n) PROVE TypeOK'
  BY <1>0 DEF TypeOK, ResetEdgesUnmarked, ResyncGoto, FailureOf
<1>7. ASSUME NEW t \in Tasks, CheckHubClusterRename(t) PROVE TypeOK'
  <2> DEFINE old == resources \ {task[t].cluster}
  <2>1. Loop(t, old) /\ old \in SUBSET Names /\ task[t].pc # "free"
    BY <1>7 DEF TypeOK, CheckHubClusterRename
  <2> QED
    BY <1>7, <2>1, LoopKeepsTypes DEF TypeOK, CheckHubClusterRename
<1>8. ASSUME NEW t \in Tasks, RowsBreakOff(t) PROVE TypeOK'
  <2>1. PICK old \in SUBSET (resources \ {task[t].cluster}) : Loop(t, old)
    BY <1>8 DEF RowsBreakOff
  <2>2. old \in SUBSET Names /\ task[t].cluster \notin old /\ task[t].pc # "free"
    BY <1>8, <2>1 DEF TypeOK, RowsBreakOff
  <2> QED
    BY <1>8, <2>1, <2>2, LoopKeepsTypes DEF TypeOK, RowsBreakOff, FailureOf
<1>9. ASSUME NEW t \in Tasks, DeleteResources(t) PROVE TypeOK'
  <2>1. task[t] \in [pc : {"resources", "edges"}, cluster : Names, name : Names,
                     old : SUBSET Names]
    BY <1>9 DEF TypeOK, DeleteResources, TaskState, Free, Checking
  <2> QED
    BY <1>9, <2>1 DEF TypeOK, DeleteResources, TaskState
<1>10. ASSUME NEW t \in Tasks, DeleteEdges(t) PROVE TypeOK'
  <2>1. task[t] \in [pc : {"resources", "edges"}, cluster : Names, name : Names,
                     old : SUBSET Names]
    BY <1>10 DEF TypeOK, DeleteEdges, TaskState, Free, Checking
  <2>2. /\ task[t].old \in SUBSET Names
        /\ task[t].cluster \notin task[t].old
        /\ task[t].pc # "free"
        /\ Loop(t, task[t].old)
    BY <1>10, <2>1 DEF TypeOK, DeleteEdges
  <2> QED
    BY <1>10, <2>2, LoopKeepsTypes DEF TypeOK, DeleteEdges
<1>11. ASSUME NEW t \in Tasks, Retry(t) PROVE TypeOK'
  <2>1. task[t].cluster \in Names
    BY <1>11 DEF TypeOK, Retry, TaskState, Free, Checking
  <2> QED
    BY <1>11, <2>1 DEF TypeOK, Retry, FailureOf, TaskState, Checking
<1>12. CASE Restart
  BY <1>12 DEF TypeOK, Restart, FailureOf, TaskState, Free
<1>13. CASE UNCHANGED vars
  BY <1>13 DEF TypeOK, vars
<1> QED
  BY <1>0, <1>1, <1>2, <1>3, <1>4, <1>5, <1>6, <1>7, <1>8, <1>9, <1>10, <1>11, <1>12,
     <1>13 DEF Next, Resync, Cleanup

(* Type correctness.  No goroutine ever has the name that it works for     *)
(* among the names to delete (resync.go:281).                              *)
THEOREM TypeCorrect == Spec => []TypeOK
<1>1. ASSUME Init PROVE TypeOK
  <2>1. Free \in TaskState /\ Free.pc = "free"
    BY DEF TaskState, Free
  <2>2. /\ task \in [Tasks -> TaskState]
        /\ \A t \in Tasks : task[t].pc = "free"
    BY <1>1, <2>1 DEF Init
  <2>3. resources \subseteq Names /\ edges \subseteq Names
    BY <1>1 DEF Init
  <2>4. renames \in 0 .. MaxRenames /\ failures \in 0 .. MaxFailures
    BY <1>1, HubAssumption DEF Init
  <2>5. resync \in [Names -> {"idle", "resources", "edges", "cleanup"}]
    BY <1>1 DEF Init
  <2> QED
    BY <1>1, <2>2, <2>3, <2>4, <2>5 DEF Init, TypeOK
<1> QED
  BY <1>1, TypeStep, PTL DEF Spec

(* A goroutine that an action leaves alone goes on to pursue what is left, *)
(* if the action writes under no other name.                               *)
LEMMA StillPursues ==
    ASSUME NEW n \in Names, NEW t \in Tasks, Pursues(t, n),
           task'[t] = task[t], resources' \subseteq resources \cup {n}
    PROVE  Pursued(n)'
<1>1. Pursues(t, n)'
  BY DEF Pursues, Ahead
<1> QED
  BY <1>1 DEF Pursued

(* Loop goes on with all the names that it is given, or there are none.    *)
LEMMA LoopPursues ==
    ASSUME TypeOK, NEW n \in Names, NEW t \in Tasks, task[t].cluster = n,
           NEW old \in SUBSET Names, Loop(t, old),
           resources' \ {n} \subseteq old
    PROVE  Pursued(n)' \/ resources' \subseteq {n}
<1>1. CASE old = {}
  BY <1>1
<1>2. ASSUME NEW m \in old, task' = [task EXCEPT ![t] =
               Deleting("resources", task[t].cluster, m, old \ {m})]
      PROVE  Pursued(n)'
  <2>1. task'[t] = Deleting("resources", n, m, old \ {m})
    BY <1>2 DEF TypeOK
  <2>2. /\ task'[t].pc = "resources"
        /\ task'[t].cluster = n
        /\ task'[t].old \cup {task'[t].name} = old
    BY <2>1 DEF Deleting
  <2>3. Pursues(t, n)'
    BY <2>2 DEF Pursues, Ahead
  <2> QED
    BY <2>3 DEF Pursued
<1> QED
  BY <1>1, <1>2 DEF Loop

(* The old resources, once a cleanup pursues them, stay pursued until they *)
(* are gone, however many names, goroutines, renames and failures there    *)
(* are (resync.go:230-248).                                                *)
THEOREM NothingEscapes == Spec => OldResourcesPursued
<1> DEFINE Kept(n) == NoneWrites(n) /\ Pursued(n) /\ ~missed'
                        => Pursued(n)' \/ (resources \subseteq {n})'
<1>1. ASSUME TypeOK, [Next]_vars, NEW n \in Names PROVE Kept(n)
  <2> SUFFICES ASSUME NoneWrites(n), Pursued(n), ~missed'
               PROVE  Pursued(n)' \/ resources' \subseteq {n}
    OBVIOUS
  <2>1. CASE resync'[n] = "cleanup"
    BY <2>1 DEF Pursued
  <2>2. ASSUME NEW t \in Tasks, StartCleanup(n, t) PROVE Pursued(n)'
    <3>1. task'[t] = Checking(n) /\ resources' \subseteq Names
      BY <1>1, <2>2 DEF StartCleanup, TypeOK
    <3>2. Pursues(t, n)'
      BY <3>1 DEF Pursues, Ahead, Checking
    <3> QED
      BY <3>2 DEF Pursued
  <2>3. ASSUME resync[n] = "cleanup", resync'[n] # "cleanup"
        PROVE  \E t \in Tasks : StartCleanup(n, t)
    BY <1>1, <2>3
       DEF TypeOK, Next, Resync, Cleanup, Rename, StartResync, ResetResources,
           ResetEdges, ResetEdgesUnmarked, StartCleanup, ResyncFails,
           CheckHubClusterRename, RowsBreakOff, DeleteResources, DeleteEdges, Retry, Restart,
           ResyncGoto, vars
  <2>4. ASSUME NEW t \in Tasks, Pursues(t, n)
        PROVE  Pursued(n)' \/ resources' \subseteq {n}
    <3>1. ASSUME NEW m \in Names,
                 \/ Rename(m) \/ StartResync(m) \/ ResetEdges(m)
                 \/ ResetEdgesUnmarked(m) \/ ResyncFails(m)
          PROVE  Pursued(n)'
      BY <2>4, <3>1, StillPursues
         DEF Rename, StartResync, ResetEdges, ResetEdgesUnmarked, ResyncFails
    <3>2. ASSUME NEW m \in Names, ResetResources(m) PROVE Pursued(n)'
      <4>1. m = n
        BY <3>2 DEF NoneWrites, ResetResources
      <4> QED
        BY <2>4, <3>2, <4>1, StillPursues DEF ResetResources
    <3>3. ASSUME NEW m \in Names, NEW u \in Tasks, StartCleanup(m, u) PROVE Pursued(n)'
      <4>1. u # t
        BY <2>4, <3>3 DEF StartCleanup, Pursues, Free
      <4>2. task'[t] = task[t] /\ resources' = resources
        BY <1>1, <3>3, <4>1 DEF StartCleanup, TypeOK
      <4> QED
        BY <2>4, <4>2, StillPursues
    <3>4. ASSUME NEW u \in Tasks \ {t}, Cleanup(u) \/ Retry(u)
          PROVE  Pursued(n)'
      <4>1. task'[t] = task[t]
        BY <1>1, <3>4 DEF TypeOK, Cleanup, CheckHubClusterRename, DeleteResources,
                          DeleteEdges, Retry, Loop
      <4>2. resources' \subseteq resources
        BY <3>4 DEF Cleanup, CheckHubClusterRename, DeleteResources, DeleteEdges, Retry
      <4> QED
        BY <2>4, <4>1, <4>2, StillPursues
    <3>5. CASE CheckHubClusterRename(t)
      <4>1. resources \ {n} \in SUBSET Names /\ resources' = resources
        BY <1>1, <3>5 DEF TypeOK, CheckHubClusterRename
      <4> QED
        BY <1>1, <2>4, <3>5, <4>1, LoopPursues DEF CheckHubClusterRename, Pursues
    <3>6. CASE DeleteResources(t)
      <4>1. task'[t] = [task[t] EXCEPT !.pc = "edges"]
        BY <1>1, <3>6 DEF TypeOK, DeleteResources
      <4>2. task[t] \in [pc : {"resources", "edges"}, cluster : Names, name : Names,
                         old : SUBSET Names]
        BY <1>1, <3>6 DEF TypeOK, DeleteResources, TaskState, Free, Checking
      <4>3. /\ task'[t].pc = "edges"
            /\ task'[t].cluster = n
            /\ task'[t].old = task[t].old
        BY <2>4, <4>1, <4>2 DEF Pursues
      <4>4. resources' \ {n} \subseteq task[t].old
        BY <2>4, <3>6 DEF Pursues, Ahead, DeleteResources
      <4>5. Pursues(t, n)'
        BY <4>3, <4>4 DEF Pursues, Ahead
      <4> QED
        BY <4>5 DEF Pursued
    <3>7. CASE DeleteEdges(t)
      <4>1. task[t].old \in SUBSET Names
        BY <1>1, <3>7 DEF TypeOK, DeleteEdges, TaskState, Free, Checking
      <4>2. resources' \ {n} \subseteq task[t].old
        BY <2>4, <3>7 DEF Pursues, Ahead, DeleteEdges
      <4> QED
        BY <1>1, <2>4, <3>7, <4>1, <4>2, LoopPursues DEF DeleteEdges, Pursues
    <3>8. CASE Retry(t)
      <4>1. task'[t] = Checking(n) /\ resources' \subseteq Names
        BY <1>1, <2>4, <3>8 DEF Retry, TypeOK, Pursues
      <4>2. Pursues(t, n)'
        BY <4>1 DEF Pursues, Ahead, Checking
      <4> QED
        BY <4>2 DEF Pursued
    <3>9. CASE UNCHANGED vars
      BY <2>4, <3>9, StillPursues DEF vars
    <3>10. ~Restart /\ \A u \in Tasks : ~RowsBreakOff(u)
      BY DEF Restart, RowsBreakOff
    <3> QED
      BY <1>1, <3>1, <3>2, <3>3, <3>4, <3>5, <3>6, <3>7, <3>8, <3>9, <3>10
         DEF Next, Resync, Cleanup
  <2> QED
    BY <2>1, <2>2, <2>3, <2>4 DEF Pursued
<1>2. TypeOK /\ [Next]_vars => [\A n \in Names : Kept(n)]_vars
  BY <1>1
<1> QED
  BY <1>2, TypeCorrect, PTL DEF Spec, OldResourcesPursued
=============================================================================
