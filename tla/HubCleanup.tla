----------------------------- MODULE HubCleanup -----------------------------
(***************************************************************************)
(* What happens to the data of the hub cluster when the hub is renamed     *)
(* (pkg/database/resync.go).  A resync of the hub ends by starting a       *)
(* goroutine that deletes what is stored under any other name of the hub   *)
(* and that tries again until it succeeds.  Nothing stops a goroutine when *)
(* a later resync starts one of its own.                                   *)
(*                                                                         *)
(* The tables are reduced to the set of names that still have rows.        *)
(***************************************************************************)
EXTENDS Integers

CONSTANTS Names,       \* names that the hub may have
          Tasks,       \* cleanup goroutines that may run at a time (bound)
          MaxRenames,  \* how often the hub is renamed (bound)
          MaxFailures, \* how often a statement or the indexer fails (bound)
          Faults       \* what may go wrong

(* "exec"     a statement fails                                            *)
(* "rows"     the query for the names breaks off half way                  *)
(* "restart"  the indexer restarts                                         *)
(* "unmarked" the last resource of a resync is not marked as one of the hub*)
(* "overlap"  the hub is renamed while a resync of it is in progress       *)
ASSUME HubAssumption == /\ MaxRenames \in Nat
                        /\ MaxFailures \in Nat
                        /\ Faults \subseteq {"exec", "rows", "restart", "unmarked", "overlap"}

VARIABLES hub,       \* the name that the hub has now
          renames,   \* how often it was renamed
          failures,  \* how often something failed
          missed,    \* a cleanup ended before it was through
          resources, \* names with rows in search.resources
          edges,     \* names with rows in search.edges
          resync,    \* [Names -> what the resync of the name does next]
          task       \* [Tasks -> state of the goroutine]

vars == <<hub, renames, failures, missed, resources, edges, resync, task>>

Free == [pc |-> "free"]
Checking(cluster) == [pc |-> "check", cluster |-> cluster]
Deleting(pc, cluster, name, old) ==
    [pc |-> pc, cluster |-> cluster, name |-> name, old |-> old]
TaskState ==
    {Free} \cup {Checking(n) : n \in Names}
      \cup [pc : {"resources", "edges"}, cluster : Names, name : Names,
            old : SUBSET Names]

TypeOK == /\ hub \in Names
          /\ renames \in 0 .. MaxRenames
          /\ failures \in 0 .. MaxFailures
          /\ missed \in BOOLEAN
          /\ resources \subseteq Names
          /\ edges \subseteq Names
          /\ resync \in [Names -> {"idle", "resources", "edges", "cleanup"}]
          /\ task \in [Tasks -> TaskState]
          /\ \A t \in Tasks : task[t].pc \in {"resources", "edges"} =>
                task[t].cluster \notin task[t].old \cup {task[t].name}

Init == /\ hub \in Names
        /\ renames = 0
        /\ failures = 0
        /\ missed = FALSE
        /\ resources \in {{}, {hub}}
        /\ edges = resources
        /\ resync = [n \in Names |-> "idle"]
        /\ task = [t \in Tasks |-> Free]

Rename(n) == /\ n # hub
             /\ renames < MaxRenames
             /\ resync[hub] # "idle" => "overlap" \in Faults
             /\ hub' = n
             /\ renames' = renames + 1
             /\ UNCHANGED <<failures, missed, resources, edges, resync, task>>

------------------------------------------------------------------------------
(* ResyncData for the hub.                                                 *)

ResyncGoto(n, next) == resync' = [resync EXCEPT ![n] = next]

(* The collector of the hub sends its complete state.                      *)
StartResync(n) == /\ n = hub
                  /\ resync[n] = "idle"
                  /\ ResyncGoto(n, "resources")
                  /\ UNCHANGED <<hub, renames, failures, missed, resources, edges, task>>

ResetResources(n) == /\ resync[n] = "resources"
                     /\ resources' = resources \cup {n}
                     /\ ResyncGoto(n, "edges")
                     /\ UNCHANGED <<hub, renames, failures, missed, edges, task>>

ResetEdges(n) == /\ resync[n] = "edges"
                 /\ edges' = edges \cup {n}
                 /\ ResyncGoto(n, "cleanup")
                 /\ UNCHANGED <<hub, renames, failures, missed, resources, task>>

(* go dao.hubClusterCleanUpWithRetry(context.Background(), clusterName)    *)
StartCleanup(n, t) == /\ resync[n] = "cleanup"
                      /\ task[t] = Free
                      /\ task' = [task EXCEPT ![t] = Checking(n)]
                      /\ ResyncGoto(n, "idle")
                      /\ UNCHANGED <<hub, renames, failures, missed, resources, edges>>

FailureOf(kind) == /\ kind \in Faults
                   /\ failures < MaxFailures
                   /\ failures' = failures + 1

ResyncFails(n) == /\ FailureOf("exec")
                  /\ resync[n] \in {"resources", "edges"}
                  /\ ResyncGoto(n, "idle")
                  /\ UNCHANGED <<hub, renames, missed, resources, edges, task>>

(* The same, but the resource that was decoded last is not marked: the     *)
(* resync is over without a cleanup.                                       *)
ResetEdgesUnmarked(n) == /\ FailureOf("unmarked")
                         /\ resync[n] = "edges"
                         /\ edges' = edges \cup {n}
                         /\ ResyncGoto(n, "idle")
                         /\ UNCHANGED <<hub, renames, missed, resources, task>>

------------------------------------------------------------------------------
(* The goroutine: checkHubClusterRename until it returns no error.         *)

(* The loop over clustersToDelete, in the order of the database's answer:  *)
(* go on with one of the names in old, or return when there is none.       *)
Loop(t, old) ==
    \/ /\ old = {}
       /\ task' = [task EXCEPT ![t] = Free]
    \/ \E n \in old : task' = [task EXCEPT ![t] =
           Deleting("resources", task[t].cluster, n, old \ {n})]

(* Mutant of CheckHubClusterRename: requestCluster is not excluded.        *)
CheckEveryName(t) == /\ task[t].pc = "check"
                     /\ Loop(t, resources)
                     /\ UNCHANGED <<hub, renames, failures, missed, resources, edges, resync>>

CheckHubClusterRename(t) ==
    /\ task[t].pc = "check"
    /\ Loop(t, resources \ {task[t].cluster})
    /\ UNCHANGED <<hub, renames, failures, missed, resources, edges, resync>>

(* The loop over the rows takes an error for their end.                    *)
RowsBreakOff(t) ==
    /\ FailureOf("rows")
    /\ task[t].pc = "check"
    /\ \E old \in SUBSET (resources \ {task[t].cluster}) : Loop(t, old)
    /\ missed' = TRUE
    /\ UNCHANGED <<hub, renames, resources, edges, resync>>

DeleteResources(t) ==
    /\ task[t].pc = "resources"
    /\ resources' = resources \ {task[t].name}
    /\ task' = [task EXCEPT ![t].pc = "edges"]
    /\ UNCHANGED <<hub, renames, failures, missed, edges, resync>>

DeleteEdges(t) ==
    /\ task[t].pc = "edges"
    /\ edges' = edges \ {task[t].name}
    /\ Loop(t, task[t].old)
    /\ UNCHANGED <<hub, renames, failures, missed, resources, resync>>

(* Mutant of Retry: the goroutine gives up.                                *)
GiveUp(t) == /\ FailureOf("exec")
             /\ task[t].pc # "free"
             /\ task' = [task EXCEPT ![t] = Free]
             /\ UNCHANGED <<hub, renames, missed, resources, edges, resync>>

(* Any of the three statements fails: the goroutine sleeps, and starts     *)
(* over.                                                                   *)
Retry(t) == /\ FailureOf("exec")
            /\ task[t].pc # "free"
            /\ task' = [task EXCEPT ![t] = Checking(task[t].cluster)]
            /\ UNCHANGED <<hub, renames, missed, resources, edges, resync>>

Restart == /\ FailureOf("restart")
           /\ missed' = TRUE
           /\ resync' = [n \in Names |-> "idle"]
           /\ task' = [t \in Tasks |-> Free]
           /\ UNCHANGED <<hub, renames, resources, edges>>

------------------------------------------------------------------------------
Resync(n) == \/ ResetResources(n)
             \/ ResetEdges(n)
             \/ \E t \in Tasks : StartCleanup(n, t)
Cleanup(t) == CheckHubClusterRename(t) \/ DeleteResources(t) \/ DeleteEdges(t)

Next == \/ \E n \in Names : \/ Rename(n)
                            \/ StartResync(n)
                            \/ Resync(n)
                            \/ ResyncFails(n)
                            \/ ResetEdgesUnmarked(n)
        \/ \E t \in Tasks : Cleanup(t) \/ RowsBreakOff(t) \/ Retry(t)
        \/ Restart

(* Requests and goroutines go on; the collector need not send anything.    *)
(* Strong fairness of a request: it waits for a free member of Tasks, for  *)
(* which the code needs not wait.                                          *)
Fairness == /\ \A n \in Names : SF_vars(Resync(n))
            /\ \A t \in Tasks : WF_vars(Cleanup(t))

Spec == Init /\ [][Next]_vars /\ Fairness

------------------------------------------------------------------------------
(* Properties.                                                             *)

(* One resync under the new name is enough: once it is about to start its  *)
(* cleanup, and however often the statements of the cleanup fail, the      *)
(* resources under all other names go, unless the hub is renamed again     *)
(* (resync.go:42, 230-248).  Not so if a resync under another name is still*)
(* writing, or if a goroutine ends too early, because the indexer restarts *)
(* or its query breaks off: nobody starts it again before the next resync. *)
NoneWrites(n) == \A m \in Names \ {n} : resync[m] \in {"idle", "cleanup"}
LastResyncDone(n) == /\ hub = n
                     /\ resync[n] = "cleanup"
                     /\ NoneWrites(n)
OldResourcesGo == [](~missed) => \A n \in Names :
    LastResyncDone(n) ~> resources \subseteq {n} \/ hub # n

(* The names whose resources a busy goroutine is yet to delete, as far     *)
(* as they have any when it comes to them.                                 *)
Ahead(t) == IF task[t].pc = "check" THEN Names
            ELSE IF task[t].pc = "resources" THEN task[t].old \cup {task[t].name}
            ELSE task[t].old

(* Once a cleanup for the name n is on its way to the resources under all  *)
(* other names, one stays on its way until they are gone: whatever fails,  *)
(* whatever the other goroutines delete and however the hub is renamed in  *)
(* between (resync.go:230-248).  Only a resync under another name that     *)
(* writes, or a goroutine that ends too early, leaves them to nobody.      *)
Pursues(t, n) == /\ task[t].pc # "free"
                 /\ task[t].cluster = n
                 /\ resources \ {n} \subseteq Ahead(t)
Pursued(n) == resync[n] = "cleanup" \/ \E t \in Tasks : Pursues(t, n)
OldResourcesPursued == [][\A n \in Names :
    NoneWrites(n) /\ Pursued(n) /\ ~missed'
        => Pursued(n)' \/ (resources \subseteq {n})']_vars

(* "takes the known hub cluster name from the latest resync request and    *)
(* deletes all other old hub cluster resources" (resync.go:230-231): what  *)
(* is stored under the present name is never deleted.                      *)
HubKept == [][(hub \in resources) => (hub \in resources')]_vars

(* "deletes all other old hub cluster resources and edges, if any. Retries *)
(* until success" (resync.go:230-231).                                     *)
OldEdgesGo == \A n \in Names :
    LastResyncDone(n) ~> edges \subseteq {n} \/ hub # n
=============================================================================
