----------------------------- MODULE IndexerPods -----------------------------
(***************************************************************************)
(* The life of the indexer pods around their handlers: start and end of    *)
(* the process (main.go), the tables (pkg/database/connection.go), the     *)
(* server (pkg/server/server.go), the election of a leader                 *)
(* (pkg/clustersync/leaderElection.go) and the goroutines of a term that   *)
(* run the informers while their CRD exists (pkg/clustersync/              *)
(* clusterSync.go).                                                        *)
(*                                                                         *)
(* A pod that loses the lease and gets it back starts a new term although  *)
(* the goroutines of the last one may not have ended: each pod has several *)
(* places for terms.                                                       *)
(***************************************************************************)
EXTENDS Integers

CONSTANTS Pods,        \* pods of the indexer
          Places,      \* places for the terms of a pod (bound)
          Kinds,       \* kinds of object that are watched, with a CRD each
          None,        \* nobody
          MaxFailures, \* failures, and changes of the CRDs (bound)
          Faults       \* what may go wrong

(* "exec"       a statement that creates a table fails                     *)
(* "lease"      the leader cannot renew the lease in time                  *)
(* "terminate"  a pod is told to end                                       *)
(* "crash"      a pod ends at once                                         *)
(* "crd"        a CRD is removed or installed                              *)
ASSUME IndexerPodsAssumption ==
    /\ MaxFailures \in Nat
    /\ None \notin Pods
    /\ Faults \subseteq {"exec", "lease", "terminate", "crash", "crd"}

Terms == Pods \X Places
TermsOf(p) == {p} \X Places

(* The statements of InitializeTables in their order.                      *)
Objects == {"schema", "resources", "edges", "indexes"}
After == [pool |-> "schema", schema |-> "resources", resources |-> "edges",
          edges |-> "indexes", indexes |-> "up"]
Needs == [schema |-> {}, resources |-> {"schema"}, edges |-> {"schema"},
          indexes |-> {"resources", "edges"}]

VARIABLES crd,       \* kinds whose CRD is installed
          created,   \* what exists in the database
          process,   \* [Pods -> where main is]
          missed,    \* [Pods -> a statement of InitializeTables failed]
          listening, \* pods whose server accepts requests
          lease,     \* the holder of the lease
          elector,   \* [Pods -> where runLeaderElection is]
          live,      \* terms whose context is not cancelled
          loop,      \* [Terms -> [Kinds -> where stopAndStartInformer is]]
          informer,  \* [Terms -> [Kinds -> the informer]]
          failures   \* number of failures so far

main == <<process, missed, created, listening>>
election == <<lease, elector, live>>
watch == <<loop, informer>>
vars == <<crd, main, election, watch, failures>>

(* The stopper of the loop is the one that Run got, another one, or nil.   *)
Off == [at |-> "off", running |-> FALSE, stopper |-> "nil"]
Loops == [at : {"off", "cleanup", "watch"}, running : BOOLEAN,
          stopper : {"nil", "used", "unused"}]

TypeOK == /\ crd \subseteq Kinds
          /\ created \subseteq Objects
          /\ process \in [Pods -> {"pool", "up", "stopping", "down"} \cup Objects]
          /\ missed \in [Pods -> BOOLEAN]
          /\ listening \subseteq Pods
          /\ lease \in Pods \cup {None}
          /\ elector \in [Pods -> {"off", "candidate", "leading", "released"}]
          /\ live \subseteq Terms
          /\ loop \in [Terms -> [Kinds -> Loops]]
          /\ informer \in [Terms -> [Kinds -> {"new", "running", "closing", "stopped"}]]
          /\ failures \in 0 .. MaxFailures
          /\ \A t \in Terms, k \in Kinds :
               loop[t][k].running <=> loop[t][k].stopper # "nil"

Init == /\ crd \in SUBSET Kinds
        /\ created = {}
        /\ process = [p \in Pods |-> "pool"]
        /\ missed = [p \in Pods |-> FALSE]
        /\ listening = {}
        /\ lease = None
        /\ elector = [p \in Pods |-> "off"]
        /\ live = {}
        /\ loop = [t \in Terms |-> [k \in Kinds |-> Off]]
        /\ informer = [t \in Terms |-> [k \in Kinds |-> "new"]]
        /\ failures = 0

FailureOf(kind) == /\ kind \in Faults
                   /\ failures < MaxFailures
                   /\ failures' = failures + 1

(* The goroutines of a term have ended.                                    *)
Free(t) == \A k \in Kinds : /\ loop[t][k].at = "off"
                            /\ informer[t][k] \in {"new", "stopped"}

------------------------------------------------------------------------------
(* main                                                                    *)

(* initializePool tries until the database answers.                        *)
Connect(p) == /\ process[p] = "pool"
              /\ process' = [process EXCEPT ![p] = "schema"]
              /\ UNCHANGED <<crd, created, missed, listening, election, watch,
                             failures>>

(* Started(p, o): main goes on after the statement for o.  After the last  *)
(* it starts the goroutines of the election and of the server.             *)
Started(p, o) ==
    /\ process' = [process EXCEPT ![p] = After[o]]
    /\ elector' = IF o = "indexes" THEN [elector EXCEPT ![p] = "candidate"]
                    ELSE elector
    /\ UNCHANGED <<crd, listening, lease, live, watch>>

(* CREATE ... IF NOT EXISTS.  When another pod creates the same thing at   *)
(* the same time the statement may fail, and the thing exists.             *)
Create(p) == \E o \in Objects :
    /\ process[p] = o
    /\ Started(p, o)
    /\ IF Needs[o] \subseteq created
         THEN created' = created \cup {o} /\ UNCHANGED missed
         ELSE missed' = [missed EXCEPT ![p] = TRUE] /\ UNCHANGED created
    /\ UNCHANGED failures

(* The error is logged, and main goes on.                                  *)
CreateFails(p) == \E o \in Objects :
    /\ FailureOf("exec")
    /\ process[p] = o
    /\ Started(p, o)
    /\ missed' = [missed EXCEPT ![p] = TRUE]
    /\ UNCHANGED created

(* Mutant of Listen: the server is started before the tables exist.        *)
ListenEarly(p) == /\ process[p] \in Objects \cup {"up"}
                  /\ p \notin listening
                  /\ listening' = listening \cup {p}
                  /\ UNCHANGED <<crd, created, process, missed, election, watch,
                                 failures>>

Listen(p) == /\ process[p] = "up"
             /\ p \notin listening
             /\ listening' = listening \cup {p}
             /\ UNCHANGED <<crd, created, process, missed, election, watch,
                            failures>>

(* The signal cancels the context of main and with it all others.          *)
Terminate(p) == /\ FailureOf("terminate")
                /\ process[p] = "up"
                /\ process' = [process EXCEPT ![p] = "stopping"]
                /\ live' = live \ TermsOf(p)
                /\ UNCHANGED <<crd, created, missed, listening, lease, elector,
                               watch>>

Shutdown(p) == /\ process[p] = "stopping"
               /\ p \in listening
               /\ listening' = listening \ {p}
               /\ UNCHANGED <<crd, created, process, missed, election, watch,
                              failures>>

Die(p) == /\ process' = [process EXCEPT ![p] = "down"]
          /\ listening' = listening \ {p}
          /\ elector' = [elector EXCEPT ![p] = "off"]
          /\ live' = live \ TermsOf(p)
          /\ loop' = [t \in Terms |-> IF t \in TermsOf(p)
                                        THEN [k \in Kinds |-> Off] ELSE loop[t]]
          /\ informer' = [t \in Terms |-> IF t \in TermsOf(p)
                            THEN [k \in Kinds |-> "new"] ELSE informer[t]]
          /\ UNCHANGED <<crd, created, missed, lease>>

(* main does not wait for its goroutines but for 5 seconds.                *)
Exit(p) == process[p] = "stopping" /\ Die(p) /\ UNCHANGED failures
Crash(p) == process[p] # "down" /\ FailureOf("crash") /\ Die(p)

Restart(p) == /\ process[p] = "down"
              /\ process' = [process EXCEPT ![p] = "pool"]
              /\ missed' = [missed EXCEPT ![p] = FALSE]
              /\ UNCHANGED <<crd, created, listening, election, watch, failures>>

------------------------------------------------------------------------------
(* runLeaderElection.  The lease is kept by client-go: a pod is identified *)
(* by its name, and a leader renews its lease or stops to lead before the  *)
(* lease expires (RenewDeadline, LeaseDuration).                           *)

Acquire(p) == \E t \in TermsOf(p) :
    /\ elector[p] = "candidate"
    /\ process[p] = "up"
    /\ lease \in {None, p}
    /\ Free(t)
    /\ lease' = p
    /\ elector' = [elector EXCEPT ![p] = "leading"]
    /\ live' = live \cup {t}
    /\ loop' = [loop EXCEPT ![t] = [k \in Kinds |-> [Off EXCEPT !.at = "cleanup"]]]
    /\ informer' = [informer EXCEPT ![t] = [k \in Kinds |-> "new"]]
    /\ UNCHANGED <<crd, main, failures>>

Expire == /\ lease # None
          /\ elector[lease] # "leading"
          /\ lease' = None
          /\ UNCHANGED <<crd, main, elector, live, watch, failures>>

(* The lease is released, or left to expire, before the context of the     *)
(* term is cancelled.                                                      *)
RenewFails(p) == /\ elector[p] = "leading"
                 /\ FailureOf("lease")
                 /\ elector' = [elector EXCEPT ![p] = "released"]
                 /\ lease' \in {None, p}
                 /\ UNCHANGED <<crd, main, live, watch>>

(* Mutant of EndTerm: the tasks of a leader get the context of main.       *)
EndTermOfMain(p) ==
    /\ elector[p] = "released"
    /\ elector' = [elector EXCEPT ![p] = "candidate"]
    /\ UNCHANGED <<crd, main, lease, live, watch, failures>>

(* Mutant of EndTerm: a leader that failed is no candidate any more.       *)
EndTermForGood(p) ==
    /\ elector[p] = "released"
    /\ elector' = [elector EXCEPT ![p] = "off"]
    /\ live' = live \ TermsOf(p)
    /\ UNCHANGED <<crd, main, lease, watch, failures>>

(* RunOrDie returns, and the loop runs it again.                           *)
EndTerm(p) == /\ elector[p] = "released"
              /\ elector' = [elector EXCEPT ![p] = "candidate"]
              /\ live' = live \ TermsOf(p)
              /\ UNCHANGED <<crd, main, lease, watch, failures>>

ExitElection(p) == /\ process[p] = "stopping"
                   /\ elector[p] \in {"candidate", "leading"}
                   /\ elector' = [elector EXCEPT ![p] = "off"]
                   /\ IF elector[p] = "leading" THEN lease' \in {None, p}
                        ELSE UNCHANGED lease
                   /\ UNCHANGED <<crd, main, live, watch, failures>>

------------------------------------------------------------------------------
(* syncClusters and stopAndStartInformer                                   *)

(* The cleanup ended or was cancelled.  The loops start in either case.    *)
StartLoops(t) ==
    /\ \A k \in Kinds : loop[t][k].at = "cleanup"
    /\ loop' = [loop EXCEPT ![t] = [k \in Kinds |-> [Off EXCEPT !.at = "watch"]]]
    /\ UNCHANGED <<crd, main, election, informer, failures>>

Running(t, k) == loop[t][k].at = "watch" /\ loop[t][k].running

(* close(stopper)                                                          *)
Close(t, k) == informer' = [informer EXCEPT ![t][k] =
    IF @ = "running" /\ loop[t][k].stopper = "used" THEN "closing" ELSE @]

(* Mutant of StopInformer: the stopper is dropped but not closed.          *)
ForgetInformer(t, k) ==
    /\ Running(t, k)
    /\ k \notin crd
    /\ loop' = [loop EXCEPT ![t][k] = [Off EXCEPT !.at = "watch"]]
    /\ UNCHANGED <<crd, main, election, informer, failures>>

(* Mutant of StopInformer: the stopper is closed but not forgotten.        *)
KeepStopper(t, k) ==
    /\ Running(t, k)
    /\ k \notin crd
    /\ Close(t, k)
    /\ loop' = [loop EXCEPT ![t][k].running = FALSE]
    /\ UNCHANGED <<crd, main, election, failures>>

(* The API server does not know the CRD.  A failure to ask for it changes  *)
(* nothing.                                                                *)
StopInformer(t, k) ==
    /\ Running(t, k)
    /\ k \notin crd
    /\ Close(t, k)
    /\ loop' = [loop EXCEPT ![t][k] = [Off EXCEPT !.at = "watch"]]
    /\ UNCHANGED <<crd, main, election, failures>>

(* It does.  Run does nothing if the informer was run before.  After its   *)
(* context is cancelled a loop may still choose the tick.                  *)
StartInformer(t, k) ==
    /\ loop[t][k].at = "watch"
    /\ ~loop[t][k].running
    /\ k \in crd
    /\ loop' = [loop EXCEPT ![t][k] =
         [at |-> "watch", running |-> TRUE,
          stopper |-> IF informer[t][k] = "new" THEN "used" ELSE "unused"]]
    /\ informer' = [informer EXCEPT ![t][k] = IF @ = "new" THEN "running" ELSE @]
    /\ UNCHANGED <<crd, main, election, failures>>

(* Mutant of ExitLoop: the informer is left running.                       *)
LeaveLoop(t, k) ==
    /\ loop[t][k].at = "watch"
    /\ t \notin live
    /\ loop' = [loop EXCEPT ![t][k] = Off]
    /\ UNCHANGED <<crd, main, election, informer, failures>>

ExitLoop(t, k) ==
    /\ loop[t][k].at = "watch"
    /\ t \notin live
    /\ Close(t, k)
    /\ loop' = [loop EXCEPT ![t][k] = Off]
    /\ UNCHANGED <<crd, main, election, failures>>

InformerStops(t, k) ==
    /\ informer[t][k] = "closing"
    /\ informer' = [informer EXCEPT ![t][k] = "stopped"]
    /\ UNCHANGED <<crd, main, election, loop, failures>>

ChangeCrd(k) == /\ FailureOf("crd")
                /\ crd' = IF k \in crd THEN crd \ {k} ELSE crd \cup {k}
                /\ UNCHANGED <<main, election, watch>>

------------------------------------------------------------------------------
Main(p) == Connect(p) \/ Create(p) \/ Listen(p) \/ Shutdown(p) \/ Exit(p) \/ Restart(p)
Watch(t, k) == StopInformer(t, k) \/ StartInformer(t, k) \/ InformerStops(t, k)

Next == \/ \E p \in Pods :
             \/ Main(p) \/ CreateFails(p) \/ Terminate(p) \/ Crash(p)
             \/ Acquire(p) \/ RenewFails(p) \/ EndTerm(p) \/ ExitElection(p)
        \/ Expire
        \/ \E t \in Terms :
             \/ StartLoops(t)
             \/ \E k \in Kinds : Watch(t, k) \/ ExitLoop(t, k)
        \/ \E k \in Kinds : ChangeCrd(k)

(* Processes and goroutines go on, the lease of a pod that does not renew  *)
(* it expires, and somebody gets it.                                       *)
Fairness == /\ \A p \in Pods : WF_vars(Main(p)) /\ WF_vars(EndTerm(p))
            /\ WF_vars(\E p \in Pods : Acquire(p))
            /\ WF_vars(Expire)
            /\ \A t \in Terms :
                 /\ WF_vars(StartLoops(t))
                 /\ \A k \in Kinds : WF_vars(Watch(t, k)) /\ WF_vars(ExitLoop(t, k))

Spec == Init /\ [][Next]_vars /\ Fairness

------------------------------------------------------------------------------
(* Properties.                                                             *)

(* A pod does not lead twice at a time: the context of a term is cancelled *)
(* before the pod is a candidate again, although the goroutines of the     *)
(* term may still run (leaderElection.go:33-66).  A second live term would *)
(* watch every object twice, for as long as the process lives.             *)
OneLiveTerm == \A p \in Pods :
    /\ \A s, t \in live \cap TermsOf(p) : s = t
    /\ live \cap TermsOf(p) # {} => elector[p] \in {"leading", "released"}

(* Each informer that runs has a loop that holds its stopper: no removal   *)
(* and return of a CRD and no end of a term leaves one running that nobody *)
(* can stop (clusterSync.go:160-181).                                      *)
InformersOwned == \A t \in Terms, k \in Kinds :
    informer[t][k] = "running" => Running(t, k) /\ loop[t][k].stopper = "used"

(* A server that listens has its tables, also when pods start together,    *)
(* unless a statement of its own failed, which is only logged              *)
(* (connection.go:115-176, main.go:43-53).                                 *)
ListeningHasTables == \A p \in listening : missed[p] \/ created = Objects

(* A term whose context is cancelled ends with all its goroutines          *)
(* (clusterSync.go:133-135).                                               *)
TermEnds == \A t \in Terms : t \notin live ~> Free(t)

(* In the end some pod leads, and its informers run exactly while their    *)
(* CRD is installed (clusterSync.go:152), except those that were stopped   *)
(* before in the same term.                                                *)
LeaderWatches == <>[](\E t \in live : \A k \in Kinds :
    informer[t][k] = "stopped" \/ (informer[t][k] = "running" <=> k \in crd))

(* The invariant of the proofs adds what exists in the database when main  *)
(* is at a statement and none failed, that nobody leads or listens before  *)
(* main started it, and that a pod that is stopping has no live term.      *)
Done == [pool |-> {}, schema |-> {}, resources |-> {"schema"},
         edges |-> {"schema", "resources"},
         indexes |-> {"schema", "resources", "edges"},
         up |-> Objects, stopping |-> Objects, down |-> {}]
IInv == /\ TypeOK
        /\ OneLiveTerm
        /\ InformersOwned
        /\ \A p \in Pods :
             /\ missed[p] \/ Done[process[p]] \subseteq created
             /\ p \in listening => process[p] \in {"up", "stopping"}
             /\ process[p] \notin {"up", "stopping"} => elector[p] = "off"
             /\ process[p] = "stopping" => live \cap TermsOf(p) = {}

(* What "Stop and Start informer" (clusterSync.go:152) says.               *)
InformerRestarts == \A t \in Terms, k \in Kinds :
    Running(t, k) => informer[t][k] = "running"
=============================================================================
