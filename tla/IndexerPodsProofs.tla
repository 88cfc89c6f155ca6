-------------------------- MODULE IndexerPodsProofs --------------------------
(***************************************************************************)
(* Theorems about IndexerPods for any set of pods, of places for terms and *)
(* of kinds, any number of failures, and every fault.                      *)
(***************************************************************************)
EXTENDS IndexerPods, TLAPS

(* Each term has one pod.                                                  *)
LEMMA TermsDisjoint ==
    /\ \A p \in Pods : TermsOf(p) \subseteq Terms
    /\ \A p, q \in Pods : p # q => TermsOf(p) \cap TermsOf(q) = {}
BY DEF TermsOf, Terms

LEMMA TypeStep == TypeOK /\ [Next]_vars => TypeOK'
<1> SUFFICES ASSUME TypeOK, [Next]_vars PROVE TypeOK'
  OBVIOUS
<1> USE IndexerPodsAssumption
<1>1. ASSUME NEW p \in Pods, Connect(p) PROVE TypeOK'
  BY <1>1 DEF TypeOK, Connect, election, watch, Objects
<1>2. ASSUME NEW p \in Pods, NEW o \in Objects, process[p] = o, Started(p, o)
      PROVE  /\ process' \in [Pods -> {"pool", "up", "stopping", "down"} \cup Objects]
             /\ elector' \in [Pods -> {"off", "candidate", "leading", "released"}]
  BY <1>2 DEF TypeOK, Started, Objects, After
<1>3. ASSUME NEW p \in Pods, Create(p) PROVE TypeOK'
  <2>1. PICK o \in Objects : process[p] = o /\ Started(p, o)
    BY <1>3 DEF Create
  <2>2. created' \subseteq Objects /\ missed' \in [Pods -> BOOLEAN]
    BY <1>3 DEF Create, TypeOK
  <2>3. failures' = failures
    BY <1>3 DEF Create
  <2> QED
    BY <1>2, <2>1, <2>2, <2>3 DEF TypeOK, Started, watch
<1>4. ASSUME NEW p \in Pods, CreateFails(p) PROVE TypeOK'
  <2>1. PICK o \in Objects : process[p] = o /\ Started(p, o)
    BY <1>4 DEF CreateFails
  <2>2. created' = created /\ missed' \in [Pods -> BOOLEAN]
    BY <1>4 DEF CreateFails, TypeOK
  <2>3. failures' \in 0 .. MaxFailures
    BY <1>4 DEF CreateFails, FailureOf, TypeOK
  <2> QED
    BY <1>2, <2>1, <2>2, <2>3 DEF TypeOK, Started, watch
<1>5. ASSUME NEW p \in Pods, Listen(p) PROVE TypeOK'
  BY <1>5 DEF TypeOK, Listen, election, watch
<1>6. ASSUME NEW p \in Pods, Terminate(p) PROVE TypeOK'
  BY <1>6 DEF TypeOK, Terminate, watch, FailureOf
<1>7. ASSUME NEW p \in Pods, Shutdown(p) PROVE TypeOK'
  BY <1>7 DEF TypeOK, Shutdown, election, watch
<1>8. ASSUME NEW p \in Pods, Die(p), failures' \in 0 .. MaxFailures PROVE TypeOK'
  BY <1>8 DEF TypeOK, Die, Loops, Off
<1>9. ASSUME NEW p \in Pods, Exit(p) \/ Crash(p) PROVE TypeOK'
  BY <1>8, <1>9 DEF TypeOK, Exit, Crash, FailureOf
<1>10. ASSUME NEW p \in Pods, Restart(p) PROVE TypeOK'
  BY <1>10 DEF TypeOK, Restart, election, watch
<1>11. ASSUME NEW p \in Pods, Acquire(p) PROVE TypeOK'
  <2>1. PICK t \in TermsOf(p) :
          /\ live' = live \cup {t}
          /\ loop' = [loop EXCEPT ![t] = [k \in Kinds |-> [Off EXCEPT !.at = "cleanup"]]]
          /\ informer' = [informer EXCEPT ![t] = [k \in Kinds |-> "new"]]
    BY <1>11 DEF Acquire
  <2>2. t \in Terms
    BY TermsDisjoint
  <2>3. [Off EXCEPT !.at = "cleanup"] \in Loops
    BY DEF Off, Loops
  <2> QED
    BY <1>11, <2>1, <2>2, <2>3 DEF TypeOK, Acquire, main, Off
<1>12. CASE Expire
  BY <1>12 DEF TypeOK, Expire, main, watch
<1>13. ASSUME NEW p \in Pods, RenewFails(p) PROVE TypeOK'
  BY <1>13 DEF TypeOK, RenewFails, main, watch, FailureOf
<1>14. ASSUME NEW p \in Pods, EndTerm(p) PROVE TypeOK'
  BY <1>14 DEF TypeOK, EndTerm, main, watch
<1>15. ASSUME NEW p \in Pods, ExitElection(p) PROVE TypeOK'
  BY <1>15 DEF TypeOK, ExitElection, main, watch
<1>16. ASSUME NEW t \in Terms, StartLoops(t) PROVE TypeOK'
  BY <1>16 DEF TypeOK, StartLoops, main, election, Off, Loops
<1>17. ASSUME NEW t \in Terms, NEW k \in Kinds, StopInformer(t, k) PROVE TypeOK'
  <2> DEFINE new == [Off EXCEPT !.at = "watch"]
  <2>1. new \in Loops /\ ~new.running /\ new.stopper = "nil"
    BY DEF Off, Loops
  <2>2. loop' = [loop EXCEPT ![t][k] = new]
    BY <1>17 DEF StopInformer
  <2> HIDE DEF new
  <2>3. /\ loop' \in [Terms -> [Kinds -> Loops]]
        /\ \A u \in Terms, j \in Kinds :
             loop'[u][j].running <=> loop'[u][j].stopper # "nil"
    BY <2>1, <2>2 DEF TypeOK
  <2>4. informer' \in [Terms -> [Kinds -> {"new", "running", "closing", "stopped"}]]
    BY <1>17 DEF StopInformer, Close, TypeOK
  <2> QED
    BY <1>17, <2>3, <2>4 DEF TypeOK, StopInformer, main, election
<1>18. ASSUME NEW t \in Terms, NEW k \in Kinds, StartInformer(t, k) PROVE TypeOK'
  BY <1>18 DEF TypeOK, StartInformer, main, election, Loops
<1>19. ASSUME NEW t \in Terms, NEW k \in Kinds, ExitLoop(t, k) PROVE TypeOK'
  BY <1>19 DEF TypeOK, ExitLoop, Close, main, election, Off, Loops
<1>20. ASSUME NEW t \in Terms, NEW k \in Kinds, InformerStops(t, k) PROVE TypeOK'
  BY <1>20 DEF TypeOK, InformerStops, main, election
<1>21. ASSUME NEW k \in Kinds, ChangeCrd(k) PROVE TypeOK'
  BY <1>21 DEF TypeOK, ChangeCrd, main, election, watch, FailureOf
<1>22. CASE UNCHANGED vars
  BY <1>22 DEF TypeOK, vars, main, election, watch
<1> QED
  BY <1>1, <1>3, <1>4, <1>5, <1>6, <1>7, <1>9, <1>10, <1>11, <1>12, <1>13,
     <1>14, <1>15, <1>16, <1>17, <1>18, <1>19, <1>20, <1>21, <1>22
     DEF Next, Main, Watch

(* One live term, and no pod leads outside its time.                       *)
Led == /\ OneLiveTerm
       /\ \A p \in Pods :
            /\ process[p] \notin {"up", "stopping"} => elector[p] = "off"
            /\ process[p] = "stopping" => live \cap TermsOf(p) = {}

LEMMA LedStep == TypeOK /\ Led /\ [Next]_vars => Led'
<1> SUFFICES ASSUME TypeOK, Led, [Next]_vars PROVE Led'
  OBVIOUS
<1> USE TermsDisjoint
<1>1. ASSUME UNCHANGED <<process, elector, live>> PROVE Led'
  BY <1>1 DEF Led, OneLiveTerm
<1>2. ASSUME NEW p \in Pods, Connect(p) \/ Restart(p) PROVE Led'
  BY <1>2 DEF Led, OneLiveTerm, TypeOK, Connect, Restart, election
<1>3. ASSUME NEW p \in Pods, NEW o \in Objects, process[p] = o, Started(p, o)
      PROVE  Led'
  <2>1. process[p] \notin {"up", "stopping"} /\ elector[p] = "off"
    BY <1>3 DEF Led, Objects
  <2>2. live \cap TermsOf(p) = {}
    BY <2>1 DEF Led, OneLiveTerm
  <2>3. /\ After[o] \in Objects \cup {"up"}
        /\ o # "indexes" => After[o] # "up"
        /\ o = "indexes" => After[o] = "up"
    BY DEF Objects, After
  <2>4. /\ process'[p] = After[o] /\ live' = live
        /\ o # "indexes" => elector'[p] = "off"
        /\ \A q \in Pods \ {p} : process'[q] = process[q] /\ elector'[q] = elector[q]
    BY <1>3, <2>1 DEF Started, TypeOK
  <2> QED
    BY <2>1, <2>2, <2>3, <2>4 DEF Led, OneLiveTerm, Objects
<1>4. ASSUME NEW p \in Pods, Create(p) \/ CreateFails(p) PROVE Led'
  BY <1>3, <1>4 DEF Create, CreateFails
<1>5. ASSUME NEW p \in Pods, Listen(p) \/ Shutdown(p) PROVE Led'
  BY <1>1, <1>5 DEF Listen, Shutdown, election
<1>6. ASSUME NEW p \in Pods, Terminate(p) PROVE Led'
  BY <1>6 DEF Led, OneLiveTerm, TypeOK, Terminate
<1>7. ASSUME NEW p \in Pods, Exit(p) \/ Crash(p) PROVE Led'
  <2>1. /\ process' = [process EXCEPT ![p] = "down"]
        /\ elector' = [elector EXCEPT ![p] = "off"]
        /\ live' = live \ TermsOf(p)
    BY <1>7 DEF Exit, Crash, Die
  <2>2. live' \cap TermsOf(p) = {} /\ live' \subseteq live
    BY <2>1
  <2> QED
    BY <2>1, <2>2 DEF Led, OneLiveTerm, TypeOK
<1>8. ASSUME NEW p \in Pods, Acquire(p) PROVE Led'
  <2>1. PICK t \in TermsOf(p) : live' = live \cup {t}
    BY <1>8 DEF Acquire
  <2>2. /\ process' = process /\ process[p] = "up"
        /\ elector[p] = "candidate"
        /\ elector' = [elector EXCEPT ![p] = "leading"]
    BY <1>8 DEF Acquire, main
  <2>3. live \cap TermsOf(p) = {}
    BY <2>2 DEF Led, OneLiveTerm
  <2>4. live' \cap TermsOf(p) = {t}
    BY <2>1, <2>3
  <2>5. \A q \in Pods \ {p} : live' \cap TermsOf(q) = live \cap TermsOf(q)
    BY <2>1
  <2> QED
    BY <2>2, <2>4, <2>5 DEF Led, OneLiveTerm, TypeOK
<1>9. CASE Expire
  BY <1>1, <1>9 DEF Expire, main
<1>10. ASSUME NEW p \in Pods, RenewFails(p) PROVE Led'
  BY <1>10 DEF Led, OneLiveTerm, TypeOK, RenewFails, main
<1>11. ASSUME NEW p \in Pods, EndTerm(p) PROVE Led'
  BY <1>11 DEF Led, OneLiveTerm, TypeOK, EndTerm, main
<1>12. ASSUME NEW p \in Pods, ExitElection(p) PROVE Led'
  BY <1>12 DEF Led, OneLiveTerm, TypeOK, ExitElection, main
<1>13. ASSUME NEW t \in Terms, StartLoops(t) PROVE Led'
  BY <1>1, <1>13 DEF StartLoops, main, election
<1>14. ASSUME NEW t \in Terms, NEW k \in Kinds, Watch(t, k) \/ ExitLoop(t, k)
       PROVE  Led'
  BY <1>1, <1>14 DEF Watch, StopInformer, StartInformer, InformerStops, ExitLoop,
                     main, election
<1>15. ASSUME NEW k \in Kinds, ChangeCrd(k) PROVE Led'
  BY <1>1, <1>15 DEF ChangeCrd, main, election
<1>16. CASE UNCHANGED vars
  BY <1>1, <1>16 DEF vars, main, election
<1> QED
  BY <1>2, <1>4, <1>5, <1>6, <1>7, <1>8, <1>9, <1>10, <1>11, <1>12, <1>13,
     <1>14, <1>15, <1>16 DEF Next, Main

LEMMA OwnedStep == TypeOK /\ InformersOwned /\ [Next]_vars => InformersOwned'
<1> SUFFICES ASSUME TypeOK, InformersOwned, [Next]_vars PROVE InformersOwned'
  OBVIOUS
<1> USE DEF InformersOwned, Running, TypeOK
<1>1. ASSUME UNCHANGED watch PROVE InformersOwned'
  BY <1>1 DEF watch
<1>2. ASSUME NEW p \in Pods,
             Connect(p) \/ Create(p) \/ Listen(p) \/ Shutdown(p) \/ Restart(p)
               \/ CreateFails(p) \/ Terminate(p)
      PROVE  InformersOwned'
  BY <1>1, <1>2 DEF Connect, Create, Listen, Shutdown, Restart, CreateFails,
                    Terminate, Started
<1>3. ASSUME NEW p \in Pods, Exit(p) \/ Crash(p) PROVE InformersOwned'
  <2>1. Die(p)
    BY <1>3 DEF Exit, Crash
  <2> SUFFICES ASSUME NEW t \in Terms, NEW k \in Kinds, informer'[t][k] = "running"
               PROVE  Running(t, k)' /\ loop'[t][k].stopper = "used"
    OBVIOUS
  <2>2. t \notin TermsOf(p)
    BY <2>1 DEF Die
  <2>3. informer'[t] = informer[t] /\ loop'[t] = loop[t]
    BY <2>1, <2>2 DEF Die
  <2> QED
    BY <2>3
<1>4. ASSUME NEW p \in Pods, Acquire(p) PROVE InformersOwned'
  <2>1. PICK t \in TermsOf(p) :
          /\ loop' = [loop EXCEPT ![t] = [k \in Kinds |-> [Off EXCEPT !.at = "cleanup"]]]
          /\ informer' = [informer EXCEPT ![t] = [k \in Kinds |-> "new"]]
    BY <1>4 DEF Acquire
  <2> QED
    BY <2>1
<1>5. ASSUME NEW p \in Pods, RenewFails(p) \/ EndTerm(p) \/ ExitElection(p)
      PROVE  InformersOwned'
  BY <1>1, <1>5 DEF RenewFails, EndTerm, ExitElection
<1>6. CASE Expire
  BY <1>1, <1>6 DEF Expire
<1>7. ASSUME NEW t \in Terms, StartLoops(t) PROVE InformersOwned'
  BY <1>7 DEF StartLoops
<1>8. ASSUME NEW t \in Terms, NEW k \in Kinds, StopInformer(t, k) \/ ExitLoop(t, k)
      PROVE  InformersOwned'
  <2> SUFFICES ASSUME NEW u \in Terms, NEW j \in Kinds, informer'[u][j] = "running"
               PROVE  Running(u, j)' /\ loop'[u][j].stopper = "used"
    OBVIOUS
  <2>1. Close(t, k)
    BY <1>8 DEF StopInformer, ExitLoop
  <2>2. <<u, j>> # <<t, k>>
    BY <2>1 DEF Close
  <2>3. informer'[u][j] = informer[u][j]
    BY <2>1, <2>2 DEF Close
  <2>4. loop'[u][j] = loop[u][j]
    BY <1>8, <2>2 DEF StopInformer, ExitLoop
  <2> QED
    BY <2>3, <2>4
<1>9. ASSUME NEW t \in Terms, NEW k \in Kinds, StartInformer(t, k)
      PROVE  InformersOwned'
  BY <1>9 DEF StartInformer
<1>10. ASSUME NEW t \in Terms, NEW k \in Kinds, InformerStops(t, k)
       PROVE  InformersOwned'
  BY <1>10 DEF InformerStops
<1>11. ASSUME NEW k \in Kinds, ChangeCrd(k) PROVE InformersOwned'
  BY <1>1, <1>11 DEF ChangeCrd
<1>12. CASE UNCHANGED vars
  BY <1>1, <1>12 DEF vars, watch
<1> QED
  BY <1>2, <1>3, <1>4, <1>5, <1>6, <1>7, <1>8, <1>9, <1>10, <1>11, <1>12
     DEF Next, Main, Watch

LEMMA DoneValues == /\ Done["pool"] = {} /\ Done["schema"] = {} /\ Done["down"] = {}
                    /\ Done["up"] = Objects /\ Done["stopping"] = Objects
BY DEF Done

(* What exists when main is at a statement, and who listens.               *)
Made == \A p \in Pods :
    /\ missed[p] \/ Done[process[p]] \subseteq created
    /\ p \in listening => process[p] \in {"up", "stopping"}

LEMMA MadeStep == TypeOK /\ Made /\ [Next]_vars => Made'
<1> SUFFICES ASSUME TypeOK, Made, [Next]_vars PROVE Made'
  OBVIOUS
<1> USE DEF TypeOK, Made
<1>1. ASSUME UNCHANGED main PROVE Made'
  BY <1>1 DEF main
<1>2. ASSUME NEW p \in Pods, Connect(p) \/ Restart(p) PROVE Made'
  <2>1. /\ process' \in {[process EXCEPT ![p] = "schema"], [process EXCEPT ![p] = "pool"]}
        /\ \A q \in Pods \ {p} : missed'[q] = missed[q]
        /\ UNCHANGED <<created, listening>>
        /\ process[p] \in {"pool", "down"}
    BY <1>2 DEF Connect, Restart
  <2> QED
    BY <2>1, DoneValues
<1>3. ASSUME NEW p \in Pods, NEW o \in Objects, process[p] = o, Started(p, o),
             created \subseteq created',
             \/ missed' = [missed EXCEPT ![p] = TRUE]
             \/ missed' = missed /\ o \in created'
      PROVE  Made'
  <2>1. p \notin listening
    BY <1>3 DEF Objects
  <2>2. Done[After[o]] = Done[o] \cup {o}
    BY DEF Objects, Done, After
  <2> QED
    BY <1>3, <2>1, <2>2 DEF Started
<1>4. ASSUME NEW p \in Pods, Create(p) \/ CreateFails(p) PROVE Made'
  BY <1>3, <1>4 DEF Create, CreateFails
<1>5. ASSUME NEW p \in Pods, Listen(p) \/ Shutdown(p) PROVE Made'
  BY <1>5 DEF Listen, Shutdown
<1>6. ASSUME NEW p \in Pods, Terminate(p) PROVE Made'
  BY <1>6, DoneValues DEF Terminate
<1>7. ASSUME NEW p \in Pods, Exit(p) \/ Crash(p) PROVE Made'
  BY <1>7, DoneValues DEF Exit, Crash, Die
<1>8. ASSUME NEW p \in Pods,
             Acquire(p) \/ RenewFails(p) \/ EndTerm(p) \/ ExitElection(p)
      PROVE  Made'
  BY <1>1, <1>8 DEF Acquire, RenewFails, EndTerm, ExitElection
<1>9. CASE Expire
  BY <1>1, <1>9 DEF Expire
<1>10. ASSUME NEW t \in Terms, StartLoops(t) PROVE Made'
  BY <1>1, <1>10 DEF StartLoops
<1>11. ASSUME NEW t \in Terms, NEW k \in Kinds, Watch(t, k) \/ ExitLoop(t, k)
       PROVE  Made'
  BY <1>1, <1>11 DEF Watch, StopInformer, StartInformer, InformerStops, ExitLoop
<1>12. ASSUME NEW k \in Kinds, ChangeCrd(k) PROVE Made'
  BY <1>1, <1>12 DEF ChangeCrd
<1>13. CASE UNCHANGED vars
  BY <1>1, <1>13 DEF vars
<1> QED
  BY <1>2, <1>4, <1>5, <1>6, <1>7, <1>8, <1>9, <1>10, <1>11, <1>12, <1>13
     DEF Next, Main

(* The invariant is the conjunction of these parts.                        *)
LEMMA Parts == IInv <=> TypeOK /\ Led /\ InformersOwned /\ Made
BY DEF IInv, Led, Made

LEMMA InitIInv == Init => IInv
<1> SUFFICES ASSUME Init PROVE IInv
  OBVIOUS
<1>1. TypeOK
  BY IndexerPodsAssumption DEF Init, TypeOK, Off, Loops
<1>2. Led
  BY DEF Init, Led, OneLiveTerm
<1>3. InformersOwned
  BY DEF Init, InformersOwned
<1>4. Made
  BY DEF Init, Made, Done
<1> QED
  BY <1>1, <1>2, <1>3, <1>4, Parts

(* The inductive invariant of the pods.                                    *)
THEOREM Invariance == Spec => []IInv
<1>1. Init => IInv
  BY InitIInv
<1>2. IInv /\ [Next]_vars => IInv'
  BY TypeStep, LedStep, OwnedStep, MadeStep, Parts DEF IInv, Led, Made
<1> QED
  BY <1>1, <1>2, PTL DEF Spec

(* A pod never has two live terms, however often it loses the lease and    *)
(* gets it back while goroutines of former terms still run.                *)
THEOREM LeadsOnce == Spec => []OneLiveTerm
<1>1. IInv => OneLiveTerm
  BY DEF IInv
<1> QED
  BY <1>1, Invariance, PTL

(* An informer that runs can be stopped by the loop that started it.       *)
THEOREM InformersHaveOwner == Spec => []InformersOwned
<1>1. IInv => InformersOwned
  BY DEF IInv
<1> QED
  BY <1>1, Invariance, PTL

(* A server listens only after its pod has seen the tables exist, or one   *)
(* of its statements failed, however the pods start together.              *)
THEOREM TablesBeforeRequests == Spec => []ListeningHasTables
<1>1. IInv => ListeningHasTables
  <2> SUFFICES ASSUME IInv, NEW p \in listening, ~missed[p] PROVE created = Objects
    BY DEF ListeningHasTables
  <2>1. p \in Pods /\ created \subseteq Objects
    BY DEF IInv, TypeOK
  <2>2. process[p] \in {"up", "stopping"} /\ Done[process[p]] \subseteq created
    BY <2>1 DEF IInv
  <2> QED
    BY <2>1, <2>2 DEF Done
<1> QED
  BY <1>1, Invariance, PTL
=============================================================================
