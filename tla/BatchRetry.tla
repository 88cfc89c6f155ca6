----------------------------- MODULE BatchRetry -----------------------------
(***************************************************************************)
(* batchWithRetry of pkg/database/batch.go together with the function that *)
(* feeds it (SyncData, resetResources or resetEdges).                      *)
(*                                                                         *)
(* The caller queues N queries.  Every time BatchSize of them are waiting  *)
(* a goroutine sends them to the database as one transaction.  When the    *)
(* transaction fails the goroutine sends its first half and then its       *)
(* second half, recursively, until a transaction of one query fails: that  *)
(* query is the culprit and its uid is reported in the response.           *)
(*                                                                         *)
(* A call of sendBatch is named by the range of queries it sends: the      *)
(* ranges of different calls of one request are all different.             *)
(***************************************************************************)
EXTENDS Integers, FiniteSets

CONSTANTS N,           \* number of queries the request queues
          BatchSize,   \* dao.batchSize
          Abandons,    \* the caller returns at once when Queue fails
          Faults       \* failures of the database besides a bad query

ASSUME NAssumption == N \in Nat \ {0}
ASSUME BatchSizeAssumption == BatchSize \in Nat \ {0}
ASSUME AbandonsAssumption == Abandons \in BOOLEAN

(* "conn"       Close reports that the database is unreachable             *)
(* "close"      Close reports any other error                              *)
(* "transient"  Exec fails although every query is fine (deadlock, ...)    *)
ASSUME FaultsAssumption == Faults \subseteq {"conn", "close", "transient"}

Items == 1..N

(* A call sends the queries s[1]..s[2].                                    *)
Segment == {s \in Items \X Items : s[1] <= s[2]}
Queries(s) == s[1]..s[2]
Size(s) == s[2] - s[1] + 1

LeftRoundsUp(s) == <<s[1], s[1] + (Size(s) + 1) \div 2 - 1>>  \* mutant
Left(s) == <<s[1], s[1] + Size(s) \div 2 - 1>>

RightRoundsUp(s) == <<s[1] + (Size(s) + 1) \div 2, s[2]>>     \* mutant
Right(s) == <<s[1] + Size(s) \div 2, s[2]>>

VARIABLES
    poison,      \* the queries that the database rejects
    count,       \* queries 1..count have been accepted by Queue
    head,        \* b.items holds the queries head..count
    caller,      \* where the caller is: "queue", "wait", "returned"
    queueErr,    \* some call of Queue returned an error
    result,      \* what the caller returned
    connError,   \* b.connError # nil
    wg,          \* counter of b.wg
    call,        \* state of each call of sendBatch
    fate,        \* what became of each query
    errors,      \* the uids in the error array of syncResponse
    snapshot     \* error array read by an append that has not written yet

vars == <<poison, count, head, caller, queueErr, result, connError, wg, call,
          fate, errors, snapshot>>

Returned == {"nil", "err"}
Running == {"send", "report", "append", "left", "right"}

TypeOK == /\ poison \in SUBSET Items
          /\ count \in 0..N
          /\ head \in 1..(N + 1)
          /\ caller \in {"queue", "wait", "returned"}
          /\ queueErr \in BOOLEAN
          /\ result \in {"none", "ok", "error"}
          /\ connError \in BOOLEAN
          /\ wg \in Nat
          /\ call \in [Segment -> {"none"} \cup Running \cup Returned]
          /\ fate \in [Items -> {"new", "pending", "applied", "failed", "lost"}]
          /\ errors \in SUBSET Items
          /\ snapshot \in [Items -> SUBSET Items]

Live == {s \in Segment : call[s] \in Running}

Init == /\ poison \in SUBSET Items
        /\ count = 0
        /\ head = 1
        /\ caller = "queue"
        /\ queueErr = FALSE
        /\ result = "none"
        /\ connError = FALSE
        /\ wg = 0
        /\ call = [s \in Segment |-> "none"]
        /\ fate = [i \in Items |-> "new"]
        /\ errors = {}
        /\ snapshot = [i \in Items |-> {}]

------------------------------------------------------------------------------
(* The caller.                                                             *)

(* Queue appends the item and there is room for more in the batch.         *)
QueueItem == /\ caller = "queue"
             /\ ~connError
             /\ count < N
             /\ count + 2 - head < BatchSize
             /\ count' = count + 1
             /\ fate' = [fate EXCEPT ![count + 1] = "pending"]
             /\ UNCHANGED <<poison, head, caller, queueErr, result, connError,
                            wg, call, errors, snapshot>>

(* Queue appends the item that fills the batch, resets the queue and       *)
(* starts a goroutine that sends the batch.                                *)
QueueAndSend == /\ caller = "queue"
                /\ ~connError
                /\ count < N
                /\ count + 2 - head >= BatchSize
                /\ count' = count + 1
                /\ head' = count + 2
                /\ wg' = wg + 1
                /\ call' = [call EXCEPT ![<<head, count + 1>>] = "send"]
                /\ fate' = [fate EXCEPT ![count + 1] = "pending"]
                /\ UNCHANGED <<poison, caller, queueErr, result, connError,
                               errors, snapshot>>

(* Queue refuses the item because the connection was lost.  connError is   *)
(* never reset, so every later call of Queue is refused as well: a caller  *)
(* that carries on with its loop ends where one that leaves the loop does. *)
QueueRefused == /\ caller = "queue"
                /\ connError
                /\ count < N
                /\ ~queueErr
                /\ queueErr' = TRUE
                /\ IF Abandons
                     THEN caller' = "returned" /\ result' = "error"
                     ELSE UNCHANGED <<caller, result>>
                /\ UNCHANGED <<poison, count, head, connError, wg, call, fate,
                               errors, snapshot>>

LoopEnded == caller = "queue" /\ (count = N \/ queueErr)

(* flush() sends what is left in the queue, whatever connError is.         *)
Flush == /\ LoopEnded
         /\ head <= count
         /\ caller' = "wait"
         /\ head' = count + 1
         /\ wg' = wg + 1
         /\ call' = [call EXCEPT ![<<head, count>>] = "send"]
         /\ UNCHANGED <<poison, count, queueErr, result, connError, fate,
                        errors, snapshot>>

FlushNothing == /\ LoopEnded
                /\ head > count
                /\ caller' = "wait"
                /\ UNCHANGED <<poison, count, head, queueErr, result, connError,
                               wg, call, fate, errors, snapshot>>

(* b.wg.Wait() returns and so does the caller.                             *)
Wait == /\ caller = "wait"
        /\ wg = 0
        /\ caller' = "returned"
        /\ result' = IF queueErr \/ connError THEN "error" ELSE "ok"
        /\ UNCHANGED <<poison, count, head, queueErr, connError, wg, call, fate,
                       errors, snapshot>>

------------------------------------------------------------------------------
(* A call of sendBatch.  The batch is one transaction of the database: all *)
(* of its queries take effect or none does.                                *)

SetFate(s, outcome) ==
    fate' = [i \in Items |-> IF i \in Queries(s) THEN outcome ELSE fate[i]]

(* Mutant of Return: wg.Done() is skipped on an error.                     *)
ReturnWithoutDone(s, r) == /\ call' = [call EXCEPT ![s] = r]
                           /\ wg' = IF r = "nil" THEN wg - 1 ELSE wg

(* The call returns value r and its deferred wg.Done() runs.               *)
Return(s, r) == /\ call' = [call EXCEPT ![s] = r]
                /\ wg' = wg - 1

SendOk(s) == /\ call[s] = "send"
             /\ Queries(s) \cap poison = {}
             /\ SetFate(s, "applied")
             /\ Return(s, "nil")
             /\ UNCHANGED <<poison, count, head, caller, queueErr, result,
                            connError, errors, snapshot>>

(* Mutant of Unreachable: the driver words the error in another way.       *)
UnreachableMissed(fault) == fault = "pool closed"

(* The text of the error says that the database is unreachable.            *)
Unreachable(fault) == fault = "conn"

(* Close reports an error.  The transaction may have been committed before *)
(* the connection broke.  Only an error that says that the database is     *)
(* unreachable is remembered in connError.                                 *)
CloseFails(s, fault) ==
    /\ call[s] = "send"
    /\ fault \in Faults \cap {"conn", "close"}
    /\ \/ SetFate(s, "lost")
       \/ Queries(s) \cap poison = {} /\ SetFate(s, "applied")
    /\ connError' = (connError \/ Unreachable(fault))
    /\ Return(s, "err")
    /\ UNCHANGED <<poison, count, head, caller, queueErr, result, errors,
                   snapshot>>

ExecFails(s) == /\ call[s] = "send"
                /\ \/ Queries(s) \cap poison # {}
                   \/ "transient" \in Faults

(* Mutant of Isolate: the search stops at two queries.                     *)
IsolateEarly(s) == /\ ExecFails(s)
                   /\ Size(s) <= 2
                   /\ SetFate(s, "failed")
                   /\ call' = [call EXCEPT ![s] = "report"]
                   /\ UNCHANGED <<poison, count, head, caller, queueErr, result,
                                  connError, wg, errors, snapshot>>

(* A batch of one query failed: the query is isolated.                     *)
Isolate(s) == /\ ExecFails(s)
              /\ Size(s) = 1
              /\ SetFate(s, "failed")
              /\ call' = [call EXCEPT ![s] = "report"]
              /\ UNCHANGED <<poison, count, head, caller, queueErr, result,
                             connError, wg, errors, snapshot>>

(* errorArray = append(errorArray, ...) takes no lock: it reads the slice  *)
(* and then replaces it.                                                   *)
AppendRead(s) == /\ call[s] = "report"
                 /\ call' = [call EXCEPT ![s] = "append"]
                 /\ snapshot' = [snapshot EXCEPT ![s[1]] = errors]
                 /\ UNCHANGED <<poison, count, head, caller, queueErr, result,
                                connError, wg, fate, errors>>

AppendWrite(s) == /\ call[s] = "append"
                  /\ errors' = snapshot[s[1]] \cup {s[1]}
                  /\ snapshot' = [snapshot EXCEPT ![s[1]] = {}]
                  /\ Return(s, "nil")
                  /\ UNCHANGED <<poison, count, head, caller, queueErr, result,
                                 connError, fate>>

(* Mutant of Split: wg.Add(1) for the two retries.                         *)
SplitAddsOne(s) == /\ ExecFails(s)
                   /\ Size(s) > 1
                   /\ wg' = wg + 1
                   /\ call' = [call EXCEPT ![s] = "left", ![Left(s)] = "send"]
                   /\ UNCHANGED <<poison, count, head, caller, queueErr, result,
                                  connError, fate, errors, snapshot>>

(* Mutant of Split: the batch is reported before it is retried.            *)
SplitReports(s) == /\ ExecFails(s)
                   /\ Size(s) > 1
                   /\ wg' = wg + 2
                   /\ call' = [call EXCEPT ![s] = "left", ![Left(s)] = "send"]
                   /\ errors' = errors \cup {s[1]}
                   /\ UNCHANGED <<poison, count, head, caller, queueErr, result,
                                  connError, fate, snapshot>>

(* A larger batch failed: wg.Add(2) and the first half is sent.            *)
Split(s) == /\ ExecFails(s)
            /\ Size(s) > 1
            /\ wg' = wg + 2
            /\ call' = [call EXCEPT ![s] = "left", ![Left(s)] = "send"]
            /\ UNCHANGED <<poison, count, head, caller, queueErr, result,
                           connError, fate, errors, snapshot>>

LeftDone(s) == /\ call[s] = "left"
               /\ call[Left(s)] \in Returned
               /\ call' = [call EXCEPT ![s] = "right", ![Right(s)] = "send"]
               /\ UNCHANGED <<poison, count, head, caller, queueErr, result,
                              connError, wg, fate, errors, snapshot>>

(* nil when both halves returned an error, otherwise the error of Exec.    *)
SplitResult(s) == IF call[Left(s)] = "err" /\ call[Right(s)] = "err"
                    THEN "nil" ELSE "err"

RightDone(s) == /\ call[s] = "right"
                /\ call[Right(s)] \in Returned
                /\ Return(s, SplitResult(s))
                /\ UNCHANGED <<poison, count, head, caller, queueErr, result,
                               connError, fate, errors, snapshot>>

------------------------------------------------------------------------------
CallerStep == QueueItem \/ QueueAndSend \/ QueueRefused \/ Flush
                \/ FlushNothing \/ Wait

SendStep(s) == \/ SendOk(s)
               \/ \E fault \in {"conn", "close"} : CloseFails(s, fault)
               \/ Isolate(s) \/ AppendRead(s) \/ AppendWrite(s)
               \/ Split(s) \/ LeftDone(s) \/ RightDone(s)

Next == CallerStep \/ \E s \in Segment : SendStep(s)

Spec == Init /\ [][Next]_vars

(* Goroutines are scheduled and every database call returns.               *)
Fairness == WF_vars(CallerStep) /\ \A s \in Segment : WF_vars(SendStep(s))

FairSpec == Spec /\ Fairness

------------------------------------------------------------------------------
(* Properties.                                                             *)

(* wg.Wait() (sync.go:132, resync.go:96, 167) waits for every batch and    *)
(* every retry of a batch: a caller that came back from it leaves no call  *)
(* of sendBatch behind and no query whose outcome is open.                 *)
WaitSettlesAll == caller = "returned" /\ ~Abandons =>
                    /\ Live = {}
                    /\ \A i \in Items : fate[i] # "pending"

FateMovesOn(i) ==
    fate'[i] # fate[i] =>
      \/ fate[i] = "new" /\ fate'[i] = "pending"
      \/ fate[i] = "pending" /\ fate'[i] \in {"applied", "failed", "lost"}

(* No retry executes or reports a query again whose outcome was final, and *)
(* a query is executed only after Queue accepted it: the two halves of a   *)
(* batch and the batches in flight never overlap (batch.go:55-60, 118-120).*)
SettledOnce == [][\A i \in Items : FateMovesOn(i)]_vars

(* When every error of the database is due to a bad query, or to a lost    *)
(* connection, the binary search of batch.go:114-120 finds the bad queries *)
(* and only these: a request that returned nil has stored all others.      *)
IsolationExact == result = "ok" =>
    \A i \in Items : fate[i] = IF i \in poison THEN "failed" ELSE "applied"

(* A nil result means that no query got lost: each was stored or was       *)
(* isolated as an error (sync.go:131-146, resync.go:95-103).               *)
CleanReturn == result = "ok" =>
    \A i \in Items : fate[i] \in {"applied", "failed"}

(* "Report queries that resulted in errors" (batch.go:19): a query that    *)
(* was not stored by a request that returned nil is in the error array,    *)
(* and only failed queries are.                                            *)
ErrorsReported == result = "ok" =>
    \A i \in Items : fate[i] = "applied" <=> i \notin errors

(* The half of it that the race of the appends cannot break: no query is   *)
(* reported that was stored or is still to be retried (batch.go:90-120).   *)
OnlyFailedReported == \A i \in errors : fate[i] = "failed"

(* Every request comes to an end and so does every goroutine it started,   *)
(* whatever the database does (wg never sticks, batch.go:58, 67, 118, 135).*)
BatchCompletes == <>[](caller = "returned" /\ Live = {})

------------------------------------------------------------------------------
(* The inductive invariant behind the theorems of BatchRetryProofs.        *)

(* Call s still has to settle query i itself or in the half to come.       *)
Owns(s, i) == \/ call[s] = "send" /\ i \in Queries(s)
              \/ call[s] = "left" /\ i \in Queries(Right(s))

Within(t, s) == s[1] <= t[1] /\ t[2] <= s[2]
Disjoint(s, t) == s[2] < t[1] \/ t[2] < s[1]

(* Call t works for the retry that call s waits for.                       *)
RetryOf(t, s) ==
    \/ call[s] = "left" /\ Left(s) \in Live /\ Within(t, Left(s))
    \/ call[s] = "right" /\ Right(s) \in Live /\ Within(t, Right(s))

(* Two calls in flight have no query in common unless one is a retry of    *)
(* the other.                                                              *)
Nested == \A s, t \in Live :
            s # t => Disjoint(s, t) \/ RetryOf(t, s) \/ RetryOf(s, t)

(* wg counts the calls in flight and the second halves that will follow.   *)
FirstHalves == {s \in Segment : call[s] = "left"}
Counted == /\ IsFiniteSet(Live)
           /\ IsFiniteSet(FirstHalves)
           /\ wg = Cardinality(Live) + Cardinality(FirstHalves)

(* A query is pending exactly while it is queued or a call owns it.        *)
Ownership == \A i \in Items :
    /\ i > count <=> fate[i] = "new"
    /\ fate[i] = "pending" <=>
          i \in head..count \/ \E s \in Segment : Owns(s, i)

Shapes == \A s \in Segment :
    /\ call[s] \in {"left", "right"} => Size(s) > 1
    /\ call[s] \in {"report", "append"} => Size(s) = 1
    /\ s \in Live => s[2] < head

Phases == /\ head <= count + 1
          /\ caller = "wait" => head > count /\ (count = N \/ queueErr)
          /\ result = "ok" \/ (caller = "returned" /\ ~Abandons)
               => head > count /\ Live = {}
          /\ result = "ok" => count = N
          /\ caller = "returned" <=> result # "none"
          /\ queueErr => connError

(* A query gets lost only together with the connection.                    *)
LossNoticed == \A i \in Items :
    fate[i] = "lost" => connError \/ "close" \in Faults

IInv == /\ TypeOK
        /\ Nested
        /\ Counted
        /\ Ownership
        /\ Shapes
        /\ Phases
        /\ LossNoticed

(* A caller that does not abandon its batches keeps the contract.          *)
Contract == INSTANCE BatchContract
              WITH N <- N, fate <- fate, result <- result
ContractSpec == Contract!Spec
=============================================================================
