---------------------------- MODULE BatchContract ----------------------------
(***************************************************************************)
(* What batchWithRetry (pkg/database/batch.go) promises the function that  *)
(* queues the database queries of one request: each query is accepted once *)
(* and then settled once, and the function returns nil only when every     *)
(* query has been stored or isolated as an error.  After it returned       *)
(* nothing happens to the queries any more.                                *)
(***************************************************************************)
EXTENDS Integers

CONSTANT N   \* how many queries the request has

Items == 1..N

VARIABLES fate,    \* what became of each query
          result   \* what the caller returned, "none" while it runs

vars == <<fate, result>>

Settled == {"applied", "failed", "lost"}

TypeOK == /\ fate \in [Items -> {"new", "pending"} \cup Settled]
          /\ result \in {"none", "ok", "error"}

Init == /\ fate = [i \in Items |-> "new"]
        /\ result = "none"

(* A query is added to the queue.                                          *)
Accept(i) == /\ result = "none"
             /\ fate[i] = "new"
             /\ fate' = [fate EXCEPT ![i] = "pending"]
             /\ UNCHANGED result

(* The queries of one transaction get their outcome together.              *)
Settle(S, outcome) ==
    /\ result = "none"
    /\ \A i \in S : fate[i] = "pending"
    /\ fate' = [i \in Items |-> IF i \in S THEN outcome ELSE fate[i]]
    /\ UNCHANGED result

ReturnOk == /\ result = "none"
            /\ \A i \in Items : fate[i] \in {"applied", "failed"}
            /\ result' = "ok"
            /\ UNCHANGED fate

ReturnError == /\ result = "none"
               /\ \A i \in Items : fate[i] # "pending"
               /\ result' = "error"
               /\ UNCHANGED fate

Next == \/ \E i \in Items : Accept(i)
        \/ \E S \in SUBSET Items, outcome \in Settled : Settle(S, outcome)
        \/ ReturnOk
        \/ ReturnError

Spec == Init /\ [][Next]_vars
=============================================================================
