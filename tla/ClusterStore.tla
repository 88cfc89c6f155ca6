---------------------------- MODULE ClusterStore ----------------------------
(***************************************************************************)
(* What the indexer promises the collectors.  It stores one state per      *)
(* cluster.  A collector hands over states one request after the other;    *)
(* while its request is under way the stored state of its cluster, and of  *)
(* no other, may be anything.  A request ends without an answer that the   *)
(* collector can rely on, or it confirms a state, which is then the state  *)
(* stored at this moment, and stays stored until the next request of the   *)
(* cluster.                                                                *)
(*                                                                         *)
(* SyncRequest implements this module: its tables are the store, the       *)
(* phases of a request are hidden in busy.                                 *)
(***************************************************************************)
CONSTANTS Clusters,
          Unknown    \* the collector cannot rely on any state

VARIABLES store,     \* [Clusters -> the state that is stored]
          known,     \* [Clusters -> the state that was confirmed, or Unknown]
          busy       \* clusters with a request under way

vars == <<store, known, busy>>

Init == /\ known = [c \in Clusters |-> Unknown]
        /\ busy = {}

Begin(c) == /\ c \notin busy
            /\ busy' = busy \cup {c}
            /\ known' = [known EXCEPT ![c] = Unknown]
            /\ UNCHANGED store

Write(c) == /\ c \in busy
            /\ \A d \in Clusters \ {c} : store'[d] = store[d]
            /\ UNCHANGED <<known, busy>>

Confirm(c) == /\ c \in busy
              /\ busy' = busy \ {c}
              /\ known' = [known EXCEPT ![c] = store[c]]
              /\ UNCHANGED store

(* Also a request that is turned away before it is under way.              *)
Disappoint(c) == /\ busy' = busy \ {c}
                 /\ known' = [known EXCEPT ![c] = Unknown]
                 /\ UNCHANGED store

Next == \E c \in Clusters :
    Begin(c) \/ Write(c) \/ Confirm(c) \/ Disappoint(c)

Spec == Init /\ [][Next]_vars
=============================================================================
