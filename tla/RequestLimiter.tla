--------------------------- MODULE RequestLimiter ---------------------------
(***************************************************************************)
(* The two middlewares in front of SyncResources                           *)
(* (pkg/server/requestLimiter.go and pkg/server/largeRequestLimiter.go).   *)
(*                                                                         *)
(* net/http runs each request in a goroutine.  A middleware reads its      *)
(* tracker under a read lock, decides, and updates the tracker under the   *)
(* write lock: other requests run in between.  The deferred functions undo *)
(* the update when the request is over, however it ended.                  *)
(***************************************************************************)
EXTENDS Integers, FiniteSets

CONSTANTS Clusters,            \* names in the path of the requests
          Requests,            \* goroutines of the server
          RequestLimit,        \* config.Cfg.RequestLimit
          LargeRequestLimit,   \* config.Cfg.LargeRequestLimit
          Patient              \* a collector awaits its response before it
                               \* sends its next request

ASSUME RequestsAssumption == IsFiniteSet(Requests)
ASSUME LimitsAssumption == RequestLimit \in Nat /\ LargeRequestLimit \in Nat
ASSUME PatientAssumption == Patient \in BOOLEAN

VARIABLES requestTracker,            \* keys of the map of that name
          largeRequestCountTracker,
          stage,                     \* how far each goroutine is
          request                    \* the request it serves

vars == <<requestTracker, largeRequestCountTracker, stage, request>>

(* A request from the hub cluster is recognised by its host name; a large  *)
(* one by its Content-Length.                                              *)
Request == [cluster : Clusters, hub : BOOLEAN, large : BOOLEAN]

Stages == {"idle", "arrived", "accepted", "tracked", "largeAccepted",
           "handling", "done"}

TypeOK == /\ requestTracker \in SUBSET Clusters
          /\ largeRequestCountTracker \in Nat
          /\ stage \in [Requests -> Stages]
          /\ request \in [Requests -> Request]

Init == /\ requestTracker = {}
        /\ largeRequestCountTracker = 0
        /\ stage = [r \in Requests |-> "idle"]
        /\ request \in [Requests -> Request]

Move(r, next) == stage' = [stage EXCEPT ![r] = next]

(* A request arrives.                                                      *)
Arrive(r, q) == /\ stage[r] = "idle"
                /\ Patient => \A p \in Requests :
                     stage[p] # "idle" => request[p].cluster # q.cluster
                /\ request' = [request EXCEPT ![r] = q]
                /\ Move(r, "arrived")
                /\ UNCHANGED <<requestTracker, largeRequestCountTracker>>

------------------------------------------------------------------------------
(* requestLimiterMiddleware.  What it read under the lock decides alone.   *)

Busy(r) == request[r].cluster \in requestTracker

Full(r) == /\ Cardinality(requestTracker) >= RequestLimit
           /\ ~request[r].hub

Reject(r) == /\ stage[r] = "arrived"
             /\ Busy(r) \/ Full(r)
             /\ Move(r, "idle")
             /\ UNCHANGED <<requestTracker, largeRequestCountTracker, request>>

Accept(r) == /\ stage[r] = "arrived"
             /\ ~Busy(r) /\ ~Full(r)
             /\ Move(r, "accepted")
             /\ UNCHANGED <<requestTracker, largeRequestCountTracker, request>>

Track(r) == /\ stage[r] = "accepted"
            /\ requestTracker' = requestTracker \cup {request[r].cluster}
            /\ Move(r, "tracked")
            /\ UNCHANGED <<largeRequestCountTracker, request>>

(* The deferred delete, for a request that was handled or found too large. *)
Untrack(r) == /\ stage[r] = "done"
              /\ requestTracker' = requestTracker \ {request[r].cluster}
              /\ Move(r, "idle")
              /\ UNCHANGED <<largeRequestCountTracker, request>>

------------------------------------------------------------------------------
(* largeRequestLimiterMiddleware and the handler.                          *)

PassSmall(r) == /\ stage[r] = "tracked"
                /\ ~request[r].large
                /\ Move(r, "handling")
                /\ UNCHANGED <<requestTracker, largeRequestCountTracker, request>>

(* Mutant of LargeReject: the tracker keeps the entry of the request.      *)
LargeRejectStaysTracked(r) ==
    /\ stage[r] = "tracked"
    /\ request[r].large
    /\ largeRequestCountTracker >= LargeRequestLimit
    /\ Move(r, "idle")
    /\ UNCHANGED <<requestTracker, largeRequestCountTracker, request>>

LargeReject(r) ==
    /\ stage[r] = "tracked"
    /\ request[r].large
    /\ largeRequestCountTracker >= LargeRequestLimit
    /\ Move(r, "done")
    /\ UNCHANGED <<requestTracker, largeRequestCountTracker, request>>

LargeAccept(r) ==
    /\ stage[r] = "tracked"
    /\ request[r].large
    /\ largeRequestCountTracker < LargeRequestLimit
    /\ Move(r, "largeAccepted")
    /\ UNCHANGED <<requestTracker, largeRequestCountTracker, request>>

(* Mutant of LargeCount: the increment is made from the value read before. *)
LargeCountStale(r) ==
    /\ stage[r] = "largeAccepted"
    /\ \E read \in 0..largeRequestCountTracker :
          largeRequestCountTracker' = read + 1
    /\ Move(r, "handling")
    /\ UNCHANGED <<requestTracker, request>>

LargeCount(r) == /\ stage[r] = "largeAccepted"
                 /\ largeRequestCountTracker' = largeRequestCountTracker + 1
                 /\ Move(r, "handling")
                 /\ UNCHANGED <<requestTracker, request>>

(* SyncResources returns or panics; the deferred decrement runs for large  *)
(* requests only.                                                          *)
HandlerReturns(r) ==
    /\ stage[r] = "handling"
    /\ largeRequestCountTracker' =
         largeRequestCountTracker - (IF request[r].large THEN 1 ELSE 0)
    /\ Move(r, "done")
    /\ UNCHANGED <<requestTracker, request>>

------------------------------------------------------------------------------
Progress(r) == \/ Reject(r) \/ Accept(r) \/ Track(r)
               \/ PassSmall(r) \/ LargeReject(r) \/ LargeAccept(r)
               \/ LargeCount(r) \/ HandlerReturns(r) \/ Untrack(r)

Next == \E r \in Requests : Progress(r) \/ \E q \in Request : Arrive(r, q)

Spec == Init /\ [][Next]_vars

(* Goroutines are scheduled and the handler returns: its database calls    *)
(* use the context of the request.  Nobody is forced to send a request.    *)
Fairness == \A r \in Requests : WF_vars(Progress(r))

FairSpec == Spec /\ Fairness

------------------------------------------------------------------------------
(* Properties.                                                             *)

(* Between Track and Untrack a goroutine owes the tracker a delete.        *)
HoldsEntry(r) == stage[r] \in {"tracked", "largeAccepted", "handling", "done"}

(* Each entry of the tracker belongs to a request in flight that will      *)
(* delete it.  An entry without one would shut its cluster out for good:   *)
(* requestLimiter.go:53 defers the delete, also for a request that the     *)
(* inner middleware rejects (largeRequestLimiter.go:27-32).                *)
EntryHasOwner == \A c \in requestTracker :
    \E r \in Requests : HoldsEntry(r) /\ request[r].cluster = c

(* The counter is the number of large requests between its increment and   *)
(* its decrement (largeRequestLimiter.go:34-42): it never drifts, however  *)
(* the requests interleave.                                                *)
LargeInFlight == {r \in Requests : stage[r] = "handling" /\ request[r].large}
LargeCountExact == largeRequestCountTracker = Cardinality(LargeInFlight)

(* No cluster is locked out: every entry is deleted.                       *)
EntryDeleted == \A c \in Clusters :
    c \in requestTracker ~> c \notin requestTracker

(* The first request of a cluster to finish deletes the entry of all.      *)
(* While a collector awaits its responses nobody deletes the entry of a    *)
(* request that is still at work (requestLimiter.go:49-57).                *)
EntryKept == \A r \in Requests :
    HoldsEntry(r) => request[r].cluster \in requestTracker

(* A patient cluster has one goroutine at most.                            *)
Alone == Patient => \A r, p \in Requests :
    /\ stage[r] # "idle" /\ stage[p] # "idle"
    /\ request[r].cluster = request[p].cluster
    => r = p

(* Only large requests take the way of large requests.                     *)
LargeOnly == \A r \in Requests :
    stage[r] = "largeAccepted" => request[r].large

(* The inductive invariant of RequestLimiterProofs.                        *)
IInv == /\ TypeOK
        /\ EntryHasOwner
        /\ LargeCountExact
        /\ LargeOnly
        /\ Alone
        /\ Patient => EntryKept

(* "request is rejected when there's a pending request form the same       *)
(* cluster" (requestLimiter_test.go:33).                                   *)
OneRequestPerCluster == \A r, p \in Requests :
    /\ stage[r] = "handling" /\ stage[p] = "handling"
    /\ request[r].cluster = request[p].cluster
    => r = p

(* "caps total concurrent requests" (docs/ARCHITECTURE.md:68), stated here *)
(* for the requests that do not come from the hub cluster.                 *)
AtMostRequestLimit ==
    Cardinality({r \in Requests : stage[r] = "handling" /\ ~request[r].hub})
      <= RequestLimit

(* "caps concurrent requests larger than 20 MB"                            *)
(* (docs/ARCHITECTURE.md:69).                                              *)
AtMostLargeRequestLimit == Cardinality(LargeInFlight) <= LargeRequestLimit
=============================================================================
