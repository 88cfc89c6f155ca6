------------------------ MODULE RequestLimiterProofs ------------------------
(***************************************************************************)
(* Proofs about the rate limiters for every set of clusters, any number of *)
(* goroutines and any limits.                                              *)
(***************************************************************************)
EXTENDS RequestLimiter, FiniteSetTheorems, TLAPS

LEMMA InitIInv == Init => IInv
<1> SUFFICES ASSUME Init PROVE IInv
  OBVIOUS
<1>1. LargeInFlight = {}
  BY DEF Init, LargeInFlight
<1>2. LargeCountExact
  BY <1>1, FS_EmptySet DEF Init, LargeCountExact
<1>3. TypeOK /\ EntryHasOwner /\ LargeOnly /\ Alone /\ EntryKept
  BY DEF Init, TypeOK, Stages, EntryHasOwner, LargeOnly, Alone, EntryKept, HoldsEntry
<1> QED BY <1>2, <1>3 DEF IInv

(* A step of r that leaves the counter alone and neither starts nor ends   *)
(* the handling of a large request.                                        *)
LEMMA CountUnchanged ==
    ASSUME LargeCountExact, LargeInFlight' = LargeInFlight,
           largeRequestCountTracker' = largeRequestCountTracker
    PROVE  LargeCountExact'
BY DEF LargeCountExact

LEMMA CountIsNatural ==
    ASSUME LargeCountExact
    PROVE  /\ IsFiniteSet(LargeInFlight)
           /\ largeRequestCountTracker \in Nat
<1>1. LargeInFlight \in SUBSET Requests
  BY DEF LargeInFlight
<1>2. IsFiniteSet(LargeInFlight)
  BY <1>1, FS_Subset, RequestsAssumption
<1> QED BY <1>2, FS_CardinalityType DEF LargeCountExact

LEMMA StepKeepsIInv ==
    ASSUME IInv, NEW r \in Requests, Progress(r) \/ \E q \in Request : Arrive(r, q)
    PROVE  IInv'
<1>0. /\ TypeOK /\ EntryHasOwner /\ LargeCountExact /\ LargeOnly /\ Alone
      /\ Patient => EntryKept
  BY DEF IInv
<1> USE PatientAssumption DEF Move
<1>1. ASSUME NEW q \in Request, Arrive(r, q) PROVE IInv'
  <2>1. TypeOK'
    BY <1>0, <1>1 DEF Arrive, TypeOK, Stages
  <2>2. LargeCountExact'
    <3>1. LargeInFlight' = LargeInFlight
      BY <1>0, <1>1 DEF Arrive, LargeInFlight, TypeOK
    <3> QED BY <1>0, <1>1, <3>1, CountUnchanged DEF Arrive
  <2>3. EntryHasOwner' /\ LargeOnly' /\ Alone' /\ (Patient' => EntryKept')
    BY <1>0, <1>1
       DEF Arrive, TypeOK, EntryHasOwner, LargeOnly, Alone, EntryKept, HoldsEntry
  <2> QED BY <2>1, <2>2, <2>3 DEF IInv
<1>2. CASE Reject(r) \/ Accept(r)
  <2>1. TypeOK'
    BY <1>0, <1>2 DEF Reject, Accept, TypeOK, Stages
  <2>2. LargeCountExact'
    <3>1. LargeInFlight' = LargeInFlight
      BY <1>0, <1>2 DEF Reject, Accept, LargeInFlight, TypeOK
    <3> QED BY <1>0, <1>2, <3>1, CountUnchanged DEF Reject, Accept
  <2>3. EntryHasOwner' /\ LargeOnly' /\ Alone' /\ (Patient' => EntryKept')
    BY <1>0, <1>2
       DEF Reject, Accept, TypeOK, EntryHasOwner, LargeOnly, Alone, EntryKept, HoldsEntry
  <2> QED BY <2>1, <2>2, <2>3 DEF IInv
<1>3. CASE Track(r)
  <2>1. TypeOK'
    BY <1>0, <1>3 DEF Track, TypeOK, Stages, Request
  <2>2. LargeCountExact'
    <3>1. LargeInFlight' = LargeInFlight
      BY <1>0, <1>3 DEF Track, LargeInFlight, TypeOK
    <3> QED BY <1>0, <1>3, <3>1, CountUnchanged DEF Track
  <2>3. EntryHasOwner'
    BY <1>0, <1>3 DEF Track, TypeOK, EntryHasOwner, HoldsEntry
  <2>4. LargeOnly' /\ Alone' /\ (Patient' => EntryKept')
    BY <1>0, <1>3 DEF Track, TypeOK, LargeOnly, Alone, EntryKept, HoldsEntry
  <2> QED BY <2>1, <2>2, <2>3, <2>4 DEF IInv
<1>4. CASE PassSmall(r) \/ LargeReject(r) \/ LargeAccept(r)
  <2>1. TypeOK'
    BY <1>0, <1>4 DEF PassSmall, LargeReject, LargeAccept, TypeOK, Stages
  <2>2. LargeCountExact'
    <3>1. LargeInFlight' = LargeInFlight
      BY <1>0, <1>4
         DEF PassSmall, LargeReject, LargeAccept, LargeInFlight, TypeOK
    <3> QED BY <1>0, <1>4, <3>1, CountUnchanged
               DEF PassSmall, LargeReject, LargeAccept
  <2>3. EntryHasOwner' /\ LargeOnly' /\ Alone' /\ (Patient' => EntryKept')
    BY <1>0, <1>4 DEF PassSmall, LargeReject, LargeAccept, TypeOK,
                      EntryHasOwner, LargeOnly, Alone, EntryKept, HoldsEntry
  <2> QED BY <2>1, <2>2, <2>3 DEF IInv
<1>5. CASE LargeCount(r)
  <2>1. LargeInFlight' = LargeInFlight \cup {r} /\ r \notin LargeInFlight
    BY <1>0, <1>5 DEF LargeCount, LargeInFlight, LargeOnly, TypeOK
  <2>2. LargeCountExact'
    <3>1. Cardinality(LargeInFlight \cup {r}) = Cardinality(LargeInFlight) + 1
      BY <1>0, <2>1, CountIsNatural, FS_AddElement
    <3> QED BY <1>0, <1>5, <2>1, <3>1 DEF LargeCount, LargeCountExact
  <2>3. TypeOK'
    BY <1>0, <1>5 DEF LargeCount, TypeOK, Stages
  <2>4. EntryHasOwner' /\ LargeOnly' /\ Alone' /\ (Patient' => EntryKept')
    BY <1>0, <1>5 DEF LargeCount, TypeOK, EntryHasOwner, LargeOnly, Alone,
                      EntryKept, HoldsEntry
  <2> QED BY <2>2, <2>3, <2>4 DEF IInv
<1>6. CASE HandlerReturns(r)
  <2>1. LargeCountExact' /\ largeRequestCountTracker' \in Nat
    <3>1. IsFiniteSet(LargeInFlight) /\ largeRequestCountTracker \in Nat
      BY <1>0, CountIsNatural
    <3>2. CASE request[r].large
      <4>1. LargeInFlight' = LargeInFlight \ {r} /\ r \in LargeInFlight
        BY <1>0, <1>6, <3>2 DEF HandlerReturns, LargeInFlight, TypeOK
      <4>2. /\ Cardinality(LargeInFlight') = Cardinality(LargeInFlight) - 1
            /\ IsFiniteSet(LargeInFlight')
        BY <3>1, <4>1, FS_RemoveElement
      <4>3. Cardinality(LargeInFlight') \in Nat
        BY <4>2, FS_CardinalityType
      <4> QED BY <1>0, <1>6, <3>2, <4>2, <4>3
                 DEF HandlerReturns, LargeCountExact
    <3>3. CASE ~request[r].large
      <4>1. LargeInFlight' = LargeInFlight
        BY <1>0, <1>6, <3>3 DEF HandlerReturns, LargeInFlight, TypeOK
      <4> QED BY <1>0, <1>6, <3>1, <3>3, <4>1
                 DEF HandlerReturns, LargeCountExact
    <3> QED BY <3>2, <3>3
  <2>2. TypeOK'
    BY <1>0, <1>6, <2>1 DEF HandlerReturns, TypeOK, Stages
  <2>3. EntryHasOwner' /\ LargeOnly' /\ Alone' /\ (Patient' => EntryKept')
    BY <1>0, <1>6 DEF HandlerReturns, TypeOK, EntryHasOwner, LargeOnly, Alone,
                      EntryKept, HoldsEntry
  <2> QED BY <2>1, <2>2, <2>3 DEF IInv
<1>7. CASE Untrack(r)
  <2>1. TypeOK'
    BY <1>0, <1>7 DEF Untrack, TypeOK, Stages
  <2>2. LargeCountExact'
    <3>1. LargeInFlight' = LargeInFlight
      BY <1>0, <1>7 DEF Untrack, LargeInFlight, TypeOK
    <3> QED BY <1>0, <1>7, <3>1, CountUnchanged DEF Untrack
  <2>3. EntryHasOwner'
    BY <1>0, <1>7 DEF Untrack, TypeOK, EntryHasOwner, HoldsEntry
  <2>4. LargeOnly' /\ Alone'
    BY <1>0, <1>7 DEF Untrack, TypeOK, LargeOnly, Alone
  <2>5. Patient' => EntryKept'
    BY <1>0, <1>7 DEF Untrack, TypeOK, Alone, EntryKept, HoldsEntry
  <2> QED BY <2>1, <2>2, <2>3, <2>4, <2>5 DEF IInv
<1> QED
  BY <1>1, <1>2, <1>3, <1>4, <1>5, <1>6, <1>7 DEF Progress

(* In every reachable state the two trackers agree with the goroutines.    *)
THEOREM Invariance == Spec => []IInv
<1>1. IInv /\ [Next]_vars => IInv'
  <2> SUFFICES ASSUME IInv, [Next]_vars PROVE IInv'
    OBVIOUS
  <2>1. CASE UNCHANGED vars
    BY <2>1 DEF vars, IInv, TypeOK, EntryHasOwner, LargeCountExact,
                LargeInFlight, LargeOnly, Alone, EntryKept, HoldsEntry
  <2> QED BY <2>1, StepKeepsIInv DEF Next
<1> QED BY <1>1, InitIInv, PTL DEF Spec

(* The trackers keep their types: the counter of large requests never      *)
(* falls below zero.                                                       *)
THEOREM TypeCorrect == Spec => []TypeOK
<1>1. IInv => TypeOK
  BY DEF IInv
<1> QED BY <1>1, Invariance, PTL

(* No interleaving leaves an entry behind that nobody will delete.         *)
THEOREM EntriesOwned == Spec => []EntryHasOwner
<1>1. IInv => EntryHasOwner
  BY DEF IInv
<1> QED BY <1>1, Invariance, PTL

(* The counter of large requests never drifts.                             *)
THEOREM LargeCountCorrect == Spec => []LargeCountExact
<1>1. IInv => LargeCountExact
  BY DEF IInv
<1> QED BY <1>1, Invariance, PTL

(* Patient collectors keep their entries until their requests are over.    *)
THEOREM PatientEntriesKept ==
    ASSUME Patient
    PROVE  Spec => []EntryKept
<1>1. IInv => EntryKept
  BY DEF IInv
<1> QED BY <1>1, Invariance, PTL
=============================================================================
