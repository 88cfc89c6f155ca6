-------------------------- MODULE BatchRetryProofs --------------------------
(***************************************************************************)
(* Proofs about batchWithRetry for every number of queries, batch size,    *)
(* kind of caller and set of database faults.                              *)
(*                                                                         *)
(* The steps are grouped by what they do to the calls of sendBatch: a      *)
(* batch starts, a call returns, a call splits its batch, a call turns to  *)
(* its second half, or a call goes on (Isolate, AppendRead).  One lemma    *)
(* for each group shows that Nested and Counted survive.                   *)
(***************************************************************************)
EXTENDS BatchRetry, FiniteSetTheorems, TLAPS

(* The halves of a batch of two or more queries are smaller batches that   *)
(* have its queries between them (batch.go:119-120).                       *)
LEMMA Halves ==
    ASSUME NEW s \in Segment, Size(s) > 1
    PROVE  /\ Left(s) \in Segment /\ Right(s) \in Segment
           /\ Left(s) # s /\ Right(s) # s
           /\ Within(Left(s), s) /\ Within(Right(s), s)
           /\ ~Within(s, Left(s)) /\ ~Within(s, Right(s))
           /\ Disjoint(Left(s), Right(s))
           /\ Queries(s) = Queries(Left(s)) \cup Queries(Right(s))
           /\ Queries(Left(s)) \cap Queries(Right(s)) = {}
<1> DEFINE m == Size(s) \div 2
<1>1. /\ s = <<s[1], s[2]>>
      /\ s[1] \in 1..N /\ s[2] \in 1..N /\ s[1] < s[2]
      /\ Size(s) = s[2] - s[1] + 1
  BY NAssumption DEF Segment, Items, Size
<1>2. m \in Nat /\ m >= 1 /\ s[1] + m <= s[2]
  BY <1>1
<1> HIDE DEF m
<1>3. Left(s) = <<s[1], s[1] + m - 1>> /\ Right(s) = <<s[1] + m, s[2]>>
  BY DEF Left, Right, m
<1>4. /\ Left(s)[1] = s[1] /\ Left(s)[2] = s[1] + m - 1
      /\ Right(s)[1] = s[1] + m /\ Right(s)[2] = s[2]
  BY <1>3
<1>5. Left(s) \in Items \X Items /\ Right(s) \in Items \X Items
  BY <1>1, <1>2, <1>3, NAssumption DEF Items
<1>6. Left(s) \in Segment /\ Right(s) \in Segment
  BY <1>1, <1>2, <1>4, <1>5 DEF Segment
<1>7. /\ Queries(s) = Queries(Left(s)) \cup Queries(Right(s))
      /\ Queries(Left(s)) \cap Queries(Right(s)) = {}
  BY <1>1, <1>2, <1>4 DEF Queries
<1> QED
  BY <1>1, <1>2, <1>4, <1>6, <1>7 DEF Within, Disjoint

(* Two batches without a common query are on different sides.              *)
LEMMA SegmentFacts ==
    ASSUME NEW s \in Segment, NEW t \in Segment
    PROVE  /\ Within(s, s) /\ ~Disjoint(s, s)
           /\ Within(t, s) => ~Disjoint(s, t) /\ ~Disjoint(t, s)
           /\ Within(t, s) => Queries(t) \subseteq Queries(s)
           /\ Disjoint(s, t) <=> Disjoint(t, s)
           /\ Disjoint(s, t) <=> Queries(s) \cap Queries(t) = {}
<1>1. /\ s[1] \in Int /\ s[2] \in Int /\ s[1] <= s[2]
      /\ t[1] \in Int /\ t[2] \in Int /\ t[1] <= t[2]
  BY NAssumption DEF Segment, Items
<1>2. ASSUME Disjoint(s, t) PROVE Queries(s) \cap Queries(t) = {}
  BY <1>1, <1>2 DEF Disjoint, Queries
<1>3. ASSUME ~Disjoint(s, t) PROVE Queries(s) \cap Queries(t) # {}
  <2>1. CASE s[1] <= t[1]
    <3>1. t[1] \in Queries(s) /\ t[1] \in Queries(t)
      BY <1>1, <1>3, <2>1 DEF Disjoint, Queries
    <3> QED BY <3>1
  <2>2. CASE t[1] < s[1]
    <3>1. s[1] \in Queries(s) /\ s[1] \in Queries(t)
      BY <1>1, <1>3, <2>2 DEF Disjoint, Queries
    <3> QED BY <3>1
  <2> QED BY <1>1, <2>1, <2>2
<1> QED BY <1>1, <1>2, <1>3 DEF Within, Disjoint, Queries

(* Within is transitive, and a part of a batch meets only what it meets.   *)
LEMMA WithinTransitive ==
    ASSUME NEW s \in Segment, NEW t \in Segment, NEW u \in Segment,
           Within(t, s)
    PROVE  /\ Within(u, t) => Within(u, s)
           /\ Disjoint(s, u) => Disjoint(t, u) /\ Disjoint(u, t)
BY NAssumption DEF Segment, Items, Within, Disjoint

------------------------------------------------------------------------------
(* Nested and Counted, one lemma for each kind of step.                    *)

(* A new batch starts behind every call in flight.                         *)
LEMMA StartKeepsCalls ==
    ASSUME TypeOK, Nested, Counted, Shapes,
           NEW b \in Segment, b[1] = head,
           call' = [call EXCEPT ![b] = "send"], wg' = wg + 1
    PROVE  Nested' /\ Counted'
<1>1. b \notin Live /\ call[b] # "left"
  BY SegmentFacts DEF Shapes, Live, Running, Segment, Items
<1>2. Live' = Live \cup {b} /\ FirstHalves' = FirstHalves
  BY <1>1 DEF TypeOK, Live, FirstHalves, Running
<1>3. \A s \in Live : Disjoint(s, b) /\ Disjoint(b, s)
  BY DEF Shapes, Disjoint, Live
<1>4. \A s, t \in Live : RetryOf(t, s) => RetryOf(t, s)'
  BY <1>1, <1>2 DEF RetryOf, Live, TypeOK
<1>5. Nested'
  BY <1>2, <1>3, <1>4 DEF Nested
<1>6. Counted'
  <2>1. /\ Cardinality(Live) \in Nat /\ Cardinality(FirstHalves) \in Nat
        /\ IsFiniteSet(Live \cup {b})
        /\ Cardinality(Live \cup {b}) = Cardinality(Live) + 1
    BY <1>1, FS_AddElement, FS_CardinalityType DEF Counted
  <2> QED BY <1>2, <2>1 DEF Counted
<1> QED BY <1>5, <1>6

(* A call returns that no retry is running for.                            *)
LEMMA ReturnKeepsCalls ==
    ASSUME TypeOK, Nested, Counted, Shapes,
           NEW c \in Segment, NEW r \in Returned,
           \/ call[c] \in {"send", "append"}
           \/ call[c] = "right" /\ call[Right(c)] \in Returned,
           Return(c, r)
    PROVE  /\ Nested' /\ Counted'
           /\ Live' = Live \ {c} /\ c \in Live /\ wg' \in Nat
<1>1. c \in Live /\ call[c] # "left"
  BY DEF Live, Running
<1>2. Live' = Live \ {c} /\ FirstHalves' = FirstHalves
  BY <1>1 DEF TypeOK, Live, FirstHalves, Running, Returned, Return
<1>3. \A t \in Live : ~RetryOf(t, c)
  BY <1>1 DEF RetryOf, Live, Running, Returned
<1>4. ASSUME NEW s \in Live', NEW t \in Live', s # t, RetryOf(t, s)
      PROVE  RetryOf(t, s)'
  <2>1. s \in Segment /\ t \in Segment /\ s \in Live /\ t \in Live
        /\ s # c /\ t # c /\ call'[s] = call[s]
    BY <1>2, <1>4 DEF Live, TypeOK, Return
  <2>2. Size(s) > 1
    BY <1>4, <2>1 DEF RetryOf, Shapes
  <2>3. ASSUME NEW h \in Live, h = Left(s) \/ h = Right(s), Within(t, h)
        PROVE  h \in Live'
    <3>1. SUFFICES ASSUME h = c PROVE FALSE
      BY <1>2, <2>3
    <3>2. ~Disjoint(c, t)
      BY <2>1, <2>3, <3>1, SegmentFacts
    <3>3. RetryOf(c, t)
      BY <1>1, <1>3, <2>1, <3>2 DEF Nested
    <3>4. /\ Size(t) > 1
          /\ Within(c, Left(t)) \/ Within(c, Right(t))
      BY <2>1, <3>3 DEF RetryOf, Shapes
    <3>5. ~Within(t, Left(t)) /\ ~Within(t, Right(t))
      BY <2>1, <3>4, Halves
    <3>6. Left(t) \in Segment /\ Right(t) \in Segment
      BY <2>1, <3>4, Halves
    <3> QED BY <2>1, <2>3, <3>1, <3>4, <3>5, <3>6, WithinTransitive
  <2> QED BY <1>4, <2>1, <2>3 DEF RetryOf
<1>5. Nested'
  BY <1>2, <1>4 DEF Nested
<1>6. Counted' /\ wg' \in Nat
  <2>1. /\ Cardinality(Live) \in Nat /\ Cardinality(FirstHalves) \in Nat
        /\ IsFiniteSet(Live') /\ Cardinality(Live') = Cardinality(Live) - 1
    BY <1>1, <1>2, FS_RemoveElement, FS_CardinalityType DEF Counted
  <2>2. Cardinality(Live') \in Nat
    BY <2>1, FS_CardinalityType
  <2> QED BY <1>2, <2>1, <2>2 DEF Counted, Return
<1> QED BY <1>1, <1>2, <1>5, <1>6

(* A call goes on without a retry.                                         *)
LEMMA GoOnKeepsCalls ==
    ASSUME TypeOK, Nested, Counted,
           NEW c \in Segment, call[c] \in {"send", "report"},
           call' = [call EXCEPT ![c] = "report"]
             \/ call' = [call EXCEPT ![c] = "append"],
           wg' = wg
    PROVE  Nested' /\ Counted' /\ Live' = Live
<1>1. Live' = Live /\ FirstHalves' = FirstHalves
  BY DEF TypeOK, Live, FirstHalves, Running
<1>2. \A s, t \in Live : RetryOf(t, s) => RetryOf(t, s)'
  BY <1>1 DEF RetryOf, Live, TypeOK
<1> QED BY <1>1, <1>2 DEF Nested, Counted

(* A call splits its batch and sends the first half.                       *)
LEMMA SplitKeepsCalls ==
    ASSUME TypeOK, Nested, Counted,
           NEW c \in Segment, call[c] = "send", Size(c) > 1,
           wg' = wg + 2,
           call' = [call EXCEPT ![c] = "left", ![Left(c)] = "send"]
    PROVE  /\ Nested' /\ Counted' /\ Live' = Live \cup {Left(c)}
           /\ Left(c) \notin Live /\ c \in Live
<1> DEFINE h == Left(c)
<1>1. /\ h \in Segment /\ h # c /\ Within(h, c) /\ ~Within(c, h)
  BY Halves
<1> HIDE DEF h
<1>2. c \in Live
  BY DEF Live, Running
<1>3. h \notin Live
  <2>1. SUFFICES ASSUME h \in Live PROVE FALSE
    OBVIOUS
  <2>2. RetryOf(c, h)
    BY <1>1, <1>2, <2>1, SegmentFacts DEF Nested, RetryOf
  <2>3. \E k \in Segment : k = Left(h) \/ k = Right(h)
    BY <2>2 DEF RetryOf, Live
  <2> QED BY <1>1, <2>2 DEF RetryOf, Within, Left, Right, Segment, Items, Size
<1>4. call' = [call EXCEPT ![c] = "left", ![h] = "send"]
  BY DEF h
<1>5. /\ \A s \in Segment : s # c /\ s # h => call'[s] = call[s]
      /\ call'[c] = "left" /\ call'[h] = "send"
  BY <1>1, <1>4 DEF TypeOK
<1>6. Live' = Live \cup {h} /\ FirstHalves' = FirstHalves \cup {c}
  BY <1>1, <1>2, <1>3, <1>5 DEF Live, FirstHalves, Running
<1>7. \A t \in Live : ~RetryOf(t, c)
  BY DEF RetryOf
<1>8. ASSUME NEW s \in Live, NEW t \in Live, RetryOf(t, s)
      PROVE  RetryOf(t, s)'
  BY <1>3, <1>5, <1>6, <1>7, <1>8 DEF RetryOf, Live
<1>9. RetryOf(h, c)'
  BY <1>1, <1>5, <1>6, SegmentFacts DEF RetryOf, h
<1>10. ASSUME NEW t \in Live, t # c
       PROVE  Disjoint(t, h) \/ RetryOf(h, t)'
  <2>1. CASE Disjoint(c, t)
    BY <1>1, <2>1, WithinTransitive DEF Live
  <2>2. CASE RetryOf(c, t)
    <3>1. RetryOf(h, t)
      BY <1>1, <2>2, WithinTransitive DEF RetryOf, Live
    <3> QED BY <1>3, <1>5, <1>6, <1>10, <3>1 DEF RetryOf, Live
  <2> QED BY <1>2, <1>7, <1>10, <2>1, <2>2 DEF Nested
<1>11. Nested'
  <2>1. \A t \in Live : Disjoint(t, h) <=> Disjoint(h, t)
    BY <1>1, SegmentFacts DEF Live
  <2> QED BY <1>2, <1>6, <1>8, <1>9, <1>10, <2>1 DEF Nested
<1>12. Counted'
  <2>1. c \notin FirstHalves
    BY DEF FirstHalves
  <2>2. /\ Cardinality(Live) \in Nat /\ Cardinality(FirstHalves) \in Nat
        /\ IsFiniteSet(Live \cup {h}) /\ IsFiniteSet(FirstHalves \cup {c})
        /\ Cardinality(Live \cup {h}) = Cardinality(Live) + 1
        /\ Cardinality(FirstHalves \cup {c}) = Cardinality(FirstHalves) + 1
    BY <1>3, <2>1, FS_AddElement, FS_CardinalityType DEF Counted
  <2> QED BY <1>6, <2>2 DEF Counted
<1> QED BY <1>2, <1>3, <1>6, <1>11, <1>12 DEF h

(* A call turns from its first half to its second.                         *)
LEMMA TurnKeepsCalls ==
    ASSUME TypeOK, Nested, Counted, Shapes,
           NEW c \in Segment, call[c] = "left", call[Left(c)] \in Returned,
           wg' = wg,
           call' = [call EXCEPT ![c] = "right", ![Right(c)] = "send"]
    PROVE  /\ Nested' /\ Counted' /\ Live' = Live \cup {Right(c)}
           /\ Right(c) \notin Live /\ c \in Live
<1> DEFINE h == Right(c)
<1>0. Size(c) > 1
  BY DEF Shapes
<1>1. /\ h \in Segment /\ h # c /\ Within(h, c) /\ ~Within(c, h)
  BY <1>0, Halves
<1> HIDE DEF h
<1>2. c \in Live
  BY DEF Live, Running
<1>3. \A t \in Live : ~RetryOf(t, c)
  BY DEF RetryOf, Live, Running, Returned
<1>4. h \notin Live
  <2>1. SUFFICES ASSUME h \in Live PROVE FALSE
    OBVIOUS
  <2>2. RetryOf(c, h)
    BY <1>1, <1>2, <1>3, <2>1, SegmentFacts DEF Nested
  <2> QED BY <1>1, <2>2 DEF RetryOf, Within, Left, Right, Segment, Items, Size
<1>5. call' = [call EXCEPT ![c] = "right", ![h] = "send"]
  BY DEF h
<1>6. /\ \A s \in Segment : s # c /\ s # h => call'[s] = call[s]
      /\ call'[c] = "right" /\ call'[h] = "send"
  BY <1>1, <1>5 DEF TypeOK
<1>7. Live' = Live \cup {h} /\ FirstHalves' = FirstHalves \ {c}
  <2>1. call[h] # "left"
    BY <1>1, <1>4 DEF Live, Running
  <2> QED BY <1>1, <1>2, <1>4, <1>6, <2>1 DEF Live, FirstHalves, Running
<1>8. ASSUME NEW s \in Live, NEW t \in Live, RetryOf(t, s)
      PROVE  RetryOf(t, s)'
  BY <1>3, <1>4, <1>6, <1>7, <1>8 DEF RetryOf, Live
<1>9. RetryOf(h, c)'
  BY <1>1, <1>6, <1>7, SegmentFacts DEF RetryOf, h
<1>10. ASSUME NEW t \in Live, t # c
       PROVE  Disjoint(t, h) \/ RetryOf(h, t)'
  <2>1. CASE Disjoint(c, t)
    BY <1>1, <2>1, WithinTransitive DEF Live
  <2>2. CASE RetryOf(c, t)
    <3>1. RetryOf(h, t)
      BY <1>1, <2>2, WithinTransitive DEF RetryOf, Live
    <3> QED BY <1>4, <1>6, <1>7, <1>10, <3>1 DEF RetryOf, Live
  <2> QED BY <1>2, <1>3, <1>10, <2>1, <2>2 DEF Nested
<1>11. Nested'
  <2>1. \A t \in Live : Disjoint(t, h) <=> Disjoint(h, t)
    BY <1>1, SegmentFacts DEF Live
  <2> QED BY <1>2, <1>7, <1>8, <1>9, <1>10, <2>1 DEF Nested
<1>12. Counted'
  <2>1. c \in FirstHalves
    BY DEF FirstHalves
  <2>2. /\ Cardinality(Live) \in Nat /\ Cardinality(FirstHalves) \in Nat
        /\ IsFiniteSet(Live \cup {h}) /\ IsFiniteSet(FirstHalves \ {c})
        /\ Cardinality(Live \cup {h}) = Cardinality(Live) + 1
        /\ Cardinality(FirstHalves \ {c}) = Cardinality(FirstHalves) - 1
    BY <1>4, <2>1, FS_AddElement, FS_RemoveElement, FS_CardinalityType
       DEF Counted
  <2> QED BY <1>7, <2>2 DEF Counted
<1> QED BY <1>2, <1>4, <1>7, <1>11, <1>12 DEF h

------------------------------------------------------------------------------
(* Each query that is still to be settled has one owner.                   *)

LEMMA OwnsItsQueries ==
    ASSUME Shapes, head \in Int,
           NEW s \in Segment, NEW i \in Items, Owns(s, i)
    PROVE  s \in Live /\ i \in Queries(s) /\ i < head
<1>1. s \in Live /\ s[2] < head /\ (call[s] = "left" => Size(s) > 1)
  BY DEF Owns, Live, Running, Shapes
<1>2. i \in Queries(s)
  BY <1>1, Halves DEF Owns
<1>3. i <= s[2] /\ i \in Int /\ s[2] \in Int
  BY <1>2, NAssumption DEF Queries, Segment, Items
<1> QED
  BY <1>1, <1>2, <1>3

LEMMA OneOwner ==
    ASSUME Nested, Shapes, head \in Int, NEW s \in Segment, NEW t \in Segment, s # t,
           NEW i \in Items, Owns(s, i)
    PROVE  ~Owns(t, i)
<1> SUFFICES ASSUME Owns(t, i) PROVE FALSE
  OBVIOUS
<1>1. /\ s \in Live /\ t \in Live
      /\ i \in Queries(s) /\ i \in Queries(t)
  BY OwnsItsQueries
<1>2. ~Disjoint(s, t)
  BY <1>1, SegmentFacts
<1>3. ASSUME NEW u \in Live, NEW w \in Live, Owns(u, i), Owns(w, i),
             RetryOf(w, u)
      PROVE  FALSE
  <2>1. call[u] = "left" /\ Within(w, Left(u)) /\ i \in Queries(Right(u))
    BY <1>3 DEF RetryOf, Owns
  <2>2. u \in Segment /\ w \in Segment /\ Size(u) > 1
    BY <2>1 DEF Live, Shapes
  <2>3. i \in Queries(Left(u))
    BY <1>3, <2>1, <2>2, Halves, OwnsItsQueries, SegmentFacts
  <2> QED BY <2>1, <2>2, <2>3, Halves
<1> QED BY <1>1, <1>2, <1>3 DEF Nested

(* What a call that settles its batch does to the ownership of queries.    *)
LEMMA SettleKeepsOwnership ==
    ASSUME TypeOK, Nested, Shapes, Ownership, Phases,
           NEW c \in Segment, call[c] = "send",
           NEW outcome \in {"applied", "failed", "lost"}, SetFate(c, outcome),
           NEW r \in Returned \cup {"report"}, call' = [call EXCEPT ![c] = r],
           UNCHANGED <<count, head>>
    PROVE  Ownership'
<1>1. \A i \in Queries(c) : i \in Items /\ Owns(c, i)
  BY NAssumption DEF Owns, Queries, Segment, Items
<1>2. \A i \in Queries(c) : fate[i] = "pending" /\ i <= count
  BY <1>1, OwnsItsQueries DEF Ownership, Phases, TypeOK, Items
<1>3. \A s \in Segment, i \in Items :
         Owns(s, i)' <=> Owns(s, i) /\ i \notin Queries(c)
  <2> SUFFICES ASSUME NEW s \in Segment, NEW i \in Items
               PROVE  Owns(s, i)' <=> Owns(s, i) /\ i \notin Queries(c)
    OBVIOUS
  <2>1. CASE s = c
    BY <2>1 DEF Owns, TypeOK, Returned
  <2>2. CASE s # c
    <3>1. Owns(s, i)' <=> Owns(s, i)
      BY <2>2 DEF Owns, TypeOK
    <3>2. Owns(s, i) => i \notin Queries(c)
      BY <1>1, <2>2, OneOwner DEF TypeOK
    <3> QED BY <3>1, <3>2
  <2> QED BY <2>1, <2>2
<1>4. \A i \in Queries(c) : i \notin head..count
  BY <1>1, OwnsItsQueries DEF TypeOK
<1> QED BY <1>2, <1>3, <1>4 DEF Ownership, SetFate

------------------------------------------------------------------------------
(* The inductive invariant.                                                *)

LEMMA InitIInv == Init => IInv
<1> SUFFICES ASSUME Init PROVE IInv
  OBVIOUS
<1>1. Live = {} /\ FirstHalves = {}
  BY DEF Init, Live, FirstHalves, Running
<1>2. TypeOK
  <2>1. /\ call \in [Segment -> {"none"} \cup Running \cup Returned]
        /\ snapshot \in [Items -> SUBSET Items]
        /\ fate \in [Items -> {"new", "pending", "applied", "failed", "lost"}]
    BY DEF Init
  <2>2. count \in 0..N /\ head \in 1..(N + 1) /\ wg \in Nat
    BY NAssumption DEF Init
  <2> QED BY <2>1, <2>2 DEF Init, TypeOK
<1>3. Counted
  BY <1>1, FS_EmptySet DEF Counted, Init
<1>4. Ownership
  BY NAssumption DEF Ownership, Init, Owns, Items
<1>5. Shapes /\ Phases /\ LossNoticed /\ Nested
  BY <1>1 DEF Shapes, Phases, LossNoticed, Nested, Init
<1> QED BY <1>2, <1>3, <1>4, <1>5 DEF IInv

LEMMA CallerKeepsIInv == IInv /\ CallerStep => IInv'
<1> SUFFICES ASSUME IInv, CallerStep PROVE IInv'
  OBVIOUS
<1> USE NAssumption, AbandonsAssumption
<1>0. /\ TypeOK /\ Nested /\ Counted /\ Ownership /\ Shapes /\ Phases
      /\ LossNoticed
  BY DEF IInv
<1>t. count \in Int /\ head \in Int /\ count + 1 \in Int /\ count + 2 \in Int
  BY <1>0 DEF TypeOK
<1>1. CASE QueueItem
  <2>1. call' = call /\ wg' = wg /\ Live' = Live
    BY <1>1 DEF QueueItem, Live
  <2>2. TypeOK'
    BY <1>0, <1>1 DEF QueueItem, TypeOK, Items
  <2>3. Nested' /\ Counted'
    BY <1>0, <2>1 DEF Nested, Counted, FirstHalves, RetryOf
  <2>4. Ownership'
    <3>1. \A s \in Segment, i \in Items : Owns(s, i)' <=> Owns(s, i)
      BY <2>1 DEF Owns
    <3>2. count + 1 \in Items
      BY <1>0, <1>1 DEF QueueItem, TypeOK, Items
    <3> QED BY <1>0, <1>1, <3>1, <3>2
               DEF QueueItem, Ownership, TypeOK, Items, Phases
  <2>5. Shapes' /\ Phases' /\ LossNoticed'
    BY <1>0, <1>1, <2>1, <1>t
       DEF QueueItem, Shapes, Phases, LossNoticed, TypeOK
  <2> QED BY <2>2, <2>3, <2>4, <2>5 DEF IInv
<1>2. CASE QueueAndSend
  <2> DEFINE b == <<head, count + 1>>
  <2>1. b \in Segment /\ b[1] = head /\ b[2] = count + 1
    BY <1>0, <1>2 DEF QueueAndSend, Segment, Items, TypeOK, Phases
  <2> HIDE DEF b
  <2>2. call' = [call EXCEPT ![b] = "send"] /\ wg' = wg + 1
        /\ count' = count + 1 /\ head' = count + 2
    BY <1>2 DEF QueueAndSend, b
  <2>3. Nested' /\ Counted'
    BY <1>0, <2>1, <2>2, StartKeepsCalls
  <2>4. TypeOK'
    <3>1. call' \in [Segment -> {"none"} \cup Running \cup Returned]
      BY <1>0, <2>1, <2>2 DEF TypeOK, Running
    <3>2. head' \in 1..(N + 1) /\ count' \in 0..N /\ wg' \in Nat
      BY <1>0, <1>2, <2>2 DEF QueueAndSend, TypeOK
    <3>3. fate' \in [Items -> {"new", "pending", "applied", "failed", "lost"}]
      BY <1>0, <1>2 DEF QueueAndSend, TypeOK, Items
    <3> QED BY <1>0, <1>2, <3>1, <3>2, <3>3 DEF QueueAndSend, TypeOK
  <2>5. b \notin Live
    BY <1>0, <1>t, <2>1 DEF Shapes, Segment, Items
  <2>6. Ownership'
    <3>1. \A s \in Segment, i \in Items :
            Owns(s, i)' <=> Owns(s, i) \/ (s = b /\ i \in Queries(b))
      BY <1>0, <2>1, <2>2, <2>5 DEF Owns, TypeOK, Live, Running
    <3>2. count + 1 \in Items
      BY <1>0, <1>2 DEF QueueAndSend, TypeOK, Items
    <3>3. Queries(b) = head..(count + 1)
      BY <2>1 DEF Queries
    <3> QED BY <1>0, <1>2, <1>t, <2>1, <2>2, <3>1, <3>2, <3>3
               DEF QueueAndSend, Ownership, TypeOK, Items, Phases
  <2>7. Shapes' /\ Phases' /\ LossNoticed'
    <3>1. Live' = Live \cup {b}
      BY <1>0, <2>1, <2>2 DEF Live, Running, TypeOK
    <3>2. Shapes'
      <4> SUFFICES ASSUME NEW s \in Segment
                   PROVE  /\ call'[s] \in {"left", "right"} => Size(s) > 1
                          /\ call'[s] \in {"report", "append"} => Size(s) = 1
                          /\ s \in Live' => s[2] < head'
        BY DEF Shapes
      <4>1. s[2] \in Int
        BY DEF Segment, Items
      <4> QED BY <1>0, <1>t, <2>1, <2>2, <3>1, <4>1 DEF Shapes, TypeOK, Phases
    <3> QED BY <1>0, <1>2, <1>t, <3>2
               DEF QueueAndSend, Phases, LossNoticed, TypeOK
  <2> QED BY <2>3, <2>4, <2>6, <2>7 DEF IInv
<1>3. CASE QueueRefused
  <2>1. call' = call /\ wg' = wg /\ Live' = Live /\ FirstHalves' = FirstHalves
    BY <1>3 DEF QueueRefused, Live, FirstHalves
  <2>2. TypeOK'
    BY <1>0, <1>3 DEF QueueRefused, TypeOK
  <2>3. Nested' /\ Counted' /\ Ownership' /\ Shapes' /\ LossNoticed'
    BY <1>0, <1>3, <2>1 DEF QueueRefused, Nested, Counted, RetryOf, Ownership,
                            Owns, Shapes, LossNoticed
  <2>4. Phases'
    BY <1>0, <1>3 DEF QueueRefused, Phases
  <2> QED BY <2>2, <2>3, <2>4 DEF IInv
<1>4. CASE Flush
  <2> DEFINE b == <<head, count>>
  <2>1. b \in Segment /\ b[1] = head /\ b[2] = count
    BY <1>0, <1>4 DEF Flush, Segment, Items, TypeOK
  <2> HIDE DEF b
  <2>2. call' = [call EXCEPT ![b] = "send"] /\ wg' = wg + 1
        /\ head' = count + 1 /\ count' = count /\ fate' = fate
    BY <1>4 DEF Flush, b
  <2>3. Nested' /\ Counted'
    BY <1>0, <2>1, <2>2, StartKeepsCalls
  <2>4. TypeOK'
    <3>1. call' \in [Segment -> {"none"} \cup Running \cup Returned]
      BY <1>0, <2>1, <2>2 DEF TypeOK, Running
    <3>2. head' \in 1..(N + 1) /\ count' \in 0..N /\ wg' \in Nat
      BY <1>0, <1>4, <2>2 DEF Flush, TypeOK
    <3>3. fate' \in [Items -> {"new", "pending", "applied", "failed", "lost"}]
      BY <1>0, <1>4 DEF Flush, TypeOK, Items
    <3> QED BY <1>0, <1>4, <3>1, <3>2, <3>3 DEF Flush, TypeOK
  <2>5. b \notin Live
    BY <1>0, <1>t, <2>1 DEF Shapes, Segment, Items
  <2>6. Ownership'
    <3>1. \A s \in Segment, i \in Items :
            Owns(s, i)' <=> Owns(s, i) \/ (s = b /\ i \in Queries(b))
      BY <1>0, <2>1, <2>2, <2>5 DEF Owns, TypeOK, Live, Running
    <3>2. Queries(b) = head..count
      BY <2>1 DEF Queries
    <3> QED BY <1>0, <1>t, <2>1, <2>2, <3>1, <3>2 DEF Ownership, Items
  <2>7. Shapes' /\ Phases' /\ LossNoticed'
    <3>1. Live' = Live \cup {b}
      BY <1>0, <2>1, <2>2 DEF Live, Running, TypeOK
    <3>2. Shapes'
      <4> SUFFICES ASSUME NEW s \in Segment
                   PROVE  /\ call'[s] \in {"left", "right"} => Size(s) > 1
                          /\ call'[s] \in {"report", "append"} => Size(s) = 1
                          /\ s \in Live' => s[2] < head'
        BY DEF Shapes
      <4>1. s[2] \in Int
        BY DEF Segment, Items
      <4> QED BY <1>0, <1>t, <2>1, <2>2, <3>1, <4>1 DEF Shapes, TypeOK, Phases
    <3> QED BY <1>0, <1>4, <1>t, <3>2
               DEF Flush, LoopEnded, Phases, LossNoticed, TypeOK
  <2> QED BY <2>3, <2>4, <2>6, <2>7 DEF IInv
<1>5. CASE FlushNothing
  <2>1. call' = call /\ wg' = wg /\ Live' = Live /\ FirstHalves' = FirstHalves
    BY <1>5 DEF FlushNothing, Live, FirstHalves
  <2>2. TypeOK'
    BY <1>0, <1>5 DEF FlushNothing, TypeOK
  <2>3. Nested' /\ Counted' /\ Ownership' /\ Shapes' /\ LossNoticed'
    BY <1>0, <1>5, <2>1 DEF FlushNothing, Nested, Counted, RetryOf, Ownership,
                            Owns, Shapes, LossNoticed
  <2>4. Phases'
    BY <1>0, <1>5 DEF FlushNothing, LoopEnded, Phases
  <2> QED BY <2>2, <2>3, <2>4 DEF IInv
<1>6. CASE Wait
  <2>1. call' = call /\ wg' = wg /\ Live' = Live /\ FirstHalves' = FirstHalves
    BY <1>6 DEF Wait, Live, FirstHalves
  <2>2. TypeOK'
    BY <1>0, <1>6 DEF Wait, TypeOK
  <2>3. Nested' /\ Counted' /\ Ownership' /\ Shapes' /\ LossNoticed'
    BY <1>0, <1>6, <2>1 DEF Wait, Nested, Counted, RetryOf, Ownership,
                            Owns, Shapes, LossNoticed
  <2>4. Live = {}
    <3>1. Cardinality(Live) \in Nat /\ Cardinality(FirstHalves) \in Nat
      BY <1>0, FS_CardinalityType DEF Counted
    <3>2. Cardinality(Live) = 0
      BY <1>0, <1>6, <3>1 DEF Counted, Wait
    <3> QED BY <1>0, <3>2, FS_EmptySet DEF Counted
  <2>5. Phases'
    BY <1>0, <1>6, <2>1, <2>4 DEF Wait, Phases
  <2> QED BY <2>2, <2>3, <2>5 DEF IInv
<1> QED BY <1>1, <1>2, <1>3, <1>4, <1>5, <1>6 DEF CallerStep

(* The parts of the invariant that depend on the calls only through Live   *)
(* and the shape of the batches, for a call that neither starts nor splits.*)
LEMMA SameShapes ==
    ASSUME TypeOK, Shapes, Phases, NEW c \in Segment, c \in Live,
           NEW r \in Returned \cup {"report", "append"},
           r \in {"report", "append"} => Size(c) = 1,
           call' = [call EXCEPT ![c] = r],
           Live' \subseteq Live,
           connError => connError',
           UNCHANGED <<count, head, caller, queueErr, result>>
    PROVE  Shapes' /\ Phases'
<1>1. Shapes'
  BY DEF Shapes, TypeOK, Returned
<1>2. Phases'
  BY DEF Phases
<1> QED BY <1>1, <1>2

LEMMA SendKeepsIInv ==
    ASSUME IInv, NEW c \in Segment, SendStep(c)
    PROVE  IInv'
<1> USE NAssumption, AbandonsAssumption
<1>0. /\ TypeOK /\ Nested /\ Counted /\ Ownership /\ Shapes /\ Phases
      /\ LossNoticed
  BY DEF IInv
<1>c. call[c] \in Running => c \in Live
  BY DEF Live
<1>1. CASE SendOk(c)
  <2>1. /\ call[c] = "send" /\ call' = [call EXCEPT ![c] = "nil"]
        /\ Return(c, "nil") /\ SetFate(c, "applied")
        /\ UNCHANGED <<poison, count, head, caller, queueErr, result,
                       connError, errors, snapshot>>
    BY <1>1 DEF SendOk, Return
  <2>2. Nested' /\ Counted' /\ Live' \subseteq Live /\ c \in Live /\ wg' \in Nat
    BY <1>0, <2>1, ReturnKeepsCalls DEF Returned
  <2>3. TypeOK'
    BY <1>0, <2>1, <2>2 DEF TypeOK, SetFate, Returned
  <2>4. Ownership'
    BY <1>0, <2>1, SettleKeepsOwnership DEF Returned
  <2>5. Shapes' /\ Phases'
    BY <1>0, <2>1, <2>2, SameShapes DEF Returned
  <2>6. LossNoticed'
    BY <1>0, <2>1 DEF LossNoticed, SetFate
  <2> QED BY <2>2, <2>3, <2>4, <2>5, <2>6 DEF IInv
<1>2. ASSUME NEW fault \in {"conn", "close"}, CloseFails(c, fault)
      PROVE  IInv'
  <2>1. PICK outcome \in {"applied", "lost"} :
          /\ call[c] = "send" /\ call' = [call EXCEPT ![c] = "err"]
          /\ Return(c, "err") /\ SetFate(c, outcome)
          /\ fault \in Faults
          /\ connError' = (connError \/ Unreachable(fault))
          /\ UNCHANGED <<poison, count, head, caller, queueErr, result,
                         errors, snapshot>>
    BY <1>2 DEF CloseFails, Return
  <2>2. Nested' /\ Counted' /\ Live' \subseteq Live /\ c \in Live /\ wg' \in Nat
    BY <1>0, <2>1, ReturnKeepsCalls DEF Returned
  <2>3. TypeOK'
    <3>1. connError' \in BOOLEAN
      BY <1>0, <2>1 DEF TypeOK, Unreachable
    <3> QED BY <1>0, <2>1, <2>2, <3>1 DEF TypeOK, SetFate, Returned
  <2>4. Ownership'
    BY <1>0, <2>1, SettleKeepsOwnership DEF Returned
  <2>5. Shapes' /\ Phases'
    BY <1>0, <2>1, <2>2, SameShapes DEF Returned
  <2>6. LossNoticed'
    <3>1. connError' \/ "close" \in Faults
      BY <1>2, <2>1 DEF Unreachable
    <3> QED BY <3>1 DEF LossNoticed
  <2> QED BY <2>2, <2>3, <2>4, <2>5, <2>6 DEF IInv
<1>3. CASE Isolate(c)
  <2>1. /\ call[c] = "send" /\ call' = [call EXCEPT ![c] = "report"]
        /\ Size(c) = 1 /\ SetFate(c, "failed") /\ wg' = wg
        /\ UNCHANGED <<poison, count, head, caller, queueErr, result,
                       connError, errors, snapshot>>
    BY <1>3 DEF Isolate, ExecFails
  <2>2. Nested' /\ Counted' /\ Live' \subseteq Live /\ c \in Live
    BY <1>0, <1>c, <2>1, GoOnKeepsCalls DEF Running
  <2>3. TypeOK'
    BY <1>0, <2>1 DEF TypeOK, SetFate, Running
  <2>4. Ownership'
    BY <1>0, <2>1, SettleKeepsOwnership
  <2>5. Shapes' /\ Phases'
    BY <1>0, <2>1, <2>2, SameShapes
  <2>6. LossNoticed'
    BY <1>0, <2>1 DEF LossNoticed, SetFate
  <2> QED BY <2>2, <2>3, <2>4, <2>5, <2>6 DEF IInv
<1>4. CASE AppendRead(c)
  <2>1. /\ call[c] = "report" /\ call' = [call EXCEPT ![c] = "append"]
        /\ snapshot' = [snapshot EXCEPT ![c[1]] = errors] /\ wg' = wg
        /\ UNCHANGED <<poison, count, head, caller, queueErr, result,
                       connError, fate, errors>>
    BY <1>4 DEF AppendRead
  <2>2. Nested' /\ Counted' /\ Live' \subseteq Live /\ c \in Live
    BY <1>0, <1>c, <2>1, GoOnKeepsCalls DEF Running
  <2>3. TypeOK'
    BY <1>0, <2>1 DEF TypeOK, Running
  <2>4. Ownership'
    <3>1. \A s \in Segment, i \in Items : Owns(s, i)' <=> Owns(s, i)
      BY <1>0, <2>1 DEF Owns, TypeOK
    <3> QED BY <1>0, <2>1, <3>1 DEF Ownership
  <2>5. Shapes' /\ Phases'
    BY <1>0, <2>1, <2>2, SameShapes DEF Shapes
  <2>6. LossNoticed'
    BY <1>0, <2>1 DEF LossNoticed
  <2> QED BY <2>2, <2>3, <2>4, <2>5, <2>6 DEF IInv
<1>5. CASE AppendWrite(c)
  <2>1. /\ call[c] = "append" /\ call' = [call EXCEPT ![c] = "nil"]
        /\ Return(c, "nil")
        /\ errors' = snapshot[c[1]] \cup {c[1]}
        /\ snapshot' = [snapshot EXCEPT ![c[1]] = {}]
        /\ UNCHANGED <<poison, count, head, caller, queueErr, result,
                       connError, fate>>
    BY <1>5 DEF AppendWrite, Return
  <2>2. Nested' /\ Counted' /\ Live' \subseteq Live /\ c \in Live /\ wg' \in Nat
    BY <1>0, <2>1, ReturnKeepsCalls DEF Returned
  <2>3. TypeOK'
    <3>1. c[1] \in Items
      BY DEF Segment
    <3> QED BY <1>0, <2>1, <2>2, <3>1 DEF TypeOK, Returned
  <2>4. Ownership'
    <3>1. \A s \in Segment, i \in Items : Owns(s, i)' <=> Owns(s, i)
      BY <1>0, <2>1 DEF Owns, TypeOK
    <3> QED BY <1>0, <2>1, <3>1 DEF Ownership
  <2>5. Shapes' /\ Phases'
    BY <1>0, <2>1, <2>2, SameShapes DEF Returned
  <2>6. LossNoticed'
    BY <1>0, <2>1 DEF LossNoticed
  <2> QED BY <2>2, <2>3, <2>4, <2>5, <2>6 DEF IInv
<1>6. CASE Split(c)
  <2> DEFINE h == Left(c)
  <2>1. /\ call[c] = "send" /\ Size(c) > 1 /\ wg' = wg + 2
        /\ call' = [call EXCEPT ![c] = "left", ![h] = "send"]
        /\ UNCHANGED <<poison, count, head, caller, queueErr, result,
                       connError, fate, errors, snapshot>>
    BY <1>6 DEF Split, ExecFails
  <2>2. /\ Nested' /\ Counted' /\ Live' = Live \cup {h}
        /\ h \notin Live /\ c \in Live
    BY <1>0, <2>1, SplitKeepsCalls
  <2>3. /\ h \in Segment /\ h # c
        /\ h[2] <= c[2] /\ h[2] \in Int /\ c[2] \in Int
    BY <2>1, Halves DEF Within, Segment, Items
  <2>4. \A i \in Items : i \in Queries(c) <=>
                           i \in Queries(h) \/ i \in Queries(Right(c))
    BY <2>1, Halves
  <2> HIDE DEF h
  <2>5. TypeOK'
    BY <1>0, <2>1, <2>3 DEF TypeOK, Running
  <2>6. Ownership'
    <3>1. \A i \in Items : (\E s \in Segment : Owns(s, i))'
                             <=> (\E s \in Segment : Owns(s, i))
      <4> SUFFICES ASSUME NEW i \in Items
                   PROVE  (\E s \in Segment : Owns(s, i))'
                            <=> (\E s \in Segment : Owns(s, i))
        OBVIOUS
      <4>1. \A s \in Segment \ {c, h} : Owns(s, i)' <=> Owns(s, i)
        BY <1>0, <2>1, <2>3 DEF Owns, TypeOK
      <4>2. ~Owns(h, i)
        BY <2>2, <2>3 DEF Owns, Live, Running
      <4>3. Owns(c, i) <=> Owns(c, i)' \/ Owns(h, i)'
        BY <1>0, <2>1, <2>3, <2>4 DEF Owns, TypeOK
      <4> QED BY <2>3, <4>1, <4>2, <4>3
    <3> QED BY <1>0, <2>1, <3>1 DEF Ownership
  <2>7. Shapes' /\ Phases' /\ LossNoticed'
    <3>1. head \in Int /\ c[2] < head
      BY <1>0, <2>2 DEF Shapes, TypeOK
    <3>2. Shapes'
      BY <1>0, <2>1, <2>2, <2>3, <3>1 DEF Shapes, TypeOK
    <3> QED BY <1>0, <2>1, <3>2, <2>2 DEF Phases, LossNoticed
  <2> QED BY <2>2, <2>5, <2>6, <2>7 DEF IInv
<1>7. CASE LeftDone(c)
  <2> DEFINE h == Right(c)
  <2>1. /\ call[c] = "left" /\ call[Left(c)] \in Returned /\ wg' = wg
        /\ call' = [call EXCEPT ![c] = "right", ![h] = "send"]
        /\ UNCHANGED <<poison, count, head, caller, queueErr, result,
                       connError, fate, errors, snapshot>>
    BY <1>7 DEF LeftDone
  <2>2. /\ Nested' /\ Counted' /\ Live' = Live \cup {h}
        /\ h \notin Live /\ c \in Live
    BY <1>0, <2>1, TurnKeepsCalls
  <2>3. /\ Size(c) > 1 /\ h \in Segment /\ h # c
        /\ h[2] <= c[2] /\ h[2] \in Int /\ c[2] \in Int
    BY <1>0, <2>1, Halves DEF Shapes, Within, Segment, Items
  <2>4. \A i \in Items : Owns(c, i) <=> i \in Queries(h)
    BY <2>1 DEF Owns
  <2> HIDE DEF h
  <2>5. TypeOK'
    BY <1>0, <2>1, <2>3 DEF TypeOK, Running
  <2>6. Ownership'
    <3>1. \A i \in Items : (\E s \in Segment : Owns(s, i))'
                             <=> (\E s \in Segment : Owns(s, i))
      <4> SUFFICES ASSUME NEW i \in Items
                   PROVE  (\E s \in Segment : Owns(s, i))'
                            <=> (\E s \in Segment : Owns(s, i))
        OBVIOUS
      <4>1. \A s \in Segment \ {c, h} : Owns(s, i)' <=> Owns(s, i)
        BY <1>0, <2>1, <2>3 DEF Owns, TypeOK
      <4>2. ~Owns(h, i)
        BY <2>2, <2>3 DEF Owns, Live, Running
      <4>3. Owns(c, i) <=> Owns(c, i)' \/ Owns(h, i)'
        BY <1>0, <2>1, <2>3, <2>4 DEF Owns, TypeOK
      <4> QED BY <2>3, <4>1, <4>2, <4>3
    <3> QED BY <1>0, <2>1, <3>1 DEF Ownership
  <2>7. Shapes' /\ Phases' /\ LossNoticed'
    <3>1. head \in Int /\ c[2] < head
      BY <1>0, <2>2 DEF Shapes, TypeOK
    <3>2. Shapes'
      BY <1>0, <2>1, <2>2, <2>3, <3>1 DEF Shapes, TypeOK
    <3> QED BY <1>0, <2>1, <3>2, <2>2 DEF Phases, LossNoticed
  <2> QED BY <2>2, <2>5, <2>6, <2>7 DEF IInv
<1>8. CASE RightDone(c)
  <2>1. PICK r \in Returned :
          /\ call[c] = "right" /\ call[Right(c)] \in Returned
          /\ Return(c, r) /\ call' = [call EXCEPT ![c] = r]
          /\ UNCHANGED <<poison, count, head, caller, queueErr, result,
                         connError, fate, errors, snapshot>>
    BY <1>8 DEF RightDone, Return, SplitResult, Returned
  <2>2. Nested' /\ Counted' /\ Live' \subseteq Live /\ c \in Live /\ wg' \in Nat
    BY <1>0, <2>1, ReturnKeepsCalls
  <2>3. TypeOK'
    BY <1>0, <2>1, <2>2 DEF TypeOK
  <2>4. Ownership'
    <3>1. \A s \in Segment, i \in Items : Owns(s, i)' <=> Owns(s, i)
      BY <1>0, <2>1 DEF Owns, TypeOK, Returned
    <3> QED BY <1>0, <2>1, <3>1 DEF Ownership
  <2>5. Shapes' /\ Phases'
    BY <1>0, <2>1, <2>2, SameShapes DEF Returned
  <2>6. LossNoticed'
    BY <1>0, <2>1 DEF LossNoticed
  <2> QED BY <2>2, <2>3, <2>4, <2>5, <2>6 DEF IInv
<1> QED BY <1>1, <1>2, <1>3, <1>4, <1>5, <1>6, <1>7, <1>8 DEF SendStep

------------------------------------------------------------------------------
(* The theorems.                                                           *)

(* In every reachable state the calls of sendBatch form nested retries,    *)
(* b.wg counts them, and every pending query has its owner.                *)
THEOREM Invariance == Spec => []IInv
<1>1. IInv /\ [Next]_vars => IInv'
  <2> SUFFICES ASSUME IInv, [Next]_vars PROVE IInv'
    OBVIOUS
  <2>1. CASE UNCHANGED vars
    BY <2>1 DEF vars, IInv, TypeOK, Nested, Counted, Ownership, Shapes, Phases,
                LossNoticed, Live, FirstHalves, RetryOf, Owns
  <2> QED BY <2>1, CallerKeepsIInv, SendKeepsIInv DEF Next
<1> QED BY <1>1, InitIInv, PTL DEF Spec

(* Every variable keeps its type; in particular b.wg, which panics in Go   *)
(* when it falls below zero, never does.                                   *)
THEOREM TypeCorrect == Spec => []TypeOK
<1>1. IInv => TypeOK
  BY DEF IInv
<1> QED BY <1>1, Invariance, PTL

(* Once the calls are over nothing is pending.                             *)
LEMMA NothingPending ==
    ASSUME IInv, Live = {}, head > count
    PROVE  \A i \in Items : fate[i] # "pending"
<1>1. \A s \in Segment, i \in Items : ~Owns(s, i)
  BY DEF Owns, Live, Running
<1>2. \A i \in Items : i \notin head..count
  BY DEF IInv, TypeOK, Items
<1> QED BY <1>1, <1>2 DEF IInv, Ownership

(* A caller that came back from wg.Wait() leaves no goroutine and no query *)
(* whose outcome is open.                                                  *)
THEOREM WaitIsComplete == Spec => []WaitSettlesAll
<1>1. IInv => WaitSettlesAll
  BY NothingPending DEF IInv, Phases, WaitSettlesAll
<1> QED BY <1>1, Invariance, PTL

(* What one step does to the outcome of a query.                           *)
LEMMA FateStep ==
    ASSUME IInv, [Next]_vars, NEW i \in Items, fate'[i] # fate[i]
    PROVE  \/ fate[i] = "new" /\ fate'[i] = "pending"
           \/ fate[i] = "pending" /\ fate'[i] \in {"applied", "failed", "lost"}
<1> USE NAssumption
<1>0. TypeOK /\ Ownership
  BY DEF IInv
<1>1. ASSUME NEW c \in Segment, call[c] = "send",
             NEW outcome \in {"applied", "failed", "lost"}, SetFate(c, outcome)
      PROVE  fate[i] = "pending" /\ fate'[i] \in {"applied", "failed", "lost"}
  <2>1. i \in Queries(c) /\ fate'[i] = outcome
    BY <1>1 DEF SetFate
  <2>2. Owns(c, i)
    BY <1>1, <2>1 DEF Owns
  <2> QED BY <1>0, <2>1, <2>2 DEF Ownership
<1>2. CASE QueueItem \/ QueueAndSend
  <2>1. fate' = [fate EXCEPT ![count + 1] = "pending"] /\ count + 1 \in Items
    BY <1>0, <1>2 DEF QueueItem, QueueAndSend, TypeOK, Items
  <2>2. i = count + 1
    BY <1>0, <2>1 DEF TypeOK
  <2> QED BY <1>0, <2>1, <2>2 DEF Ownership, TypeOK
<1>3. CASE QueueRefused \/ Flush \/ FlushNothing \/ Wait \/ UNCHANGED vars
  BY <1>3 DEF QueueRefused, Flush, FlushNothing, Wait, vars
<1>4. ASSUME NEW c \in Segment, SendStep(c)
      PROVE  fate[i] = "pending" /\ fate'[i] \in {"applied", "failed", "lost"}
  <2>1. CASE SendOk(c)
    BY <1>1, <2>1 DEF SendOk
  <2>2. CASE \E fault \in {"conn", "close"} : CloseFails(c, fault)
    BY <1>1, <2>2 DEF CloseFails
  <2>3. CASE Isolate(c)
    BY <1>1, <2>3 DEF Isolate, ExecFails
  <2>4. CASE AppendRead(c) \/ AppendWrite(c) \/ Split(c) \/ LeftDone(c)
               \/ RightDone(c)
    BY <2>4 DEF AppendRead, AppendWrite, Split, LeftDone, RightDone
  <2> QED BY <1>4, <2>1, <2>2, <2>3, <2>4 DEF SendStep
<1> QED BY <1>2, <1>3, <1>4 DEF Next, CallerStep

(* No query is settled twice, and none before Queue accepted it.           *)
THEOREM SettlesOnce == Spec => SettledOnce
<1>1. IInv /\ [Next]_vars => [\A i \in Items : FateMovesOn(i)]_vars
  BY FateStep DEF FateMovesOn
<1> QED BY <1>1, Invariance, PTL DEF Spec, SettledOnce

(* If Close never fails for another reason than a lost connection, a nil   *)
(* result means that every query was stored or isolated.                   *)
LEMMA ReturnIsClean ==
    ASSUME "close" \notin Faults, IInv, [Next]_vars, CleanReturn
    PROVE  CleanReturn'
<1> USE NAssumption
<1>0. /\ TypeOK /\ Ownership /\ Phases /\ LossNoticed
  BY DEF IInv
<1> SUFFICES ASSUME result' = "ok", NEW i \in Items
             PROVE  fate'[i] \in {"applied", "failed"}
  BY DEF CleanReturn
<1>1. CASE Wait
  <2>1. ~queueErr /\ ~connError /\ fate' = fate /\ wg = 0 /\ caller = "wait"
    BY <1>1 DEF Wait
  <2>2. IInv'
    BY CallerKeepsIInv, <1>1 DEF CallerStep
  <2>3. Live' = {} /\ head' > count' /\ count' = N
    BY <2>2 DEF IInv, Phases
  <2>4. Live = {} /\ head > count /\ count = N
    BY <1>1, <2>3 DEF Wait, Live
  <2>5. fate[i] # "pending"
    BY <2>4, NothingPending
  <2>6. fate[i] # "new"
    BY <1>0, <2>4 DEF Ownership, Items
  <2>7. fate[i] # "lost"
    BY <1>0, <2>1 DEF LossNoticed
  <2> QED BY <1>0, <2>1, <2>5, <2>6, <2>7 DEF TypeOK
<1>2. CASE ~Wait
  <2>1. result = "ok"
    BY <1>0, <1>2 DEF Next, CallerStep, QueueItem, QueueAndSend, QueueRefused, Flush,
       FlushNothing, SendStep, SendOk, CloseFails, Isolate, AppendRead,
       AppendWrite, Split, LeftDone, RightDone, vars
  <2>2. fate[i] \in {"applied", "failed"}
    BY <2>1 DEF CleanReturn
  <2>3. fate'[i] = fate[i]
    BY <2>2, FateStep
  <2> QED BY <2>2, <2>3
<1> QED BY <1>1, <1>2

THEOREM NothingLost ==
    ASSUME "close" \notin Faults
    PROVE  Spec => []CleanReturn
<1>1. Init => CleanReturn
  BY DEF Init, CleanReturn
<1>2. IInv /\ [Next]_vars /\ CleanReturn => CleanReturn'
  BY ReturnIsClean
<1> QED BY <1>1, <1>2, Invariance, PTL DEF Spec

(* What became of a query is due to the query: the database stores no bad  *)
(* query, and unless Exec fails without a cause no good one is isolated.   *)
FatesExact ==
    \A i \in Items : /\ fate[i] = "applied" => i \notin poison
                     /\ fate[i] = "failed" => i \in poison \/ "transient" \in Faults

LEMMA StepKeepsFates ==
    ASSUME IInv, [Next]_vars, FatesExact
    PROVE  FatesExact'
<1> USE NAssumption
<1>0. TypeOK
  BY DEF IInv
<1>1. poison' = poison
  BY DEF Next, CallerStep, QueueItem, QueueAndSend, QueueRefused, Flush,
         FlushNothing, Wait, SendStep, SendOk, CloseFails, Isolate, AppendRead,
         AppendWrite, Split, LeftDone, RightDone, vars
<1>2. SUFFICES ASSUME NEW i \in Items, fate'[i] # fate[i]
               PROVE  /\ fate'[i] = "applied" => i \notin poison
                      /\ fate'[i] = "failed" => i \in poison \/ "transient" \in Faults
  BY <1>1 DEF FatesExact
<1>3. CASE CallerStep \/ UNCHANGED vars
  BY <1>0, <1>2, <1>3 DEF CallerStep, QueueItem, QueueAndSend, QueueRefused,
     Flush, FlushNothing, Wait, vars, TypeOK
<1>4. ASSUME NEW c \in Segment, SendStep(c)
      PROVE  /\ fate'[i] = "applied" => i \notin poison
             /\ fate'[i] = "failed" => i \in poison \/ "transient" \in Faults
  <2>1. CASE SendOk(c)
    BY <1>2, <2>1 DEF SendOk, SetFate
  <2>2. CASE \E fault \in {"conn", "close"} : CloseFails(c, fault)
    BY <1>2, <2>2 DEF CloseFails, SetFate
  <2>3. CASE Isolate(c)
    <3>1. i \in Queries(c) /\ fate'[i] = "failed" /\ Size(c) = 1
      BY <1>2, <2>3 DEF Isolate, SetFate
    <3>2. Queries(c) = {i}
      BY <3>1 DEF Queries, Size, Segment, Items
    <3> QED BY <2>3, <3>1, <3>2 DEF Isolate, ExecFails
  <2>4. CASE AppendRead(c) \/ AppendWrite(c) \/ Split(c) \/ LeftDone(c)
               \/ RightDone(c)
    BY <1>2, <2>4 DEF AppendRead, AppendWrite, Split, LeftDone, RightDone
  <2> QED BY <1>4, <2>1, <2>2, <2>3, <2>4 DEF SendStep
<1> QED BY <1>3, <1>4 DEF Next

(* The binary search isolates the bad queries and only these: a request    *)
(* that returned nil has stored all others.                                *)
THEOREM SearchIsExact ==
    ASSUME "close" \notin Faults, "transient" \notin Faults
    PROVE  Spec => []IsolationExact
<1>1. Init => FatesExact
  BY DEF Init, FatesExact
<1>2. IInv /\ [Next]_vars /\ FatesExact => FatesExact'
  BY StepKeepsFates
<1>3. CleanReturn /\ FatesExact => IsolationExact
  BY DEF CleanReturn, FatesExact, IsolationExact
<1> QED BY <1>1, <1>2, <1>3, Invariance, NothingLost, PTL DEF Spec

(* A report is under way only for a query that failed.                     *)
ReportsTrue ==
    /\ \A s \in Segment : call[s] \in {"report", "append"} => fate[s[1]] = "failed"
    /\ \A i \in Items : \A j \in snapshot[i] : fate[j] = "failed"
    /\ OnlyFailedReported

LEMMA StepKeepsReports ==
    ASSUME IInv, [Next]_vars, ReportsTrue
    PROVE  ReportsTrue'
<1> USE NAssumption
<1>0. TypeOK
  BY DEF IInv
<1>1. \A i \in Items : fate[i] = "failed" => fate'[i] = "failed"
  BY FateStep
<1>2. ASSUME UNCHANGED <<errors, snapshot>>,
             \A s \in Segment : call'[s] \in {"report", "append"} =>
                               call[s] \in {"report", "append"}
      PROVE  ReportsTrue'
  BY <1>0, <1>1, <1>2 DEF ReportsTrue, OnlyFailedReported, TypeOK, Segment
<1>3. CASE CallerStep \/ UNCHANGED vars
  <2>1. UNCHANGED <<errors, snapshot>>
    BY <1>3 DEF CallerStep, QueueItem, QueueAndSend, QueueRefused, Flush,
       FlushNothing, Wait, vars
  <2>2. \A s \in Segment : call'[s] = call[s] \/ call'[s] = "send"
    BY <1>0, <1>3 DEF CallerStep, QueueItem, QueueAndSend, QueueRefused, Flush,
       FlushNothing, Wait, vars, TypeOK
  <2> QED BY <1>2, <2>1, <2>2
<1>4. ASSUME NEW c \in Segment, SendStep(c) PROVE ReportsTrue'
  <2>1. CASE SendOk(c) \/ (\E fault \in {"conn", "close"} : CloseFails(c, fault))
               \/ Split(c) \/ LeftDone(c) \/ RightDone(c)
    <3>1. UNCHANGED <<errors, snapshot>>
      BY <2>1 DEF SendOk, CloseFails, Split, LeftDone, RightDone
    <3>2. \A s \in Segment :
            call'[s] = call[s] \/ call'[s] \in {"nil", "err", "send", "left", "right"}
      BY <1>0, <2>1 DEF SendOk, CloseFails, Split, LeftDone, RightDone, Return,
                        SplitResult, TypeOK
    <3> QED BY <1>2, <3>1, <3>2
  <2>2. CASE Isolate(c)
    <3>1. c[1] \in Items /\ fate'[c[1]] = "failed"
      BY <2>2 DEF Isolate, SetFate, Segment, Queries, Items
    <3> QED BY <1>0, <1>1, <2>2, <3>1
            DEF Isolate, ReportsTrue, OnlyFailedReported, TypeOK, Segment
  <2>3. CASE AppendRead(c)
    BY <1>0, <1>1, <2>3 DEF AppendRead, ReportsTrue, OnlyFailedReported, TypeOK, Segment
  <2>4. CASE AppendWrite(c)
    BY <1>0, <1>1, <2>4
       DEF AppendWrite, Return, ReportsTrue, OnlyFailedReported, TypeOK, Segment
  <2> QED BY <1>4, <2>1, <2>2, <2>3, <2>4 DEF SendStep
<1> QED BY <1>3, <1>4 DEF Next

(* No query is reported in the response that was stored, got lost or is    *)
(* still to be retried.                                                    *)
THEOREM ReportsAreTrue == Spec => []OnlyFailedReported
<1>1. Init => ReportsTrue
  BY DEF Init, ReportsTrue, OnlyFailedReported
<1>2. IInv /\ [Next]_vars /\ ReportsTrue => ReportsTrue'
  BY StepKeepsReports
<1>3. ReportsTrue => OnlyFailedReported
  BY DEF ReportsTrue
<1> QED BY <1>1, <1>2, <1>3, Invariance, PTL DEF Spec

------------------------------------------------------------------------------
(* Refinement of BatchContract.                                            *)

(* A call that settles its batch is a step Settle of the contract.         *)
LEMMA SettleRefines ==
    ASSUME Abandons = FALSE, IInv, NEW c \in Segment, call[c] = "send",
           NEW outcome \in {"applied", "failed", "lost"}, SetFate(c, outcome),
           result' = result
    PROVE  Contract!Next
<1> USE NAssumption
<1>1. result = "none"
  <2>1. c \in Live
    BY DEF Live, Running
  <2> QED BY <2>1 DEF IInv, Phases, TypeOK
<1>2. \A i \in Queries(c) : i \in Items /\ fate[i] = "pending"
  BY DEF Queries, Segment, Items, Owns, IInv, Ownership
<1>3. Contract!Settle(Queries(c), outcome)
  BY <1>1, <1>2 DEF Contract!Settle, Contract!Items, SetFate, Items
<1>4. Queries(c) \in SUBSET Contract!Items /\ outcome \in Contract!Settled
  BY <1>2 DEF Contract!Items, Contract!Settled, Items
<1> QED BY <1>3, <1>4 DEF Contract!Next

LEMMA StepRefines ==
    ASSUME Abandons = FALSE, "close" \notin Faults, IInv, [Next]_vars
    PROVE  [Contract!Next]_(Contract!vars)
<1> USE NAssumption
<1>0. TypeOK /\ Ownership /\ Phases
  BY DEF IInv
<1>1. CASE QueueItem \/ QueueAndSend
  <2>1. /\ fate' = [fate EXCEPT ![count + 1] = "pending"]
        /\ count + 1 \in Items /\ result' = result /\ caller = "queue"
    BY <1>0, <1>1 DEF QueueItem, QueueAndSend, TypeOK, Items
  <2>2. result = "none" /\ fate[count + 1] = "new"
    BY <1>0, <2>1 DEF Phases, Ownership, TypeOK
  <2>3. Contract!Accept(count + 1) /\ count + 1 \in Contract!Items
    BY <2>1, <2>2 DEF Contract!Accept, Contract!Items, Items
  <2> QED BY <2>3 DEF Contract!Next
<1>2. CASE Wait
  <2>1. /\ caller = "wait" /\ wg = 0 /\ fate' = fate /\ result = "none"
        /\ result' = IF queueErr \/ connError THEN "error" ELSE "ok"
    BY <1>0, <1>2 DEF Wait, Phases
  <2>2. IInv'
    BY CallerKeepsIInv, <1>2 DEF CallerStep
  <2>3. Live = {} /\ head > count
    <3>1. Live' = {} /\ head' > count' /\ head' = head /\ count' = count
      BY <1>2, <2>2 DEF IInv, Phases, Wait
    <3> QED BY <1>2, <3>1 DEF Wait, Live
  <2>4. \A i \in Items : fate[i] # "pending"
    BY <2>3, NothingPending
  <2>5. CASE queueErr \/ connError
    <3>1. Contract!ReturnError
      BY <2>1, <2>4, <2>5 DEF Contract!ReturnError, Contract!Items, Items
    <3> QED BY <3>1 DEF Contract!Next
  <2>6. CASE ~(queueErr \/ connError)
    <3>1. CleanReturn
      BY <2>1 DEF CleanReturn
    <3>2. CleanReturn' /\ result' = "ok"
      BY <2>1, <2>6, <3>1, ReturnIsClean
    <3>3. Contract!ReturnOk
      BY <2>1, <3>2 DEF CleanReturn, Contract!ReturnOk, Contract!Items, Items
    <3> QED BY <3>3 DEF Contract!Next
  <2> QED BY <2>5, <2>6
<1>3. ASSUME NEW c \in Segment, SendStep(c)
      PROVE  [Contract!Next]_(Contract!vars)
  <2>1. CASE SendOk(c)
    <3>1. call[c] = "send" /\ SetFate(c, "applied") /\ result' = result
      BY <2>1 DEF SendOk
    <3> QED BY <3>1, SettleRefines
  <2>2. ASSUME NEW fault \in {"conn", "close"}, CloseFails(c, fault)
        PROVE  [Contract!Next]_(Contract!vars)
    <3>1. PICK outcome \in {"applied", "lost"} :
            call[c] = "send" /\ SetFate(c, outcome) /\ result' = result
      BY <2>2 DEF CloseFails
    <3> QED BY <3>1, SettleRefines
  <2>3. CASE Isolate(c)
    <3>1. call[c] = "send" /\ SetFate(c, "failed") /\ result' = result
      BY <2>3 DEF Isolate, ExecFails
    <3> QED BY <3>1, SettleRefines
  <2>4. CASE AppendRead(c) \/ AppendWrite(c) \/ Split(c) \/ LeftDone(c)
               \/ RightDone(c)
    BY <2>4 DEF AppendRead, AppendWrite, Split, LeftDone, RightDone,
                Contract!vars
  <2> QED BY <1>3, <2>1, <2>2, <2>3, <2>4 DEF SendStep
<1>4. CASE QueueRefused \/ Flush \/ FlushNothing \/ UNCHANGED vars
  BY <1>4 DEF QueueRefused, Flush, FlushNothing, vars, Contract!vars
<1> QED BY <1>1, <1>2, <1>3, <1>4 DEF Next, CallerStep

(* A caller that waits for its batches keeps BatchContract as long as      *)
(* Close fails only when the connection is lost.                           *)
THEOREM KeepsContract ==
    ASSUME Abandons = FALSE, "close" \notin Faults
    PROVE  Spec => ContractSpec
<1>1. Init => Contract!Init
  BY DEF Init, Contract!Init, Contract!Items, Items
<1>2. IInv /\ [Next]_vars => [Contract!Next]_(Contract!vars)
  BY StepRefines
<1> QED BY <1>1, <1>2, Invariance, PTL DEF Spec, ContractSpec, Contract!Spec
=============================================================================
