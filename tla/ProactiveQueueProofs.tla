------------------------ MODULE ProactiveQueueProofs ------------------------
(***************************************************************************)
(* Safety of the proactive message queue for every number of messages,     *)
(* flushes that overlap and faults, and every limit.                       *)
(*                                                                         *)
(* The order of the sends rests on what a flush in the middle of its list  *)
(* may take for granted: whatever could be sent and stood before a row of  *)
(* its list is on the list too, or has had its turn, or was evicted.       *)
(***************************************************************************)
EXTENDS ProactiveQueue, FiniteSetTheorems, WellFoundedInduction, TLAPS

(* A message that has had its turn. *)
Done(m) == tried[m] > 0 \/ m \in evicted

UnusedIsFresh == \A m \in Messages : m > lastId => tried[m] = 0

ClaimedIsPulled == \A m \in claimed : m <= lastId /\ kind[m] = "pull"

(* Flush f sends n and goes on with rest: what it may take for granted. *)
Holds(n, rest) ==
  /\ n = 0 => rest = {}
  /\ n # 0 => /\ n <= lastId /\ kind[n] \in Immediate
              /\ \A m \in rest : n < m /\ m <= lastId
              /\ \A m \in (1..lastId) \ (rest \cup {n}) :
                   kind[m] \in Immediate /\ (m < n \/ \E r \in rest : m < r) => Done(m)

FlushHolds == \A f \in Flushes : Holds(flush[f].item, flush[f].rest)

ProactiveInv ==
  /\ ProactiveTypeOK /\ UnusedIsFresh /\ ClaimedIsPulled /\ FlushHolds
  /\ NothingVanishes /\ SentIsNotListed /\ SentInOrder

-----------------------------------------------------------------------------
(* The least and the greatest element that Min and Max choose. *)
LEMMA MinOfNats ==
  ASSUME NEW S \in SUBSET Nat, S # {}
  PROVE  Min(S) \in S /\ \A k \in S : Min(S) <= k
<1>1. PICK m \in S : \A k \in S : ~(<<k, m>> \in OpToRel(<, Nat))
  BY NatLessThanWellFounded, WFMin
<1>2. ASSUME NEW k \in S PROVE m <= k
  <2>1. k \in Nat /\ m \in Nat /\ ~(k < m)
    BY <1>1 DEF OpToRel
  <2> QED
    BY <2>1
<1> QED
  BY <1>2 DEF Min

(* A finite set of numbers has a greatest one: remove one element from a least
   set without. *)
LEMMA MaxOfNats ==
  ASSUME NEW S \in SUBSET Nat, IsFiniteSet(S), S # {}
  PROVE  Max(S) \in S /\ \A k \in S : k <= Max(S)
<1> DEFINE HasMax(T) == \E x \in T : \A y \in T : x >= y
           Bad == {n \in Nat : \E T \in SUBSET Nat : /\ IsFiniteSet(T) /\ T # {}
                                                     /\ Cardinality(T) = n /\ ~HasMax(T)}
<1>1. Bad = {}
  <2> SUFFICES ASSUME Bad # {} PROVE FALSE
    OBVIOUS
  <2>1. PICK n \in Bad : \A k \in Bad : ~(<<k, n>> \in OpToRel(<, Nat))
    BY NatLessThanWellFounded, WFMin
  <2>2. PICK T \in SUBSET Nat : /\ IsFiniteSet(T) /\ T # {}
                                /\ Cardinality(T) = n /\ ~HasMax(T)
    OBVIOUS
  <2>3. PICK x \in T : TRUE
    BY <2>2
  <2> DEFINE U == T \ {x}
  <2>4. IsFiniteSet(U) /\ Cardinality(U) = n - 1 /\ n - 1 \in Nat /\ U \in SUBSET Nat
    <3>1. IsFiniteSet(U) /\ Cardinality(U) = Cardinality(T) - 1
      BY <2>2, <2>3, FS_RemoveElement, Zenon
    <3>2. Cardinality(U) \in Nat
      BY <3>1, FS_CardinalityType
    <3> QED
      BY <2>2, <3>1, <3>2
  <2>5. n - 1 \notin Bad
    <3>1. n \in Nat /\ n - 1 < n
      OBVIOUS
    <3> QED
      BY <2>1, <2>4, <3>1 DEF OpToRel
  <2>6. U = {} \/ HasMax(U)
    BY <2>4, <2>5
  <2>7. CASE U = {}
    BY <2>2, <2>3, <2>7
  <2>8. CASE HasMax(U)
    <3>1. PICK y \in U : \A z \in U : y >= z
      BY <2>8
    <3>2. x \in Nat /\ y \in Nat /\ \A z \in T : z = x \/ z \in U
      BY <2>2, <2>3, <3>1
    <3>3. CASE x >= y
      BY <2>2, <2>3, <3>1, <3>2, <3>3
    <3>4. CASE y > x
      BY <2>2, <2>3, <3>1, <3>2, <3>4
    <3> QED
      BY <3>2, <3>3, <3>4
  <2> QED
    BY <2>6, <2>7, <2>8
<1>2. HasMax(S)
  BY <1>1, FS_CardinalityType
<1>3. Max(S) \in S /\ \A y \in S : Max(S) >= y
  BY <1>2 DEF Max
<1> QED
  BY <1>3

(* Oldest keeps to the order of the rows: with a row it lists the older ones. *)
LEMMA OldestIsLower ==
  ASSUME NEW S \in SUBSET Nat, IsFiniteSet(S), NEW n \in Nat,
         NEW m \in Oldest(S, n), NEW k \in S, k < m
  PROVE  k \in Oldest(S, n)
<1> DEFINE Before(x) == {j \in S : j < x}
<1>1. Before(m) \in SUBSET S /\ Before(k) \in SUBSET S /\ Cardinality(Before(m)) < n
  BY DEF Oldest
<1>2. IsFiniteSet(Before(m)) /\ IsFiniteSet(Before(k))
  BY <1>1, FS_Subset
<1>3. Before(k) \in SUBSET Before(m)
  <2> SUFFICES ASSUME NEW j \in S, j < k PROVE j < m
    OBVIOUS
  <2>1. j \in Nat /\ k \in Nat /\ m \in Nat
    BY DEF Oldest
  <2> QED
    BY <2>1
<1>4. Cardinality(Before(k)) <= Cardinality(Before(m))
  BY <1>2, <1>3, FS_Subset
<1>5. Cardinality(Before(k)) \in Nat /\ Cardinality(Before(m)) \in Nat
  BY <1>2, FS_CardinalityType
<1> QED
  BY <1>1, <1>4, <1>5 DEF Oldest

(* A set is split by a subset: the cardinalities add up. *)
LEMMA CardinalityOfRest ==
  ASSUME NEW S, IsFiniteSet(S), NEW T \in SUBSET S
  PROVE  /\ Cardinality(S) \in Nat /\ Cardinality(T) \in Nat
         /\ Cardinality(S \ T) \in Nat
         /\ Cardinality(S) = Cardinality(T) + Cardinality(S \ T)
<1>1. IsFiniteSet(T) /\ IsFiniteSet(S \ T) /\ S \ T \in SUBSET S
  BY FS_Subset
<1>2. Cardinality(S) \in Nat /\ Cardinality(T) \in Nat /\ Cardinality(S \ T) \in Nat
  BY <1>1, FS_CardinalityType
<1>3. T \cup (S \ T) = S /\ T \cap (S \ T) = {}
  OBVIOUS
<1>4. Cardinality(S) = Cardinality(T) + Cardinality(S \ T) - Cardinality({})
  BY <1>1, <1>3, FS_Union
<1> QED
  BY <1>2, <1>4, FS_EmptySet

(* What is left when the oldest n rows are gone. *)
LEMMA OldestLeaves ==
  ASSUME NEW S \in SUBSET Nat, IsFiniteSet(S), NEW n \in Nat, n <= Cardinality(S)
  PROVE  Cardinality(S \ Oldest(S, n)) <= Cardinality(S) - n
<1> DEFINE R == S \ Oldest(S, n)
           B == {k \in S : k < Min(R)}
<1>1. CASE R = {}
  <2>1. Cardinality(R) = 0 /\ Cardinality(S) \in Nat
    BY <1>1, FS_EmptySet, FS_CardinalityType
  <2> QED
    BY <2>1
<1>2. CASE R # {}
  <2>1. R \in SUBSET Nat
    OBVIOUS
  <2>2. Min(R) \in R /\ \A k \in R : Min(R) <= k
    BY <1>2, <2>1, MinOfNats
  <2>3. B \in SUBSET S /\ Min(R) \in Nat
    BY <2>2
  <2>4. /\ Cardinality(S) \in Nat /\ Cardinality(B) \in Nat
        /\ Cardinality(S \ B) \in Nat
        /\ Cardinality(S) = Cardinality(B) + Cardinality(S \ B)
    BY <2>3, CardinalityOfRest
  <2>5. Cardinality(B) >= n
    BY <2>2, <2>4 DEF Oldest
  <2>6. R \in SUBSET (S \ B)
    <3> SUFFICES ASSUME NEW r \in R PROVE ~(r < Min(R))
      OBVIOUS
    <3>1. r \in Nat /\ Min(R) <= r
      BY <2>2
    <3> QED
      BY <2>3, <3>1
  <2>7. IsFiniteSet(S \ B)
    BY FS_Subset
  <2>8. Cardinality(R) <= Cardinality(S \ B) /\ Cardinality(R) \in Nat
    BY <2>6, <2>7, FS_Subset, FS_CardinalityType
  <2> QED
    BY <2>4, <2>5, <2>8
<1> QED
  BY <1>1, <1>2

(* What enqueue makes room for: the table fits the limit of the caller. *)
LEMMA SurplusMakesRoom ==
  ASSUME NEW q \in SUBSET Nat, IsFiniteSet(q), NEW limit \in Nat \ {0}
  PROVE  Cardinality(q \ Surplus(q, limit)) <= limit
<1>1. Cardinality(q) \in Nat
  BY FS_CardinalityType
<1>2. IsFiniteSet(q \ Surplus(q, limit)) /\ q \ Surplus(q, limit) \in SUBSET q
  BY FS_Subset
<1>3. /\ Cardinality(q \ Surplus(q, limit)) \in Nat
      /\ Cardinality(q \ Surplus(q, limit)) <= Cardinality(q)
  BY <1>2, FS_Subset, FS_CardinalityType
<1>4. CASE Cardinality(q) <= limit
  BY <1>1, <1>3, <1>4
<1>5. CASE Cardinality(q) > limit
  <2> DEFINE n == Cardinality(q) - limit
  <2>1. n \in Nat /\ n <= Cardinality(q) /\ Surplus(q, limit) = Oldest(q, n)
    BY <1>1, <1>5 DEF Surplus
  <2> HIDE DEF n
  <2>2. Cardinality(q \ Oldest(q, n)) <= Cardinality(q) - n
    BY <2>1, OldestLeaves
  <2> QED
    BY <1>1, <2>1, <2>2 DEF n
<1> QED
  BY <1>1, <1>4, <1>5

(* Each row deleted to make room has as many newer rows behind it as the limit. *)
LEMMA SurplusIsFarBehind ==
  ASSUME NEW last \in Nat, NEW q \in SUBSET (1..last), NEW limit \in Nat \ {0},
         NEW m \in Surplus(q, limit)
  PROVE  last >= m + limit
<1> DEFINE B == {k \in q : k < m}
<1>1. IsFiniteSet(1..last)
  BY FS_Interval
<1>2. IsFiniteSet(q)
  BY <1>1, FS_Subset
<1>3. B \in SUBSET q /\ m \in q /\ m \in 1..last
  BY DEF Surplus, Oldest
<1>4. /\ Cardinality(q) \in Nat /\ Cardinality(B) \in Nat /\ Cardinality(q \ B) \in Nat
      /\ Cardinality(q) = Cardinality(B) + Cardinality(q \ B)
  BY <1>2, <1>3, CardinalityOfRest
<1>5. Cardinality(q) > limit /\ Cardinality(B) < Cardinality(q) - limit
  <2>1. CASE Cardinality(q) > limit
    BY <2>1 DEF Surplus, Oldest
  <2>2. CASE ~(Cardinality(q) > limit)
    BY <1>4, <2>2 DEF Surplus, Oldest
  <2> QED
    BY <2>1, <2>2
<1>6. q \ B \in SUBSET (m..last)
  <2> SUFFICES ASSUME NEW k \in q, ~(k < m) PROVE k \in m..last
    OBVIOUS
  <2>1. k \in 1..last /\ m \in 1..last
    BY <1>3
  <2> QED
    BY <2>1
<1>7. IsFiniteSet(m..last) /\ Cardinality(m..last) = last - m + 1
  BY <1>3, FS_Interval
<1>8. Cardinality(q \ B) <= last - m + 1
  BY <1>6, <1>7, FS_Subset
<1> QED
  BY <1>3, <1>4, <1>5, <1>8

-----------------------------------------------------------------------------
(* The limits of the callers lie between the least and the greatest of them. *)
LEMMA LimitsAreBounded ==
  /\ Max(QueueLimits) \in Nat /\ Min(QueueLimits) \in Nat
  /\ \A limit \in QueueLimits :
       /\ limit \in Nat \ {0}
       /\ Min(QueueLimits) <= limit /\ limit <= Max(QueueLimits)
<1>1. QueueLimits \in SUBSET Nat /\ IsFiniteSet(QueueLimits) /\ QueueLimits # {}
  BY ProactiveAssumption
<1>2. Min(QueueLimits) \in QueueLimits /\ \A k \in QueueLimits : Min(QueueLimits) <= k
  BY <1>1, MinOfNats
<1>3. Max(QueueLimits) \in QueueLimits /\ \A k \in QueueLimits : k <= Max(QueueLimits)
  BY <1>1, MaxOfNats
<1> QED
  BY <1>2, <1>3, ProactiveAssumption

(* A table that loses rows still fits. *)
LEMMA ShrunkQueueFits ==
  ASSUME ProactiveTypeOK, NEW q \in SUBSET queue
  PROVE  q \in SUBSET (1..lastId) /\ IsFiniteSet(q) /\ Cardinality(q) <= Max(QueueLimits)
<1>1. lastId \in Nat /\ queue \in SUBSET (1..lastId)
  BY ProactiveAssumption DEF ProactiveTypeOK
<1>2. IsFiniteSet(1..lastId)
  BY <1>1, FS_Interval
<1>3. IsFiniteSet(queue)
  BY <1>1, <1>2, FS_Subset
<1>4. IsFiniteSet(q) /\ Cardinality(q) <= Cardinality(queue)
  BY <1>3, FS_Subset
<1>5. Cardinality(q) \in Nat /\ Cardinality(queue) \in Nat /\ Max(QueueLimits) \in Nat
  BY <1>3, <1>4, FS_CardinalityType, LimitsAreBounded
<1>6. Cardinality(queue) <= Max(QueueLimits)
  BY DEF ProactiveTypeOK
<1> QED
  BY <1>1, <1>4, <1>5, <1>6

(* The gateway starts with an empty table. *)
LEMMA ProactiveInitInv == ProactiveInit => ProactiveInv
<1> SUFFICES ASSUME ProactiveInit PROVE ProactiveInv
  OBVIOUS
<1> USE ProactiveAssumption DEF ProactiveInit
<1>1. Cardinality({}) = 0 /\ Max(QueueLimits) \in Nat
  BY FS_EmptySet, LimitsAreBounded
<1>2. ProactiveTypeOK
  BY <1>1 DEF ProactiveTypeOK, Messages, Idle
<1>3. UnusedIsFresh /\ ClaimedIsPulled
  BY DEF UnusedIsFresh, ClaimedIsPulled, Messages
<1>4. FlushHolds
  BY DEF FlushHolds, Holds, Idle
<1>5. NothingVanishes /\ SentIsNotListed /\ SentInOrder
  BY DEF NothingVanishes, SentIsNotListed, SentInOrder, Gone, Messages
<1> QED
  BY <1>2, <1>3, <1>4, <1>5 DEF ProactiveInv

(* The loop of a flush up to its next await.  Whatever can be sent and stands
   before a row of the list, without being on it, must have had its turn. *)
LEMMA ProceedKeepsHolds ==
  ASSUME ProactiveInv, NEW f \in Flushes, NEW todo \in SUBSET (1..lastId),
         NEW q \in SUBSET queue, Proceed(f, todo, q),
         UNCHANGED <<lastId, kind, evicted>>,
         \A m \in 1..lastId : Done(m) => Done(m)',
         \A m \in (1..lastId) \ todo :
           kind[m] \in Immediate /\ (\E k \in todo : m < k) => Done(m)'
  PROVE  /\ FlushHolds'
         /\ queue' \in SUBSET q
         /\ \A m \in q \ queue' : kind[m] = "unsupported"
         /\ flush' \in [Flushes -> [item : 0..MaxMessages, rest : SUBSET Messages]]
<1> DEFINE sendable == {m \in todo : kind[m] \in Immediate}
           next     == IF sendable = {} THEN 0 ELSE Min(sendable)
           passed   == {m \in todo : next = 0 \/ m < next}
           ends     == ~activeHours \/ next = 0
           rest     == todo \ (passed \cup {next})
<1>1. /\ queue' = IF activeHours THEN q \ {m \in passed : kind[m] = "unsupported"} ELSE q
      /\ flush' = [flush EXCEPT ![f] = IF ends THEN Idle
                                       ELSE [item |-> next, rest |-> rest]]
  BY DEF Proceed
<1>2. queue' \in SUBSET q /\ \A m \in q \ queue' : kind[m] = "unsupported"
  BY <1>1
<1>3. /\ lastId \in Nat /\ MaxMessages \in Nat /\ 1..lastId \in SUBSET Messages
      /\ flush \in [Flushes -> [item : 0..MaxMessages, rest : SUBSET Messages]]
  BY ProactiveAssumption DEF ProactiveInv, ProactiveTypeOK, Messages
<1>4. next # 0 => next \in sendable /\ \A k \in sendable : next <= k
  <2>1. sendable \in SUBSET Nat
    <3>1. todo \in SUBSET Nat
      BY <1>3
    <3> QED
      BY <3>1
  <2>2. sendable # {} =>
          Min(sendable) \in sendable /\ \A k \in sendable : Min(sendable) <= k
    BY <2>1, MinOfNats
  <2> HIDE DEF sendable
  <2> QED
    BY <2>2
<1>5. PICK n, r : n = next /\ r = rest
  OBVIOUS
<1>6. /\ queue' = IF activeHours THEN q \ {m \in passed : kind[m] = "unsupported"} ELSE q
      /\ flush' = [flush EXCEPT ![f] = IF ends THEN Idle ELSE [item |-> n, rest |-> r]]
      /\ n = 0 => ends
  BY <1>1, <1>5
<1>7. n # 0 => /\ n \in todo /\ n \in 1..lastId /\ kind[n] \in Immediate
               /\ \A m \in todo : /\ kind[m] \in Immediate => n <= m
                                  /\ m \in r <=> n < m
  <2> SUFFICES ASSUME n # 0
               PROVE  /\ n \in todo /\ n \in 1..lastId /\ kind[n] \in Immediate
                      /\ \A m \in todo : /\ kind[m] \in Immediate => n <= m
                                         /\ m \in r <=> n < m
    OBVIOUS
  <2>1. n \in sendable /\ \A k \in sendable : n <= k
    BY <1>4, <1>5
  <2>2. r = todo \ ({m \in todo : n = 0 \/ m < n} \cup {n})
    BY <1>5
  <2> HIDE DEF next
  <2>3. n \in todo /\ n \in 1..lastId /\ kind[n] \in Immediate
    BY <2>1
  <2>4. ASSUME NEW m \in todo
        PROVE  (kind[m] \in Immediate => n <= m) /\ (m \in r <=> n < m)
    <3>1. m \in Nat /\ n \in Nat
      BY <2>3
    <3> QED
      BY <2>1, <2>2, <3>1
  <2> QED
    BY <2>3, <2>4
<1>8. r \in SUBSET todo
  BY <1>5
<1> HIDE DEF next, rest, passed, sendable, ends
<1>9. n # 0 => Holds(n, r)'
  <2> SUFFICES ASSUME n # 0 PROVE Holds(n, r)'
    OBVIOUS
  <2>1. \A m \in r : n < m /\ m <= lastId
    BY <1>3, <1>7, <1>8
  <2>2. ASSUME NEW m \in (1..lastId) \ (r \cup {n}), kind[m] \in Immediate,
               m < n \/ \E k \in r : m < k
        PROVE  Done(m)'
    <3>1. m \in Nat /\ n \in Nat
      BY <1>3, <1>7
    <3>2. m \notin todo
      BY <1>7, <2>2, <3>1
    <3>3. \E k \in todo : m < k
      BY <1>7, <1>8, <2>2
    <3> QED
      BY <2>2, <3>2, <3>3
  <2>3. n <= lastId
    BY <1>3, <1>7
  <2> QED
    BY <1>7, <2>1, <2>2, <2>3 DEF Holds
<1>10. flush'[f] = Idle \/ (n # 0 /\ flush'[f] = [item |-> n, rest |-> r])
  BY <1>3, <1>6
<1>11. Holds(flush[f].item, flush[f].rest)'
  <2>1. CASE flush'[f] = Idle
    BY <2>1 DEF Holds, Idle
  <2>2. CASE n # 0 /\ flush'[f] = [item |-> n, rest |-> r]
    <3>1. flush'[f].item = n /\ flush'[f].rest = r
      BY <2>2
    <3> QED
      BY <1>9, <2>2, <3>1
  <2> QED
    BY <1>10, <2>1, <2>2
<1>12. ASSUME NEW g \in Flushes, g # f PROVE Holds(flush[g].item, flush[g].rest)'
  <2>1. Holds(flush[g].item, flush[g].rest)
    BY DEF ProactiveInv, FlushHolds
  <2>2. flush'[g] = flush[g]
    BY <1>3, <1>6, <1>12
  <2> QED
    BY <2>1, <2>2 DEF Holds
<1>13. FlushHolds'
  BY <1>11, <1>12 DEF FlushHolds
<1>14. flush' \in [Flushes -> [item : 0..MaxMessages, rest : SUBSET Messages]]
  <2>1. Idle \in [item : 0..MaxMessages, rest : SUBSET Messages]
    BY <1>3 DEF Idle
  <2>2. n # 0 => n \in Messages /\ r \in SUBSET Messages
    BY <1>3, <1>7, <1>8
  <2>3. n # 0 => [item |-> n, rest |-> r] \in [item : 0..MaxMessages, rest : SUBSET Messages]
    BY <2>2 DEF Messages
  <2> QED
    BY <1>3, <1>6, <2>1, <2>3
<1> QED
  BY <1>2, <1>13, <1>14

(* A message is enqueued: the lists of the flushes are all older, and what makes
   room for it is evicted. *)
LEMMA EnqueueKeeps ==
  ASSUME ProactiveInv, NEW k \in Kinds, NEW limit \in QueueLimits, Enqueue(k, limit)
  PROVE  ProactiveInv'
<1> DEFINE m == lastId + 1
           gone == Surplus(queue \cup {m}, limit)
<1>1. /\ lastId < MaxMessages /\ lastId' = m /\ kind' = [kind EXCEPT ![m] = k]
      /\ queue' = (queue \cup {m}) \ gone /\ evicted' = evicted \cup gone
      /\ UNCHANGED <<activeHours, database, flush, tried, claimed, interrupted, queueFaults>>
  BY DEF Enqueue
<1>2. ProactiveTypeOK
  BY DEF ProactiveInv
<1>3. /\ lastId \in Nat /\ MaxMessages \in Nat /\ m \in Messages /\ lastId < m
      /\ m \in 0..MaxMessages /\ queue \in SUBSET (1..lastId)
      /\ tried \in [Messages -> Nat]
  BY <1>1, <1>2, ProactiveAssumption DEF ProactiveTypeOK, Messages
<1>4. limit \in Nat \ {0} /\ Min(QueueLimits) <= limit /\ limit <= Max(QueueLimits)
      /\ Max(QueueLimits) \in Nat /\ Min(QueueLimits) \in Nat
  BY LimitsAreBounded
<1>5. queue \cup {m} \in SUBSET (1..m) /\ IsFiniteSet(queue \cup {m})
  <2>1. IsFiniteSet(queue)
    BY <1>2, ShrunkQueueFits
  <2>2. IsFiniteSet(queue \cup {m})
    BY <2>1, FS_AddElement
  <2>3. \A x \in queue : x \in 1..m
    BY <1>3
  <2>4. m \in 1..m
    BY <1>3
  <2> QED
    BY <2>2, <2>3, <2>4
<1>6. gone \in SUBSET (queue \cup {m})
  BY DEF Surplus, Oldest
<1>7. \A x \in gone : m >= x + limit
  BY <1>3, <1>4, <1>5, SurplusIsFarBehind
<1>8. Cardinality((queue \cup {m}) \ gone) <= limit
      /\ Cardinality((queue \cup {m}) \ gone) \in Nat
  <2>1. queue \cup {m} \in SUBSET Nat
    BY <1>3
  <2>2. Cardinality((queue \cup {m}) \ gone) <= limit
    BY <1>4, <1>5, <2>1, SurplusMakesRoom
  <2>3. IsFiniteSet((queue \cup {m}) \ gone)
    BY <1>5, FS_Subset
  <2> QED
    BY <2>2, <2>3, FS_CardinalityType
<1>9. Cardinality(queue') <= Max(QueueLimits)
  BY <1>1, <1>4, <1>8
<1> HIDE DEF gone
<1>10. \A x \in 1..lastId : x \in Messages /\ x # m /\ kind'[x] = kind[x]
  BY <1>1, <1>2, <1>3 DEF ProactiveTypeOK, Messages
<1>11. kind'[m] = k
  BY <1>1, <1>2, <1>3 DEF ProactiveTypeOK
<1>12. 1..lastId' = (1..lastId) \cup {m}
  BY <1>1, <1>3
<1> HIDE DEF m
<1>13. ProactiveTypeOK'
  <2>1. kind' \in [Messages -> Kinds \cup {"none"}]
    BY <1>1, <1>2 DEF ProactiveTypeOK
  <2>2. lastId' \in 0..MaxMessages /\ queue' \in SUBSET (1..lastId')
    BY <1>1, <1>3, <1>5
  <2>3. evicted' \in SUBSET Messages
    BY <1>1, <1>2, <1>3, <1>6, <1>10 DEF ProactiveTypeOK
  <2> QED
    BY <1>1, <1>2, <1>9, <2>1, <2>2, <2>3 DEF ProactiveTypeOK
<1>14. UnusedIsFresh'
  <2> SUFFICES ASSUME NEW x \in Messages, x > m PROVE tried[x] = 0
    BY <1>1 DEF UnusedIsFresh
  <2>1. x > lastId
    BY <1>3 DEF Messages
  <2> QED
    BY <2>1 DEF ProactiveInv, UnusedIsFresh
<1>15. ClaimedIsPulled'
  <2> SUFFICES ASSUME NEW x \in claimed PROVE x <= m /\ kind'[x] = "pull"
    BY <1>1 DEF ClaimedIsPulled
  <2>1. x <= lastId /\ kind[x] = "pull" /\ x \in Messages
    BY <1>2 DEF ProactiveInv, ClaimedIsPulled, ProactiveTypeOK
  <2> QED
    BY <1>3, <1>10, <2>1 DEF Messages
<1>16. FlushHolds'
  <2> SUFFICES ASSUME NEW f \in Flushes PROVE Holds(flush[f].item, flush[f].rest)'
    BY DEF FlushHolds
  <2> DEFINE n == flush[f].item
             r == flush[f].rest
  <2>1. Holds(n, r) /\ n \in 0..MaxMessages /\ r \in SUBSET Messages /\ flush'[f] = flush[f]
    BY <1>1, <1>2 DEF ProactiveInv, FlushHolds, ProactiveTypeOK
  <2>2. CASE n = 0
    BY <2>1, <2>2 DEF Holds
  <2>3. CASE n # 0
    <3>1. /\ n <= lastId /\ kind[n] \in Immediate
          /\ \A x \in r : n < x /\ x <= lastId
          /\ \A x \in (1..lastId) \ (r \cup {n}) :
               kind[x] \in Immediate /\ (x < n \/ \E y \in r : x < y) => Done(x)
      BY <2>1, <2>3 DEF Holds
    <3>2. n \in 1..lastId /\ n <= m /\ \A x \in r : x <= m
      BY <1>3, <2>1, <2>3, <3>1 DEF Messages
    <3>3. ~(m < n) /\ \A y \in r : ~(m < y)
      BY <1>3, <2>1, <3>1 DEF Messages
    <3>4. ASSUME NEW x \in (1..lastId') \ (r \cup {n}), kind'[x] \in Immediate,
                 x < n \/ \E y \in r : x < y
          PROVE  Done(x)'
      <4>1. x \in 1..lastId /\ kind[x] \in Immediate
        BY <1>10, <1>12, <3>3, <3>4
      <4>2. Done(x)
        BY <3>1, <3>4, <4>1
      <4> QED
        BY <1>1, <4>2 DEF Done
    <3>5. kind'[n] \in Immediate
      BY <1>10, <3>1, <3>2
    <3> HIDE DEF n, r
    <3>6. PICK nn, rr : nn = n /\ rr = r
      OBVIOUS
    <3>7. Holds(nn, rr)'
      BY <1>1, <2>3, <3>1, <3>2, <3>4, <3>5, <3>6 DEF Holds
    <3> QED
      BY <2>1, <3>6, <3>7 DEF n, r
  <2> QED
    BY <2>2, <2>3
<1>17. NothingVanishes'
  <2> SUFFICES ASSUME NEW x \in (1..lastId') \ queue'
               PROVE  \/ tried'[x] > 0 \/ x \in claimed' \/ kind'[x] = "unsupported"
                      \/ x \in evicted' /\ lastId' >= x + Min(QueueLimits)
    BY DEF NothingVanishes, Gone
  <2>1. CASE x \in gone
    <3>1. x \in 1..lastId' /\ m >= x + limit
      BY <1>7, <2>1
    <3> QED
      BY <1>1, <1>3, <1>4, <2>1, <3>1
  <2>2. CASE x \notin gone
    <3>1. x \in 1..lastId /\ x \notin queue /\ kind'[x] = kind[x]
      BY <1>1, <1>10, <1>12, <2>2
    <3>2. \/ tried[x] > 0 \/ x \in claimed \/ kind[x] = "unsupported"
          \/ x \in evicted /\ lastId >= x + Min(QueueLimits)
      BY <3>1 DEF ProactiveInv, NothingVanishes, Gone
    <3> QED
      BY <1>1, <1>3, <1>4, <3>1, <3>2
  <2> QED
    BY <2>1, <2>2
<1>18. SentIsNotListed'
  <2>1. tried[m] = 0
    BY <1>3 DEF ProactiveInv, UnusedIsFresh, Messages
  <2> QED
    BY <1>1, <2>1 DEF ProactiveInv, SentIsNotListed
<1>19. SentInOrder'
  <2> SUFFICES ASSUME NEW x \in 1..lastId', NEW n \in 1..lastId', x < n,
                      kind'[x] \in Immediate, kind'[n] \in Immediate, tried'[n] > 0
               PROVE  tried'[x] > 0 \/ x \in evicted'
    BY DEF SentInOrder
  <2>1. tried[m] = 0
    BY <1>3 DEF ProactiveInv, UnusedIsFresh, Messages
  <2>2. n # m
    BY <1>1, <2>1
  <2>3. n \in 1..lastId /\ x \in 1..lastId
    BY <1>3, <1>12, <2>2
  <2>4. tried[x] > 0 \/ x \in evicted
    BY <1>1, <1>10, <2>3 DEF ProactiveInv, SentInOrder
  <2> QED
    BY <1>1, <2>4
<1> QED
  BY <1>13, <1>14, <1>15, <1>16, <1>17, <1>18, <1>19 DEF ProactiveInv

(* The terminal UI takes rows of its own: nothing a flush could send. *)
LEMMA ClaimKeeps ==
  ASSUME ProactiveInv, Claim
  PROVE  ProactiveInv'
<1> DEFINE rows == Oldest({m \in queue : kind[m] = "pull"}, ClaimLimit)
<1>1. /\ queue' = queue \ rows /\ claimed' = claimed \cup rows
      /\ UNCHANGED <<activeHours, database, lastId, kind, flush, tried, evicted,
                     interrupted, queueFaults>>
  BY DEF Claim
<1>2. \A m \in rows : m \in queue /\ kind[m] = "pull"
  BY DEF Oldest
<1> HIDE DEF rows
<1>3. ProactiveTypeOK
  BY DEF ProactiveInv
<1>4. queue' \in SUBSET (1..lastId) /\ Cardinality(queue') <= Max(QueueLimits)
  BY <1>1, <1>3, ShrunkQueueFits
<1>5. \A m \in queue : m \in Messages /\ m <= lastId
  BY <1>3, ProactiveAssumption DEF ProactiveTypeOK, Messages
<1>6. ProactiveTypeOK'
  BY <1>1, <1>2, <1>3, <1>4, <1>5 DEF ProactiveTypeOK
<1>7. UnusedIsFresh' /\ FlushHolds'
  BY <1>1 DEF ProactiveInv, UnusedIsFresh, FlushHolds, Holds, Done
<1>8. ClaimedIsPulled'
  BY <1>1, <1>2, <1>5 DEF ProactiveInv, ClaimedIsPulled
<1>9. NothingVanishes' /\ SentIsNotListed' /\ SentInOrder'
  BY <1>1 DEF ProactiveInv, NothingVanishes, SentIsNotListed, SentInOrder, Gone
<1> QED
  BY <1>6, <1>7, <1>8, <1>9 DEF ProactiveInv

(* A flush starts: what stands before a row it lists is listed as well, or has
   left the table. *)
LEMMA StartFlushKeeps ==
  ASSUME ProactiveInv, NEW f \in Flushes, StartFlush(f)
  PROVE  ProactiveInv'
<1> DEFINE todo == Oldest(queue, FlushLimit)
<1>1. /\ Proceed(f, todo, queue) /\ Touch
      /\ UNCHANGED <<activeHours, lastId, kind, tried, claimed, evicted, interrupted,
                     queueFaults>>
  BY DEF StartFlush
<1>2. ProactiveTypeOK
  BY DEF ProactiveInv
<1>3. /\ todo \in SUBSET queue /\ queue \in SUBSET (1..lastId) /\ IsFiniteSet(queue)
      /\ queue \in SUBSET Nat
  <2>1. queue \in SUBSET (1..lastId) /\ IsFiniteSet(queue) /\ lastId \in Nat
    BY <1>2, ShrunkQueueFits, ProactiveAssumption DEF ProactiveTypeOK
  <2> QED
    BY <2>1 DEF Oldest
<1>4. ASSUME NEW m \in (1..lastId) \ todo, kind[m] \in Immediate, NEW k \in todo, m < k
      PROVE  Done(m)'
  <2>1. m \notin queue
    BY <1>3, <1>4, OldestIsLower, ProactiveAssumption
  <2>2. kind[m] # "pull" /\ kind[m] # "unsupported"
    BY <1>4 DEF Immediate
  <2>3. m \notin claimed
    BY <2>2 DEF ProactiveInv, ClaimedIsPulled
  <2>4. tried[m] > 0 \/ m \in evicted
    BY <2>1, <2>2, <2>3 DEF ProactiveInv, NothingVanishes, Gone
  <2> QED
    BY <1>1, <2>4 DEF Done
<1> HIDE DEF todo
<1>5. /\ FlushHolds' /\ queue' \in SUBSET queue
      /\ \A m \in queue \ queue' : kind[m] = "unsupported"
      /\ flush' \in [Flushes -> [item : 0..MaxMessages, rest : SUBSET Messages]]
  <2>1. \A m \in 1..lastId : Done(m) => Done(m)'
    BY <1>1 DEF Done
  <2>2. todo \in SUBSET (1..lastId)
    BY <1>3
  <2>3. UNCHANGED <<lastId, kind, evicted>>
    BY <1>1
  <2> QED
    BY <1>1, <1>4, <2>1, <2>2, <2>3, ProceedKeepsHolds
<1>6. queue' \in SUBSET (1..lastId) /\ Cardinality(queue') <= Max(QueueLimits)
  BY <1>2, <1>5, ShrunkQueueFits
<1>7. ProactiveTypeOK'
  BY <1>1, <1>2, <1>5, <1>6 DEF ProactiveTypeOK, Touch
<1>8. UnusedIsFresh' /\ ClaimedIsPulled'
  BY <1>1 DEF ProactiveInv, UnusedIsFresh, ClaimedIsPulled
<1>9. NothingVanishes'
  BY <1>1, <1>5 DEF ProactiveInv, NothingVanishes, Gone
<1>10. SentIsNotListed' /\ SentInOrder'
  BY <1>1, <1>5 DEF ProactiveInv, SentIsNotListed, SentInOrder
<1> QED
  BY <1>5, <1>7, <1>8, <1>9, <1>10 DEF ProactiveInv

(* Sends that end, one after another or several at once in a crash, are those the
   flushes were at; everything older has had its turn. *)
LEMMA SendsKeepOrder ==
  ASSUME ProactiveInv, UNCHANGED <<lastId, kind, claimed, evicted>>,
         \A m \in Messages :
           \/ tried'[m] = tried[m]
           \/ tried'[m] = tried[m] + 1 /\ \E f \in Flushes : flush[f].item = m
  PROVE  /\ UnusedIsFresh' /\ ClaimedIsPulled' /\ SentInOrder'
         /\ \A m \in 1..lastId : Done(m) => Done(m)'
<1>1. /\ tried \in [Messages -> Nat] /\ lastId \in Nat
      /\ \A m \in 1..lastId : m \in Messages
      /\ \A f \in Flushes : flush[f].item \in 0..MaxMessages
                            /\ flush[f].rest \in SUBSET Messages
  BY ProactiveAssumption DEF ProactiveInv, ProactiveTypeOK, Messages
<1>2. \A m \in Messages : tried[m] > 0 => tried'[m] > 0
  BY <1>1
<1>3. UnusedIsFresh'
  <2> SUFFICES ASSUME NEW m \in Messages, m > lastId PROVE tried'[m] = 0
    BY DEF UnusedIsFresh
  <2>1. tried[m] = 0
    BY DEF ProactiveInv, UnusedIsFresh
  <2>2. ASSUME NEW f \in Flushes PROVE flush[f].item # m
    <3>1. Holds(flush[f].item, flush[f].rest)
      BY DEF ProactiveInv, FlushHolds
    <3> QED
      BY <1>1, <3>1 DEF Holds, Messages
  <2> QED
    BY <2>1, <2>2
<1>4. ClaimedIsPulled'
  BY DEF ProactiveInv, ClaimedIsPulled
<1>5. \A m \in 1..lastId : Done(m) => Done(m)'
  BY <1>1, <1>2 DEF Done
<1>6. SentInOrder'
  <2> SUFFICES ASSUME NEW m \in 1..lastId, NEW n \in 1..lastId, m < n,
                      kind[m] \in Immediate, kind[n] \in Immediate, tried'[n] > 0
               PROVE  tried'[m] > 0 \/ m \in evicted
    BY DEF SentInOrder
  <2>1. CASE tried[n] > 0
    <3>1. tried[m] > 0 \/ m \in evicted
      BY <2>1 DEF ProactiveInv, SentInOrder
    <3> QED
      BY <1>1, <1>2, <3>1
  <2>2. CASE ~(tried[n] > 0)
    <3>1. PICK f \in Flushes : flush[f].item = n
      BY <1>1, <2>2
    <3>2. Holds(n, flush[f].rest)
      BY <3>1 DEF ProactiveInv, FlushHolds
    <3>3. m # n /\ n # 0 /\ ~(n < m)
      BY <1>1
    <3>4. Done(m)
      BY <3>2, <3>3 DEF Holds
    <3> QED
      BY <1>1, <1>2, <3>4 DEF Done
  <2> QED
    BY <2>1, <2>2
<1> QED
  BY <1>3, <1>4, <1>5, <1>6

(* A send has ended; the flush goes on. *)
LEMMA SentKeeps ==
  ASSUME ProactiveInv, NEW f \in Flushes, Sent(f)
  PROVE  ProactiveInv'
<1>1. PICK n \in Messages :
        /\ flush[f].item = n /\ n # 0
        /\ tried' = [tried EXCEPT ![n] = @ + 1]
        /\ Proceed(f, flush[f].rest, queue \ {n})
  BY DEF Sent, Sending, SendEnds
<1>2. /\ Touch
      /\ UNCHANGED <<activeHours, lastId, kind, claimed, evicted, interrupted, queueFaults>>
  BY DEF Sent
<1>3. ProactiveTypeOK /\ tried \in [Messages -> Nat] /\ lastId \in Nat
      /\ \A m \in 1..lastId : m \in Messages
  BY ProactiveAssumption DEF ProactiveInv, ProactiveTypeOK, Messages
<1>4. /\ tried' \in [Messages -> Nat] /\ tried'[n] > 0
      /\ \A m \in Messages : m # n => tried'[m] = tried[m]
      /\ \A m \in Messages : tried[m] > 0 => tried'[m] > 0
  BY <1>1, <1>3
<1>5. /\ UnusedIsFresh' /\ ClaimedIsPulled' /\ SentInOrder'
      /\ \A m \in 1..lastId : Done(m) => Done(m)'
  BY <1>1, <1>2, <1>3, SendsKeepOrder
<1>6. /\ n <= lastId
      /\ \A m \in flush[f].rest : n < m /\ m <= lastId
      /\ \A m \in (1..lastId) \ (flush[f].rest \cup {n}) :
           kind[m] \in Immediate /\ (m < n \/ \E r \in flush[f].rest : m < r) => Done(m)
      /\ flush[f].rest \in SUBSET Messages
  <2>1. Holds(n, flush[f].rest)
    BY <1>1 DEF ProactiveInv, FlushHolds
  <2> QED
    BY <1>1, <1>3, <2>1 DEF Holds, ProactiveTypeOK
<1>7. PICK todo : todo = flush[f].rest
  OBVIOUS
<1>8. ASSUME NEW m \in (1..lastId) \ todo, kind[m] \in Immediate, \E k \in todo : m < k
      PROVE  Done(m)'
  <2>1. CASE m = n
    BY <1>4, <2>1 DEF Done
  <2>2. CASE m # n
    BY <1>5, <1>6, <1>7, <1>8, <2>2
  <2> QED
    BY <2>1, <2>2
<1>9. /\ FlushHolds' /\ queue' \in SUBSET (queue \ {n})
      /\ \A m \in (queue \ {n}) \ queue' : kind[m] = "unsupported"
      /\ flush' \in [Flushes -> [item : 0..MaxMessages, rest : SUBSET Messages]]
  <2>1. todo \in SUBSET (1..lastId)
    BY <1>3, <1>6, <1>7 DEF Messages
  <2>2. queue \ {n} \in SUBSET queue
    OBVIOUS
  <2>3. UNCHANGED <<lastId, kind, evicted>>
    BY <1>2
  <2>4. Proceed(f, todo, queue \ {n})
    BY <1>1, <1>7
  <2> QED
    BY <1>5, <1>8, <2>1, <2>2, <2>3, <2>4, ProceedKeepsHolds
<1>10. queue' \in SUBSET (1..lastId) /\ Cardinality(queue') <= Max(QueueLimits)
  BY <1>3, <1>9, ShrunkQueueFits
<1>11. ProactiveTypeOK'
  BY <1>2, <1>3, <1>4, <1>9, <1>10 DEF ProactiveTypeOK, Touch
<1>12. NothingVanishes'
  <2> SUFFICES ASSUME NEW m \in (1..lastId) \ queue'
               PROVE  \/ tried'[m] > 0 \/ m \in claimed \/ kind[m] = "unsupported"
                      \/ m \in evicted /\ lastId >= m + Min(QueueLimits)
    BY <1>2 DEF NothingVanishes, Gone
  <2>1. CASE m = n
    BY <1>4, <2>1
  <2>2. CASE m # n /\ m \in queue
    BY <1>9, <2>2
  <2>3. CASE m \notin queue
    <3>1. \/ tried[m] > 0 \/ m \in claimed \/ kind[m] = "unsupported"
          \/ m \in evicted /\ lastId >= m + Min(QueueLimits)
      BY <2>3 DEF ProactiveInv, NothingVanishes, Gone
    <3> QED
      BY <1>3, <1>4, <3>1
  <2> QED
    BY <2>1, <2>2, <2>3
<1>13. SentIsNotListed'
  <2> SUFFICES ASSUME NEW m \in queue', tried'[m] > 0 PROVE m \in interrupted
    BY <1>2 DEF SentIsNotListed
  <2>1. m \in queue /\ m # n /\ m \in Messages
    BY <1>3, <1>9, <1>10
  <2>2. tried[m] > 0
    BY <1>4, <2>1
  <2> QED
    BY <2>1, <2>2 DEF ProactiveInv, SentIsNotListed
<1> QED
  BY <1>5, <1>9, <1>11, <1>12, <1>13 DEF ProactiveInv

(* Flushes that stop in the middle of their lists take nothing for granted any
   more; the table stays as it is. *)
LEMMA StoppedFlushesKeep ==
  ASSUME ProactiveInv, UNCHANGED table, tried' \in [Messages -> Nat],
         \A m \in Messages :
           \/ tried'[m] = tried[m]
           \/ tried'[m] = tried[m] + 1 /\ m \in interrupted'
              /\ \E f \in Flushes : flush[f].item = m,
         interrupted' \in SUBSET Messages, interrupted \subseteq interrupted',
         \A f \in Flushes : flush'[f] = flush[f] \/ flush'[f] = Idle
  PROVE  /\ UnusedIsFresh' /\ ClaimedIsPulled' /\ FlushHolds'
         /\ NothingVanishes' /\ SentIsNotListed' /\ SentInOrder'
<1>1. UNCHANGED <<lastId, kind, queue, claimed, evicted>>
  BY DEF table
<1>2. /\ UnusedIsFresh' /\ ClaimedIsPulled' /\ SentInOrder'
      /\ \A m \in 1..lastId : Done(m) => Done(m)'
  BY <1>1, SendsKeepOrder
<1>3. /\ tried \in [Messages -> Nat] /\ queue \in SUBSET (1..lastId)
      /\ \A m \in 1..lastId : m \in Messages
  BY ProactiveAssumption DEF ProactiveInv, ProactiveTypeOK, Messages
<1>4. FlushHolds'
  <2> SUFFICES ASSUME NEW f \in Flushes PROVE Holds(flush[f].item, flush[f].rest)'
    BY DEF FlushHolds
  <2>1. CASE flush'[f] = flush[f]
    <3>1. Holds(flush[f].item, flush[f].rest)
      BY DEF ProactiveInv, FlushHolds
    <3> QED
      BY <1>1, <1>2, <2>1, <3>1 DEF Holds
  <2>2. CASE flush'[f] = Idle
    BY <2>2 DEF Holds, Idle
  <2> QED
    BY <2>1, <2>2
<1>5. NothingVanishes'
  <2> SUFFICES ASSUME NEW m \in (1..lastId) \ queue
               PROVE  \/ tried'[m] > 0 \/ m \in claimed \/ kind[m] = "unsupported"
                      \/ m \in evicted /\ lastId >= m + Min(QueueLimits)
    BY <1>1 DEF NothingVanishes, Gone
  <2>1. \/ tried[m] > 0 \/ m \in claimed \/ kind[m] = "unsupported"
        \/ m \in evicted /\ lastId >= m + Min(QueueLimits)
    BY DEF ProactiveInv, NothingVanishes, Gone
  <2> QED
    BY <1>3, <2>1
<1>6. SentIsNotListed'
  BY <1>1, <1>3 DEF ProactiveInv, SentIsNotListed
<1> QED
  BY <1>2, <1>4, <1>5, <1>6

(* The error of a send, a failing delete, and the end of the process. *)
LEMMA FaultsKeep ==
  ASSUME ProactiveInv,
         \/ Restart /\ queueFaults' \in 0..MaxQueueFaults
         \/ \E f \in Flushes : SendThrows(f) \/ DeleteFails(f)
  PROVE  ProactiveInv'
<1>1. /\ ProactiveTypeOK /\ tried \in [Messages -> Nat]
      /\ queueFaults \in 0..MaxQueueFaults
      /\ flush \in [Flushes -> [item : 0..MaxMessages, rest : SUBSET Messages]]
      /\ MaxQueueFaults \in Nat /\ MaxMessages \in Nat
      /\ interrupted \in SUBSET Messages
  BY ProactiveAssumption DEF ProactiveInv, ProactiveTypeOK
<1>2. Idle \in [item : 0..MaxMessages, rest : SUBSET Messages]
  BY <1>1 DEF Idle
<1>3. CASE Restart /\ queueFaults' \in 0..MaxQueueFaults
  <2> DEFINE held == {flush[f].item : f \in Flushes} \ {0}
  <2>1. PICK arrived \in SUBSET held :
          tried' = [m \in Messages |-> IF m \in arrived THEN tried[m] + 1 ELSE tried[m]]
    BY <1>3 DEF Restart
  <2>2. /\ database' = "open" /\ interrupted' = interrupted \cup held
        /\ flush' = [f \in Flushes |-> Idle] /\ UNCHANGED <<activeHours, table>>
    BY <1>3 DEF Restart
  <2>3. held \in SUBSET Messages
    BY <1>1 DEF Messages
  <2>4. tried' \in [Messages -> Nat]
    BY <1>1, <2>1
  <2>5. \A m \in Messages :
          \/ tried'[m] = tried[m]
          \/ tried'[m] = tried[m] + 1 /\ m \in interrupted'
             /\ \E f \in Flushes : flush[f].item = m
    <3> SUFFICES ASSUME NEW m \in Messages, m \in arrived
                 PROVE  m \in held /\ tried'[m] = tried[m] + 1
      BY <2>1, <2>2
    <3> QED
      BY <2>1
  <2>6. /\ \A f \in Flushes : flush'[f] = flush[f] \/ flush'[f] = Idle
        /\ interrupted' \in SUBSET Messages /\ interrupted \subseteq interrupted'
    BY <1>1, <2>2, <2>3
  <2> HIDE DEF held
  <2>7. /\ UnusedIsFresh' /\ ClaimedIsPulled' /\ FlushHolds'
        /\ NothingVanishes' /\ SentIsNotListed' /\ SentInOrder'
    BY <2>2, <2>4, <2>5, <2>6, StoppedFlushesKeep
  <2>8. ProactiveTypeOK'
    BY <1>1, <1>2, <1>3, <2>2, <2>4, <2>6 DEF ProactiveTypeOK, table
  <2> QED
    BY <2>7, <2>8 DEF ProactiveInv
<1>4. ASSUME NEW f \in Flushes, SendThrows(f) PROVE ProactiveInv'
  <2>1. /\ flush' = [flush EXCEPT ![f] = Idle] /\ queueFaults' \in 0..MaxQueueFaults
        /\ UNCHANGED <<activeHours, database, table, tried, interrupted>>
    BY <1>1, <1>4 DEF SendThrows, Fault, Throws, table
  <2>2. \A g \in Flushes : flush'[g] = flush[g] \/ flush'[g] = Idle
    BY <1>1, <2>1
  <2>3. /\ UnusedIsFresh' /\ ClaimedIsPulled' /\ FlushHolds'
        /\ NothingVanishes' /\ SentIsNotListed' /\ SentInOrder'
    BY <1>1, <2>1, <2>2, StoppedFlushesKeep
  <2>4. ProactiveTypeOK'
    BY <1>1, <1>2, <2>1 DEF ProactiveTypeOK, table
  <2> QED
    BY <2>3, <2>4 DEF ProactiveInv
<1>5. ASSUME NEW f \in Flushes, DeleteFails(f) PROVE ProactiveInv'
  <2>1. PICK n \in Messages :
          /\ flush[f].item = n /\ tried' = [tried EXCEPT ![n] = @ + 1]
          /\ interrupted' = interrupted \cup {n}
    BY <1>5 DEF DeleteFails, Sending
  <2>2. /\ flush' = [flush EXCEPT ![f] = Idle] /\ queueFaults' \in 0..MaxQueueFaults
        /\ Touch /\ UNCHANGED <<activeHours, table>>
    BY <1>1, <1>5 DEF DeleteFails, Fault
  <2>3. /\ \A g \in Flushes : flush'[g] = flush[g] \/ flush'[g] = Idle
        /\ interrupted' \in SUBSET Messages /\ interrupted \subseteq interrupted'
    BY <1>1, <2>1, <2>2
  <2>4. tried' \in [Messages -> Nat]
    BY <1>1, <2>1
  <2>5. \A m \in Messages :
          \/ tried'[m] = tried[m]
          \/ tried'[m] = tried[m] + 1 /\ m \in interrupted'
             /\ \E g \in Flushes : flush[g].item = m
    BY <1>1, <2>1
  <2>6. /\ UnusedIsFresh' /\ ClaimedIsPulled' /\ FlushHolds'
        /\ NothingVanishes' /\ SentIsNotListed' /\ SentInOrder'
    BY <2>2, <2>3, <2>4, <2>5, StoppedFlushesKeep
  <2>7. ProactiveTypeOK'
    BY <1>1, <1>2, <2>2, <2>3, <2>4 DEF ProactiveTypeOK, table, Touch
  <2> QED
    BY <2>6, <2>7 DEF ProactiveInv
<1> QED
  BY <1>3, <1>4, <1>5

-----------------------------------------------------------------------------
(* Every step of the queue, its flushes, the terminal UI and the process. *)
LEMMA ProactiveStepInv == ProactiveInv /\ [ProactiveNext]_proactiveVars => ProactiveInv'
<1> SUFFICES ASSUME ProactiveInv, [ProactiveNext]_proactiveVars PROVE ProactiveInv'
  OBVIOUS
<1>1. CASE \E k \in Kinds, limit \in QueueLimits : Enqueue(k, limit)
  BY <1>1, EnqueueKeeps
<1>2. CASE Claim
  BY <1>2, ClaimKeeps
<1>3. CASE Die
  <2>1. Restart /\ queueFaults' \in 0..MaxQueueFaults
    BY <1>3, ProactiveAssumption DEF Die, Fault, ProactiveInv, ProactiveTypeOK
  <2> QED
    BY <2>1, FaultsKeep
<1>4. CASE CloseDatabase
  <2>1. ProactiveTypeOK'
    BY <1>4, ProactiveAssumption
       DEF CloseDatabase, Fault, table, ProactiveInv, ProactiveTypeOK
  <2>2. UNCHANGED <<lastId, kind, queue, claimed, evicted, flush, tried, interrupted>>
    BY <1>4 DEF CloseDatabase, table
  <2> QED
    BY <2>1, <2>2 DEF ProactiveInv, UnusedIsFresh, ClaimedIsPulled, FlushHolds, Holds,
                      Done, NothingVanishes, Gone, SentIsNotListed, SentInOrder
<1>5. CASE Exit
  <2>1. Restart /\ queueFaults' \in 0..MaxQueueFaults
    BY <1>5 DEF Exit, ProactiveInv, ProactiveTypeOK
  <2> QED
    BY <2>1, FaultsKeep
<1>6. CASE HoursChange
  <2>1. ProactiveTypeOK'
    BY <1>6 DEF HoursChange, table, ProactiveInv, ProactiveTypeOK
  <2>2. UNCHANGED <<lastId, kind, queue, claimed, evicted, flush, tried, interrupted>>
    BY <1>6 DEF HoursChange, table
  <2> QED
    BY <2>1, <2>2 DEF ProactiveInv, UnusedIsFresh, ClaimedIsPulled, FlushHolds, Holds,
                      Done, NothingVanishes, Gone, SentIsNotListed, SentInOrder
<1>7. ASSUME NEW f \in Flushes, StartFlush(f) \/ Sent(f) \/ SendThrows(f) \/ DeleteFails(f)
      PROVE  ProactiveInv'
  BY <1>7, StartFlushKeeps, SentKeeps, FaultsKeep
<1>8. CASE UNCHANGED proactiveVars
  BY <1>8 DEF proactiveVars, table, ProactiveInv, ProactiveTypeOK, UnusedIsFresh,
              ClaimedIsPulled, FlushHolds, Holds, Done, NothingVanishes, Gone,
              SentIsNotListed, SentInOrder
<1> QED
  BY <1>1, <1>2, <1>3, <1>4, <1>5, <1>6, <1>7, <1>8 DEF ProactiveNext

(* The inductive invariant holds in every state of the queue. *)
THEOREM ProactiveInvariant == ProactiveSafety => []ProactiveInv
<1> QED
  BY ProactiveInitInv, ProactiveStepInv, PTL DEF ProactiveSafety

(* The table never holds more rows than the largest limit of its callers, however
   many flushes, faults and shutdowns come in between. *)
THEOREM ProactiveTypeCorrect == ProactiveSafety => []ProactiveTypeOK
<1>1. ProactiveInv => ProactiveTypeOK
  BY DEF ProactiveInv
<1> QED
  BY <1>1, ProactiveInvariant, PTL

(* No message leaves the table without a send of it, a claim by the terminal UI, a
   channel nothing can deliver to, or newer messages in its place. *)
THEOREM MessagesAreAccountedFor == ProactiveSafety => []NothingVanishes
<1>1. ProactiveInv => NothingVanishes
  BY DEF ProactiveInv
<1> QED
  BY <1>1, ProactiveInvariant, PTL

(* A row still in the table after a send of it ended was in the hands of a flush
   that failed or died. *)
THEOREM SentMessagesAreDeleted == ProactiveSafety => []SentIsNotListed
<1>1. ProactiveInv => SentIsNotListed
  BY DEF ProactiveInv
<1> QED
  BY <1>1, ProactiveInvariant, PTL

(* Overlapping flushes keep the order of the messages. *)
THEOREM OrderIsKept == ProactiveSafety => []SentInOrder
<1>1. ProactiveInv => SentInOrder
  BY DEF ProactiveInv
<1> QED
  BY <1>1, ProactiveInvariant, PTL
=============================================================================
