--------------------------- MODULE ConnPoolProofs ---------------------------
(***************************************************************************)
(* Proofs about ConnPool, for any set of threads and any two limits, also  *)
(* limits that make no sense together (kMinCount above kMaxCount, or 0).   *)
(*                                                                         *)
(* CountIsExact and NoLostWakeup depend on each other and on ExclusiveUse: *)
(* the predicate reads the count and the scan the flags, so what a blocked *)
(* thread may conclude from the one holds of the other only while the two  *)
(* agree.  Together with the types they are inductive.                     *)
(***************************************************************************)
EXTENDS ConnPool, FiniteSetTheorems, TLAPS

Counted == using_handler_count = Cardinality(InUse)

(* The inductive invariant. *)
PoolInv == TypeOK /\ ExclusiveUse /\ Counted /\ NoLostWakeup

-----------------------------------------------------------------------------
(* Every set whose cardinality matters is finite. *)
LEMMA FiniteSetsOfPool ==
  ASSUME TypeOK
  PROVE  /\ IsFiniteSet(Slots) /\ IsFiniteSet(InUse)
         /\ IsFiniteSet(1..size) /\ Cardinality(1..size) = size
         /\ IsFiniteSet(Free) /\ IsFiniteSet(Woken)
<1>1. Capacity \in Nat /\ size \in Nat
  BY ConnPoolAssumption DEF TypeOK, Capacity
<1>2. IsFiniteSet(Slots) /\ IsFiniteSet(1..size) /\ Cardinality(1..size) = size
  BY <1>1, FS_Interval DEF Slots
<1>3. InUse \in SUBSET Slots /\ Free \in SUBSET (1..size) /\ Woken \in SUBSET Threads
  BY DEF InUse, Free, Woken
<1> QED
  BY <1>2, <1>3, FS_Subset, ConnPoolAssumption

(* The predicate, which reads the count, tells the truth about the flags,  *)
(* which the scan reads.                                                   *)
LEMMA PredicateIsTruthful ==
  ASSUME TypeOK, ExclusiveUse, Counted
  PROVE  /\ ~Available => InUse = 1..size /\ Free = {} /\ size >= kMaxCount
         /\ Available => Free # {} \/ size < kMaxCount
<1>1. size \in Nat /\ kMaxCount \in Nat /\ using_handler_count \in Int
  BY ConnPoolAssumption DEF TypeOK, Capacity
<1>2. InUse \in SUBSET (1..size)
  BY DEF ExclusiveUse
<1>3. (1..size) \subseteq Slots
  BY <1>1, ConnPoolAssumption DEF TypeOK, Slots, Capacity
<1>4. Free = (1..size) \ InUse
  BY <1>3 DEF Free, InUse
<1>5. Cardinality(1..size) = size /\ IsFiniteSet(1..size)
  BY FiniteSetsOfPool
<1>6. CASE ~Available
  <2>1. using_handler_count = size /\ size >= kMaxCount
    BY <1>1, <1>6 DEF Available
  <2>2. InUse = 1..size
    BY <1>2, <1>5, <2>1, FS_Subset DEF Counted
  <2> QED BY <2>1, <2>2, <1>4, <1>6
<1>7. CASE Available
  <2>1. SUFFICES ASSUME Free = {}, ~(size < kMaxCount) PROVE FALSE
    BY <1>7
  <2>2. InUse = 1..size
    BY <1>2, <1>4, <2>1
  <2>3. using_handler_count = size
    BY <2>2, <1>5 DEF Counted
  <2> QED BY <1>7, <2>1, <2>3 DEF Available
<1> QED BY <1>6, <1>7

-----------------------------------------------------------------------------
(* Handing out connection i. *)
LEMMA AllocatePreserves ==
  ASSUME TypeOK, ExclusiveUse, Counted,
         NEW t \in Threads, Looking(t),
         NEW i \in Slots, i \notin InUse,
         size' \in 0..Capacity, size <= size', i <= size',
         AllocateConnHandler(t, i)
  PROVE  /\ TypeOK' /\ ExclusiveUse' /\ Counted'
         /\ InUse' = InUse \cup {i}
         /\ Waiting' \subseteq Waiting
         /\ Woken' = Woken \ {t}
<1> USE DEF AllocateConnHandler
<1>1. TypeOK'
  BY ConnPoolAssumption DEF TypeOK, Slots, PcState, Capacity
<1>2. InUse' = InUse \cup {i}
  BY DEF TypeOK, InUse
<1>3. Holders' = Holders \cup {t} /\ t \notin Holders
  BY DEF TypeOK, Holders, Looking
<1>4. \A u \in Holders : index'[u] = index[u]
  BY <1>3 DEF TypeOK
<1>5. index'[t] = i
  BY DEF TypeOK
<1>6. \A u \in Holders : index[u] # i
  BY DEF ExclusiveUse
<1>7. ExclusiveUse'
  <2>1. \A u, v \in Holders' : index'[u] = index'[v] => u = v
    BY <1>3, <1>4, <1>5, <1>6 DEF ExclusiveUse
  <2>2. InUse' = {index'[u] : u \in Holders'}
    BY <1>2, <1>3, <1>4, <1>5 DEF ExclusiveUse
  <2>3. InUse' \subseteq 1..size'
    <3>1. Capacity \in Nat
      BY ConnPoolAssumption DEF Capacity
    <3>2. size \in Nat /\ size' \in Nat /\ i \in Nat \ {0}
      BY <3>1 DEF TypeOK, Slots
    <3>3. i \in 1..size' /\ (1..size) \subseteq 1..size'
      BY <3>2
    <3> QED BY <1>2, <3>3 DEF ExclusiveUse
  <2> QED BY <2>1, <2>2, <2>3 DEF ExclusiveUse
<1>8. Counted'
  BY <1>2, FiniteSetsOfPool, FS_AddElement DEF Counted
<1>9. Waiting' \subseteq Waiting /\ Woken' = Woken \ {t}
  BY DEF TypeOK, Waiting, Woken, Looking
<1> QED BY <1>1, <1>2, <1>7, <1>8, <1>9

(* A step that moves threads between program points without touching the   *)
(* connections keeps what is said of the connections.                      *)
LEMMA PcStepPreserves ==
  ASSUME TypeOK, ExclusiveUse, Counted,
         pc' \in [Threads -> PcState], late' \subseteq Threads,
         Holders' = Holders,
         UNCHANGED <<size, is_using, using_handler_count, index>>
  PROVE  TypeOK' /\ ExclusiveUse' /\ Counted' /\ Free' = Free /\ InUse' = InUse
<1>1. InUse' = InUse /\ Free' = Free
  BY DEF InUse, Free
<1>2. TypeOK'
  BY DEF TypeOK
<1>3. ExclusiveUse'
  BY <1>1 DEF ExclusiveUse
<1>4. Counted'
  BY <1>1 DEF Counted
<1> QED BY <1>1, <1>2, <1>3, <1>4

-----------------------------------------------------------------------------
(* The constructor leaves every connection free and nobody waiting. *)
LEMMA InitPool == Init => PoolInv
<1> SUFFICES ASSUME Init PROVE PoolInv
  OBVIOUS
<1>1. TypeOK
  BY ConnPoolAssumption DEF Init, TypeOK, Capacity, Slots, PcState
<1>2. InUse = {} /\ Holders = {} /\ Waiting = {}
  BY DEF Init, InUse, Holders, Waiting
<1>3. ExclusiveUse /\ NoLostWakeup
  BY <1>2 DEF ExclusiveUse, NoLostWakeup
<1>4. Counted
  BY <1>2, FS_EmptySet DEF Counted, Init
<1> QED BY <1>1, <1>3, <1>4 DEF PoolInv

(* RequestHandler finds a free connection and flags it. *)
LEMMA TakeFreePreserves ==
  ASSUME PoolInv, NEW t \in Threads, TakeFree(t)
  PROVE  PoolInv'
<1> USE DEF PoolInv
<1>1. PICK i \in Free : AllocateConnHandler(t, i)
  BY DEF TakeFree
<1>2. Looking(t) /\ size' = size
  BY DEF TakeFree
<1>3. i \in Slots /\ i \notin InUse /\ i <= size' /\ size' \in 0..Capacity /\ size <= size'
  BY <1>2, ConnPoolAssumption DEF Free, InUse, Slots, Capacity, TypeOK
<1>4. /\ TypeOK' /\ ExclusiveUse' /\ Counted' /\ InUse' = InUse \cup {i}
      /\ Waiting' \subseteq Waiting /\ Woken' = Woken \ {t}
  BY <1>1, <1>2, <1>3, AllocatePreserves
<1>5. NoLostWakeup'
  <2>1. Free' = Free \ {i}
    BY <1>1, <1>2, ConnPoolAssumption DEF AllocateConnHandler, Free, TypeOK, Slots, Capacity
  <2>2. Cardinality(Free') = Cardinality(Free) - 1
    BY <2>1, FiniteSetsOfPool, FS_RemoveElement
  <2>3. Cardinality(Woken') \in {Cardinality(Woken), Cardinality(Woken) - 1}
    BY <1>4, FiniteSetsOfPool, FS_RemoveElement
  <2>4. Cardinality(Free) \in Nat /\ Cardinality(Woken) \in Nat
    BY FiniteSetsOfPool, FS_CardinalityType
  <2> QED BY <1>2, <1>4, <2>2, <2>3, <2>4 DEF NoLostWakeup
<1> QED BY <1>4, <1>5

(* The pool grows only while nobody is blocked. *)
LEMMA GrowPreserves ==
  ASSUME PoolInv, NEW t \in Threads, Grow(t)
  PROVE  PoolInv'
<1> USE DEF PoolInv
<1> DEFINE i == size + 1
<1>1. Looking(t) /\ size' = size + 1 /\ size < kMaxCount /\ AllocateConnHandler(t, i)
  BY DEF Grow
<1>2. i \in Slots /\ i \notin InUse /\ i <= size' /\ size' \in 0..Capacity /\ size <= size'
  BY <1>1, ConnPoolAssumption DEF ExclusiveUse, Slots, Capacity, TypeOK
<1>3. TypeOK' /\ ExclusiveUse' /\ Counted' /\ Waiting' \subseteq Waiting
  <2> HIDE DEF i
  <2> QED BY <1>1, <1>2, AllocatePreserves
<1>4. Waiting = {}
  BY <1>1, ConnPoolAssumption DEF NoLostWakeup, TypeOK, Capacity
<1> QED BY <1>3, <1>4 DEF NoLostWakeup

(* nullptr is returned only when nothing is free. *)
LEMMA RefusePreserves ==
  ASSUME PoolInv, NEW t \in Threads, Refuse(t)
  PROVE  PoolInv' /\ InUse = 1..size /\ size >= kMaxCount
<1> USE DEF PoolInv
<1>1. ~Available
  BY PredicateIsTruthful, ConnPoolAssumption DEF Refuse, TypeOK, Capacity
<1>2. InUse = 1..size /\ Free = {} /\ size >= kMaxCount
  BY <1>1, PredicateIsTruthful
<1>3. pc' \in [Threads -> PcState] /\ late' \subseteq Threads /\ Holders' = Holders
  BY DEF Refuse, ReturnNull, Looking, TypeOK, PcState, Holders
<1>4. TypeOK' /\ ExclusiveUse' /\ Counted' /\ Free' = Free
  BY <1>3, PcStepPreserves DEF Refuse, ReturnNull
<1>5. Cardinality(Free') = 0 /\ size' >= kMaxCount
  BY <1>2, <1>4, FS_EmptySet DEF Refuse, ReturnNull
<1>6. Cardinality(Woken') \in Nat
  BY <1>4, FS_CardinalityType, FiniteSetsOfPool, FS_Subset, ConnPoolAssumption DEF Woken
<1> QED BY <1>2, <1>4, <1>5, <1>6 DEF NoLostWakeup

(* A thread blocks only when nothing is free. *)
LEMMA WaitPreserves ==
  ASSUME PoolInv, NEW t \in Threads, Wait(t)
  PROVE  PoolInv'
<1> USE DEF PoolInv
<1>1. InUse = 1..size /\ Free = {} /\ size >= kMaxCount
  BY PredicateIsTruthful DEF Wait
<1>2. pc' \in [Threads -> PcState] /\ late' \subseteq Threads /\ Holders' = Holders
  BY DEF Wait, Looking, TypeOK, PcState, Holders
<1>3. TypeOK' /\ ExclusiveUse' /\ Counted' /\ Free' = Free
  BY <1>2, PcStepPreserves DEF Wait
<1>4. Cardinality(Free') = 0 /\ size' >= kMaxCount
  BY <1>1, <1>3, FS_EmptySet DEF Wait
<1>5. Cardinality(Woken') \in Nat
  BY FS_CardinalityType, FS_Subset, ConnPoolAssumption DEF Woken
<1> QED BY <1>3, <1>4, <1>5 DEF NoLostWakeup

(* Waking up, for whatever reason, only adds a thread that will look. *)
LEMMA WakeUpPreserves ==
  ASSUME PoolInv, NEW t \in Threads, WakeUp(t)
  PROVE  PoolInv'
<1> USE DEF PoolInv
<1>1. pc' \in [Threads -> PcState] /\ late' \subseteq Threads /\ Holders' = Holders
  BY DEF WakeUp, TypeOK, PcState, Holders
<1>2. TypeOK' /\ ExclusiveUse' /\ Counted' /\ Free' = Free
  BY <1>1, PcStepPreserves DEF WakeUp
<1>3. Waiting' \subseteq Waiting /\ Woken' = Woken \cup {t}
  BY DEF WakeUp, TypeOK, Waiting, Woken
<1>4. Cardinality(Woken') \in {Cardinality(Woken), Cardinality(Woken) + 1}
  BY <1>3, FiniteSetsOfPool, FS_AddElement
<1>5. Cardinality(Free) \in Nat /\ Cardinality(Woken) \in Nat
  BY FiniteSetsOfPool, FS_CardinalityType
<1> QED BY <1>2, <1>3, <1>4, <1>5 DEF NoLostWakeup, WakeUp

(* Calling RequestHandler, and the passing of a deadline, concern neither   *)
(* the blocked nor the woken threads.                                       *)
LEMMA OtherPcStepPreserves ==
  ASSUME PoolInv, NEW t \in Threads, Request(t) \/ DeadlinePasses(t)
  PROVE  PoolInv'
<1> USE DEF PoolInv
<1>1. pc' \in [Threads -> PcState] /\ late' \subseteq Threads /\ Holders' = Holders
  BY DEF Request, DeadlinePasses, TypeOK, PcState, Holders
<1>2. TypeOK' /\ ExclusiveUse' /\ Counted' /\ Free' = Free
  BY <1>1, PcStepPreserves DEF Request, DeadlinePasses
<1>3. Waiting' = Waiting /\ Woken' = Woken /\ size' = size
  BY DEF Request, DeadlinePasses, TypeOK, Waiting, Woken
<1> QED BY <1>2, <1>3 DEF NoLostWakeup

(* A connection that is given back is matched by the thread notify_one     *)
(* wakes, if any is blocked.                                               *)
LEMMA ReleasePreserves ==
  ASSUME PoolInv, NEW t \in Threads, ReleaseConnHandler(t)
  PROVE  PoolInv'
<1> USE DEF PoolInv
<1> DEFINE i == index[t]
<1>1. t \in Holders /\ i \in InUse /\ i \in 1..size /\ i \in Slots
  BY DEF ReleaseConnHandler, Holders, ExclusiveUse, InUse
<1>2. TypeOK'
  <2>1. pc' \in [Threads -> PcState]
    BY DEF ReleaseConnHandler, TypeOK, PcState, Waiting
  <2>2. index' \in [Threads -> 0..Capacity]
    BY ConnPoolAssumption DEF ReleaseConnHandler, TypeOK, Capacity
  <2>3. is_using' \in [Slots -> BOOLEAN]
    BY <1>1 DEF ReleaseConnHandler, TypeOK
  <2>4. using_handler_count' \in Int /\ size' = size /\ late' = late
    BY DEF ReleaseConnHandler, TypeOK
  <2> QED BY <2>1, <2>2, <2>3, <2>4 DEF TypeOK
<1>3. InUse' = InUse \ {i}
  BY <1>1 DEF ReleaseConnHandler, TypeOK, InUse
<1>4. Holders' = Holders \ {t}
  BY DEF ReleaseConnHandler, TypeOK, Holders, Waiting
<1>5. \A u \in Holders' : index'[u] = index[u]
  BY <1>4 DEF ReleaseConnHandler, TypeOK
<1>6. ExclusiveUse'
  <2>1. \A u, v \in Holders' : index'[u] = index'[v] => u = v
    BY <1>4, <1>5 DEF ExclusiveUse
  <2>2. InUse' = {index'[u] : u \in Holders'}
    BY <1>1, <1>3, <1>4, <1>5 DEF ExclusiveUse
  <2>3. InUse' \subseteq 1..size'
    BY <1>3 DEF ExclusiveUse, ReleaseConnHandler
  <2> QED BY <2>1, <2>2, <2>3 DEF ExclusiveUse
<1>7. Counted'
  BY <1>1, <1>3, FiniteSetsOfPool, FS_RemoveElement DEF Counted, ReleaseConnHandler
<1>8. NoLostWakeup'
  <2>1. CASE Waiting = {}
    <3>1. Waiting' = {}
      BY <2>1 DEF ReleaseConnHandler, TypeOK, Waiting
    <3> QED BY <3>1 DEF NoLostWakeup
  <2>2. CASE Waiting # {}
    <3>1. PICK u \in Waiting : pc' = [pc EXCEPT ![t] = "idle", ![u] = "woken"]
      BY <2>2 DEF ReleaseConnHandler
    <3>2. Woken' = Woken \cup {u} /\ u \notin Woken
      BY <3>1, <1>1 DEF TypeOK, Woken, Waiting, Holders
    <3>3. Free' = Free \cup {i}
      BY <1>1 DEF ReleaseConnHandler, Free, TypeOK
    <3>4. Cardinality(Woken') = Cardinality(Woken) + 1
      BY <3>2, FiniteSetsOfPool, FS_AddElement
    <3>5. Cardinality(Free') \in {Cardinality(Free), Cardinality(Free) + 1}
      BY <3>3, FiniteSetsOfPool, FS_AddElement
    <3>6. Cardinality(Free) \in Nat /\ Cardinality(Woken) \in Nat
      BY FiniteSetsOfPool, FS_CardinalityType
    <3>7. size' = size
      BY DEF ReleaseConnHandler
    <3> QED BY <2>2, <3>4, <3>5, <3>6, <3>7 DEF NoLostWakeup
  <2> QED BY <2>1, <2>2
<1> QED BY <1>2, <1>6, <1>7, <1>8

(* Every step of every thread preserves the invariant. *)
LEMMA NextPool == PoolInv /\ [Next]_vars => PoolInv'
<1> SUFFICES ASSUME PoolInv, [Next]_vars PROVE PoolInv'
  OBVIOUS
<1>1. CASE UNCHANGED vars
  BY <1>1 DEF vars, PoolInv, TypeOK, ExclusiveUse, Counted, NoLostWakeup,
             InUse, Holders, Waiting, Woken, Free
<1>2. CASE Next
  BY <1>2, TakeFreePreserves, GrowPreserves, RefusePreserves, WaitPreserves,
     WakeUpPreserves, OtherPcStepPreserves, ReleasePreserves DEF Next, Step
<1> QED BY <1>1, <1>2

(* For any threads and limits, RequestHandler and ReleaseConnHandler keep  *)
(* the inductive invariant: flags, count, holders and waiting threads      *)
(* agree.                                                                  *)
THEOREM PoolCorrect == Spec => []PoolInv
BY InitPool, NextPool, PTL DEF Spec

-----------------------------------------------------------------------------
(* Type correctness: in particular the pool never outgrows the larger of   *)
(* its two limits (RequestHandler's test before push_back).                *)
THEOREM PoolTypeOK == Spec => []TypeOK
BY PoolCorrect, PTL DEF PoolInv

(* No connection is ever in the hands of two threads. *)
THEOREM PoolExclusive == Spec => []ExclusiveUse
BY PoolCorrect, PTL DEF PoolInv

(* using_handler_count_ never drifts from the is_using_ flags, so the last  *)
(* return of RequestHandler is never reached.                               *)
THEOREM PoolCountIsExact == Spec => []CountIsExact
<1>1. PoolInv => CountIsExact
  BY PredicateIsTruthful DEF PoolInv, CountIsExact, Counted
<1> QED BY PoolCorrect, <1>1, PTL

(* One notify_one for each connection given back loses no wake-up. *)
THEOREM PoolNoLostWakeup == Spec => []NoLostWakeup
BY PoolCorrect, PTL DEF PoolInv

(* RequestHandler returns nullptr only while the pool is exhausted. *)
THEOREM PoolRefusal == Spec => RefusedOnlyWhenExhausted
<1> DEFINE A == \A t \in Threads :
       (Looking(t) /\ pc'[t] = "idle") => size >= kMaxCount /\ InUse = 1..size
<1>1. PoolInv /\ [Next]_vars => [A]_vars
  <2> SUFFICES ASSUME PoolInv, Next, NEW t \in Threads,
                      Looking(t), pc'[t] = "idle"
               PROVE  size >= kMaxCount /\ InUse = 1..size
    OBVIOUS
  <2>1. PICK u \in Threads : \/ Request(u) \/ Step(u) \/ DeadlinePasses(u)
                             \/ WakeUp(u) \/ ReleaseConnHandler(u)
    BY DEF Next
  <2>2. Refuse(u)
    BY <2>1 DEF Request, Step, TakeFree, Grow, Wait, AllocateConnHandler, DeadlinePasses,
       WakeUp, ReleaseConnHandler, Waiting, Looking, PoolInv, TypeOK
  <2> QED BY <2>2, RefusePreserves
<1> QED BY <1>1, PoolCorrect, PTL DEF Spec, RefusedOnlyWhenExhausted

=============================================================================
