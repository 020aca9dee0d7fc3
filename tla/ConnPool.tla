------------------------------- MODULE ConnPool -------------------------------
(***************************************************************************)
(* dbcp_mysql::ConnPool: a vector of connections that grows from kMinCount *)
(* to kMaxCount, a count of those in use, one mutex and one condition      *)
(* variable.  Threads call RequestHandler with a time limit, use the       *)
(* connection, and give it back when the ConnHandler is destroyed.         *)
(*                                                                         *)
(* Every critical section of handler_wrappers_mtx_ runs to its end, or to  *)
(* the wait, without blocking on another thread of the program, so each is *)
(* one step.  A thread that wakes up, because it was notified, because its *)
(* time is up or for no reason, still has to get the mutex and look at the *)
(* predicate again.                                                        *)
(***************************************************************************)
EXTENDS Integers, Sequences, FiniteSets

CONSTANTS Threads,      \* threads that use the pool
          kMinCount,    \* connections made by the constructor
          kMaxCount     \* connections the pool may grow to

ASSUME ConnPoolAssumption ==
  /\ kMinCount \in Nat /\ kMaxCount \in Nat
  /\ IsFiniteSet(Threads)

VARIABLES
  size,       \* handler_wrappers_.size(); connections are 1..size
  is_using,   \* is_using[i]: HandlerWrapper::is_using_, FALSE beyond size
  using_handler_count,
  pc,         \* pc[t]: where t is in RequestHandler
  late,       \* threads in wait_for whose deadline has passed
  index       \* index[t]: ConnHandler::index_ of the handler t holds, or 0

vars == <<size, is_using, using_handler_count, pc, late, index>>

(* The pool never holds more connections than this. *)
Capacity == IF kMinCount > kMaxCount THEN kMinCount ELSE kMaxCount
Slots == 1..Capacity

(* idle: outside; request: called, wants the mutex; waiting: blocked on    *)
(* the condition variable; woken: no longer blocked, wants the mutex;      *)
(* holding: owns a ConnHandler.                                            *)
PcState == {"idle", "request", "waiting", "woken", "holding"}

Init ==
  /\ size = kMinCount
  /\ is_using = [i \in Slots |-> FALSE]
  /\ using_handler_count = 0
  /\ pc = [t \in Threads |-> "idle"]
  /\ late = {}
  /\ index = [t \in Threads |-> 0]

-----------------------------------------------------------------------------
(* The predicate of wait_for. *)
Available == size # using_handler_count \/ size < kMaxCount

Free == {i \in 1..size : ~is_using[i]}

Request(t) ==
  /\ pc[t] = "idle"
  /\ pc' = [pc EXCEPT ![t] = "request"]
  /\ UNCHANGED <<size, is_using, using_handler_count, late, index>>

(* Takes the mutex next, and evaluates the predicate. *)
Looking(t) == pc[t] \in {"request", "woken"}

(* Mutant: the connection is handed out and not marked. *)
AllocateUnmarked(t, i) ==
  /\ using_handler_count' = using_handler_count + 1
  /\ index' = [index EXCEPT ![t] = i]
  /\ pc' = [pc EXCEPT ![t] = "holding"]
  /\ late' = late \ {t}
  /\ UNCHANGED is_using

(* AllocateConnHandler(wrapper i, i). *)
AllocateConnHandler(t, i) ==
  /\ using_handler_count' = using_handler_count + 1
  /\ is_using' = [is_using EXCEPT ![i] = TRUE]
  /\ index' = [index EXCEPT ![t] = i]
  /\ pc' = [pc EXCEPT ![t] = "holding"]
  /\ late' = late \ {t}

(* The first connection that is not in use. *)
TakeFree(t) ==
  /\ Looking(t) /\ Available
  /\ \E i \in Free :
       /\ \A j \in Free : i <= j
       /\ AllocateConnHandler(t, i)
  /\ UNCHANGED size

(* Mutant: the pool grows past its limit by one. *)
GrowOneTooMany(t) ==
  /\ Looking(t)
  /\ Free = {} /\ size <= kMaxCount
  /\ size' = size + 1
  /\ AllocateConnHandler(t, size + 1)

(* None is free, but the pool may grow. *)
Grow(t) ==
  /\ Looking(t) /\ Available
  /\ Free = {} /\ size < kMaxCount
  /\ size' = size + 1
  /\ AllocateConnHandler(t, size + 1)

(* RequestHandler returns nullptr. *)
ReturnNull(t) ==
  /\ pc' = [pc EXCEPT ![t] = "idle"]
  /\ late' = late \ {t}
  /\ UNCHANGED <<size, is_using, using_handler_count, index>>

(* Mutant: when its time is up a thread does not look again. *)
RefuseAtDeadline(t) == Looking(t) /\ t \in late /\ ReturnNull(t)

(* The two returns of nullptr: wait_for returned false, for the deadline   *)
(* has passed and the predicate, evaluated once more under the mutex, is   *)
(* still false; or the predicate held and yet there was nothing to hand    *)
(* out (CountIsExact says that this never happens).                        *)
Refuse(t) ==
  /\ Looking(t)
  /\ Available => Free = {} /\ size >= kMaxCount
  /\ ~Available => t \in late
  /\ ReturnNull(t)

(* Mutant: every futile wake-up starts the time limit anew. *)
WaitAnew(t) ==
  /\ Looking(t) /\ ~Available
  /\ pc' = [pc EXCEPT ![t] = "waiting"]
  /\ late' = late \ {t}
  /\ UNCHANGED <<size, is_using, using_handler_count, index>>

(* Nothing available: block, or block again after a futile wake-up.  The   *)
(* deadline was fixed when wait_for was entered and does not move.         *)
Wait(t) ==
  /\ Looking(t) /\ t \notin late
  /\ ~Available
  /\ pc' = [pc EXCEPT ![t] = "waiting"]
  /\ UNCHANGED <<size, is_using, using_handler_count, late, index>>

(* waiting_seconds have passed since t entered wait_for. *)
DeadlinePasses(t) ==
  /\ pc[t] \in {"waiting", "woken"} /\ t \notin late
  /\ late' = late \cup {t}
  /\ UNCHANGED <<size, is_using, using_handler_count, pc, index>>

(* The condition variable lets t go: at its deadline, or spuriously. *)
WakeUp(t) ==
  /\ pc[t] = "waiting"
  /\ pc' = [pc EXCEPT ![t] = "woken"]
  /\ UNCHANGED <<size, is_using, using_handler_count, late, index>>

TimeOut(t) == t \in late /\ WakeUp(t)

Waiting == {t \in Threads : pc[t] = "waiting"}

(* Mutants: the count is not decremented; nobody is notified. *)
ReleaseUncounted(t) ==
  /\ pc[t] = "holding"
  /\ is_using' = [is_using EXCEPT ![index[t]] = FALSE]
  /\ index' = [index EXCEPT ![t] = 0]
  /\ pc' = [pc EXCEPT ![t] = "idle"]
  /\ UNCHANGED <<size, using_handler_count, late>>
ReleaseSilently(t) ==
  /\ pc[t] = "holding"
  /\ using_handler_count' = using_handler_count - 1
  /\ is_using' = [is_using EXCEPT ![index[t]] = FALSE]
  /\ index' = [index EXCEPT ![t] = 0]
  /\ pc' = [pc EXCEPT ![t] = "idle"]
  /\ UNCHANGED <<size, late>>

(* ~ConnHandler: ReleaseConnHandler(index_), with its notify_one. *)
ReleaseConnHandler(t) ==
  /\ pc[t] = "holding"
  /\ using_handler_count' = using_handler_count - 1
  /\ is_using' = [is_using EXCEPT ![index[t]] = FALSE]
  /\ index' = [index EXCEPT ![t] = 0]
  /\ \/ /\ Waiting = {}
        /\ pc' = [pc EXCEPT ![t] = "idle"]
     \/ \E u \in Waiting : pc' = [pc EXCEPT ![t] = "idle", ![u] = "woken"]
  /\ UNCHANGED <<size, late>>

Step(t) == TakeFree(t) \/ Grow(t) \/ Refuse(t) \/ Wait(t)

Next ==
  \E t \in Threads :
    \/ Request(t) \/ Step(t) \/ DeadlinePasses(t) \/ WakeUp(t)
    \/ ReleaseConnHandler(t)

Spec == Init /\ [][Next]_vars

(* A thread that wants the mutex gets it, time passes, and a blocked thread *)
(* whose deadline has passed is let go.  Nothing is assumed of a thread     *)
(* that holds a connection: a query may take for ever.                      *)
FairSpec ==
  /\ Spec
  /\ \A t \in Threads :
       WF_vars(Step(t)) /\ WF_vars(DeadlinePasses(t)) /\ WF_vars(TimeOut(t))

-----------------------------------------------------------------------------
(* Types, and the size the pool may have: the larger of its two limits. *)
TypeOK ==
  /\ size \in 0..Capacity
  /\ is_using \in [Slots -> BOOLEAN]
  /\ using_handler_count \in Int
  /\ pc \in [Threads -> PcState]
  /\ late \subseteq Threads
  /\ index \in [Threads -> 0..Capacity]

Holders == {t \in Threads : pc[t] = "holding"}
InUse == {i \in Slots : is_using[i]}

(* No two threads ever hold the same connection, a connection is marked in *)
(* use exactly while some thread holds it, and only connections that exist *)
(* are handed out (RequestHandler, dbcp_mysql.cpp:36-50).                  *)
ExclusiveUse ==
  /\ \A t, u \in Holders : index[t] = index[u] => t = u
  /\ InUse = {index[t] : t \in Holders}
  /\ InUse \subseteq 1..size

(* The separately kept count is the number of connections in use, so the   *)
(* predicate, which reads the count, agrees with the scan, which reads the *)
(* flags: RequestHandler never reaches its last return.                    *)
CountIsExact ==
  /\ using_handler_count = Cardinality(InUse)
  /\ Available => Free # {} \/ size < kMaxCount

(* No wake-up is lost: while a thread is blocked, there are at least as    *)
(* many threads on their way to the predicate as there are connections     *)
(* free, so no connection lies idle with nobody coming for it              *)
(* (the single notify_one of ReleaseConnHandler is enough).                *)
Woken == {t \in Threads : pc[t] = "woken"}
NoLostWakeup ==
  Waiting # {} =>
    /\ size >= kMaxCount
    /\ Cardinality(Free) <= Cardinality(Woken)

(* nullptr is returned only when every connection the pool may have is in   *)
(* use at that moment, never because of a stale reading: a thread whose     *)
(* time is up still takes a connection that was given back meanwhile.       *)
RefusedOnlyWhenExhausted ==
  [][\A t \in Threads :
       (Looking(t) /\ pc'[t] = "idle") =>
         size >= kMaxCount /\ InUse = 1..size]_vars

(* Every call of RequestHandler returns, with a connection or with nullptr, *)
(* even if no connection is ever given back and waking up is futile again   *)
(* and again.                                                               *)
RequestReturns ==
  \A t \in Threads : (pc[t] = "request") ~> (pc[t] \in {"holding", "idle"})

=============================================================================
