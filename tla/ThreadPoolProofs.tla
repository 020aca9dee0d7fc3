-------------------------- MODULE ThreadPoolProofs --------------------------
(***************************************************************************)
(* Proofs about ThreadPool, for any threads, tasks and queue size (also a  *)
(* pool without threads, as on a machine that reports no cores, and a      *)
(* queue of size 0).                                                       *)
(*                                                                         *)
(* That the destructor returns only when no thread is left in Cycle rests  *)
(* on the count exit_mark_, which every quit task raises by one; that a    *)
(* task is executed once rests on no task being in two places, the queue   *)
(* or a thread's hands.  Both need that at most one quit task is about, at *)
(* the end of the queue or in one thread's hands, and only while the       *)
(* destructor waits for it.                                                *)
(***************************************************************************)
EXTENDS ThreadPool, FiniteSetTheorems, SequenceTheorems, TLAPS

OnTheirWay == {w \in Threads : pc[w] = "cycle"}
Positions == 1..Len(waiting_queue)

(* A thread has a task exactly in the second half of Cycle's body, and is   *)
(* not marked idle there.                                                   *)
TaskInHand ==
  \A w \in Threads :
    /\ task[w] # Null <=> pc[w] \in {"execute", "publish", "mark"}
    /\ pc[w] \in {"publish", "mark"} => task[w] # QuitTask
    /\ pc[w] = "publish" => task[w] \notin Silent
    /\ threads_idle[w] => task[w] = Null

(* No task is in two places, and every task of the user's was dropped. *)
OnePlace ==
  /\ \A i, j \in Positions : waiting_queue[i] = waiting_queue[j] => i = j
  /\ \A v, w \in Threads : task[v] = task[w] /\ task[v] # Null => v = w
  /\ \A i \in Positions, w \in Threads : waiting_queue[i] # task[w]

Known ==
  /\ \A i \in Positions : waiting_queue[i] \in dropped \cup {QuitTask}
  /\ \A w \in Threads : task[w] \in dropped \cup {QuitTask, Null}
  /\ \A i \in 1..Len(results_queue) : results_queue[i] \in dropped
  /\ \A i \in 1..Len(grabbed) : grabbed[i] \in dropped

QuitAbout == \/ \E i \in Positions : waiting_queue[i] = QuitTask
             \/ \E w \in Threads : task[w] = QuitTask

(* The destructor's round: the quit task it sent is about until a thread   *)
(* has exited for it.                                                      *)
OneQuit ==
  /\ \A i \in Positions : waiting_queue[i] = QuitTask => i = Len(waiting_queue)
  /\ QuitAbout => quit.sent /\ exit_mark = quit.i
  /\ exit_mark = quit.i \/ (quit.sent /\ exit_mark = quit.i + 1)
  /\ user \in {"constructing", "serving"} => ~quit.sent
  /\ user = "destroyed" => quit.i = kNumThreads

(* exit_mark_ counts the threads that have nothing left to do in Cycle. *)
ExitsCounted == exit_mark = Cardinality(Gone)

(* What the Query functions told the user still holds. *)
SeenHolds ==
  /\ seen.drained => waiting_queue = <<>> /\ user = "serving"
  /\ seen.idle => seen.drained /\ \A w \in Threads : pc[w] \notin {"execute", "publish"}
  /\ seen.results <= Len(results_queue)

(* The inductive invariant. *)
CycleInv == /\ TypeOK /\ TaskInHand /\ OnePlace /\ Known /\ OneQuit
            /\ ExitsCounted /\ SeenHolds /\ NoLostWakeup
-----------------------------------------------------------------------------
(* The two steps that change the queue. *)
LEMMA Pushed ==
  ASSUME TypeOK, NEW t \in Tasks \cup {QuitTask}, HasRoom, Push(t)
  PROVE  /\ waiting_queue' \in Seq(Tasks \cup {QuitTask})
         /\ Len(waiting_queue') = Len(waiting_queue) + 1
         /\ Len(waiting_queue') <= kMaxQueueSize
         /\ Len(waiting_queue) \in Nat
         /\ \A i \in Positions : waiting_queue'[i] = waiting_queue[i]
         /\ waiting_queue'[Len(waiting_queue) + 1] = t
         /\ pc' \in [Threads -> PcState]
         /\ \A w \in Threads : \/ pc'[w] = pc[w]
                               \/ pc[w] = "asleep" /\ pc'[w] = "cycle"
<1>1. waiting_queue \in Seq(Tasks \cup {QuitTask}) /\ waiting_queue' = Append(waiting_queue, t)
  BY DEF TypeOK, Push
<1>2. Len(waiting_queue) \in Nat
  BY <1>1
<1>3. Len(waiting_queue') <= kMaxQueueSize /\ Len(waiting_queue') = Len(waiting_queue) + 1
  BY <1>1, <1>2, ThreadPoolAssumption DEF HasRoom
<1>4. /\ waiting_queue' \in Seq(Tasks \cup {QuitTask})
      /\ \A i \in Positions : waiting_queue'[i] = waiting_queue[i]
      /\ waiting_queue'[Len(waiting_queue) + 1] = t
  BY <1>1, <1>2 DEF Positions
<1>5. /\ pc' \in [Threads -> PcState]
      /\ \A w \in Threads : \/ pc'[w] = pc[w]
                            \/ pc[w] = "asleep" /\ pc'[w] = "cycle"
  BY DEF TypeOK, Push, NotifyOne, Asleep, PcState
<1> QED BY <1>2, <1>3, <1>4, <1>5

(* What Take, the first critical section of Cycle, does to the queue and   *)
(* to the thread.                                                          *)
LEMMA Taken ==
  ASSUME TypeOK, NEW w \in Threads, Take(w)
  PROVE  /\ Len(waiting_queue) \in Nat \ {0} /\ 1 \in Positions
         /\ waiting_queue[1] \in Tasks \cup {QuitTask}
         /\ waiting_queue' \in Seq(Tasks \cup {QuitTask})
         /\ Len(waiting_queue') = Len(waiting_queue) - 1
         /\ Len(waiting_queue') <= kMaxQueueSize
         /\ \A i \in Positions' : /\ i \in Nat \ {0} /\ i + 1 \in Positions
                                  /\ waiting_queue'[i] = waiting_queue[i + 1]
         /\ task' \in [Threads -> Tasks \cup {QuitTask, Null}]
         /\ task'[w] = waiting_queue[1]
         /\ \A v \in Threads \ {w} : task'[v] = task[v] /\ pc'[v] = pc[v]
         /\ pc'[w] = "execute" /\ pc' \in [Threads -> PcState]
<1>1. waiting_queue \in Seq(Tasks \cup {QuitTask}) /\ waiting_queue # <<>>
      /\ waiting_queue' = Tail(waiting_queue) /\ Len(waiting_queue) <= kMaxQueueSize
  BY DEF TypeOK, Take
<1>2. Len(waiting_queue) \in Nat \ {0}
  BY <1>1
<1>3. 1 \in Positions /\ waiting_queue[1] \in Tasks \cup {QuitTask}
      /\ Head(waiting_queue) = waiting_queue[1]
  BY <1>1, <1>2 DEF Positions
<1>4. waiting_queue' \in Seq(Tasks \cup {QuitTask})
      /\ Len(waiting_queue') = Len(waiting_queue) - 1
  BY <1>1, <1>2
<1>5. Len(waiting_queue') <= kMaxQueueSize
  BY <1>1, <1>2, <1>4, ThreadPoolAssumption
<1>6. \A i \in Positions' : /\ i \in Nat \ {0} /\ i + 1 \in Positions
                            /\ waiting_queue'[i] = waiting_queue[i + 1]
  BY <1>1, <1>2, <1>4, HeadTailProperties DEF Positions
<1>7. /\ task' \in [Threads -> Tasks \cup {QuitTask, Null}]
      /\ task'[w] = waiting_queue[1]
      /\ \A v \in Threads \ {w} : task'[v] = task[v] /\ pc'[v] = pc[v]
      /\ pc'[w] = "execute" /\ pc' \in [Threads -> PcState]
  BY <1>3 DEF TypeOK, Take, PcState
<1> QED BY <1>2, <1>3, <1>4, <1>5, <1>6, <1>7

-----------------------------------------------------------------------------
(* The constructor starts with an empty queue and no thread. *)
LEMMA InitCycle == Init => CycleInv
<1> SUFFICES ASSUME Init PROVE CycleInv
  OBVIOUS
<1> USE DEF Init
<1>1. Len(waiting_queue) = 0 /\ Len(results_queue) = 0 /\ Len(grabbed) = 0
      /\ Positions = {}
  BY DEF Positions
<1>2. TypeOK
  <2>1. waiting_queue \in Seq(Tasks \cup {QuitTask}) /\ results_queue \in Seq(Tasks)
        /\ grabbed \in Seq(Tasks)
    OBVIOUS
  <2>2. seen \in [drained : BOOLEAN, idle : BOOLEAN, results : Nat]
        /\ quit \in [i : Nat, sent : BOOLEAN]
    BY DEF NothingSeen
  <2>3. Len(waiting_queue) <= kMaxQueueSize
    BY <1>1, ThreadPoolAssumption
  <2> QED BY <2>1, <2>2, <2>3 DEF TypeOK, PcState, UserState
<1>3. TaskInHand /\ OnePlace /\ Known
  BY <1>1 DEF TaskInHand, OnePlace, Known
<1>4. ~QuitAbout
  BY <1>1, ThreadPoolAssumption DEF QuitAbout
<1>5. OneQuit
  BY <1>1, <1>4 DEF OneQuit
<1>6. Gone = {} /\ Asleep = {}
  BY DEF Gone, Asleep
<1>7. ExitsCounted /\ NoLostWakeup
  BY <1>6, FS_EmptySet DEF ExitsCounted, NoLostWakeup
<1>8. SeenHolds
  BY <1>1 DEF SeenHolds, NothingSeen
<1> QED BY <1>2, <1>3, <1>5, <1>7, <1>8 DEF CycleInv

(* The types, and what a thread has in hand. *)
LEMMA TypeStep ==
  ASSUME CycleInv, Next
  PROVE  TypeOK' /\ TaskInHand'
<1> USE DEF CycleInv, poolVars
<1>1. QuitTask \notin Tasks /\ Null \notin Tasks /\ Null # QuitTask
  BY ThreadPoolAssumption
<1>a. ASSUME NEW w \in Threads, Spawn(w) PROVE TypeOK' /\ TaskInHand'
  <2>1. TypeOK'
    BY <1>a DEF Spawn, TypeOK, PcState
  <2>2. TaskInHand'
    BY <1>a DEF Spawn, TypeOK, TaskInHand
  <2> QED BY <2>1, <2>2
<1>b. CASE Constructed
  BY <1>b DEF Constructed, TypeOK, UserState, TaskInHand
<1>c. ASSUME NEW t \in Tasks, Drop(t) PROVE TypeOK' /\ TaskInHand'
  <2>1. seen' \in [drained : BOOLEAN, idle : BOOLEAN, results : Nat]
    BY <1>c DEF Drop, TypeOK
  <2>2. TypeOK'
    BY <1>c, <2>1, Pushed DEF Drop, TypeOK
  <2>3. TaskInHand'
    BY <1>c, Pushed DEF Drop, TaskInHand
  <2> QED BY <2>2, <2>3
<1>d. ASSUME NEW t \in Tasks, DropRefused(t) PROVE TypeOK' /\ TaskInHand'
  BY <1>d DEF DropRefused, TypeOK, TaskInHand
<1>e. CASE GrabAllResults
  <2>1. results_queue' \in Seq(Tasks) /\ grabbed' \in Seq(Tasks)
        /\ seen' \in [drained : BOOLEAN, idle : BOOLEAN, results : Nat]
    BY <1>e DEF GrabAllResults, TypeOK
  <2> QED BY <1>e, <2>1 DEF GrabAllResults, TypeOK, TaskInHand
<1>f. CASE QueryWaitingQueueCount
  <2>1. seen' \in [drained : BOOLEAN, idle : BOOLEAN, results : Nat]
    BY <1>f DEF QueryWaitingQueueCount, TypeOK
  <2> QED BY <1>f, <2>1 DEF QueryWaitingQueueCount, TypeOK, TaskInHand
<1>g. CASE QueryIdleThreadsCount
  <2>1. seen' \in [drained : BOOLEAN, idle : BOOLEAN, results : Nat]
    BY <1>g DEF QueryIdleThreadsCount, TypeOK
  <2> QED BY <1>g, <2>1 DEF QueryIdleThreadsCount, TypeOK, TaskInHand
<1>h. CASE QueryResultsCount
  <2>1. Len(results_queue) \in Nat
    BY DEF TypeOK
  <2>2. seen' \in [drained : BOOLEAN, idle : BOOLEAN, results : Nat]
    BY <1>h, <2>1 DEF QueryResultsCount, TypeOK
  <2> QED BY <1>h, <2>2 DEF QueryResultsCount, TypeOK, TaskInHand
<1>i. CASE Destroy
  BY <1>i DEF Destroy, NothingSeen, TypeOK, UserState, TaskInHand
<1>j. CASE SendQuit
  <2>1. quit' \in [i : Nat, sent : BOOLEAN]
    BY <1>j DEF SendQuit, TypeOK
  <2>2. CASE HasRoom /\ Push(QuitTask)
    <3>1. TypeOK'
      BY <1>j, <2>1, <2>2, Pushed DEF SendQuit, TypeOK
    <3>2. TaskInHand'
      BY <1>j, <2>2, Pushed DEF SendQuit, TaskInHand
    <3> QED BY <3>1, <3>2
  <2>3. CASE UNCHANGED <<waiting_queue, pc>>
    BY <1>j, <2>1, <2>3 DEF SendQuit, TypeOK, TaskInHand
  <2> QED BY <1>j, <2>2, <2>3 DEF SendQuit
<1>k. CASE AwaitExit
  <2>1. quit' \in [i : Nat, sent : BOOLEAN]
    BY <1>k DEF AwaitExit, TypeOK
  <2> QED BY <1>k, <2>1 DEF AwaitExit, TypeOK, TaskInHand
<1>l. CASE Destroyed
  BY <1>l DEF Destroyed, TypeOK, UserState, TaskInHand
<1>m. ASSUME NEW w \in Threads, Take(w) PROVE TypeOK' /\ TaskInHand'
  <2>1. threads_idle' \in [Threads -> BOOLEAN] /\ ~threads_idle'[w]
        /\ \A v \in Threads \ {w} : threads_idle'[v] = threads_idle[v]
    BY <1>m DEF Take, TypeOK
  <2>2. TypeOK'
    BY <1>m, <2>1, Taken DEF Take, TypeOK
  <2>3. task'[w] # Null
    BY <1>m, <1>1, Taken
  <2>4. TaskInHand'
    BY <1>m, <2>1, <2>3, Taken DEF TaskInHand
  <2> QED BY <2>2, <2>4
<1>n. ASSUME NEW w \in Threads, Sleep(w) \/ SpuriousWakeup(w) PROVE TypeOK' /\ TaskInHand'
  <2>1. TypeOK'
    BY <1>n DEF Sleep, SpuriousWakeup, TypeOK, PcState
  <2>2. TaskInHand'
    BY <1>n DEF Sleep, SpuriousWakeup, TypeOK, TaskInHand
  <2> QED BY <2>1, <2>2
<1>o. ASSUME NEW w \in Threads, Execute(w) PROVE TypeOK' /\ TaskInHand'
  <2>1. TypeOK'
    BY <1>o DEF Execute, TypeOK, PcState
  <2>2. TaskInHand'
    BY <1>o DEF Execute, TypeOK, TaskInHand
  <2> QED BY <2>1, <2>2
<1>s. ASSUME NEW w \in Threads, Leave(w) PROVE TypeOK' /\ TaskInHand'
  <2>1. TypeOK'
    BY <1>s DEF Leave, TypeOK, PcState
  <2>2. TaskInHand'
    BY <1>s DEF Leave, TypeOK, TaskInHand
  <2> QED BY <2>1, <2>2
<1>p. ASSUME NEW w \in Threads, ExecuteQuit(w) PROVE TypeOK' /\ TaskInHand'
  <2>1. TypeOK'
    BY <1>p DEF ExecuteQuit, TypeOK, PcState
  <2>2. TaskInHand'
    BY <1>p, <1>1 DEF ExecuteQuit, TypeOK, TaskInHand
  <2> QED BY <2>1, <2>2
<1>q. ASSUME NEW w \in Threads, Publish(w) PROVE TypeOK' /\ TaskInHand'
  <2>1. task[w] \in Tasks
    BY <1>q DEF Publish, TypeOK, TaskInHand
  <2>2. results_queue' \in Seq(Tasks)
    BY <1>q, <2>1 DEF Publish, TypeOK
  <2>3. TypeOK'
    BY <1>q, <2>2 DEF Publish, TypeOK, PcState
  <2>4. TaskInHand'
    BY <1>q DEF Publish, TypeOK, TaskInHand
  <2> QED BY <2>3, <2>4
<1>r. ASSUME NEW w \in Threads, MarkIdle(w) PROVE TypeOK' /\ TaskInHand'
  <2>1. TypeOK'
    BY <1>r DEF MarkIdle, TypeOK, PcState
  <2>2. TaskInHand'
    BY <1>r DEF MarkIdle, TypeOK, TaskInHand
  <2> QED BY <2>1, <2>2
<1> QED
  BY <1>a, <1>b, <1>c, <1>d, <1>e, <1>f, <1>g, <1>h, <1>i, <1>j, <1>k, <1>l,
     <1>m, <1>n, <1>o, <1>p, <1>q, <1>r, <1>s
  DEF Next, Construct, Use, Destructor, Cycle

-----------------------------------------------------------------------------
(* The steps that put no task anywhere: neither Drop nor the quit task get  *)
(* into the queue, and no thread takes a task.                              *)
LEMMA OtherSteps ==
  ASSUME TypeOK, Next,
         \A t \in Tasks : ~Drop(t),
         ~(SendQuit /\ HasRoom),
         \A w \in Threads : ~Take(w)
  PROVE  /\ waiting_queue' = waiting_queue /\ Positions' = Positions
         /\ \A w \in Threads : task'[w] \in {task[w], Null}
         /\ dropped \subseteq dropped'
<1> USE DEF poolVars, Positions
<1>1. ASSUME NEW w \in Threads, Spawn(w) \/ Cycle(w) \/ SpuriousWakeup(w)
      PROVE  /\ waiting_queue' = waiting_queue /\ dropped' = dropped
             /\ \A v \in Threads : task'[v] \in {task[v], Null}
  BY <1>1 DEF Spawn, Cycle, SpuriousWakeup, Sleep, Execute, ExecuteQuit, Leave,
             Publish, MarkIdle, TypeOK
<1>2. ASSUME Constructed \/ Use \/ Destructor
      PROVE  waiting_queue' = waiting_queue /\ task' = task /\ dropped \subseteq dropped'
  BY <1>2 DEF Constructed, Use, DropRefused, GrabAllResults, QueryWaitingQueueCount,
             QueryIdleThreadsCount, QueryResultsCount, Destroy, Destructor, SendQuit,
             AwaitExit, Destroyed
<1> QED BY <1>1, <1>2 DEF Next, Construct

(* No task gets to a second place. *)
LEMMA PlaceStep ==
  ASSUME CycleInv, Next
  PROVE  OnePlace' /\ Known'
<1> USE DEF CycleInv
<1>1. QuitTask \notin Tasks /\ Null \notin Tasks /\ Null # QuitTask
  BY ThreadPoolAssumption
<1>2. Len(waiting_queue) \in Nat
  BY DEF TypeOK
<1>3. ASSUME NEW t \in Tasks \cup {QuitTask}, HasRoom, Push(t),
             \A i \in Positions : waiting_queue[i] # t,
             \A w \in Threads : task[w] # t,
             UNCHANGED <<task, results_queue, grabbed>>,
             dropped' = dropped \cup ({t} \ {QuitTask})
      PROVE  OnePlace' /\ Known'
  <2>1. /\ Positions' = Positions \cup {Len(waiting_queue) + 1}
        /\ Len(waiting_queue) + 1 \notin Positions
        /\ \A i \in Positions : waiting_queue'[i] = waiting_queue[i]
        /\ waiting_queue'[Len(waiting_queue) + 1] = t
    BY <1>2, <1>3, Pushed DEF Positions
  <2>2. OnePlace'
    BY <1>3, <2>1 DEF OnePlace
  <2>3. Known'
    BY <1>3, <2>1 DEF Known
  <2> QED BY <2>2, <2>3
<1>a. ASSUME NEW t \in Tasks, Drop(t) PROVE OnePlace' /\ Known'
  <2>1. \A i \in Positions : waiting_queue[i] # t
    BY <1>1, <1>a DEF Drop, Known
  <2>2. \A w \in Threads : task[w] # t
    BY <1>1, <1>a DEF Drop, Known
  <2> QED BY <1>1, <1>3, <1>a, <2>1, <2>2 DEF Drop
<1>b. CASE SendQuit /\ HasRoom
  <2>1. Push(QuitTask) /\ ~quit.sent /\ UNCHANGED <<task, results_queue, dropped, grabbed>>
    BY <1>b DEF SendQuit
  <2>2. ~QuitAbout
    BY <2>1 DEF OneQuit
  <2> QED BY <1>3, <1>b, <2>1, <2>2 DEF QuitAbout
<1>c. ASSUME NEW w \in Threads, Take(w) PROVE OnePlace' /\ Known'
  <2>1. /\ 1 \in Positions /\ task'[w] = waiting_queue[1]
        /\ \A i \in Positions' : /\ i \in Nat \ {0} /\ i + 1 \in Positions
                                 /\ waiting_queue'[i] = waiting_queue[i + 1]
        /\ \A v \in Threads \ {w} : task'[v] = task[v]
        /\ UNCHANGED <<results_queue, dropped, grabbed>>
    BY <1>c, Taken DEF Take, Positions
  <2>2. \A i, j \in Positions' : waiting_queue'[i] = waiting_queue'[j] => i = j
    BY <2>1 DEF OnePlace
  <2>3. \A u, v \in Threads : task'[u] = task'[v] /\ task'[u] # Null => u = v
    BY <2>1 DEF OnePlace
  <2>4. \A i \in Positions', v \in Threads : waiting_queue'[i] # task'[v]
    <3> SUFFICES ASSUME NEW i \in Positions', NEW v \in Threads
                 PROVE  waiting_queue[i + 1] # task'[v]
      BY <2>1
    <3>1. CASE v = w
      BY <2>1, <3>1 DEF OnePlace
    <3>2. CASE v # w
      BY <2>1, <3>2 DEF OnePlace
    <3> QED BY <3>1, <3>2
  <2>5. OnePlace'
    BY <2>2, <2>3, <2>4 DEF OnePlace
  <2>6. Known'
    BY <2>1 DEF Known
  <2> QED BY <2>5, <2>6
<1>d. CASE ~(\/ \E t \in Tasks : Drop(t)
             \/ SendQuit /\ HasRoom
             \/ \E w \in Threads : Take(w))
  <2>1. /\ waiting_queue' = waiting_queue /\ Positions' = Positions
        /\ \A w \in Threads : task'[w] \in {task[w], Null}
        /\ dropped \subseteq dropped'
    BY <1>d, OtherSteps
  <2>2. Null # QuitTask /\ \A i \in Positions : waiting_queue[i] # Null
    BY <1>1 DEF Known, TypeOK
  <2>3. OnePlace'
    BY <2>1, <2>2 DEF OnePlace
  <2>4. \A i \in 1..Len(results_queue') : results_queue'[i] \in dropped'
    <3>1. CASE results_queue' = results_queue
      BY <2>1, <3>1 DEF Known
    <3>2. CASE results_queue' = <<>>
      BY <3>2
    <3>3. ASSUME NEW w \in Threads, Publish(w)
          PROVE  \A i \in 1..Len(results_queue') : results_queue'[i] \in dropped'
      <4>1. results_queue \in Seq(Tasks) /\ task[w] \in Tasks
        BY <3>3 DEF Publish, TypeOK, TaskInHand
      <4>2. task[w] \in dropped
        BY <1>1, <4>1 DEF Known
      <4>3. results_queue' = Append(results_queue, task[w]) /\ dropped' = dropped
        BY <3>3 DEF Publish
      <4>4. Len(results_queue) \in Nat /\ Len(results_queue') = Len(results_queue) + 1
            /\ results_queue'[Len(results_queue) + 1] = task[w]
            /\ \A i \in 1..Len(results_queue) : results_queue'[i] = results_queue[i]
        BY <4>1, <4>3
      <4> QED BY <4>2, <4>3, <4>4 DEF Known
    <3>4. \/ results_queue' = results_queue \/ results_queue' = <<>>
          \/ \E w \in Threads : Publish(w)
      BY DEF Next, Construct, Spawn, Constructed, Use, Drop, DropRefused, GrabAllResults,
             QueryWaitingQueueCount, QueryIdleThreadsCount, QueryResultsCount, Destroy,
             Destructor, SendQuit, AwaitExit, Destroyed, Cycle, Take, Sleep, Execute,
             ExecuteQuit, Leave, MarkIdle, SpuriousWakeup, poolVars
    <3> QED BY <3>1, <3>2, <3>3, <3>4
  <2>6. \A i \in 1..Len(grabbed') : grabbed'[i] \in dropped'
    <3>1. grabbed' \in {grabbed, results_queue}
      BY DEF Next, Construct, Spawn, Constructed, Use, Drop, DropRefused, GrabAllResults,
             QueryWaitingQueueCount, QueryIdleThreadsCount, QueryResultsCount, Destroy,
             Destructor, SendQuit, AwaitExit, Destroyed, Cycle, Take, Sleep, Execute,
             ExecuteQuit, Leave, Publish, MarkIdle, SpuriousWakeup
    <3> QED BY <2>1, <3>1 DEF Known
  <2>5. Known'
    BY <2>1, <2>4, <2>6 DEF Known
  <2> QED BY <2>3, <2>5
<1> QED BY <1>a, <1>b, <1>c, <1>d

(* The destructor and the one quit task. *)
LEMMA QuitStep ==
  ASSUME CycleInv, Next
  PROVE  OneQuit'
<1> USE DEF CycleInv
<1>1. QuitTask \notin Tasks /\ Null \notin Tasks /\ Null # QuitTask
  BY ThreadPoolAssumption
<1>2. Len(waiting_queue) \in Nat /\ exit_mark \in Nat /\ quit.i \in Nat
  BY DEF TypeOK
<1>a. ASSUME NEW t \in Tasks, Drop(t) PROVE OneQuit'
  <2>1. /\ user = "serving" /\ HasRoom /\ Push(t)
        /\ UNCHANGED <<task, user, quit, exit_mark>>
    BY <1>a DEF Drop
  <2>2. ~QuitAbout
    BY <2>1 DEF OneQuit
  <2>3. /\ Positions' = Positions \cup {Len(waiting_queue) + 1}
        /\ \A i \in Positions : waiting_queue'[i] = waiting_queue[i]
        /\ waiting_queue'[Len(waiting_queue) + 1] = t
    BY <1>2, <2>1, Pushed DEF Positions
  <2>4. ~QuitAbout'
    BY <1>1, <2>1, <2>2, <2>3 DEF QuitAbout
  <2> QED BY <2>1, <2>4 DEF OneQuit, QuitAbout
<1>b. CASE SendQuit
  <2>1. /\ user = "quitting" /\ ~quit.sent /\ UNCHANGED <<task, user, exit_mark>>
        /\ quit'.i = quit.i /\ quit'.sent
    BY <1>b DEF SendQuit, TypeOK
  <2>2. exit_mark = quit.i /\ ~QuitAbout
    BY <2>1 DEF OneQuit
  <2>3. CASE HasRoom /\ Push(QuitTask)
    <3>1. /\ Positions' = Positions \cup {Len(waiting_queue) + 1}
          /\ \A i \in Positions : waiting_queue'[i] = waiting_queue[i]
          /\ Len(waiting_queue') = Len(waiting_queue) + 1
      BY <1>2, <2>3, Pushed DEF Positions
    <3>2. \A i \in Positions' : waiting_queue'[i] = QuitTask => i = Len(waiting_queue')
      BY <2>2, <3>1 DEF QuitAbout
    <3> QED BY <2>1, <2>2, <3>2 DEF OneQuit
  <2>4. CASE UNCHANGED waiting_queue
    <3>1. ~QuitAbout'
      BY <2>1, <2>2, <2>4 DEF QuitAbout, Positions
    <3> QED BY <2>1, <2>2, <3>1 DEF OneQuit, QuitAbout
  <2> QED BY <1>b, <2>3, <2>4 DEF SendQuit
<1>c. ASSUME NEW w \in Threads, Take(w) PROVE OneQuit'
  <2>1. /\ 1 \in Positions /\ task'[w] = waiting_queue[1]
        /\ Len(waiting_queue') = Len(waiting_queue) - 1
        /\ \A i \in Positions' : /\ i \in Nat \ {0} /\ i + 1 \in Positions
                                 /\ waiting_queue'[i] = waiting_queue[i + 1]
        /\ \A v \in Threads \ {w} : task'[v] = task[v]
        /\ UNCHANGED <<user, quit, exit_mark>>
    BY <1>c, Taken DEF Take, Positions
  <2>2. \A i \in Positions' : waiting_queue'[i] = QuitTask => i = Len(waiting_queue')
    BY <1>2, <2>1 DEF OneQuit
  <2>3. QuitAbout' => QuitAbout
    BY <2>1 DEF QuitAbout
  <2> QED BY <2>1, <2>2, <2>3 DEF OneQuit
<1>d. CASE AwaitExit
  <2>1. /\ user = "quitting" /\ quit.sent /\ exit_mark = quit.i + 1
        /\ quit'.i = quit.i + 1 /\ ~quit'.sent
        /\ UNCHANGED <<waiting_queue, task, exit_mark, user>>
    BY <1>d DEF AwaitExit, poolVars
  <2>2. ~QuitAbout
    BY <1>2, <2>1 DEF OneQuit
  <2>3. ~QuitAbout'
    BY <2>1, <2>2 DEF QuitAbout, Positions
  <2> QED BY <2>1, <2>3 DEF OneQuit, QuitAbout
<1>e. CASE Destroyed
  <2>1. QuitAbout' => QuitAbout
    BY <1>e DEF Destroyed, poolVars, QuitAbout, Positions
  <2> QED BY <1>e, <2>1 DEF Destroyed, poolVars, OneQuit, Positions, kNumThreads
<1>f. ASSUME NEW w \in Threads, ExecuteQuit(w) PROVE OneQuit'
  <2>1. /\ task[w] = QuitTask /\ task'[w] = Null /\ exit_mark' = exit_mark + 1
        /\ \A v \in Threads \ {w} : task'[v] = task[v]
        /\ UNCHANGED <<waiting_queue, user, quit>>
    BY <1>f DEF ExecuteQuit, TypeOK
  <2>2. QuitAbout
    BY <2>1 DEF QuitAbout
  <2>3. quit.sent /\ exit_mark = quit.i
    BY <2>2 DEF OneQuit
  <2>4. ~QuitAbout'
    BY <1>1, <2>1 DEF QuitAbout, OnePlace, Positions
  <2> QED BY <2>1, <2>3, <2>4 DEF OneQuit, QuitAbout
<1>g. CASE Destroy \/ Constructed
  <2>1. QuitAbout' => QuitAbout
    BY <1>g DEF Destroy, Constructed, poolVars, QuitAbout, Positions
  <2> QED BY <1>g, <2>1 DEF Destroy, Constructed, poolVars, OneQuit, Positions
<1>h. ASSUME UNCHANGED <<waiting_queue, user, quit, exit_mark>>,
             \A w \in Threads : task'[w] \in {task[w], Null}
      PROVE  OneQuit'
  <2>1. QuitAbout' => QuitAbout
    BY <1>1, <1>h DEF QuitAbout, Positions
  <2> QED BY <1>h, <2>1 DEF OneQuit, Positions
<1>i. ASSUME NEW w \in Threads, \/ Spawn(w) \/ Sleep(w) \/ SpuriousWakeup(w)
                                \/ Execute(w) \/ Leave(w) \/ Publish(w) \/ MarkIdle(w)
      PROVE  OneQuit'
  BY <1>h, <1>i DEF Spawn, Sleep, SpuriousWakeup, Execute, Leave, Publish, MarkIdle, TypeOK
<1>j. CASE \/ \E t \in Tasks : DropRefused(t)
           \/ GrabAllResults \/ QueryWaitingQueueCount
           \/ QueryIdleThreadsCount \/ QueryResultsCount
  BY <1>h, <1>j DEF DropRefused, GrabAllResults, QueryWaitingQueueCount,
                    QueryIdleThreadsCount, QueryResultsCount, poolVars
<1> QED
  BY <1>a, <1>b, <1>c, <1>d, <1>e, <1>f, <1>g, <1>i, <1>j
  DEF Next, Construct, Use, Destructor, Cycle

-----------------------------------------------------------------------------
(* exit_mark_ and the threads that left. *)
LEMMA ExitStep ==
  ASSUME CycleInv, Next
  PROVE  ExitsCounted'
<1> USE DEF CycleInv
<1>1. IsFiniteSet(Gone)
  BY ThreadPoolAssumption, FS_Subset DEF Gone
<1>a. ASSUME NEW w \in Threads, ExecuteQuit(w) PROVE ExitsCounted'
  <2>1. Gone' = Gone \cup {w} /\ w \notin Gone /\ exit_mark' = exit_mark + 1
    BY <1>a DEF ExecuteQuit, TypeOK, Gone
  <2> QED BY <1>1, <2>1, FS_AddElement DEF ExitsCounted
<1>b. ASSUME exit_mark' = exit_mark,
             \A w \in Threads :
               pc'[w] \in {"leaving", "exited"} <=> pc[w] \in {"leaving", "exited"}
      PROVE  ExitsCounted'
  <2>1. Gone' = Gone
    BY <1>b DEF Gone
  <2> QED BY <1>b, <2>1 DEF ExitsCounted
<1>c. ASSUME NEW w \in Threads, \/ Spawn(w) \/ Take(w) \/ Sleep(w) \/ SpuriousWakeup(w)
                                \/ Execute(w) \/ Leave(w) \/ Publish(w) \/ MarkIdle(w)
      PROVE  ExitsCounted'
  BY <1>b, <1>c DEF Spawn, Take, Sleep, SpuriousWakeup, Execute, Leave, Publish, MarkIdle,
                    TypeOK
<1>d. ASSUME NEW t \in Tasks, Drop(t) PROVE ExitsCounted'
  BY <1>b, <1>d, Pushed DEF Drop
<1>e. CASE SendQuit
  BY <1>b, <1>e, Pushed DEF SendQuit
<1>f. CASE \/ Constructed \/ \E t \in Tasks : DropRefused(t)
           \/ GrabAllResults \/ QueryWaitingQueueCount
           \/ QueryIdleThreadsCount \/ QueryResultsCount \/ Destroy
           \/ AwaitExit \/ Destroyed
  BY <1>b, <1>f DEF Constructed, DropRefused, GrabAllResults, QueryWaitingQueueCount,
       QueryIdleThreadsCount, QueryResultsCount, Destroy, AwaitExit, Destroyed, poolVars
<1> QED
  BY <1>a, <1>c, <1>d, <1>e, <1>f DEF Next, Construct, Use, Destructor, Cycle

(* When every thread is marked idle, none has a task: QueryIdleThreadsCount *)
(* compares the number of marks with kNumThreads.                           *)
LEMMA AllIdle ==
  ASSUME TypeOK, TaskInHand,
         Cardinality({w \in Threads : threads_idle[w]}) = kNumThreads
  PROVE  \A w \in Threads : pc[w] \notin {"execute", "publish"}
<1> DEFINE Idle == {w \in Threads : threads_idle[w]}
<1>1. Idle = Threads
  BY ThreadPoolAssumption, FS_Subset DEF kNumThreads
<1> QED BY <1>1 DEF TaskInHand

(* What the user was told stays true: nothing but its own calls adds a     *)
(* task or removes a result.                                               *)
LEMMA SeenStep ==
  ASSUME CycleInv, Next
  PROVE  SeenHolds'
<1> USE DEF CycleInv
<1>1. /\ seen.drained \in BOOLEAN /\ seen.idle \in BOOLEAN /\ seen.results \in Nat
      /\ Len(results_queue) \in Nat
  BY DEF TypeOK
<1>a. ASSUME NEW t \in Tasks, Drop(t) PROVE SeenHolds'
  <2>1. ~seen'.drained /\ ~seen'.idle /\ seen'.results = seen.results
        /\ results_queue' = results_queue
    BY <1>a DEF Drop, TypeOK
  <2> QED BY <2>1 DEF SeenHolds
<1>b. CASE GrabAllResults
  <2>1. /\ seen'.drained = seen.drained /\ seen'.idle = seen.idle /\ seen'.results = 0
        /\ results_queue' = <<>> /\ UNCHANGED <<waiting_queue, user, pc>>
    BY <1>b DEF GrabAllResults, TypeOK
  <2> QED BY <2>1 DEF SeenHolds
<1>c. CASE QueryWaitingQueueCount
  <2>1. /\ seen'.drained = (waiting_queue = <<>>) /\ ~seen'.idle
        /\ seen'.results = seen.results /\ user = "serving"
        /\ UNCHANGED <<waiting_queue, results_queue, user, pc>>
    BY <1>c DEF QueryWaitingQueueCount, TypeOK, poolVars
  <2> QED BY <2>1 DEF SeenHolds
<1>d. CASE QueryIdleThreadsCount
  <2>1. /\ seen'.drained = seen.drained /\ seen.drained
        /\ seen'.idle = (Cardinality({w \in Threads : threads_idle[w]}) = kNumThreads)
        /\ seen'.results = seen.results
        /\ UNCHANGED <<waiting_queue, results_queue, user, pc>>
    BY <1>d DEF QueryIdleThreadsCount, TypeOK, poolVars
  <2>2. seen'.idle => \A w \in Threads : pc[w] \notin {"execute", "publish"}
    BY <2>1, AllIdle
  <2> QED BY <2>1, <2>2 DEF SeenHolds
<1>e. CASE QueryResultsCount
  <2>1. /\ seen'.drained = seen.drained /\ seen'.idle = seen.idle
        /\ seen'.results = Len(results_queue)
        /\ UNCHANGED <<waiting_queue, results_queue, user, pc>>
    BY <1>e DEF QueryResultsCount, TypeOK, poolVars
  <2> QED BY <1>1, <2>1 DEF SeenHolds
<1>f. CASE Destroy
  BY <1>1, <1>f DEF Destroy, NothingSeen, SeenHolds, poolVars
<1>g. CASE SendQuit
  <2>1. user = "quitting" /\ UNCHANGED <<seen, results_queue, user>>
    BY <1>g DEF SendQuit
  <2> QED BY <2>1 DEF SeenHolds
<1>h. ASSUME NEW w \in Threads, Take(w) PROVE SeenHolds'
  <2>1. waiting_queue # <<>> /\ UNCHANGED <<seen, results_queue, user>>
    BY <1>h DEF Take
  <2> QED BY <2>1 DEF SeenHolds
<1>i. ASSUME NEW w \in Threads, Publish(w) PROVE SeenHolds'
  <2>1. pc[w] = "publish" /\ UNCHANGED <<seen, user, waiting_queue>>
        /\ Len(results_queue') = Len(results_queue) + 1
    BY <1>i DEF Publish, TypeOK
  <2> QED BY <1>1, <2>1 DEF SeenHolds
<1>j. ASSUME UNCHANGED <<seen, user, waiting_queue, results_queue>>,
             \A w \in Threads : pc'[w] \in {"execute", "publish"} => pc[w] = "execute"
                                                                  \/ pc'[w] = pc[w]
      PROVE  SeenHolds'
  BY <1>j DEF SeenHolds
<1>k. ASSUME NEW w \in Threads, \/ Spawn(w) \/ Sleep(w) \/ SpuriousWakeup(w)
                                \/ Execute(w) \/ ExecuteQuit(w) \/ Leave(w) \/ MarkIdle(w)
      PROVE  SeenHolds'
  BY <1>j, <1>k DEF Spawn, Sleep, SpuriousWakeup, Execute, ExecuteQuit, Leave, MarkIdle,
                    TypeOK
<1>l. CASE (\E t \in Tasks : DropRefused(t)) \/ AwaitExit
  BY <1>j, <1>l DEF DropRefused, AwaitExit, poolVars
<1>m. CASE Constructed \/ Destroyed
  <2>1. user # "serving" /\ UNCHANGED <<seen, results_queue>>
    BY <1>m DEF Constructed, Destroyed, poolVars
  <2> QED BY <2>1 DEF SeenHolds
<1> QED
  BY <1>a, <1>b, <1>c, <1>d, <1>e, <1>f, <1>g, <1>h, <1>i, <1>k, <1>l, <1>m
  DEF Next, Construct, Use, Destructor, Cycle

-----------------------------------------------------------------------------
(* One notify_one for a task is enough. *)
LEMMA WakeupStep ==
  ASSUME CycleInv, Next
  PROVE  NoLostWakeup'
<1> USE DEF CycleInv
<1>1. IsFiniteSet(OnTheirWay) /\ IsFiniteSet(OnTheirWay')
  BY ThreadPoolAssumption, FS_Subset DEF OnTheirWay
<1>2. Cardinality(OnTheirWay) \in Nat /\ Cardinality(OnTheirWay') \in Nat
      /\ Len(waiting_queue) \in Nat
  BY <1>1, FS_CardinalityType DEF TypeOK
<1>3. NoLostWakeup <=> (Asleep # {} => Len(waiting_queue) <= Cardinality(OnTheirWay))
  BY DEF NoLostWakeup, OnTheirWay
<1>4. NoLostWakeup' <=> (Asleep' # {} => Len(waiting_queue') <= Cardinality(OnTheirWay'))
  BY DEF NoLostWakeup, OnTheirWay
<1>5. ASSUME NEW t \in Tasks \cup {QuitTask}, HasRoom, Push(t)
      PROVE  NoLostWakeup'
  <2>1. Len(waiting_queue') = Len(waiting_queue) + 1
    BY <1>5, Pushed
  <2>2. CASE Asleep = {} /\ UNCHANGED pc
    BY <1>4, <2>2 DEF Asleep
  <2>3. ASSUME NEW w \in Asleep, pc' = [pc EXCEPT ![w] = "cycle"]
        PROVE  NoLostWakeup'
    <3>1. OnTheirWay' = OnTheirWay \cup {w} /\ w \notin OnTheirWay
      BY <2>3 DEF Asleep, OnTheirWay, TypeOK
    <3>2. Cardinality(OnTheirWay') = Cardinality(OnTheirWay) + 1
      BY <1>1, <3>1, FS_AddElement
    <3> QED BY <1>2, <1>3, <1>4, <2>1, <2>3, <3>2
  <2> QED BY <1>5, <2>2, <2>3 DEF Push, NotifyOne
<1>6. ASSUME waiting_queue' = waiting_queue, Asleep' \subseteq Asleep,
             OnTheirWay \subseteq OnTheirWay'
      PROVE  NoLostWakeup'
  <2>1. Cardinality(OnTheirWay) <= Cardinality(OnTheirWay')
    BY <1>1, <1>6, FS_Subset
  <2> QED BY <1>2, <1>3, <1>4, <1>6, <2>1
<1>a. ASSUME NEW t \in Tasks, Drop(t) PROVE NoLostWakeup'
  BY <1>5, <1>a DEF Drop
<1>b. CASE SendQuit
  <2>1. CASE HasRoom /\ Push(QuitTask)
    BY <1>5, <2>1
  <2>2. CASE UNCHANGED <<waiting_queue, pc>>
    BY <1>6, <2>2 DEF Asleep, OnTheirWay
  <2> QED BY <1>b, <2>1, <2>2 DEF SendQuit
<1>c. ASSUME NEW w \in Threads, Take(w) PROVE NoLostWakeup'
  <2>1. Len(waiting_queue') = Len(waiting_queue) - 1
    BY <1>c, Taken
  <2>2. OnTheirWay' = OnTheirWay \ {w} /\ w \in OnTheirWay /\ Asleep' = Asleep
    BY <1>c DEF Take, TypeOK, OnTheirWay, Asleep
  <2>3. Cardinality(OnTheirWay') = Cardinality(OnTheirWay) - 1
    BY <1>1, <2>2, FS_RemoveElement
  <2> QED BY <1>2, <1>3, <1>4, <2>1, <2>2, <2>3
<1>d. ASSUME NEW w \in Threads, Sleep(w) PROVE NoLostWakeup'
  <2>1. Len(waiting_queue') = 0
    BY <1>d DEF Sleep
  <2> QED BY <1>2, <1>4, <2>1
<1>e. ASSUME NEW w \in Threads, \/ Spawn(w) \/ SpuriousWakeup(w) \/ Execute(w)
                                \/ ExecuteQuit(w) \/ Leave(w) \/ Publish(w) \/ MarkIdle(w)
      PROVE  NoLostWakeup'
  BY <1>6, <1>e DEF Spawn, SpuriousWakeup, Execute, ExecuteQuit, Leave, Publish, MarkIdle,
                    TypeOK, Asleep, OnTheirWay
<1>f. CASE \/ Constructed \/ \E t \in Tasks : DropRefused(t)
           \/ GrabAllResults \/ QueryWaitingQueueCount
           \/ QueryIdleThreadsCount \/ QueryResultsCount \/ Destroy
           \/ AwaitExit \/ Destroyed
  <2>1. UNCHANGED <<waiting_queue, pc>>
    BY <1>f DEF Constructed, DropRefused, GrabAllResults, QueryWaitingQueueCount,
       QueryIdleThreadsCount, QueryResultsCount, Destroy, AwaitExit, Destroyed, poolVars
  <2> QED BY <1>6, <2>1 DEF Asleep, OnTheirWay
<1> QED
  BY <1>a, <1>b, <1>c, <1>d, <1>e, <1>f DEF Next, Construct, Use, Destructor, Cycle

-----------------------------------------------------------------------------
(* For any threads, tasks and queue size, constructor, Drop,               *)
(* GrabAllResults, Cycle and destructor keep the inductive invariant.      *)
THEOREM CycleCorrect == Spec => []CycleInv
<1>1. CycleInv /\ [Next]_vars => CycleInv'
  <2> SUFFICES ASSUME CycleInv, [Next]_vars PROVE CycleInv'
    OBVIOUS
  <2>1. CASE Next
    BY <2>1, TypeStep, PlaceStep, QuitStep, ExitStep, SeenStep, WakeupStep DEF CycleInv
  <2>2. CASE UNCHANGED vars
    <3> USE <2>2 DEF vars, poolVars, CycleInv
    <3>1. TypeOK' /\ TaskInHand'
      BY DEF TypeOK, TaskInHand
    <3>2. OnePlace' /\ Known' /\ OneQuit'
      BY DEF OnePlace, Known, OneQuit, QuitAbout, Positions
    <3>3. ExitsCounted' /\ SeenHolds' /\ NoLostWakeup'
      BY DEF ExitsCounted, Gone, SeenHolds, NoLostWakeup, Asleep
    <3> QED BY <3>1, <3>2, <3>3
  <2> QED BY <2>1, <2>2
<1> QED BY <1>1, InitCycle, PTL DEF Spec

(* Type correctness: in particular the queue never exceeds kMaxQueueSize    *)
(* and only the user's tasks have results.                                  *)
THEOREM CycleTypeOK == Spec => []TypeOK
BY CycleCorrect, PTL DEF CycleInv

(* Drop's single notify_one loses no wake-up. *)
THEOREM CycleNoLostWakeup == Spec => []NoLostWakeup
BY CycleCorrect, PTL DEF CycleInv

(* The destructor returns only when every thread is past its last use of   *)
(* the pool.                                                               *)
THEOREM CycleNoThreadOutlivesPool == Spec => []NoThreadOutlivesPool
<1>1. ASSUME CycleInv, user = "destroyed" PROVE Gone = Threads
  <2>1. IsFiniteSet(Threads) /\ Gone \subseteq Threads
    BY ThreadPoolAssumption DEF Gone
  <2>2. /\ Cardinality(Gone) \in Nat /\ kNumThreads \in Nat
        /\ Cardinality(Gone) <= kNumThreads
        /\ Cardinality(Gone) = kNumThreads => Gone = Threads
    BY <2>1, FS_Subset, FS_CardinalityType DEF kNumThreads
  <2>3. quit.i = kNumThreads /\ exit_mark >= quit.i
    BY <1>1, <2>2 DEF CycleInv, OneQuit
  <2>4. Gone = Threads
    BY <1>1, <2>2, <2>3 DEF CycleInv, ExitsCounted
  <2> QED BY <2>4
<1>2. CycleInv => NoThreadOutlivesPool
  BY <1>1 DEF NoThreadOutlivesPool
<1> QED BY <1>2, CycleCorrect, PTL

(* Waiting tasks, idle threads and results, asked for one after the other,  *)
(* add up although the pool runs on between two of the questions.           *)
THEOREM CycleQueriesAddUp == Spec => []QueriesAddUp
<1>1. CycleInv => QueriesAddUp
  BY DEF CycleInv, SeenHolds, QueriesAddUp, RunningTasks, Busy
<1> QED BY <1>1, CycleCorrect, PTL

-----------------------------------------------------------------------------
(* The refinement: the queue without its quit task, and the tasks that are  *)
(* being executed, step by step as in TaskService.                          *)
UserShape ==
  /\ UserQueue \in Seq(Tasks)
  /\ Len(waiting_queue) \in Nat /\ (QuitQueued => Len(waiting_queue) > 0)
  /\ Len(UserQueue) = IF QuitQueued THEN Len(waiting_queue) - 1 ELSE Len(waiting_queue)
  /\ \A i \in 1..Len(UserQueue) : i \in Positions /\ UserQueue[i] = waiting_queue[i]
  /\ QuitQueued \/ \A i \in Positions : waiting_queue[i] # QuitTask

(* The user sees the queue without the quit task, which can only be its    *)
(* last.                                                                   *)
LEMMA UserQueueIs ==
  ASSUME TypeOK, OneQuit
  PROVE  UserShape
<1> USE DEF UserShape
<1>1. waiting_queue \in Seq(Tasks \cup {QuitTask}) /\ Len(waiting_queue) \in Nat
      /\ \A i \in Positions : waiting_queue[i] \in Tasks \cup {QuitTask}
  BY DEF TypeOK, Positions
<1>2. CASE QuitQueued
  <2>1. Len(waiting_queue) > 0
    BY <1>1, <1>2 DEF QuitQueued
  <2>2. \A i \in 1..(Len(waiting_queue) - 1) : i \in Positions /\ waiting_queue[i] \in Tasks
    BY <1>1, <2>1 DEF OneQuit, Positions
  <2>3. UserQueue = SubSeq(waiting_queue, 1, Len(waiting_queue) - 1)
    BY <1>2 DEF UserQueue
  <2>4. /\ UserQueue \in Seq(Tasks) /\ Len(UserQueue) = Len(waiting_queue) - 1
        /\ \A i \in 1..(Len(waiting_queue) - 1) : UserQueue[i] = waiting_queue[i]
    <3> DEFINE n == Len(waiting_queue) - 1
    <3>1. n \in Nat /\ n - 1 + 1 = n /\ \A i \in 1..n : waiting_queue[i] \in Tasks
      BY <1>1, <2>1, <2>2
    <3>2. /\ SubSeq(waiting_queue, 1, n) \in Seq(Tasks)
          /\ Len(SubSeq(waiting_queue, 1, n)) = n
          /\ \A i \in 1..n : SubSeq(waiting_queue, 1, n)[i] = waiting_queue[i]
      <4> HIDE DEF n
      <4> QED BY <3>1, SubSeqProperties
    <3> QED BY <2>3, <3>2
  <2> QED BY <1>1, <1>2, <2>1, <2>2, <2>4
<1>3. CASE ~QuitQueued
  <2>1. \A i \in Positions : waiting_queue[i] # QuitTask
    BY <1>1, <1>3 DEF QuitQueued, OneQuit, Positions
  <2>2. UserQueue = waiting_queue
    BY <1>3 DEF UserQueue
  <2>3. \A i \in 1..Len(waiting_queue) : waiting_queue[i] \in Tasks
    BY <1>1, <2>1 DEF Positions
  <2>4. waiting_queue \in Seq(Tasks)
    BY <1>1, <2>3
  <2> QED BY <1>1, <1>3, <2>1, <2>2, <2>4 DEF Positions
<1> QED BY <1>2, <1>3

(* The user's queue is a prefix of the queue: two of them are equal when    *)
(* their lengths and tasks are.                                             *)
LEMMA SameQueue ==
  ASSUME NEW s \in Seq(Tasks), NEW r \in Seq(Tasks), Len(s) = Len(r),
         \A i \in 1..Len(s) : s[i] = r[i]
  PROVE  s = r
BY SeqEqual

(* Drop is what TaskService calls Accept. *)
LEMMA DropAccepts ==
  ASSUME CycleInv, UserShape, NEW t \in Tasks, Drop(t)
  PROVE  Service!Accept(t)
<1> USE DEF CycleInv
<1>1. /\ user = "serving" /\ HasRoom /\ Push(t) /\ t \notin dropped
      /\ UNCHANGED <<results_queue, task, grabbed>>
  BY DEF Drop
<1>2. QuitTask \notin Tasks /\ Null \notin Tasks
  BY ThreadPoolAssumption
<1>3. ~QuitQueued /\ UserQueue = waiting_queue
  <2>1. ~QuitAbout
    BY <1>1 DEF OneQuit
  <2>2. Len(waiting_queue) \in Nat /\ (QuitQueued => Len(waiting_queue) > 0)
    BY DEF UserShape
  <2> QED BY <2>1, <2>2 DEF QuitQueued, UserQueue, QuitAbout, Positions
<1>4. waiting_queue' = Append(waiting_queue, t) /\ waiting_queue \in Seq(Tasks)
  BY <1>1, <1>3 DEF Push, UserShape
<1>5. ~QuitQueued' /\ UserQueue' = Append(UserQueue, t)
  BY <1>2, <1>3, <1>4 DEF QuitQueued, UserQueue
<1>6. RunningTasks' = RunningTasks
  <2>1. Busy' = Busy
    BY <1>1, Pushed DEF Busy
  <2> QED BY <1>1, <2>1 DEF RunningTasks
<1>7. t \notin Service!Held
  <2>1. \A i \in 1..Len(UserQueue) : UserQueue[i] # t
    BY <1>1, <1>2, <1>3 DEF Known, Positions
  <2>2. t \notin RunningTasks
    BY <1>1, <1>2 DEF Known, RunningTasks, Busy
  <2>3. \A i \in 1..Len(results_queue) : results_queue[i] # t
    BY <1>1 DEF Known
  <2>4. \A i \in 1..Len(grabbed) : grabbed[i] # t
    BY <1>1 DEF Known
  <2> QED BY <2>1, <2>2, <2>3, <2>4 DEF Service!Held
<1>8. Len(UserQueue) < kMaxQueueSize
  BY <1>1, <1>3 DEF HasRoom
<1> QED BY <1>1, <1>5, <1>6, <1>7, <1>8 DEF Service!Accept

(* The destructor's quit task is invisible to the user. *)
LEMMA SendQuitStutters ==
  ASSUME CycleInv, UserShape, UserShape', SendQuit
  PROVE  UNCHANGED <<UserQueue, RunningTasks, results_queue, grabbed>>
<1> USE DEF CycleInv
<1>1. CASE UNCHANGED <<waiting_queue, pc>>
  BY <1>1 DEF SendQuit, UserQueue, QuitQueued, RunningTasks, Busy
<1>2. CASE HasRoom /\ Push(QuitTask)
  <2>1. UNCHANGED <<task, results_queue, grabbed>> /\ ~quit.sent
    BY DEF SendQuit
  <2>2. ~QuitAbout
    BY <2>1 DEF OneQuit
  <2>3. Len(waiting_queue) \in Nat /\ (QuitQueued => Len(waiting_queue) > 0)
    BY DEF UserShape
  <2>4. ~QuitQueued
    BY <2>2, <2>3 DEF QuitQueued, QuitAbout, Positions
  <2>5. /\ Len(waiting_queue') = Len(waiting_queue) + 1
        /\ waiting_queue'[Len(waiting_queue) + 1] = QuitTask
        /\ \A i \in Positions : waiting_queue'[i] = waiting_queue[i]
    BY <1>2, Pushed
  <2>6. QuitQueued'
    BY <2>3, <2>5 DEF QuitQueued
  <2>7. /\ UserQueue \in Seq(Tasks) /\ Len(UserQueue) = Len(waiting_queue)
        /\ \A i \in 1..Len(UserQueue) : i \in Positions /\ UserQueue[i] = waiting_queue[i]
    BY <2>4 DEF UserShape
  <2>8. /\ UserQueue' \in Seq(Tasks) /\ Len(UserQueue') = Len(waiting_queue') - 1
        /\ \A i \in 1..Len(UserQueue') : UserQueue'[i] = waiting_queue'[i]
    BY <2>6 DEF UserShape
  <2>9. Len(UserQueue') = Len(UserQueue) /\ \A i \in 1..Len(UserQueue) : UserQueue'[i] = UserQueue[i]
    BY <2>3, <2>5, <2>7, <2>8
  <2>10. UserQueue' = UserQueue
    BY <2>7, <2>8, <2>9, SameQueue
  <2>11. Busy' = Busy
    BY <1>2, <2>1, Pushed DEF Busy
  <2> QED BY <2>1, <2>10, <2>11 DEF RunningTasks
<1> QED BY <1>1, <1>2 DEF SendQuit

(* Fewer tasks are being executed than there are threads when one of them  *)
(* has none in hand.                                                       *)
LEMMA RunningBound ==
  ASSUME CycleInv, NEW w \in Threads, w \notin Busy
  PROVE  Cardinality(RunningTasks) < kNumThreads
<1>1. IsFiniteSet(Threads) /\ Busy \subseteq Threads \ {w}
  BY ThreadPoolAssumption DEF Busy
<1>2. IsFiniteSet(Threads \ {w}) /\ Cardinality(Threads \ {w}) = kNumThreads - 1
  BY <1>1, FS_RemoveElement DEF kNumThreads
<1>3. IsFiniteSet(Busy) /\ Cardinality(Busy) <= kNumThreads - 1
  BY <1>1, <1>2, FS_Subset
<1> DEFINE f == [v \in Busy |-> task[v]]
<1>4. f \in Surjection(Busy, RunningTasks)
  BY DEF Surjection, RunningTasks
<1>5. Cardinality(RunningTasks) <= Cardinality(Busy)
  <2> HIDE DEF f
  <2> QED BY <1>3, <1>4, FS_Surjection
<1>6. Cardinality(Busy) \in Nat /\ Cardinality(RunningTasks) \in Nat /\ kNumThreads \in Nat
  BY <1>1, <1>3, <1>4, FS_Surjection, FS_CardinalityType DEF kNumThreads
<1> QED BY <1>3, <1>5, <1>6

(* Taking a task starts it; taking the quit task is invisible. *)
LEMMA TakeStarts ==
  ASSUME CycleInv, UserShape, UserShape', NEW w \in Threads, Take(w)
  PROVE  Service!Start \/ UNCHANGED <<UserQueue, RunningTasks, results_queue, grabbed>>
<1> USE DEF CycleInv
<1>1. /\ Len(waiting_queue) \in Nat \ {0} /\ 1 \in Positions
      /\ Len(waiting_queue') = Len(waiting_queue) - 1
      /\ \A i \in Positions' : waiting_queue'[i] = waiting_queue[i + 1]
      /\ task'[w] = waiting_queue[1] /\ pc'[w] = "execute" /\ pc[w] = "cycle"
      /\ \A v \in Threads \ {w} : task'[v] = task[v] /\ pc'[v] = pc[v]
      /\ results_queue' = results_queue /\ grabbed' = grabbed
  BY Taken DEF Take
<1>2. w \notin Busy
  BY <1>1 DEF Busy
<1>3. /\ UserQueue \in Seq(Tasks) /\ Len(UserQueue) \in Nat
      /\ Len(UserQueue) = IF QuitQueued THEN Len(waiting_queue) - 1 ELSE Len(waiting_queue)
      /\ \A i \in 1..Len(UserQueue) : UserQueue[i] = waiting_queue[i]
      /\ QuitQueued \/ \A i \in Positions : waiting_queue[i] # QuitTask
  BY DEF UserShape
<1>4. /\ UserQueue' \in Seq(Tasks)
      /\ Len(UserQueue') = IF QuitQueued' THEN Len(waiting_queue') - 1
                                          ELSE Len(waiting_queue')
      /\ \A i \in 1..Len(UserQueue') : i \in Positions' /\ UserQueue'[i] = waiting_queue'[i]
      /\ QuitQueued' => Len(waiting_queue') > 0
  BY DEF UserShape
<1>5. CASE waiting_queue[1] = QuitTask
  <2>1. Len(waiting_queue) = 1 /\ QuitQueued
    BY <1>1, <1>3, <1>5 DEF OneQuit
  <2>2. Len(UserQueue) = 0 /\ Len(UserQueue') = 0
    BY <1>1, <1>3, <1>4, <2>1
  <2>3. UserQueue' = UserQueue
    BY <1>3, <1>4, <2>2
  <2>4. Busy' = Busy /\ \A v \in Busy : task'[v] = task[v]
    BY <1>1, <1>2, <1>5 DEF Busy
  <2> QED BY <1>1, <2>3, <2>4 DEF RunningTasks
<1>6. CASE waiting_queue[1] # QuitTask
  <2>1. Len(UserQueue) > 0
    BY <1>1, <1>3, <1>6 DEF QuitQueued
  <2>2. UserQueue # <<>> /\ Head(UserQueue) = waiting_queue[1]
    BY <1>3, <2>1
  <2>3. QuitQueued' <=> QuitQueued
    <3>1. CASE Len(waiting_queue) = 1
      BY <1>1, <1>4, <1>6, <3>1 DEF QuitQueued
    <3>2. CASE Len(waiting_queue) > 1
      <4>1. Len(waiting_queue') \in Positions' /\ Len(waiting_queue') > 0
        BY <1>1, <3>2 DEF Positions
      <4>2. waiting_queue'[Len(waiting_queue')] = waiting_queue[Len(waiting_queue)]
        BY <1>1, <4>1
      <4> QED BY <1>1, <4>1, <4>2 DEF QuitQueued
    <3> QED BY <1>1, <3>1, <3>2
  <2>4. Len(UserQueue') = Len(UserQueue) - 1
    BY <1>1, <1>3, <1>4, <2>3
  <2>5. /\ Tail(UserQueue) \in Seq(Tasks) /\ Len(Tail(UserQueue)) = Len(UserQueue) - 1
        /\ \A i \in 1..(Len(UserQueue) - 1) : Tail(UserQueue)[i] = UserQueue[i + 1]
    BY <1>3, <2>2, HeadTailProperties
  <2>6. \A i \in 1..(Len(UserQueue) - 1) : UserQueue'[i] = UserQueue[i + 1]
    <3> SUFFICES ASSUME NEW i \in 1..(Len(UserQueue) - 1)
                 PROVE  UserQueue'[i] = UserQueue[i + 1]
      OBVIOUS
    <3>1. i \in 1..Len(UserQueue') /\ i + 1 \in 1..Len(UserQueue)
      BY <1>3, <2>4
    <3> QED BY <1>1, <1>3, <1>4, <3>1
  <2>7. UserQueue' = Tail(UserQueue)
    BY <1>4, <2>4, <2>5, <2>6, SameQueue
  <2>8. Busy' = Busy \cup {w} /\ \A v \in Busy : task'[v] = task[v]
    BY <1>1, <1>2, <1>6 DEF Busy
  <2>9. RunningTasks' = RunningTasks \cup {Head(UserQueue)}
    BY <1>1, <2>2, <2>8 DEF RunningTasks
  <2>10. Cardinality(RunningTasks) < kNumThreads
    BY <1>2, RunningBound
  <2>11. Service!Cardinality(RunningTasks) = Cardinality(RunningTasks)
    BY DEF Service!Cardinality, Cardinality, Service!IsFiniteSet, IsFiniteSet
  <2>12. Service!Start
    BY <1>1, <2>2, <2>7, <2>9, <2>10, <2>11 DEF Service!Start
  <2> QED BY <2>12
<1> QED BY <1>5, <1>6

(* A task ends when its result is published, or when it turns out that it   *)
(* has none.                                                                *)
LEMMA TaskFinishes ==
  ASSUME CycleInv, NEW w \in Threads, w \in Busy,
         Busy' = Busy \ {w}, UNCHANGED <<task, waiting_queue, grabbed>>,
         results_queue' = IF task[w] \in Silent THEN results_queue
                          ELSE Append(results_queue, task[w])
  PROVE  \E t \in Tasks : Service!Finish(t)
<1> USE DEF CycleInv
<1>1. task[w] \in Tasks /\ task[w] \in RunningTasks
  BY DEF Busy, RunningTasks, TypeOK, TaskInHand
<1>2. RunningTasks' = RunningTasks \ {task[w]}
  <2>1. \A v \in Busy : task[v] = task[w] => v = w
    BY ThreadPoolAssumption, <1>1 DEF OnePlace, Busy
  <2> QED BY <2>1 DEF RunningTasks
<1>3. UserQueue' = UserQueue
  BY DEF UserQueue, QuitQueued
<1>4. Service!Finish(task[w])
  BY <1>1, <1>2, <1>3 DEF Service!Finish
<1> QED BY <1>1, <1>4

(* The pool is a task service, for any threads, tasks and queue size: every *)
(* task that Drop accepts is executed once, in order, by at most            *)
(* kNumThreads threads at a time; its result, if it has one, is not lost    *)
(* and GrabAllResults returns it once.                                      *)
THEOREM PoolIsTaskService == Spec => Service!Spec
<1>1. Init => Service!Init
  <2> SUFFICES ASSUME Init PROVE Service!Init
    OBVIOUS
  <2>1. UserQueue = <<>>
    BY DEF Init, UserQueue, QuitQueued
  <2>2. RunningTasks = {}
    BY DEF Init, RunningTasks, Busy
  <2> QED BY <2>1, <2>2 DEF Init, Service!Init
<1>2. CycleInv => UserShape
  BY UserQueueIs DEF CycleInv
<1>3. CycleInv /\ UserShape /\ UserShape' /\ [Next]_vars
        => [Service!Next]_<<UserQueue, RunningTasks, results_queue, grabbed>>
  <2> SUFFICES ASSUME CycleInv, UserShape, UserShape', [Next]_vars
               PROVE  Service!Next \/ UNCHANGED <<UserQueue, RunningTasks, results_queue, grabbed>>
    OBVIOUS
  <2>1. ASSUME UNCHANGED <<waiting_queue, results_queue, grabbed>>,
               Busy' = Busy, \A v \in Busy : task'[v] = task[v]
        PROVE  UNCHANGED <<UserQueue, RunningTasks, results_queue, grabbed>>
    BY <2>1 DEF UserQueue, QuitQueued, RunningTasks
  <2>a. CASE UNCHANGED vars
    BY <2>1, <2>a DEF vars, poolVars, Busy
  <2>b. ASSUME NEW t \in Tasks, Drop(t) PROVE Service!Next
    BY <2>b, DropAccepts DEF Service!Next
  <2>c. CASE GrabAllResults
    <3>1. UNCHANGED <<UserQueue, RunningTasks>> /\ results_queue' = <<>>
          /\ grabbed' = results_queue
      BY <2>c DEF GrabAllResults, UserQueue, QuitQueued, RunningTasks, Busy
    <3> QED BY <3>1 DEF Service!Next, Service!Collect
  <2>d. CASE SendQuit
    BY <2>d, SendQuitStutters
  <2>e. ASSUME NEW w \in Threads, Take(w)
        PROVE  Service!Next \/ UNCHANGED <<UserQueue, RunningTasks, results_queue, grabbed>>
    BY <2>e, TakeStarts DEF Service!Next
  <2>f. ASSUME NEW w \in Threads, Execute(w)
        PROVE  Service!Next \/ UNCHANGED <<UserQueue, RunningTasks, results_queue, grabbed>>
    <3>1. w \in Busy /\ UNCHANGED <<task, waiting_queue, results_queue, grabbed>>
      BY <2>f DEF Execute, Busy
    <3>2. CASE task[w] \in Silent
      <4>1. Busy' = Busy \ {w}
        BY <2>f, <3>2 DEF Execute, Busy, CycleInv, TypeOK
      <4> QED BY <3>1, <3>2, <4>1, TaskFinishes DEF Service!Next
    <3>3. CASE task[w] \notin Silent
      <4>1. Busy' = Busy
        BY <2>f, <3>3 DEF Execute, Busy, CycleInv, TypeOK
      <4> QED BY <2>1, <3>1, <4>1
    <3> QED BY <3>2, <3>3
  <2>g. ASSUME NEW w \in Threads, Publish(w) PROVE Service!Next
    <3>1. w \in Busy /\ Busy' = Busy \ {w} /\ UNCHANGED <<task, waiting_queue, grabbed>>
          /\ results_queue' = Append(results_queue, task[w])
      BY <2>g DEF Publish, Busy, CycleInv, TypeOK, TaskInHand
    <3>2. task[w] \notin Silent
      BY <2>g DEF Publish, CycleInv, TaskInHand
    <3> QED BY <3>1, <3>2, TaskFinishes DEF Service!Next
  <2>h. ASSUME NEW w \in Threads,
               \/ Spawn(w) \/ Sleep(w) \/ SpuriousWakeup(w) \/ ExecuteQuit(w)
               \/ Leave(w) \/ MarkIdle(w)
        PROVE  UNCHANGED <<UserQueue, RunningTasks, results_queue, grabbed>>
    <3>1. w \notin Busy
      BY <2>h DEF Busy, Spawn, Sleep, SpuriousWakeup, ExecuteQuit, Leave, MarkIdle
    <3>2. /\ UNCHANGED <<waiting_queue, results_queue, grabbed>> /\ pc'[w] \notin {"execute", "publish"}
          /\ \A v \in Threads \ {w} : pc'[v] = pc[v] /\ task'[v] = task[v]
      BY <2>h DEF Spawn, Sleep, SpuriousWakeup, ExecuteQuit, Leave, MarkIdle, CycleInv, TypeOK
    <3>3. Busy' = Busy /\ \A v \in Busy : task'[v] = task[v]
      BY <3>1, <3>2 DEF Busy
    <3> QED BY <2>1, <3>2, <3>3
  <2>i. CASE \/ Constructed \/ \E t \in Tasks : DropRefused(t)
             \/ QueryWaitingQueueCount \/ QueryIdleThreadsCount \/ QueryResultsCount
             \/ Destroy \/ AwaitExit \/ Destroyed
    <3>1. UNCHANGED poolVars /\ grabbed' = grabbed
      BY <2>i DEF Constructed, DropRefused, QueryWaitingQueueCount,
         QueryIdleThreadsCount, QueryResultsCount, Destroy, AwaitExit, Destroyed
    <3> QED BY <2>1, <3>1 DEF poolVars, Busy
  <2> QED
    BY <2>a, <2>b, <2>c, <2>d, <2>e, <2>f, <2>g, <2>h, <2>i
    DEF Next, Construct, Use, Destructor, Cycle
<1> QED BY <1>1, <1>2, <1>3, CycleCorrect, PTL DEF Spec, Service!Spec, Service!serviceVars

=============================================================================
