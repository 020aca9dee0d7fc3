----------------------------- MODULE ThreadPool -----------------------------
(***************************************************************************)
(* tiny_tp::ThreadPool, the pool inside DispatchEventsService: a bounded   *)
(* queue of tasks under a mutex and a condition variable, worker threads   *)
(* that run Cycle, a queue of results, the map of idle threads, and the    *)
(* destructor, which sends the threads one quit task after the other.      *)
(*                                                                         *)
(* The user is one thread, as DispatchEventsService's is: it constructs    *)
(* the pool, calls Drop and GrabAllResults, and may destroy the pool.      *)
(* Every critical section is one step.  The one nested lock (Cycle takes   *)
(* threads_idle_mtx_ while it holds waiting_queue_mtx_) does not block:    *)
(* other holders of threads_idle_mtx_ take no second lock, and the         *)
(* constructor, which holds it for long, returns before the first Drop.    *)
(***************************************************************************)
EXTENDS Integers, Sequences, FiniteSets

CONSTANTS Threads,        \* the worker threads; kNumThreads of them
          kMaxQueueSize,
          Tasks,          \* tasks the user may drop, each once
          Silent,         \* the tasks whose Execute returns nullptr
          QuitTask, Null

ASSUME ThreadPoolAssumption ==
  /\ IsFiniteSet(Threads)
  /\ kMaxQueueSize \in Nat
  /\ Silent \subseteq Tasks
  /\ QuitTask \notin Tasks /\ Null \notin Tasks \cup {QuitTask}

kNumThreads == Cardinality(Threads)

VARIABLES
  waiting_queue,
  results_queue,
  threads_idle,   \* threads_idle[w]: FALSE also while w has no entry
  exit_mark,
  pc,             \* pc[w]: where w is in Cycle
  task,           \* task[w]: the task w took, or Null
  user,           \* what the user's thread is doing
  quit,           \* the destructor's i, and whether task i was sent
  dropped,        \* the tasks the user has offered
  grabbed,        \* the vector GrabAllResults returned last
  seen            \* what the Query functions told the user

poolVars == <<waiting_queue, results_queue, threads_idle, exit_mark, pc, task>>
vars == <<poolVars, user, quit, dropped, grabbed, seen>>

(* new: not spawned; cycle: wants waiting_queue_mtx_; asleep: blocked on    *)
(* the condition variable; execute, publish, mark: the rest of Cycle's      *)
(* body; leaving: counted, has only its break to do; exited: left Cycle.     *)
PcState == {"new", "cycle", "asleep", "execute", "publish", "mark", "leaving", "exited"}
UserState == {"constructing", "serving", "quitting", "destroyed"}

NothingSeen == [drained |-> FALSE, idle |-> FALSE, results |-> 0]

Init ==
  /\ waiting_queue = <<>> /\ results_queue = <<>>
  /\ threads_idle = [w \in Threads |-> FALSE]
  /\ exit_mark = 0
  /\ pc = [w \in Threads |-> "new"]
  /\ task = [w \in Threads |-> Null]
  /\ user = "constructing"
  /\ quit = [i |-> 0, sent |-> FALSE]
  /\ dropped = {} /\ grabbed = <<>>
  /\ seen = NothingSeen

-----------------------------------------------------------------------------
(* The user's thread *)

(* One round of the constructor's loop, and its end. *)
Spawn(w) ==
  /\ user = "constructing" /\ pc[w] = "new"
  /\ pc' = [pc EXCEPT ![w] = "cycle"]
  /\ threads_idle' = [threads_idle EXCEPT ![w] = TRUE]
  /\ UNCHANGED <<waiting_queue, results_queue, exit_mark, task, user, quit, dropped, grabbed, seen>>

Constructed ==
  /\ user = "constructing" /\ \A w \in Threads : pc[w] # "new"
  /\ user' = "serving"
  /\ UNCHANGED <<poolVars, quit, dropped, grabbed, seen>>

Asleep == {w \in Threads : pc[w] = "asleep"}

(* Mutants: nobody is notified; one task too many is let in. *)
NotifyNone == UNCHANGED pc
HasRoomForOneMore == Len(waiting_queue) <= kMaxQueueSize

(* notify_one wakes one of the threads that are blocked, if any is. *)
NotifyOne ==
  \/ Asleep = {} /\ UNCHANGED pc
  \/ \E w \in Asleep : pc' = [pc EXCEPT ![w] = "cycle"]

HasRoom == Len(waiting_queue) < kMaxQueueSize

Push(t) == waiting_queue' = Append(waiting_queue, t) /\ NotifyOne

(* Drop returns true, or false: the queue is full. *)
Drop(t) ==
  /\ user = "serving" /\ t \notin dropped
  /\ HasRoom /\ Push(t)
  /\ dropped' = dropped \cup {t}
  /\ seen' = [seen EXCEPT !.drained = FALSE, !.idle = FALSE]
  /\ UNCHANGED <<results_queue, threads_idle, exit_mark, task, user, quit, grabbed>>

DropRefused(t) ==
  /\ user = "serving" /\ t \notin dropped
  /\ ~HasRoom
  /\ dropped' = dropped \cup {t}
  /\ UNCHANGED <<poolVars, user, quit, grabbed, seen>>

(* Mutant: the results are read and not popped. *)
GrabKeeps ==
  /\ user = "serving"
  /\ grabbed' = results_queue
  /\ UNCHANGED <<poolVars, user, quit, dropped, seen>>

GrabAllResults ==
  /\ user = "serving"
  /\ grabbed' = results_queue /\ results_queue' = <<>>
  /\ seen' = [seen EXCEPT !.results = 0]
  /\ UNCHANGED <<waiting_queue, threads_idle, exit_mark, pc, task, user, quit, dropped>>

(* The Query functions read under a mutex each.  A user that wants to know *)
(* whether the pool is done asks for the waiting tasks first and for the   *)
(* idle threads after that; both answers are void once it drops a task.    *)
QueryWaitingQueueCount ==
  /\ user = "serving"
  /\ seen' = [seen EXCEPT !.drained = waiting_queue = <<>>, !.idle = FALSE]
  /\ UNCHANGED <<poolVars, user, quit, dropped, grabbed>>

QueryIdleThreadsCount ==
  /\ user = "serving" /\ seen.drained
  /\ seen' = [seen EXCEPT !.idle =
                Cardinality({w \in Threads : threads_idle[w]}) = kNumThreads]
  /\ UNCHANGED <<poolVars, user, quit, dropped, grabbed>>

QueryResultsCount ==
  /\ user = "serving"
  /\ seen' = [seen EXCEPT !.results = Len(results_queue)]
  /\ UNCHANGED <<poolVars, user, quit, dropped, grabbed>>

(* The destructor: for each i, Drop(QuitTask), whose answer is ignored,     *)
(* then spin until exit_mark_ is i + 1.                                     *)
Destroy ==
  /\ user = "serving"
  /\ user' = "quitting"
  /\ seen' = NothingSeen
  /\ UNCHANGED <<poolVars, quit, dropped, grabbed>>

SendQuit ==
  /\ user = "quitting" /\ ~quit.sent /\ quit.i < kNumThreads
  /\ \/ HasRoom /\ Push(QuitTask)
     \/ ~HasRoom /\ UNCHANGED <<waiting_queue, pc>>
  /\ quit' = [quit EXCEPT !.sent = TRUE]
  /\ UNCHANGED <<results_queue, threads_idle, exit_mark, task, user, dropped, grabbed, seen>>

(* Mutant: the destructor does not wait for the thread to exit. *)
AwaitNothing ==
  /\ user = "quitting" /\ quit.sent
  /\ quit' = [i |-> quit.i + 1, sent |-> FALSE]
  /\ UNCHANGED <<poolVars, user, dropped, grabbed, seen>>

AwaitExit ==
  /\ user = "quitting" /\ quit.sent /\ exit_mark = quit.i + 1
  /\ quit' = [i |-> quit.i + 1, sent |-> FALSE]
  /\ UNCHANGED <<poolVars, user, dropped, grabbed, seen>>

Destroyed ==
  /\ user = "quitting" /\ quit.i = kNumThreads
  /\ user' = "destroyed"
  /\ UNCHANGED <<poolVars, quit, dropped, grabbed, seen>>

-----------------------------------------------------------------------------
(* Cycle, run by worker thread w *)

(* Mutants: the thread is idle again before its result is published; a     *)
(* thread exits without counting.                                          *)
ExecuteMarksIdle(w) ==
  /\ pc[w] = "execute" /\ task[w] # QuitTask
  /\ threads_idle' = [threads_idle EXCEPT ![w] = TRUE]
  /\ pc' = [pc EXCEPT ![w] = "publish"]
  /\ UNCHANGED <<waiting_queue, results_queue, exit_mark, task, user, quit, dropped, grabbed, seen>>
ExitUncounted(w) ==
  /\ pc[w] = "execute" /\ task[w] = QuitTask
  /\ task' = [task EXCEPT ![w] = Null]
  /\ pc' = [pc EXCEPT ![w] = "leaving"]
  /\ UNCHANGED <<waiting_queue, results_queue, threads_idle, exit_mark, user, quit,
                 dropped, grabbed, seen>>

(* The predicate holds: the thread is marked busy and takes the task. *)
Take(w) ==
  /\ pc[w] = "cycle" /\ waiting_queue # <<>>
  /\ threads_idle' = [threads_idle EXCEPT ![w] = FALSE]
  /\ task' = [task EXCEPT ![w] = Head(waiting_queue)]
  /\ waiting_queue' = Tail(waiting_queue)
  /\ pc' = [pc EXCEPT ![w] = "execute"]
  /\ UNCHANGED <<results_queue, exit_mark, user, quit, dropped, grabbed, seen>>

Sleep(w) ==
  /\ pc[w] = "cycle" /\ waiting_queue = <<>>
  /\ pc' = [pc EXCEPT ![w] = "asleep"]
  /\ UNCHANGED <<waiting_queue, results_queue, threads_idle, exit_mark, task, user,
                 quit, dropped, grabbed, seen>>

(* A condition variable may wake a thread that nobody notified. *)
SpuriousWakeup(w) ==
  /\ pc[w] = "asleep"
  /\ pc' = [pc EXCEPT ![w] = "cycle"]
  /\ UNCHANGED <<waiting_queue, results_queue, threads_idle, exit_mark, task, user,
                 quit, dropped, grabbed, seen>>

(* task->Execute() returned something, or nothing. *)
Execute(w) ==
  /\ pc[w] = "execute" /\ task[w] # QuitTask
  /\ pc' = [pc EXCEPT ![w] = IF task[w] \in Silent THEN "mark" ELSE "publish"]
  /\ UNCHANGED <<waiting_queue, results_queue, threads_idle, exit_mark, task, user,
                 quit, dropped, grabbed, seen>>

(* ... or exit_mark_, which is incremented: from here on the destructor may *)
(* go on, and the thread may be still in Cycle when the pool is gone.       *)
ExecuteQuit(w) ==
  /\ pc[w] = "execute" /\ task[w] = QuitTask
  /\ exit_mark' = exit_mark + 1
  /\ task' = [task EXCEPT ![w] = Null]
  /\ pc' = [pc EXCEPT ![w] = "leaving"]
  /\ UNCHANGED <<waiting_queue, results_queue, threads_idle, user, quit, dropped, grabbed, seen>>

(* The break: Cycle's locals go, the pointers to task and mark among them.  *)
Leave(w) ==
  /\ pc[w] = "leaving"
  /\ pc' = [pc EXCEPT ![w] = "exited"]
  /\ UNCHANGED <<waiting_queue, results_queue, threads_idle, exit_mark, task, user,
                 quit, dropped, grabbed, seen>>

Publish(w) ==
  /\ pc[w] = "publish"
  /\ results_queue' = Append(results_queue, task[w])
  /\ pc' = [pc EXCEPT ![w] = "mark"]
  /\ UNCHANGED <<waiting_queue, threads_idle, exit_mark, task, user, quit, dropped, grabbed, seen>>

MarkIdle(w) ==
  /\ pc[w] = "mark"
  /\ threads_idle' = [threads_idle EXCEPT ![w] = TRUE]
  /\ task' = [task EXCEPT ![w] = Null]
  /\ pc' = [pc EXCEPT ![w] = "cycle"]
  /\ UNCHANGED <<waiting_queue, results_queue, exit_mark, user, quit, dropped, grabbed, seen>>

-----------------------------------------------------------------------------
Construct == (\E w \in Threads : Spawn(w)) \/ Constructed
Use == (\E t \in Tasks : Drop(t) \/ DropRefused(t)) \/ GrabAllResults
       \/ QueryWaitingQueueCount \/ QueryIdleThreadsCount \/ QueryResultsCount
       \/ Destroy
Destructor == SendQuit \/ AwaitExit \/ Destroyed
Cycle(w) == \/ Take(w) \/ Sleep(w) \/ Execute(w) \/ ExecuteQuit(w)
            \/ Leave(w) \/ Publish(w) \/ MarkIdle(w)

Next == \/ Construct \/ Use \/ Destructor
        \/ \E w \in Threads : Cycle(w) \/ SpuriousWakeup(w)

Spec == Init /\ [][Next]_vars

(* Every thread keeps running, the user's inside the constructor and the    *)
(* destructor; the user need not call anything.                             *)
FairSpec ==
  /\ Spec
  /\ WF_vars(Construct) /\ WF_vars(Destructor)
  /\ \A w \in Threads : WF_vars(Cycle(w))

-----------------------------------------------------------------------------
TypeOK ==
  /\ waiting_queue \in Seq(Tasks \cup {QuitTask})
  /\ results_queue \in Seq(Tasks)
  /\ threads_idle \in [Threads -> BOOLEAN]
  /\ exit_mark \in Nat
  /\ pc \in [Threads -> PcState]
  /\ task \in [Threads -> Tasks \cup {QuitTask, Null}]
  /\ user \in UserState
  /\ quit \in [i : Nat, sent : BOOLEAN]
  /\ dropped \subseteq Tasks
  /\ grabbed \in Seq(Tasks)
  /\ seen \in [drained : BOOLEAN, idle : BOOLEAN, results : Nat]
  /\ Len(waiting_queue) <= kMaxQueueSize

(* No wake-up is lost: while a thread sleeps, every waiting task has a      *)
(* thread on its way to the queue (Drop's single notify_one is enough).     *)
NoLostWakeup ==
  Asleep # {} =>
    Len(waiting_queue) <= Cardinality({w \in Threads : pc[w] = "cycle"})

(* The threads that are counted in exit_mark_. *)
Gone == {w \in Threads : pc[w] \in {"leaving", "exited"}}

(* The threads are detached, and nothing but the count holds the destructor *)
(* back.  It is enough: once the pool is gone every thread is past its last *)
(* use of the queues, mutexes and marks; all that a late one still has to   *)
(* do is to leave the loop.                                                 *)
NoThreadOutlivesPool ==
  user = "destroyed" => Gone = Threads

(* The pool as a task service.  A quit task, the last in the queue, is not  *)
(* the user's; a task is being executed until its result is published.      *)
QuitQueued == waiting_queue # <<>> /\ waiting_queue[Len(waiting_queue)] = QuitTask
UserQueue == IF QuitQueued THEN SubSeq(waiting_queue, 1, Len(waiting_queue) - 1)
             ELSE waiting_queue
Busy == {w \in Threads : pc[w] \in {"execute", "publish"} /\ task[w] # QuitTask}
RunningTasks == {task[w] : w \in Busy}

(* What the Query functions tell a user adds up although each takes its     *)
(* own mutex and the pool runs on between two calls: a user that saw no     *)
(* task waiting and then every thread idle knows that all it dropped is     *)
(* executed and the results are there, and the results it counted are       *)
(* there until it grabs them.  (Asked in the other order the two answers    *)
(* say nothing: a thread takes its task in between.)                        *)
QueriesAddUp ==
  /\ seen.idle => waiting_queue = <<>> /\ RunningTasks = {}
  /\ seen.results <= Len(results_queue)

Service == INSTANCE TaskService
  WITH Task <- Tasks, Capacity <- kMaxQueueSize, Parallel <- kNumThreads,
       queue <- UserQueue, running <- RunningTasks,
       results <- results_queue, hand <- grabbed

(* The pool implements the service: tasks are executed once and in order;   *)
(* no result is lost, and GrabAllResults returns every one once; and it     *)
(* gets them done: an accepted task is started and finished.                *)
ImplementsFairService == Service!FairSpec

(* The quit task the destructor waits for is not in the pool and no thread  *)
(* has exited for it: the queue was full when it was sent.                  *)
QuitRefused ==
  /\ quit.sent /\ Cardinality(Gone) = quit.i
  /\ \A i \in 1..Len(waiting_queue) : waiting_queue[i] # QuitTask
  /\ \A w \in Threads : task[w] # QuitTask

(* A quit task that got into the queue is enough: it is behind the user's   *)
(* tasks, any thread may take it, and whichever does is the one waited for. *)
DestructorEndsUnlessRefused ==
  user = "quitting" ~> (user = "destroyed" \/ QuitRefused)

=============================================================================
