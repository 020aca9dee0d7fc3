----------------------------- MODULE TaskService -----------------------------
(***************************************************************************)
(* What a pool of threads promises its user: a task that is accepted is    *)
(* executed exactly once; tasks are started in the order in which they     *)
(* were accepted, never more of them at a time than there are threads; the *)
(* result of a finished task, unless it has none, is kept until the user   *)
(* asks, and is then handed over, in the order of the results and once.    *)
(***************************************************************************)
EXTENDS Integers, Sequences, FiniteSets

CONSTANTS Task,         \* the tasks
          Silent,       \* those without a result
          Capacity,     \* how many may wait
          Parallel      \* how many may be executed at a time

VARIABLES
  queue,      \* accepted, not started, in order of acceptance
  running,    \* started, not finished
  results,    \* results nobody asked for yet, in order of availability
  hand        \* results the user was handed last and still works on

serviceVars == <<queue, running, results, hand>>

Init == queue = <<>> /\ running = {} /\ results = <<>> /\ hand = <<>>

(* Tasks the service and its user know of: none is taken for a new one. *)
Held == {queue[i] : i \in 1..Len(queue)} \cup running
          \cup {results[i] : i \in 1..Len(results)}
          \cup {hand[i] : i \in 1..Len(hand)}

Accept(t) ==
  /\ t \notin Held /\ Len(queue) < Capacity
  /\ queue' = Append(queue, t)
  /\ UNCHANGED <<running, results, hand>>

Start ==
  /\ queue # <<>> /\ Cardinality(running) < Parallel
  /\ running' = running \cup {Head(queue)}
  /\ queue' = Tail(queue)
  /\ UNCHANGED <<results, hand>>

Finish(t) ==
  /\ t \in running
  /\ running' = running \ {t}
  /\ results' = IF t \in Silent THEN results ELSE Append(results, t)
  /\ UNCHANGED <<queue, hand>>

(* The user asks and is handed all results there are. *)
Collect ==
  /\ hand' = results /\ results' = <<>>
  /\ UNCHANGED <<queue, running>>

(* The user is done with the first result it was handed. *)
WorkOff ==
  /\ hand # <<>> /\ hand' = Tail(hand)
  /\ UNCHANGED <<queue, running, results>>

Next ==
  \/ \E t \in Task : Accept(t)
  \/ Start
  \/ \E t \in Task : Finish(t)
  \/ Collect
  \/ WorkOff

Spec == Init /\ [][Next]_serviceVars

(* Tasks that wait are started while a thread is free, and a started task  *)
(* finishes.                                                               *)
FairSpec ==
  /\ Spec
  /\ WF_serviceVars(Start)
  /\ \A t \in Task : WF_serviceVars(Finish(t))

=============================================================================
