---------------------------- MODULE FcfsScheduler ---------------------------
(***************************************************************************)
(* struct FcfsScheduler: first come, first served, never preempts.         *)
(* Every operation takes the policy's state s and returns its new state;   *)
(* pick_next and on_tick return the set of their possible answers, here    *)
(* always a single one.                                                    *)
(***************************************************************************)
EXTENDS Sequences

CONSTANT None

New == [name |-> "FCFS", queue |-> << >>]

Enqueue(s, t) == [s EXCEPT !.queue = Append(@, t)]

PickNext(s) ==
  IF s.queue = << >>
  THEN {[next |-> None, sched |-> s]}
  ELSE {[next |-> Head(s.queue), sched |-> [s EXCEPT !.queue = Tail(@)]]}

OnTick(s) == {[action |-> "Continue", sched |-> s]}

OnBlock(s, t) == s

OnWakeup(s, t) == Enqueue(s, t)
=============================================================================
