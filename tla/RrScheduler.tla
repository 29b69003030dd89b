----------------------------- MODULE RrScheduler ----------------------------
(***************************************************************************)
(* struct RrScheduler: a FIFO whose head runs for at most RrQuantum ticks. *)
(* `running` is the policy's own idea of the running task; the experiment  *)
(* loop keeps another one and never tells the policy that a task finished. *)
(***************************************************************************)
EXTENDS Integers, Sequences

CONSTANTS None, RrQuantum

New == [name |-> "RR", queue |-> << >>, running |-> None, used_slice |-> 0]

\* Mutant: push_front.
EnqueueInFront(s, t) == [s EXCEPT !.queue = <<t>> \o @]

Enqueue(s, t) == [s EXCEPT !.queue = Append(@, t)]

\* Mutant: used_slice is not reset.
PickKeepingSlice(s) ==
  IF s.queue = << >>
  THEN {[next |-> None, sched |-> [s EXCEPT !.running = None]]}
  ELSE {[next |-> Head(s.queue),
         sched |-> [s EXCEPT !.queue = Tail(@), !.running = Head(s.queue)]]}

PickNext(s) ==
  IF s.queue = << >>
  THEN {[next |-> None,
         sched |-> [s EXCEPT !.running = None, !.used_slice = 0]]}
  ELSE {[next |-> Head(s.queue),
         sched |-> [s EXCEPT !.queue = Tail(@), !.running = Head(s.queue),
                             !.used_slice = 0]]}

\* Mutant: > in place of >=.
OnTickOneLate(s, t) ==
  LET used == (IF s.running = t THEN s.used_slice ELSE 0) + 1
  IN  {IF used > RrQuantum
       THEN [action |-> "Preempt",
             sched |-> [s EXCEPT !.running = None, !.used_slice = 0]]
       ELSE [action |-> "Continue",
             sched |-> [s EXCEPT !.running = t, !.used_slice = used]]}

(* used_slice is restarted first when `running` is out of date. *)
OnTick(s, t) ==
  LET used == (IF s.running = t THEN s.used_slice ELSE 0) + 1
  IN  {IF used >= RrQuantum
       THEN [action |-> "Preempt",
             sched |-> [s EXCEPT !.running = None, !.used_slice = 0]]
       ELSE [action |-> "Continue",
             sched |-> [s EXCEPT !.running = t, !.used_slice = used]]}

OnBlock(s, t) ==
  IF s.running = t THEN [s EXCEPT !.running = None, !.used_slice = 0] ELSE s

OnWakeup(s, t) == Enqueue(s, t)
=============================================================================
