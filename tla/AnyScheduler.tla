---------------------------- MODULE AnyScheduler ----------------------------
(***************************************************************************)
(* What `trait Scheduler` promises to the experiment loop, and nothing     *)
(* else: the policy keeps the set of ready tasks; pick_next removes one of *)
(* them and answers None only when there is none; on_tick may ask for a    *)
(* preemption at any tick; on_block changes nothing the loop can observe.  *)
(* Every concrete policy is shown to be an instance of this one.           *)
(***************************************************************************)
CONSTANT None

New == [name |-> "Any", ready |-> {}]

Enqueue(s, t) == [s EXCEPT !.ready = @ \cup {t}]

PickNext(s) ==
  IF s.ready = {}
  THEN {[next |-> None, sched |-> s]}
  ELSE {[next |-> t, sched |-> [s EXCEPT !.ready = @ \ {t}]] : t \in s.ready}

OnTick(s) == {[action |-> a, sched |-> s] : a \in {"Continue", "Preempt"}}

OnBlock(s, t) == s

\* Mutant: the woken task is not queued.
WakeWithoutEnqueue(s, t) == s

OnWakeup(s, t) == Enqueue(s, t)
=============================================================================
