---------------------------- MODULE SjfScheduler ----------------------------
(***************************************************************************)
(* struct SjfScheduler: the ready task with the least CPU time left runs   *)
(* next, without preemption.  `ready` is a Vec in arbitrary order.         *)
(***************************************************************************)
EXTENDS VecOps

CONSTANT None

New == [name |-> "SJF", ready |-> << >>]

Enqueue(s, t) == [s EXCEPT !.ready = Append(@, t)]

(* The index the linear scan stops with: least remaining_cpu and, the      *)
(* comparison being strict, the first such index.                          *)
BestIndices(s, remaining_cpu) ==
  {i \in DOMAIN s.ready : \A j \in DOMAIN s.ready :
      /\ remaining_cpu[s.ready[i]] <= remaining_cpu[s.ready[j]]
      /\ j < i => remaining_cpu[s.ready[j]] > remaining_cpu[s.ready[i]]}

PickNext(s, remaining_cpu) ==
  IF s.ready = << >>
  THEN {[next |-> None, sched |-> s]}
  ELSE {[next |-> s.ready[i], sched |-> [s EXCEPT !.ready = SwapRemove(@, i)]] :
          i \in BestIndices(s, remaining_cpu)}

OnTick(s) == {[action |-> "Continue", sched |-> s]}

OnBlock(s, t) == s

OnWakeup(s, t) == Enqueue(s, t)
=============================================================================
