-------------------------- MODULE CfsLikeScheduler --------------------------
(***************************************************************************)
(* struct CfsLikeScheduler: the ready task with the least virtual runtime  *)
(* runs next; a task that used up its slice is preempted once it is ahead  *)
(* of the least ready one by more than 0.5.  The field vruntime of         *)
(* RuntimeTask, which only this policy reads or writes, is kept here.      *)
(*                                                                         *)
(* vruntime is an f64 that grows by 0.85, 1.0 or 1.15 a tick.  It is       *)
(* counted here in exact units of 0.05.  A comparison of two different     *)
(* exact values comes out the same in f64 (the accumulated rounding error  *)
(* stays far below one unit for as many ticks as the loop runs); one of    *)
(* two equal exact values may come out either way, unless both are the     *)
(* same sum: both zero, or of the same class.  Such a comparison is a      *)
(* nondeterministic choice.                                                *)
(***************************************************************************)
EXTENDS VecOps

CONSTANTS None, MinGranularity, TargetSlice

New(Task) ==
  [name |-> "CFS-like",
   ready |-> << >>,
   vruntime |-> [t \in Task |-> 0],
   running |-> None,
   used_slice |-> 0]

ClassWeight(class) ==
  CASE class = "Interactive" -> 17
    [] class = "IoBound"     -> 20
    [] class = "CpuBound"    -> 23

AheadMargin == 10

Enqueue(s, t) == [s EXCEPT !.ready = Append(@, t)]

(* t and u hold the same f64. *)
SameSum(s, class, t, u) ==
  s.vruntime[t] = s.vruntime[u] /\ (class[t] = class[u] \/ s.vruntime[t] = 0)

(* The indices the linear scan for the least vruntime may stop with. *)
BestIndices(s, class) ==
  {i \in DOMAIN s.ready : \A j \in DOMAIN s.ready :
      /\ s.vruntime[s.ready[i]] <= s.vruntime[s.ready[j]]
      /\ j < i => ~SameSum(s, class, s.ready[i], s.ready[j])}

PickNext(s, class) ==
  IF s.ready = << >>
  THEN {[next |-> None, sched |-> [s EXCEPT !.running = None]]}
  ELSE {[next |-> s.ready[i],
         sched |-> [s EXCEPT !.ready = SwapRemove(@, i), !.running = s.ready[i],
                             !.used_slice = 0]] : i \in BestIndices(s, class)}

\* Mutant: the slice grows with the number of ready tasks.
GrowingSlice(s) ==
  LET slice == TargetSlice * (IF Len(s.ready) > 1 THEN Len(s.ready) ELSE 1)
  IN  IF slice > MinGranularity THEN slice ELSE MinGranularity

DynamicSlice(s) ==
  LET ready_count == IF Len(s.ready) > 1 THEN Len(s.ready) ELSE 1
      slice       == TargetSlice \div ready_count
  IN  IF slice > MinGranularity THEN slice ELSE MinGranularity

\* Mutant: any ready task is reason enough.
AnyoneReady(s, v) == {s.ready # << >>}

(* Does t run ahead of the least ready vruntime?  The possible answers.    *)
RunsAhead(s, v) ==
  {b \in BOOLEAN : IF b THEN \E u \in Range(s.ready) : s.vruntime[u] + AheadMargin <= v
                        ELSE \A u \in Range(s.ready) : s.vruntime[u] + AheadMargin >= v}

OnTick(s, class, t) ==
  LET v    == s.vruntime[t] + ClassWeight(class[t])
      used == (IF s.running = t THEN s.used_slice ELSE 0) + 1
      on   == [s EXCEPT !.vruntime[t] = v, !.running = t, !.used_slice = used]
  IN  IF used < DynamicSlice(s)
      THEN {[action |-> "Continue", sched |-> on]}
      ELSE {IF ahead
            THEN [action |-> "Preempt",
                  sched |-> [on EXCEPT !.running = None, !.used_slice = 0]]
            ELSE [action |-> "Continue", sched |-> on] : ahead \in RunsAhead(s, v)}

OnBlock(s, t) ==
  IF s.running = t THEN [s EXCEPT !.running = None, !.used_slice = 0] ELSE s

OnWakeup(s, t) == Enqueue(s, t)
=============================================================================
