---------------------------- MODULE MlfqScheduler ---------------------------
(***************************************************************************)
(* struct MlfqScheduler: four FIFO levels with growing time slices.  A     *)
(* used-up slice demotes, a wake-up promotes by one level, and a periodic  *)
(* boost moves every queued task back to level 0.  The field mlfq_level of *)
(* RuntimeTask, which only this policy reads or writes, is kept here.      *)
(***************************************************************************)
EXTENDS VecOps

CONSTANTS None, MlfqQuantums, BoostInterval

NumLevels == 4

Level == 0 .. NumLevels - 1

New(Task) ==
  [name |-> "MLFQ",
   queues |-> [l \in Level |-> << >>],
   mlfq_level |-> [t \in Task |-> 0],
   next_boost_at |-> BoostInterval,
   running |-> None,
   used_slice |-> 0]

(* push_level, with its clamp to the lowest level. *)
PushLevel(s, t, level) ==
  LET l == IF level < NumLevels THEN level ELSE NumLevels - 1
  IN  [s EXCEPT !.queues[l] = Append(@, t)]

Enqueue(s, t) == PushLevel(s, t, s.mlfq_level[t])

\* Mutant: the lowest level is forgotten.
AllButLowest(s) == s.queues[0] \o s.queues[1] \o s.queues[2]

(* All queued tasks, highest priority first. *)
AllQueued(s) == s.queues[0] \o s.queues[1] \o s.queues[2] \o s.queues[3]

\* Mutant: mlfq_level is not reset.
BoostQueuesOnly(s) ==
  [s EXCEPT !.queues = [l \in Level |-> IF l = 0 THEN AllQueued(s) ELSE << >>]]

BoostAll(s) ==
  [s EXCEPT !.queues = [l \in Level |-> IF l = 0 THEN AllQueued(s) ELSE << >>],
            !.mlfq_level = [t \in DOMAIN s.mlfq_level |->
                              IF t \in Range(AllQueued(s)) THEN 0
                                                           ELSE s.mlfq_level[t]]]

(* The first level, from the top, with a task in its queue. *)
TopLevels(s) ==
  {l \in Level : s.queues[l] # << >> /\ \A k \in 0 .. l - 1 : s.queues[k] = << >>}

\* Mutant: used_slice is not reset.
PickKeepingSlice(s) ==
  IF TopLevels(s) = {}
  THEN {[next |-> None, sched |-> [s EXCEPT !.running = None]]}
  ELSE {[next |-> Head(s.queues[l]),
         sched |-> [s EXCEPT !.queues[l] = Tail(@),
                             !.mlfq_level[Head(s.queues[l])] = l,
                             !.running = Head(s.queues[l])]] : l \in TopLevels(s)}

PickNext(s) ==
  IF TopLevels(s) = {}
  THEN {[next |-> None, sched |-> [s EXCEPT !.running = None]]}
  ELSE {[next |-> Head(s.queues[l]),
         sched |-> [s EXCEPT !.queues[l] = Tail(@),
                             !.mlfq_level[Head(s.queues[l])] = l,
                             !.running = Head(s.queues[l]),
                             !.used_slice = 0]] : l \in TopLevels(s)}

\* Mutant: the boost is put off but not done.
BoostPutOff(s, now) ==
  IF now >= s.next_boost_at THEN [s EXCEPT !.next_boost_at = now + BoostInterval] ELSE s

Boosted(s, now) ==
  IF now >= s.next_boost_at
  THEN [BoostAll(s) EXCEPT !.next_boost_at = now + BoostInterval]
  ELSE s

OnTick(s, t, now) ==
  LET b     == Boosted(s, now)
      used  == (IF b.running = t THEN b.used_slice ELSE 0) + 1
      level == b.mlfq_level[t]
  IN  {IF used >= MlfqQuantums[level]
       THEN [action |-> "Preempt",
             sched |-> [b EXCEPT !.running = None, !.used_slice = 0,
                                 !.mlfq_level[t] = IF level + 1 < NumLevels
                                                   THEN level + 1 ELSE level]]
       ELSE [action |-> "Continue",
             sched |-> [b EXCEPT !.running = t, !.used_slice = used]]}

OnBlock(s, t) ==
  IF s.running = t THEN [s EXCEPT !.running = None, !.used_slice = 0] ELSE s

\* Mutant: the woken task is promoted but not queued.
WakeWithoutEnqueue(s, t) == [s EXCEPT !.mlfq_level[t] = IF @ > 0 THEN @ - 1 ELSE @]

OnWakeup(s, t) ==
  Enqueue([s EXCEPT !.mlfq_level[t] = IF @ > 0 THEN @ - 1 ELSE @], t)
=============================================================================
