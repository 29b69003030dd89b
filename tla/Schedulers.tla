----------------------------- MODULE Schedulers -----------------------------
(***************************************************************************)
(* `dyn Scheduler`: the six operations the experiment loop calls, sent to  *)
(* the policy the state s belongs to.  pick_next and on_tick may have      *)
(* several possible answers and return the set of them.                    *)
(*                                                                         *)
(* ReadyTasks and SchedulerOK are no operations of the program: the tasks  *)
(* a policy holds ready, and what every reachable policy state satisfies.  *)
(***************************************************************************)
EXTENDS VecOps, FiniteSets

CONSTANTS None,
          RrQuantum,                    \* RrScheduler::new(4)
          MlfqQuantums, BoostInterval,  \* MlfqScheduler::new()
          MinGranularity, TargetSlice   \* CfsLikeScheduler::new()

ASSUME NoneAssumption == None \notin Nat

ASSUME PolicyAssumption ==
  /\ RrQuantum \in Nat
  /\ MlfqQuantums \in [0 .. 3 -> Nat]
  /\ BoostInterval \in Nat
  /\ MinGranularity \in Nat
  /\ TargetSlice \in Nat

Contract == INSTANCE AnyScheduler
Fcfs     == INSTANCE FcfsScheduler
Sjf      == INSTANCE SjfScheduler
Rr       == INSTANCE RrScheduler
Mlfq     == INSTANCE MlfqScheduler
Cfs      == INSTANCE CfsLikeScheduler

(* scheduler_suite, in the order of the experiment. *)
SchedulerSuite == {"FCFS", "SJF", "RR", "MLFQ", "CFS-like"}

PolicyNames == SchedulerSuite \cup {"Any"}

NewScheduler(name, Task) ==
  CASE name = "Any"      -> Contract!New
    [] name = "FCFS"     -> Fcfs!New
    [] name = "SJF"      -> Sjf!New
    [] name = "RR"       -> Rr!New
    [] name = "MLFQ"     -> Mlfq!New(Task)
    [] name = "CFS-like" -> Cfs!New(Task)

Enqueue(s, t) ==
  CASE s.name = "Any"      -> Contract!Enqueue(s, t)
    [] s.name = "FCFS"     -> Fcfs!Enqueue(s, t)
    [] s.name = "SJF"      -> Sjf!Enqueue(s, t)
    [] s.name = "RR"       -> Rr!Enqueue(s, t)
    [] s.name = "MLFQ"     -> Mlfq!Enqueue(s, t)
    [] s.name = "CFS-like" -> Cfs!Enqueue(s, t)

PickNext(s, remaining_cpu, class) ==
  CASE s.name = "Any"      -> Contract!PickNext(s)
    [] s.name = "FCFS"     -> Fcfs!PickNext(s)
    [] s.name = "SJF"      -> Sjf!PickNext(s, remaining_cpu)
    [] s.name = "RR"       -> Rr!PickNext(s)
    [] s.name = "MLFQ"     -> Mlfq!PickNext(s)
    [] s.name = "CFS-like" -> Cfs!PickNext(s, class)

OnTick(s, class, t, now) ==
  CASE s.name = "Any"      -> Contract!OnTick(s)
    [] s.name = "FCFS"     -> Fcfs!OnTick(s)
    [] s.name = "SJF"      -> Sjf!OnTick(s)
    [] s.name = "RR"       -> Rr!OnTick(s, t)
    [] s.name = "MLFQ"     -> Mlfq!OnTick(s, t, now)
    [] s.name = "CFS-like" -> Cfs!OnTick(s, class, t)

OnBlock(s, t) ==
  CASE s.name = "Any"      -> Contract!OnBlock(s, t)
    [] s.name = "FCFS"     -> Fcfs!OnBlock(s, t)
    [] s.name = "SJF"      -> Sjf!OnBlock(s, t)
    [] s.name = "RR"       -> Rr!OnBlock(s, t)
    [] s.name = "MLFQ"     -> Mlfq!OnBlock(s, t)
    [] s.name = "CFS-like" -> Cfs!OnBlock(s, t)

OnWakeup(s, t) ==
  CASE s.name = "Any"      -> Contract!OnWakeup(s, t)
    [] s.name = "FCFS"     -> Fcfs!OnWakeup(s, t)
    [] s.name = "SJF"      -> Sjf!OnWakeup(s, t)
    [] s.name = "RR"       -> Rr!OnWakeup(s, t)
    [] s.name = "MLFQ"     -> Mlfq!OnWakeup(s, t)
    [] s.name = "CFS-like" -> Cfs!OnWakeup(s, t)

\* Mutant: MLFQ counts its first level only.
FirstQueueLen(s) ==
  CASE s.name = "Any"               -> Cardinality(s.ready)
    [] s.name \in {"FCFS", "RR"}      -> Len(s.queue)
    [] s.name \in {"SJF", "CFS-like"} -> Len(s.ready)
    [] s.name = "MLFQ"              -> Len(s.queues[0])

ReadyLen(s) ==
  CASE s.name = "Any"               -> Cardinality(s.ready)
    [] s.name \in {"FCFS", "RR"}      -> Len(s.queue)
    [] s.name \in {"SJF", "CFS-like"} -> Len(s.ready)
    [] s.name = "MLFQ"              -> Len(s.queues[0]) + Len(s.queues[1])
                                         + Len(s.queues[2]) + Len(s.queues[3])

ReadyTasks(s) ==
  CASE s.name = "Any"               -> s.ready
    [] s.name \in {"FCFS", "RR"}      -> Range(s.queue)
    [] s.name \in {"SJF", "CFS-like"} -> Range(s.ready)
    [] s.name = "MLFQ"              -> UNION {Range(s.queues[l]) : l \in Mlfq!Level}

-----------------------------------------------------------------------------
(* The states of each policy: well typed, and no task queued twice.        *)

AnyOK(s, Task) == s \in [name : {"Any"}, ready : SUBSET Task]

FcfsOK(s, Task) ==
  /\ s \in [name : {"FCFS"}, queue : Seq(Task)]
  /\ IsDuplicateFree(s.queue)

SjfOK(s, Task) ==
  /\ s \in [name : {"SJF"}, ready : Seq(Task)]
  /\ IsDuplicateFree(s.ready)

RrOK(s, Task) ==
  /\ s \in [name : {"RR"}, queue : Seq(Task), running : Task \cup {None},
            used_slice : Nat]
  /\ IsDuplicateFree(s.queue)

MlfqOK(s, Task) ==
  /\ s \in [name : {"MLFQ"}, queues : [Mlfq!Level -> Seq(Task)],
            mlfq_level : [Task -> Mlfq!Level], next_boost_at : Nat,
            running : Task \cup {None}, used_slice : Nat]
  /\ \A l \in Mlfq!Level : IsDuplicateFree(s.queues[l])
  /\ \A k, l \in Mlfq!Level :
       k # l => Range(s.queues[k]) \cap Range(s.queues[l]) = {}

CfsOK(s, Task) ==
  /\ s \in [name : {"CFS-like"}, ready : Seq(Task), vruntime : [Task -> Nat],
            running : Task \cup {None}, used_slice : Nat]
  /\ IsDuplicateFree(s.ready)

SchedulerOK(s, Task) ==
  CASE s.name = "Any"      -> AnyOK(s, Task)
    [] s.name = "FCFS"     -> FcfsOK(s, Task)
    [] s.name = "SJF"      -> SjfOK(s, Task)
    [] s.name = "RR"       -> RrOK(s, Task)
    [] s.name = "MLFQ"     -> MlfqOK(s, Task)
    [] s.name = "CFS-like" -> CfsOK(s, Task)
    [] OTHER               -> FALSE
=============================================================================
