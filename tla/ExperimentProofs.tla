-------------------------- MODULE ExperimentProofs --------------------------
(***************************************************************************)
(* The safety of run_experiment, for every workload, every policy, every   *)
(* parameter of a policy and every tick limit.  Of a policy only the       *)
(* contract lemmas of SchedulerProofs are used.                            *)
(***************************************************************************)
EXTENDS ExperimentProps, SchedulerProofs

(* The queues and the states of the tasks tell the same. *)
ReadyAgree == ReadyTasks(sched) = {t \in Task : Ready(t)}

(* Behind the tick there is a task to settle. *)
SettleHasTask == step = "settle" => running # None

(* Step 2 leaves no task behind that has arrived. *)
ArrivalsSeen ==
  step \in {"pick", "account", "tick", "settle", "end"} =>
    \A t \in Task : state[t] = "New" => TaskAt(t).arrival > now

(* The CPU stays idle only for want of a ready task. *)
IdleJustified ==
  step \in {"account", "tick"} /\ running = None => \A t \in Task : ~Ready(t)

ClockInRange == step # "done" => now < MaxTicks

(* The inductive invariant.  ReadyAgree and SingleRunner need each other:  *)
(* the task that is queued again must not be queued already.               *)
IInv ==
  /\ TypeOK
  /\ ReadyAgree
  /\ SingleRunner
  /\ NoMissedWakeup
  /\ SettleHasTask
  /\ ArrivalsSeen
  /\ IdleJustified
  /\ ClockInRange
  /\ CutOffExact

-----------------------------------------------------------------------------
LEMMA TaskFacts ==
  ASSUME TypeOK
  PROVE  /\ Task \subseteq Nat /\ IsFiniteSet(Task) /\ None \notin Task
         /\ \A t \in Task : TaskAt(t) \in TaskSpecs
         /\ Class \in [Task -> Classes]
BY NoneAssumption DEF TypeOK, WorkloadOK, Task, TaskAt, Class, TaskSpecs

LEMMA SameTasks ==
  ASSUME workload' = workload
  PROVE  /\ Task' = Task
         /\ WorkloadOK(workload)' = WorkloadOK(workload)
         /\ \A t : TaskAt(t)' = TaskAt(t)
BY DEF Task, TaskAt, WorkloadOK

LEMMA MonusType ==
  ASSUME NEW a \in Nat, NEW b \in Nat
  PROVE  Monus(a, b) \in Nat
BY DEF Monus

(* switch_context sets the running task, and only extends the two logs. *)
LEMMA SwitchContextType ==
  ASSUME TypeOK, NEW next \in Task \cup {None}, NEW ts \in Nat, NEW ready_len \in Nat,
         SwitchContext(next, ts, ready_len)
  PROVE  /\ running' = next
         /\ run_start' \in Nat
         /\ interactive_latencies' \in Seq(Nat)
         /\ events' \in Seq([ts : Nat, from : Task \cup {None}, to : Task \cup {None},
                             ready_len : Nat, run_fragment : Nat])
<1> DEFINE Entry == [ts : Nat, from : Task \cup {None}, to : Task \cup {None},
                     ready_len : Nat, run_fragment : Nat]
<1>1. CASE running = next
  BY <1>1 DEF SwitchContext, cpuVars, TypeOK
<1>2. CASE running # next
  <2> DEFINE e == [ts |-> ts, from |-> running, to |-> next, ready_len |-> ready_len,
                   run_fragment |-> RunFragment(ts)]
  <2> DEFINE latency == Monus(ts, ready_since[next])
  <2>1. /\ running' = next /\ run_start' = ts
        /\ events' = Append(events, e)
        /\ interactive_latencies' \in {interactive_latencies,
                                       Append(interactive_latencies, latency)}
        /\ interactive_latencies' # interactive_latencies =>
             next # None /\ ready_since[next] # None
    BY <1>2 DEF SwitchContext
  <2>2. RunFragment(ts) \in Nat
    BY MonusType DEF RunFragment, TypeOK
  <2>3. events' \in Seq(Entry)
    <3>1. e \in Entry /\ events \in Seq(Entry)
      BY <2>2 DEF TypeOK
    <3> HIDE DEF e, Entry
    <3> QED
      BY <2>1, <3>1, AppendProperties
  <2>4. interactive_latencies' \in Seq(Nat)
    <3>1. interactive_latencies \in Seq(Nat)
      BY DEF TypeOK
    <3>2. CASE interactive_latencies' # interactive_latencies
      <4>1. latency \in Nat
        <5>1. ready_since[next] \in Nat
          BY <2>1, <3>2 DEF TypeOK
        <5> QED
          BY <5>1, MonusType
      <4> HIDE DEF latency
      <4> QED
        BY <2>1, <3>1, <3>2, <4>1, AppendProperties
    <3> QED
      BY <3>1, <3>2
  <2> QED
    BY <2>1, <2>3, <2>4
<1> QED
  BY <1>1, <1>2

-----------------------------------------------------------------------------
LEMMA InitIInv ==
  ASSUME Init
  PROVE  IInv
<1>1. PICK name \in SchedulerNames : sched = NewScheduler(name, Task)
  BY DEF Init
<1>2. /\ SchedulerOK(sched, Task)
      /\ ReadyTasks(sched) = {}
  BY <1>1, NewContract, ExperimentAssumption
<1>3. WorkloadOK(workload)
  BY ExperimentAssumption DEF Init
<1>4. \A t \in Task : TaskAt(t) \in TaskSpecs
  BY <1>3 DEF WorkloadOK, Task, TaskAt
<1>5. TypeOK
  BY <1>2, <1>3, <1>4, EmptySeq DEF Init, TypeOK, TaskSpecs
<1>6. ReadyAgree
  BY <1>2 DEF Init, ReadyAgree, Ready
<1>7. None \notin Task
  BY <1>5, TaskFacts
<1>8. /\ SingleRunner /\ NoMissedWakeup /\ SettleHasTask
      /\ ArrivalsSeen /\ IdleJustified /\ ClockInRange /\ CutOffExact
  BY <1>7, ExperimentAssumption DEF Init, SingleRunner, NoMissedWakeup, SettleHasTask,
     ArrivalsSeen, IdleJustified, ClockInRange, CutOffExact, Running, Blocked, Ready
<1> QED
  BY <1>5, <1>6, <1>8 DEF IInv

(* Step 1 wakes a task: it leaves no other blocked task behind its time,   *)
(* and is queued once.                                                     *)
LEMMA WakeStep ==
  ASSUME IInv, NEW t \in Task, Wake(t)
  PROVE  IInv'
<1>1. /\ step = "wake" /\ step' = "wake" /\ state[t] = "Blocked" /\ workload' = workload
      /\ state' = [state EXCEPT ![t] = "Ready"]
      /\ ready_since' = [ready_since EXCEPT ![t] = now]
      /\ unblock_at' = [unblock_at EXCEPT ![t] = None]
      /\ sched' = OnWakeup(sched, t)
      /\ UNCHANGED <<remaining_cpu, run_since_io, waiting_time, completion_time,
                     starvation_marked, running, run_start, interactive_latencies,
                     events, now, starvation_count, action>>
  BY DEF Wake, IsFirst, WakeList, MakeReady, cpuVars
<1>2. Task' = Task /\ WorkloadOK(workload)' = WorkloadOK(workload)
  BY <1>1, SameTasks
<1>3. t \notin ReadyTasks(sched)
  BY <1>1 DEF IInv, ReadyAgree, Ready
<1>4. SchedulerOK(sched', Task) /\ ReadyTasks(sched') = ReadyTasks(sched) \cup {t}
  BY <1>1, <1>3, WakeupContract DEF IInv, TypeOK
<1>5. TypeOK'
  BY <1>1, <1>2, <1>4 DEF IInv, TypeOK
<1>6. ReadyAgree'
  BY <1>1, <1>2, <1>4 DEF IInv, TypeOK, ReadyAgree, Ready
<1>7. SingleRunner'
  BY <1>1, <1>2 DEF IInv, TypeOK, SingleRunner, Running
<1>8. NoMissedWakeup'
  BY <1>1, <1>2 DEF IInv, TypeOK, NoMissedWakeup, Blocked
<1>9. SettleHasTask' /\ ArrivalsSeen' /\ IdleJustified' /\ ClockInRange' /\ CutOffExact'
  BY <1>1 DEF IInv, SettleHasTask, ArrivalsSeen, IdleJustified, ClockInRange, CutOffExact
<1> QED
  BY <1>5, <1>6, <1>7, <1>8, <1>9 DEF IInv

(* Step 2 queues a new task once. *)
LEMMA ArriveStep ==
  ASSUME IInv, NEW t \in Task, Arrive(t)
  PROVE  IInv'
<1>1. /\ step = "arrive" /\ step' = "arrive" /\ state[t] = "New" /\ workload' = workload
      /\ state' = [state EXCEPT ![t] = "Ready"]
      /\ ready_since' = [ready_since EXCEPT ![t] = now]
      /\ sched' = Enqueue(sched, t)
      /\ UNCHANGED <<remaining_cpu, run_since_io, unblock_at, waiting_time,
                     completion_time, starvation_marked, running, run_start,
                     interactive_latencies, events, now, starvation_count, action>>
  BY DEF Arrive, IsFirst, ArrivalList, MakeReady, cpuVars
<1>2. Task' = Task /\ WorkloadOK(workload)' = WorkloadOK(workload)
  BY <1>1, SameTasks
<1>3. t \notin ReadyTasks(sched)
  BY <1>1 DEF IInv, ReadyAgree, Ready
<1>4. SchedulerOK(sched', Task) /\ ReadyTasks(sched') = ReadyTasks(sched) \cup {t}
  BY <1>1, <1>3, EnqueueContract DEF IInv, TypeOK
<1>5. TypeOK'
  BY <1>1, <1>2, <1>4 DEF IInv, TypeOK
<1>6. ReadyAgree'
  BY <1>1, <1>2, <1>4 DEF IInv, TypeOK, ReadyAgree, Ready
<1>7. SingleRunner'
  BY <1>1, <1>2 DEF IInv, TypeOK, SingleRunner, Running
<1>8. NoMissedWakeup'
  BY <1>1, <1>2 DEF IInv, TypeOK, NoMissedWakeup, Blocked
<1>9. SettleHasTask' /\ ArrivalsSeen' /\ IdleJustified' /\ ClockInRange' /\ CutOffExact'
  BY <1>1 DEF IInv, SettleHasTask, ArrivalsSeen, IdleJustified, ClockInRange, CutOffExact
<1> QED
  BY <1>5, <1>6, <1>7, <1>8, <1>9 DEF IInv

(* A step that only moves on to the next place of the loop body, or to the *)
(* next tick.  The two scans end with nothing left to do.                  *)
LEMMA MoveStep ==
  ASSUME IInv,
         \/ WakesDone \/ ArrivalsDone \/ KeepRunning \/ NoTask \/ Continue
         \/ NextTick \/ Break
  PROVE  IInv'
<1>1. /\ UNCHANGED <<workload, sched, state, remaining_cpu, run_since_io, unblock_at,
                     ready_since, waiting_time, completion_time, starvation_marked,
                     running, run_start, interactive_latencies, events,
                     starvation_count>>
      /\ \/ step = "wake" /\ step' = "arrive" /\ now' = now /\ WakeList = {}
         \/ step = "arrive" /\ step' = "pick" /\ now' = now /\ ArrivalList = {}
         \/ step = "pick" /\ step' = "account" /\ now' = now /\ running # None
         \/ step \in {"tick", "settle"} /\ step' = "end" /\ now' = now
         \/ /\ step = "end" /\ now' = now + 1
            /\ \/ step' = "wake" /\ now + 1 < MaxTicks
               \/ step' = "done" /\ (AllDone \/ ~(now + 1 < MaxTicks))
      /\ action' \in {action, None}
  BY DEF WakesDone, ArrivalsDone, KeepRunning, NoTask, Continue, NextTick, Break,
     taskVars, cpuVars
<1>2. Task' = Task /\ WorkloadOK(workload)' = WorkloadOK(workload)
      /\ \A t : TaskAt(t)' = TaskAt(t)
  BY <1>1, SameTasks
<1>3. now \in Nat /\ MaxTicks \in Nat \ {0}
  BY ExperimentAssumption DEF IInv, TypeOK
<1>4. TypeOK'
  BY <1>1, <1>2, <1>3 DEF IInv, TypeOK
<1>5. ReadyAgree' /\ SingleRunner'
  BY <1>1, <1>2 DEF IInv, ReadyAgree, Ready, SingleRunner, Running
<1>6. NoMissedWakeup'
  <2> SUFFICES ASSUME NEW t \in Task, Blocked(t)
               PROVE  /\ unblock_at[t] # None /\ unblock_at[t] >= now'
                      /\ step' \notin {"wake", "done"} => unblock_at[t] > now'
    BY <1>1, <1>2 DEF NoMissedWakeup, Blocked
  <2>1. /\ unblock_at[t] \in Nat /\ unblock_at[t] >= now
        /\ step \notin {"wake", "done"} => unblock_at[t] > now
    BY DEF IInv, TypeOK, NoMissedWakeup
  <2>2. CASE step = "wake"
    <3>1. unblock_at[t] # now
      BY <1>1, <2>2 DEF WakeList, Blocked
    <3> QED
      BY <1>1, <1>3, <2>1, <2>2, <3>1, NoneAssumption
  <2>3. CASE step # "wake"
    BY <1>1, <1>3, <2>1, <2>3, NoneAssumption
  <2> QED
    BY <2>2, <2>3
<1>7. SettleHasTask'
  BY <1>1 DEF SettleHasTask
<1>8. ArrivalsSeen'
  <2> SUFFICES ASSUME NEW t \in Task, state[t] = "New", step' \in {"pick", "account", "end"}
               PROVE  TaskAt(t).arrival > now
    BY <1>1, <1>2 DEF ArrivalsSeen
  <2>1. CASE step = "arrive"
    <3>1. ~(TaskAt(t).arrival <= now)
      BY <1>1, <2>1 DEF ArrivalList
    <3>2. TaskAt(t).arrival \in Nat
      BY TaskFacts DEF IInv, TaskSpecs
    <3> QED
      BY <1>3, <3>1, <3>2
  <2>2. CASE step # "arrive"
    BY <1>1, <2>2 DEF IInv, ArrivalsSeen
  <2> QED
    BY <2>1, <2>2
<1>9. IdleJustified'
  BY <1>1 DEF IdleJustified
<1>10. ClockInRange' /\ CutOffExact'
  <2>1. AllDone' = AllDone
    BY <1>1, <1>2 DEF AllDone
  <2> QED
    BY <1>1, <1>3, <2>1 DEF IInv, ClockInRange, CutOffExact
<1> QED
  BY <1>4, <1>5, <1>6, <1>7, <1>8, <1>9, <1>10 DEF IInv

(* Step 3 hands the CPU to the task the policy picks. *)
LEMMA DispatchStep ==
  ASSUME IInv, Dispatch
  PROVE  IInv'
<1>1. PICK o \in PickNext(sched, remaining_cpu, Class) :
        /\ o.next # None
        /\ sched' = o.sched
        /\ SwitchContext(o.next, now, ReadyLen(o.sched))
        /\ StartRunning(o.next)
  BY DEF Dispatch
<1>2. /\ step = "pick" /\ step' = "account" /\ running = None
      /\ state' = [state EXCEPT ![o.next] = "Running"]
      /\ ready_since' = [ready_since EXCEPT ![o.next] = None]
      /\ starvation_marked' = [starvation_marked EXCEPT ![o.next] = FALSE]
      /\ UNCHANGED <<workload, remaining_cpu, run_since_io, unblock_at, waiting_time,
                     completion_time, now, starvation_count, action>>
  BY <1>1 DEF Dispatch, StartRunning
<1>3. /\ Task' = Task /\ WorkloadOK(workload)' = WorkloadOK(workload)
      /\ \A t : TaskAt(t)' = TaskAt(t)
  BY <1>2, SameTasks
<1>4. Task \subseteq Nat /\ IsFiniteSet(Task) /\ None \notin Task
  BY TaskFacts DEF IInv
<1>5. /\ SchedulerOK(sched', Task)
      /\ o.next \in ReadyTasks(sched)
      /\ ReadyTasks(sched') = ReadyTasks(sched) \ {o.next}
  BY <1>1, PickContract DEF IInv, TypeOK
<1>6. o.next \in Task /\ state[o.next] = "Ready"
  BY <1>5 DEF IInv, ReadyAgree, Ready
<1>7. ReadyLen(sched') \in Nat
  BY <1>4, <1>5, ReadyLenContract
<1>8. /\ running' = o.next /\ run_start' \in Nat
      /\ interactive_latencies' \in Seq(Nat)
      /\ events' \in Seq([ts : Nat, from : Task \cup {None}, to : Task \cup {None},
                          ready_len : Nat, run_fragment : Nat])
  BY <1>1, <1>6, <1>7, SwitchContextType DEF IInv, TypeOK
<1>9. TypeOK'
  BY <1>2, <1>3, <1>5, <1>6, <1>8 DEF IInv, TypeOK
<1>10. ReadyAgree'
  BY <1>2, <1>3, <1>5, <1>6 DEF IInv, TypeOK, ReadyAgree, Ready
<1>11. SingleRunner'
  BY <1>2, <1>3, <1>4, <1>6, <1>8 DEF IInv, TypeOK, SingleRunner, Running
<1>12. NoMissedWakeup'
  BY <1>2, <1>3, <1>6 DEF IInv, TypeOK, NoMissedWakeup, Blocked
<1>13. SettleHasTask' /\ IdleJustified' /\ ClockInRange' /\ CutOffExact'
  BY <1>1, <1>2, <1>8 DEF IInv, SettleHasTask, IdleJustified, ClockInRange, CutOffExact
<1>14. ArrivalsSeen'
  BY <1>2, <1>3, <1>6 DEF IInv, TypeOK, ArrivalsSeen
<1> QED
  BY <1>9, <1>10, <1>11, <1>12, <1>13, <1>14 DEF IInv

(* The CPU stays idle: by the contract, the policy holds nothing. *)
LEMMA StayIdleStep ==
  ASSUME IInv, StayIdle
  PROVE  IInv'
<1>1. PICK o \in PickNext(sched, remaining_cpu, Class) : o.next = None /\ sched' = o.sched
  BY DEF StayIdle
<1>2. /\ step = "pick" /\ step' = "account"
      /\ UNCHANGED <<workload, state, remaining_cpu, run_since_io, unblock_at,
                     ready_since, waiting_time, completion_time, starvation_marked,
                     running, run_start, interactive_latencies, events, now,
                     starvation_count, action>>
  BY DEF StayIdle, taskVars, cpuVars
<1>3. /\ Task' = Task /\ WorkloadOK(workload)' = WorkloadOK(workload)
      /\ \A t : TaskAt(t)' = TaskAt(t)
  BY <1>2, SameTasks
<1>4. None \notin ReadyTasks(sched)
  BY TaskFacts DEF IInv, ReadyAgree
<1>5. SchedulerOK(sched', Task) /\ ReadyTasks(sched) = {} /\ ReadyTasks(sched') = {}
  BY <1>1, <1>4, PickContract DEF IInv, TypeOK
<1>6. TypeOK'
  BY <1>2, <1>3, <1>5 DEF IInv, TypeOK
<1>7. \A t \in Task : ~Ready(t)
  BY <1>5 DEF IInv, ReadyAgree
<1>8. ReadyAgree' /\ IdleJustified'
  BY <1>2, <1>3, <1>5, <1>7 DEF ReadyAgree, IdleJustified, Ready
<1>9. SingleRunner' /\ NoMissedWakeup' /\ ArrivalsSeen'
  BY <1>2, <1>3 DEF IInv, SingleRunner, Running, NoMissedWakeup, Blocked, ArrivalsSeen
<1>10. SettleHasTask' /\ ClockInRange' /\ CutOffExact'
  BY <1>2 DEF IInv, SettleHasTask, ClockInRange, CutOffExact
<1> QED
  BY <1>6, <1>8, <1>9, <1>10 DEF IInv

(* Step 4 only counts. *)
LEMMA AccountStep ==
  ASSUME IInv, Account
  PROVE  IInv'
<1>1. /\ step = "account" /\ step' = "tick"
      /\ waiting_time' = [t \in Task |-> IF state[t] = "Ready" THEN waiting_time[t] + 1
                                                              ELSE waiting_time[t]]
      /\ starvation_marked' = [t \in Task |-> starvation_marked[t] \/ Starving(t)]
      /\ starvation_count' = starvation_count + Cardinality({t \in Task : Starving(t)})
      /\ UNCHANGED <<workload, sched, state, remaining_cpu, run_since_io, unblock_at,
                     ready_since, completion_time, running, run_start,
                     interactive_latencies, events, now, action>>
  BY DEF Account, cpuVars
<1>2. /\ Task' = Task /\ WorkloadOK(workload)' = WorkloadOK(workload)
      /\ \A t : TaskAt(t)' = TaskAt(t)
  BY <1>1, SameTasks
<1>3. Cardinality({t \in Task : Starving(t)}) \in Nat
  <2>1. IsFiniteSet(Task)
    BY TaskFacts DEF IInv
  <2> QED
    BY <2>1, FS_Subset, FS_CardinalityType
<1>4. starvation_count' \in Nat
  BY <1>1, <1>3 DEF IInv, TypeOK
<1>5. waiting_time' \in [Task -> Nat]
  BY <1>1 DEF IInv, TypeOK
<1>6. starvation_marked' \in [Task -> BOOLEAN]
  <2>1. \A t \in Task : (starvation_marked[t] \/ Starving(t)) \in BOOLEAN
    OBVIOUS
  <2> QED
    BY <1>1, <2>1
<1>7. TypeOK'
  BY <1>1, <1>2, <1>4, <1>5, <1>6 DEF IInv, TypeOK
<1>8. ReadyAgree' /\ SingleRunner' /\ NoMissedWakeup' /\ ArrivalsSeen' /\ IdleJustified'
  BY <1>1, <1>2 DEF IInv, ReadyAgree, Ready, SingleRunner, Running, NoMissedWakeup,
     Blocked, ArrivalsSeen, IdleJustified
<1>9. SettleHasTask' /\ ClockInRange' /\ CutOffExact'
  BY <1>1 DEF IInv, SettleHasTask, ClockInRange, CutOffExact
<1> QED
  BY <1>7, <1>8, <1>9 DEF IInv

(* The tick itself. *)
LEMMA TickStep ==
  ASSUME IInv, Tick
  PROVE  IInv'
<1>1. PICK o \in OnTick(sched, Class, running, now) : action' = o.action /\ sched' = o.sched
  BY DEF Tick
<1>2. /\ step = "tick" /\ step' = "settle" /\ running # None
      /\ remaining_cpu' = [remaining_cpu EXCEPT ![running] = Monus(@, 1)]
      /\ run_since_io' = [run_since_io EXCEPT ![running] = @ + 1]
      /\ UNCHANGED <<workload, state, unblock_at, ready_since, waiting_time,
                     completion_time, starvation_marked, running, run_start,
                     interactive_latencies, events, now, starvation_count>>
  BY DEF Tick, cpuVars
<1>3. /\ Task' = Task /\ WorkloadOK(workload)' = WorkloadOK(workload)
      /\ \A t : TaskAt(t)' = TaskAt(t)
  BY <1>2, SameTasks
<1>4. running \in Task /\ Class \in [Task -> {"CpuBound", "IoBound", "Interactive"}]
  BY <1>2, TaskFacts DEF IInv, TypeOK, Classes
<1>5. /\ SchedulerOK(sched', Task) /\ ReadyTasks(sched') = ReadyTasks(sched)
      /\ action' \in {"Continue", "Preempt"}
  <2>1. SchedulerOK(sched, Task) /\ now \in Nat
    BY DEF IInv, TypeOK
  <2>2. /\ SchedulerOK(o.sched, Task) /\ ReadyTasks(o.sched) = ReadyTasks(sched)
        /\ o.action \in {"Continue", "Preempt"}
    BY <1>4, <2>1, TickContract
  <2> QED
    BY <1>1, <2>2
<1>6. remaining_cpu' \in [Task -> Nat] /\ run_since_io' \in [Task -> Nat]
  <2>1. Monus(remaining_cpu[running], 1) \in Nat
    BY <1>4, MonusType DEF IInv, TypeOK
  <2> QED
    BY <1>2, <1>4, <2>1 DEF IInv, TypeOK
<1>7. TypeOK'
  BY <1>2, <1>3, <1>5, <1>6 DEF IInv, TypeOK
<1>8. ReadyAgree' /\ SingleRunner' /\ NoMissedWakeup' /\ ArrivalsSeen'
  BY <1>2, <1>3, <1>5 DEF IInv, ReadyAgree, Ready, SingleRunner, Running, NoMissedWakeup,
     Blocked, ArrivalsSeen
<1>9. SettleHasTask' /\ IdleJustified' /\ ClockInRange' /\ CutOffExact'
  BY <1>2 DEF IInv, SettleHasTask, IdleJustified, ClockInRange, CutOffExact
<1> QED
  BY <1>7, <1>8, <1>9 DEF IInv

(* 5.1: the task is done and leaves the CPU; no queue is touched. *)
LEMMA FinishStep ==
  ASSUME IInv, Finish
  PROVE  IInv'
<1>1. /\ step = "settle" /\ step' = "end" /\ action' = None
      /\ state' = [state EXCEPT ![running] = "Done"]
      /\ completion_time' = [completion_time EXCEPT ![running] = now + 1]
      /\ SwitchContext(None, now + 1, ReadyLen(sched))
      /\ UNCHANGED <<workload, sched, remaining_cpu, run_since_io, unblock_at,
                     ready_since, waiting_time, starvation_marked, now,
                     starvation_count>>
  BY DEF Finish, ts_next
<1>2. /\ Task' = Task /\ WorkloadOK(workload)' = WorkloadOK(workload)
      /\ \A t : TaskAt(t)' = TaskAt(t)
  BY <1>1, SameTasks
<1>3. Task \subseteq Nat /\ IsFiniteSet(Task) /\ None \notin Task
  BY TaskFacts DEF IInv
<1>4. running \in Task /\ state[running] = "Running" /\ now + 1 \in Nat
  BY <1>1 DEF IInv, TypeOK, SettleHasTask, SingleRunner, Running
<1>5. ReadyLen(sched) \in Nat
  BY <1>3, ReadyLenContract DEF IInv, TypeOK
<1>6. /\ running' = None /\ run_start' \in Nat
      /\ interactive_latencies' \in Seq(Nat)
      /\ events' \in Seq([ts : Nat, from : Task \cup {None}, to : Task \cup {None},
                          ready_len : Nat, run_fragment : Nat])
  BY <1>1, <1>4, <1>5, SwitchContextType DEF IInv, TypeOK
<1>7. TypeOK'
  BY <1>1, <1>2, <1>4, <1>6 DEF IInv, TypeOK
<1>8. ReadyAgree' /\ NoMissedWakeup' /\ ArrivalsSeen'
  BY <1>1, <1>2, <1>4 DEF IInv, TypeOK, ReadyAgree, Ready, NoMissedWakeup, Blocked,
     ArrivalsSeen
<1>9. SingleRunner'
  BY <1>1, <1>2, <1>3, <1>4, <1>6 DEF IInv, TypeOK, SingleRunner, Running
<1>10. SettleHasTask' /\ IdleJustified' /\ ClockInRange' /\ CutOffExact'
  BY <1>1 DEF IInv, SettleHasTask, IdleJustified, ClockInRange, CutOffExact
<1> QED
  BY <1>7, <1>8, <1>9, <1>10 DEF IInv

(* 5.2: the task is blocked until a tick that is still to come. *)
LEMMA BlockStep ==
  ASSUME IInv, Block
  PROVE  IInv'
<1>1. /\ step = "settle" /\ step' = "end" /\ action' = None
      /\ run_since_io' = [run_since_io EXCEPT ![running] = 0]
      /\ state' = [state EXCEPT ![running] = "Blocked"]
      /\ unblock_at' = [unblock_at EXCEPT ![running] =
                          (now + 1) + TaskAt(running).io_block]
      /\ sched' = OnBlock(sched, running)
      /\ SwitchContext(None, now + 1, ReadyLen(sched'))
      /\ UNCHANGED <<workload, remaining_cpu, ready_since, waiting_time,
                     completion_time, starvation_marked, now, starvation_count>>
  BY DEF Block, ts_next
<1>2. /\ Task' = Task /\ WorkloadOK(workload)' = WorkloadOK(workload)
      /\ \A t : TaskAt(t)' = TaskAt(t)
  BY <1>1, SameTasks
<1>3. /\ Task \subseteq Nat /\ IsFiniteSet(Task) /\ None \notin Task
      /\ \A t \in Task : TaskAt(t).io_block \in Nat
  BY TaskFacts DEF IInv, TaskSpecs
<1>4. running \in Task /\ state[running] = "Running" /\ now \in Nat
  BY <1>1 DEF IInv, TypeOK, SettleHasTask, SingleRunner, Running
<1>5. SchedulerOK(sched', Task) /\ ReadyTasks(sched') = ReadyTasks(sched)
  BY <1>1, <1>4, BlockContract DEF IInv, TypeOK
<1>6. ReadyLen(sched') \in Nat
  BY <1>3, <1>5, ReadyLenContract
<1>7. /\ running' = None /\ run_start' \in Nat
      /\ interactive_latencies' \in Seq(Nat)
      /\ events' \in Seq([ts : Nat, from : Task \cup {None}, to : Task \cup {None},
                          ready_len : Nat, run_fragment : Nat])
  <2>1. TypeOK /\ now + 1 \in Nat
    BY <1>4 DEF IInv
  <2> QED
    BY <1>1, <1>6, <2>1, SwitchContextType
<1>8. (now + 1) + TaskAt(running).io_block \in Nat
      /\ (now + 1) + TaskAt(running).io_block > now
  BY <1>3, <1>4
<1>9. TypeOK'
  BY <1>1, <1>2, <1>4, <1>5, <1>7, <1>8 DEF IInv, TypeOK
<1>10. ReadyAgree' /\ ArrivalsSeen'
  BY <1>1, <1>2, <1>4, <1>5 DEF IInv, TypeOK, ReadyAgree, Ready, ArrivalsSeen
<1>11. SingleRunner'
  BY <1>1, <1>2, <1>3, <1>4, <1>7 DEF IInv, TypeOK, SingleRunner, Running
<1>12. NoMissedWakeup'
  <2> SUFFICES ASSUME NEW t \in Task, state'[t] = "Blocked"
               PROVE  unblock_at'[t] # None /\ unblock_at'[t] >= now /\ unblock_at'[t] > now
    BY <1>1, <1>2 DEF NoMissedWakeup, Blocked
  <2>1. CASE t = running
    BY <1>1, <1>4, <1>8, <2>1, NoneAssumption DEF IInv, TypeOK
  <2>2. CASE t # running
    BY <1>1, <1>4, <2>2 DEF IInv, TypeOK, NoMissedWakeup, Blocked
  <2> QED
    BY <2>1, <2>2
<1>13. SettleHasTask' /\ IdleJustified' /\ ClockInRange' /\ CutOffExact'
  BY <1>1 DEF IInv, SettleHasTask, IdleJustified, ClockInRange, CutOffExact
<1> QED
  BY <1>9, <1>10, <1>11, <1>12, <1>13 DEF IInv

(* 5.3 and 5.4: the preempted task was the running one, so in no queue. *)
LEMMA PreemptStep ==
  ASSUME IInv, Preempt
  PROVE  IInv'
<1>1. /\ step = "settle" /\ step' = "end" /\ action' = None
      /\ state' = [state EXCEPT ![running] = "Ready"]
      /\ ready_since' = [ready_since EXCEPT ![running] = now + 1]
      /\ sched' = Enqueue(sched, running)
      /\ SwitchContext(None, now + 1, ReadyLen(sched'))
      /\ UNCHANGED <<workload, remaining_cpu, run_since_io, unblock_at, waiting_time,
                     completion_time, starvation_marked, now, starvation_count>>
  BY DEF Preempt, MakeReady, ts_next
<1>2. /\ Task' = Task /\ WorkloadOK(workload)' = WorkloadOK(workload)
      /\ \A t : TaskAt(t)' = TaskAt(t)
  BY <1>1, SameTasks
<1>3. Task \subseteq Nat /\ IsFiniteSet(Task) /\ None \notin Task
  BY TaskFacts DEF IInv
<1>4. running \in Task /\ state[running] = "Running" /\ now + 1 \in Nat
  BY <1>1 DEF IInv, TypeOK, SettleHasTask, SingleRunner, Running
<1>5. running \notin ReadyTasks(sched)
  BY <1>4 DEF IInv, ReadyAgree, Ready
<1>6. SchedulerOK(sched', Task) /\ ReadyTasks(sched') = ReadyTasks(sched) \cup {running}
  BY <1>1, <1>4, <1>5, EnqueueContract DEF IInv, TypeOK
<1>7. ReadyLen(sched') \in Nat
  BY <1>3, <1>6, ReadyLenContract
<1>8. /\ running' = None /\ run_start' \in Nat
      /\ interactive_latencies' \in Seq(Nat)
      /\ events' \in Seq([ts : Nat, from : Task \cup {None}, to : Task \cup {None},
                          ready_len : Nat, run_fragment : Nat])
  BY <1>1, <1>4, <1>7, SwitchContextType DEF IInv, TypeOK
<1>9. TypeOK'
  BY <1>1, <1>2, <1>4, <1>6, <1>8 DEF IInv, TypeOK
<1>10. ReadyAgree' /\ NoMissedWakeup' /\ ArrivalsSeen'
  BY <1>1, <1>2, <1>4, <1>6 DEF IInv, TypeOK, ReadyAgree, Ready, NoMissedWakeup, Blocked,
     ArrivalsSeen
<1>11. SingleRunner'
  BY <1>1, <1>2, <1>3, <1>4, <1>8 DEF IInv, TypeOK, SingleRunner, Running
<1>12. SettleHasTask' /\ IdleJustified' /\ ClockInRange' /\ CutOffExact'
  BY <1>1 DEF IInv, SettleHasTask, IdleJustified, ClockInRange, CutOffExact
<1> QED
  BY <1>9, <1>10, <1>11, <1>12 DEF IInv

LEMMA StutterStep ==
  ASSUME IInv, UNCHANGED vars
  PROVE  IInv'
<1>1. UNCHANGED <<workload, sched, state, remaining_cpu, run_since_io, unblock_at,
                  ready_since, waiting_time, completion_time, starvation_marked,
                  running, run_start, interactive_latencies, events, now,
                  starvation_count, step, action>>
  BY DEF vars, taskVars, cpuVars
<1>2. /\ Task' = Task /\ WorkloadOK(workload)' = WorkloadOK(workload)
      /\ \A t : TaskAt(t)' = TaskAt(t)
  BY <1>1, SameTasks
<1>3. TypeOK' /\ ReadyAgree' /\ SingleRunner'
  BY <1>1, <1>2 DEF IInv, TypeOK, ReadyAgree, SingleRunner, Ready, Running
<1>4. NoMissedWakeup' /\ SettleHasTask' /\ ArrivalsSeen' /\ IdleJustified'
  BY <1>1, <1>2 DEF IInv, NoMissedWakeup, SettleHasTask, ArrivalsSeen, IdleJustified,
     Blocked, Ready
<1>5. ClockInRange' /\ CutOffExact'
  BY <1>1, <1>2 DEF IInv, ClockInRange, CutOffExact, AllDone
<1> QED
  BY <1>3, <1>4, <1>5 DEF IInv

-----------------------------------------------------------------------------
LEMMA NextIInv ==
  ASSUME IInv, [Next]_vars
  PROVE  IInv'
<1>1. CASE \E t \in Task : Wake(t) \/ Arrive(t)
  BY <1>1, WakeStep, ArriveStep
<1>2. CASE \/ WakesDone \/ ArrivalsDone \/ KeepRunning \/ NoTask \/ Continue
           \/ NextTick \/ Break
  BY <1>2, MoveStep
<1>3. CASE Dispatch \/ StayIdle
  BY <1>3, DispatchStep, StayIdleStep
<1>4. CASE Account \/ Tick
  BY <1>4, AccountStep, TickStep
<1>5. CASE Finish \/ Block \/ Preempt
  BY <1>5, FinishStep, BlockStep, PreemptStep
<1>6. CASE Terminated \/ UNCHANGED vars
  BY <1>6, StutterStep DEF Terminated
<1> QED
  BY <1>1, <1>2, <1>3, <1>4, <1>5, <1>6 DEF Next

(* The invariant holds in every reachable state. *)
THEOREM Invariance == Spec => []IInv
<1>1. Init => IInv
  BY InitIInv
<1>2. IInv /\ [Next]_vars => IInv'
  BY NextIInv
<1> QED
  BY <1>1, <1>2, PTL DEF Spec

(* Type correctness; with it, no policy ever queues a task twice. *)
THEOREM TypeCorrect == Spec => []TypeOK
<1>1. IInv => TypeOK
  BY DEF IInv
<1> QED
  BY <1>1, Invariance, PTL

(* No policy loses, doubles or invents a ready task, whatever operations   *)
(* the loop calls, and ready_len counts them right.                        *)
THEOREM QueuesExact == Spec => []ReadyQueueExact
<1>1. IInv => ReadyQueueExact
  <2> SUFFICES ASSUME IInv
               PROVE  ReadyQueueExact
    OBVIOUS
  <2>1. ReadyTasks(sched) = {t \in Task : Ready(t)}
    BY DEF IInv, ReadyAgree
  <2>2. ReadyLen(sched) = Cardinality(ReadyTasks(sched))
    BY TaskFacts, ReadyLenContract DEF IInv, TypeOK
  <2> QED
    BY <2>1, <2>2 DEF ReadyQueueExact
<1> QED
  BY <1>1, Invariance, PTL

(* At most one task runs, and it is the one the loop takes it to be.       *)
THEOREM OneRunner == Spec => []SingleRunner
<1>1. IInv => SingleRunner
  BY DEF IInv
<1> QED
  BY <1>1, Invariance, PTL

(* The test for equality in Step 1 misses no wake-up.                      *)
THEOREM WakeupsKept == Spec => []NoMissedWakeup
<1>1. IInv => NoMissedWakeup
  BY DEF IInv
<1> QED
  BY <1>1, Invariance, PTL

(* The CPU is never left idle with work to do.                             *)
THEOREM NeverIdleWithWork == Spec => []WorkConserving
<1>1. IInv => WorkConserving
  BY DEF IInv, WorkConserving, IdleJustified, ArrivalsSeen
<1> QED
  BY <1>1, Invariance, PTL

(* The loop ends with every task done or at its tick limit, not after it.  *)
THEOREM StopsInTime == Spec => []CutOffExact
<1>1. IInv => CutOffExact
  BY DEF IInv
<1> QED
  BY <1>1, Invariance, PTL

-----------------------------------------------------------------------------
LEMMA SwitchContextLog ==
  ASSUME TypeOK, NEW next \in Task \cup {None}, NEW ts \in Nat, NEW ready_len \in Nat,
         SwitchContext(next, ts, ready_len), events' # events
  PROVE  Last(events').ready_len = ready_len
<1> DEFINE e == [ts |-> ts, from |-> running, to |-> next, ready_len |-> ready_len,
                 run_fragment |-> RunFragment(ts)]
<1> DEFINE Entry == [ts : Nat, from : Task \cup {None}, to : Task \cup {None},
                     ready_len : Nat, run_fragment : Nat]
<1>1. events' = Append(events, e)
  BY DEF SwitchContext, cpuVars
<1>2. e \in Entry /\ events \in Seq(Entry)
  <2>1. RunFragment(ts) \in Nat
    BY MonusType DEF RunFragment, TypeOK
  <2> QED
    BY <2>1 DEF TypeOK
<1>3. e.ready_len = ready_len
  OBVIOUS
<1> HIDE DEF e, Entry
<1>4. Last(events') = e
  BY <1>1, <1>2, AppendProperties, LenProperties DEF Last
<1> QED
  BY <1>3, <1>4

(* A new entry of the log shows the number of tasks it leaves behind.      *)
LEMMA LoggedLen ==
  ASSUME IInv, IInv', [Next]_vars, events' # events
  PROVE  Last(events').ready_len = Cardinality({t \in Task : state'[t] = "Ready"})
<1>1. Last(events').ready_len = ReadyLen(sched')
  <2>1. IsFiniteSet(Task) /\ now \in Nat /\ now + 1 \in Nat /\ TypeOK
    <3>1. TypeOK
      BY DEF IInv
    <3>2. now \in Nat
      BY <3>1 DEF TypeOK
    <3> QED
      BY <3>1, <3>2, TaskFacts
  <2>2. ReadyLen(sched) \in Nat
    BY <2>1, ReadyLenContract DEF TypeOK
  <2>3. ReadyLen(sched') \in Nat
    <3>1. IsFiniteSet(Task') /\ SchedulerOK(sched', Task')
      BY TaskFacts DEF IInv, TypeOK, WorkloadOK, Task
    <3> QED
      BY <3>1, ReadyLenContract
  <2>4. CASE Dispatch
    <3>1. PICK o \in PickNext(sched, remaining_cpu, Class) :
            /\ o.next # None /\ sched' = o.sched
            /\ SwitchContext(o.next, now, ReadyLen(sched'))
      BY <2>4 DEF Dispatch
    <3>2. o.next \in Task
      <4>1. o.next \in ReadyTasks(sched)
        BY <2>1, <3>1, PickContract DEF TypeOK
      <4> QED
        BY <2>1, <4>1, ReadyLenContract DEF TypeOK
    <3> QED
      BY <2>1, <2>3, <3>1, <3>2, SwitchContextLog
  <2>5. CASE Finish
    BY <2>1, <2>2, <2>5, SwitchContextLog DEF Finish, ts_next
  <2>6. CASE Block \/ Preempt
    BY <2>1, <2>3, <2>6, SwitchContextLog DEF Block, Preempt, ts_next
  <2> QED
    BY <2>4, <2>5, <2>6 DEF Next, Wake, Arrive, WakesDone, ArrivalsDone,
       KeepRunning, StayIdle, Account, NoTask, Tick, Continue, NextTick, Break,
       Terminated, vars, cpuVars
<1>2. ReadyLen(sched') = Cardinality(ReadyTasks(sched'))
  <2>1. IsFiniteSet(Task') /\ SchedulerOK(sched', Task')
    BY TaskFacts DEF IInv, TypeOK, WorkloadOK, Task
  <2> QED
    BY <2>1, ReadyLenContract
<1>3. Task' = Task
  <2>1. workload' = workload
    BY DEF Next, Wake, Arrive, WakesDone, ArrivalsDone, KeepRunning, Dispatch,
       StayIdle, Account, NoTask, Tick, Finish, Block, Preempt, Continue, NextTick,
       Break, Terminated, vars
  <2> QED
    BY <2>1, SameTasks
<1>4. ReadyTasks(sched') = {t \in Task : state'[t] = "Ready"}
  BY <1>3 DEF IInv, ReadyAgree, Ready
<1> QED
  BY <1>1, <1>2, <1>4

(* Dispatch reads ready_len behind the pop, a preemption behind the push,  *)
(* and no policy miscounts its queues: the log never shows a wrong length. *)
THEOREM LogTellsReadyLen == Spec => LoggedReadyLenExact
<1>1. IInv /\ IInv' /\ [Next]_vars =>
        [events' # events =>
           Last(events').ready_len = Cardinality({t \in Task : state'[t] = "Ready"})]_vars
  BY LoggedLen
<1> QED
  BY <1>1, Invariance, PTL DEF Spec, LoggedReadyLenExact

-----------------------------------------------------------------------------
(* Since when a ready task waits.                                           *)

(* The time the books of this step of the loop are kept to.                *)
Until == IF step \in {"settle", "end"} THEN now + 1 ELSE now

(* A ready task knows since when, and not from the future.                 *)
SinceKnown ==
  \A t \in Task : Ready(t) => ready_since[t] \in Nat /\ ready_since[t] <= Until

-----------------------------------------------------------------------------
(* What a step of the loop does to the tasks' waits.                       *)

(* Nobody's wait begins or ends, and time does not go back.                *)
WaitsOn ==
  /\ ready_since' = ready_since
  /\ \A t \in Task : state'[t] = "Ready" <=> state[t] = "Ready"
  /\ Until' \in {Until, Until + 1}
  /\ running' \in {running, None}

(* Task t becomes ready at the time the books are kept to.                 *)
WaitBegins(t) ==
  /\ t \in Task /\ ~Ready(t) /\ step # "done"
  /\ state' = [state EXCEPT ![t] = "Ready"]
  /\ ready_since' = [ready_since EXCEPT ![t] = Until]
  /\ Until' = Until
  /\ running' \in {running, None}

(* Task t is taken from the queues and runs from now on.                   *)
WaitEnds(t) ==
  /\ t \in Task /\ Ready(t)
  /\ state' = [state EXCEPT ![t] = "Running"]
  /\ ready_since' = [ready_since EXCEPT ![t] = None]
  /\ Until' = Until
  /\ running = None /\ running' = t /\ run_start' = now

LEMMA UntilType ==
  ASSUME IInv
  PROVE  Until \in Nat /\ Until >= now
BY DEF IInv, TypeOK, Until

LEMMA WakeWaits ==
  ASSUME IInv, NEW t \in Task, Wake(t) \/ Arrive(t)
  PROVE  WaitBegins(t)
<1>1. Until = now /\ Until' = now
  BY DEF Wake, Arrive, Until
<1>2. ~Ready(t) /\ MakeReady(t, now) /\ running' = running /\ step # "done"
  BY DEF Wake, Arrive, IsFirst, WakeList, ArrivalList, Ready, cpuVars
<1> QED
  BY <1>1, <1>2 DEF MakeReady, WaitBegins

LEMMA DispatchWaits ==
  ASSUME IInv, Dispatch
  PROVE  WaitEnds(running')
<1>1. PICK o \in PickNext(sched, remaining_cpu, Class) :
        /\ o.next # None /\ sched' = o.sched
        /\ SwitchContext(o.next, now, ReadyLen(o.sched))
        /\ StartRunning(o.next)
  BY DEF Dispatch
<1>2. running = None /\ running' = o.next /\ run_start' = now
  BY <1>1 DEF Dispatch, SwitchContext
<1>3. o.next \in ReadyTasks(sched)
  BY <1>1, PickContract DEF IInv, TypeOK
<1>4. o.next \in Task /\ Ready(o.next)
  BY <1>3 DEF IInv, ReadyAgree
<1>5. Until' = Until
  BY DEF Dispatch, Until
<1> QED
  BY <1>1, <1>2, <1>4, <1>5 DEF StartRunning, WaitEnds

LEMMA PreemptWaits ==
  ASSUME IInv, Preempt
  PROVE  WaitBegins(running)
<1>1. Until = now + 1 /\ Until' = now + 1
  BY DEF Preempt, Until
<1>2. /\ running \in Task /\ ~Ready(running) /\ running' \in {running, None}
      /\ step # "done"
  BY DEF Preempt, IInv, TypeOK, SettleHasTask, SingleRunner, Running, Ready,
     SwitchContext, cpuVars
<1> QED
  BY <1>1, <1>2 DEF Preempt, MakeReady, ts_next, WaitBegins

LEMMA MoveWaits ==
  ASSUME IInv,
         \/ WakesDone \/ ArrivalsDone \/ KeepRunning \/ StayIdle \/ Account \/ NoTask
         \/ Tick \/ Finish \/ Block \/ Continue \/ NextTick \/ Break \/ Terminated
         \/ UNCHANGED vars
  PROVE  WaitsOn
<1>1. ready_since' = ready_since
  BY DEF WakesDone, ArrivalsDone, KeepRunning, StayIdle, Account, NoTask, Tick, Finish,
     Block, Continue, NextTick, Break, Terminated, vars, taskVars
<1>2. Until' \in {Until, Until + 1}
  <2>1. now \in Nat
    BY DEF IInv, TypeOK
  <2>2. CASE \/ WakesDone \/ ArrivalsDone \/ KeepRunning \/ StayIdle \/ Account
             \/ Terminated \/ UNCHANGED vars
    BY <2>2 DEF WakesDone, ArrivalsDone, KeepRunning, StayIdle, Account, Terminated, vars,
       Until
  <2>3. CASE NoTask \/ Tick
    BY <2>3 DEF NoTask, Tick, Until
  <2>4. CASE Finish \/ Block \/ Continue
    BY <2>4 DEF Finish, Block, Continue, Until
  <2>5. CASE NextTick \/ Break
    BY <2>1, <2>5 DEF NextTick, Break, Until
  <2> QED
    BY <2>2, <2>3, <2>4, <2>5
<1>3. ASSUME NEW t \in Task
      PROVE  state'[t] = "Ready" <=> state[t] = "Ready"
  <2>1. CASE Finish \/ Block
    <3>1. /\ state \in [Task -> {"New", "Ready", "Running", "Blocked", "Done"}]
          /\ running \in Task /\ state[running] = "Running"
      BY <2>1 DEF Finish, Block, IInv, TypeOK, SettleHasTask, SingleRunner, Running
    <3> QED
      BY <2>1, <3>1 DEF Finish, Block
  <2>2. CASE state' = state
    BY <2>2
  <2> QED
    BY <2>1, <2>2 DEF WakesDone, ArrivalsDone, KeepRunning, StayIdle, Account, NoTask, Tick,
       Continue, NextTick, Break, Terminated, vars, taskVars
<1>4. running' \in {running, None}
  BY DEF WakesDone, ArrivalsDone, KeepRunning, StayIdle, Account, NoTask, Tick, Finish,
     Block, Continue, NextTick, Break, Terminated, vars, cpuVars, SwitchContext
<1> QED
  BY <1>1, <1>2, <1>3, <1>4 DEF WaitsOn

LEMMA NextWaits ==
  ASSUME IInv, [Next]_vars
  PROVE  /\ Task' = Task
         /\ WaitsOn \/ \E t \in Task : WaitBegins(t) \/ WaitEnds(t)
<1>1. workload' = workload
  BY DEF Next, Wake, Arrive, WakesDone, ArrivalsDone, KeepRunning, Dispatch, StayIdle,
     Account, NoTask, Tick, Finish, Block, Preempt, Continue, NextTick, Break, Terminated,
     vars
<1>2. CASE \E t \in Task : Wake(t) \/ Arrive(t)
  BY <1>1, <1>2, SameTasks, WakeWaits
<1>3. CASE Dispatch
  BY <1>1, <1>3, SameTasks, DispatchWaits DEF WaitEnds
<1>4. CASE Preempt
  BY <1>1, <1>4, SameTasks, PreemptWaits DEF WaitBegins
<1>5. CASE ~Preempt /\ ~Dispatch /\ ~\E t \in Task : Wake(t) \/ Arrive(t)
  BY <1>1, <1>5, SameTasks, MoveWaits DEF Next
<1> QED
  BY <1>2, <1>3, <1>4, <1>5

(* Every ready task knows since when it waits.                             *)
LEMMA NextSince ==
  ASSUME IInv, SinceKnown, [Next]_vars
  PROVE  SinceKnown'
<1>1. Task' = Task /\ Until \in Nat
  BY NextWaits, UntilType
<1>2. /\ state \in [Task -> {"New", "Ready", "Running", "Blocked", "Done"}]
      /\ ready_since \in [Task -> Nat \cup {None}]
  BY DEF IInv, TypeOK
<1>3. CASE WaitsOn
  BY <1>1, <1>2, <1>3 DEF WaitsOn, SinceKnown, Ready
<1>4. CASE \E t \in Task : WaitBegins(t)
  BY <1>1, <1>2, <1>4 DEF WaitBegins, SinceKnown, Ready
<1>5. CASE \E t \in Task : WaitEnds(t)
  BY <1>1, <1>2, <1>5 DEF WaitEnds, SinceKnown, Ready
<1> QED
  BY <1>3, <1>4, <1>5, NextWaits

THEOREM WaitsKnown == Spec => []SinceKnown
<1>1. Init => SinceKnown
  BY DEF Init, SinceKnown, Ready
<1>2. IInv /\ SinceKnown /\ [Next]_vars => SinceKnown'
  BY NextSince
<1> QED
  BY <1>1, <1>2, Invariance, PTL DEF Spec
=============================================================================
