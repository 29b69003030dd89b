----------------------------- MODULE Experiment -----------------------------
(***************************************************************************)
(* run_experiment: the discrete-time loop that runs one workload under one *)
(* scheduling policy.  The body of the loop is cut where it is in the      *)
(* source (Step 1 ... Step 6); the variable `step` says where the loop is. *)
(* The fields of RuntimeTask are functions of the task id; `vruntime` and  *)
(* `mlfq_level` live in the state of the policy that owns them, and the    *)
(* fields that never change are read from the workload.                    *)
(***************************************************************************)
EXTENDS Schedulers

CONSTANTS Workloads,       \* the workloads an experiment may be started with
          SchedulerNames,  \* the policies it may be started with
          MaxTicks         \* 500_000 in the source

Classes == {"CpuBound", "IoBound", "Interactive"}

TaskSpecs ==
  [class : Classes, arrival : Nat, total_cpu : Nat,
   io_every : Nat \cup {None}, io_block : Nat]

(* Task ids are the indices of the Vec of task specifications. *)
WorkloadOK(w) ==
  /\ IsFiniteSet(DOMAIN w.tasks) /\ DOMAIN w.tasks \subseteq Nat
  /\ w.tasks \in [DOMAIN w.tasks -> TaskSpecs]
  /\ w.starvation_threshold \in Nat

ASSUME ExperimentAssumption ==
  /\ \A w \in Workloads : WorkloadOK(w)
  /\ SchedulerNames \subseteq PolicyNames
  /\ MaxTicks \in Nat \ {0}

VARIABLES workload, sched,                     \* the two arguments
          state, remaining_cpu, run_since_io, unblock_at, ready_since,
          waiting_time, completion_time, starvation_marked,    \* RuntimeTask
          running, run_start, now, starvation_count,
          interactive_latencies, events,       \* the locals of the loop
          step, action                         \* the place in the loop body

taskVars == <<state, remaining_cpu, run_since_io, unblock_at, ready_since,
              waiting_time, completion_time, starvation_marked>>
cpuVars  == <<running, run_start, interactive_latencies, events>>
vars     == <<workload, sched, taskVars, cpuVars, now, starvation_count,
              step, action>>

Task     == DOMAIN workload.tasks
TaskAt(t) == workload.tasks[t]
Class    == [t \in Task |-> TaskAt(t).class]

Init ==
  /\ workload \in Workloads
  /\ \E name \in SchedulerNames : sched = NewScheduler(name, Task)
  /\ state             = [t \in Task |-> "New"]
  /\ remaining_cpu     = [t \in Task |-> TaskAt(t).total_cpu]
  /\ run_since_io      = [t \in Task |-> 0]
  /\ unblock_at        = [t \in Task |-> None]
  /\ ready_since       = [t \in Task |-> None]
  /\ waiting_time      = [t \in Task |-> 0]
  /\ completion_time   = [t \in Task |-> None]
  /\ starvation_marked = [t \in Task |-> FALSE]
  /\ running = None
  /\ run_start = 0
  /\ now = 0
  /\ starvation_count = 0
  /\ interactive_latencies = << >>
  /\ events = << >>
  /\ step = "wake"
  /\ action = None

\* Mutant: a plain subtraction.
PlainSub(a, b) == a - b

(* saturating_sub *)
Monus(a, b) == IF a >= b THEN a - b ELSE 0

-----------------------------------------------------------------------------
(* Step 1 and Step 2: the tasks due, in the order of their ids.            *)

WakeList == {t \in Task : state[t] = "Blocked" /\ unblock_at[t] = now}
\* Mutant: < in place of <=.
LateArrivalList == {t \in Task : state[t] = "New" /\ TaskAt(t).arrival < now}

ArrivalList == {t \in Task : state[t] = "New" /\ TaskAt(t).arrival <= now}

IsFirst(t, list) == t \in list /\ \A u \in list : t <= u

\* Mutant: ready from this tick on, also when preempted at its end.
MakeReadyNow(t, since) ==
  /\ state' = [state EXCEPT ![t] = "Ready"]
  /\ ready_since' = [ready_since EXCEPT ![t] = now]

MakeReady(t, since) ==
  /\ state' = [state EXCEPT ![t] = "Ready"]
  /\ ready_since' = [ready_since EXCEPT ![t] = since]

Wake(t) ==
  /\ step = "wake"
  /\ IsFirst(t, WakeList)
  /\ MakeReady(t, now)
  /\ unblock_at' = [unblock_at EXCEPT ![t] = None]
  /\ sched' = OnWakeup(sched, t)
  /\ UNCHANGED <<workload, remaining_cpu, run_since_io, waiting_time,
                 completion_time, starvation_marked, cpuVars, now,
                 starvation_count, step, action>>

WakesDone ==
  /\ step = "wake"
  /\ WakeList = {}
  /\ step' = "arrive"
  /\ UNCHANGED <<workload, sched, taskVars, cpuVars, now, starvation_count, action>>

Arrive(t) ==
  /\ step = "arrive"
  /\ IsFirst(t, ArrivalList)
  /\ MakeReady(t, now)
  /\ sched' = Enqueue(sched, t)
  /\ UNCHANGED <<workload, remaining_cpu, run_since_io, unblock_at, waiting_time,
                 completion_time, starvation_marked, cpuVars, now,
                 starvation_count, step, action>>

ArrivalsDone ==
  /\ step = "arrive"
  /\ ArrivalList = {}
  /\ step' = "pick"
  /\ UNCHANGED <<workload, sched, taskVars, cpuVars, now, starvation_count, action>>

-----------------------------------------------------------------------------
(* switch_context, which does nothing when the CPU keeps its task: the log *)
(* entry, the new running task and, for an interactive task that starts to *)
(* run, a latency sample; StartRunning is its effect on that task.         *)

IsInteractive(t) == TaskAt(t).class = "Interactive"

\* Mutant: measured to this tick, not to its end.
FragmentToNow(ts) == IF running # None THEN Monus(now, run_start) ELSE 0

RunFragment(ts) == IF running # None THEN Monus(ts, run_start) ELSE 0

SwitchContext(next, ts, ready_len) ==
  IF running = next
  THEN UNCHANGED cpuVars
  ELSE /\ running' = next
       /\ run_start' = ts
       /\ events' = Append(events,
            [ts |-> ts, from |-> running, to |-> next, ready_len |-> ready_len,
             run_fragment |-> RunFragment(ts)])
       /\ interactive_latencies' =
            IF next # None /\ IsInteractive(next) /\ ready_since[next] # None
            THEN Append(interactive_latencies, Monus(ts, ready_since[next]))
            ELSE interactive_latencies

\* Mutant: the mark is kept.
StartMarked(t) ==
  /\ state' = [state EXCEPT ![t] = "Running"]
  /\ ready_since' = [ready_since EXCEPT ![t] = None]
  /\ UNCHANGED starvation_marked

StartRunning(t) ==
  /\ state' = [state EXCEPT ![t] = "Running"]
  /\ ready_since' = [ready_since EXCEPT ![t] = None]
  /\ starvation_marked' = [starvation_marked EXCEPT ![t] = FALSE]

(* Step 3: an idle CPU asks the policy for the next task.                  *)

KeepRunning ==
  /\ step = "pick"
  /\ running # None
  /\ step' = "account"
  /\ UNCHANGED <<workload, sched, taskVars, cpuVars, now, starvation_count, action>>

Dispatch ==
  /\ step = "pick"
  /\ running = None
  /\ \E o \in PickNext(sched, remaining_cpu, Class) :
       /\ o.next # None
       /\ sched' = o.sched
       /\ SwitchContext(o.next, now, ReadyLen(o.sched))
       /\ StartRunning(o.next)
  /\ step' = "account"
  /\ UNCHANGED <<workload, remaining_cpu, run_since_io, unblock_at, waiting_time,
                 completion_time, now, starvation_count, action>>

StayIdle ==
  /\ step = "pick"
  /\ running = None
  /\ \E o \in PickNext(sched, remaining_cpu, Class) :
       /\ o.next = None
       /\ sched' = o.sched
  /\ step' = "account"
  /\ UNCHANGED <<workload, taskVars, cpuVars, now, starvation_count, action>>

(* Step 4: ready tasks wait one more tick, and may be found starving.      *)

Starving(t) ==
  /\ state[t] = "Ready"
  /\ ready_since[t] # None
  /\ Monus(now, ready_since[t]) > workload.starvation_threshold
  /\ ~starvation_marked[t]

Account ==
  /\ step = "account"
  /\ waiting_time' = [t \in Task |-> IF state[t] = "Ready" THEN waiting_time[t] + 1
                                                          ELSE waiting_time[t]]
  /\ starvation_marked' = [t \in Task |-> starvation_marked[t] \/ Starving(t)]
  /\ starvation_count' = starvation_count + Cardinality({t \in Task : Starving(t)})
  /\ step' = "tick"
  /\ UNCHANGED <<workload, sched, state, remaining_cpu, run_since_io, unblock_at,
                 ready_since, completion_time, cpuVars, now, action>>

-----------------------------------------------------------------------------
(* Step 5: the running task uses the tick, the policy says whether it may  *)
(* go on, and one of four things happens at the boundary ts_next.          *)

\* Mutant: this tick in place of the next.
ts_now == now

ts_next == now + 1

NoTask ==
  /\ step = "tick"
  /\ running = None
  /\ step' = "end"
  /\ UNCHANGED <<workload, sched, taskVars, cpuVars, now, starvation_count, action>>

Tick ==
  /\ step = "tick"
  /\ running # None
  /\ remaining_cpu' = [remaining_cpu EXCEPT ![running] = Monus(@, 1)]
  /\ run_since_io' = [run_since_io EXCEPT ![running] = @ + 1]
  /\ \E o \in OnTick(sched, Class, running, now) :
       /\ action' = o.action
       /\ sched' = o.sched
  /\ step' = "settle"
  /\ UNCHANGED <<workload, state, unblock_at, ready_since, waiting_time,
                 completion_time, starvation_marked, cpuVars, now,
                 starvation_count>>

\* Mutant: > in place of >=.
IoOverdue(t) ==
  /\ TaskAt(t).io_every # None
  /\ TaskAt(t).io_every > 0
  /\ run_since_io[t] > TaskAt(t).io_every

IoDue(t) ==
  /\ TaskAt(t).io_every # None
  /\ TaskAt(t).io_every > 0
  /\ run_since_io[t] >= TaskAt(t).io_every

(* 5.1 *)
Finish ==
  /\ step = "settle"
  /\ remaining_cpu[running] = 0
  /\ state' = [state EXCEPT ![running] = "Done"]
  /\ completion_time' = [completion_time EXCEPT ![running] = ts_next]
  /\ SwitchContext(None, ts_next, ReadyLen(sched))
  /\ step' = "end"
  /\ action' = None
  /\ UNCHANGED <<workload, sched, remaining_cpu, run_since_io, unblock_at,
                 ready_since, waiting_time, starvation_marked, now,
                 starvation_count>>

(* 5.2 *)
Block ==
  /\ step = "settle"
  /\ remaining_cpu[running] # 0
  /\ IoDue(running)
  /\ run_since_io' = [run_since_io EXCEPT ![running] = 0]
  /\ state' = [state EXCEPT ![running] = "Blocked"]
  /\ unblock_at' = [unblock_at EXCEPT ![running] = ts_next + TaskAt(running).io_block]
  /\ sched' = OnBlock(sched, running)
  /\ SwitchContext(None, ts_next, ReadyLen(sched'))
  /\ step' = "end"
  /\ action' = None
  /\ UNCHANGED <<workload, remaining_cpu, ready_since, waiting_time,
                 completion_time, starvation_marked, now, starvation_count>>

(* 5.3 and 5.4 *)
Preempt ==
  /\ step = "settle"
  /\ remaining_cpu[running] # 0
  /\ ~IoDue(running)
  /\ action = "Preempt"
  /\ MakeReady(running, ts_next)
  /\ sched' = Enqueue(sched, running)
  /\ SwitchContext(None, ts_next, ReadyLen(sched'))
  /\ step' = "end"
  /\ action' = None
  /\ UNCHANGED <<workload, remaining_cpu, run_since_io, unblock_at, waiting_time,
                 completion_time, starvation_marked, now, starvation_count>>

Continue ==
  /\ step = "settle"
  /\ remaining_cpu[running] # 0
  /\ ~IoDue(running)
  /\ action = "Continue"
  /\ step' = "end"
  /\ action' = None
  /\ UNCHANGED <<workload, sched, taskVars, cpuVars, now, starvation_count>>

-----------------------------------------------------------------------------
(* Step 6 and the head of the loop.  The final state stutters.             *)

AllDone == \A t \in Task : state[t] = "Done"

\* Mutant: <= in place of <.
OneTickMore ==
  /\ step = "end"
  /\ ~AllDone
  /\ now' = now + 1
  /\ step' = IF now + 1 <= MaxTicks THEN "wake" ELSE "done"
  /\ UNCHANGED <<workload, sched, taskVars, cpuVars, starvation_count, action>>

NextTick ==
  /\ step = "end"
  /\ ~AllDone
  /\ now' = now + 1
  /\ step' = IF now + 1 < MaxTicks THEN "wake" ELSE "done"
  /\ UNCHANGED <<workload, sched, taskVars, cpuVars, starvation_count, action>>

\* Mutant: any() in place of all().
BreakAtFirst ==
  /\ step = "end"
  /\ \E t \in Task : state[t] = "Done"
  /\ now' = now + 1
  /\ step' = "done"
  /\ UNCHANGED <<workload, sched, taskVars, cpuVars, starvation_count, action>>

Break ==
  /\ step = "end"
  /\ AllDone
  /\ now' = now + 1
  /\ step' = "done"
  /\ UNCHANGED <<workload, sched, taskVars, cpuVars, starvation_count, action>>

Terminated == step = "done" /\ UNCHANGED vars

Next ==
  \/ \E t \in Task : Wake(t) \/ Arrive(t)
  \/ WakesDone \/ ArrivalsDone
  \/ KeepRunning \/ Dispatch \/ StayIdle
  \/ Account
  \/ NoTask \/ Tick
  \/ Finish \/ Block \/ Preempt \/ Continue
  \/ NextTick \/ Break
  \/ Terminated

Spec == Init /\ [][Next]_vars

(* The loop is a single thread that nothing holds up. *)
FairSpec == Spec /\ WF_vars(Next)
=============================================================================
