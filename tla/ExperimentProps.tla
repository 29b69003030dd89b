-------------------------- MODULE ExperimentProps ---------------------------
(***************************************************************************)
(* What run_experiment and the policies must keep true.                    *)
(***************************************************************************)
EXTENDS Experiment, SequencesExt

Done(t)    == state[t] = "Done"
Ready(t)   == state[t] = "Ready"
Blocked(t) == state[t] = "Blocked"
Running(t) == state[t] = "Running"

(* Every variable has its type, and the policy is in one of its own states *)
(* for the tasks of this workload.                                         *)
TypeOK ==
  /\ WorkloadOK(workload)
  /\ SchedulerOK(sched, Task)
  /\ state \in [Task -> {"New", "Ready", "Running", "Blocked", "Done"}]
  /\ remaining_cpu \in [Task -> Nat]
  /\ run_since_io \in [Task -> Nat]
  /\ unblock_at \in [Task -> Nat \cup {None}]
  /\ ready_since \in [Task -> Nat \cup {None}]
  /\ waiting_time \in [Task -> Nat]
  /\ completion_time \in [Task -> Nat \cup {None}]
  /\ starvation_marked \in [Task -> BOOLEAN]
  /\ running \in Task \cup {None}
  /\ run_start \in Nat /\ now \in Nat /\ starvation_count \in Nat
  /\ interactive_latencies \in Seq(Nat)
  /\ events \in Seq([ts : Nat, from : Task \cup {None}, to : Task \cup {None},
                     ready_len : Nat, run_fragment : Nat])
  /\ step \in {"wake", "arrive", "pick", "account", "tick", "settle", "end", "done"}
  /\ action \in {None, "Continue", "Preempt"}

-----------------------------------------------------------------------------
(* The loop and the policy agree on who is ready: the queues of the policy *)
(* hold exactly the tasks in state Ready, each once, so ready_len is their *)
(* number.  A boost, a swap_remove or a wake-up that loses or doubles a    *)
(* task breaks it.                                                         *)
ReadyQueueExact ==
  /\ ReadyTasks(sched) = {t \in Task : Ready(t)}
  /\ ReadyLen(sched) = Cardinality({t \in Task : Ready(t)})

(* The task in state Running is the one in the local `running`, and there  *)
(* is no other.                                                            *)
SingleRunner == \A t \in Task : Running(t) <=> running = t

(* Step 1 compares unblock_at with now for equality: a blocked task whose  *)
(* time has passed would sleep for ever.  Every blocked task still has its *)
(* wake-up ahead, strictly so once Step 1 is over.                         *)
NoMissedWakeup ==
  \A t \in Task : Blocked(t) =>
    /\ unblock_at[t] # None
    /\ unblock_at[t] >= now
    /\ step \notin {"wake", "done"} => unblock_at[t] > now

(* From Step 3 to the tick the CPU is idle only when no task is ready and  *)
(* every task that has arrived is blocked or done.                         *)
WorkConserving ==
  step \in {"account", "tick"} /\ running = None =>
    \A t \in Task : /\ ~Ready(t)
                    /\ state[t] = "New" => TaskAt(t).arrival > now

-----------------------------------------------------------------------------
(* CPU ticks a task has used.  A task specified with total_cpu = 0 still   *)
(* runs for one tick, at whose end it is found finished.                   *)
CpuTicks(t) ==
  IF TaskAt(t).total_cpu > 0 THEN TaskAt(t).total_cpu - remaining_cpu[t]
  ELSE IF Done(t) \/ (Running(t) /\ step = "settle") THEN 1 ELSE 0

(* I/O operations it has issued: one for each burst of io_every ticks.     *)
IoCount(t) ==
  IF TaskAt(t).io_every \in {None, 0} THEN 0
  ELSE (CpuTicks(t) - run_since_io[t]) \div TaskAt(t).io_every

(* The time up to which its books are kept.                                *)
BookedUntil(t) ==
  CASE Done(t)    -> completion_time[t]
    [] Blocked(t) -> unblock_at[t]
    [] Ready(t)   -> IF step \in {"tick", "settle", "end"} THEN now + 1 ELSE now
    [] Running(t) -> IF step \in {"settle", "end"} THEN now + 1 ELSE now

(* Every tick of a task's life is booked once: from its arrival on it has  *)
(* run, waited or been blocked, and nothing else.  This ties remaining_cpu,*)
(* waiting_time, run_since_io, unblock_at, completion_time and the clock   *)
(* together, and makes turnaround = CPU + waiting + I/O in the report.     *)
TimeAccounting ==
  \A t \in Task : state[t] # "New" =>
    BookedUntil(t) = TaskAt(t).arrival + CpuTicks(t) + waiting_time[t]
                       + IoCount(t) * TaskAt(t).io_block

(* The policy's own bookkeeping of the running task, which the loop never  *)
(* resets when a task finishes, is nevertheless right whenever on_tick is  *)
(* about to be called: the defensive re-synchronisation there never acts,  *)
(* and used_slice is the time since the task was switched in.              *)
PolicyTracksRun ==
  step = "tick" /\ running # None /\ sched.name \in {"RR", "MLFQ", "CFS-like"} =>
    /\ sched.running = running
    /\ sched.used_slice = now - run_start

-----------------------------------------------------------------------------
FragmentsOf(t) ==
  SumFunctionOnSet([i \in DOMAIN events |-> events[i].run_fragment],
                   {i \in DOMAIN events : events[i].from = t})

CurrentRun(t) ==
  IF running # t THEN 0
  ELSE (IF step \in {"settle", "end"} THEN now + 1 ELSE now) - run_start

(* The switch log tells the run: entries alternate between giving the CPU  *)
(* up and taking it, each starts where the last one ended, and the         *)
(* fragments logged for a task, with its current run, add up to the CPU    *)
(* time it has used.  An idle gap is logged only behind an entry that saw  *)
(* an empty ready queue.                                                   *)
SwitchLogTellsRun ==
  /\ IF events = << >> THEN running = None
                      ELSE Last(events).to = running /\ Last(events).ts = run_start
  /\ \A i \in 2 .. Len(events) :
       LET e == events[i]  prev == events[i - 1]
       IN  /\ e.from = prev.to
           /\ (e.from = None) # (e.to = None)
           /\ e.run_fragment = IF e.from = None THEN 0 ELSE e.ts - prev.ts
           /\ e.from = None /\ e.ts > prev.ts => prev.ready_len = 0
  /\ \A t \in Task : CpuTicks(t) = FragmentsOf(t) + CurrentRun(t)

(* ready_len of a new log entry is the number of ready tasks it leaves     *)
(* behind, whether the policy was asked before or after it was told.       *)
LoggedReadyLenExact ==
  [][events' # events =>
       Last(events').ready_len = Cardinality({t \in Task : state'[t] = "Ready"})]_vars

InteractiveTasks == {t \in Task : IsInteractive(t)}

(* The latency samples and the waiting time agree: the samples, with the   *)
(* waits in progress, are all the waiting the interactive tasks have done. *)
LatenciesAreWaits ==
  SumFunction(interactive_latencies)
    + SumFunctionOnSet([t \in Task |-> IF Ready(t) THEN BookedUntil(t) - ready_since[t]
                                                   ELSE 0], InteractiveTasks)
  = SumFunctionOnSet(waiting_time, InteractiveTasks)

(* A wait counts as starvation once, and only while it is on: a marked task*)
(* is ready and has waited longer than the threshold, after the accounting *)
(* step every such task is marked, and of the waits that have ended the    *)
(* count holds those that were marked.  Of these the samples of the        *)
(* interactive tasks show the ones longer than threshold + 1: the check    *)
(* runs at the start of a tick, when the wait is one tick shorter than the *)
(* sample will be.                                                         *)
StarvationCountExact ==
  LET threshold == workload.starvation_threshold
      counted == Cardinality({i \in DOMAIN interactive_latencies :
                                interactive_latencies[i] > threshold + 1})
                 + Cardinality({t \in InteractiveTasks : starvation_marked[t]})
  IN  /\ starvation_count >= counted
      /\ InteractiveTasks = Task => starvation_count = counted
      /\ \A t \in Task :
           /\ starvation_marked[t] => Ready(t) /\ now - ready_since[t] > threshold
           /\ /\ step \in {"tick", "settle", "end"}
              /\ Ready(t)
              /\ now - ready_since[t] > threshold
              => starvation_marked[t]

-----------------------------------------------------------------------------
(* A preemption is justified by its policy: FCFS and SJF never preempt, RR *)
(* and MLFQ take the CPU away after exactly the quantum (of the level the  *)
(* task ran at), CFS-like not before min_granularity.                      *)
PreemptionJustified ==
  [][\A t \in Task : Running(t) /\ state'[t] = "Ready" =>
       LET run == now + 1 - run_start
       IN  CASE sched.name \in {"FCFS", "SJF"} -> FALSE
             [] sched.name = "RR"       -> run = RrQuantum
             [] sched.name = "MLFQ"     -> \E l \in 0 .. 3 : 
                  /\ run = MlfqQuantums[l]
                  /\ sched.mlfq_level[t] = IF l < 3 THEN l + 1 ELSE l
             [] sched.name = "CFS-like" -> run >= MinGranularity
             [] OTHER                   -> TRUE]_vars

(* FCFS and RR serve in order of readiness: nobody stands before a task    *)
(* that became ready earlier.                                              *)
FifoByReadiness ==
  sched.name \in {"FCFS", "RR"} =>
    \A i, j \in DOMAIN sched.queue :
      i < j => ready_since[sched.queue[i]] <= ready_since[sched.queue[j]]

WaitOf(t) == now - ready_since[t]

Others == Cardinality(Task) - 1

(* Under RR a ready task waits for at most one quantum of every other task.*)
RrBoundedWait ==
  sched.name = "RR" => \A t \in Task : Ready(t) => WaitOf(t) <= Others * RrQuantum

(* A queued MLFQ task stands in the queue of its own level, and a running  *)
(* one has not used more than that level's quantum.                        *)
MlfqLevelsMatch ==
  sched.name = "MLFQ" =>
    /\ \A l \in 0 .. 3 : \A t \in Range(sched.queues[l]) : sched.mlfq_level[t] = l
    /\ running # None /\ step = "tick" =>
         sched.used_slice < MlfqQuantums[sched.mlfq_level[running]]

(* The periodic boost bounds every wait under MLFQ: until the next boost,  *)
(* then what is left of the current slice and one level-0 quantum of every *)
(* other task before it.                                                   *)
MlfqBoundedWait ==
  sched.name = "MLFQ" =>
    \A t \in Task : Ready(t) =>
      WaitOf(t) <= BoostInterval + MlfqQuantums[3] + Others * MlfqQuantums[0]

(* A task that CFS-like preempted does not get the CPU straight back: it   *)
(* was ahead of some ready task, and that task or one further behind runs  *)
(* next.  (run_since_io is 0 when the task gave the CPU up for I/O.)       *)
CfsPreemptionYields ==
  [][step = "pick" /\ running' # running /\ sched.name = "CFS-like"
       /\ events # << >> /\ run_since_io[running'] > 0
     => Last(events).from # running']_vars

(* Two CPU-bound tasks that are there from the start share the CPU: their  *)
(* vruntimes differ by no more than one longest slice.                     *)
LongestSlice == IF TargetSlice > MinGranularity THEN TargetSlice ELSE MinGranularity

CfsFairShare ==
  sched.name = "CFS-like" =>
    \A t, u \in {x \in Task : /\ TaskAt(x).arrival = 0
                              /\ TaskAt(x).class = "CpuBound"
                              /\ TaskAt(x).io_every = None
                              /\ state[x] \in {"Ready", "Running"}} :
      sched.vruntime[t] - sched.vruntime[u] <= 23 * LongestSlice

-----------------------------------------------------------------------------
(* The loop is left with every task done, or else at MaxTicks exactly.      *)
CutOffExact == step = "done" => (AllDone \/ now = MaxTicks) /\ now <= MaxTicks

(* The experiment ends, and when MaxTicks is far enough it ends with every *)
(* task done: no wake-up is lost and no task forgotten, whatever the order *)
(* the policy runs them in.                                                *)
AllComplete == <>(step = "done" /\ AllDone)
=============================================================================
