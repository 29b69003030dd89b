-------------------------- MODULE ExperimentReport --------------------------
(***************************************************************************)
(* The metrics run_experiment computes from the final state.  A quotient   *)
(* of the source is kept as the pair of its numerator and denominator.     *)
(***************************************************************************)
EXTENDS ExperimentProps

AtLeast1(n) == IF n > 1 THEN n ELSE 1

\* Mutant: rounded down.
FloorIndex(n, p) == ((n - 1) * p) \div 100

(* percentile(data, p), p in hundredths: sort, then take the element at    *)
(* round((len - 1) * p), rounding halves up.  Sorting puts the k-th        *)
(* smallest sample in place k.                                             *)
Sorted(data) ==
  [k \in DOMAIN data |->
     CHOOSE v \in Range(data) : /\ Cardinality({i \in DOMAIN data : data[i] < v}) < k
                                /\ Cardinality({i \in DOMAIN data : data[i] <= v}) >= k]

PercentileIndex(n, p) == ((n - 1) * p + 50) \div 100

Percentile(data, p) ==
  IF data = << >> THEN 0 ELSE Sorted(data)[PercentileIndex(Len(data), p) + 1]

Completed == {t \in Task : completion_time[t] # None}

\* Mutant: every task is held to end with the run.
TurnaroundToEnd(t) == Monus(now, TaskAt(t).arrival)

Turnaround(t) ==
  Monus(IF completion_time[t] # None THEN completion_time[t] ELSE now,
        TaskAt(t).arrival)

Metrics ==
  LET completed == AtLeast1(Cardinality(Completed))
  IN  [avg_waiting      |-> <<SumFunction(waiting_time), completed>>,
       avg_turnaround   |-> <<SumFunction([t \in Task |-> Turnaround(t)]), completed>>,
       throughput       |-> <<Cardinality(Task), AtLeast1(now)>>,
       p95_latency      |-> Percentile(interactive_latencies, 95),
       p99_latency      |-> Percentile(interactive_latencies, 99),
       starvation_count |-> starvation_count,
       makespan         |-> now,
       context_switches |-> Len(events)]

-----------------------------------------------------------------------------
(* The report of a complete run balances: turnaround is waiting, CPU and   *)
(* I/O time; the makespan is the completion time of the last task, and the *)
(* time of the last switch; every dispatch is logged with its end.         *)
ReportBalances ==
  step = "done" /\ AllDone =>
    /\ Metrics.avg_turnaround[1]
         = Metrics.avg_waiting[1]
             + SumFunction([t \in Task |-> CpuTicks(t) + IoCount(t) * TaskAt(t).io_block])
    /\ Task # {} => /\ Metrics.makespan = Last(events).ts
                    /\ \E t \in Task : completion_time[t] = Metrics.makespan
                    /\ \A t \in Task : completion_time[t] <= Metrics.makespan
    /\ Metrics.context_switches % 2 = 0

(* A percentile is a sample with the right rank: the samples up to it are  *)
(* at least the asked share (of all but one, to the nearest sample), and   *)
(* the samples below it are no more than that.                             *)
HasRank(value, data, p) ==
  LET share == (Len(data) - 1) * p + 50
  IN  /\ value \in Range(data)
      /\ 100 * Cardinality({i \in DOMAIN data : data[i] < value}) <= share
      /\ 100 * Cardinality({i \in DOMAIN data : data[i] <= value}) >= share

PercentilesHaveRank ==
  step = "done" /\ interactive_latencies # << >> =>
    /\ HasRank(Metrics.p95_latency, interactive_latencies, 95)
    /\ HasRank(Metrics.p99_latency, interactive_latencies, 99)

-----------------------------------------------------------------------------
(* The comment above the throughput says it is the number of completed     *)
(* tasks over the total time; the code divides the number of all tasks.    *)
ThroughputCountsCompleted ==
  step = "done" => Metrics.throughput[1] = Cardinality(Completed)

(* The document on the output says starvation_count is the number of waits *)
(* that exceeded the threshold.  When only interactive tasks run, whose    *)
(* waits are all sampled, that is the number of samples above it, besides  *)
(* the waits in progress that are already marked.                          *)
StarvationCountsLongWaits ==
  step = "done" /\ InteractiveTasks = Task =>
    starvation_count =
      Cardinality({i \in DOMAIN interactive_latencies :
                     interactive_latencies[i] > workload.starvation_threshold})
      + Cardinality({t \in Task : starvation_marked[t]})
=============================================================================
