------------------------------ MODULE MCSuite -------------------------------
(***************************************************************************)
(* What main() runs: the three workloads of workload_suite under the five  *)
(* policies of scheduler_suite, with the parameters of their constructors. *)
(***************************************************************************)
EXTENDS ExperimentProps

Cpu(arrival, total_cpu) ==
  [class |-> "CpuBound", arrival |-> arrival, total_cpu |-> total_cpu,
   io_every |-> None, io_block |-> 0]

Io(arrival, total_cpu, io_every, io_block) ==
  [class |-> "IoBound", arrival |-> arrival, total_cpu |-> total_cpu,
   io_every |-> io_every, io_block |-> io_block]

Inter(arrival, total_cpu, io_every, io_block) ==
  [Io(arrival, total_cpu, io_every, io_block) EXCEPT !.class = "Interactive"]

(* A Vec of task specifications as a function of the task ids. *)
Vec(specs) == [tid \in 0 .. Len(specs) - 1 |-> specs[tid + 1]]

CpuBoundWorkload ==
  [starvation_threshold |-> 120,
   tasks |-> Vec(<<Cpu(0, 140), Cpu(3, 110), Cpu(6, 90), Cpu(10, 100)>>)]

IoBoundWorkload ==
  [starvation_threshold |-> 100,
   tasks |-> Vec(<<Io(0, 90, 4, 6), Io(1, 80, 5, 5), Io(2, 70, 4, 7),
                   Io(5, 75, 3, 6), Io(7, 60, 4, 8)>>)]

MixedWorkload ==
  [starvation_threshold |-> 80,
   tasks |-> Vec(<<Cpu(0, 120), Cpu(8, 95), Io(2, 80, 4, 6), Io(3, 75, 5, 5),
                   Inter(0, 65, 2, 4), Inter(1, 60, 2, 4), Inter(5, 55, 3, 3),
                   Inter(9, 50, 2, 5)>>)]

WorkloadSuite == {CpuBoundWorkload, IoBoundWorkload, MixedWorkload}

(* The workloads of a single task class, under which CFS-like is           *)
(* deterministic.                                                          *)
UniformWorkloads == {CpuBoundWorkload, IoBoundWorkload}

SuiteQuantums == [l \in 0 .. 3 |-> <<2, 4, 8, 16>>[l + 1]]
=============================================================================
