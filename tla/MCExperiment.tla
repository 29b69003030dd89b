---------------------------- MODULE MCExperiment ----------------------------
(***************************************************************************)
(* Small workloads with scaled-down policy parameters: every sequence of   *)
(* at most three tasks drawn from a palette of task specifications.        *)
(***************************************************************************)
EXTENDS ExperimentReport, ExperimentContract

Cpu(arrival, total_cpu) ==
  [class |-> "CpuBound", arrival |-> arrival, total_cpu |-> total_cpu,
   io_every |-> None, io_block |-> 0]

WithIo(class, arrival, total_cpu, io_every, io_block) ==
  [class |-> class, arrival |-> arrival, total_cpu |-> total_cpu,
   io_every |-> io_every, io_block |-> io_block]

(* The shapes of the suite, and the corners run_experiment accepts: no CPU *)
(* time at all, io_every = Some(0), an I/O that takes no time, a CPU time  *)
(* that is a multiple of io_every.                                         *)
Palette ==
  {Cpu(0, 5), Cpu(2, 3), Cpu(1, 0),
   WithIo("IoBound", 0, 4, 2, 1), WithIo("IoBound", 1, 3, 1, 0),
   WithIo("Interactive", 0, 4, 1, 2), WithIo("Interactive", 3, 4, 3, 1),
   WithIo("Interactive", 1, 2, 0, 1)}

(* Sorted is what a sort makes of the samples.                             *)
ASSUME SortedAgrees ==
  \A n \in 0 .. 4 : \A data \in [1 .. n -> 0 .. 3] : Sorted(data) = SortSeq(data, <)

WorkloadsOf(specs, sizes, threshold) ==
  UNION {{[tasks |-> f, starvation_threshold |-> threshold] :
            f \in [0 .. n - 1 -> specs]} : n \in sizes}

SmallWorkloads == WorkloadsOf(Palette, 0 .. 3, 2)

PairWorkloads == WorkloadsOf(Palette, 0 .. 2, 2)

(* Longer tasks for the policies that share the CPU: enough to go down to  *)
(* the lowest level, past several boosts and past equal vruntimes.         *)
LongPalette ==
  {Cpu(0, 14), Cpu(3, 9), WithIo("IoBound", 0, 12, 4, 2),
   WithIo("Interactive", 2, 11, 2, 1)}

LongWorkloads == WorkloadsOf(LongPalette, 2 .. 4, 4)

(* For the policy that may do anything: few ticks, hence few choices. *)
TinyPalette ==
  {Cpu(0, 2), WithIo("Interactive", 1, 2, 1, 1), WithIo("IoBound", 0, 3, 2, 0)}

TinyWorkloads == WorkloadsOf(TinyPalette, 0 .. 3, 1)

SmallQuantums == [l \in 0 .. 3 |-> <<1, 2, 2, 3>>[l + 1]]
=============================================================================
