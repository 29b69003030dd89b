------------------------- MODULE ExperimentContract -------------------------
(***************************************************************************)
(* The experiment under a policy that keeps the contract of trait          *)
(* Scheduler and nothing more: it may pick any ready task and preempt at   *)
(* any tick.  Under each concrete policy the loop implements this one;     *)
(* what the loop sees of a policy's state is the set of ready tasks.       *)
(***************************************************************************)
EXTENDS ExperimentProps

ContractView == [name |-> "Any", ready |-> ReadyTasks(sched)]

Abstract == INSTANCE Experiment WITH SchedulerNames <- {"Any"},
                                     sched          <- ContractView

(* Each of FCFS, SJF, RR, MLFQ and CFS-like, in the loop, does only what   *)
(* the contract allows: it offers a ready task whenever there is one, and  *)
(* no call adds, drops or doubles a task behind the loop's back.           *)
ImplementsContract == Abstract!Spec
=============================================================================
