# Verification of the tg-rcore experiments

TLA+ modules, TLC configurations and TLAPS proofs for the programs of this repository:
the scheduler lab, the virtio-blk driver with its demo kernel, the clock kernel and the
UART driver with its demo kernel. Lines are quoted as

| Short | File under `src/` |
|---|---|
| lab:n | `tg-rcore-scheduler-workspace/tg-rcore-tutorial-scheduler-lab/src/main.rs` |
| blk:n | `tg-rcore-storage-workspace/tg-rcore-tutorial-storage/src/lib.rs` |
| demo:n | `tg-rcore-storage-workspace/tg-rcore-tutorial-ch1-storage/src/main.rs` |
| trap:n | `tg-rcore-tutorial-clock/src/arch/riscv64/trap.rs` |
| uart:n | `tg-rcore-uart-workspace/tg-rcore-tutorial-uart/src/lib.rs` |

## 1. The system

The repository holds five small, independent programs and the libraries they use.

| Component | Source | State | Operations | What makes it correct |
|---|---|---|---|---|
| Experiment loop | lab:577-830, `run_experiment`, `switch_context` | tasks (`RuntimeTask`), `running`, `run_start`, `now`, the switch log, latency samples, the starvation count | one tick: wake, arrive, dispatch, account, run, settle, test for the end | no task lost, no wake-up missed, CPU never idle with work, every tick booked once, the log and the samples tell what happened |
| `trait Scheduler` | lab:89-97 | none of its own | `enqueue`, `pick_next`, `on_tick`, `on_block`, `on_wakeup`, `ready_len` | the queues hold the ready tasks, each once |
| FCFS, SJF | lab:99-191 | a queue, or a Vec in arbitrary order | the six above | order of readiness; least remaining CPU time; no preemption |
| RR | lab:193-266 | a queue, its own `running` and `used_slice` | the six above | each run at most one quantum, bounded waits |
| MLFQ | lab:268-391 | four queues, levels, `next_boost_at`, `running`, `used_slice` | the six above, `boost_all` | levels match queues, quantum of the level, the boost bounds waits |
| CFS-like | lab:393-519 | a Vec, virtual runtimes (f64), `running`, `used_slice` | the six above | fair shares, a preempted task yields |
| Report | lab:563-571, 804-830 | a function of the final state | `percentile`, the metrics | totals balance, percentiles have their rank |
| Suites | lab:832-898 | constants | `workload_suite`, `scheduler_suite` | every experiment completes |
| Table and CSV export | lab:900-1006 | files | formatting, one write each | not modelled: output only |
| virtio-blk driver | blk:142-371 | `DRIVER_STATE`, the virtqueue in memory; the device at the other end | `init`, `read_sector`, `write_sector` | an Ok means what it says, indices stay in step, the device works on nothing but the call in progress, calls return |
| Storage demo kernel | demo:37-174 | sector buffers | read, write, verify, restore | the disk ends as it was |
| Clock kernel | trap:14-62, `main.rs`, `boot.s` | trap CSRs, the timer | `init_timer`, `trap_handler` | the clock ticks |
| UART driver, demo | uart:17-57, `tg-rcore-tutorial-ch1-uart` | the transmitter's registers | `uart_init`, `uart_putc`, `uart_puts` | bytes in order, none overwritten, all of them out |
| CLINT access | `arch/riscv64/clint.rs` | none | none called | not modelled: dead code |
| ch1 hello kernel | `tg-rcore-tutorial-ch1` | none | prints and shuts down | not modelled: no state |
| Build scripts | `build.rs`, linker scripts, `.ps1` | none | build-time configuration | not modelled |

**Scheduler lab.** The loop and the policy interact by calls, and each knows only part:
the policy is never told that a task finished, keeps its own idea of the running task
and of its slice, and is asked `on_tick` before the loop knows whether the task finishes
or blocks at the end of the same tick. The loop in turn never looks into the queues.
Nothing in the lab is concurrent: what is hard is the *order* of steps within a tick,
values computed for the tick that is ending or the one that begins, duplicated state
that must agree, and long call sequences against the queues.

**Storage.** Driver and device are concurrent and share memory: two rings with wrapping
indices, descriptors, and a header, a status byte and a buffer on the stacks of the
callers. Stores reach the device in any order the fences leave open. `init` may fail
half way and be called again. Above it, the demo kernel overwrites a sector and restores
it, over a disk that may fail or lie, on a machine that may stop.

**Clock and UART.** An interrupt handler that is an ordinary function, against a timer
the previous boot stage may have left pending; a polling loop against a transmitter of
any speed.

`PROJECT.json` lists the hazards at their lines, each with the properties that would
catch it.

## 2. Modules

```
VecOps                      swap_remove, "no task twice"
AnyScheduler                the contract: what the loop may rely on
FcfsScheduler SjfScheduler RrScheduler MlfqScheduler CfsLikeScheduler
        \___________________|____________________/
Schedulers                  `dyn Scheduler`: dispatch on the policy's name
Experiment                  run_experiment: the state machine
ExperimentProps             its properties
ExperimentReport            the metrics        ExperimentContract   refinement
MCExperiment                small workloads    MCSuite              main()'s own
SchedulerProofs -> ExperimentProofs -> LoopProofs       under any policy
                                   \-> PolicyProofs     of each policy

BlockStore                  what read_sector and write_sector promise
VirtioBlk  VirtioBlkProps   driver, memory and device, refining BlockStore
VirtioBlkProofs             MCVirtioBlk
StorageDemo                 the demo kernel, composed with BlockStore
StorageDemoProofs           MCStorageDemo
ClockKernel                 ClockProofs
Uart   MCUart               UartProofs
```

**Policies.** A policy is a record with the fields of its struct. Each operation is an
operator from the old state to the new one; `pick_next` and `on_tick` return the *set*
of their possible answers, which has one element except where the code leaves the answer
open (below) and in `AnyScheduler`. Vec and VecDeque are sequences. `mlfq_level` and
`vruntime`, fields of `RuntimeTask` that only one policy reads or writes, live in that
policy's record. The linear scans of SJF and CFS-like are the set of the indices they
may stop with (least key, first such index), and `swap_remove` is modelled with the
disorder it leaves, because later ties are decided by it.

**f64 in CFS-like.** Virtual runtimes are sums of 0.85, 1.0 and 1.15; they are kept in
exact units of 0.05. Different exact values compare the same in f64: the rounding error
of a sum of 500 000 terms is far below 0.05. Equal exact values may compare either way,
unless they are the same sum (both zero, or of one class). Such comparisons, also the
one with the margin of 0.5, are nondeterministic, so what is shown holds however
rounding decides.

**Experiment.** `step` is the place in the loop body and `action` the answer of
`on_tick` between lab:712 and lab:777. One action per branch:

| Place | Source | Actions |
|---|---|---|
| `wake` | Step 1, lab:645-658 | `Wake(t)` for the least task due, `WakesDone` |
| `arrive` | Step 2, lab:660-672 | `Arrive(t)`, `ArrivalsDone` |
| `pick` | Step 3, lab:674-690 | `KeepRunning`, `Dispatch`, `StayIdle` |
| `account` | Step 4, lab:692-706 | `Account` |
| `tick` | Step 5, lab:708-720 | `NoTask`, `Tick` |
| `settle` | 5.1-5.4, lab:722-792 | `Finish`, `Block`, `Preempt`, `Continue` |
| `end` | Step 6, lab:794-802 | `NextTick`, `Break` |

The code collects the tasks due into a Vec before it handles them in order of their ids;
the model recomputes the set and takes its least member, which is the same because
handling one task changes no other and neither `now`. `switch_context` is the operator
`SwitchContext` (log entry, running task, latency sample) with `StartRunning` (its
effect on the task it starts); its early return for an unchanged task is kept. Integers
are mathematical: each of the code's counters is bounded by `max_ticks` times the number
of tasks, far below 2^64; `saturating_sub` is modelled as such (`Monus`).

**The contract.** `AnyScheduler` keeps a set and may pick any member of it and preempt
at any tick. `ExperimentContract` states that the loop under each concrete policy
refines the loop under this one, with ReadyTasks(sched) as the refinement mapping: the
policies differ only in choices the contract leaves open.

**BlockStore and VirtioBlk.** `BlockStore` has a disk, the request in progress and its
outcome: a call begins, the store serves it (a read answers the block stored; a write
replaces it; an IoError leaves the disk or replaces it), the call returns. `VirtioBlk`
implements it, with `call <- req` and an `outcome` read off the frame the descriptors
lead to.

| Driver | Source | Actions |
|---|---|---|
| `init` | blk:190-267 | `InitAgain`, `InitNoDevice`, `InitRejected`, `InitQueue`: one action per group of early returns, with what has been written by then |
| prepare | blk:269-328 | `Refuse`; `Describe` (header, status 0xff, three descriptors), `ReleaseFence` |
| publish | blk:330-340 | `Publish` (ring entry and `avail.idx`), `Notify` |
| wait | blk:342-356 | `Poll`, `Take` (second load of `used.idx`, used element, interrupt) |
| return | blk:358-369 | `Finish` |

`pending` is the set of stores that are not visible yet: "chain" from `Describe`, "ring"
and "idx" from `Publish`. `Drain` makes any one of them visible at any time;
`ReleaseFence` waits until all are, and so does `Poll` (its loads come behind
fence(SeqCst)). `Notify` is an MMIO store, and fence(SeqCst) compiles to `fence rw, rw`,
which says nothing about MMIO. The constant `FenceOrdersIo` is the platform's answer. It
is TRUE in the run; with FALSE, the notification may overtake `avail.idx`, the device
finds nothing, sleeps, and the driver polls for ever: `CallsReturn` fails, and only it.
Safety is proved for either value. The device (external) may look at the queue without
having been notified, serves or fails what it fetched, a failed write having reached the
disk or not, and writes a used element with an id from `UsedIds`: {0} if it conforms.

No fence stands between the ring entry and `avail.idx` (blk:333-337), so the device may
read an entry before it is written. This is harmless only because every entry ever
written is 0 and the queue memory is zero at boot, which is part of the inductive
invariant (`RingZero`). A second descriptor chain would need the fence.

**StorageDemo.** `rust_main` step by step over `BlockStore`: it EXTENDS it and drives
`Begin`, `Serve` and `Return`. `Lying` lets a write report Ok and store something else.
`PowerOff` may strike anywhere; only the disk survives it. `first` and `undisturbed` are
history variables.

**Report.** The metrics are operators on the final state. `Sorted` is
`sort_unstable` by what it does: the k-th smallest sample in place k. MCExperiment
assumes, and TLC evaluates, that it is TLC's SortSeq on all short sequences.

**ClockKernel.** `pc` walks through `kernel_main`, `init_timer` and the handler; a trap
sends it to `stvec` and clears SIE. The handler returns with `ret`: to wherever ra
points (`ReturnsTo`), with SIE still clear. `rdtime` works or traps, by what the stage
before allowed.

**Uart.** Holding register and shift register, `Load` and `Shift` at any speed. A write
to a full holding register replaces its byte. `Bytes` is what may go over the line; the
texts are sequences of them.

## 3. Properties

| Property | States | Run |
|---|---|---|
| `TypeOK` | types; each policy is in one of its own states, no task queued twice | small |
| `ReadyQueueExact` | queues = tasks in state Ready; `ready_len` = their number | small |
| `NoMissedWakeup` | every blocked task has its wake-up ahead (Step 1 tests for equality) | small |
| `WorkConserving` | the CPU is idle only if nobody is ready and nobody has arrived unseen | small |
| `TimeAccounting` | at all times: life = CPU + waiting + I/O time, for each task | small, contract |
| `SwitchLogTellsRun` | log entries chain without gaps; logged fragments add up to the CPU time used | small |
| `LoggedReadyLenExact` | `ready_len` of a new entry counts the tasks the switch leaves ready | small |
| `LatenciesAreWaits` | the latency samples add up to the waiting time of interactive tasks | small |
| `StarvationCountExact` | each long wait is counted once, and marked while it lasts | small |
| `ReportBalances`, `PercentilesHaveRank` | the report agrees with the run | small |
| `AllComplete` | the experiment ends with every task done (liveness) | small, contract, suite, suite_cfs |
| `PolicyTracksRun` | the policy's private `running` and `used_slice` are right at each tick | sharing |
| `PreemptionJustified` | FCFS and SJF never preempt; RR, MLFQ after exactly the quantum; CFS-like not before `min_granularity` | sharing |
| `FifoByReadiness` | FCFS and RR queues are in order of readiness | sharing |
| `RrBoundedWait` | a wait is at most (tasks - 1) quantums | sharing, suite |
| `MlfqLevelsMatch` | a queued task's level is its queue's; nobody runs beyond its level's quantum | sharing |
| `MlfqBoundedWait` | a wait is at most boost interval + lowest quantum + (tasks - 1) top quantums | sharing, suite |
| `CfsFairShare` | CPU-bound tasks differ in virtual runtime by at most one longest slice | sharing |
| `CfsPreemptionYields` | the preempted task is not the one picked next | sharing, suite_cfs |
| `ImplementsContract` | refinement of the loop under the contract | sharing |
| `CutOffExact` | the loop ends with all done, or at the tick limit exactly | cut_off |
| `TypeOK` (VirtioBlkProps) | types; indices below the width | virtio |
| `IndicesAgree` | the four indices in order, at most one apart modulo the width, equal outside the wait | virtio |
| `ServesTheCallInProgress` | the device works only on the complete request of the call in progress | virtio |
| `ReadsOwnUsedElem` | the used element taken is the one written for this call | virtio |
| `ImplementsStore` | driver, memory and device refine BlockStore | virtio |
| `CallsReturn` | every call returns (liveness) | virtio |
| `KeepsTheDisk` | if all went well at every boot, the disk at rest is the first one | demo |
| `PassMeansStored` | behind "verify: pass" the pattern is on the disk until the restoring write | demo |
| `NothingLost` | line, shift and holding register are a prefix of what should be seen | uart |
| `AllPrinted` | everything gets out (liveness) | uart |
| `OneTickPerEnable` | at most one "T" after SIE was set | clock |
| `FirstTick` | the first "T" comes if rdtime works (liveness) | clock |

`PROJECT.json` names for each a mutation of the modelled code that breaks it. The bound
of `RrBoundedWait` and that of `CfsFairShare` are attained in the runs. That of
`MlfqBoundedWait` is safe but not tight: the worst wait found lies above the boost
interval and below interval + tasks - 1.

## 4. Runs

| Run | Instance | Why it is enough |
|---|---|---|
| `small` | five policies, every sequence of 0-3 tasks from a palette of 8, threshold 2, quantums 1/2/2/3, boost every 5 ticks | the palette has every class, late arrivals, `total_cpu` = 0, `io_every` = Some(0), I/O that takes no time, CPU time that is a multiple of `io_every`; three tasks give every pairwise overlap with a third in the queue |
| `sharing` | five policies, 2-4 tasks of 9-14 CPU ticks, quantum 3, boost every 7, slice 6, granularity 2 | long enough to reach the lowest level, to pass several boosts and equal virtual runtimes; four ready tasks shrink the CFS slice to its minimum |
| `contract` | the policy "Any", 0-3 short tasks | every choice of every tick, so tasks are kept few and short |
| `cut_off` | pairs of the small palette, 7 ticks | the limit falls while tasks are new, ready, running, blocked and done |
| `suite` | `main()`'s three workloads and the constructors' parameters, FCFS, SJF, RR, MLFQ | the very experiments the program runs |
| `suite_cfs` | its CPU-bound and IO-bound workloads under CFS-like | as above |
| `virtio` | one sector and one beyond the end, two blocks, indices modulo 6, QUEUE_SIZE 4, QUEUE_NUM_MAX 0, 2, 3, 5 or 6, three buses, ids {0, 1} | 6 indices under rings of 3 and 4 entries: every wrap of a ring within and across the wrap of the indices, and 4 does not divide 6 as 3, 5, 6, 7 do not divide 2^16; 6 % 6 = 0 is the cast of 65536 to u16; every early return of init; calls are unbounded in number (620 856 states) |
| `demo` | disks of 1 and 2 sectors, three blocks, `Lying` | one boot after another without bound; a disk too small for the demo, a neighbour sector, a block that is neither pattern nor original |
| `uart` | four texts, one empty, one with a newline inside | two consecutive bytes, CR behind LF, end and start of texts against every speed of the transmitter |
| `clock` | timer off or due at boot, rdtime allowed or not, every place ra may point to | all the kernel has; nothing is bounded |
| `throughput`, `starvation` | small | expected to be violated: see section 7 |

`suite` leaves out CFS-like on the mixed workload: its classes differ, the ties that
rounding may decide either way multiply over 600 ticks, and the switch log keeps the
branches apart. `sharing` covers mixed classes under CFS-like on shorter tasks.

`MaxTicks` is the code's own tick limit. In `cut_off` and `throughput` it ends the
experiments; in the others it lies beyond their ends, which `AllComplete` confirms where
it is checked. There is no other bound: the state spaces are finite because the
workloads are; in `virtio` they are because the indices are taken modulo `IdxSize`, as
u16 are modulo 65536. Deadlock checking is on except in `uart` and `clock`, whose
kernels end in a halted hart; a finished experiment stutters (`Terminated`), driver and
demo go on for ever. Symmetry is not used: the scans go by task id, so tasks are not
interchangeable, and it is unsound for liveness.

**Fairness.** In the lab WF_vars(Next): the loop is one thread of straight-line code
that waits for nothing. `AllComplete` alone uses it. In `virtio` the hart runs (WF of
the driver's steps), stores drain, and the device goes on with what it was *notified* of
(`FetchNotified`), answers it and completes it; it need not look at the queue unasked,
no caller is obliged to call, interrupts need not come. In `uart` the hart runs and the
transmitter sends; in `clock` the hart runs, an armed timer expires and an enabled,
pending interrupt is taken, which is what the ISA promises.

## 5. Theorems

TLAPS checks all of the following, without unproved leaves. Assumptions on constants:
`None` is none of the values it stands beside, parameters are numbers, workloads are
well formed, the tick limit is positive, the index width exceeds the ring size. They are
named and TLC evaluates them in the runs; `SortedAgrees` of MCExperiment is used by no
proof.

**Experiment loop** (`ExperimentProofs`, `LoopProofs`): for every workload (any finite
set of task ids, any arrival, CPU and I/O times), each of the five policies and the
contract policy, all policy parameters in Nat and every positive tick limit.

| Theorem | Statement |
|---|---|
| `TypeCorrect` | Spec => []TypeOK |
| `QueuesExact` | Spec => []ReadyQueueExact |
| `OneRunner` | Spec => []SingleRunner: the Running task is the local `running` |
| `WakeupsKept` | Spec => []NoMissedWakeup |
| `NeverIdleWithWork` | Spec => []WorkConserving |
| `StopsInTime` | Spec => []CutOffExact |
| `LogTellsReadyLen` | Spec => LoggedReadyLenExact |
| `WaitsKnown` | Spec => []SinceKnown: a ready task knows since when |
| `BooksKept`, `TimeAccounted` | Spec => []Books, []TimeAccounting |
| `Refinement` | Spec => ImplementsContract |
| `LatenciesTold` | Spec => []LatenciesAreWaits |
| `StarvationCounted` | Spec => []StarvationCountExact |
| `RunTold` | Spec => []SwitchLogTellsRun |
| `ReportAddsUp` | Spec => []ReportBalances |
| `PercentilesRanked` | Spec => []PercentilesHaveRank |

The argument has three layers.

1. `SchedulerProofs` first shows that push_back, pop_front, swap_remove and draining one
   queue into another keep a Vec free of duplicates, and what they do to the set of its
   members.
2. It then has one contract lemma per operation of the trait, by cases on the policy.
   `EnqueueContract` and `WakeupContract` add the task if it was not there,
   `PickContract` removes the one it answers or holds nothing, `TickContract` and
   `BlockContract` leave the set alone (`BoostContract` for the one operation that moves
   every queue), `ReadyLenContract` counts it.
3. `ExperimentProofs`: the inductive invariant `IInv`, preserved by each action using
   only the contract lemmas. A new policy needs its cases in layer 2 and nothing else.

None of the properties but the type invariant is inductive alone. A task may be queued
only if it is not queued already: that takes `ReadyAgree` (queues = Ready tasks) and,
for a preempted task, `SingleRunner` (it was Running, so not Ready), which needs
`SettleHasTask` (the branches of 5.1-5.4 have a task). `WorkConserving` needs
`ArrivalsSeen`, which has to survive the whole tick, and `IdleJustified`, which rests on
pick_next answering None only when it holds nothing. `CutOffExact` needs that the clock
is below the limit wherever the loop is.

`LoopProofs` builds on this.

* *Time.* `TimeAccounting` needs more of each task (`Progress`): it does not arrive
  before the tick that sees it, has CPU time left until it is done, and issues I/O after
  *exactly* io_every ticks (run_since_io never passes it), so that the number of
  operations can be read off the CPU time.
* *Refinement.* Each step of the loop is the same step of the loop under the contract:
  the contract lemmas say that every answer of a policy is one the contract allows.
* *Samples and starvation.* `Pending` is the waiting in progress of each task. A
  dispatch moves it into the samples and an accounting step adds one to it and to the
  waiting time, so the sums stay equal. The marks that are taken off at a dispatch are
  exactly the samples beyond threshold + 1.
* *The switch log.* The invariant `LogInv`: the last entry names the running task and
  the start of its run (`LastSwitch`), consecutive entries follow each other (`Chain`),
  logged fragments and the current run are the CPU time (`RunLogged`). That an idle gap
  follows only an empty ready queue is not inductive: `GapSeen` says that behind an
  entry that saw ready tasks no time has passed and one is still there, and it takes
  `IdleJustified` and the exactness of `ready_len`.
* *The report.* `Closing`: switches in and out alternate, no task is done in the future,
  and if all are done, the last switch is the end of the last of them.
* *Percentiles.* The least v that enough samples do not exceed is a sample, so every
  place of `Sorted` is filled (`SortedRank`), in order and with the multiplicities of
  the data (`SortedCopy`); the rest is rounding (`IndexFacts`).

Sums over sets and FlattenSeq are recursive functions of the libraries. What they
compute is not proved by the induction theorems, which take an operator, but at the
least counterexample, which a well-founded relation (`WFMin`, a statement about sets)
provides.

**Policies** (`PolicyProofs`): as above, under assumptions on the parameters that the
constructors (lab:894-896, 198-214, 272-291, 397-414) satisfy and that each theorem
names.

* `Positive`: quanta are above 0 (4 and 2/4/8/16; a quantum of 0 acts as 1, and the
  statements would be off by that).
* `Rising`: the boost interval is above 0 and the lowest level has the longest quantum.
* `Sliced`: the longest slice of CFS-like is at least 2 ticks (it is 6). With slices of
  one tick, a task ahead by less than the margin of 0.5 runs beyond its slice.

| Theorem | Assumes | Statement |
|---|---|---|
| `TracksTheRun` | Positive | Spec => []PolicyTracksRun |
| `LevelsMatch` | Positive | Spec => []MlfqLevelsMatch |
| `Preemptions` | Positive | Spec => PreemptionJustified |
| `ServedInOrder` | | Spec => []FifoByReadiness |
| `RrWaitsBounded` | Positive | Spec => []RrBoundedWait |
| `MlfqWaitsBounded` | Positive, Rising | Spec => []MlfqBoundedWait |
| `PreemptionYields` | Positive | Spec => CfsPreemptionYields |
| `FairShare` | Positive, Sliced | Spec => []CfsFairShare |

The invariant `InStep` says that outside a decided preemption the policy's `running` and
`used_slice` are the loop's, and below the quantum, and that queues and levels match. It
survives a finished task because every dispatch overwrites both fields. The boost in the
middle of on_tick keeps the level of the running task because that task is in no queue,
which is `ReadyAgree`.

The waits: under RR the tasks ahead in the queue, which is in order of readiness, and
the rest of the running slice bound what is left of a wait; each turn costs one quantum
and takes one task from ahead. Under MLFQ a ready task is `Fresh` (the next boost comes
in time) or has been boosted to level 0, where later arrivals of the same level queue
behind it and only the tasks ahead can run, for a quantum of level 0 each.

The shares: `Yields` says that a preemption is decided only over a ready task of clearly
less vruntime, and that there is one until the next dispatch, so that no tie decides.
`Shares` carries the bound on the drift of any two CPU-bound tasks (`Drift`) with the
lead of the running one (`Lead`): it was behind at its dispatch, so it leads by no more
than it has used. `FromTheStart` says why tasks that share from the start have no other
vruntime than what they ran.

**virtio-blk** (`VirtioBlkProofs`): for every width of the indices, ring size, bus,
disk, set of used ids, and both values of `FenceOrdersIo`.

| Theorem | Statement |
|---|---|
| `TypeCorrect`, `Agree` | Spec => []TypeOK, []IndicesAgree |
| `ServesCall`, `OwnUsedElem` | Spec => []ServesTheCallInProgress, []ReadsOwnUsedElem |
| `Refinement` | Spec => ImplementsStore |

The inductive invariant says, for each place of the driver, how far the request can have
come: `Unseen`, `Posted`, `InWork` or `Answered` (`Indices`), which stores may be
pending (`Stores`), that the ring is all zeros (`RingZero`), and what the frame holds
before and after the device has served it (`FrameOfCall`). Together with `SetUp` (no
queue is touched before init succeeds, so a retry finds all indices at 0) they give each
property, and each step maps to one step of `BlockStore` or to none.

**Demo kernel** (`StorageDemoProofs`): for every disk, pattern and a store that may lie,
`DiskKept` (Spec => []KeepsTheDisk) and `PassIsStored` (Spec => []PassMeansStored).
`Kept` carries the first disk through the four transfers, `Told` says what an Ok under
way means.

**Clock kernel** (`ClockProofs`): for every state of the timer at boot and every place
the handler's `ret` may lead to, `OneTick` (Spec => []OneTickPerEnable) and
`TrapsHandled` (no trap finds stvec unwritten; where rdtime works nothing halts the
kernel). `ClockInv` says that while SIE is set no tick has been counted, and that the
handler runs with SIE clear; only init_timer sets it, and starts the count anew.

**UART** (`UartProofs`): for every sequence of texts over any bytes, `PrintsInOrder`
(Spec => []NothingLost). The invariant `Accounted`: what is on the line and in the two
registers, followed by the carriage return that is due and what the driver still has to
put, are the lines of the texts begun. `Polled` keeps it through the write: past a poll
the holding register is empty, because the transmitter only ever empties it.

**Only model-checked.** The liveness properties, `AllComplete`, `CallsReturn`,
`AllPrinted` and `FirstTick`: fairness and ENABLED are out of the prover's reach. Every
invariant and every action property of the runs that pass is stated by a theorem, for
all values of the constants that the assumptions named above allow.

## 6. Not modelled

* Text output and CSV export (lab:900-1006): formatting, then one write per file.
* Averages and rates as f64: a quotient is kept as numerator and denominator.
* Task names, experiment names and the other labels.
* In the driver, the second reads of DEVICE_ID and MAGIC_VALUE in init
  (`UnexpectedDevice`, `BadMagic`): the registers were tested a few lines before and do
  not change. Calls from two harts at once: DRIVER_STATE is `static mut` and every
  kernel here has one hart and no interrupts during a call.
* In the clock kernel, `put_char`'s own transmitter (it writes without looking and may
  lose bytes), and the alignment of `trap_handler`, which the linker decides (stvec
  needs 4 bytes, compressed code gives 2).
* CLINT access, which nothing calls; the ch1 hello kernel, straight-line output; build,
  linker and run scripts.

## 7. Where code and documents disagree

* `throughput`: lab:823 defines it as completed tasks over total time, lab:824 divides
  the number of *all* tasks. They differ when the tick limit cuts the run off.
* `starvation`: RUN_LOGIC_AND_OUTPUT_ANALYSIS.md:143 defines the count as the number of
  waits over the threshold. lab:700 measures the wait at the start of a tick, so a wait
  of threshold + 1 ticks, recorded as such in the latency sample, is not counted.
  `StarvationCountExact` says what is counted.
* The clock kernel's `test.sh:5` looks for "Hello, world!" in the output; the kernel
  prints "Start", "T" and "E" only. A matter of text, so no run shows it.

No document says how often the clock should tick. What `clock` shows: the handler
programs the next timer but returns with SIE clear, so after SIE has been set there is
one "T", and another only where ra leads back into an inlined init_timer.
