---------------------------- MODULE PolicyProofs ----------------------------
(***************************************************************************)
(* What the policies do, for every workload, every tick limit and every    *)
(* quantum: their own books on the running task and their time slices, and *)
(* how they share the CPU: the order of the queues, the bounds on a wait   *)
(* under RR and MLFQ, whom a preemption under CFS-like yields to, and how  *)
(* far the vruntimes of two tasks may drift apart.                         *)
(***************************************************************************)
EXTENDS ExperimentProofs

(* What the constructors are given; a quantum of 0 would act as 1.         *)
Positive == RrQuantum > 0 /\ \A l \in 0 .. 3 : MlfqQuantums[l] > 0

Elapsed == (IF step \in {"settle", "end"} THEN now + 1 ELSE now) - run_start

(* on_tick asked for the CPU with good reason.                             *)
Justified ==
  /\ sched.name \notin {"FCFS", "SJF"}
  /\ sched.name = "RR" => Elapsed = RrQuantum
  /\ sched.name = "MLFQ" => \E l \in 0 .. 3 :
       /\ Elapsed = MlfqQuantums[l]
       /\ sched.mlfq_level[running] = IF l < 3 THEN l + 1 ELSE l
  /\ sched.name = "CFS-like" => Elapsed >= MinGranularity

(* The policy knows who runs and for how long, and the slice is not used   *)
(* up.                                                                     *)
Tracks ==
  /\ sched.name \in {"RR", "MLFQ", "CFS-like"} =>
       sched.running = running /\ sched.used_slice = Elapsed
  /\ sched.name = "RR" => sched.used_slice < RrQuantum
  /\ sched.name = "MLFQ" => sched.used_slice < MlfqQuantums[sched.mlfq_level[running]]

Follows ==
  running # None /\ step # "done" =>
    IF step = "settle" /\ action = "Preempt" THEN Justified ELSE Tracks

QueuesByLevel(s) ==
  s.name = "MLFQ" => \A l \in 0 .. 3 : \A t \in Range(s.queues[l]) : s.mlfq_level[t] = l

KeepsBooks == {"RR", "MLFQ", "CFS-like"}

-----------------------------------------------------------------------------
(* What the operations do to the policy's books.                           *)
LEMMA NewBooks ==
  ASSUME NEW Ids, NEW name \in PolicyNames
  PROVE  QueuesByLevel(NewScheduler(name, Ids))
<1> DEFINE s == NewScheduler(name, Ids)
<1>1. ASSUME s.name = "MLFQ", NEW l \in 0 .. 3
      PROVE  Range(s.queues[l]) = {}
  <2>1. name = "MLFQ"
    BY <1>1, NewContract
  <2>2. s.queues[l] = << >>
    BY <2>1 DEF NewScheduler, Mlfq!New, Mlfq!Level, Mlfq!NumLevels
  <2> QED
    BY <2>2, EmptyVec
<1> HIDE DEF s
<1>2. QueuesByLevel(s)
  BY <1>1 DEF QueuesByLevel
<1> QED
  BY <1>2 DEF s

(* A queue gains one task of its own level.                                *)
LEMMA PushBooks ==
  ASSUME NEW Ids, NEW s, s.name = "MLFQ", MlfqOK(s, Ids), NEW t \in Ids,
         t \notin ReadyTasks(s), QueuesByLevel(s)
  PROVE  LET new == Mlfq!Enqueue(s, t)
         IN  /\ new.running = s.running /\ new.used_slice = s.used_slice
             /\ new.mlfq_level = s.mlfq_level
             /\ QueuesByLevel(new)
<1> DEFINE l == s.mlfq_level[t]
           q == Append(s.queues[l], t)
           new == Mlfq!Enqueue(s, t)
<1>1. l \in 0 .. 3 /\ s.queues \in [0 .. 3 -> Seq(Ids)]
  BY DEF MlfqOK, Mlfq!Level, Mlfq!NumLevels
<1>2. new = [s EXCEPT !.queues[l] = q]
  <2>1. Mlfq!Enqueue(s, t) = Mlfq!PushLevel(s, t, l)
    BY DEF Mlfq!Enqueue
  <2> HIDE DEF l
  <2>2. l < 4
    BY <1>1
  <2>3. Mlfq!PushLevel(s, t, l) = [s EXCEPT !.queues[l] = Append(@, t)]
    BY <2>2 DEF Mlfq!PushLevel, Mlfq!NumLevels
  <2> QED
    BY <2>1, <2>3
<1>3. Range(q) = Range(s.queues[l]) \cup {t}
  <2>1. t \notin Range(s.queues[l]) /\ IsDuplicateFree(s.queues[l])
    BY <1>1 DEF MlfqOK, ReadyTasks, Mlfq!Level, Mlfq!NumLevels
  <2> HIDE DEF l
  <2> QED
    BY <1>1, <2>1, PushBack
<1>4. s.mlfq_level[t] = l
  OBVIOUS
<1> HIDE DEF l, q, new
<1>5. /\ new.running = s.running /\ new.used_slice = s.used_slice
      /\ new.mlfq_level = s.mlfq_level
      /\ \A k \in 0 .. 3 : new.queues[k] = IF k = l THEN q ELSE s.queues[k]
  BY <1>1, <1>2 DEF MlfqOK
<1>6. ASSUME NEW k \in 0 .. 3, NEW x \in Range(new.queues[k])
      PROVE  new.mlfq_level[x] = k
  <2>1. CASE k = l
    BY <1>3, <1>4, <1>5, <1>6, <2>1 DEF QueuesByLevel
  <2>2. CASE k # l
    BY <1>5, <1>6, <2>2 DEF QueuesByLevel
  <2> QED
    BY <2>1, <2>2
<1> QED
  BY <1>5, <1>6 DEF QueuesByLevel, new

LEMMA EnqueueBooks ==
  ASSUME NEW Ids, NEW s, SchedulerOK(s, Ids), NEW t \in Ids, t \notin ReadyTasks(s),
         QueuesByLevel(s)
  PROVE  LET new == Enqueue(s, t)
         IN  /\ s.name \in KeepsBooks => new.running = s.running
                                         /\ new.used_slice = s.used_slice
             /\ s.name = "MLFQ" => new.mlfq_level = s.mlfq_level
             /\ QueuesByLevel(new)
<1>1. CASE s.name = "MLFQ"
  <2>1. MlfqOK(s, Ids) /\ Enqueue(s, t) = Mlfq!Enqueue(s, t)
    BY <1>1, PolicyCases DEF Enqueue
  <2> QED
    BY <1>1, <2>1, PushBooks
<1>2. CASE s.name # "MLFQ"
  <2>1. QueuesByLevel(Enqueue(s, t))
    BY <1>2, EnqueueContract DEF QueuesByLevel
  <2>2. CASE s.name = "RR"
    BY <2>1, <2>2, PolicyCases DEF Enqueue, Rr!Enqueue, RrOK
  <2>3. CASE s.name = "CFS-like"
    BY <2>1, <2>3, PolicyCases DEF Enqueue, Cfs!Enqueue, CfsOK
  <2> QED
    BY <1>2, <2>1, <2>2, <2>3 DEF KeepsBooks
<1> QED
  BY <1>1, <1>2

LEMMA WakeupBooks ==
  ASSUME NEW Ids, NEW s, SchedulerOK(s, Ids), NEW t \in Ids, t \notin ReadyTasks(s),
         QueuesByLevel(s)
  PROVE  LET new == OnWakeup(s, t)
         IN  /\ s.name \in KeepsBooks => new.running = s.running
                                         /\ new.used_slice = s.used_slice
             /\ s.name = "MLFQ" =>
                  \A x \in Ids : x # t => new.mlfq_level[x] = s.mlfq_level[x]
             /\ QueuesByLevel(new)
<1>1. CASE s.name # "MLFQ"
  <2>1. OnWakeup(s, t) = Enqueue(s, t)
    BY <1>1, PolicyCases DEF OnWakeup, Enqueue, Contract!OnWakeup, Fcfs!OnWakeup,
       Sjf!OnWakeup, Rr!OnWakeup, Cfs!OnWakeup
  <2> QED
    BY <1>1, <2>1, EnqueueBooks
<1>2. CASE s.name = "MLFQ"
  <2> DEFINE level == IF s.mlfq_level[t] > 0 THEN s.mlfq_level[t] - 1 ELSE s.mlfq_level[t]
             promoted == [s EXCEPT !.mlfq_level[t] = level]
  <2>1. MlfqOK(s, Ids) /\ level \in Mlfq!Level
    <3>1. MlfqOK(s, Ids)
      BY <1>2, PolicyCases
    <3> QED
      BY <3>1 DEF MlfqOK, Mlfq!Level, Mlfq!NumLevels
  <2>2. OnWakeup(s, t) = Mlfq!Enqueue(promoted, t)
    BY <1>2 DEF OnWakeup, Mlfq!OnWakeup
  <2> HIDE DEF level
  <2>3. /\ MlfqOK(promoted, Ids) /\ promoted.name = "MLFQ"
        /\ promoted.queues = s.queues /\ promoted.running = s.running
        /\ promoted.used_slice = s.used_slice
        /\ \A x \in Ids : x # t => promoted.mlfq_level[x] = s.mlfq_level[x]
    BY <2>1 DEF MlfqOK
  <2> HIDE DEF promoted
  <2>4. ReadyTasks(promoted) = ReadyTasks(s)
    BY <1>2, <2>3 DEF ReadyTasks
  <2>5. QueuesByLevel(promoted)
    <3> SUFFICES ASSUME NEW l \in 0 .. 3, NEW x \in Range(s.queues[l])
                 PROVE  promoted.mlfq_level[x] = l
      BY <2>3 DEF QueuesByLevel
    <3>1. x # t /\ x \in Ids
      <4>1. x \in ReadyTasks(s)
        BY <1>2 DEF ReadyTasks, Mlfq!Level, Mlfq!NumLevels
      <4>2. s.queues[l] \in Seq(Ids)
        BY <2>1 DEF MlfqOK, Mlfq!Level, Mlfq!NumLevels
      <4> QED
        BY <4>1, <4>2, RangeInTask
    <3> QED
      BY <1>2, <2>3, <3>1 DEF QueuesByLevel
  <2> QED
    BY <1>2, <2>2, <2>3, <2>4, <2>5, PushBooks
<1> QED
  BY <1>1, <1>2

(* The picked task is the one the policy takes to be running, with a fresh *)
(* slice.                                                                  *)
LEMMA PickBooks ==
  ASSUME NEW Ids, NEW s, SchedulerOK(s, Ids), NEW cpu, NEW class,
         NEW o \in PickNext(s, cpu, class), QueuesByLevel(s)
  PROVE  /\ o.next # None /\ s.name \in KeepsBooks =>
              o.sched.running = o.next /\ o.sched.used_slice = 0
         /\ QueuesByLevel(o.sched)
<1>1. CASE s.name \notin {"RR", "MLFQ", "CFS-like"}
  BY <1>1, PickContract DEF QueuesByLevel, KeepsBooks
<1>2. CASE s.name = "RR"
  <2>1. QueuesByLevel(o.sched)
    BY <1>2, PickContract DEF QueuesByLevel
  <2>2. o.next # None => o.sched.running = o.next /\ o.sched.used_slice = 0
    <3>1. RrOK(s, Ids) /\ o \in Rr!PickNext(s)
      BY <1>2, PolicyCases DEF PickNext
    <3>2. CASE s.queue = << >>
      BY <3>1, <3>2 DEF Rr!PickNext
    <3>3. CASE s.queue # << >>
      <4> DEFINE first == Head(s.queue)
                 rest == Tail(s.queue)
      <4>1. o = [next |-> first, sched |-> [s EXCEPT !.queue = rest, !.running = first,
                                                     !.used_slice = 0]]
        BY <3>1, <3>3 DEF Rr!PickNext
      <4> HIDE DEF first, rest
      <4> QED
        BY <3>1, <4>1 DEF RrOK
    <3> QED
      BY <3>2, <3>3
  <2> QED
    BY <2>1, <2>2
<1>3. CASE s.name = "CFS-like"
  <2>1. QueuesByLevel(o.sched)
    BY <1>3, PickContract DEF QueuesByLevel
  <2>2. o.next # None => o.sched.running = o.next /\ o.sched.used_slice = 0
    <3>1. CfsOK(s, Ids) /\ o \in Cfs!PickNext(s, class)
      BY <1>3, PolicyCases DEF PickNext
    <3>2. CASE s.ready = << >>
      BY <3>1, <3>2 DEF Cfs!PickNext
    <3>3. CASE s.ready # << >>
      <4>1. PICK i \in Cfs!BestIndices(s, class) :
              o = [next |-> s.ready[i],
                   sched |-> [s EXCEPT !.ready = Cfs!SwapRemove(s.ready, i),
                                       !.running = s.ready[i], !.used_slice = 0]]
        BY <3>1, <3>3 DEF Cfs!PickNext
      <4> DEFINE first == s.ready[i]
                 rest == Cfs!SwapRemove(s.ready, i)
      <4>2. o = [next |-> first, sched |-> [s EXCEPT !.ready = rest, !.running = first,
                                                     !.used_slice = 0]]
        BY <4>1
      <4> HIDE DEF first, rest
      <4> QED
        BY <3>1, <4>2 DEF CfsOK
    <3> QED
      BY <3>2, <3>3
  <2> QED
    BY <2>1, <2>2
<1>4. CASE s.name = "MLFQ"
  <2>0. MlfqOK(s, Ids) /\ o \in Mlfq!PickNext(s)
    BY <1>4, PolicyCases DEF PickNext
  <2>1. CASE Mlfq!TopLevels(s) = {}
    <3>1. o = [next |-> None, sched |-> [s EXCEPT !.running = None]]
      BY <2>0, <2>1 DEF Mlfq!PickNext
    <3>2. o.sched.queues = s.queues /\ o.sched.mlfq_level = s.mlfq_level
      BY <2>0, <3>1 DEF MlfqOK
    <3> QED
      BY <1>4, <3>1, <3>2 DEF QueuesByLevel
  <2>2. CASE Mlfq!TopLevels(s) # {}
    <3>1. PICK l \in Mlfq!TopLevels(s) :
            o = [next |-> Head(s.queues[l]),
                 sched |-> [s EXCEPT !.queues[l] = Tail(@),
                             !.mlfq_level[Head(s.queues[l])] = l,
                             !.running = Head(s.queues[l]),
                             !.used_slice = 0]]
      BY <2>0, <2>2 DEF Mlfq!PickNext
    <3> DEFINE t == Head(s.queues[l])
               rest == Tail(s.queues[l])
    <3>2. l \in 0 .. 3 /\ s.queues[l] # << >> /\ s.queues \in [0 .. 3 -> Seq(Ids)]
          /\ IsDuplicateFree(s.queues[l])
      BY <2>0 DEF Mlfq!TopLevels, MlfqOK, Mlfq!Level, Mlfq!NumLevels
    <3>3. t \in Range(s.queues[l]) /\ Range(rest) = Range(s.queues[l]) \ {t}
      BY <3>2, PopFront
    <3>4. t \in Ids
      BY <3>2, <3>3, RangeInTask
    <3>5. o.next = t /\ o.sched = [s EXCEPT !.queues[l] = rest, !.mlfq_level[t] = l,
                                           !.running = t, !.used_slice = 0]
      BY <3>1
    <3> HIDE DEF t, rest
    <3>6. /\ o.sched.running = t /\ o.sched.used_slice = 0
          /\ \A k \in 0 .. 3 : o.sched.queues[k] = IF k = l THEN rest ELSE s.queues[k]
          /\ \A x : x # t => o.sched.mlfq_level[x] = s.mlfq_level[x]
      BY <2>0, <3>2, <3>4, <3>5 DEF MlfqOK
    <3>7. ASSUME NEW k \in 0 .. 3, NEW x \in Range(o.sched.queues[k])
          PROVE  o.sched.mlfq_level[x] = k
      <4>1. x \in Range(s.queues[k])
        BY <3>3, <3>6, <3>7
      <4>2. s.mlfq_level[x] = k
        BY <1>4, <4>1 DEF QueuesByLevel
      <4>3. x # t
        <5>1. CASE k = l
          BY <3>3, <3>6, <3>7, <5>1
        <5>2. CASE k # l
          BY <1>4, <3>2, <3>3, <4>2, <5>2 DEF QueuesByLevel
        <5> QED
          BY <5>1, <5>2
      <4> QED
        BY <3>6, <4>2, <4>3
    <3> QED
      BY <3>5, <3>6, <3>7 DEF QueuesByLevel
  <2> QED
    BY <2>1, <2>2
<1> QED
  BY <1>1, <1>2, <1>3, <1>4

LEMMA BlockBooks ==
  ASSUME NEW Ids, NEW s, SchedulerOK(s, Ids), NEW t \in Ids, QueuesByLevel(s)
  PROVE  QueuesByLevel(OnBlock(s, t))
<1>1. CASE s.name # "MLFQ"
  BY <1>1, BlockContract DEF QueuesByLevel
<1>2. CASE s.name = "MLFQ"
  <2> DEFINE new == OnBlock(s, t)
  <2>1. MlfqOK(s, Ids) /\ new \in {s, [s EXCEPT !.running = None, !.used_slice = 0]}
    BY <1>2, PolicyCases DEF OnBlock, Mlfq!OnBlock
  <2>2. new.queues = s.queues /\ new.mlfq_level = s.mlfq_level
    BY <2>1 DEF MlfqOK
  <2> HIDE DEF new
  <2>3. QueuesByLevel(new)
    BY <1>2, <2>2 DEF QueuesByLevel
  <2> QED
    BY <2>3 DEF new
<1> QED
  BY <1>1, <1>2

(* The boost moves no task that is not queued.                             *)
LEMMA BoostBooks ==
  ASSUME NEW Ids, NEW s, s.name = "MLFQ", MlfqOK(s, Ids), NEW time \in Nat,
         QueuesByLevel(s)
  PROVE  LET new == Mlfq!Boosted(s, time)
         IN  /\ new.running = s.running /\ new.used_slice = s.used_slice
             /\ \A t \in Ids \ ReadyTasks(s) : new.mlfq_level[t] = s.mlfq_level[t]
             /\ QueuesByLevel(new)
<1> DEFINE all == Mlfq!AllQueued(s)
           queues == [l \in Mlfq!Level |-> IF l = 0 THEN all ELSE << >>]
           levels == [t \in DOMAIN s.mlfq_level |->
                        IF t \in Mlfq!Range(all) THEN 0 ELSE s.mlfq_level[t]]
           new == Mlfq!Boosted(s, time)
<1>1. CASE new = s
  BY <1>1
<1>2. CASE new # s
  <2>1. new = [[s EXCEPT !.queues = queues, !.mlfq_level = levels]
                 EXCEPT !.next_boost_at = time + BoostInterval]
    BY <1>2 DEF Mlfq!Boosted, Mlfq!BoostAll
  <2>2. Mlfq!Range(all) = ReadyTasks(s) /\ DOMAIN s.mlfq_level = Ids
    BY AllQueuedContract DEF MlfqOK, Mlfq!Range, Range
  <2>3. Range(all) = ReadyTasks(s)
    BY AllQueuedContract
  <2> HIDE DEF all, new
  <2>4. \A t \in Ids : levels[t] = IF t \in ReadyTasks(s) THEN 0 ELSE s.mlfq_level[t]
    BY <2>2
  <2>5. \A l \in 0 .. 3 : queues[l] = IF l = 0 THEN all ELSE << >>
    BY DEF Mlfq!Level, Mlfq!NumLevels
  <2> HIDE DEF queues, levels
  <2>6. /\ new.running = s.running /\ new.used_slice = s.used_slice
        /\ new.mlfq_level = levels /\ new.queues = queues
    BY <2>1 DEF MlfqOK
  <2>7. ReadyTasks(s) \subseteq Ids
    BY <2>3, AllQueuedContract, RangeInTask DEF all
  <2>8. ASSUME NEW l \in 0 .. 3, NEW x \in Range(queues[l])
        PROVE  levels[x] = l
    <3>1. CASE l = 0
      BY <2>3, <2>4, <2>5, <2>7, <2>8, <3>1
    <3>2. CASE l # 0
      BY <2>5, <2>8, <3>2, EmptyVec
    <3> QED
      BY <3>1, <3>2
  <2>9. QueuesByLevel(new)
    BY <2>6, <2>8 DEF QueuesByLevel
  <2> QED
    BY <2>4, <2>6, <2>9 DEF new
<1> QED
  BY <1>1, <1>2

(* on_tick of a policy that knows who runs: it counts one more tick, lets  *)
(* the task go on while the slice lasts, and preempts with good reason.    *)
TickResult(s, t, o) ==
  /\ QueuesByLevel(o.sched)
  /\ o.action = "Continue" =>
       /\ s.name \in KeepsBooks =>
            o.sched.running = t /\ o.sched.used_slice = s.used_slice + 1
       /\ s.name = "RR" => o.sched.used_slice < RrQuantum
       /\ s.name = "MLFQ" => o.sched.used_slice < MlfqQuantums[o.sched.mlfq_level[t]]
  /\ o.action = "Preempt" =>
       /\ s.name \notin {"FCFS", "SJF"}
       /\ s.name = "RR" => s.used_slice + 1 = RrQuantum
       /\ s.name = "MLFQ" => \E l \in 0 .. 3 :
            /\ s.used_slice + 1 = MlfqQuantums[l]
            /\ o.sched.mlfq_level[t] = IF l < 3 THEN l + 1 ELSE l
       /\ s.name = "CFS-like" => s.used_slice + 1 >= MinGranularity

LEMMA TickBooks ==
  ASSUME NEW Ids, NEW s, SchedulerOK(s, Ids), NEW t \in Ids, t \notin ReadyTasks(s),
         NEW time \in Nat, NEW class,
         NEW o \in OnTick(s, class, t, time), QueuesByLevel(s),
         s.name \in KeepsBooks => s.running = t,
         s.name = "RR" => s.used_slice < RrQuantum,
         s.name = "MLFQ" => s.used_slice < MlfqQuantums[s.mlfq_level[t]]
  PROVE  TickResult(s, t, o)
<1>1. CASE s.name \in {"Any", "FCFS", "SJF"}
  <2>1. o.sched = s /\ (o.action = "Preempt" => s.name = "Any")
    BY <1>1 DEF OnTick, Contract!OnTick, Fcfs!OnTick, Sjf!OnTick
  <2> QED
    BY <1>1, <2>1 DEF KeepsBooks, TickResult
<1>2. CASE s.name = "RR"
  <2> DEFINE used == s.used_slice + 1
             off == [s EXCEPT !.running = None, !.used_slice = 0]
             on == [s EXCEPT !.running = t, !.used_slice = used]
  <2>1. RrOK(s, Ids) /\ s.running = t /\ RrQuantum \in Nat
    BY <1>2, PolicyCases, PolicyAssumption DEF KeepsBooks
  <2>2. o = IF used >= RrQuantum THEN [action |-> "Preempt", sched |-> off]
                                 ELSE [action |-> "Continue", sched |-> on]
    BY <1>2, <2>1 DEF OnTick, Rr!OnTick
  <2>3. used \in Nat
    BY <2>1 DEF RrOK
  <2>4. on.name = "RR" /\ on.running = t /\ on.used_slice = used /\ off.name = "RR"
    BY <2>1, <2>3 DEF RrOK
  <2> HIDE DEF on, off
  <2>5. QueuesByLevel(o.sched)
    BY <2>2, <2>4 DEF QueuesByLevel
  <2> QED
    BY <1>2, <2>1, <2>2, <2>3, <2>4, <2>5 DEF RrOK, TickResult
<1>3. CASE s.name = "CFS-like"
  <2> DEFINE v == s.vruntime[t] + Cfs!ClassWeight(class[t])
             used == s.used_slice + 1
             on == [s EXCEPT !.vruntime[t] = v, !.running = t, !.used_slice = used]
             off == [on EXCEPT !.running = None, !.used_slice = 0]
  <2>1. CfsOK(s, Ids) /\ s.running = t /\ MinGranularity \in Nat
    BY <1>3, PolicyCases, PolicyAssumption DEF KeepsBooks
  <2>2. o \in Cfs!OnTick(s, class, t)
    BY <1>3 DEF OnTick
  <2>3. \/ o = [action |-> "Continue", sched |-> on]
        \/ o = [action |-> "Preempt", sched |-> off] /\ ~(used < Cfs!DynamicSlice(s))
    BY <2>1, <2>2 DEF Cfs!OnTick
  <2>4. used \in Nat
    BY <2>1 DEF CfsOK
  <2>5. /\ on.name = "CFS-like" /\ on.running = t /\ on.used_slice = used
        /\ off.name = "CFS-like"
    BY <2>1 DEF CfsOK
  <2> HIDE DEF on, off
  <2>6. QueuesByLevel(o.sched)
    BY <2>3, <2>5 DEF QueuesByLevel
  <2>7. ~(used < Cfs!DynamicSlice(s)) => used >= MinGranularity
    <3> DEFINE slice == TargetSlice \div (IF Len(s.ready) > 1 THEN Len(s.ready) ELSE 1)
    <3>1. Cfs!DynamicSlice(s) = IF slice > MinGranularity THEN slice ELSE MinGranularity
      BY DEF Cfs!DynamicSlice
    <3>2. slice \in Int
      <4>1. Len(s.ready) \in Nat
        BY <2>1, LenProperties DEF CfsOK
      <4>2. TargetSlice \in Nat
        BY PolicyAssumption
      <4> QED
        BY <4>1, <4>2
    <3> HIDE DEF slice
    <3> QED
      BY <2>1, <2>4, <3>1, <3>2
  <2> QED
    BY <1>3, <2>3, <2>5, <2>6, <2>7 DEF TickResult
<1>4. CASE s.name = "MLFQ"
  <2> DEFINE b == Mlfq!Boosted(s, time)
             used == s.used_slice + 1
             level == s.mlfq_level[t]
             lower == IF level + 1 < 4 THEN level + 1 ELSE level
             off == [b EXCEPT !.running = None, !.used_slice = 0, !.mlfq_level[t] = lower]
             on == [b EXCEPT !.running = t, !.used_slice = used]
  <2>1. MlfqOK(s, Ids) /\ s.running = t
    BY <1>4, PolicyCases DEF KeepsBooks
  <2>2. /\ MlfqOK(b, Ids) /\ b.name = "MLFQ" /\ ReadyTasks(b) = ReadyTasks(s)
        /\ b.running = t /\ b.used_slice = s.used_slice /\ b.mlfq_level[t] = level
        /\ QueuesByLevel(b)
    BY <1>4, <2>1, BoostContract, BoostBooks
  <2>3. o = IF used >= MlfqQuantums[level] THEN [action |-> "Preempt", sched |-> off]
                                           ELSE [action |-> "Continue", sched |-> on]
    BY <1>4, <2>2 DEF OnTick, Mlfq!OnTick, Mlfq!NumLevels
  <2>4. level \in 0 .. 3 /\ used \in Nat /\ MlfqQuantums[level] \in Nat
    <3>1. s.mlfq_level \in [Ids -> 0 .. 3] /\ s.used_slice \in Nat
      BY <2>1 DEF MlfqOK, Mlfq!Level, Mlfq!NumLevels
    <3>2. level \in 0 .. 3
      BY <3>1
    <3> HIDE DEF level
    <3> QED
      BY <3>1, <3>2, PolicyAssumption
  <2> HIDE DEF b, level
  <2>5. /\ on.name = "MLFQ" /\ on.running = t /\ on.used_slice = used
        /\ on.mlfq_level = b.mlfq_level /\ on.queues = b.queues
    BY <2>2 DEF MlfqOK
  <2>6. /\ off.name = "MLFQ" /\ off.queues = b.queues /\ off.mlfq_level[t] = lower
        /\ \A x \in Ids : x # t => off.mlfq_level[x] = b.mlfq_level[x]
    BY <2>2 DEF MlfqOK
  <2> HIDE DEF on, off
  <2>7. QueuesByLevel(on)
    BY <2>2, <2>5 DEF QueuesByLevel
  <2>8. QueuesByLevel(off)
    <3>1. ASSUME NEW l \in 0 .. 3, NEW x \in Range(b.queues[l])
          PROVE  off.mlfq_level[x] = l
      <4>1. x \in ReadyTasks(b)
        BY <2>2, <3>1 DEF ReadyTasks, Mlfq!Level, Mlfq!NumLevels
      <4>2. b.queues[l] \in Seq(Ids)
        BY <2>2 DEF MlfqOK, Mlfq!Level, Mlfq!NumLevels
      <4>3. x \in Ids /\ x # t
        BY <2>2, <3>1, <4>1, <4>2, RangeInTask
      <4>4. b.mlfq_level[x] = l
        BY <2>2, <3>1 DEF QueuesByLevel
      <4> QED
        BY <2>6, <4>3, <4>4
    <3> QED
      BY <2>6, <3>1 DEF QueuesByLevel
  <2>9. QueuesByLevel(o.sched)
    BY <2>3, <2>7, <2>8
  <2>10. s.used_slice < MlfqQuantums[level] /\ s.used_slice \in Nat
    BY <1>4, <2>1 DEF level, MlfqOK
  <2>11. o.action = "Continue" =>
           o.sched.running = t /\ o.sched.used_slice = used
             /\ used < MlfqQuantums[o.sched.mlfq_level[t]]
    BY <2>2, <2>3, <2>4, <2>5
  <2>12. o.action = "Preempt" =>
           used = MlfqQuantums[level]
             /\ o.sched.mlfq_level[t] = IF level < 3 THEN level + 1 ELSE level
    BY <2>3, <2>4, <2>6, <2>10
  <2> QED
    BY <1>4, <2>4, <2>9, <2>11, <2>12 DEF TickResult
<1> QED
  BY <1>1, <1>2, <1>3, <1>4, PolicyCases

-----------------------------------------------------------------------------
(* The invariant of the loop and the policy's books.                       *)
InStep == Follows /\ QueuesByLevel(sched)

LEMMA InitBooks == Init => InStep
<1> SUFFICES ASSUME Init
             PROVE  InStep
  OBVIOUS
<1>1. PICK name \in SchedulerNames : sched = NewScheduler(name, Task)
  BY DEF Init
<1>2. name \in PolicyNames
  BY ExperimentAssumption
<1>3. QueuesByLevel(sched)
  BY <1>1, <1>2, NewBooks
<1> QED
  BY <1>3 DEF Init, InStep, Follows

(* The step leaves the running task, its start and the policy's books as   *)
(* they are, and the time it has run.                                      *)
LEMMA SameBooks ==
  ASSUME InStep, workload' = workload, running' = running, run_start' = run_start,
         Elapsed' = Elapsed, sched'.name = sched.name,
         sched.name \in KeepsBooks =>
           sched'.running = sched.running /\ sched'.used_slice = sched.used_slice,
         sched.name = "MLFQ" /\ running # None =>
           sched'.mlfq_level[running] = sched.mlfq_level[running],
         QueuesByLevel(sched'), step' # "settle", step # "done",
         step = "settle" => action = "Continue"
  PROVE  InStep'
<1>1. running # None => Tracks
  BY DEF InStep, Follows
<1>2. running # None => Tracks'
  BY <1>1 DEF Tracks, KeepsBooks
<1> QED
  BY <1>2 DEF InStep, Follows, QueuesByLevel

(* The CPU is free, or the loop is left.                                   *)
LEMMA FreeBooks ==
  ASSUME QueuesByLevel(sched'), running' = None \/ step' = "done", step' # "settle"
  PROVE  InStep'
BY DEF InStep, Follows, QueuesByLevel

LEMMA ReadyBooks ==
  ASSUME IInv, InStep, NEW t \in Task, Wake(t) \/ Arrive(t)
  PROVE  InStep'
<1>1. /\ workload' = workload /\ running' = running /\ run_start' = run_start
      /\ now' = now /\ step' = step /\ step \in {"wake", "arrive"}
      /\ sched' \in {OnWakeup(sched, t), Enqueue(sched, t)}
      /\ state[t] \in {"Blocked", "New"}
  BY DEF Wake, Arrive, IsFirst, WakeList, ArrivalList, cpuVars
<1>2. SchedulerOK(sched, Task) /\ QueuesByLevel(sched)
  BY DEF IInv, TypeOK, InStep
<1>3. t \notin ReadyTasks(sched) /\ t # running
  BY <1>1 DEF IInv, ReadyAgree, Ready, SingleRunner, Running
<1>4. sched'.name = sched.name
  BY <1>1, <1>2, <1>3, EnqueueContract, WakeupContract
<1>5. /\ QueuesByLevel(sched')
      /\ sched.name \in KeepsBooks =>
           sched'.running = sched.running /\ sched'.used_slice = sched.used_slice
      /\ sched.name = "MLFQ" =>
           \A x \in Task : x # t => sched'.mlfq_level[x] = sched.mlfq_level[x]
  <2>1. CASE sched' = OnWakeup(sched, t)
    BY <1>2, <1>3, <2>1, WakeupBooks
  <2>2. CASE sched' = Enqueue(sched, t)
    BY <1>2, <1>3, <2>2, EnqueueBooks
  <2> QED
    BY <1>1, <2>1, <2>2
<1>6. running # None => running \in Task
  BY DEF IInv, TypeOK
<1>7. Elapsed' = Elapsed
  BY <1>1 DEF Elapsed
<1> QED
  BY <1>1, <1>3, <1>4, <1>5, <1>6, <1>7, SameBooks

(* The actions that leave the policy alone.                                *)
LEMMA MoveBooks ==
  ASSUME IInv, InStep,
         \/ WakesDone \/ ArrivalsDone \/ KeepRunning \/ Account \/ NoTask \/ Finish
         \/ Continue \/ NextTick \/ Break
  PROVE  InStep'
<1>1. sched' = sched /\ workload' = workload /\ step' # "settle" /\ step # "done"
  BY DEF WakesDone, ArrivalsDone, KeepRunning, Account, NoTask, Finish, Continue,
     NextTick, Break
<1>2. QueuesByLevel(sched')
  BY <1>1 DEF InStep
<1>3. CASE NoTask \/ Break \/ Finish
  <2>1. running' = None \/ step' = "done"
    BY <1>3 DEF NoTask, Break, Finish, SwitchContext, cpuVars
  <2> QED
    BY <1>1, <1>2, <2>1, FreeBooks
<1>4. CASE WakesDone \/ ArrivalsDone \/ KeepRunning \/ Account \/ Continue \/ NextTick
  <2>1. running' = running /\ run_start' = run_start
    BY <1>4 DEF WakesDone, ArrivalsDone, KeepRunning, Account, Continue, NextTick, cpuVars
  <2>2. step = "settle" => action = "Continue"
    BY <1>4 DEF WakesDone, ArrivalsDone, KeepRunning, Account, Continue, NextTick
  <2>3. Elapsed' = Elapsed \/ step' = "done"
    <3>1. CASE WakesDone \/ ArrivalsDone \/ KeepRunning \/ Account
      BY <2>1, <3>1 DEF WakesDone, ArrivalsDone, KeepRunning, Account, Elapsed
    <3>2. CASE Continue \/ NextTick
      BY <2>1, <3>2 DEF Continue, NextTick, Elapsed
    <3> QED
      BY <1>4, <3>1, <3>2
  <2> QED
    BY <1>1, <1>2, <2>1, <2>2, <2>3, SameBooks, FreeBooks
<1> QED
  BY <1>3, <1>4

LEMMA DispatchBooks ==
  ASSUME IInv, InStep, Positive, Dispatch \/ StayIdle
  PROVE  InStep'
<1>1. /\ workload' = workload /\ now' = now /\ step' = "account" /\ running = None
      /\ now \in Nat
  BY DEF Dispatch, StayIdle, IInv, TypeOK
<1>2. SchedulerOK(sched, Task) /\ QueuesByLevel(sched)
  BY DEF IInv, TypeOK, InStep
<1>3. CASE StayIdle
  <2>1. QueuesByLevel(sched')
    BY <1>2, <1>3, PickBooks DEF StayIdle
  <2>2. running' = None
    BY <1>1, <1>3 DEF StayIdle, cpuVars
  <2> QED
    BY <1>1, <2>1, <2>2, FreeBooks
<1>4. CASE Dispatch
  <2>1. PICK o \in PickNext(sched, remaining_cpu, Class) :
          o.next # None /\ sched' = o.sched /\ SwitchContext(o.next, now, ReadyLen(o.sched))
    BY <1>4 DEF Dispatch
  <2>2. running' = o.next /\ run_start' = now
    BY <1>1, <2>1 DEF SwitchContext
  <2>3. /\ SchedulerOK(sched', Task) /\ sched'.name = sched.name
        /\ o.next \in ReadyTasks(sched)
    BY <1>2, <2>1, PickContract
  <2>4. /\ QueuesByLevel(sched')
        /\ sched'.name \in KeepsBooks => sched'.running = running' /\ sched'.used_slice = 0
    BY <1>2, <2>1, <2>2, <2>3, PickBooks
  <2>5. Elapsed' = 0
    BY <1>1, <2>2 DEF Elapsed
  <2>6. running' \in Task
    BY <1>2, <2>2, <2>3, TaskFacts, ReadyLenContract DEF IInv
  <2>7. sched'.name = "MLFQ" => sched'.mlfq_level[running'] \in 0 .. 3
    <3>1. sched'.name = "MLFQ" => MlfqOK(sched', Task)
      BY <2>3, PolicyCases
    <3> QED
      BY <2>6, <3>1 DEF MlfqOK, Mlfq!Level, Mlfq!NumLevels
  <2>8. Tracks'
    BY <2>4, <2>5, <2>7 DEF Tracks, Positive, KeepsBooks
  <2> QED
    BY <1>1, <2>4, <2>8 DEF InStep, Follows, QueuesByLevel
<1> QED
  BY <1>3, <1>4

LEMMA TickInStep ==
  ASSUME IInv, InStep, Tick
  PROVE  InStep'
<1>1. /\ step = "tick" /\ running # None /\ step' = "settle" /\ workload' = workload
      /\ running' = running /\ run_start' = run_start /\ now' = now
  BY DEF Tick, cpuVars
<1>2. PICK o \in OnTick(sched, Class, running, now) : action' = o.action /\ sched' = o.sched
  BY DEF Tick
<1>3. /\ SchedulerOK(sched, Task) /\ QueuesByLevel(sched) /\ running \in Task
      /\ now \in Nat /\ run_start \in Nat
      /\ Class \in [Task -> {"CpuBound", "IoBound", "Interactive"}]
  BY <1>1, TaskFacts DEF IInv, TypeOK, InStep, Classes
<1>4. running \notin ReadyTasks(sched)
  BY <1>3 DEF IInv, ReadyAgree, Ready, SingleRunner, Running
<1>5. Tracks /\ Elapsed = now - run_start /\ Elapsed' = now - run_start + 1
  BY <1>1, <1>3 DEF InStep, Follows, Elapsed
<1>6. o.action \in {"Continue", "Preempt"} /\ sched'.name = sched.name
  BY <1>2, <1>3, TickContract
<1>7. TickResult(sched, running, o)
  <2>1. /\ sched.name \in KeepsBooks => sched.running = running
        /\ sched.name = "RR" => sched.used_slice < RrQuantum
        /\ sched.name = "MLFQ" => sched.used_slice < MlfqQuantums[sched.mlfq_level[running]]
    BY <1>5 DEF Tracks, KeepsBooks
  <2> QED
    BY <1>3, <1>4, <2>1, TickBooks
<1>8. sched.name \in KeepsBooks => sched.used_slice + 1 = Elapsed'
  BY <1>5 DEF Tracks, KeepsBooks
<1>9. o.action = "Continue" => Tracks'
  BY <1>1, <1>2, <1>6, <1>7, <1>8 DEF Tracks, KeepsBooks, TickResult
<1>10. o.action = "Preempt" => Justified'
  <2> SUFFICES ASSUME o.action = "Preempt"
               PROVE  Justified'
    OBVIOUS
  <2>1. sched.name = "MLFQ" => \E l \in 0 .. 3 :
          /\ Elapsed' = MlfqQuantums[l]
          /\ sched'.mlfq_level[running'] = IF l < 3 THEN l + 1 ELSE l
    BY <1>1, <1>2, <1>7, <1>8 DEF KeepsBooks, TickResult
  <2> QED
    BY <1>6, <1>7, <1>8, <2>1 DEF Justified, KeepsBooks, TickResult
<1> QED
  BY <1>1, <1>2, <1>6, <1>7, <1>9, <1>10 DEF InStep, Follows, QueuesByLevel, TickResult

LEMMA SettleBooks ==
  ASSUME IInv, InStep, Block \/ Preempt
  PROVE  InStep'
<1>1. /\ running \in Task /\ running \notin ReadyTasks(sched)
      /\ SchedulerOK(sched, Task) /\ QueuesByLevel(sched) /\ step' = "end"
  BY DEF Block, Preempt, IInv, TypeOK, SettleHasTask, ReadyAgree, Ready, SingleRunner,
     Running, InStep
<1>2. sched' \in {OnBlock(sched, running), Enqueue(sched, running)}
  BY DEF Block, Preempt
<1>3. QueuesByLevel(sched')
  <2>1. QueuesByLevel(OnBlock(sched, running))
    BY <1>1, BlockBooks
  <2>2. QueuesByLevel(Enqueue(sched, running))
    BY <1>1, EnqueueBooks
  <2> QED
    BY <1>2, <2>1, <2>2
<1>4. running' = None
  BY DEF Block, Preempt, SwitchContext, cpuVars
<1> QED
  BY <1>1, <1>3, <1>4, FreeBooks

LEMMA NextBooks ==
  ASSUME IInv, InStep, Positive, [Next]_vars
  PROVE  InStep'
<1>1. CASE \E t \in Task : Wake(t) \/ Arrive(t)
  BY <1>1, ReadyBooks
<1>2. CASE \/ WakesDone \/ ArrivalsDone \/ KeepRunning \/ Account \/ NoTask \/ Finish
           \/ Continue \/ NextTick \/ Break
  BY <1>2, MoveBooks
<1>3. CASE Dispatch \/ StayIdle
  BY <1>3, DispatchBooks
<1>4. CASE Tick
  BY <1>4, TickInStep
<1>5. CASE Block \/ Preempt
  BY <1>5, SettleBooks
<1>6. CASE Terminated \/ UNCHANGED vars
  BY <1>6 DEF Terminated, vars, cpuVars, InStep, Follows, Justified, Tracks, Elapsed,
     QueuesByLevel
<1> QED
  BY <1>1, <1>2, <1>3, <1>4, <1>5, <1>6 DEF Next

-----------------------------------------------------------------------------
(* With quanta that are not 0 the policy and the loop stay in step.        *)
THEOREM StaysInStep ==
  ASSUME Positive
  PROVE  Spec => []InStep
<1>1. Init => InStep
  BY InitBooks
<1>2. IInv /\ InStep /\ [Next]_vars => InStep'
  BY NextBooks
<1> QED
  BY <1>1, <1>2, Invariance, PTL DEF Spec

(* The loop never tells a policy that a task has finished, and yet its own *)
(* idea of the running task and of the slice is right at every on_tick.    *)
THEOREM TracksTheRun ==
  ASSUME Positive
  PROVE  Spec => []PolicyTracksRun
<1>1. InStep => PolicyTracksRun
  BY DEF InStep, Follows, Tracks, Elapsed, PolicyTracksRun
<1> QED
  BY <1>1, StaysInStep, PTL

(* No promotion, demotion or boost puts a task and its queue on different  *)
(* levels, and no slice outlasts the quantum of its level.                 *)
THEOREM LevelsMatch ==
  ASSUME Positive
  PROVE  Spec => []MlfqLevelsMatch
<1>1. InStep => MlfqLevelsMatch
  BY DEF InStep, Follows, Tracks, QueuesByLevel, MlfqLevelsMatch
<1> QED
  BY <1>1, StaysInStep, PTL

(* Every preemption is one its policy allows.                              *)
THEOREM Preemptions ==
  ASSUME Positive
  PROVE  Spec => PreemptionJustified
<1> DEFINE Allowed ==
      \A t \in Task : Running(t) /\ state'[t] = "Ready" =>
        LET run == now + 1 - run_start
        IN  CASE sched.name \in {"FCFS", "SJF"} -> FALSE
              [] sched.name = "RR"       -> run = RrQuantum
              [] sched.name = "MLFQ"     -> \E l \in 0 .. 3 :
                   /\ run = MlfqQuantums[l]
                   /\ sched.mlfq_level[t] = IF l < 3 THEN l + 1 ELSE l
              [] sched.name = "CFS-like" -> run >= MinGranularity
              [] OTHER                   -> TRUE
<1>1. ASSUME IInv, InStep, [Next]_vars
      PROVE  Allowed
  <2> SUFFICES ASSUME NEW t \in Task, Running(t), state'[t] = "Ready"
               PROVE  LET run == now + 1 - run_start
                      IN  CASE sched.name \in {"FCFS", "SJF"} -> FALSE
                            [] sched.name = "RR"       -> run = RrQuantum
                            [] sched.name = "MLFQ"     -> \E l \in 0 .. 3 :
                                 /\ run = MlfqQuantums[l]
                                 /\ sched.mlfq_level[t] = IF l < 3 THEN l + 1 ELSE l
                            [] sched.name = "CFS-like" -> run >= MinGranularity
                            [] OTHER                   -> TRUE
    OBVIOUS
  <2>1. t = running /\ running # None
    BY <1>1, TaskFacts DEF IInv, SingleRunner
  <2>2. Preempt
    <3>1. /\ state \in [Task -> {"New", "Ready", "Running", "Blocked", "Done"}]
          /\ state[t] = "Running"
      BY <1>1 DEF IInv, TypeOK, Running
    <3>2. CASE \E u \in Task : Wake(u) \/ Arrive(u)
      <4>1. PICK u \in Task : state' = [state EXCEPT ![u] = "Ready"] /\ state[u] # "Running"
        BY <3>2 DEF Wake, Arrive, IsFirst, WakeList, ArrivalList, MakeReady
      <4> QED
        BY <3>1, <4>1
    <3>3. CASE Dispatch
      <4>1. PICK u : state' = [state EXCEPT ![u] = "Running"]
        BY <3>3 DEF Dispatch, StartRunning
      <4> QED
        BY <3>1, <4>1
    <3>4. CASE Finish \/ Block
      BY <2>1, <3>1, <3>4 DEF Finish, Block
    <3>5. CASE state' = state
      BY <3>1, <3>5
    <3> QED
      BY <1>1, <3>2, <3>3, <3>4, <3>5 DEF Next, WakesDone, ArrivalsDone, KeepRunning,
         StayIdle, Account, NoTask, Tick, Continue, NextTick, Break, Terminated, vars,
         taskVars
  <2>3. Justified /\ Elapsed = now + 1 - run_start
    <3>1. step = "settle" /\ action = "Preempt"
      BY <2>2 DEF Preempt
    <3>2. Follows
      BY <1>1 DEF InStep
    <3>3. Elapsed = now + 1 - run_start
      <4>1. now \in Nat /\ run_start \in Nat
        BY <1>1 DEF IInv, TypeOK
      <4>2. (IF step \in {"settle", "end"} THEN now + 1 ELSE now) = now + 1
        BY <3>1
      <4> HIDE DEF Allowed
      <4> QED
        BY <4>1, <4>2 DEF Elapsed
    <3> QED
      BY <2>1, <3>1, <3>2, <3>3 DEF Follows
  <2>4. sched.name = "MLFQ" => \E l \in 0 .. 3 :
          /\ now + 1 - run_start = MlfqQuantums[l]
          /\ sched.mlfq_level[t] = IF l < 3 THEN l + 1 ELSE l
    BY <2>1, <2>3 DEF Justified
  <2> QED
    BY <2>3, <2>4 DEF Justified
<1>2. IInv /\ InStep /\ [Next]_vars => [Allowed]_vars
  BY <1>1
<1> HIDE DEF Allowed
<1>3. Spec => [][Allowed]_vars
  BY <1>2, Invariance, StaysInStep, PTL DEF Spec
<1> QED
  BY <1>3 DEF PreemptionJustified, Allowed

-----------------------------------------------------------------------------
(* FCFS and RR have one queue, which is served from the front.             *)
FifoNames == {"FCFS", "RR"}

LEMMA FifoState ==
  ASSUME NEW Ids, NEW s, SchedulerOK(s, Ids), s.name \in FifoNames
  PROVE  s.queue \in Seq(Ids) /\ IsDuplicateFree(s.queue) /\ ReadyTasks(s) = Range(s.queue)
<1>1. FcfsOK(s, Ids) \/ RrOK(s, Ids)
  BY PolicyCases DEF FifoNames
<1> QED
  BY <1>1 DEF FcfsOK, RrOK, FifoNames, ReadyTasks

LEMMA FifoEnqueue ==
  ASSUME NEW Ids, NEW s, SchedulerOK(s, Ids), s.name \in FifoNames, NEW t
  PROVE  /\ Enqueue(s, t).queue = Append(s.queue, t)
         /\ OnWakeup(s, t).queue = Append(s.queue, t)
         /\ OnBlock(s, t).queue = s.queue
<1> DEFINE q == Append(s.queue, t)
<1>1. Enqueue(s, t) = [s EXCEPT !.queue = q] /\ OnWakeup(s, t) = [s EXCEPT !.queue = q]
  BY DEF FifoNames, Enqueue, OnWakeup, Fcfs!Enqueue, Fcfs!OnWakeup, Rr!Enqueue, Rr!OnWakeup
<1>2. OnBlock(s, t) \in {s, [s EXCEPT !.running = None, !.used_slice = 0]}
  BY DEF FifoNames, OnBlock, Fcfs!OnBlock, Rr!OnBlock
<1>3. FcfsOK(s, Ids) \/ RrOK(s, Ids)
  BY PolicyCases DEF FifoNames
<1> HIDE DEF q
<1>4. [s EXCEPT !.queue = q].queue = q
  BY <1>3 DEF FcfsOK, RrOK
<1>5. [s EXCEPT !.running = None, !.used_slice = 0].queue = s.queue
  BY <1>3 DEF FcfsOK, RrOK
<1> QED
  BY <1>1, <1>2, <1>4, <1>5 DEF q

LEMMA FifoTick ==
  ASSUME NEW Ids, NEW s, SchedulerOK(s, Ids), s.name \in FifoNames, NEW t, NEW class,
         NEW time, NEW o \in OnTick(s, class, t, time)
  PROVE  o.sched.queue = s.queue
<1>1. CASE s.name = "FCFS"
  BY <1>1 DEF OnTick, Fcfs!OnTick
<1>2. CASE s.name = "RR"
  <2> DEFINE used == (IF s.running = t THEN s.used_slice ELSE 0) + 1
  <2>1. o.sched \in {[s EXCEPT !.running = None, !.used_slice = 0],
                     [s EXCEPT !.running = t, !.used_slice = used]}
    BY <1>2 DEF OnTick, Rr!OnTick
  <2>2. RrOK(s, Ids)
    BY <1>2, PolicyCases
  <2> HIDE DEF used
  <2> QED
    BY <2>1, <2>2 DEF RrOK
<1> QED
  BY <1>1, <1>2 DEF FifoNames

LEMMA FifoPick ==
  ASSUME NEW Ids, NEW s, SchedulerOK(s, Ids), s.name \in FifoNames, NEW cpu, NEW class,
         NEW o \in PickNext(s, cpu, class)
  PROVE  /\ s.queue = << >> => o.next = None /\ o.sched.queue = s.queue
         /\ s.queue # << >> => o.next = Head(s.queue) /\ o.sched.queue = Tail(s.queue)
<1> DEFINE first == Head(s.queue)
           rest == Tail(s.queue)
           empty == [s EXCEPT !.running = None, !.used_slice = 0]
           fcfs == [s EXCEPT !.queue = rest]
           rr == [s EXCEPT !.queue = rest, !.running = first, !.used_slice = 0]
<1>1. /\ s.queue = << >> => o.next = None /\ o.sched \in {s, empty}
      /\ s.queue # << >> => o.next = first
                              /\ o.sched = IF s.name = "RR" THEN rr ELSE fcfs
  BY DEF FifoNames, PickNext, Fcfs!PickNext, Rr!PickNext
<1>2. (FcfsOK(s, Ids) /\ s.name = "FCFS") \/ (RrOK(s, Ids) /\ s.name = "RR")
  BY PolicyCases DEF FifoNames
<1> HIDE DEF first, rest
<1>3. empty.queue = s.queue
  BY <1>2 DEF FcfsOK, RrOK
<1>4. (IF s.name = "RR" THEN rr ELSE fcfs).queue = rest
  BY <1>2 DEF FcfsOK, RrOK
<1> QED
  BY <1>1, <1>3, <1>4 DEF first, rest

(* So a task that becomes ready goes to the end, and the first one runs.   *)
LEMMA FifoMoves ==
  ASSUME IInv, [Next]_vars, sched.name \in FifoNames
  PROVE  \/ WaitsOn /\ sched'.queue = sched.queue
         \/ \E t \in Task : WaitBegins(t) /\ sched'.queue = Append(sched.queue, t)
         \/ \E t \in Task : /\ WaitEnds(t) /\ sched.queue # << >>
                           /\ t = Head(sched.queue) /\ sched'.queue = Tail(sched.queue)
<1>1. SchedulerOK(sched, Task)
  BY DEF IInv, TypeOK
<1>2. ASSUME NEW t \in Task, Wake(t) \/ Arrive(t)
      PROVE  WaitBegins(t) /\ sched'.queue = Append(sched.queue, t)
  BY <1>1, <1>2, WakeWaits, FifoEnqueue DEF Wake, Arrive
<1>3. CASE Dispatch
  <2>1. PICK o \in PickNext(sched, remaining_cpu, Class) :
          o.next # None /\ sched' = o.sched /\ SwitchContext(o.next, now, ReadyLen(o.sched))
    BY <1>3 DEF Dispatch
  <2>2. running' = o.next
    BY <1>3, <2>1 DEF Dispatch, SwitchContext
  <2>3. WaitEnds(running') /\ running' \in Task
    BY <1>3, DispatchWaits DEF WaitEnds
  <2> QED
    BY <1>1, <2>1, <2>2, <2>3, FifoPick
<1>4. CASE Preempt
  <2>1. WaitBegins(running) /\ running \in Task
    BY <1>4, PreemptWaits DEF WaitBegins
  <2>2. sched'.queue = Append(sched.queue, running)
    BY <1>1, <1>4, FifoEnqueue DEF Preempt
  <2> QED
    BY <2>1, <2>2
<1>5. CASE StayIdle
  <2>1. WaitsOn
    BY <1>5, MoveWaits
  <2>2. PICK o \in PickNext(sched, remaining_cpu, Class) : o.next = None /\ sched' = o.sched
    BY <1>5 DEF StayIdle
  <2>3. ReadyTasks(sched) = {}
    <3>1. None \notin ReadyTasks(sched)
      BY <1>1, TaskFacts, ReadyLenContract DEF IInv
    <3> QED
      BY <1>1, <2>2, <3>1, PickContract
  <2>4. sched.queue = << >>
    BY <1>1, <2>3, FifoState, EmptyVec
  <2> QED
    BY <1>1, <2>1, <2>2, <2>4, FifoPick
<1>6. CASE Tick \/ Block
  <2>1. WaitsOn
    BY <1>6, MoveWaits
  <2>2. CASE Tick
    BY <1>1, <2>1, <2>2, FifoTick DEF Tick
  <2>3. CASE Block
    BY <1>1, <2>1, <2>3, FifoEnqueue DEF Block
  <2> QED
    BY <1>6, <2>2, <2>3
<1>7. CASE \/ WakesDone \/ ArrivalsDone \/ KeepRunning \/ Account \/ NoTask \/ Finish
           \/ Continue \/ NextTick \/ Break \/ Terminated \/ UNCHANGED vars
  <2>1. sched' = sched
    BY <1>7 DEF WakesDone, ArrivalsDone, KeepRunning, Account, NoTask, Finish, Continue,
       NextTick, Break, Terminated, vars
  <2> QED
    BY <1>7, <2>1, MoveWaits
<1> QED
  BY <1>2, <1>3, <1>4, <1>5, <1>6, <1>7 DEF Next

-----------------------------------------------------------------------------
(* The order of a queue, and the turns before a position in it.            *)
Ordered(q, since) == \A i, j \in DOMAIN q : i < j => since[q[i]] <= since[q[j]]

LEMMA PushPositions ==
  ASSUME NEW T, NEW q \in Seq(T), NEW t
  PROVE  /\ Len(q) \in Nat /\ DOMAIN q = 1 .. Len(q)
         /\ DOMAIN Append(q, t) = 1 .. Len(q) + 1
         /\ Append(q, t)[Len(q) + 1] = t
         /\ \A i \in 1 .. Len(q) : Append(q, t)[i] = q[i] /\ q[i] \in Range(q)
<1>1. q \in Seq(T \cup {t}) /\ t \in T \cup {t}
  BY SeqDef, LenProperties
<1> QED
  BY <1>1, AppendProperties, LenProperties DEF Range

LEMMA PopPositions ==
  ASSUME NEW T, NEW q \in Seq(T), q # << >>
  PROVE  /\ Len(q) \in Nat \ {0} /\ DOMAIN q = 1 .. Len(q)
         /\ DOMAIN Tail(q) = 1 .. Len(q) - 1
         /\ Head(q) = q[1]
         /\ \A i \in 1 .. Len(q) - 1 : Tail(q)[i] = q[i + 1]
BY HeadTailProperties, LenProperties, EmptySeq

(* Behind everybody else stands who came last; the others keep their order *)
(* when the first one leaves.                                              *)
LEMMA OrderedPush ==
  ASSUME NEW T, NEW q \in Seq(T), NEW t, t \notin Range(q), NEW since, NEW new,
         Ordered(q, since), \A x \in Range(q) : new[x] = since[x] /\ since[x] <= new[t],
         new[t] \in Nat
  PROVE  Ordered(Append(q, t), new)
<1> DEFINE n == Len(q)
           longer == Append(q, t)
<1>1. /\ n \in Nat /\ DOMAIN q = 1 .. n /\ DOMAIN longer = 1 .. n + 1
      /\ longer[n + 1] = t /\ \A i \in 1 .. n : longer[i] = q[i] /\ q[i] \in Range(q)
  BY PushPositions
<1> HIDE DEF n, longer
<1>2. ASSUME NEW i \in 1 .. n + 1, NEW j \in 1 .. n + 1, i < j
      PROVE  new[longer[i]] <= new[longer[j]]
  <2>1. CASE j = n + 1
    <3>1. i \in 1 .. n
      BY <1>1, <1>2, <2>1
    <3> QED
      BY <1>1, <2>1, <3>1
  <2>2. CASE j # n + 1
    <3>1. i \in 1 .. n /\ j \in 1 .. n
      BY <1>1, <1>2, <2>2
    <3> QED
      BY <1>1, <1>2, <3>1 DEF Ordered
  <2> QED
    BY <2>1, <2>2
<1> QED
  BY <1>1, <1>2 DEF Ordered, longer

LEMMA OrderedPop ==
  ASSUME NEW T, NEW q \in Seq(T), q # << >>, IsDuplicateFree(q), NEW since, NEW new,
         Ordered(q, since), \A x \in Range(q) \ {Head(q)} : new[x] = since[x]
  PROVE  Ordered(Tail(q), new)
<1> DEFINE n == Len(q)
           rest == Tail(q)
<1>1. /\ n \in Nat \ {0} /\ DOMAIN q = 1 .. n /\ DOMAIN rest = 1 .. n - 1 /\ Head(q) = q[1]
      /\ \A i \in 1 .. n - 1 : rest[i] = q[i + 1]
  BY PopPositions
<1> HIDE DEF n, rest
<1>2. ASSUME NEW i \in 1 .. n - 1
      PROVE  rest[i] = q[i + 1] /\ i + 1 \in 1 .. n /\ new[rest[i]] = since[rest[i]]
  <2>1. i + 1 \in 1 .. n /\ i + 1 # 1 /\ 1 \in 1 .. n
    BY <1>1
  <2>2. q[i + 1] \in Range(q) /\ q[i + 1] # q[1]
    BY <1>1, <2>1 DEF Range, IsDuplicateFree, IsInjective
  <2> QED
    BY <1>1, <2>1, <2>2
<1>3. ASSUME NEW i \in 1 .. n - 1, NEW j \in 1 .. n - 1, i < j
      PROVE  new[rest[i]] <= new[rest[j]]
  <2>1. i + 1 < j + 1
    BY <1>3
  <2>2. since[q[i + 1]] <= since[q[j + 1]]
    BY <1>1, <1>2, <2>1 DEF Ordered
  <2> QED
    BY <1>2, <2>2
<1> QED
  BY <1>1, <1>3 DEF Ordered, rest

(* FCFS and RR: whoever became ready first stands first.                   *)
FifoInv == sched.name \in FifoNames => Ordered(sched.queue, ready_since)

(* The waits that begin or end change nobody else's.                       *)
LEMMA SameWaits ==
  ASSUME IInv, SinceKnown, NEW t \in Task
  PROVE  /\ WaitBegins(t) => /\ ready_since'[t] = Until
                              /\ \A x \in ReadyTasks(sched) :
                                   ready_since'[x] = ready_since[x] /\ ready_since[x] <= Until
         /\ WaitEnds(t) => \A x \in Task \ {t} : ready_since'[x] = ready_since[x]
BY DEF IInv, TypeOK, ReadyAgree, SinceKnown, WaitBegins, WaitEnds, Ready

LEMMA SameName ==
  ASSUME IInv, [Next]_vars
  PROVE  sched'.name = sched.name
<1>1. SchedulerOK(sched, Task) /\ now \in Nat /\ Class \in [Task -> Classes]
  BY TaskFacts DEF IInv, TypeOK
<1>2. ASSUME NEW t \in Task, Wake(t) \/ Arrive(t)
      PROVE  sched'.name = sched.name
  <2>1. t \notin ReadyTasks(sched)
    BY <1>2 DEF IInv, ReadyAgree, Ready, Wake, Arrive, IsFirst, WakeList, ArrivalList
  <2> QED
    BY <1>1, <1>2, <2>1, EnqueueContract, WakeupContract DEF Wake, Arrive
<1>3. CASE Dispatch \/ StayIdle
  BY <1>1, <1>3, PickContract DEF Dispatch, StayIdle
<1>4. CASE Tick \/ Block \/ Preempt
  <2>1. running \in Task /\ running \notin ReadyTasks(sched)
    BY <1>4 DEF Tick, Block, Preempt, IInv, TypeOK, SettleHasTask, ReadyAgree, Ready,
       SingleRunner, Running
  <2>2. CASE Tick
    BY <1>1, <2>1, <2>2, TickContract DEF Tick, Classes
  <2>3. CASE Block \/ Preempt
    BY <1>1, <2>1, <2>3, BlockContract, EnqueueContract DEF Block, Preempt
  <2> QED
    BY <1>4, <2>2, <2>3
<1> QED
  BY <1>2, <1>3, <1>4 DEF Next, WakesDone, ArrivalsDone, KeepRunning, Account, NoTask,
     Finish, Continue, NextTick, Break, Terminated, vars

LEMMA NextFifo ==
  ASSUME IInv, SinceKnown, FifoInv, [Next]_vars
  PROVE  FifoInv'
<1> SUFFICES ASSUME sched'.name \in FifoNames
             PROVE  Ordered(sched'.queue, ready_since')
  BY DEF FifoInv
<1>1. sched.name \in FifoNames /\ Ordered(sched.queue, ready_since)
  BY SameName DEF FifoInv
<1>2. /\ sched.queue \in Seq(Task) /\ IsDuplicateFree(sched.queue)
      /\ ReadyTasks(sched) = Range(sched.queue)
  BY <1>1, FifoState DEF IInv, TypeOK
<1>3. CASE WaitsOn /\ sched'.queue = sched.queue
  BY <1>1, <1>3 DEF WaitsOn
<1>4. ASSUME NEW t \in Task, WaitBegins(t), sched'.queue = Append(sched.queue, t)
      PROVE  Ordered(sched'.queue, ready_since')
  <2>1. t \notin Range(sched.queue)
    BY <1>2, <1>4 DEF WaitBegins, IInv, ReadyAgree
  <2>2. ready_since'[t] \in Nat
    BY <1>4, SameWaits, UntilType
  <2>3. \A x \in Range(sched.queue) :
          ready_since'[x] = ready_since[x] /\ ready_since[x] <= ready_since'[t]
    BY <1>2, <1>4, SameWaits
  <2> QED
    BY <1>1, <1>2, <1>4, <2>1, <2>2, <2>3, OrderedPush
<1>5. ASSUME NEW t \in Task, WaitEnds(t), sched.queue # << >>, t = Head(sched.queue),
             sched'.queue = Tail(sched.queue)
      PROVE  Ordered(sched'.queue, ready_since')
  <2>1. \A x \in Range(sched.queue) \ {Head(sched.queue)} : ready_since'[x] = ready_since[x]
    BY <1>2, <1>5, SameWaits, RangeInTask
  <2> QED
    BY <1>1, <1>2, <1>5, <2>1, OrderedPop
<1> QED
  BY <1>1, <1>3, <1>4, <1>5, FifoMoves

(* FCFS and RR serve in order of readiness, across preemptions, wake-ups   *)
(* and arrivals in the same tick.                                          *)
THEOREM ServedInOrder == Spec => []FifoByReadiness
<1>1. Init => FifoInv
  <2> SUFFICES ASSUME Init, sched.name \in FifoNames
               PROVE  Ordered(sched.queue, ready_since)
    BY DEF FifoInv
  <2>1. PICK name \in SchedulerNames : sched = NewScheduler(name, Task)
    BY DEF Init
  <2>2. SchedulerOK(sched, Task) /\ ReadyTasks(sched) = {}
    BY <2>1, NewContract, ExperimentAssumption
  <2>3. sched.queue = << >>
    BY <2>2, FifoState, EmptyVec
  <2> QED
    BY <2>3 DEF Ordered
<1>2. IInv /\ SinceKnown /\ FifoInv /\ [Next]_vars => FifoInv'
  BY NextFifo
<1>3. FifoInv => FifoByReadiness
  BY DEF FifoInv, FifoNames, Ordered, FifoByReadiness
<1> QED
  BY <1>1, <1>2, <1>3, Invariance, WaitsKnown, PTL DEF Spec

-----------------------------------------------------------------------------
(* The time a task that waits since s gets the CPU, when n others have a   *)
(* quantum each from time due on; and a queue whose tasks, but those of    *)
(* `free`, all get it within the bound.                                    *)
Turn(due, s, n, quantum) == due - s + n * quantum

WithinTurns(q, free, since, due, quantum, bound) ==
  \A i \in DOMAIN q : q[i] \in free \/ Turn(due, since[q[i]], i - 1, quantum) <= bound

LEMMA TurnParts ==
  ASSUME NEW due \in Int, NEW s \in Int, NEW n \in Int, NEW quantum \in Nat
  PROVE  /\ n * quantum \in Int /\ (n >= 0 => n * quantum >= 0)
         /\ Turn(due, s, n, quantum) = (due - s) + n * quantum
         /\ Turn(due, s, n, quantum) \in Int
<1> DEFINE turns == n * quantum
<1>1. turns \in Int /\ (n >= 0 => turns >= 0) /\ Turn(due, s, n, quantum) = due - s + turns
  BY DEF Turn
<1> HIDE DEF turns
<1>2. Turn(due, s, n, quantum) \in Int /\ Turn(due, s, n, quantum) = (due - s) + turns
  BY <1>1
<1> QED
  BY <1>1, <1>2 DEF turns

LEMMA TurnType ==
  ASSUME NEW due \in Int, NEW s \in Int, NEW n \in Int, NEW quantum \in Nat
  PROVE  Turn(due, s, n, quantum) \in Int
BY TurnParts

LEMMA TurnAtLeast ==
  ASSUME NEW due \in Int, NEW s \in Int, NEW n \in Nat, NEW quantum \in Nat
  PROVE  due - s <= Turn(due, s, n, quantum)
<1> DEFINE turns == n * quantum
<1>1. turns \in Int /\ turns >= 0 /\ Turn(due, s, n, quantum) = (due - s) + turns
  BY TurnParts
<1> HIDE DEF turns
<1> QED
  BY <1>1

LEMMA TurnEarlier ==
  ASSUME NEW due \in Int, NEW later \in Int, later <= due, NEW s \in Int, NEW n \in Int,
         NEW quantum \in Nat
  PROVE  Turn(later, s, n, quantum) <= Turn(due, s, n, quantum)
<1> DEFINE turns == n * quantum
<1>1. /\ turns \in Int
      /\ Turn(due, s, n, quantum) = (due - s) + turns
      /\ Turn(later, s, n, quantum) = (later - s) + turns
  BY TurnParts
<1> HIDE DEF turns
<1> QED
  BY <1>1

LEMMA TurnNearer ==
  ASSUME NEW due \in Int, NEW s \in Int, NEW n \in Int, NEW quantum \in Nat
  PROVE  Turn(due + quantum, s, n, quantum) = Turn(due, s, n + 1, quantum)
<1> DEFINE turns == n * quantum
           more == (n + 1) * quantum
<1>1. turns \in Int /\ more = turns + quantum
  OBVIOUS
<1>2. /\ Turn(due, s, n + 1, quantum) = (due - s) + more
      /\ Turn(due + quantum, s, n, quantum) = (due + quantum - s) + turns
  BY TurnParts
<1> HIDE DEF turns, more
<1> QED
  BY <1>1, <1>2

LEMMA TurnFurther ==
  ASSUME NEW due \in Int, NEW s \in Int, NEW n \in Int, NEW m \in Int, n <= m,
         NEW quantum \in Nat
  PROVE  Turn(due, s, n, quantum) <= Turn(due, s, m, quantum)
<1> DEFINE turns == n * quantum
           more == m * quantum
           gap == (m - n) * quantum
<1>1. turns \in Int /\ more \in Int /\ gap = more - turns
  OBVIOUS
<1>2. gap >= 0
  <2>1. m - n \in Nat
    OBVIOUS
  <2> DEFINE d == m - n
  <2> HIDE DEF d
  <2>2. d * quantum >= 0
    BY <2>1 DEF d
  <2> QED
    BY <2>2 DEF d
<1>3. /\ Turn(due, s, n, quantum) = (due - s) + turns
      /\ Turn(due, s, m, quantum) = (due - s) + more
  BY TurnParts
<1> HIDE DEF turns, more, gap
<1>4. turns <= more
  BY <1>1, <1>2
<1> QED
  BY <1>1, <1>3, <1>4

LEMMA TurnsOnly ==
  ASSUME NEW due \in Int, NEW n \in Int, NEW quantum \in Nat
  PROVE  Turn(due, due, n, quantum) = n * quantum
<1> DEFINE turns == n * quantum
<1>1. turns \in Int
  OBVIOUS
<1> HIDE DEF turns
<1>2. due - due + turns = turns
  BY <1>1
<1> QED
  BY <1>2 DEF Turn, turns

LEMMA TurnsStay ==
  ASSUME NEW T, NEW q \in Seq(T), NEW since, \A x \in Range(q) : since[x] \in Nat,
         NEW new, \A x \in Range(q) : new[x] = since[x],
         NEW free, NEW freer, \A x \in Range(q) : x \in free => x \in freer,
         NEW due \in Int, NEW later \in Int, later <= due, NEW quantum \in Nat,
         NEW bound \in Int, WithinTurns(q, free, since, due, quantum, bound)
  PROVE  WithinTurns(q, freer, new, later, quantum, bound)
<1> SUFFICES ASSUME NEW i \in DOMAIN q, q[i] \notin freer
             PROVE  Turn(later, new[q[i]], i - 1, quantum) <= bound
  BY DEF WithinTurns
<1>1. q[i] \in Range(q) /\ i - 1 \in Int
  BY LenProperties DEF Range
<1>2. since[q[i]] \in Nat /\ new[q[i]] = since[q[i]] /\ q[i] \notin free
  BY <1>1
<1>3. Turn(due, since[q[i]], i - 1, quantum) <= bound
  BY <1>2 DEF WithinTurns
<1> DEFINE s == since[q[i]]
           m == i - 1
<1>4. s \in Int /\ m \in Int
  BY <1>1, <1>2
<1>5. Turn(due, s, m, quantum) <= bound
  BY <1>3
<1> HIDE DEF s, m
<1>6. /\ Turn(due, s, m, quantum) \in Int /\ Turn(later, s, m, quantum) \in Int
      /\ Turn(later, s, m, quantum) <= Turn(due, s, m, quantum)
  BY <1>4, TurnParts, TurnEarlier
<1>7. Turn(later, s, m, quantum) <= bound
  BY <1>5, <1>6
<1> QED
  BY <1>2, <1>7 DEF s, m

(* A task that joins the queue waits for the turns of those before it.     *)
LEMMA TurnsPush ==
  ASSUME NEW T, NEW q \in Seq(T), NEW since, \A x \in Range(q) : since[x] \in Nat,
         NEW new, \A x \in Range(q) : new[x] = since[x],
         NEW free, NEW freer, \A x \in Range(q) : x \in free => x \in freer,
         NEW due \in Int, NEW later \in Int, later <= due, NEW quantum \in Nat,
         NEW bound \in Int, WithinTurns(q, free, since, due, quantum, bound),
         NEW t, t \in freer \/ Turn(later, new[t], Len(q), quantum) <= bound
  PROVE  WithinTurns(Append(q, t), freer, new, later, quantum, bound)
<1> DEFINE n == Len(q)
           longer == Append(q, t)
<1>1. /\ n \in Nat /\ DOMAIN q = 1 .. n /\ DOMAIN longer = 1 .. n + 1
      /\ longer[n + 1] = t /\ \A i \in 1 .. n : longer[i] = q[i] /\ q[i] \in Range(q)
  BY PushPositions
<1>2. WithinTurns(q, freer, new, later, quantum, bound)
  BY TurnsStay
<1>3. t \in freer \/ Turn(later, new[t], n, quantum) <= bound
  OBVIOUS
<1> HIDE DEF n, longer
<1>4. ASSUME NEW i \in 1 .. n + 1
      PROVE  longer[i] \in freer \/ Turn(later, new[longer[i]], i - 1, quantum) <= bound
  <2>1. CASE i = n + 1
    <3>1. i - 1 = n
      BY <1>1, <2>1
    <3> QED
      BY <1>1, <1>3, <2>1, <3>1
  <2>2. CASE i # n + 1
    <3>1. i \in 1 .. n
      BY <1>1, <2>2
    <3> QED
      BY <1>1, <1>2, <3>1 DEF WithinTurns
  <2> QED
    BY <2>1, <2>2
<1> QED
  BY <1>1, <1>4 DEF WithinTurns, longer

(* When the first one gets its quantum, the others are one turn nearer.    *)
LEMMA TurnsPop ==
  ASSUME NEW T, NEW q \in Seq(T), q # << >>, IsDuplicateFree(q),
         NEW since, \A x \in Range(q) : since[x] \in Nat,
         NEW new, \A x \in Range(q) \ {Head(q)} : new[x] = since[x],
         NEW free, NEW freer, \A x \in Range(q) \ {Head(q)} : x \in free => x \in freer,
         NEW due \in Int, NEW quantum \in Nat, NEW bound \in Int,
         WithinTurns(q, free, since, due, quantum, bound)
  PROVE  WithinTurns(Tail(q), freer, new, due + quantum, quantum, bound)
<1> DEFINE n == Len(q)
           rest == Tail(q)
<1>1. /\ n \in Nat \ {0} /\ DOMAIN q = 1 .. n /\ DOMAIN rest = 1 .. n - 1 /\ Head(q) = q[1]
      /\ \A i \in 1 .. n - 1 : rest[i] = q[i + 1]
  BY PopPositions
<1> HIDE DEF n, rest
<1>2. ASSUME NEW i \in 1 .. n - 1, rest[i] \notin freer
      PROVE  Turn(due + quantum, new[rest[i]], i - 1, quantum) <= bound
  <2>1. i + 1 \in 1 .. n /\ i + 1 # 1 /\ 1 \in 1 .. n /\ i - 1 \in Int /\ i \in Int
    BY <1>1
  <2>2. q[i + 1] \in Range(q) /\ q[i + 1] # q[1]
    BY <1>1, <2>1 DEF Range, IsDuplicateFree, IsInjective
  <2>3. /\ rest[i] = q[i + 1] /\ new[rest[i]] = since[q[i + 1]] /\ since[q[i + 1]] \in Nat
        /\ q[i + 1] \notin free
    BY <1>1, <1>2, <2>2
  <2>4. Turn(due, since[q[i + 1]], (i + 1) - 1, quantum) <= bound
    <3>1. \A j \in 1 .. n :
            q[j] \in free \/ Turn(due, since[q[j]], j - 1, quantum) <= bound
      BY <1>1 DEF WithinTurns
    <3> QED
      BY <2>1, <2>3, <3>1
  <2>5. (i + 1) - 1 = i /\ (i - 1) + 1 = i
    BY <2>1
  <2> DEFINE s == since[q[i + 1]]
             m == i - 1
  <2>6. s \in Int /\ m \in Int /\ Turn(due, s, m + 1, quantum) <= bound
    BY <2>1, <2>3, <2>4, <2>5
  <2> HIDE DEF s, m
  <2>7. Turn(due + quantum, s, m, quantum) = Turn(due, s, m + 1, quantum)
    BY <2>6, TurnNearer
  <2> QED
    BY <2>3, <2>6, <2>7 DEF s, m
<1> QED
  BY <1>1, <1>2 DEF WithinTurns, rest

(* The queue never holds the task that is about to join it, nor the one    *)
(* that runs.                                                              *)
LEMMA QueueRoom ==
  ASSUME IInv, NEW t \in Task, ~Ready(t)
  PROVE  /\ Others \in Nat /\ Cardinality(ReadyTasks(sched)) \in Nat
         /\ Cardinality(ReadyTasks(sched)) <= Others
         /\ \A u \in Task \ {t} : ~Ready(u) => Cardinality(ReadyTasks(sched)) + 1 <= Others
<1>1. IsFiniteSet(Task) /\ ReadyTasks(sched) \subseteq Task \ {t}
  BY TaskFacts DEF IInv, ReadyAgree
<1>2. /\ IsFiniteSet(Task \ {t}) /\ Cardinality(Task \ {t}) = Others
      /\ Others \in Nat
  <2>1. IsFiniteSet(Task \ {t}) /\ Cardinality(Task \ {t}) = Cardinality(Task) - 1
    BY <1>1, FS_RemoveElement
  <2> QED
    BY <2>1, FS_CardinalityType DEF Others
<1>3. Cardinality(ReadyTasks(sched)) \in Nat /\ Cardinality(ReadyTasks(sched)) <= Others
  BY <1>1, <1>2, FS_Subset, FS_CardinalityType
<1>4. ASSUME NEW u \in Task \ {t}, ~Ready(u)
      PROVE  Cardinality(ReadyTasks(sched)) + 1 <= Others
  <2> DEFINE S == (Task \ {t}) \ {u}
  <2>1. IsFiniteSet(S) /\ Cardinality(S) = Others - 1
    BY <1>2, FS_RemoveElement
  <2>2. ReadyTasks(sched) \subseteq S
    BY <1>1, <1>4 DEF IInv, ReadyAgree
  <2> HIDE DEF S
  <2>3. Cardinality(ReadyTasks(sched)) <= Cardinality(S)
    BY <2>1, <2>2, FS_Subset
  <2> QED
    BY <1>2, <1>3, <2>1, <2>3
<1> QED
  BY <1>2, <1>3, <1>4

-----------------------------------------------------------------------------
(* RR: the time at which the running task has to be off the CPU.           *)
RrDue == IF running = None THEN Until ELSE run_start + RrQuantum

(* Whoever stands in the queue gets the CPU in time.                       *)
RrTurns ==
  sched.name = "RR" =>
    /\ Until <= RrDue
    /\ WithinTurns(sched.queue, {}, ready_since, RrDue, RrQuantum, Others * RrQuantum)

LEMMA RrDueMoves ==
  ASSUME IInv, InStep, sched.name = "RR", Until <= RrDue, [Next]_vars
  PROVE  /\ RrDue \in Int /\ RrDue' \in Int /\ Until' <= RrDue'
         /\ running' \in {running, None} =>
              RrDue' <= RrDue \/ (ReadyTasks(sched) = {} /\ sched' = sched)
         /\ running = None /\ running' # None => RrDue' = RrDue + RrQuantum
<1>1. /\ now \in Nat /\ run_start \in Nat /\ RrQuantum \in Nat
      /\ running \in Task \cup {None} /\ None \notin Task
  BY TaskFacts, PolicyAssumption DEF IInv, TypeOK
<1>2. RrDue \in Int
  BY <1>1 DEF RrDue, Until
<1>3. CASE Dispatch
  <2>1. Until = now /\ Until' = now
    BY <1>3 DEF Dispatch, Until
  <2>2. running = None /\ running' # None /\ run_start' = now
    BY <1>1, <1>3, DispatchWaits DEF WaitEnds
  <2> QED
    BY <1>1, <2>1, <2>2 DEF RrDue
<1>4. CASE Finish \/ Block \/ Preempt
  <2>1. running' = None
    BY <1>4 DEF Finish, Block, Preempt, SwitchContext, cpuVars
  <2>2. Until = now + 1 /\ Until' = now + 1
    BY <1>4 DEF Finish, Block, Preempt, Until
  <2> QED
    BY <1>1, <1>2, <2>1, <2>2 DEF RrDue
<1>5. CASE NoTask
  <2>1. running' = None /\ Until' = now + 1 /\ sched' = sched
    BY <1>5 DEF NoTask, cpuVars, Until
  <2>2. ReadyTasks(sched) = {}
    BY <1>5 DEF NoTask, IInv, IdleJustified, ReadyAgree
  <2> QED
    BY <1>1, <1>2, <2>1, <2>2 DEF RrDue
<1>6. CASE Tick
  <2>1. /\ running # None /\ running' = running /\ run_start' = run_start
        /\ Until' = now + 1
    BY <1>6 DEF Tick, cpuVars, Until
  <2>2. now - run_start < RrQuantum
    BY <1>6 DEF Tick, InStep, Follows, Tracks, Elapsed
  <2> QED
    BY <1>1, <1>2, <2>1, <2>2 DEF RrDue
<1>7. CASE \/ \E t \in Task : Wake(t) \/ Arrive(t)
           \/ WakesDone \/ ArrivalsDone \/ KeepRunning \/ StayIdle \/ Account
           \/ Continue \/ NextTick \/ Break \/ Terminated \/ UNCHANGED vars
  <2>1. running' = running /\ run_start' = run_start
    BY <1>7 DEF Wake, Arrive, WakesDone, ArrivalsDone, KeepRunning, StayIdle, Account,
       Continue, NextTick, Break, Terminated, vars, cpuVars
  <2>2. Until' = Until
    <3>1. CASE NextTick \/ Break
      BY <1>1, <3>1 DEF NextTick, Break, Until
    <3> QED
      BY <1>7, <3>1 DEF Wake, Arrive, WakesDone, ArrivalsDone, KeepRunning, StayIdle, Account,
         Continue, Terminated, vars, Until
  <2> QED
    BY <1>1, <1>2, <2>1, <2>2 DEF RrDue
<1> QED
  BY <1>3, <1>4, <1>5, <1>6, <1>7 DEF Next

(* Who joins the queue has at most the other tasks before it, and when one *)
(* of them runs, it is not in the queue but has only its quantum left.     *)
LEMMA RrRoom ==
  ASSUME IInv, IInv', InStep, sched.name = "RR", NEW t \in Task, WaitBegins(t),
         RrDue' <= RrDue, RrDue' \in Int
  PROVE  Turn(RrDue', Until, Len(sched.queue), RrQuantum) <= Others * RrQuantum
<1> DEFINE n == Len(sched.queue)
<1>1. /\ now \in Nat /\ run_start \in Nat /\ RrQuantum \in Nat
      /\ Until \in Nat /\ SchedulerOK(sched, Task)
      /\ running \in Task \cup {None} /\ None \notin Task
  BY TaskFacts, PolicyAssumption, UntilType DEF IInv, TypeOK
<1>2. n \in Nat /\ n = Cardinality(ReadyTasks(sched))
  <2>1. sched.queue \in Seq(Task) /\ IsDuplicateFree(sched.queue)
        /\ ReadyTasks(sched) = Range(sched.queue)
    BY <1>1, FifoState DEF FifoNames
  <2> QED
    BY <2>1, LenIsCardinality, LenProperties
<1>3. ~Ready(t) /\ Until' = Until /\ running' \in {running, None} /\ step # "done"
  BY DEF WaitBegins
<1>4. Others \in Nat /\ n <= Others
  BY <1>2, <1>3, QueueRoom
<1>5. RrDue' <= Until \/ (RrDue' <= Until + RrQuantum /\ n + 1 <= Others)
  <2>1. CASE running = None
    BY <2>1 DEF RrDue
  <2>2. CASE running = t
    <3>1. Task' = Task /\ state'[t] = "Ready"
      BY NextWaits, WaitBegins(t) DEF IInv, TypeOK, WaitBegins
    <3>2. running' # t
      BY <3>1 DEF IInv, SingleRunner, Running
    <3> QED
      BY <1>1, <1>3, <2>2, <3>2 DEF RrDue
  <2>3. CASE running \in Task \ {t}
    <3>1. ~Ready(running)
      BY <2>3 DEF IInv, SingleRunner, Running, Ready
    <3>2. n + 1 <= Others
      BY <1>2, <1>3, <2>3, <3>1, QueueRoom
    <3>3. Elapsed \in Nat
      <4>1. sched.used_slice \in Nat
        BY <1>1, PolicyCases DEF RrOK
      <4>2. Elapsed = RrQuantum \/ Elapsed = sched.used_slice
        BY <1>1, <1>3, <2>3 DEF InStep, Follows, Justified, Tracks
      <4> QED
        BY <1>1, <4>1, <4>2
    <3>4. run_start <= Until
      BY <1>1, <3>3 DEF Elapsed, Until
    <3> QED
      BY <1>1, <2>3, <3>2, <3>4 DEF RrDue
  <2> QED
    BY <1>1, <2>1, <2>2, <2>3
<1> HIDE DEF n
<1> DEFINE all == Turn(Until, Until, Others, RrQuantum)
<1>6. all = Others * RrQuantum
  BY <1>1, <1>4, TurnsOnly
<1> HIDE DEF n, all
<1>7. ASSUME RrDue' <= Until
      PROVE  Turn(RrDue', Until, n, RrQuantum) <= all
  <2> DEFINE a == Turn(RrDue', Until, n, RrQuantum)
             b == Turn(Until, Until, n, RrQuantum)
  <2>1. a <= b
    BY <1>1, <1>2, <1>7, TurnEarlier
  <2>2. b <= all
    BY <1>1, <1>2, <1>4, TurnFurther DEF all
  <2>3. a \in Int /\ b \in Int /\ all \in Int
    <3>1. Until \in Int /\ n \in Int /\ Others \in Int
      BY <1>1, <1>2, <1>4
    <3>2. a \in Int
      BY <1>1, <3>1, TurnType
    <3>3. b \in Int
      BY <1>1, <3>1, TurnType
    <3>4. all \in Int
      BY <1>1, <3>1, TurnType DEF all
    <3> QED
      BY <3>2, <3>3, <3>4
  <2> HIDE DEF a, b
  <2>4. a <= all
    BY <2>1, <2>2, <2>3
  <2> QED
    BY <2>4 DEF a
<1>8. ASSUME RrDue' <= Until + RrQuantum, n + 1 <= Others
      PROVE  Turn(RrDue', Until, n, RrQuantum) <= all
  <2> DEFINE a == Turn(RrDue', Until, n, RrQuantum)
             b == Turn(Until + RrQuantum, Until, n, RrQuantum)
             c == Turn(Until, Until, n + 1, RrQuantum)
  <2>1. a <= b
    BY <1>1, <1>2, <1>8, TurnEarlier
  <2>2. b = c
    BY <1>1, <1>2, TurnNearer
  <2>3. c <= all
    BY <1>1, <1>2, <1>4, <1>8, TurnFurther DEF all
  <2>4. a \in Int /\ b \in Int /\ all \in Int
    <3>1. Until \in Int /\ Until + RrQuantum \in Int /\ n \in Int /\ Others \in Int
      BY <1>1, <1>2, <1>4
    <3>2. a \in Int
      BY <1>1, <3>1, TurnType
    <3>3. b \in Int
      BY <1>1, <3>1, TurnType
    <3>4. all \in Int
      BY <1>1, <3>1, TurnType DEF all
    <3> QED
      BY <3>2, <3>3, <3>4
  <2> HIDE DEF a, b, c
  <2>5. a <= all
    BY <2>1, <2>2, <2>3, <2>4
  <2> QED
    BY <2>5 DEF a
<1>9. Turn(RrDue', Until, n, RrQuantum) <= Others * RrQuantum
  BY <1>5, <1>6, <1>7, <1>8
<1> QED
  BY <1>9 DEF n

LEMMA NextRr ==
  ASSUME IInv, IInv', InStep, SinceKnown, RrTurns, [Next]_vars
  PROVE  RrTurns'
<1> SUFFICES ASSUME sched'.name = "RR"
             PROVE  /\ Until' <= RrDue'
                    /\ WithinTurns(sched'.queue, {}, ready_since', RrDue', RrQuantum,
                                   Others * RrQuantum)
  BY NextWaits DEF RrTurns, Others
<1> DEFINE q == sched.queue
           bound == Others * RrQuantum
<1>1. /\ sched.name = "RR" /\ Until <= RrDue
      /\ WithinTurns(q, {}, ready_since, RrDue, RrQuantum, bound)
  BY SameName DEF RrTurns
<1>2. /\ q \in Seq(Task) /\ IsDuplicateFree(q) /\ ReadyTasks(sched) = Range(q)
  BY <1>1, FifoState DEF IInv, TypeOK, FifoNames
<1>3. RrQuantum \in Nat /\ bound \in Int /\ Until \in Nat
  BY PolicyAssumption, TaskFacts, FS_CardinalityType, UntilType DEF IInv, Others
<1>4. \A x \in Range(q) : x \in Task /\ Ready(x) /\ ready_since[x] \in Nat
  BY <1>2 DEF IInv, ReadyAgree, SinceKnown
<1>5. /\ RrDue \in Int /\ RrDue' \in Int /\ Until' <= RrDue'
      /\ running' \in {running, None} =>
              RrDue' <= RrDue \/ (ReadyTasks(sched) = {} /\ sched' = sched)
      /\ running = None /\ running' # None => RrDue' = RrDue + RrQuantum
  BY <1>1, RrDueMoves
<1> HIDE DEF bound
<1>6. CASE q = << >> /\ sched'.queue = q
  BY <1>5, <1>6 DEF WithinTurns
<1>7. CASE WaitsOn /\ sched'.queue = q /\ q # << >>
  <2>1. ReadyTasks(sched) # {}
    BY <1>2, <1>7, EmptyVec
  <2>2. RrDue' <= RrDue
    BY <1>5, <1>7, <2>1 DEF WaitsOn
  <2>3. \A x \in Range(q) : ready_since'[x] = ready_since[x]
    BY <1>7 DEF WaitsOn
  <2>4. WithinTurns(q, {}, ready_since', RrDue', RrQuantum, bound)
    BY <1>1, <1>2, <1>3, <1>4, <1>5, <2>2, <2>3, TurnsStay
  <2> QED
    BY <1>5, <1>7, <2>4 DEF bound
<1>8. ASSUME NEW t \in Task, WaitBegins(t), sched'.queue = Append(q, t)
      PROVE  WithinTurns(Append(q, t), {}, ready_since', RrDue', RrQuantum, bound)
  <2>1. \A x \in Range(q) : ready_since'[x] = ready_since[x]
    BY <1>2, <1>8, SameWaits
  <2>2. ready_since'[t] = Until
    BY <1>8, SameWaits
  <2>3. CASE RrDue' <= RrDue
    <3>1. Turn(RrDue', ready_since'[t], Len(q), RrQuantum) <= bound
      BY <1>1, <1>5, <1>8, <2>2, <2>3, RrRoom DEF bound
    <3> QED
      BY <1>1, <1>2, <1>3, <1>4, <1>5, <2>1, <2>3, <3>1, TurnsPush
  <2>4. CASE sched' = sched
    <3>1. Len(Append(q, t)) = Len(q) + 1 /\ Len(q) \in Nat
      BY <1>2, <1>8, AppendProperties, LenProperties DEF WaitBegins
    <3> QED
      BY <1>8, <2>4, <3>1
  <2> QED
    BY <1>5, <1>8, <2>3, <2>4 DEF WaitBegins
<1>9. ASSUME NEW t \in Task, WaitEnds(t), q # << >>, t = Head(q), sched'.queue = Tail(q)
      PROVE  WithinTurns(Tail(q), {}, ready_since', RrDue', RrQuantum, bound)
  <2>1. \A x \in Range(q) \ {Head(q)} : ready_since'[x] = ready_since[x]
    BY <1>2, <1>9, SameWaits, RangeInTask
  <2>2. RrDue' = RrDue + RrQuantum
    BY <1>5, <1>9, TaskFacts DEF WaitEnds, IInv
  <2>3. WithinTurns(Tail(q), {}, ready_since', RrDue + RrQuantum, RrQuantum, bound)
    BY <1>1, <1>2, <1>3, <1>4, <1>5, <1>9, <2>1, TurnsPop
  <2> QED
    BY <2>2, <2>3
<1> QED
  BY <1>1, <1>5, <1>6, <1>7, <1>8, <1>9, FifoMoves DEF FifoNames, bound

(* With n tasks and a quantum of q ticks no task waits for more than       *)
(* (n - 1) * q ticks, however the others arrive, block and wake up.        *)
THEOREM RrWaitsBounded ==
  ASSUME Positive
  PROVE  Spec => []RrBoundedWait
<1>1. Init => RrTurns
  <2> SUFFICES ASSUME Init, sched.name = "RR"
               PROVE  Until <= RrDue /\ sched.queue = << >>
    BY DEF RrTurns, WithinTurns
  <2>1. PICK name \in SchedulerNames : sched = NewScheduler(name, Task)
    BY DEF Init
  <2>2. SchedulerOK(sched, Task) /\ ReadyTasks(sched) = {}
    BY <2>1, NewContract, ExperimentAssumption
  <2>3. sched.queue = << >>
    BY <2>2, FifoState, EmptyVec DEF FifoNames
  <2> QED
    BY <2>3 DEF Init, RrDue, Until
<1>2. IInv /\ IInv' /\ InStep /\ SinceKnown /\ RrTurns /\ [Next]_vars => RrTurns'
  BY NextRr
<1>3. IInv /\ SinceKnown /\ RrTurns => RrBoundedWait
  <2> SUFFICES ASSUME IInv, SinceKnown, RrTurns, sched.name = "RR",
                      NEW t \in Task, Ready(t)
               PROVE  WaitOf(t) <= Others * RrQuantum
    BY DEF RrBoundedWait
  <2> DEFINE q == sched.queue
  <2>1. q \in Seq(Task) /\ Range(q) = ReadyTasks(sched)
    BY FifoState DEF IInv, TypeOK, FifoNames
  <2>2. t \in Range(q)
    BY <2>1 DEF IInv, ReadyAgree
  <2>3. PICK i \in DOMAIN q : q[i] = t
    BY <2>2 DEF Range
  <2>4. i - 1 \in Nat
    BY <2>1, LenProperties
  <2>5. /\ now \in Nat /\ run_start \in Nat /\ Until \in Nat /\ now <= Until
        /\ RrQuantum \in Nat /\ ready_since[t] \in Nat
    BY UntilType, PolicyAssumption DEF IInv, TypeOK, SinceKnown
  <2> DEFINE m == i - 1
             s == ready_since[t]
             turn == Turn(RrDue, s, m, RrQuantum)
             most == Others * RrQuantum
  <2>6. turn <= most /\ Until <= RrDue
    BY <2>3 DEF RrTurns, WithinTurns
  <2>7. RrDue \in Int
    BY <2>5 DEF RrDue
  <2>8. m \in Nat /\ s \in Nat
    BY <2>4, <2>5
  <2>9. most \in Int
    <3>1. Others \in Int
      BY TaskFacts, FS_CardinalityType DEF IInv, Others
    <3> QED
      BY <2>5, <3>1
  <2> HIDE DEF m, q, s, most
  <2>10. turn \in Int
    BY <2>5, <2>7, <2>8, TurnType
  <2>11. RrDue - s <= turn
    BY <2>5, <2>7, <2>8, TurnAtLeast
  <2> HIDE DEF turn
  <2>12. now - s <= most
    BY <2>5, <2>6, <2>7, <2>8, <2>9, <2>10, <2>11
  <2> QED
    BY <2>12 DEF WaitOf, most, s
<1> QED
  BY <1>1, <1>2, <1>3, Invariance, WaitsKnown, StaysInStep, PTL DEF Spec

-----------------------------------------------------------------------------
(* MLFQ: what the operations do to the queues, the levels and the boost.   *)
Pushed(s, new, t) ==
  /\ new.next_boost_at = s.next_boost_at
  /\ \E l \in 0 .. 3 : \A k \in 0 .. 3 :
       new.queues[k] = IF k = l THEN Append(s.queues[k], t) ELSE s.queues[k]

Popped(s, new, t) ==
  /\ new.next_boost_at = s.next_boost_at
  /\ \E l \in 0 .. 3 :
       /\ s.queues[l] # << >> /\ t = Head(s.queues[l]) /\ new.mlfq_level[t] = l
       /\ \A k \in 0 .. l - 1 : s.queues[k] = << >>
       /\ \A k \in 0 .. 3 :
            new.queues[k] = IF k = l THEN Tail(s.queues[k]) ELSE s.queues[k]

SameQueues(s, new) == new.queues = s.queues /\ new.next_boost_at = s.next_boost_at

BoostDone(s, new, time) ==
  /\ new.queues[0] = Mlfq!AllQueued(s)
  /\ \A l \in 1 .. 3 : new.queues[l] = << >>
  /\ new.next_boost_at = time + BoostInterval

LEMMA MlfqState ==
  ASSUME NEW Ids, NEW s, SchedulerOK(s, Ids), s.name = "MLFQ"
  PROVE  /\ MlfqOK(s, Ids)
         /\ s.queues \in [0 .. 3 -> Seq(Ids)] /\ s.mlfq_level \in [Ids -> 0 .. 3]
         /\ s.next_boost_at \in Nat
         /\ \A l \in 0 .. 3 : /\ s.queues[l] \in Seq(Ids) /\ IsDuplicateFree(s.queues[l])
                              /\ Range(s.queues[l]) \subseteq ReadyTasks(s)
         /\ ReadyTasks(s) = UNION {Range(s.queues[l]) : l \in 0 .. 3}
<1>1. MlfqOK(s, Ids)
  BY PolicyCases
<1>2. ReadyTasks(s) = UNION {Range(s.queues[l]) : l \in 0 .. 3}
  BY DEF ReadyTasks, Mlfq!Level, Mlfq!NumLevels
<1> QED
  BY <1>1, <1>2 DEF MlfqOK, Mlfq!Level, Mlfq!NumLevels

LEMMA MlfqPush ==
  ASSUME NEW Ids, NEW s, s.name = "MLFQ", MlfqOK(s, Ids), NEW t \in Ids
  PROVE  Pushed(s, Mlfq!Enqueue(s, t), t)
<1> DEFINE l == s.mlfq_level[t]
           q == Append(s.queues[l], t)
           new == Mlfq!Enqueue(s, t)
<1>1. l \in 0 .. 3 /\ s.queues \in [0 .. 3 -> Seq(Ids)]
  BY DEF MlfqOK, Mlfq!Level, Mlfq!NumLevels
<1>2. new = [s EXCEPT !.queues[l] = q]
  <2>1. Mlfq!Enqueue(s, t) = Mlfq!PushLevel(s, t, l)
    BY DEF Mlfq!Enqueue
  <2> HIDE DEF l
  <2>2. l < 4
    BY <1>1
  <2>3. Mlfq!PushLevel(s, t, l) = [s EXCEPT !.queues[l] = Append(@, t)]
    BY <2>2 DEF Mlfq!PushLevel, Mlfq!NumLevels
  <2> QED
    BY <2>1, <2>3
<1>3. q = Append(s.queues[l], t)
  OBVIOUS
<1> HIDE DEF l, q, new
<1>4. /\ new.next_boost_at = s.next_boost_at
      /\ \A k \in 0 .. 3 : new.queues[k] = IF k = l THEN q ELSE s.queues[k]
  BY <1>1, <1>2 DEF MlfqOK
<1>5. Pushed(s, new, t)
  BY <1>1, <1>3, <1>4 DEF Pushed
<1> QED
  BY <1>5 DEF new

LEMMA MlfqReady ==
  ASSUME NEW Ids, NEW s, SchedulerOK(s, Ids), s.name = "MLFQ", NEW t \in Ids,
         NEW new \in {Enqueue(s, t), OnWakeup(s, t)}
  PROVE  Pushed(s, new, t)
<1>1. MlfqOK(s, Ids)
  BY PolicyCases
<1>2. CASE new = Enqueue(s, t)
  <2>1. new = Mlfq!Enqueue(s, t)
    BY <1>2 DEF Enqueue
  <2> QED
    BY <1>1, <2>1, MlfqPush
<1>3. CASE new = OnWakeup(s, t)
  <2> DEFINE level == IF s.mlfq_level[t] > 0 THEN s.mlfq_level[t] - 1 ELSE s.mlfq_level[t]
             promoted == [s EXCEPT !.mlfq_level[t] = level]
  <2>1. level \in Mlfq!Level
    BY <1>1 DEF MlfqOK, Mlfq!Level, Mlfq!NumLevels
  <2>2. new = Mlfq!Enqueue(promoted, t)
    BY <1>3 DEF OnWakeup, Mlfq!OnWakeup
  <2> HIDE DEF level
  <2>3. /\ MlfqOK(promoted, Ids) /\ promoted.name = "MLFQ"
        /\ promoted.queues = s.queues /\ promoted.next_boost_at = s.next_boost_at
    BY <1>1, <2>1 DEF MlfqOK
  <2> HIDE DEF promoted
  <2>4. Pushed(promoted, new, t)
    BY <2>2, <2>3, MlfqPush
  <2> QED
    BY <2>3, <2>4 DEF Pushed
<1> QED
  BY <1>2, <1>3

LEMMA MlfqBlock ==
  ASSUME NEW Ids, NEW s, SchedulerOK(s, Ids), s.name = "MLFQ", NEW t
  PROVE  SameQueues(s, OnBlock(s, t))
<1>1. MlfqOK(s, Ids)
  BY PolicyCases
<1>2. OnBlock(s, t) \in {s, [s EXCEPT !.running = None, !.used_slice = 0]}
  BY DEF OnBlock, Mlfq!OnBlock
<1> QED
  BY <1>1, <1>2 DEF MlfqOK, SameQueues

LEMMA MlfqPick ==
  ASSUME NEW Ids, NEW s, SchedulerOK(s, Ids), s.name = "MLFQ", NEW cpu, NEW class,
         NEW o \in PickNext(s, cpu, class), None \notin Ids
  PROVE  IF o.next = None THEN SameQueues(s, o.sched) ELSE Popped(s, o.sched, o.next)
<1>1. MlfqOK(s, Ids) /\ o \in Mlfq!PickNext(s)
  BY PolicyCases DEF PickNext
<1>2. CASE Mlfq!TopLevels(s) = {}
  <2>1. o = [next |-> None, sched |-> [s EXCEPT !.running = None]]
    BY <1>1, <1>2 DEF Mlfq!PickNext
  <2> QED
    BY <1>1, <2>1 DEF SameQueues, MlfqOK
<1>3. CASE Mlfq!TopLevels(s) # {}
  <2>1. PICK l \in Mlfq!TopLevels(s) :
          o = [next |-> Head(s.queues[l]),
               sched |-> [s EXCEPT !.queues[l] = Tail(@),
                           !.mlfq_level[Head(s.queues[l])] = l,
                           !.running = Head(s.queues[l]),
                           !.used_slice = 0]]
    BY <1>1, <1>3 DEF Mlfq!PickNext
  <2> DEFINE t == Head(s.queues[l])
             rest == Tail(s.queues[l])
  <2>2. /\ l \in 0 .. 3 /\ s.queues[l] # << >> /\ s.queues \in [0 .. 3 -> Seq(Ids)]
        /\ s.mlfq_level \in [Ids -> 0 .. 3]
        /\ IsDuplicateFree(s.queues[l]) /\ \A k \in 0 .. l - 1 : s.queues[k] = << >>
    BY <1>1 DEF Mlfq!TopLevels, MlfqOK, Mlfq!Level, Mlfq!NumLevels
  <2>3. t \in Ids
    BY <2>2, PopFront, RangeInTask
  <2>4. o.next = t /\ o.sched = [s EXCEPT !.queues[l] = rest, !.mlfq_level[t] = l,
                                         !.running = t, !.used_slice = 0]
    BY <2>1
  <2>5. t = Head(s.queues[l]) /\ rest = Tail(s.queues[l])
    OBVIOUS
  <2> HIDE DEF t, rest
  <2>6. /\ o.sched.mlfq_level[t] = l /\ o.sched.next_boost_at = s.next_boost_at
        /\ \A k \in 0 .. 3 : o.sched.queues[k] = IF k = l THEN rest ELSE s.queues[k]
    BY <1>1, <2>2, <2>3, <2>4 DEF MlfqOK
  <2>7. Popped(s, o.sched, t)
    BY <2>2, <2>5, <2>6 DEF Popped
  <2> QED
    BY <2>3, <2>4, <2>7
<1> QED
  BY <1>2, <1>3

LEMMA MlfqBoost ==
  ASSUME NEW Ids, NEW s, s.name = "MLFQ", MlfqOK(s, Ids), NEW time \in Nat
  PROVE  IF time >= s.next_boost_at THEN BoostDone(s, Mlfq!Boosted(s, time), time)
                                    ELSE Mlfq!Boosted(s, time) = s
<1> DEFINE all == Mlfq!AllQueued(s)
           queues == [l \in Mlfq!Level |-> IF l = 0 THEN all ELSE << >>]
           levels == [t \in DOMAIN s.mlfq_level |->
                        IF t \in Mlfq!Range(all) THEN 0 ELSE s.mlfq_level[t]]
           new == Mlfq!Boosted(s, time)
<1>1. CASE time >= s.next_boost_at
  <2>1. new = [[s EXCEPT !.queues = queues, !.mlfq_level = levels]
                 EXCEPT !.next_boost_at = time + BoostInterval]
    BY <1>1 DEF Mlfq!Boosted, Mlfq!BoostAll
  <2>2. queues[0] = all /\ \A l \in 1 .. 3 : queues[l] = << >>
    BY DEF Mlfq!Level, Mlfq!NumLevels
  <2>3. all = Mlfq!AllQueued(s)
    OBVIOUS
  <2> HIDE DEF all, queues, levels, new
  <2>4. new.queues = queues /\ new.next_boost_at = time + BoostInterval
    BY <2>1 DEF MlfqOK
  <2>5. BoostDone(s, new, time)
    BY <2>2, <2>3, <2>4 DEF BoostDone
  <2> QED
    BY <1>1, <2>5 DEF new
<1>2. CASE ~(time >= s.next_boost_at)
  BY <1>2 DEF Mlfq!Boosted
<1> QED
  BY <1>1, <1>2

(* A task that may go on keeps its level.                                  *)
LEMMA MlfqTick ==
  ASSUME NEW Ids, NEW s, SchedulerOK(s, Ids), s.name = "MLFQ", QueuesByLevel(s),
         NEW t \in Ids, t \notin ReadyTasks(s), NEW class, NEW time \in Nat,
         NEW o \in OnTick(s, class, t, time)
  PROVE  /\ IF time >= s.next_boost_at THEN BoostDone(s, o.sched, time)
                                       ELSE SameQueues(s, o.sched)
         /\ o.action \in {"Continue", "Preempt"}
         /\ o.action = "Continue" => o.sched.mlfq_level[t] = s.mlfq_level[t]
<1> DEFINE b == Mlfq!Boosted(s, time)
           used == (IF b.running = t THEN b.used_slice ELSE 0) + 1
           level == b.mlfq_level[t]
           lower == IF level + 1 < 4 THEN level + 1 ELSE level
           off == [b EXCEPT !.running = None, !.used_slice = 0, !.mlfq_level[t] = lower]
           on == [b EXCEPT !.running = t, !.used_slice = used]
<1>1. MlfqOK(s, Ids)
  BY PolicyCases
<1>2. MlfqOK(b, Ids) /\ b.mlfq_level[t] = s.mlfq_level[t]
  BY <1>1, BoostContract, BoostBooks
<1>3. o \in {[action |-> "Preempt", sched |-> off], [action |-> "Continue", sched |-> on]}
  BY DEF OnTick, Mlfq!OnTick, Mlfq!NumLevels
<1>4. IF time >= s.next_boost_at THEN BoostDone(s, b, time) ELSE b = s
  BY <1>1, MlfqBoost
<1> HIDE DEF b, used, level, lower
<1>5. /\ on.queues = b.queues /\ on.next_boost_at = b.next_boost_at
      /\ off.queues = b.queues /\ off.next_boost_at = b.next_boost_at
      /\ on.mlfq_level = b.mlfq_level
  BY <1>2 DEF MlfqOK
<1> HIDE DEF on, off
<1>6. o.sched.queues = b.queues /\ o.sched.next_boost_at = b.next_boost_at
  BY <1>3, <1>5
<1>7. IF time >= s.next_boost_at THEN BoostDone(s, o.sched, time) ELSE SameQueues(s, o.sched)
  BY <1>4, <1>6 DEF BoostDone, SameQueues
<1> QED
  BY <1>2, <1>3, <1>5, <1>7

(* What a step of the loop does to the waits and to the queues of MLFQ.    *)
LEMMA MlfqMoves ==
  ASSUME IInv, InStep, [Next]_vars, sched.name = "MLFQ"
  PROVE  \/ WaitsOn /\ SameQueues(sched, sched')
         \/ \E t \in Task : WaitBegins(t) /\ Pushed(sched, sched', t)
         \/ \E t \in Task : WaitEnds(t) /\ Popped(sched, sched', t)
         \/ WaitsOn /\ Tick /\ BoostDone(sched, sched', now)
<1>1. SchedulerOK(sched, Task) /\ now \in Nat /\ None \notin Task /\ QueuesByLevel(sched)
  BY TaskFacts DEF IInv, TypeOK, InStep
<1>2. ASSUME NEW t \in Task, Wake(t) \/ Arrive(t)
      PROVE  WaitBegins(t) /\ Pushed(sched, sched', t)
  BY <1>1, <1>2, WakeWaits, MlfqReady DEF Wake, Arrive
<1>3. CASE Dispatch
  <2>1. PICK o \in PickNext(sched, remaining_cpu, Class) :
          o.next # None /\ sched' = o.sched /\ SwitchContext(o.next, now, ReadyLen(o.sched))
    BY <1>3 DEF Dispatch
  <2>2. running' = o.next
    BY <1>3, <2>1 DEF Dispatch, SwitchContext
  <2>3. WaitEnds(running') /\ running' \in Task
    BY <1>3, DispatchWaits DEF WaitEnds
  <2>4. Popped(sched, sched', running')
    BY <1>1, <2>1, <2>2, MlfqPick
  <2> QED
    BY <2>3, <2>4
<1>4. CASE Preempt
  <2>1. WaitBegins(running) /\ running \in Task
    BY <1>4, PreemptWaits DEF WaitBegins
  <2>2. Pushed(sched, sched', running)
    BY <1>1, <1>4, <2>1, MlfqReady DEF Preempt
  <2> QED
    BY <2>1, <2>2
<1>5. CASE StayIdle
  <2>1. SameQueues(sched, sched')
    BY <1>1, <1>5, MlfqPick DEF StayIdle
  <2> QED
    BY <1>5, <2>1, MoveWaits
<1>6. CASE Tick
  <2>1. running \in Task /\ running \notin ReadyTasks(sched)
    BY <1>6 DEF Tick, IInv, TypeOK, ReadyAgree, Ready, SingleRunner, Running
  <2>2. BoostDone(sched, sched', now) \/ SameQueues(sched, sched')
    BY <1>1, <1>6, <2>1, MlfqTick DEF Tick
  <2> QED
    BY <1>6, <2>2, MoveWaits
<1>7. CASE Block
  <2>1. SameQueues(sched, sched')
    BY <1>1, <1>7, MlfqBlock DEF Block
  <2> QED
    BY <1>7, <2>1, MoveWaits
<1>8. CASE \/ WakesDone \/ ArrivalsDone \/ KeepRunning \/ Account \/ NoTask \/ Finish
           \/ Continue \/ NextTick \/ Break \/ Terminated \/ UNCHANGED vars
  <2>1. sched' = sched
    BY <1>8 DEF WakesDone, ArrivalsDone, KeepRunning, Account, NoTask, Finish, Continue,
       NextTick, Break, Terminated, vars
  <2> QED
    BY <1>8, <2>1, MoveWaits DEF SameQueues
<1> QED
  BY <1>2, <1>3, <1>4, <1>5, <1>6, <1>7, <1>8 DEF Next

-----------------------------------------------------------------------------
(* The time at which the running task has to be off the CPU: at the end of *)
(* the quantum of its level, which it keeps while it runs.                 *)
LevelQuantum(s, t) == MlfqQuantums[s.mlfq_level[t]]

MlfqDue ==
  IF running = None \/ (step = "settle" /\ action = "Preempt")
  THEN Until ELSE run_start + LevelQuantum(sched, running)

LEMMA LevelQuantumType ==
  ASSUME IInv, sched.name = "MLFQ", NEW t \in Task
  PROVE  LevelQuantum(sched, t) \in Nat /\ sched.mlfq_level[t] \in 0 .. 3
<1>1. sched.mlfq_level \in [Task -> 0 .. 3]
  BY MlfqState DEF IInv, TypeOK
<1>2. sched.mlfq_level[t] \in 0 .. 3
  BY <1>1
<1> QED
  BY <1>2, PolicyAssumption DEF LevelQuantum

(* Neither a wake-up nor a boost puts the running task on another level.   *)
LEMMA KeepsLevel ==
  ASSUME IInv, InStep, sched.name = "MLFQ", running # None,
         (\E t \in Task : Wake(t) \/ Arrive(t)) \/ (Tick /\ action' # "Preempt")
  PROVE  LevelQuantum(sched', running) = LevelQuantum(sched, running)
<1>1. /\ SchedulerOK(sched, Task) /\ now \in Nat /\ None \notin Task /\ QueuesByLevel(sched)
      /\ running \in Task /\ running \notin ReadyTasks(sched)
  BY TaskFacts DEF IInv, TypeOK, InStep, ReadyAgree, Ready, SingleRunner, Running
<1>2. CASE Tick /\ action' # "Preempt"
  <2>1. PICK o \in OnTick(sched, Class, running, now) : action' = o.action /\ sched' = o.sched
    BY <1>2 DEF Tick
  <2>2. sched'.mlfq_level[running] = sched.mlfq_level[running]
    BY <1>1, <1>2, <2>1, MlfqTick
  <2> QED
    BY <2>2 DEF LevelQuantum
<1>3. ASSUME NEW t \in Task, Wake(t) \/ Arrive(t)
      PROVE  LevelQuantum(sched', running) = LevelQuantum(sched, running)
  <2>1. t # running /\ t \notin ReadyTasks(sched)
    BY <1>3 DEF IInv, ReadyAgree, Ready, SingleRunner, Running, Wake, Arrive, IsFirst,
       WakeList, ArrivalList
  <2>2. CASE Wake(t)
    BY <1>1, <2>1, <2>2, WakeupBooks DEF Wake, LevelQuantum
  <2>3. CASE Arrive(t)
    BY <1>1, <2>1, <2>3, EnqueueBooks DEF Arrive, LevelQuantum
  <2> QED
    BY <1>3, <2>2, <2>3
<1> QED
  BY <1>2, <1>3

LEMMA MlfqDueMoves ==
  ASSUME IInv, IInv', InStep, sched.name = "MLFQ", Until <= MlfqDue, [Next]_vars
  PROVE  /\ MlfqDue \in Int /\ MlfqDue' \in Int /\ Until' <= MlfqDue'
         /\ running' \in {running, None} =>
              MlfqDue' <= MlfqDue \/ (ReadyTasks(sched) = {} /\ sched' = sched)
         /\ running = None /\ running' # None =>
              MlfqDue' = MlfqDue + LevelQuantum(sched', running')
<1>1. /\ now \in Nat /\ run_start \in Nat /\ run_start' \in Nat /\ Until' \in Nat
      /\ running \in Task \cup {None} /\ None \notin Task
      /\ running' \in Task' \cup {None} /\ sched'.name = "MLFQ"
  <2>1. Until' \in Nat
    BY DEF IInv, TypeOK, Until
  <2> QED
    BY <2>1, TaskFacts, SameName DEF IInv, TypeOK
<1>2. /\ running # None => LevelQuantum(sched, running) \in Nat
      /\ running' # None => LevelQuantum(sched', running') \in Nat
  <2>1. running # None => LevelQuantum(sched, running) \in Nat
    BY <1>1, LevelQuantumType
  <2>2. SchedulerOK(sched', Task')
    BY DEF IInv, TypeOK
  <2>3. sched'.mlfq_level \in [Task' -> 0 .. 3]
    BY <1>1, <2>2, MlfqState
  <2>4. ASSUME running' # None
        PROVE  LevelQuantum(sched', running') \in Nat
    <3>1. sched'.mlfq_level[running'] \in 0 .. 3
      BY <1>1, <2>3, <2>4
    <3> QED
      BY <3>1, PolicyAssumption DEF LevelQuantum
  <2> QED
    BY <2>1, <2>4
<1>3. MlfqDue \in Int /\ MlfqDue' \in Int
  <2>1. MlfqDue \in Int
    BY <1>1, <1>2, UntilType DEF MlfqDue
  <2>2. MlfqDue' \in {Until', run_start' + LevelQuantum(sched', running')}
        /\ (running' = None => MlfqDue' = Until')
    BY DEF MlfqDue
  <2> QED
    BY <1>1, <1>2, <2>1, <2>2
<1>4. CASE Dispatch
  <2>1. Until = now /\ Until' = now /\ step' = "account"
    BY <1>4 DEF Dispatch, Until
  <2>2. running = None /\ running' # None /\ run_start' = now
    BY <1>1, <1>4, DispatchWaits DEF WaitEnds
  <2>3. MlfqDue = now /\ MlfqDue' = now + LevelQuantum(sched', running')
    BY <2>1, <2>2 DEF MlfqDue
  <2> QED
    BY <1>1, <1>2, <1>3, <1>4, <2>1, <2>2, <2>3, DispatchWaits DEF WaitEnds
<1>5. CASE Finish \/ Block \/ Preempt
  <2>1. running' = None
    BY <1>5 DEF Finish, Block, Preempt, SwitchContext, cpuVars
  <2>2. Until = now + 1 /\ Until' = now + 1
    BY <1>5 DEF Finish, Block, Preempt, Until
  <2>3. MlfqDue' = Until'
    BY <2>1 DEF MlfqDue
  <2> QED
    BY <1>1, <1>3, <2>1, <2>2, <2>3
<1>6. CASE NoTask
  <2>1. running' = None /\ Until' = now + 1 /\ sched' = sched
    BY <1>6 DEF NoTask, cpuVars, Until
  <2>2. ReadyTasks(sched) = {}
    BY <1>6 DEF NoTask, IInv, IdleJustified, ReadyAgree
  <2>3. MlfqDue' = Until'
    BY <2>1 DEF MlfqDue
  <2> QED
    BY <1>1, <1>3, <2>1, <2>2, <2>3
<1>7. CASE Tick
  <2>1. /\ running # None /\ running' = running /\ run_start' = run_start
        /\ Until' = now + 1 /\ step = "tick"
    BY <1>7 DEF Tick, cpuVars, Until
  <2>2. now - run_start < LevelQuantum(sched, running)
    BY <1>7 DEF Tick, InStep, Follows, Tracks, Elapsed, LevelQuantum
  <2>3. MlfqDue = run_start + LevelQuantum(sched, running)
    BY <2>1 DEF MlfqDue
  <2>4. MlfqDue' \in {Until', MlfqDue}
    <3>1. CASE action' = "Preempt"
      BY <1>7, <3>1 DEF MlfqDue, Tick
    <3>2. CASE action' # "Preempt"
      BY <1>7, <2>1, <2>3, <3>2, KeepsLevel DEF MlfqDue
    <3> QED
      BY <3>1, <3>2
  <2> QED
    BY <1>1, <1>2, <1>3, <2>1, <2>2, <2>3, <2>4
<1>8. CASE \/ \E t \in Task : Wake(t) \/ Arrive(t)
           \/ WakesDone \/ ArrivalsDone \/ KeepRunning \/ StayIdle \/ Account
           \/ Continue \/ NextTick \/ Break \/ Terminated \/ UNCHANGED vars
  <2>1. running' = running /\ run_start' = run_start
    BY <1>8 DEF Wake, Arrive, WakesDone, ArrivalsDone, KeepRunning, StayIdle, Account,
       Continue, NextTick, Break, Terminated, vars, cpuVars
  <2>2. Until' = Until
    <3>1. CASE NextTick \/ Break
      BY <1>1, <3>1 DEF NextTick, Break, Until
    <3> QED
      BY <1>8, <3>1 DEF Wake, Arrive, WakesDone, ArrivalsDone, KeepRunning, StayIdle, Account,
         Continue, Terminated, vars, Until
  <2>3. CASE running = None
    BY <1>3, <2>1, <2>2, <2>3 DEF MlfqDue
  <2>4. CASE running # None
    <3>1. LevelQuantum(sched', running) = LevelQuantum(sched, running)
      <4>1. CASE \E t \in Task : Wake(t) \/ Arrive(t)
        BY <2>4, <4>1, KeepsLevel
      <4>2. CASE sched' = sched
        BY <4>2
      <4> QED
        BY <1>8, <2>4, <4>1, <4>2 DEF WakesDone, ArrivalsDone, KeepRunning, StayIdle,
           Account, Continue, NextTick, Break, Terminated, vars
    <3>2. (step = "settle" /\ action = "Preempt") <=> (step' = "settle" /\ action' = "Preempt")
      BY <1>8 DEF Wake, Arrive, WakesDone, ArrivalsDone, KeepRunning, StayIdle, Account,
         Continue, NextTick, Break, Terminated, vars
    <3> QED
      BY <1>1, <1>3, <2>1, <2>2, <2>4, <3>1, <3>2 DEF MlfqDue
  <2> QED
    BY <2>3, <2>4
<1> QED
  BY <1>4, <1>5, <1>6, <1>7, <1>8 DEF Next

-----------------------------------------------------------------------------
(* The boost interval is not 0, and the lowest level has the longest       *)
(* quantum, as MlfqScheduler::new() has it.                                *)
Rising == BoostInterval > 0 /\ \A l \in 0 .. 3 : MlfqQuantums[l] <= MlfqQuantums[3]

MlfqBound == BoostInterval + MlfqQuantums[3] + Others * MlfqQuantums[0]

(* The ready tasks that the next boost will find in time: no later than    *)
(* BoostInterval after they became ready.                                  *)
Fresh == {t \in Task : Ready(t) /\ ready_since[t] + BoostInterval >= sched.next_boost_at}

(* A queued task is fresh, or it has been boosted to level 0 and gets the  *)
(* CPU in its turn there, which no boost makes longer.  While anybody is   *)
(* ready the boost is not overdue.                                         *)
MlfqTurns ==
  sched.name = "MLFQ" =>
    /\ sched.next_boost_at <= now + BoostInterval
    /\ \A t \in Task : Ready(t) => Until <= sched.next_boost_at \/ ready_since[t] >= Until
    /\ Until <= MlfqDue
    /\ \A l \in 1 .. 3 : Range(sched.queues[l]) \subseteq Fresh
    /\ WithinTurns(sched.queues[0], Fresh, ready_since, MlfqDue, MlfqQuantums[0], MlfqBound)

LEMMA MlfqBoundType ==
  ASSUME IInv
  PROVE  /\ MlfqBound \in Int /\ Others \in Int /\ BoostInterval \in Nat
         /\ \A l \in 0 .. 3 : MlfqQuantums[l] \in Nat
<1>1. Others \in Int
  BY TaskFacts, FS_CardinalityType DEF IInv, Others
<1>2. BoostInterval \in Nat /\ MlfqQuantums[0] \in Nat /\ MlfqQuantums[3] \in Nat
      /\ \A l \in 0 .. 3 : MlfqQuantums[l] \in Nat
  BY PolicyAssumption
<1>3. Others * MlfqQuantums[0] \in Int
  BY <1>1, <1>2
<1> QED
  BY <1>1, <1>2, <1>3 DEF MlfqBound

(* A fresh task gets its turn in time wherever it stands.                  *)
LEMMA FreshTurn ==
  ASSUME IInv, NEW due \in Int, NEW s \in Int, NEW n \in Int, n <= Others,
         due - s <= BoostInterval + MlfqQuantums[3]
  PROVE  Turn(due, s, n, MlfqQuantums[0]) <= MlfqBound
<1> DEFINE q == MlfqQuantums[0]
           turns == n * q
           more == Others * q
           a == Turn(due, s, n, q)
           b == Turn(due, s, Others, q)
<1>1. /\ q \in Nat /\ MlfqQuantums[3] \in Nat /\ Others \in Int /\ BoostInterval \in Nat
  BY MlfqBoundType
<1>2. MlfqBound = (BoostInterval + MlfqQuantums[3]) + more
  BY DEF MlfqBound
<1> HIDE DEF q
<1>3. more \in Int
  BY <1>1
<1>4. b = (due - s) + more
  BY <1>1, TurnParts
<1>5. a <= b
  BY <1>1, TurnFurther
<1>6. a \in Int
  BY <1>1, TurnType
<1> HIDE DEF a, b, more
<1>7. a <= MlfqBound
  BY <1>1, <1>2, <1>3, <1>4, <1>5, <1>6
<1> QED
  BY <1>7 DEF a, q

LEMMA ConcatFirst ==
  ASSUME NEW T, NEW p \in Seq(T), NEW q \in Seq(T)
  PROVE  DOMAIN p \subseteq DOMAIN (p \o q) /\ \A i \in DOMAIN p : (p \o q)[i] = p[i]
<1>1. /\ Len(p) \in Nat /\ Len(q) \in Nat /\ DOMAIN p = 1 .. Len(p)
  BY LenProperties
<1>2. DOMAIN (p \o q) = 1 .. Len(p) + Len(q)
  BY ConcatProperties, LenProperties
<1>3. ASSUME NEW i \in 1 .. Len(p)
      PROVE  i \in 1 .. Len(p) + Len(q) /\ i <= Len(p)
  BY <1>1
<1> QED
  BY <1>1, <1>2, <1>3, ConcatProperties

(* A boost leaves the tasks of level 0 where they stand.                   *)
LEMMA AllQueuedFirst ==
  ASSUME NEW Ids, NEW s, SchedulerOK(s, Ids), s.name = "MLFQ"
  PROVE  LET all == Mlfq!AllQueued(s)
         IN  /\ all \in Seq(Ids) /\ IsDuplicateFree(all) /\ Range(all) = ReadyTasks(s)
             /\ DOMAIN s.queues[0] \subseteq DOMAIN all
             /\ \A i \in DOMAIN s.queues[0] : all[i] = s.queues[0][i]
<1> DEFINE all == Mlfq!AllQueued(s)
           a == s.queues[0] \o s.queues[1]
           b == a \o s.queues[2]
<1>1. MlfqOK(s, Ids) /\ \A l \in 0 .. 3 : s.queues[l] \in Seq(Ids)
  BY MlfqState
<1>2. all \in Seq(Ids) /\ IsDuplicateFree(all) /\ Range(all) = ReadyTasks(s)
  BY <1>1, AllQueuedContract
<1>3. a \in Seq(Ids) /\ b \in Seq(Ids)
  BY <1>1, ConcatProperties
<1>4. /\ DOMAIN s.queues[0] \subseteq DOMAIN a
      /\ \A i \in DOMAIN s.queues[0] : a[i] = s.queues[0][i]
  <2>1. s.queues[0] \in Seq(Ids) /\ s.queues[1] \in Seq(Ids)
    BY <1>1
  <2> QED
    BY <2>1, ConcatFirst
<1> HIDE DEF a
<1>5. DOMAIN a \subseteq DOMAIN b /\ \A i \in DOMAIN a : b[i] = a[i]
  <2>1. s.queues[2] \in Seq(Ids)
    BY <1>1
  <2> QED
    BY <1>3, <2>1, ConcatFirst
<1>6. all = b \o s.queues[3]
  BY DEF Mlfq!AllQueued, a
<1> HIDE DEF b, all
<1>7. DOMAIN b \subseteq DOMAIN all /\ \A i \in DOMAIN b : all[i] = b[i]
  <2>1. s.queues[3] \in Seq(Ids)
    BY <1>1
  <2> QED
    BY <1>3, <1>6, <2>1, ConcatFirst
<1> QED
  BY <1>2, <1>4, <1>5, <1>7 DEF all

(* What the invariant says of the state before the step.                   *)
MlfqBefore ==
  /\ IInv /\ IInv' /\ InStep /\ SinceKnown /\ MlfqTurns /\ Rising
  /\ sched.name = "MLFQ" /\ sched'.name = "MLFQ" /\ [Next]_vars

LEMMA MlfqFacts ==
  ASSUME MlfqBefore
  PROVE  /\ SchedulerOK(sched, Task)
         /\ Task' = Task /\ Others' = Others /\ MlfqBound' = MlfqBound
         /\ now \in Nat /\ Until \in Nat /\ now <= Until /\ sched.next_boost_at \in Nat
         /\ \A x \in ReadyTasks(sched) : /\ x \in Task /\ Ready(x)
                                         /\ ready_since[x] \in Nat /\ ready_since[x] <= Until
         /\ sched.next_boost_at <= now + BoostInterval
         /\ Until <= MlfqDue
         /\ \A l \in 1 .. 3 : Range(sched.queues[l]) \subseteq Fresh
         /\ WithinTurns(sched.queues[0], Fresh, ready_since, MlfqDue, MlfqQuantums[0],
                        MlfqBound)
<1>1. SchedulerOK(sched, Task)
  BY DEF MlfqBefore, IInv, TypeOK
<1>2. Task' = Task /\ Others' = Others /\ MlfqBound' = MlfqBound
  BY NextWaits DEF MlfqBefore, Others, MlfqBound
<1>3. /\ now \in Nat /\ Until \in Nat /\ now <= Until
  BY UntilType DEF MlfqBefore, IInv, TypeOK
<1>4. sched.next_boost_at \in Nat
  BY <1>1, MlfqState DEF MlfqBefore
<1>5. \A x \in ReadyTasks(sched) : /\ x \in Task /\ Ready(x)
                                   /\ ready_since[x] \in Nat /\ ready_since[x] <= Until
  BY DEF MlfqBefore, IInv, ReadyAgree, SinceKnown
<1> QED
  BY <1>1, <1>2, <1>3, <1>4, <1>5 DEF MlfqBefore, MlfqTurns

(* The time moves on at the tick only.                                     *)
LEMMA UntilStays ==
  ASSUME IInv, [Next]_vars, ~Tick, ~NoTask
  PROVE  Until' = Until /\ now' \in Nat /\ now <= now'
<1>1. now \in Nat
  BY DEF IInv, TypeOK
<1>2. CASE NextTick \/ Break
  BY <1>1, <1>2 DEF NextTick, Break, Until
<1>3. CASE Finish \/ Block \/ Preempt \/ Continue
  BY <1>1, <1>3 DEF Finish, Block, Preempt, Continue, Until
<1> QED
  BY <1>1, <1>2, <1>3 DEF Next, Wake, Arrive, WakesDone, ArrivalsDone, KeepRunning, Dispatch,
     StayIdle, Account, Terminated, vars, Until

(* No boost is overdue while anybody is ready.                             *)
LEMMA MlfqInTime ==
  ASSUME MlfqBefore
  PROVE  /\ sched'.next_boost_at <= now' + BoostInterval
         /\ Until' <= MlfqDue'
         /\ \A t \in Task' : state'[t] = "Ready" =>
              Until' <= sched'.next_boost_at \/ ready_since'[t] >= Until'
<1>1. BoostInterval \in Nat /\ BoostInterval > 0
  BY PolicyAssumption DEF MlfqBefore, Rising
<1>2. IInv /\ InStep /\ SinceKnown /\ sched.name = "MLFQ" /\ [Next]_vars
  BY DEF MlfqBefore
<1>3. Until' <= MlfqDue'
  BY MlfqFacts, MlfqDueMoves DEF MlfqBefore
<1>4. CASE Tick
  <2>1. PICK o \in OnTick(sched, Class, running, now) : action' = o.action /\ sched' = o.sched
    BY <1>4 DEF Tick
  <2>2. running \in Task /\ running \notin ReadyTasks(sched)
    BY <1>2, <1>4 DEF Tick, IInv, TypeOK, ReadyAgree, Ready, SingleRunner, Running
  <2>3. IF now >= sched.next_boost_at THEN BoostDone(sched, sched', now)
                                      ELSE SameQueues(sched, sched')
    BY <1>2, <2>1, <2>2, MlfqTick, MlfqFacts DEF InStep
  <2>4. now' = now /\ Until' = now + 1
    BY <1>4 DEF Tick, Until
  <2>5. sched'.next_boost_at <= now' + BoostInterval /\ Until' <= sched'.next_boost_at
    BY <1>1, <2>3, <2>4, MlfqFacts DEF BoostDone, SameQueues
  <2> QED
    BY <1>3, <2>5
<1>5. CASE NoTask
  <2>1. sched' = sched /\ now' = now /\ state' = state
    BY <1>5 DEF NoTask, taskVars
  <2>2. \A t \in Task : ~Ready(t)
    BY <1>2, <1>5 DEF NoTask, IInv, IdleJustified
  <2> QED
    BY <1>3, <2>1, <2>2, MlfqFacts DEF Ready
<1>6. CASE ~Tick /\ ~NoTask
  <2>1. Until' = Until /\ now' \in Nat /\ now <= now'
    BY <1>2, <1>6, UntilStays
  <2>2. sched'.next_boost_at = sched.next_boost_at
    BY <1>2, <1>6, MlfqMoves DEF SameQueues, Pushed, Popped
  <2>3. \A t \in Task : Ready(t) => Until <= sched.next_boost_at \/ ready_since[t] >= Until
    BY <1>2 DEF MlfqBefore, MlfqTurns
  <2>4. ASSUME NEW t \in Task, state'[t] = "Ready"
        PROVE  Until' <= sched'.next_boost_at \/ ready_since'[t] >= Until'
    <3>1. /\ state \in [Task -> {"New", "Ready", "Running", "Blocked", "Done"}]
          /\ ready_since \in [Task -> Nat \cup {None}] /\ Until \in Nat
      BY <1>2, UntilType DEF IInv, TypeOK
    <3>2. CASE WaitsOn
      BY <2>1, <2>2, <2>3, <2>4, <3>2 DEF WaitsOn, Ready
    <3>3. ASSUME NEW u \in Task, WaitBegins(u)
          PROVE  Until' <= sched'.next_boost_at \/ ready_since'[t] >= Until'
      BY <2>1, <2>2, <2>3, <2>4, <3>1, <3>3 DEF WaitBegins, Ready
    <3>4. ASSUME NEW u \in Task, WaitEnds(u)
          PROVE  Until' <= sched'.next_boost_at \/ ready_since'[t] >= Until'
      BY <2>1, <2>2, <2>3, <2>4, <3>1, <3>4 DEF WaitEnds, Ready
    <3> QED
      BY <1>2, <3>2, <3>3, <3>4, NextWaits
  <2>5. sched'.next_boost_at <= now' + BoostInterval
    BY <1>1, <2>1, <2>2, MlfqFacts
  <2> QED
    BY <1>3, <2>4, <2>5, MlfqFacts
<1> QED
  BY <1>4, <1>5, <1>6

(* What MlfqInTime leaves to show.                                         *)
MlfqPlaces ==
  /\ \A l \in 1 .. 3 : Range(sched'.queues[l]) \subseteq Fresh'
  /\ WithinTurns(sched'.queues[0], Fresh', ready_since', MlfqDue', MlfqQuantums[0], MlfqBound)

LEMMA MlfqStay ==
  ASSUME MlfqBefore, WaitsOn, SameQueues(sched, sched')
  PROVE  MlfqPlaces
<1>1. /\ ready_since' = ready_since /\ sched'.queues = sched.queues
      /\ sched'.next_boost_at = sched.next_boost_at
      /\ \A t \in Task : state'[t] = "Ready" <=> state[t] = "Ready"
  BY DEF WaitsOn, SameQueues
<1>2. Fresh' = Fresh
  BY <1>1, MlfqFacts DEF Fresh, Ready
<1>3. /\ MlfqDue \in Int /\ MlfqDue' \in Int
      /\ MlfqDue' <= MlfqDue \/ ReadyTasks(sched) = {}
  BY MlfqFacts, MlfqDueMoves DEF MlfqBefore, WaitsOn
<1> DEFINE q == sched.queues[0]
<1>4. q \in Seq(Task) /\ Range(q) \subseteq ReadyTasks(sched)
  BY MlfqFacts, MlfqState DEF MlfqBefore
<1>5. MlfqBound \in Int /\ MlfqQuantums[0] \in Nat
  BY MlfqBoundType DEF MlfqBefore
<1>6. \A x \in Range(q) : ready_since[x] \in Nat
  BY <1>4, MlfqFacts
<1>7. WithinTurns(q, Fresh, ready_since, MlfqDue, MlfqQuantums[0], MlfqBound)
  BY MlfqFacts
<1> HIDE DEF q
<1>8. WithinTurns(q, Fresh, ready_since, MlfqDue', MlfqQuantums[0], MlfqBound)
  <2>1. CASE MlfqDue' <= MlfqDue
    BY <1>3, <1>4, <1>5, <1>6, <1>7, <2>1, TurnsStay
  <2>2. CASE ReadyTasks(sched) = {}
    <3>1. q = << >>
      BY <1>4, <2>2, EmptyVec
    <3> QED
      BY <3>1 DEF WithinTurns
  <2> QED
    BY <1>3, <2>1, <2>2
<1> QED
  BY <1>1, <1>2, <1>8, MlfqFacts DEF MlfqPlaces, q

(* Who joins a queue is fresh.                                             *)
LEMMA MlfqJoin ==
  ASSUME MlfqBefore, NEW t \in Task, WaitBegins(t), Pushed(sched, sched', t)
  PROVE  MlfqPlaces
<1>1. PICK l \in 0 .. 3 : \A k \in 0 .. 3 :
        sched'.queues[k] = IF k = l THEN Append(sched.queues[k], t) ELSE sched.queues[k]
  BY DEF Pushed
<1>2. sched'.next_boost_at = sched.next_boost_at
  BY DEF Pushed
<1>3. /\ t \notin ReadyTasks(sched) /\ Until' = Until
      /\ state' = [state EXCEPT ![t] = "Ready"]
      /\ ready_since' = [ready_since EXCEPT ![t] = Until]
      /\ running' \in {running, None}
  BY DEF WaitBegins, MlfqBefore, IInv, ReadyAgree
<1>4. /\ state \in [Task -> {"New", "Ready", "Running", "Blocked", "Done"}]
      /\ ready_since \in [Task -> Nat \cup {None}]
  BY DEF MlfqBefore, IInv, TypeOK
<1>5. Fresh \subseteq Fresh' /\ t \in Fresh'
  <2>1. Until + BoostInterval >= sched.next_boost_at
    BY MlfqFacts, PolicyAssumption
  <2> QED
    BY <1>2, <1>3, <1>4, <2>1, MlfqFacts DEF Fresh, Ready
<1>6. /\ MlfqDue \in Int /\ MlfqDue' \in Int
      /\ MlfqDue' <= MlfqDue \/ (ReadyTasks(sched) = {} /\ sched' = sched)
  BY <1>3, MlfqFacts, MlfqDueMoves DEF MlfqBefore
<1>7. MlfqBound \in Int /\ MlfqQuantums[0] \in Nat
  BY MlfqBoundType DEF MlfqBefore
<1>8. ASSUME NEW k \in 0 .. 3
      PROVE  /\ sched.queues[k] \in Seq(Task) /\ IsDuplicateFree(sched.queues[k])
             /\ Range(sched.queues[k]) \subseteq ReadyTasks(sched)
  BY MlfqFacts, MlfqState DEF MlfqBefore
<1>9. MlfqDue' <= MlfqDue
  <2>1. sched.queues[l] \in Seq(Task) /\ sched'.queues[l] = Append(sched.queues[l], t)
    BY <1>1, <1>8
  <2>2. Len(sched'.queues[l]) = Len(sched.queues[l]) + 1 /\ Len(sched.queues[l]) \in Nat
    BY <2>1, AppendProperties, LenProperties
  <2>3. sched' # sched
    BY <2>2
  <2> QED
    BY <1>6, <2>3
<1>10. ASSUME NEW k \in 1 .. 3
       PROVE  Range(sched'.queues[k]) \subseteq Fresh'
  <2>1. k \in 0 .. 3 /\ Range(sched.queues[k]) \subseteq Fresh
    BY MlfqFacts
  <2>2. Range(Append(sched.queues[k], t)) = Range(sched.queues[k]) \cup {t}
    <3>1. t \notin Range(sched.queues[k]) /\ sched.queues[k] \in Seq(Task)
          /\ IsDuplicateFree(sched.queues[k])
      BY <1>3, <1>8, <2>1
    <3> QED
      BY <3>1, PushBack
  <2> QED
    BY <1>1, <1>5, <2>1, <2>2
<1> DEFINE q == sched.queues[0]
<1>11. q \in Seq(Task) /\ Range(q) \subseteq ReadyTasks(sched)
  BY <1>8
<1>12. /\ \A x \in Range(q) : ready_since[x] \in Nat /\ ready_since'[x] = ready_since[x]
       /\ WithinTurns(q, Fresh, ready_since, MlfqDue, MlfqQuantums[0], MlfqBound)
  <2>1. ASSUME NEW x \in Range(q)
        PROVE  ready_since[x] \in Nat /\ ready_since'[x] = ready_since[x]
    <3>1. x \in Task /\ x # t /\ ready_since[x] \in Nat
      BY <1>3, <1>11, MlfqFacts
    <3> QED
      BY <1>3, <1>4, <3>1
  <2> QED
    BY <2>1, MlfqFacts
<1>13. sched'.queues[0] \in {q, Append(q, t)}
  <2>1. 0 \in 0 .. 3
    OBVIOUS
  <2>2. CASE l = 0
    <3>1. sched'.queues[0] = Append(q, t)
      BY <1>1, <2>1, <2>2
    <3> QED
      BY <3>1
  <2>3. CASE l # 0
    <3>1. sched'.queues[0] = q
      BY <1>1, <2>1, <2>3
    <3> QED
      BY <3>1
  <2> QED
    BY <2>2, <2>3
<1> HIDE DEF q
<1>14. WithinTurns(q, Fresh', ready_since', MlfqDue', MlfqQuantums[0], MlfqBound)
  BY <1>5, <1>6, <1>7, <1>9, <1>11, <1>12, TurnsStay
<1>15. WithinTurns(Append(q, t), Fresh', ready_since', MlfqDue', MlfqQuantums[0], MlfqBound)
  BY <1>5, <1>6, <1>7, <1>9, <1>11, <1>12, TurnsPush
<1> QED
  BY <1>10, <1>13, <1>14, <1>15 DEF MlfqPlaces

(* The first one of level 0 leaves, and runs for a quantum of level 0; or  *)
(* one of a lower level does, when nobody stands in level 0.               *)
LEMMA MlfqLeave ==
  ASSUME MlfqBefore, NEW t \in Task, WaitEnds(t), Popped(sched, sched', t)
  PROVE  MlfqPlaces
<1>1. PICK l \in 0 .. 3 :
        /\ sched.queues[l] # << >> /\ t = Head(sched.queues[l]) /\ sched'.mlfq_level[t] = l
        /\ \A k \in 0 .. l - 1 : sched.queues[k] = << >>
        /\ \A k \in 0 .. 3 :
             sched'.queues[k] = IF k = l THEN Tail(sched.queues[k]) ELSE sched.queues[k]
  BY DEF Popped
<1>2. sched'.next_boost_at = sched.next_boost_at
  BY DEF Popped
<1>3. /\ state' = [state EXCEPT ![t] = "Running"]
      /\ ready_since' = [ready_since EXCEPT ![t] = None]
      /\ running = None /\ running' = t /\ None \notin Task
  BY TaskFacts DEF WaitEnds, MlfqBefore, IInv
<1>4. /\ state \in [Task -> {"New", "Ready", "Running", "Blocked", "Done"}]
      /\ ready_since \in [Task -> Nat \cup {None}]
  BY DEF MlfqBefore, IInv, TypeOK
<1>5. Fresh \ {t} \subseteq Fresh'
  BY <1>2, <1>3, <1>4, MlfqFacts DEF Fresh, Ready
<1>6. ASSUME NEW k \in 0 .. 3
      PROVE  /\ sched.queues[k] \in Seq(Task) /\ IsDuplicateFree(sched.queues[k])
             /\ Range(sched.queues[k]) \subseteq ReadyTasks(sched)
  BY MlfqFacts, MlfqState DEF MlfqBefore
<1>7. ASSUME NEW k \in 0 .. 3
      PROVE  Range(sched'.queues[k]) = Range(sched.queues[k]) \ {t}
  <2>1. CASE k = l
    BY <1>1, <1>6, <2>1, PopFront
  <2>2. CASE k # l
    <3>1. t \in Range(sched.queues[l])
      BY <1>1, <1>6, PopFront
    <3>2. Range(sched.queues[k]) \cap Range(sched.queues[l]) = {}
      <4>1. MlfqOK(sched, Task)
        BY MlfqFacts, MlfqState DEF MlfqBefore
      <4> QED
        BY <2>2, <4>1 DEF MlfqOK, Mlfq!Level, Mlfq!NumLevels
    <3> QED
      BY <1>1, <2>2, <3>1, <3>2
  <2> QED
    BY <2>1, <2>2
<1>8. ASSUME NEW k \in 1 .. 3
      PROVE  Range(sched'.queues[k]) \subseteq Fresh'
  <2>1. k \in 0 .. 3 /\ Range(sched.queues[k]) \subseteq Fresh
    BY MlfqFacts
  <2> QED
    BY <1>5, <1>7, <2>1
<1>9. WithinTurns(sched'.queues[0], Fresh', ready_since', MlfqDue', MlfqQuantums[0], MlfqBound)
  <2>1. CASE l = 0
    <3> DEFINE q == sched.queues[0]
    <3>1. /\ q \in Seq(Task) /\ IsDuplicateFree(q) /\ Range(q) \subseteq ReadyTasks(sched)
          /\ q # << >> /\ t = Head(q) /\ sched'.queues[0] = Tail(q)
      BY <1>1, <1>6, <2>1
    <3>2. /\ \A x \in Range(q) : ready_since[x] \in Nat
          /\ \A x \in Range(q) \ {t} : ready_since'[x] = ready_since[x]
          /\ WithinTurns(q, Fresh, ready_since, MlfqDue, MlfqQuantums[0], MlfqBound)
      BY <1>3, <1>4, <3>1, MlfqFacts
    <3>3. MlfqDue \in Int /\ MlfqDue' = MlfqDue + MlfqQuantums[0]
      BY <1>1, <1>3, <2>1, MlfqFacts, MlfqDueMoves DEF MlfqBefore, LevelQuantum
    <3>4. MlfqBound \in Int /\ MlfqQuantums[0] \in Nat
      BY MlfqBoundType DEF MlfqBefore
    <3>5. \A x \in Range(q) \ {Head(q)} : x \in Fresh => x \in Fresh'
      BY <1>5, <3>1
    <3> HIDE DEF q
    <3>6. WithinTurns(Tail(q), Fresh', ready_since', MlfqDue + MlfqQuantums[0],
                      MlfqQuantums[0], MlfqBound)
      BY <3>1, <3>2, <3>3, <3>4, <3>5, TurnsPop
    <3> QED
      BY <3>1, <3>3, <3>6
  <2>2. CASE l # 0
    <3>1. 0 \in 0 .. l - 1
      BY <2>2
    <3>2. sched'.queues[0] = << >>
      BY <1>1, <2>2, <3>1
    <3> QED
      BY <3>2 DEF WithinTurns
  <2> QED
    BY <2>1, <2>2
<1> QED
  BY <1>8, <1>9 DEF MlfqPlaces

(* The boost puts the fresh tasks behind those it boosted before, whose    *)
(* places it leaves alone.                                                 *)
LEMMA MlfqBoosted ==
  ASSUME MlfqBefore, WaitsOn, Tick, BoostDone(sched, sched', now)
  PROVE  MlfqPlaces
<1> DEFINE all == Mlfq!AllQueued(sched)
           q == sched.queues[0]
<1>1. /\ sched'.queues[0] = all /\ \A l \in 1 .. 3 : sched'.queues[l] = << >>
      /\ ready_since' = ready_since
  BY DEF BoostDone, WaitsOn
<1>2. ASSUME NEW k \in 1 .. 3
      PROVE  Range(sched'.queues[k]) \subseteq Fresh'
  BY <1>1, EmptyVec
<1>3. /\ all \in Seq(Task) /\ IsDuplicateFree(all) /\ Range(all) = ReadyTasks(sched)
      /\ DOMAIN q \subseteq DOMAIN all /\ \A i \in DOMAIN q : all[i] = q[i]
  BY MlfqFacts, AllQueuedFirst DEF MlfqBefore
<1>4. /\ running \in Task /\ running # None /\ ~Ready(running) /\ running' = running
      /\ run_start \in Nat /\ run_start <= now /\ Until = now /\ step = "tick"
  <2>1. running # None /\ running \in Task /\ run_start \in Nat /\ running' = running
        /\ step = "tick"
    BY DEF Tick, MlfqBefore, IInv, TypeOK, cpuVars
  <2>2. sched.used_slice = now - run_start
    BY <2>1 DEF MlfqBefore, InStep, Follows, Tracks, Elapsed
  <2>3. sched.used_slice \in Nat
    BY MlfqFacts, MlfqState DEF MlfqBefore, MlfqOK
  <2>4. ~Ready(running) /\ Until = now
    BY <2>1 DEF MlfqBefore, IInv, SingleRunner, Running, Ready, Until
  <2> QED
    BY <2>1, <2>2, <2>3, <2>4, MlfqFacts
<1>5. /\ MlfqDue \in Int /\ MlfqDue' \in Int
      /\ MlfqDue' <= MlfqDue \/ ReadyTasks(sched) = {}
  BY <1>4, MlfqFacts, MlfqDueMoves DEF MlfqBefore
<1>6. MlfqDue <= now + MlfqQuantums[3]
  <2>1. sched.mlfq_level[running] \in 0 .. 3
    BY <1>4, LevelQuantumType DEF MlfqBefore
  <2>2. LevelQuantum(sched, running) <= MlfqQuantums[3]
    BY <2>1 DEF LevelQuantum, MlfqBefore, Rising
  <2>3. LevelQuantum(sched, running) \in Nat /\ MlfqQuantums[3] \in Nat
    BY <1>4, LevelQuantumType, PolicyAssumption DEF MlfqBefore
  <2>4. MlfqDue = run_start + LevelQuantum(sched, running)
    BY <1>4 DEF MlfqDue
  <2> QED
    BY <1>4, <2>2, <2>3, <2>4, MlfqFacts
<1>7. MlfqBound \in Int /\ \A l \in 0 .. 3 : MlfqQuantums[l] \in Nat
  BY MlfqBoundType DEF MlfqBefore
<1>8. ASSUME NEW i \in DOMAIN all
      PROVE  Turn(MlfqDue', ready_since[all[i]], i - 1, MlfqQuantums[0]) <= MlfqBound
  <2> DEFINE x == all[i]
             s == ready_since[x]
             m == i - 1
             quantum == MlfqQuantums[0]
  <2>1. /\ x \in ReadyTasks(sched) /\ x \in Task /\ Ready(x) /\ s \in Nat /\ s <= now
    BY <1>3, <1>4, MlfqFacts DEF Range
  <2>2. m \in Int /\ m <= Others /\ i \in Int
    <3>1. i \in 1 .. Len(all) /\ Len(all) = Cardinality(ReadyTasks(sched))
      BY <1>3, LenIsCardinality, LenProperties
    <3>2. Cardinality(ReadyTasks(sched)) <= Others /\ Cardinality(ReadyTasks(sched)) \in Nat
          /\ Others \in Nat
      BY <1>4, QueueRoom DEF MlfqBefore
    <3> QED
      BY <3>1, <3>2
  <2>3. MlfqDue' <= MlfqDue
    BY <1>5, <2>1
  <2>4. CASE x \in Fresh
    <3>1. s + BoostInterval >= sched.next_boost_at
      BY <2>4 DEF Fresh
    <3>2. now <= sched.next_boost_at \/ s >= now
      BY <1>4, <2>1 DEF MlfqBefore, MlfqTurns
    <3>3. BoostInterval \in Nat /\ MlfqQuantums[3] \in Nat /\ now \in Nat
          /\ sched.next_boost_at \in Nat
      BY PolicyAssumption, MlfqFacts
    <3> HIDE DEF s, m, x
    <3>4. MlfqDue' - s <= BoostInterval + MlfqQuantums[3]
      BY <1>5, <1>6, <2>1, <2>3, <3>1, <3>2, <3>3
    <3>5. Turn(MlfqDue', s, m, MlfqQuantums[0]) <= MlfqBound
      BY <1>5, <2>1, <2>2, <3>4, FreshTurn DEF MlfqBefore
    <3> QED
      BY <3>5 DEF s, m, x
  <2>5. CASE x \notin Fresh
    <3>1. x \in Range(q)
      <4>1. PICK l \in 0 .. 3 : x \in Range(sched.queues[l])
        BY <2>1, MlfqFacts, MlfqState DEF MlfqBefore
      <4>2. l = 0
        BY <2>5, <4>1, MlfqFacts
      <4> QED
        BY <4>1, <4>2
    <3>2. PICK j \in DOMAIN q : q[j] = x
      BY <3>1 DEF Range
    <3>3. j = i
      BY <1>3, <3>2 DEF IsDuplicateFree, IsInjective
    <3>4. Turn(MlfqDue, s, m, quantum) <= MlfqBound
      BY <2>5, <3>2, <3>3, MlfqFacts DEF WithinTurns
    <3>5. quantum \in Nat
      BY <1>7
    <3> HIDE DEF s, m, x, quantum
    <3>6. Turn(MlfqDue', s, m, quantum) <= Turn(MlfqDue, s, m, quantum)
      BY <1>5, <2>1, <2>2, <2>3, <3>5, TurnEarlier
    <3>7. Turn(MlfqDue', s, m, quantum) \in Int
      BY <1>5, <2>1, <2>2, <3>5, TurnType
    <3>8. Turn(MlfqDue, s, m, quantum) \in Int
      BY <1>5, <2>1, <2>2, <3>5, TurnType
    <3>9. Turn(MlfqDue', s, m, quantum) <= MlfqBound
      BY <1>7, <3>4, <3>6, <3>7, <3>8
    <3> QED
      BY <3>9 DEF s, m, x, quantum
  <2> QED
    BY <2>4, <2>5
<1> HIDE DEF all
<1>9. WithinTurns(all, Fresh', ready_since, MlfqDue', MlfqQuantums[0], MlfqBound)
  BY <1>8 DEF WithinTurns
<1> QED
  BY <1>1, <1>2, <1>9 DEF MlfqPlaces

LEMMA NextMlfq ==
  ASSUME IInv, IInv', InStep, SinceKnown, Rising, MlfqTurns, [Next]_vars
  PROVE  MlfqTurns'
<1> SUFFICES ASSUME sched'.name = "MLFQ"
             PROVE  MlfqTurns'
  BY DEF MlfqTurns
<1>1. MlfqBefore
  BY SameName DEF MlfqBefore
<1>2. MlfqPlaces
  <2>1. CASE WaitsOn /\ SameQueues(sched, sched')
    BY <1>1, <2>1, MlfqStay
  <2>2. CASE \E t \in Task : WaitBegins(t) /\ Pushed(sched, sched', t)
    BY <1>1, <2>2, MlfqJoin
  <2>3. CASE \E t \in Task : WaitEnds(t) /\ Popped(sched, sched', t)
    BY <1>1, <2>3, MlfqLeave
  <2>4. CASE WaitsOn /\ Tick /\ BoostDone(sched, sched', now)
    BY <1>1, <2>4, MlfqBoosted
  <2> QED
    BY <1>1, <2>1, <2>2, <2>3, <2>4, MlfqMoves DEF MlfqBefore
<1> QED
  BY <1>1, <1>2, MlfqInTime, MlfqFacts DEF MlfqTurns, MlfqPlaces, Ready

(* A ready task gets the CPU within one boost interval, the longest        *)
(* quantum and one level-0 quantum of every other task.                    *)
THEOREM MlfqWaitsBounded ==
  ASSUME Positive, Rising
  PROVE  Spec => []MlfqBoundedWait
<1>1. Init => MlfqTurns
  <2> SUFFICES ASSUME Init, sched.name = "MLFQ"
               PROVE  MlfqTurns
    BY DEF MlfqTurns
  <2>1. PICK name \in SchedulerNames : sched = NewScheduler(name, Task)
    BY DEF Init
  <2>2. name = "MLFQ"
    BY <2>1, NewContract, ExperimentAssumption
  <2>3. /\ sched.next_boost_at = BoostInterval
        /\ \A l \in 0 .. 3 : sched.queues[l] = << >>
    BY <2>1, <2>2 DEF NewScheduler, Mlfq!New, Mlfq!Level, Mlfq!NumLevels
  <2>4. /\ now = 0 /\ Until = 0 /\ MlfqDue = 0 /\ \A t \in Task : ~Ready(t)
    BY DEF Init, Until, MlfqDue, Ready
  <2> QED
    BY <2>3, <2>4, EmptyVec, PolicyAssumption DEF MlfqTurns, WithinTurns
<1>2. IInv /\ IInv' /\ InStep /\ SinceKnown /\ MlfqTurns /\ [Next]_vars => MlfqTurns'
  BY NextMlfq
<1>3. IInv /\ SinceKnown /\ MlfqTurns => MlfqBoundedWait
  <2> SUFFICES ASSUME IInv, SinceKnown, MlfqTurns, sched.name = "MLFQ",
                      NEW t \in Task, Ready(t)
               PROVE  WaitOf(t) <= MlfqBound
    BY DEF MlfqBoundedWait, MlfqBound
  <2> DEFINE s == ready_since[t]
             quantum == MlfqQuantums[0]
             q == sched.queues[0]
  <2>1. PICK l \in 0 .. 3 : t \in Range(sched.queues[l])
    <3>1. t \in ReadyTasks(sched)
      BY DEF IInv, ReadyAgree
    <3> QED
      BY <3>1, MlfqState DEF IInv, TypeOK
  <2>2. /\ now \in Nat /\ Until \in Nat /\ now <= Until /\ s \in Nat /\ s <= Until
        /\ BoostInterval \in Nat /\ MlfqQuantums[3] \in Nat /\ quantum \in Nat
        /\ MlfqBound \in Int /\ sched.next_boost_at \in Nat
    <3>1. now \in Nat /\ Until \in Nat /\ now <= Until
      BY DEF IInv, TypeOK, Until
    <3>2. s \in Nat /\ s <= Until
      BY DEF SinceKnown
    <3>3. sched.next_boost_at \in Nat
      BY MlfqState DEF IInv, TypeOK
    <3>4. BoostInterval \in Nat /\ MlfqBound \in Int
      BY MlfqBoundType
    <3>5. 0 \in 0 .. 3 /\ 3 \in 0 .. 3
      OBVIOUS
    <3>6. MlfqQuantums[3] \in Nat /\ quantum \in Nat
      BY <3>5, MlfqBoundType
    <3> QED
      BY <3>1, <3>2, <3>3, <3>4, <3>6
  <2>3. Until <= sched.next_boost_at \/ s >= Until
    BY DEF MlfqTurns
  <2>4. Others \in Nat
    <3>1. Cardinality(Task \ {t}) = Cardinality(Task) - 1 /\ IsFiniteSet(Task \ {t})
      BY TaskFacts, FS_RemoveElement DEF IInv
    <3> QED
      BY <3>1, FS_CardinalityType DEF Others
  <2>5. CASE t \in Fresh
    <3>1. s + BoostInterval >= sched.next_boost_at
      BY <2>5 DEF Fresh
    <3> HIDE DEF s, quantum
    <3>2. Until - s <= BoostInterval + MlfqQuantums[3]
      BY <2>2, <2>3, <3>1
    <3>3. Turn(Until, s, 0, quantum) <= MlfqBound
      BY <2>2, <2>4, <3>2, FreshTurn DEF quantum
    <3>4. Until - s <= Turn(Until, s, 0, quantum)
      BY <2>2, TurnAtLeast
    <3>5. Turn(Until, s, 0, quantum) \in Int
      BY <2>2, TurnType
    <3>6. now - s <= MlfqBound
      BY <2>2, <3>3, <3>4, <3>5
    <3> QED
      BY <3>6 DEF WaitOf, s
  <2>6. CASE t \notin Fresh
    <3>1. t \in Range(q)
      BY <2>1, <2>6 DEF MlfqTurns
    <3>2. q \in Seq(Task)
      BY MlfqState DEF IInv, TypeOK
    <3>3. PICK i \in DOMAIN q : q[i] = t
      BY <3>1 DEF Range
    <3> DEFINE m == i - 1
    <3>4. m \in Nat
      BY <3>2, LenProperties
    <3>5. Turn(MlfqDue, s, m, quantum) <= MlfqBound /\ Until <= MlfqDue
      BY <2>6, <3>3 DEF MlfqTurns, WithinTurns
    <3>6. MlfqDue \in Int
      <4>1. run_start \in Nat /\ running \in Task \cup {None}
        BY DEF IInv, TypeOK
      <4>2. running # None => LevelQuantum(sched, running) \in Nat
        BY <4>1, LevelQuantumType
      <4> QED
        BY <2>2, <4>1, <4>2 DEF MlfqDue
    <3> HIDE DEF s, m, quantum, q
    <3>7. MlfqDue - s <= Turn(MlfqDue, s, m, quantum)
      BY <2>2, <3>4, <3>6, TurnAtLeast
    <3>8. Turn(MlfqDue, s, m, quantum) \in Int
      BY <2>2, <3>4, <3>6, TurnType
    <3>9. now - s <= MlfqBound
      BY <2>2, <3>5, <3>6, <3>7, <3>8
    <3> QED
      BY <3>9 DEF WaitOf, s
  <2> QED
    BY <2>5, <2>6
<1> QED
  BY <1>1, <1>2, <1>3, Invariance, WaitsKnown, StaysInStep, PTL DEF Spec

-----------------------------------------------------------------------------
(* Under CFS-like: what the operations do to the vruntimes.                 *)
LEMMA CfsState ==
  ASSUME NEW Ids, NEW s, SchedulerOK(s, Ids), s.name = "CFS-like"
  PROVE  /\ CfsOK(s, Ids) /\ s.ready \in Seq(Ids) /\ IsDuplicateFree(s.ready)
         /\ s.vruntime \in [Ids -> Nat] /\ s.used_slice \in Nat
         /\ ReadyTasks(s) = Range(s.ready) /\ ReadyTasks(s) \subseteq Ids
<1>1. CfsOK(s, Ids)
  BY PolicyCases
<1>2. ReadyTasks(s) = Range(s.ready)
  BY DEF ReadyTasks
<1> QED
  BY <1>1, <1>2, RangeInTask DEF CfsOK

SameRuntimes(s, new) == new.vruntime = s.vruntime

LEMMA CfsReady ==
  ASSUME NEW Ids, NEW s, SchedulerOK(s, Ids), s.name = "CFS-like", NEW t \in Ids,
         NEW new \in {Enqueue(s, t), OnWakeup(s, t)}
  PROVE  SameRuntimes(s, new) /\ new.used_slice = s.used_slice
<1>1. new = [s EXCEPT !.ready = Append(s.ready, t)]
  BY DEF Enqueue, OnWakeup, Cfs!OnWakeup, Cfs!Enqueue
<1>2. CfsOK(s, Ids)
  BY CfsState
<1> QED
  BY <1>1, <1>2 DEF CfsOK, SameRuntimes

LEMMA CfsBlock ==
  ASSUME NEW Ids, NEW s, SchedulerOK(s, Ids), s.name = "CFS-like", NEW t
  PROVE  SameRuntimes(s, OnBlock(s, t))
<1>1. OnBlock(s, t) \in {s, [s EXCEPT !.running = None, !.used_slice = 0]}
  BY DEF OnBlock, Cfs!OnBlock
<1>2. CfsOK(s, Ids)
  BY CfsState
<1> QED
  BY <1>1, <1>2 DEF CfsOK, SameRuntimes

(* Nobody who is ready has less vruntime than the task that is picked.     *)
LEMMA CfsPick ==
  ASSUME NEW Ids, NEW s, SchedulerOK(s, Ids), s.name = "CFS-like", NEW cpu, NEW class,
         NEW o \in PickNext(s, cpu, class), None \notin Ids
  PROVE  /\ SameRuntimes(s, o.sched)
         /\ o.next # None =>
              /\ o.next \in ReadyTasks(s) /\ o.sched.used_slice = 0
              /\ \A u \in ReadyTasks(s) : s.vruntime[o.next] <= s.vruntime[u]
<1>1. CfsOK(s, Ids) /\ o \in Cfs!PickNext(s, class)
  BY CfsState DEF PickNext
<1>2. CASE s.ready = << >>
  <2>1. o = [next |-> None, sched |-> [s EXCEPT !.running = None]]
    BY <1>1, <1>2 DEF Cfs!PickNext
  <2> QED
    BY <1>1, <2>1 DEF CfsOK, SameRuntimes
<1>3. CASE s.ready # << >>
  <2>1. PICK i \in Cfs!BestIndices(s, class) :
          o = [next |-> s.ready[i],
               sched |-> [s EXCEPT !.ready = Cfs!SwapRemove(s.ready, i),
                                   !.running = s.ready[i], !.used_slice = 0]]
    BY <1>1, <1>3 DEF Cfs!PickNext
  <2> DEFINE first == s.ready[i]
             rest == Cfs!SwapRemove(s.ready, i)
  <2>2. /\ o.next = first
        /\ o.sched = [s EXCEPT !.ready = rest, !.running = first, !.used_slice = 0]
    BY <2>1
  <2>3. i \in DOMAIN s.ready
        /\ \A j \in DOMAIN s.ready : s.vruntime[first] <= s.vruntime[s.ready[j]]
    BY DEF Cfs!BestIndices
  <2>4. first \in Range(s.ready)
    BY <2>3 DEF Range
  <2>5. ASSUME NEW u \in Range(s.ready)
        PROVE  s.vruntime[first] <= s.vruntime[u]
    <3>1. PICK j \in DOMAIN s.ready : u = s.ready[j]
      BY <2>5 DEF Range
    <3> QED
      BY <2>3, <3>1
  <2> HIDE DEF first, rest
  <2>6. SameRuntimes(s, o.sched) /\ o.sched.used_slice = 0
    BY <1>1, <2>2 DEF CfsOK, SameRuntimes
  <2>7. ReadyTasks(s) = Range(s.ready)
    BY CfsState
  <2> QED
    BY <2>2, <2>4, <2>5, <2>6, <2>7
<1> QED
  BY <1>2, <1>3

LEMMA DivisionShrinks ==
  ASSUME NEW a \in Nat, NEW b \in Nat \ {0}
  PROVE  a \div b \in Int /\ a \div b <= a
OBVIOUS

(* No dynamic slice is longer than the longest.                            *)
LEMMA SliceBound ==
  ASSUME NEW s, NEW Ids, CfsOK(s, Ids)
  PROVE  Cfs!DynamicSlice(s) \in Int /\ Cfs!DynamicSlice(s) <= LongestSlice
<1> DEFINE ready_count == IF Len(s.ready) > 1 THEN Len(s.ready) ELSE 1
           slice == TargetSlice \div ready_count
<1>1. Cfs!DynamicSlice(s) = IF slice > MinGranularity THEN slice ELSE MinGranularity
  BY DEF Cfs!DynamicSlice
<1>2. ready_count \in Nat \ {0} /\ TargetSlice \in Nat /\ MinGranularity \in Nat
  BY LenProperties, PolicyAssumption DEF CfsOK
<1> HIDE DEF ready_count
<1>3. slice \in Int /\ slice <= TargetSlice
  BY <1>2, DivisionShrinks
<1> HIDE DEF slice
<1> QED
  BY <1>1, <1>2, <1>3 DEF LongestSlice

(* on_tick charges the tick; it preempts a task ahead of some ready one,   *)
(* and keeps one whose slice lasts or who is not ahead of anyone.          *)
LEMMA CfsTick ==
  ASSUME NEW Ids, NEW s, SchedulerOK(s, Ids), s.name = "CFS-like", NEW t \in Ids,
         s.running = t, NEW class \in [Ids -> Classes], NEW time,
         NEW o \in OnTick(s, class, t, time)
  PROVE  LET v == s.vruntime[t] + Cfs!ClassWeight(class[t])
         IN  /\ o.sched.vruntime = [s.vruntime EXCEPT ![t] = v]
             /\ o.action = "Preempt" =>
                  \E u \in ReadyTasks(s) : s.vruntime[u] + 10 <= v
             /\ o.action = "Continue" =>
                  /\ o.sched.used_slice = s.used_slice + 1
                  /\ \/ s.used_slice + 1 < LongestSlice
                     \/ \A u \in ReadyTasks(s) : v <= s.vruntime[u] + 10
<1> DEFINE v == s.vruntime[t] + Cfs!ClassWeight(class[t])
           used == s.used_slice + 1
           on == [s EXCEPT !.vruntime[t] = v, !.running = t, !.used_slice = used]
           off == [on EXCEPT !.running = None, !.used_slice = 0]
           may_be == TRUE \in Cfs!RunsAhead(s, v)
           may_not == FALSE \in Cfs!RunsAhead(s, v)
<1>1. CfsOK(s, Ids) /\ s.used_slice \in Nat /\ ReadyTasks(s) = Range(s.ready)
  BY CfsState
<1>2. o \in Cfs!OnTick(s, class, t)
  BY DEF OnTick
<1>3. \/ o = [action |-> "Continue", sched |-> on] /\ used < Cfs!DynamicSlice(s)
      \/ o = [action |-> "Continue", sched |-> on] /\ may_not
      \/ o = [action |-> "Preempt", sched |-> off] /\ may_be
  <2>1. CASE used < Cfs!DynamicSlice(s)
    BY <1>2, <2>1 DEF Cfs!OnTick
  <2>2. CASE ~(used < Cfs!DynamicSlice(s))
    <3>1. PICK ahead \in Cfs!RunsAhead(s, v) :
            o = IF ahead THEN [action |-> "Preempt", sched |-> off]
                         ELSE [action |-> "Continue", sched |-> on]
      BY <1>2, <2>2 DEF Cfs!OnTick
    <3>2. ahead \in BOOLEAN
      BY DEF Cfs!RunsAhead
    <3>3. CASE ahead = TRUE
      BY <3>1, <3>3
    <3>4. CASE ahead = FALSE
      BY <3>1, <3>4
    <3> QED
      BY <3>2, <3>3, <3>4
  <2> QED
    BY <2>1, <2>2
<1>4. v \in Nat /\ used \in Nat /\ \A u \in ReadyTasks(s) : s.vruntime[u] \in Nat
  <2>1. Cfs!ClassWeight(class[t]) \in Nat
    BY DEF Cfs!ClassWeight, Classes
  <2>2. s.vruntime \in [Ids -> Nat] /\ ReadyTasks(s) \subseteq Ids
    BY CfsState
  <2>3. s.vruntime[t] \in Nat
    BY <2>2
  <2> QED
    BY <1>1, <2>1, <2>2, <2>3
<1>5. Cfs!DynamicSlice(s) \in Int /\ Cfs!DynamicSlice(s) <= LongestSlice
      /\ LongestSlice \in Nat
  BY <1>1, SliceBound, PolicyAssumption DEF LongestSlice
<1>6. may_be => \E u \in ReadyTasks(s) : s.vruntime[u] + 10 <= v
  BY <1>1 DEF Cfs!RunsAhead, Cfs!AheadMargin, Cfs!Range, Range
<1>7. may_not => \A u \in ReadyTasks(s) : v <= s.vruntime[u] + 10
  BY <1>1, <1>4 DEF Cfs!RunsAhead, Cfs!AheadMargin, Cfs!Range, Range
<1> HIDE DEF v, used, may_be, may_not
<1>8. /\ on.vruntime = [s.vruntime EXCEPT ![t] = v] /\ on.used_slice = used
      /\ off.vruntime = [s.vruntime EXCEPT ![t] = v]
  BY <1>1 DEF CfsOK
<1> HIDE DEF on, off
<1>9. o.sched.vruntime = [s.vruntime EXCEPT ![t] = v]
  BY <1>3, <1>8
<1>10. o.action = "Preempt" => may_be
  BY <1>3
<1>11. o.action = "Continue" =>
         o.sched.used_slice = used
           /\ (used < Cfs!DynamicSlice(s) \/ may_not)
  BY <1>3, <1>8
<1>12. used < Cfs!DynamicSlice(s) => used < LongestSlice
  BY <1>4, <1>5
<1> QED
  BY <1>6, <1>7, <1>9, <1>10, <1>11, <1>12 DEF v, used

-----------------------------------------------------------------------------
(* Whom a preemption yields to.                                            *)

(* t runs ahead of some ready task by the margin of on_tick.               *)
Ahead(t) == \E u \in ReadyTasks(sched) : sched.vruntime[u] + 10 <= sched.vruntime[t]

GaveUp(t) == Done(t) \/ run_since_io[t] = 0 \/ (Ready(t) /\ Ahead(t))

LastFrom == Last(events).from

(* A preemption is decided ahead of a ready task, and as long as the CPU   *)
(* stays free behind it the task that lost it stays ahead of one.          *)
Yields ==
  sched.name = "CFS-like" =>
    /\ step = "settle" /\ action = "Preempt" => Ahead(running)
    /\ events # << >> /\ LastFrom # None => running = None /\ GaveUp(LastFrom)

(* The new entry of the switch log names the task that gives the CPU up.   *)
LEMMA LogFrom ==
  ASSUME TypeOK, NEW next \in Task \cup {None}, NEW ts \in Nat, NEW ready_len \in Nat,
         SwitchContext(next, ts, ready_len), running # next
  PROVE  LastFrom' = running /\ running' = next
<1> DEFINE e == [ts |-> ts, from |-> running, to |-> next, ready_len |-> ready_len,
                 run_fragment |-> RunFragment(ts)]
           Entry == [ts : Nat, from : Task \cup {None}, to : Task \cup {None},
                     ready_len : Nat, run_fragment : Nat]
<1>1. events' = Append(events, e) /\ running' = next
  BY DEF SwitchContext
<1>2. e \in Entry /\ events \in Seq(Entry)
  <2>1. RunFragment(ts) \in Nat
    BY MonusType DEF RunFragment, TypeOK
  <2> QED
    BY <2>1 DEF TypeOK
<1>3. e.from = running
  OBVIOUS
<1> HIDE DEF e, Entry
<1>4. Last(events') = e
  BY <1>1, <1>2, AppendProperties, LenProperties DEF Last
<1> QED
  BY <1>1, <1>3, <1>4 DEF LastFrom

(* Nothing is logged, and whoever gave the CPU up stays where it is.       *)
LEMMA YieldStays ==
  ASSUME Yields, sched'.name = sched.name, events' = events,
         ~(step' = "settle" /\ action' = "Preempt"),
         sched.name = "CFS-like" /\ running = None =>
           /\ running' = None /\ run_since_io' = run_since_io
           /\ sched'.vruntime = sched.vruntime
           /\ ReadyTasks(sched) \subseteq ReadyTasks(sched'),
         \A t : /\ state[t] = "Done" => state'[t] = "Done"
                /\ state[t] = "Ready" => state'[t] = "Ready"
  PROVE  Yields'
<1> SUFFICES ASSUME sched.name = "CFS-like"
             PROVE  Yields'
  BY DEF Yields
<1>1. LastFrom' = LastFrom
  BY DEF LastFrom
<1>2. ASSUME events # << >>, LastFrom # None
      PROVE  running' = None /\ GaveUp(LastFrom)'
  <2>1. running = None /\ GaveUp(LastFrom)
    BY <1>2 DEF Yields
  <2> QED
    BY <1>1, <2>1 DEF GaveUp, Done, Ready, Ahead
<1> QED
  BY <1>1, <1>2 DEF Yields

(* The policy is another one, or its state is one of CFS-like.             *)
LEMMA CfsFacts ==
  ASSUME IInv, sched.name = "CFS-like"
  PROVE  /\ SchedulerOK(sched, Task) /\ None \notin Task
         /\ sched.vruntime \in [Task -> Nat] /\ sched.used_slice \in Nat
         /\ ReadyTasks(sched) = {t \in Task : Ready(t)}
<1>1. SchedulerOK(sched, Task) /\ None \notin Task
  BY TaskFacts DEF IInv, TypeOK
<1> QED
  BY <1>1, CfsState DEF IInv, ReadyAgree

LEMMA NextYields ==
  ASSUME IInv, InStep, Yields, [Next]_vars
  PROVE  Yields'
<1>1. /\ TypeOK /\ SchedulerOK(sched, Task) /\ now \in Nat
      /\ state \in [Task -> {"New", "Ready", "Running", "Blocked", "Done"}]
      /\ ReadyTasks(sched) = {t \in Task : Ready(t)} /\ IsFiniteSet(Task)
      /\ None \notin Task
  BY TaskFacts DEF IInv, TypeOK, ReadyAgree
<1>2. CASE \E t \in Task : Wake(t) \/ Arrive(t)
  <2>1. PICK t \in Task : Wake(t) \/ Arrive(t)
    BY <1>2
  <2>2. /\ events' = events /\ running' = running /\ run_since_io' = run_since_io
        /\ sched' \in {OnWakeup(sched, t), Enqueue(sched, t)} /\ step' # "settle"
        /\ state[t] \in {"New", "Blocked"} /\ state' = [state EXCEPT ![t] = "Ready"]
    BY <2>1 DEF Wake, Arrive, IsFirst, WakeList, ArrivalList, MakeReady, cpuVars
  <2>3. t \notin ReadyTasks(sched)
    BY <1>1, <2>2 DEF Ready
  <2>4. sched'.name = sched.name /\ ReadyTasks(sched') = ReadyTasks(sched) \cup {t}
    BY <1>1, <2>2, <2>3, EnqueueContract, WakeupContract
  <2>5. sched.name = "CFS-like" => sched'.vruntime = sched.vruntime
    BY <1>1, <2>2, CfsReady DEF SameRuntimes
  <2>6. \A x : /\ state[x] = "Done" => state'[x] = "Done"
               /\ state[x] = "Ready" => state'[x] = "Ready"
    BY <1>1, <2>2
  <2> QED
    BY <2>2, <2>4, <2>5, <2>6, YieldStays
<1>3. CASE \/ WakesDone \/ ArrivalsDone \/ KeepRunning \/ Account \/ NoTask \/ Continue
           \/ NextTick \/ Break \/ Terminated \/ UNCHANGED vars
  <2>1. /\ events' = events /\ running' = running /\ run_since_io' = run_since_io
        /\ sched' = sched /\ state' = state
    BY <1>3 DEF WakesDone, ArrivalsDone, KeepRunning, Account, NoTask, Continue, NextTick,
       Break, Terminated, vars, taskVars, cpuVars
  <2>2. \/ step' = step /\ action' = action
        \/ step' # "settle"
    BY <1>3 DEF WakesDone, ArrivalsDone, KeepRunning, Account, NoTask, Continue, NextTick,
       Break, Terminated, vars
  <2>3. CASE step' = step /\ action' = action
    BY <2>1, <2>3 DEF Yields, LastFrom, GaveUp, Done, Ready, Ahead
  <2>4. CASE step' # "settle"
    BY <2>1, <2>4, YieldStays
  <2> QED
    BY <2>2, <2>3, <2>4
<1>4. CASE StayIdle
  <2>1. PICK o \in PickNext(sched, remaining_cpu, Class) : o.next = None /\ sched' = o.sched
    BY <1>4 DEF StayIdle
  <2>2. /\ events' = events /\ running' = running /\ run_since_io' = run_since_io
        /\ state' = state /\ step' # "settle"
    BY <1>4 DEF StayIdle, taskVars, cpuVars
  <2>3. sched'.name = sched.name /\ ReadyTasks(sched) \subseteq ReadyTasks(sched')
    BY <1>1, <2>1, PickContract
  <2>4. sched.name = "CFS-like" => sched'.vruntime = sched.vruntime
    BY <1>1, <2>1, CfsPick DEF SameRuntimes
  <2> QED
    BY <2>2, <2>3, <2>4, YieldStays
<1>5. CASE Dispatch
  <2>1. PICK o \in PickNext(sched, remaining_cpu, Class) :
          /\ o.next # None /\ sched' = o.sched
          /\ SwitchContext(o.next, now, ReadyLen(o.sched))
    BY <1>5 DEF Dispatch
  <2>2. SchedulerOK(sched', Task) /\ o.next \in Task
    BY <1>1, <2>1, PickContract
  <2>3. ReadyLen(o.sched) \in Nat
    BY <1>1, <2>1, <2>2, ReadyLenContract
  <2>4. LastFrom' = None /\ step' # "settle"
    BY <1>1, <1>5, <2>1, <2>2, <2>3, LogFrom DEF Dispatch
  <2> QED
    BY <2>4 DEF Yields
<1>6. CASE Tick
  <2>1. PICK o \in OnTick(sched, Class, running, now) :
          action' = o.action /\ sched' = o.sched
    BY <1>6 DEF Tick
  <2>2. /\ step = "tick" /\ running \in Task /\ events' = events /\ running' = running
        /\ state' = state
    BY <1>1, <1>6 DEF Tick, TypeOK, cpuVars
  <2>3. Class \in [Task -> Classes]
    BY <1>1, TaskFacts
  <2>4. sched'.name = sched.name /\ ReadyTasks(sched') = ReadyTasks(sched)
    BY <1>1, <2>1, <2>2, <2>3, TickContract DEF Classes
  <2> SUFFICES ASSUME sched.name = "CFS-like"
               PROVE  Yields'
    BY <2>4 DEF Yields
  <2>5. sched.running = running
    BY <1>1, <2>2 DEF InStep, Follows, Tracks
  <2> DEFINE v == sched.vruntime[running] + Cfs!ClassWeight(Class[running])
  <2>6. /\ sched'.vruntime = [sched.vruntime EXCEPT ![running] = v]
        /\ action' = "Preempt" => \E u \in ReadyTasks(sched) : sched.vruntime[u] + 10 <= v
    BY <1>1, <2>1, <2>2, <2>3, <2>5, CfsTick, SMTT(30)
  <2> HIDE DEF v
  <2>7. sched.vruntime \in [Task -> Nat]
    BY CfsFacts
  <2>8. ASSUME action' = "Preempt"
        PROVE  Ahead(running)'
    <3>1. PICK u \in ReadyTasks(sched) : sched.vruntime[u] + 10 <= v
      BY <2>6, <2>8
    <3>2. u \in Task /\ u # running
      BY <1>1, <2>2 DEF IInv, SingleRunner, Running, Ready
    <3>3. sched'.vruntime[u] = sched.vruntime[u] /\ sched'.vruntime[running'] = v
      BY <2>2, <2>6, <2>7, <3>2
    <3> QED
      BY <2>4, <3>1, <3>3 DEF Ahead
  <2>9. events # << >> => LastFrom' = None
    BY <1>1, <2>2 DEF Yields, LastFrom
  <2> QED
    BY <2>2, <2>8, <2>9 DEF Yields
<1>7. CASE Finish \/ Block \/ Preempt
  <2>1. /\ running \in Task /\ state[running] = "Running" /\ step = "settle"
        /\ now + 1 \in Nat /\ running # None
    BY <1>1, <1>7 DEF Finish, Block, Preempt, IInv, TypeOK, SettleHasTask, SingleRunner,
       Running
  <2>2. step' # "settle"
    BY <1>7 DEF Finish, Block, Preempt
  <2>3. running \notin ReadyTasks(sched)
    BY <1>1, <2>1 DEF Ready
  <2>4. CASE Finish
    <3>1. ReadyLen(sched) \in Nat
      BY <1>1, ReadyLenContract
    <3>2. LastFrom' = running /\ running' = None
      BY <1>1, <2>1, <2>4, <3>1, LogFrom DEF Finish, ts_next
    <3>3. state'[running] = "Done"
      BY <1>1, <2>1, <2>4 DEF Finish
    <3> QED
      BY <2>2, <3>2, <3>3 DEF Yields, GaveUp, Done
  <2>5. CASE Block
    <3>1. SchedulerOK(sched', Task)
      BY <1>1, <2>1, <2>5, BlockContract DEF Block
    <3>2. ReadyLen(sched') \in Nat
      BY <1>1, <3>1, ReadyLenContract
    <3>3. LastFrom' = running /\ running' = None
      BY <1>1, <2>1, <2>5, <3>2, LogFrom DEF Block, ts_next
    <3>4. run_since_io'[running] = 0
      BY <1>1, <2>1, <2>5 DEF Block, TypeOK
    <3> QED
      BY <2>2, <3>3, <3>4 DEF Yields, GaveUp
  <2>6. CASE Preempt
    <3>1. /\ SchedulerOK(sched', Task) /\ sched'.name = sched.name
          /\ ReadyTasks(sched') = ReadyTasks(sched) \cup {running}
      BY <1>1, <2>1, <2>3, <2>6, EnqueueContract DEF Preempt
    <3>2. ReadyLen(sched') \in Nat
      BY <1>1, <3>1, ReadyLenContract
    <3>3. LastFrom' = running /\ running' = None
      BY <1>1, <2>1, <2>6, <3>2, LogFrom DEF Preempt, ts_next
    <3>4. state'[running] = "Ready"
      BY <1>1, <2>1, <2>6 DEF Preempt, MakeReady
    <3>5. sched.name = "CFS-like" => sched'.vruntime = sched.vruntime
      BY <1>1, <2>1, <2>6, CfsReady DEF Preempt, SameRuntimes
    <3>6. sched.name = "CFS-like" => Ahead(running)
      BY <2>1, <2>6 DEF Preempt, Yields
    <3> QED
      BY <2>2, <3>1, <3>3, <3>4, <3>5, <3>6 DEF Yields, GaveUp, Ready, Ahead
  <2> QED
    BY <1>7, <2>4, <2>5, <2>6
<1> QED
  BY <1>2, <1>3, <1>4, <1>5, <1>6, <1>7 DEF Next

(* A task that CFS-like preempted does not get the CPU straight back.      *)
THEOREM PreemptionYields ==
  ASSUME Positive
  PROVE  Spec => CfsPreemptionYields
<1> DEFINE A == step = "pick" /\ running' # running /\ sched.name = "CFS-like"
                  /\ events # << >> /\ run_since_io[running'] > 0
                => Last(events).from # running'
<1>1. Init => Yields
  BY DEF Init, Yields
<1>2. IInv /\ InStep /\ Yields /\ [Next]_vars => Yields'
  BY NextYields
<1>3. ASSUME IInv, Yields, [Next]_vars
      PROVE  A
  <2> SUFFICES ASSUME step = "pick", running' # running, sched.name = "CFS-like",
                      events # << >>, run_since_io[running'] > 0,
                      LastFrom = running'
               PROVE  FALSE
    BY DEF LastFrom
  <2>1. Dispatch
    BY <1>3 DEF Next, Wake, Arrive, WakesDone, ArrivalsDone, KeepRunning, StayIdle,
       Account, NoTask, Tick, Finish, Block, Preempt, Continue, NextTick, Break,
       Terminated, vars, cpuVars
  <2>2. PICK o \in PickNext(sched, remaining_cpu, Class) :
          o.next # None /\ SwitchContext(o.next, now, ReadyLen(o.sched))
    BY <2>1 DEF Dispatch
  <2>3. o.next = running' /\ running' # None
    BY <2>2 DEF SwitchContext, cpuVars
  <2>4. /\ running' \in ReadyTasks(sched)
        /\ \A u \in ReadyTasks(sched) : sched.vruntime[running'] <= sched.vruntime[u]
    BY <1>3, <2>2, <2>3, CfsFacts, CfsPick
  <2>5. /\ Ready(running') /\ run_since_io[running'] # 0
        /\ \A u \in ReadyTasks(sched) : sched.vruntime[u] \in Nat
        /\ sched.vruntime[running'] \in Nat
    BY <1>3, <2>4, CfsFacts
  <2>6. Ahead(running')
    BY <1>3, <2>3, <2>5 DEF Yields, GaveUp, Done, Ready
  <2>7. PICK u \in ReadyTasks(sched) : sched.vruntime[u] + 10 <= sched.vruntime[running']
    BY <2>6 DEF Ahead
  <2> QED
    BY <2>4, <2>5, <2>7
<1>4. IInv /\ Yields /\ [Next]_vars => [A]_vars
  BY <1>3
<1> HIDE DEF A
<1>5. Spec => [][A]_vars
  BY <1>1, <1>2, <1>4, Invariance, StaysInStep, PTL DEF Spec
<1> QED
  BY <1>5 DEF CfsPreemptionYields, A

-----------------------------------------------------------------------------
(* How far two CPU-bound tasks may drift apart.                            *)

(* What CfsLikeScheduler::new is given: a longest slice of one tick would  *)
(* let a task that is ahead by less than the margin go on beyond it.       *)
Sliced == LongestSlice >= 2

(* The tasks CfsFairShare is about.                                        *)
Sharing == {x \in Task : /\ TaskAt(x).arrival = 0
                         /\ TaskAt(x).class = "CpuBound"
                         /\ TaskAt(x).io_every = None
                         /\ state[x] \in {"Ready", "Running"}}

LeadOver(u) == sched.vruntime[running] - sched.vruntime[u]

AtStart == now = 0 /\ step \in {"wake", "arrive"}

Drift(S, v) == \A t, u \in S : v[t] - v[u] <= 23 * LongestSlice

(* The running task started its slice behind the others: while it lasts it *)
(* leads by no more than it has used, and so by less than a longest slice. *)
Lead ==
  running \in Sharing /\ ~(step = "settle" /\ action = "Preempt") =>
    \A u \in Sharing \ {running} :
      LeadOver(u) <= 23 * sched.used_slice /\ LeadOver(u) <= 23 * (LongestSlice - 1)

(* Who shares the CPU shares it from the start, and never leaves it.       *)
FromTheStart ==
  /\ AtStart => \A t \in Task : sched.vruntime[t] = 0
  /\ \A t \in Task : state[t] = "New" /\ TaskAt(t).arrival = 0 => AtStart
  /\ \A t \in Task : Blocked(t) => TaskAt(t).io_every # None

Shares ==
  sched.name = "CFS-like" => Drift(Sharing, sched.vruntime) /\ Lead /\ FromTheStart

LEMMA SharesFacts ==
  ASSUME IInv, sched.name = "CFS-like"
  PROVE  /\ \A t \in Task : sched.vruntime[t] \in Nat
         /\ sched.used_slice \in Nat /\ LongestSlice \in Nat
         /\ Sharing \subseteq Task
         /\ \A u \in Sharing : u # running => u \in ReadyTasks(sched)
<1>1. /\ sched.vruntime \in [Task -> Nat] /\ sched.used_slice \in Nat
      /\ ReadyTasks(sched) = {t \in Task : Ready(t)}
  BY CfsFacts
<1>2. ASSUME NEW u \in Sharing, u # running
      PROVE  u \in ReadyTasks(sched)
  BY <1>1, <1>2 DEF Sharing, Ready, IInv, SingleRunner, Running
<1> QED
  BY <1>1, <1>2, PolicyAssumption DEF LongestSlice, Sharing

(* No vruntime moves, nobody begins to share, and who runs goes on to run  *)
(* within its slice or leaves the CPU.                                     *)
LEMMA SharesStay ==
  ASSUME IInv, Shares, workload' = workload, sched'.name = sched.name,
         sched.name = "CFS-like" => sched'.vruntime = sched.vruntime,
         \A t \in Task : state'[t] \in {"Ready", "Running"} =>
                          state[t] \in {"Ready", "Running"},
         \A t \in Task : state'[t] = "New" => state[t] = "New",
         \A t \in Task : state'[t] = "Blocked" =>
                          state[t] = "Blocked" \/ TaskAt(t).io_every # None,
         \/ running' \notin Task
         \/ /\ running' = running /\ sched'.used_slice = sched.used_slice
            /\ ~(step = "settle" /\ action = "Preempt"),
         AtStart' => AtStart,
         \A t \in Task : state[t] = "New" /\ TaskAt(t).arrival = 0 => (AtStart => AtStart')
  PROVE  Shares'
<1> SUFFICES ASSUME sched.name = "CFS-like"
             PROVE  Shares'
  BY DEF Shares
<1>1. Task' = Task /\ \A t : TaskAt(t)' = TaskAt(t)
  BY SameTasks
<1>2. Drift(Sharing, sched.vruntime) /\ Lead /\ FromTheStart /\ Sharing \subseteq Task
  BY SharesFacts DEF Shares
<1>3. Sharing' \subseteq Sharing
  BY <1>1 DEF Sharing
<1>4. Drift(Sharing, sched.vruntime)'
  BY <1>2, <1>3 DEF Drift
<1>5. Lead'
  <2>1. CASE running' \notin Task
    BY <1>2, <1>3, <2>1 DEF Lead
  <2>2. CASE running' = running /\ sched'.used_slice = sched.used_slice
             /\ ~(step = "settle" /\ action = "Preempt")
    BY <1>2, <1>3, <2>2 DEF Lead, LeadOver
  <2> QED
    BY <2>1, <2>2
<1>6. FromTheStart'
  BY <1>1, <1>2 DEF FromTheStart, Blocked
<1> QED
  BY <1>4, <1>5, <1>6 DEF Shares

(* A task that arrives at the start finds every vruntime 0; one that wakes *)
(* up or arrives later does not share.                                     *)
LEMMA SharesJoin ==
  ASSUME Sliced, IInv, Shares, NEW t \in Task, Wake(t) \/ Arrive(t)
  PROVE  Shares'
<1>1. /\ workload' = workload /\ running' = running /\ now' = now /\ step' = step
      /\ step \in {"wake", "arrive"} /\ action' = action
      /\ sched' \in {OnWakeup(sched, t), Enqueue(sched, t)}
      /\ state[t] \in {"New", "Blocked"} /\ state' = [state EXCEPT ![t] = "Ready"]
  BY DEF Wake, Arrive, IsFirst, WakeList, ArrivalList, MakeReady, cpuVars
<1>2. /\ SchedulerOK(sched, Task) /\ t \notin ReadyTasks(sched)
      /\ state \in [Task -> {"New", "Ready", "Running", "Blocked", "Done"}]
  BY <1>1 DEF IInv, TypeOK, ReadyAgree, Ready
<1>3. sched'.name = sched.name
  BY <1>1, <1>2, EnqueueContract, WakeupContract
<1> SUFFICES ASSUME sched.name = "CFS-like"
             PROVE  Shares'
  BY <1>3 DEF Shares
<1>4. sched'.vruntime = sched.vruntime /\ sched'.used_slice = sched.used_slice
  BY <1>1, <1>2, CfsReady DEF SameRuntimes
<1>5. Task' = Task /\ \A x : TaskAt(x)' = TaskAt(x)
  BY <1>1, SameTasks
<1>6. Drift(Sharing, sched.vruntime) /\ Lead /\ FromTheStart
  BY DEF Shares
<1>7. \A x \in Task : x # t => state'[x] = state[x]
  BY <1>2, <1>1
<1>8. state'[t] = "Ready"
  BY <1>2, <1>1
<1>9. FromTheStart'
  BY <1>1, <1>4, <1>5, <1>6, <1>7, <1>8 DEF FromTheStart, AtStart, Blocked
<1>10. CASE state[t] = "New" /\ TaskAt(t).arrival = 0
  <2>1. \A x \in Task : sched'.vruntime[x] = 0
    BY <1>4, <1>6, <1>10 DEF FromTheStart
  <2>2. Sharing' \subseteq Task
    BY <1>5 DEF Sharing
  <2>3. LongestSlice \in Nat /\ sched'.used_slice \in Nat
    BY <1>4, SharesFacts
  <2>4. Drift(Sharing, sched.vruntime)'
    BY <2>1, <2>2, <2>3 DEF Drift
  <2>5. Lead'
    BY <1>1, <2>1, <2>2, <2>3 DEF Lead, LeadOver, Sliced
  <2> QED
    BY <1>9, <2>4, <2>5 DEF Shares
<1>11. CASE ~(state[t] = "New" /\ TaskAt(t).arrival = 0)
  <2>1. t \notin Sharing'
    BY <1>1, <1>5, <1>6, <1>11 DEF Sharing, FromTheStart, Blocked
  <2>2. Sharing' \subseteq Sharing
    BY <1>5, <1>7, <2>1 DEF Sharing
  <2>3. Drift(Sharing, sched.vruntime)'
    BY <1>4, <1>6, <2>2 DEF Drift
  <2>4. Lead'
    BY <1>1, <1>4, <1>6, <2>2 DEF Lead, LeadOver
  <2> QED
    BY <1>9, <2>3, <2>4 DEF Shares
<1> QED
  BY <1>10, <1>11

(* The task that is picked has no lead.                                    *)
LEMMA SharesPick ==
  ASSUME Sliced, IInv, Shares, Dispatch
  PROVE  Shares'
<1>1. PICK o \in PickNext(sched, remaining_cpu, Class) :
        /\ o.next # None /\ sched' = o.sched
        /\ SwitchContext(o.next, now, ReadyLen(o.sched)) /\ StartRunning(o.next)
  BY DEF Dispatch
<1>2. /\ SchedulerOK(sched, Task) /\ None \notin Task
      /\ state \in [Task -> {"New", "Ready", "Running", "Blocked", "Done"}]
      /\ ReadyTasks(sched) = {t \in Task : Ready(t)}
  BY TaskFacts DEF IInv, TypeOK, ReadyAgree
<1>3. sched'.name = sched.name
  BY <1>1, <1>2, PickContract
<1> SUFFICES ASSUME sched.name = "CFS-like"
             PROVE  Shares'
  BY <1>3 DEF Shares
<1>4. /\ workload' = workload /\ now' = now /\ step' = "account" /\ step = "pick"
      /\ running = None /\ running' = o.next
      /\ state' = [state EXCEPT ![running'] = "Running"]
  BY <1>1 DEF Dispatch, SwitchContext, StartRunning
<1>5. /\ sched'.vruntime = sched.vruntime /\ sched'.used_slice = 0
      /\ running' \in ReadyTasks(sched)
      /\ \A u \in ReadyTasks(sched) : sched.vruntime[running'] <= sched.vruntime[u]
  BY <1>1, <1>2, <1>4, CfsPick DEF SameRuntimes
<1>6. Task' = Task /\ \A x : TaskAt(x)' = TaskAt(x)
  BY <1>4, SameTasks
<1>7. Drift(Sharing, sched.vruntime) /\ FromTheStart
  BY DEF Shares
<1>8. Sharing' \subseteq Sharing
  BY <1>2, <1>4, <1>5, <1>6 DEF Sharing, Ready
<1>9. Drift(Sharing, sched.vruntime)'
  BY <1>5, <1>7, <1>8 DEF Drift
<1>10. Lead'
  <2>1. LongestSlice \in Nat /\ 23 * (LongestSlice - 1) >= 0
    BY SharesFacts DEF Sliced
  <2>2. ASSUME NEW u \in Sharing'
        PROVE  LeadOver(u)' <= 0
    <3>1. u \in ReadyTasks(sched) /\ u \in Task
      BY <1>2, <1>4, <1>8, SharesFacts
    <3>2. sched.vruntime[u] \in Nat /\ sched.vruntime[running'] \in Nat
      BY <1>2, <1>5, <3>1, SharesFacts
    <3> QED
      BY <1>5, <3>1, <3>2 DEF LeadOver
  <2>3. \A u \in Sharing' : LeadOver(u)' \in Int
    <3> SUFFICES ASSUME NEW u \in Sharing'
                 PROVE  LeadOver(u)' \in Int
      OBVIOUS
    <3>1. sched.vruntime[u] \in Nat /\ sched.vruntime[running'] \in Nat
      BY <1>2, <1>5, <1>8, SharesFacts
    <3> QED
      BY <1>5, <3>1 DEF LeadOver
  <2>4. \A u \in Sharing' : LeadOver(u)' <= 23 * sched'.used_slice
                           /\ LeadOver(u)' <= 23 * (LongestSlice - 1)
    BY <1>5, <2>1, <2>2, <2>3
  <2> QED
    BY <2>4 DEF Lead
<1>11. FromTheStart'
  BY <1>2, <1>4, <1>5, <1>6, <1>7 DEF FromTheStart, AtStart, Blocked
<1> QED
  BY <1>9, <1>10, <1>11 DEF Shares

(* One more tick is charged to the running task.                           *)
LEMMA SharesTick ==
  ASSUME Sliced, IInv, InStep, Shares, Tick
  PROVE  Shares'
<1>1. PICK o \in OnTick(sched, Class, running, now) : action' = o.action /\ sched' = o.sched
  BY DEF Tick
<1>2. /\ SchedulerOK(sched, Task) /\ running \in Task /\ running # None
      /\ now \in Nat /\ Class \in [Task -> Classes]
  BY TaskFacts DEF IInv, TypeOK, Tick
<1>3. sched'.name = sched.name /\ action' \in {"Continue", "Preempt"}
  BY <1>1, <1>2, TickContract DEF Classes
<1> SUFFICES ASSUME sched.name = "CFS-like"
             PROVE  Shares'
  BY <1>3 DEF Shares
<1>4. /\ workload' = workload /\ running' = running /\ state' = state
      /\ step = "tick" /\ step' = "settle"
  BY DEF Tick, cpuVars
<1>5. sched.running = running
  BY <1>2, <1>4 DEF InStep, Follows, Tracks
<1> DEFINE v == sched.vruntime
           w == Cfs!ClassWeight(Class[running])
           used == sched.used_slice
<1>6. /\ sched'.vruntime = [v EXCEPT ![running] = v[running] + w]
      /\ action' = "Continue" =>
           /\ sched'.used_slice = used + 1
           /\ \/ used + 1 < LongestSlice
              \/ \A u \in ReadyTasks(sched) : v[running] + w <= v[u] + 10
  BY <1>1, <1>2, <1>5, CfsTick
<1>7. /\ v \in [Task -> Nat] /\ used \in Nat /\ LongestSlice \in Nat /\ LongestSlice >= 2
      /\ \A u \in Sharing : u # running => u \in ReadyTasks(sched)
      /\ Sharing \subseteq Task
  BY CfsFacts, SharesFacts DEF Sliced
<1>8. w \in Nat /\ (running \in Sharing => w = 23)
  BY <1>2 DEF Cfs!ClassWeight, Classes, Sharing, Class
<1>9. Task' = Task /\ \A x : TaskAt(x)' = TaskAt(x)
  BY <1>4, SameTasks
<1>10. Sharing' = Sharing
  BY <1>4, <1>9 DEF Sharing
<1>11. Drift(Sharing, v) /\ FromTheStart
       /\ (running \in Sharing =>
            \A u \in Sharing \ {running} :
              v[running] - v[u] <= 23 * used /\ v[running] - v[u] <= 23 * (LongestSlice - 1))
  BY <1>4 DEF Shares, Lead, LeadOver
<1> HIDE DEF v, w, used
<1>12. /\ sched'.vruntime[running] = v[running] + w
       /\ \A u \in Task \ {running} : sched'.vruntime[u] = v[u]
       /\ \A u \in Task : v[u] \in Nat
  BY <1>2, <1>6, <1>7
<1>13. Drift(Sharing, sched.vruntime)'
  <2> SUFFICES ASSUME NEW t \in Sharing, NEW u \in Sharing
               PROVE  sched'.vruntime[t] - sched'.vruntime[u] <= 23 * LongestSlice
    BY <1>10 DEF Drift
  <2>1. v[t] - v[u] <= 23 * LongestSlice /\ v[t] \in Nat /\ v[u] \in Nat
    BY <1>7, <1>11, <1>12 DEF Drift
  <2>2. CASE t = running /\ u # running
    BY <1>7, <1>8, <1>11, <1>12, <2>1, <2>2
  <2>3. CASE t # running /\ u = running
    BY <1>7, <1>8, <1>12, <2>1, <2>3
  <2>4. CASE t # running /\ u # running
    BY <1>7, <1>12, <2>1, <2>4
  <2>5. CASE t = running /\ u = running
    BY <1>7, <1>8, <1>12, <2>1, <2>5
  <2> QED
    BY <2>2, <2>3, <2>4, <2>5
<1>14. Lead'
  <2> SUFFICES ASSUME running \in Sharing, action' = "Continue",
                      NEW u \in Sharing \ {running}
               PROVE  /\ v[running] + 23 - v[u] <= 23 * sched'.used_slice
                      /\ v[running] + 23 - v[u] <= 23 * (LongestSlice - 1)
    BY <1>3, <1>4, <1>7, <1>8, <1>10, <1>12 DEF Lead, LeadOver
  <2>1. /\ v[running] \in Nat /\ v[u] \in Nat
        /\ v[running] - v[u] <= 23 * used /\ v[running] - v[u] <= 23 * (LongestSlice - 1)
        /\ sched'.used_slice = used + 1
    BY <1>2, <1>6, <1>7, <1>11, <1>12
  <2>2. used + 1 < LongestSlice \/ v[running] + 23 <= v[u] + 10
    BY <1>6, <1>7, <1>8
  <2> QED
    BY <1>7, <2>1, <2>2
<1>15. FromTheStart'
  BY <1>4, <1>9, <1>11 DEF FromTheStart, AtStart, Blocked
<1> QED
  BY <1>13, <1>14, <1>15 DEF Shares

(* The steps that leave the policy alone.                                  *)
LEMMA SharesMove ==
  ASSUME IInv, Shares,
         \/ WakesDone \/ ArrivalsDone \/ KeepRunning \/ Account \/ NoTask \/ Finish
         \/ Continue \/ NextTick \/ Break
  PROVE  Shares'
<1>1. /\ state \in [Task -> {"New", "Ready", "Running", "Blocked", "Done"}]
      /\ now \in Nat /\ None \notin Task
      /\ \A t \in Task : TaskAt(t).arrival \in Nat
  BY TaskFacts DEF IInv, TypeOK, TaskSpecs
<1>2. /\ workload' = workload /\ sched' = sched
      /\ \/ state' = state
         \/ running \in Task /\ state' = [state EXCEPT ![running] = "Done"]
  BY DEF WakesDone, ArrivalsDone, KeepRunning, Account, NoTask, Finish, Continue, NextTick,
     Break, taskVars, IInv, TypeOK, SettleHasTask
<1>3. \/ running' \notin Task
      \/ running' = running /\ ~(step = "settle" /\ action = "Preempt")
  <2>1. CASE Finish
    BY <1>1, <2>1 DEF Finish, SwitchContext, cpuVars
  <2>2. CASE ~Finish
    BY <2>2 DEF WakesDone, ArrivalsDone, KeepRunning, Account, NoTask, Continue, NextTick,
       Break, cpuVars
  <2> QED
    BY <2>1, <2>2
<1>4. AtStart' => AtStart
  BY <1>1 DEF WakesDone, ArrivalsDone, KeepRunning, Account, NoTask, Finish, Continue,
     NextTick, Break, AtStart
<1>5. ASSUME NEW t \in Task, state[t] = "New", TaskAt(t).arrival = 0, AtStart
      PROVE  AtStart'
  <2>1. WakesDone \/ ArrivalsDone
    BY <1>5 DEF AtStart, KeepRunning, Account, NoTask, Finish, Continue, NextTick, Break
  <2>2. ~ArrivalsDone
    <3>1. t \in ArrivalList
      BY <1>5 DEF ArrivalList, AtStart
    <3> QED
      BY <3>1 DEF ArrivalsDone
  <2> QED
    BY <1>5, <2>1, <2>2 DEF WakesDone, AtStart
<1>6. \A t \in Task : state'[t] \in {state[t], "Done"}
  BY <1>1, <1>2
<1> QED
  BY <1>2, <1>3, <1>4, <1>5, <1>6, SharesStay

(* The steps that take the CPU away, or find nobody to give it to.         *)
LEMMA SharesLeave ==
  ASSUME IInv, Shares, StayIdle \/ Block \/ Preempt
  PROVE  Shares'
<1>1. /\ SchedulerOK(sched, Task) /\ None \notin Task
      /\ state \in [Task -> {"New", "Ready", "Running", "Blocked", "Done"}]
  BY TaskFacts DEF IInv, TypeOK
<1>2. workload' = workload /\ running' = None /\ step \notin {"wake", "arrive"} /\ ~AtStart'
  BY DEF StayIdle, Block, Preempt, SwitchContext, cpuVars, AtStart
<1>3. sched'.name = sched.name
      /\ (sched.name = "CFS-like" => sched'.vruntime = sched.vruntime)
  <2>1. CASE StayIdle
    BY <1>1, <2>1, PickContract, CfsPick DEF StayIdle, SameRuntimes
  <2>2. CASE Block \/ Preempt
    <3>1. running \in Task /\ running \notin ReadyTasks(sched)
      BY <2>2 DEF Block, Preempt, IInv, TypeOK, SettleHasTask, SingleRunner, Running,
         ReadyAgree, Ready
    <3>2. CASE Block
      BY <1>1, <3>1, <3>2, BlockContract, CfsBlock DEF Block, SameRuntimes
    <3>3. CASE Preempt
      BY <1>1, <3>1, <3>3, EnqueueContract, CfsReady DEF Preempt, SameRuntimes
    <3> QED
      BY <2>2, <3>2, <3>3
  <2> QED
    BY <2>1, <2>2
<1>4. ASSUME NEW t \in Task
      PROVE  /\ state'[t] \in {"Ready", "Running"} => state[t] \in {"Ready", "Running"}
             /\ state'[t] = "New" => state[t] = "New"
             /\ state'[t] = "Blocked" => state[t] = "Blocked" \/ TaskAt(t).io_every # None
  <2>1. CASE StayIdle
    BY <2>1 DEF StayIdle, taskVars
  <2>2. CASE Block \/ Preempt
    <3>1. running \in Task /\ state[running] = "Running"
      BY <2>2 DEF Block, Preempt, IInv, TypeOK, SettleHasTask, SingleRunner, Running
    <3>2. CASE Block
      BY <1>1, <3>1, <3>2 DEF Block, IoDue
    <3>3. CASE Preempt
      BY <1>1, <3>1, <3>3 DEF Preempt, MakeReady
    <3> QED
      BY <2>2, <3>2, <3>3
  <2> QED
    BY <2>1, <2>2
<1>5. ~AtStart
  BY <1>2 DEF AtStart
<1> QED
  BY <1>1, <1>2, <1>3, <1>4, <1>5, SharesStay

LEMMA NextShares ==
  ASSUME Sliced, IInv, InStep, Shares, [Next]_vars
  PROVE  Shares'
<1>1. CASE \E t \in Task : Wake(t) \/ Arrive(t)
  BY <1>1, SharesJoin
<1>2. CASE \/ WakesDone \/ ArrivalsDone \/ KeepRunning \/ Account \/ NoTask \/ Finish
           \/ Continue \/ NextTick \/ Break
  BY <1>2, SharesMove
<1>3. CASE Dispatch
  BY <1>3, SharesPick
<1>4. CASE Tick
  BY <1>4, SharesTick
<1>5. CASE StayIdle \/ Block \/ Preempt
  BY <1>5, SharesLeave
<1>6. CASE Terminated \/ UNCHANGED vars
  <2>1. /\ workload' = workload /\ sched' = sched /\ state' = state /\ running' = running
        /\ now' = now /\ step' = step /\ action' = action
    BY <1>6 DEF Terminated, vars, taskVars, cpuVars
  <2>2. Task' = Task /\ \A x : TaskAt(x)' = TaskAt(x)
    BY <2>1, SameTasks
  <2>3. Sharing' = Sharing
    BY <2>1, <2>2 DEF Sharing
  <2> QED
    BY <2>1, <2>2, <2>3 DEF Shares, Drift, Lead, LeadOver, FromTheStart, AtStart, Blocked
<1> QED
  BY <1>1, <1>2, <1>3, <1>4, <1>5, <1>6 DEF Next

(* Two CPU-bound tasks that are there from the start never differ by more  *)
(* than one longest slice, however long they run and whoever comes and     *)
(* goes beside them.                                                       *)
THEOREM FairShare ==
  ASSUME Positive, Sliced
  PROVE  Spec => []CfsFairShare
<1>1. Init => Shares
  <2> SUFFICES ASSUME Init, sched.name = "CFS-like"
               PROVE  Shares
    BY DEF Shares
  <2>1. PICK name \in SchedulerNames : sched = NewScheduler(name, Task)
    BY DEF Init
  <2>2. name = "CFS-like"
    BY <2>1, NewContract, ExperimentAssumption
  <2>3. \A t \in Task : sched.vruntime[t] = 0
    BY <2>1, <2>2 DEF NewScheduler, Cfs!New
  <2>4. /\ \A t \in Task : state[t] = "New" /\ running = None /\ AtStart
    BY DEF Init, AtStart
  <2>5. Sharing = {}
    BY <2>4 DEF Sharing
  <2> QED
    BY <2>3, <2>4, <2>5 DEF Shares, Drift, Lead, FromTheStart, Blocked, Init
<1>2. IInv /\ InStep /\ Shares /\ [Next]_vars => Shares'
  BY NextShares
<1>3. Shares => CfsFairShare
  BY DEF Shares, Drift, Sharing, CfsFairShare
<1> QED
  BY <1>1, <1>2, <1>3, Invariance, StaysInStep, PTL DEF Spec
=============================================================================
