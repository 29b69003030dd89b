--------------------------- MODULE SchedulerProofs --------------------------
(***************************************************************************)
(* Every policy keeps the contract of trait Scheduler: it stays in one of  *)
(* its own states, keeps its name, and what an operation does to the set   *)
(* of ready tasks is what AnyScheduler says.  The experiment loop is       *)
(* proved from these facts alone.                                          *)
(***************************************************************************)
EXTENDS Schedulers, SequenceTheorems, FiniteSetTheorems, TLAPS

-----------------------------------------------------------------------------
(* What push_back, pop_front, swap_remove and draining one queue into      *)
(* another do to a Vec without duplicates: which tasks it holds then, and  *)
(* that it still holds each of them once.                                  *)

(* A new Vec holds nothing. *)
LEMMA EmptyVec ==
  ASSUME NEW T
  PROVE  /\ << >> \in Seq(T)
         /\ IsDuplicateFree(<< >>)
         /\ Range(<< >>) = {}
         /\ \A vec \in Seq(T) : vec = << >> <=> Range(vec) = {}
<1>1. << >> \in Seq(T) /\ Len(<< >>) = 0
  BY EmptySeq
<1>2. DOMAIN << >> = {}
  OBVIOUS
<1>3. ASSUME NEW vec \in Seq(T), Range(vec) = {}
      PROVE  vec = << >>
  <2>1. DOMAIN vec = {}
    BY <1>3 DEF Range
  <2>2. Len(vec) \in Nat /\ DOMAIN vec = 1 .. Len(vec)
    BY LenProperties
  <2>3. ~(1 <= Len(vec))
    BY <2>1, <2>2
  <2> QED
    BY <2>2, <2>3, EmptySeq
<1> QED
  BY <1>1, <1>2, <1>3 DEF Range, IsDuplicateFree, IsInjective

(* push_back of a task that is not there. *)
LEMMA PushBack ==
  ASSUME NEW T, NEW vec \in Seq(T), NEW t \in T,
         IsDuplicateFree(vec), t \notin Range(vec)
  PROVE  /\ Append(vec, t) \in Seq(T)
         /\ IsDuplicateFree(Append(vec, t))
         /\ Range(Append(vec, t)) = Range(vec) \cup {t}
<1> DEFINE new == Append(vec, t)
<1>1. /\ new \in Seq(T)
      /\ DOMAIN new = 1 .. Len(vec) + 1
      /\ DOMAIN vec = 1 .. Len(vec)
      /\ Len(vec) \in Nat
      /\ new[Len(vec) + 1] = t
      /\ \A i \in 1 .. Len(vec) : new[i] = vec[i]
  BY AppendProperties, LenProperties
<1> HIDE DEF new
<1>2. \A i \in 1 .. Len(vec) : vec[i] # t
  BY <1>1 DEF Range
<1>3. IsDuplicateFree(new)
  <2> SUFFICES ASSUME NEW i \in DOMAIN new, NEW j \in DOMAIN new, new[i] = new[j]
               PROVE  i = j
    BY DEF IsDuplicateFree, IsInjective
  <2>1. CASE i \in 1 .. Len(vec) /\ j \in 1 .. Len(vec)
    BY <1>1, <2>1 DEF IsDuplicateFree, IsInjective
  <2>2. CASE i = Len(vec) + 1 \/ j = Len(vec) + 1
    BY <1>1, <1>2, <2>2
  <2> QED
    BY <1>1, <2>1, <2>2
<1>4. Range(new) = Range(vec) \cup {t}
  <2>1. ASSUME NEW i \in DOMAIN new
        PROVE  new[i] \in Range(vec) \cup {t}
    BY <1>1 DEF Range
  <2>2. ASSUME NEW i \in DOMAIN vec
        PROVE  vec[i] \in Range(new)
    BY <1>1 DEF Range
  <2>3. t \in Range(new)
    BY <1>1 DEF Range
  <2> QED
    BY <2>1, <2>2, <2>3 DEF Range
<1> QED
  BY <1>1, <1>3, <1>4 DEF new

(* pop_front. *)
LEMMA PopFront ==
  ASSUME NEW T, NEW vec \in Seq(T), vec # << >>, IsDuplicateFree(vec)
  PROVE  /\ Head(vec) \in Range(vec)
         /\ Tail(vec) \in Seq(T)
         /\ IsDuplicateFree(Tail(vec))
         /\ Range(Tail(vec)) = Range(vec) \ {Head(vec)}
<1> DEFINE new == Tail(vec)
<1>1. /\ new \in Seq(T)
      /\ Len(vec) \in Nat \ {0}
      /\ DOMAIN new = 1 .. Len(vec) - 1
      /\ DOMAIN vec = 1 .. Len(vec)
      /\ Head(vec) = vec[1]
      /\ \A i \in 1 .. Len(vec) - 1 : new[i] = vec[i + 1]
  BY HeadTailProperties, LenProperties, EmptySeq
<1> HIDE DEF new
<1>2. IsDuplicateFree(new)
  <2> SUFFICES ASSUME NEW i \in DOMAIN new, NEW j \in DOMAIN new, new[i] = new[j]
               PROVE  i = j
    BY DEF IsDuplicateFree, IsInjective
  <2>1. i + 1 \in DOMAIN vec /\ j + 1 \in DOMAIN vec /\ vec[i + 1] = vec[j + 1]
    BY <1>1
  <2>2. i + 1 = j + 1
    BY <2>1 DEF IsDuplicateFree, IsInjective
  <2> QED
    BY <1>1, <2>2
<1>3. Range(new) = Range(vec) \ {vec[1]}
  <2>1. ASSUME NEW i \in DOMAIN new
        PROVE  new[i] \in Range(vec) \ {vec[1]}
    BY <1>1 DEF IsDuplicateFree, IsInjective, Range
  <2>2. ASSUME NEW i \in DOMAIN vec, vec[i] # vec[1]
        PROVE  vec[i] \in Range(new)
    <3>1. i - 1 \in DOMAIN new /\ new[i - 1] = vec[i]
      BY <1>1, <2>2
    <3> QED
      BY <3>1 DEF Range
  <2> QED
    BY <2>1, <2>2 DEF Range
<1>4. vec[1] \in Range(vec)
  BY <1>1 DEF Range
<1> QED
  BY <1>1, <1>2, <1>3, <1>4 DEF new

(* swap_remove: the Vec loses the task at the index, and no other.         *)
LEMMA SwapRemoveProperties ==
  ASSUME NEW T, NEW vec \in Seq(T), NEW i \in DOMAIN vec, IsDuplicateFree(vec)
  PROVE  /\ SwapRemove(vec, i) \in Seq(T)
         /\ IsDuplicateFree(SwapRemove(vec, i))
         /\ Range(SwapRemove(vec, i)) = Range(vec) \ {vec[i]}
<1> DEFINE n == Len(vec)
<1> DEFINE new == SwapRemove(vec, i)
<1>1. n \in Nat /\ DOMAIN vec = 1 .. n /\ \A j \in 1 .. n : vec[j] \in T
  BY LenProperties, ElementOfSeq
<1>2. /\ DOMAIN new = 1 .. n - 1
      /\ \A j \in 1 .. n - 1 : new[j] = IF j = i THEN vec[n] ELSE vec[j]
  BY DEF SwapRemove
<1>3. new \in Seq(T)
  <2>1. n - 1 \in Nat
    BY <1>1
  <2>2. new \in [1 .. n - 1 -> T]
    <3>1. \A j \in 1 .. n - 1 : (IF j = i THEN vec[n] ELSE vec[j]) \in T
      BY <1>1
    <3> QED
      BY <3>1 DEF SwapRemove
  <2> QED
    BY <2>1, <2>2, SeqDef
<1> HIDE DEF new, n
<1>4. IsDuplicateFree(new)
  BY <1>1, <1>2 DEF IsDuplicateFree, IsInjective
<1>5. Range(new) = Range(vec) \ {vec[i]}
  <2>1. ASSUME NEW j \in DOMAIN new
        PROVE  new[j] \in Range(vec) \ {vec[i]}
    BY <1>1, <1>2 DEF IsDuplicateFree, IsInjective, Range
  <2>2. ASSUME NEW j \in DOMAIN vec, vec[j] # vec[i]
        PROVE  vec[j] \in Range(new)
    <3>1. CASE j = n
      BY <1>1, <1>2, <2>2, <3>1 DEF Range
    <3>2. CASE j # n
      BY <1>1, <1>2, <2>2, <3>2 DEF Range
    <3> QED
      BY <3>1, <3>2
  <2> QED
    BY <2>1, <2>2 DEF Range
<1> QED
  BY <1>3, <1>4, <1>5 DEF new

(* Draining one queue behind another with which it has no task in common.  *)
LEMMA Drain ==
  ASSUME NEW T, NEW a \in Seq(T), NEW b \in Seq(T),
         IsDuplicateFree(a), IsDuplicateFree(b), Range(a) \cap Range(b) = {}
  PROVE  /\ a \o b \in Seq(T)
         /\ IsDuplicateFree(a \o b)
         /\ Range(a \o b) = Range(a) \cup Range(b)
         /\ Len(a \o b) = Len(a) + Len(b)
<1> DEFINE m == Len(a)
<1> DEFINE n == Len(b)
<1> DEFINE ab == a \o b
<1>1. /\ m \in Nat /\ n \in Nat
      /\ DOMAIN a = 1 .. m /\ DOMAIN b = 1 .. n
      /\ ab \in Seq(T)
      /\ DOMAIN ab = 1 .. m + n
      /\ Len(ab) = m + n
      /\ \A i \in 1 .. m + n : ab[i] = IF i <= m THEN a[i] ELSE b[i - m]
  BY LenProperties, ConcatProperties
<1> HIDE DEF m, n, ab
<1>2. \A i \in 1 .. m, j \in 1 .. n : a[i] # b[j]
  BY <1>1 DEF Range
<1>3. IsDuplicateFree(ab)
  <2> SUFFICES ASSUME NEW i \in 1 .. m + n, NEW j \in 1 .. m + n, ab[i] = ab[j]
               PROVE  i = j
    BY <1>1 DEF IsDuplicateFree, IsInjective
  <2>1. CASE i <= m /\ j <= m
    BY <1>1, <2>1 DEF IsDuplicateFree, IsInjective
  <2>2. CASE ~(i <= m) /\ ~(j <= m)
    <3>1. i - m \in 1 .. n /\ j - m \in 1 .. n
      BY <1>1, <2>2
    <3>2. b[i - m] = b[j - m]
      BY <1>1, <2>2
    <3>3. i - m = j - m
      BY <1>1, <3>1, <3>2 DEF IsDuplicateFree, IsInjective
    <3> QED
      BY <1>1, <3>3
  <2>3. CASE i <= m /\ ~(j <= m)
    BY <1>1, <1>2, <2>3
  <2>4. CASE ~(i <= m) /\ j <= m
    BY <1>1, <1>2, <2>4
  <2> QED
    BY <2>1, <2>2, <2>3, <2>4
<1>4. Range(ab) = Range(a) \cup Range(b)
  <2>1. ASSUME NEW i \in DOMAIN ab
        PROVE  ab[i] \in Range(a) \cup Range(b)
    <3>1. CASE i <= m
      BY <1>1, <3>1 DEF Range
    <3>2. CASE ~(i <= m)
      <4>1. i - m \in DOMAIN b /\ ab[i] = b[i - m]
        BY <1>1, <3>2
      <4> QED
        BY <4>1 DEF Range
    <3> QED
      BY <3>1, <3>2
  <2>2. ASSUME NEW i \in DOMAIN a
        PROVE  a[i] \in Range(ab)
    BY <1>1 DEF Range
  <2>3. ASSUME NEW i \in DOMAIN b
        PROVE  b[i] \in Range(ab)
    <3>1. i + m \in DOMAIN ab /\ ab[i + m] = b[i]
      BY <1>1
    <3> QED
      BY <3>1 DEF Range
  <2> QED
    BY <2>1, <2>2, <2>3 DEF Range
<1> QED
  BY <1>1, <1>3, <1>4 DEF ab, m, n

(* The length of a Vec without duplicates is the number of its tasks.      *)
LEMMA LenIsCardinality ==
  ASSUME NEW T, NEW vec \in Seq(T), IsDuplicateFree(vec)
  PROVE  /\ Len(vec) \in Nat
         /\ IsFiniteSet(Range(vec))
         /\ Cardinality(Range(vec)) = Len(vec)
<1>1. Len(vec) \in Nat /\ DOMAIN vec = 1 .. Len(vec) /\ vec \in [1 .. Len(vec) -> T]
  BY LenProperties
<1>2. vec \in Bijection(1 .. Len(vec), Range(vec))
  BY <1>1 DEF Bijection, Injection, Surjection, IsInjective, IsDuplicateFree, Range
<1>3. ExistsBijection(1 .. Len(vec), Range(vec))
  BY <1>2 DEF ExistsBijection
<1> QED
  BY <1>1, <1>3, FS_CountingElements, FS_NatBijection

-----------------------------------------------------------------------------
(* SchedulerOK is the OK predicate of the policy the state belongs to. *)
LEMMA PolicyCases ==
  ASSUME NEW Task, NEW s, SchedulerOK(s, Task)
  PROVE  \/ s.name = "Any" /\ AnyOK(s, Task)
         \/ s.name = "FCFS" /\ FcfsOK(s, Task)
         \/ s.name = "SJF" /\ SjfOK(s, Task)
         \/ s.name = "RR" /\ RrOK(s, Task)
         \/ s.name = "MLFQ" /\ MlfqOK(s, Task)
         \/ s.name = "CFS-like" /\ CfsOK(s, Task)
BY DEF SchedulerOK

-----------------------------------------------------------------------------
(* new() of every policy: it holds no task. *)
LEMMA NewContract ==
  ASSUME NEW Task, NEW name \in PolicyNames
  PROVE  LET s == NewScheduler(name, Task)
         IN  /\ SchedulerOK(s, Task)
             /\ s.name = name
             /\ ReadyTasks(s) = {}
<1> DEFINE s == NewScheduler(name, Task)
<1>1. CASE name = "Any"
  <2>1. s = [name |-> "Any", ready |-> {}]
    BY <1>1 DEF NewScheduler, Contract!New
  <2> QED
    BY <1>1, <2>1 DEF SchedulerOK, AnyOK, ReadyTasks
<1>2. CASE name = "FCFS"
  <2>1. s = [name |-> "FCFS", queue |-> << >>]
    BY <1>2 DEF NewScheduler, Fcfs!New
  <2>2. FcfsOK(s, Task)
    BY <2>1, EmptyVec DEF FcfsOK
  <2>3. ReadyTasks(s) = {}
    BY <2>1, EmptyVec DEF ReadyTasks
  <2> QED
    BY <1>2, <2>1, <2>2, <2>3 DEF SchedulerOK
<1>3. CASE name = "SJF"
  <2>1. s = [name |-> "SJF", ready |-> << >>]
    BY <1>3 DEF NewScheduler, Sjf!New
  <2>2. SjfOK(s, Task)
    BY <2>1, EmptyVec DEF SjfOK
  <2>3. ReadyTasks(s) = {}
    BY <2>1, EmptyVec DEF ReadyTasks
  <2> QED
    BY <1>3, <2>1, <2>2, <2>3 DEF SchedulerOK
<1>4. CASE name = "RR"
  <2>1. s = [name |-> "RR", queue |-> << >>, running |-> None, used_slice |-> 0]
    BY <1>4 DEF NewScheduler, Rr!New
  <2>2. RrOK(s, Task)
    BY <2>1, EmptyVec DEF RrOK
  <2>3. ReadyTasks(s) = {}
    BY <2>1, EmptyVec DEF ReadyTasks
  <2> QED
    BY <1>4, <2>1, <2>2, <2>3 DEF SchedulerOK
<1>5. CASE name = "MLFQ"
  <2>1. s = Mlfq!New(Task)
    BY <1>5 DEF NewScheduler
  <2>2. /\ s.name = "MLFQ"
        /\ s \in [name : {"MLFQ"}, queues : [Mlfq!Level -> Seq(Task)],
                  mlfq_level : [Task -> Mlfq!Level], next_boost_at : Nat,
                  running : Task \cup {None}, used_slice : Nat]
        /\ \A l \in Mlfq!Level : s.queues[l] = << >>
    BY <2>1, EmptyVec, PolicyAssumption DEF Mlfq!New, Mlfq!Level, Mlfq!NumLevels
  <2>3. MlfqOK(s, Task)
    BY <2>2, EmptyVec DEF MlfqOK
  <2>4. ReadyTasks(s) = {}
    BY <2>2, EmptyVec DEF ReadyTasks
  <2> QED
    BY <1>5, <2>2, <2>3, <2>4 DEF SchedulerOK
<1>6. CASE name = "CFS-like"
  <2>1. s = [name |-> "CFS-like", ready |-> << >>, vruntime |-> [t \in Task |-> 0],
             running |-> None, used_slice |-> 0]
    BY <1>6 DEF NewScheduler, Cfs!New
  <2>2. CfsOK(s, Task)
    BY <2>1, EmptyVec DEF CfsOK
  <2>3. ReadyTasks(s) = {}
    BY <2>1, EmptyVec DEF ReadyTasks
  <2> QED
    BY <1>6, <2>1, <2>2, <2>3 DEF SchedulerOK
<1> QED
  BY <1>1, <1>2, <1>3, <1>4, <1>5, <1>6 DEF PolicyNames, SchedulerSuite

-----------------------------------------------------------------------------
(* push_level of MLFQ, whatever level it is given. *)
LEMMA PushLevelContract ==
  ASSUME NEW Task, NEW s, s.name = "MLFQ", MlfqOK(s, Task), NEW t \in Task,
         t \notin ReadyTasks(s), NEW level \in Nat
  PROVE  LET new == Mlfq!PushLevel(s, t, level)
         IN  /\ new.name = "MLFQ"
             /\ MlfqOK(new, Task)
             /\ ReadyTasks(new) = ReadyTasks(s) \cup {t}
<1> DEFINE new == Mlfq!PushLevel(s, t, level)
<1> DEFINE l == IF level < 4 THEN level ELSE 3
<1> DEFINE q == Append(s.queues[l], t)
<1>1. /\ l \in Mlfq!Level
      /\ s.queues \in [Mlfq!Level -> Seq(Task)]
      /\ \A k \in Mlfq!Level : IsDuplicateFree(s.queues[k])
      /\ \A j, k \in Mlfq!Level :
           j # k => Range(s.queues[j]) \cap Range(s.queues[k]) = {}
      /\ ReadyTasks(s) = UNION {Range(s.queues[k]) : k \in Mlfq!Level}
  BY DEF MlfqOK, ReadyTasks, Mlfq!Level, Mlfq!NumLevels
<1>2. \A k \in Mlfq!Level : t \notin Range(s.queues[k])
  BY <1>1
<1>3. q \in Seq(Task) /\ IsDuplicateFree(q) /\ Range(q) = Range(s.queues[l]) \cup {t}
  BY <1>1, <1>2, PushBack
<1>4. new = [s EXCEPT !.queues[l] = q]
  BY DEF Mlfq!PushLevel, Mlfq!NumLevels
<1> HIDE DEF new, l, q
<1>5. /\ new \in [name : {"MLFQ"}, queues : [Mlfq!Level -> Seq(Task)],
                  mlfq_level : [Task -> Mlfq!Level], next_boost_at : Nat,
                  running : Task \cup {None}, used_slice : Nat]
      /\ new.name = "MLFQ"
      /\ \A k \in Mlfq!Level : new.queues[k] = IF k = l THEN q ELSE s.queues[k]
  BY <1>1, <1>3, <1>4 DEF MlfqOK
<1>6. MlfqOK(new, Task)
  <2>1. \A k \in Mlfq!Level : IsDuplicateFree(new.queues[k])
    BY <1>1, <1>3, <1>5
  <2>2. ASSUME NEW j \in Mlfq!Level, NEW k \in Mlfq!Level, j # k
        PROVE  Range(new.queues[j]) \cap Range(new.queues[k]) = {}
    <3>1. Range(s.queues[j]) \cap Range(s.queues[k]) = {}
      BY <1>1, <2>2
    <3>2. CASE j = l
      <4>1. new.queues[j] = q /\ new.queues[k] = s.queues[k]
        BY <1>5, <2>2, <3>2
      <4> QED
        BY <1>2, <1>3, <3>1, <3>2, <4>1
    <3>3. CASE k = l
      <4>1. new.queues[k] = q /\ new.queues[j] = s.queues[j]
        BY <1>5, <2>2, <3>3
      <4> QED
        BY <1>2, <1>3, <3>1, <3>3, <4>1
    <3>4. CASE j # l /\ k # l
      BY <1>5, <3>1, <3>4
    <3> QED
      BY <3>2, <3>3, <3>4
  <2> QED
    BY <1>5, <2>1, <2>2 DEF MlfqOK
<1>7. ReadyTasks(new) = ReadyTasks(s) \cup {t}
  <2>1. ReadyTasks(new) = UNION {Range(new.queues[k]) : k \in Mlfq!Level}
    BY <1>5 DEF ReadyTasks
  <2>2. ASSUME NEW x \in ReadyTasks(new)
        PROVE  x \in ReadyTasks(s) \cup {t}
    <3>1. PICK k \in Mlfq!Level : x \in Range(new.queues[k])
      BY <2>1
    <3>2. x \in Range(s.queues[k]) \cup {t}
      BY <1>3, <1>5, <3>1
    <3> QED
      BY <1>1, <3>2
  <2>3. ASSUME NEW k \in Mlfq!Level, NEW x \in Range(s.queues[k])
        PROVE  x \in ReadyTasks(new)
    <3>1. x \in Range(new.queues[k])
      BY <1>3, <1>5
    <3> QED
      BY <2>1, <3>1
  <2>4. t \in ReadyTasks(new)
    <3>1. t \in Range(new.queues[l])
      BY <1>1, <1>3, <1>5
    <3> QED
      BY <1>1, <2>1, <3>1
  <2> QED
    BY <1>1, <2>2, <2>3, <2>4
<1> QED
  BY <1>5, <1>6, <1>7 DEF new

(* enqueue of a task that is not queued: the policy holds it now, too. *)
LEMMA EnqueueContract ==
  ASSUME NEW Task, NEW s, SchedulerOK(s, Task), NEW t \in Task, t \notin ReadyTasks(s)
  PROVE  LET new == Enqueue(s, t)
         IN  /\ SchedulerOK(new, Task)
             /\ new.name = s.name
             /\ ReadyTasks(new) = ReadyTasks(s) \cup {t}
<1> DEFINE new == Enqueue(s, t)
<1>1. CASE s.name = "Any" /\ AnyOK(s, Task)
  <2>1. new = [s EXCEPT !.ready = @ \cup {t}]
    BY <1>1 DEF Enqueue, Contract!Enqueue
  <2>2. AnyOK(new, Task) /\ new.name = "Any" /\ new.ready = s.ready \cup {t}
    BY <1>1, <2>1 DEF AnyOK
  <2> QED
    BY <1>1, <2>2 DEF SchedulerOK, ReadyTasks
<1>2. CASE s.name = "FCFS" /\ FcfsOK(s, Task)
  <2> DEFINE q == Append(s.queue, t)
  <2>1. ReadyTasks(s) = Range(s.queue) /\ s.queue \in Seq(Task)
    BY <1>2 DEF ReadyTasks, FcfsOK
  <2>2. q \in Seq(Task) /\ IsDuplicateFree(q) /\ Range(q) = Range(s.queue) \cup {t}
    BY <1>2, <2>1, PushBack DEF FcfsOK
  <2>3. new = [s EXCEPT !.queue = q]
    BY <1>2 DEF Enqueue, Fcfs!Enqueue
  <2> HIDE DEF q, new
  <2>4. FcfsOK(new, Task) /\ new.name = "FCFS" /\ new.queue = q
    BY <1>2, <2>2, <2>3 DEF FcfsOK
  <2>5. ReadyTasks(new) = Range(q)
    BY <2>4 DEF ReadyTasks
  <2> QED
    BY <1>2, <2>1, <2>2, <2>4, <2>5 DEF SchedulerOK, new
<1>3. CASE s.name = "SJF" /\ SjfOK(s, Task)
  <2> DEFINE q == Append(s.ready, t)
  <2>1. ReadyTasks(s) = Range(s.ready) /\ s.ready \in Seq(Task)
    BY <1>3 DEF ReadyTasks, SjfOK
  <2>2. q \in Seq(Task) /\ IsDuplicateFree(q) /\ Range(q) = Range(s.ready) \cup {t}
    BY <1>3, <2>1, PushBack DEF SjfOK
  <2>3. new = [s EXCEPT !.ready = q]
    BY <1>3 DEF Enqueue, Sjf!Enqueue
  <2> HIDE DEF q, new
  <2>4. SjfOK(new, Task) /\ new.name = "SJF" /\ new.ready = q
    BY <1>3, <2>2, <2>3 DEF SjfOK
  <2>5. ReadyTasks(new) = Range(q)
    BY <2>4 DEF ReadyTasks
  <2> QED
    BY <1>3, <2>1, <2>2, <2>4, <2>5 DEF SchedulerOK, new
<1>4. CASE s.name = "RR" /\ RrOK(s, Task)
  <2> DEFINE q == Append(s.queue, t)
  <2>1. ReadyTasks(s) = Range(s.queue) /\ s.queue \in Seq(Task)
    BY <1>4 DEF ReadyTasks, RrOK
  <2>2. q \in Seq(Task) /\ IsDuplicateFree(q) /\ Range(q) = Range(s.queue) \cup {t}
    BY <1>4, <2>1, PushBack DEF RrOK
  <2>3. new = [s EXCEPT !.queue = q]
    BY <1>4 DEF Enqueue, Rr!Enqueue
  <2> HIDE DEF q, new
  <2>4. RrOK(new, Task) /\ new.name = "RR" /\ new.queue = q
    BY <1>4, <2>2, <2>3 DEF RrOK
  <2>5. ReadyTasks(new) = Range(q)
    BY <2>4 DEF ReadyTasks
  <2> QED
    BY <1>4, <2>1, <2>2, <2>4, <2>5 DEF SchedulerOK, new
<1>5. CASE s.name = "MLFQ" /\ MlfqOK(s, Task)
  <2>1. s.mlfq_level[t] \in Nat
    <3>1. s.mlfq_level[t] \in Mlfq!Level
      BY <1>5 DEF MlfqOK
    <3> QED
      BY <3>1 DEF Mlfq!Level, Mlfq!NumLevels
  <2>2. new = Mlfq!PushLevel(s, t, s.mlfq_level[t])
    BY <1>5 DEF Enqueue, Mlfq!Enqueue
  <2> HIDE DEF new
  <2>3. /\ new.name = "MLFQ"
        /\ MlfqOK(new, Task)
        /\ ReadyTasks(new) = ReadyTasks(s) \cup {t}
    BY <1>5, <2>1, <2>2, PushLevelContract
  <2> QED
    BY <1>5, <2>3 DEF SchedulerOK, new
<1>6. CASE s.name = "CFS-like" /\ CfsOK(s, Task)
  <2> DEFINE q == Append(s.ready, t)
  <2>1. ReadyTasks(s) = Range(s.ready) /\ s.ready \in Seq(Task)
    BY <1>6 DEF ReadyTasks, CfsOK
  <2>2. q \in Seq(Task) /\ IsDuplicateFree(q) /\ Range(q) = Range(s.ready) \cup {t}
    BY <1>6, <2>1, PushBack DEF CfsOK
  <2>3. new = [s EXCEPT !.ready = q]
    BY <1>6 DEF Enqueue, Cfs!Enqueue
  <2> HIDE DEF q, new
  <2>4. CfsOK(new, Task) /\ new.name = "CFS-like" /\ new.ready = q
    BY <1>6, <2>2, <2>3 DEF CfsOK
  <2>5. ReadyTasks(new) = Range(q)
    BY <2>4 DEF ReadyTasks
  <2> QED
    BY <1>6, <2>1, <2>2, <2>4, <2>5 DEF SchedulerOK, new
<1> QED
  BY <1>1, <1>2, <1>3, <1>4, <1>5, <1>6, PolicyCases

(* on_wakeup does to the ready tasks what enqueue does; only MLFQ changes  *)
(* the level first.                                                        *)
LEMMA WakeupContract ==
  ASSUME NEW Task, NEW s, SchedulerOK(s, Task), NEW t \in Task, t \notin ReadyTasks(s)
  PROVE  LET new == OnWakeup(s, t)
         IN  /\ SchedulerOK(new, Task)
             /\ new.name = s.name
             /\ ReadyTasks(new) = ReadyTasks(s) \cup {t}
<1>1. CASE s.name # "MLFQ"
  <2>1. OnWakeup(s, t) = Enqueue(s, t)
    BY <1>1, PolicyCases DEF OnWakeup, Enqueue, Contract!OnWakeup, Fcfs!OnWakeup,
       Sjf!OnWakeup, Rr!OnWakeup, Cfs!OnWakeup
  <2> QED
    BY <2>1, EnqueueContract
<1>2. CASE s.name = "MLFQ"
  <2> DEFINE level == IF s.mlfq_level[t] > 0 THEN s.mlfq_level[t] - 1 ELSE s.mlfq_level[t]
  <2> DEFINE promoted == [s EXCEPT !.mlfq_level[t] = level]
  <2>1. MlfqOK(s, Task)
    BY <1>2, PolicyCases
  <2>2. level \in Mlfq!Level
    BY <2>1 DEF MlfqOK, Mlfq!Level, Mlfq!NumLevels
  <2>3. OnWakeup(s, t) = Mlfq!Enqueue(promoted, t)
    BY <1>2 DEF OnWakeup, Mlfq!OnWakeup
  <2> HIDE DEF level
  <2>4. /\ MlfqOK(promoted, Task)
        /\ promoted.name = "MLFQ"
        /\ promoted.queues = s.queues
    BY <2>1, <2>2 DEF MlfqOK
  <2> HIDE DEF promoted
  <2>5. ReadyTasks(promoted) = ReadyTasks(s)
    BY <1>2, <2>4 DEF ReadyTasks
  <2>6. SchedulerOK(promoted, Task)
    BY <2>4 DEF SchedulerOK
  <2>7. OnWakeup(s, t) = Enqueue(promoted, t)
    BY <2>3, <2>4 DEF Enqueue
  <2> QED
    BY <1>2, <2>4, <2>5, <2>6, <2>7, EnqueueContract
<1> QED
  BY <1>1, <1>2

-----------------------------------------------------------------------------
LEMMA RangeInTask ==
  ASSUME NEW Task, NEW vec \in Seq(Task), NEW t \in Range(vec)
  PROVE  t \in Task
BY ElementOfSeq, LenProperties DEF Range

(* pick_next answers with a task it held, which it no longer holds, or     *)
(* else with None, holding nothing.                                        *)
LEMMA PickContract ==
  ASSUME NEW Task, NEW s, SchedulerOK(s, Task), NEW remaining_cpu, NEW class,
         NEW o \in PickNext(s, remaining_cpu, class)
  PROVE  /\ SchedulerOK(o.sched, Task)
         /\ o.sched.name = s.name
         /\ \/ /\ o.next = None
               /\ ReadyTasks(s) = {} /\ ReadyTasks(o.sched) = {}
            \/ /\ o.next \in ReadyTasks(s)
               /\ ReadyTasks(o.sched) = ReadyTasks(s) \ {o.next}
<1>1. CASE s.name = "Any" /\ AnyOK(s, Task)
  <2>1. CASE s.ready = {}
    BY <1>1, <2>1 DEF PickNext, Contract!PickNext, SchedulerOK, AnyOK, ReadyTasks
  <2>2. CASE s.ready # {}
    <3>1. PICK t \in s.ready : o.next = t /\ o.sched = [s EXCEPT !.ready = @ \ {t}]
      BY <1>1, <2>2 DEF PickNext, Contract!PickNext
    <3>2. AnyOK(o.sched, Task) /\ o.sched.name = "Any" /\ o.sched.ready = s.ready \ {t}
      BY <1>1, <3>1 DEF AnyOK
    <3> QED
      BY <1>1, <3>1, <3>2 DEF SchedulerOK, ReadyTasks
  <2> QED
    BY <2>1, <2>2
<1>2. CASE s.name = "FCFS" /\ FcfsOK(s, Task)
  <2>1. s.queue \in Seq(Task) /\ ReadyTasks(s) = Range(s.queue)
    BY <1>2 DEF FcfsOK, ReadyTasks
  <2>2. CASE s.queue = << >>
    <3>1. o.next = None /\ FcfsOK(o.sched, Task) /\ o.sched.name = "FCFS" /\ o.sched.queue = s.queue
      BY <1>2, <2>2 DEF PickNext, Fcfs!PickNext, FcfsOK
    <3>2. ReadyTasks(s) = {} /\ ReadyTasks(o.sched) = {}
      BY <2>1, <2>2, <3>1, EmptyVec DEF ReadyTasks
    <3> QED
      BY <1>2, <3>1, <3>2 DEF SchedulerOK
  <2>3. CASE s.queue # << >>
    <3> DEFINE rest == Tail(s.queue)
    <3> DEFINE first == Head(s.queue)
    <3>1. /\ first \in Range(s.queue) /\ rest \in Seq(Task)
          /\ IsDuplicateFree(rest) /\ Range(rest) = Range(s.queue) \ {first}
      BY <1>2, <2>1, <2>3, PopFront DEF FcfsOK
    <3>2. o.next = first /\ o.sched = [s EXCEPT !.queue = rest]
      BY <1>2, <2>3 DEF PickNext, Fcfs!PickNext
    <3>3. first \in Task
      BY <2>1, <3>1, RangeInTask
    <3> HIDE DEF rest, first
    <3>4. FcfsOK(o.sched, Task) /\ o.sched.name = "FCFS" /\ o.sched.queue = rest
      BY <1>2, <3>1, <3>2, <3>3 DEF FcfsOK
    <3>5. ReadyTasks(o.sched) = Range(rest)
      BY <3>4 DEF ReadyTasks
    <3> QED
      BY <1>2, <2>1, <3>1, <3>2, <3>4, <3>5 DEF SchedulerOK
  <2> QED
    BY <2>2, <2>3
<1>3. CASE s.name = "SJF" /\ SjfOK(s, Task)
  <2>1. s.ready \in Seq(Task) /\ ReadyTasks(s) = Range(s.ready)
    BY <1>3 DEF SjfOK, ReadyTasks
  <2>2. CASE s.ready = << >>
    <3>1. o.next = None /\ SjfOK(o.sched, Task) /\ o.sched.name = "SJF" /\ o.sched.ready = s.ready
      BY <1>3, <2>2 DEF PickNext, Sjf!PickNext, SjfOK
    <3>2. ReadyTasks(s) = {} /\ ReadyTasks(o.sched) = {}
      BY <2>1, <2>2, <3>1, EmptyVec DEF ReadyTasks
    <3> QED
      BY <1>3, <3>1, <3>2 DEF SchedulerOK
  <2>3. CASE s.ready # << >>
    <3>1. PICK i \in DOMAIN s.ready :
            /\ o.next = s.ready[i]
            /\ o.sched = [s EXCEPT !.ready = SwapRemove(s.ready, i)]
      <4>1. PICK i \in Sjf!BestIndices(s, remaining_cpu) :
              /\ o.next = s.ready[i]
              /\ o.sched = [s EXCEPT !.ready = Sjf!SwapRemove(s.ready, i)]
        BY <1>3, <2>3 DEF PickNext, Sjf!PickNext
      <4>2. i \in DOMAIN s.ready
        BY DEF Sjf!BestIndices
      <4> QED
        BY <4>1, <4>2 DEF Sjf!SwapRemove, SwapRemove
    <3> DEFINE rest == SwapRemove(s.ready, i)
    <3>2. /\ rest \in Seq(Task) /\ IsDuplicateFree(rest)
          /\ Range(rest) = Range(s.ready) \ {s.ready[i]}
      BY <1>3, <2>1, SwapRemoveProperties DEF SjfOK
    <3>3. o.next \in Range(s.ready)
      BY <3>1 DEF Range
    <3>4. o.next \in Task
      BY <2>1, <3>3, RangeInTask
    <3> HIDE DEF rest
    <3>5. SjfOK(o.sched, Task) /\ o.sched.name = "SJF" /\ o.sched.ready = rest
      BY <1>3, <3>1, <3>2, <3>4 DEF SjfOK, rest
    <3>6. ReadyTasks(o.sched) = Range(rest)
      BY <3>5 DEF ReadyTasks
    <3> QED
      BY <1>3, <2>1, <3>1, <3>2, <3>3, <3>5, <3>6 DEF SchedulerOK
  <2> QED
    BY <2>2, <2>3
<1>4. CASE s.name = "RR" /\ RrOK(s, Task)
  <2>1. s.queue \in Seq(Task) /\ ReadyTasks(s) = Range(s.queue)
    BY <1>4 DEF RrOK, ReadyTasks
  <2>2. CASE s.queue = << >>
    <3>1. o.next = None /\ RrOK(o.sched, Task) /\ o.sched.name = "RR" /\ o.sched.queue = s.queue
      <4> DEFINE new == [s EXCEPT !.running = None, !.used_slice = 0]
      <4>1. o.next = None /\ o.sched = new
        BY <1>4, <2>2 DEF PickNext, Rr!PickNext
      <4>2. RrOK(new, Task) /\ new.name = "RR" /\ new.queue = s.queue
        BY <1>4 DEF RrOK
      <4> QED
        BY <4>1, <4>2
    <3>2. ReadyTasks(s) = {} /\ ReadyTasks(o.sched) = {}
      BY <2>1, <2>2, <3>1, EmptyVec DEF ReadyTasks
    <3> QED
      BY <1>4, <3>1, <3>2 DEF SchedulerOK
  <2>3. CASE s.queue # << >>
    <3> DEFINE rest == Tail(s.queue)
    <3> DEFINE first == Head(s.queue)
    <3>1. /\ first \in Range(s.queue) /\ rest \in Seq(Task)
          /\ IsDuplicateFree(rest) /\ Range(rest) = Range(s.queue) \ {first}
      BY <1>4, <2>1, <2>3, PopFront DEF RrOK
    <3>2. o.next = first /\ o.sched = [s EXCEPT !.queue = rest, !.running = first,
                                                   !.used_slice = 0]
      BY <1>4, <2>3 DEF PickNext, Rr!PickNext
    <3>3. first \in Task
      BY <2>1, <3>1, RangeInTask
    <3> HIDE DEF rest, first
    <3>4. RrOK(o.sched, Task) /\ o.sched.name = "RR" /\ o.sched.queue = rest
      <4> DEFINE new == [s EXCEPT !.queue = rest, !.running = first, !.used_slice = 0]
      <4>1. RrOK(new, Task) /\ new.name = "RR" /\ new.queue = rest
        BY <1>4, <3>1, <3>3 DEF RrOK
      <4> QED
        BY <3>2, <4>1
    <3>5. ReadyTasks(o.sched) = Range(rest)
      BY <3>4 DEF ReadyTasks
    <3> QED
      BY <1>4, <2>1, <3>1, <3>2, <3>4, <3>5 DEF SchedulerOK
  <2> QED
    BY <2>2, <2>3
<1>5. CASE s.name = "MLFQ" /\ MlfqOK(s, Task)
  <2> DEFINE Inside(q) == q \in Seq(Task) /\ IsDuplicateFree(q)
  <2>1. /\ ReadyTasks(s) = UNION {Range(s.queues[k]) : k \in Mlfq!Level}
        /\ \A k \in Mlfq!Level : Inside(s.queues[k])
    BY <1>5 DEF MlfqOK, ReadyTasks
  <2>2. CASE Mlfq!TopLevels(s) = {}
    <3>1. o.next = None /\ MlfqOK(o.sched, Task) /\ o.sched.name = "MLFQ"
          /\ o.sched.queues = s.queues
      <4>1. o.next = None /\ o.sched = [s EXCEPT !.running = None]
        BY <1>5, <2>2 DEF PickNext, Mlfq!PickNext
      <4> QED
        BY <1>5, <4>1 DEF MlfqOK
    <3>2. \A k \in Mlfq!Level : s.queues[k] = << >>
      <4>1. /\ \A k \in 0 .. 3 : s.queues[k] # << >> => \E j \in 0 .. k - 1 : s.queues[j] # << >>
        BY <2>2 DEF Mlfq!TopLevels, Mlfq!Level, Mlfq!NumLevels
      <4>2. s.queues[0] = << >>
        BY <4>1
      <4>3. s.queues[1] = << >>
        BY <4>1, <4>2
      <4>4. s.queues[2] = << >>
        BY <4>1, <4>2, <4>3
      <4>5. s.queues[3] = << >>
        BY <4>1, <4>2, <4>3, <4>4
      <4> QED
        BY <4>2, <4>3, <4>4, <4>5 DEF Mlfq!Level, Mlfq!NumLevels
    <3>3. ReadyTasks(s) = {}
      BY <2>1, <3>2, EmptyVec
    <3>4. ReadyTasks(o.sched) = {}
      BY <3>1, <3>2, EmptyVec DEF ReadyTasks
    <3> QED
      BY <1>5, <3>1, <3>3, <3>4 DEF SchedulerOK
  <2>3. CASE Mlfq!TopLevels(s) # {}
    <3>1. PICK l \in Mlfq!TopLevels(s) :
            /\ o.next = Head(s.queues[l])
            /\ o.sched = [s EXCEPT !.queues[l] = Tail(s.queues[l]),
                                   !.mlfq_level[Head(s.queues[l])] = l,
                                   !.running = Head(s.queues[l]),
                                   !.used_slice = 0]
      <4> DEFINE Answer(l) ==
            [next |-> Head(s.queues[l]),
             sched |-> [s EXCEPT !.queues[l] = Tail(@),
                                 !.mlfq_level[Head(s.queues[l])] = l,
                                 !.running = Head(s.queues[l]),
                                 !.used_slice = 0]]
      <4>1. o \in {Answer(l) : l \in Mlfq!TopLevels(s)}
        <5>1. o \in Mlfq!PickNext(s)
          BY <1>5 DEF PickNext
        <5> QED
          BY <2>3, <5>1 DEF Mlfq!PickNext
      <4> HIDE DEF Answer
      <4>2. PICK l \in Mlfq!TopLevels(s) : o = Answer(l)
        BY <4>1
      <4> QED
        BY <4>2 DEF Answer
    <3> DEFINE rest == Tail(s.queues[l])
    <3> DEFINE first == Head(s.queues[l])
    <3>2. l \in Mlfq!Level /\ s.queues[l] # << >>
      BY DEF Mlfq!TopLevels
    <3>3. /\ first \in Range(s.queues[l]) /\ Inside(rest)
          /\ Range(rest) = Range(s.queues[l]) \ {first}
      BY <2>1, <3>2, PopFront
    <3>4. first \in Task
      BY <2>1, <3>2, <3>3, RangeInTask
    <3> DEFINE new == [s EXCEPT !.queues[l] = rest, !.mlfq_level[first] = l,
                                !.running = first, !.used_slice = 0]
    <3>5. o.next = first /\ o.sched = new
      BY <3>1
    <3> HIDE DEF rest, first
    <3>6. /\ new \in [name : {"MLFQ"}, queues : [Mlfq!Level -> Seq(Task)],
                      mlfq_level : [Task -> Mlfq!Level], next_boost_at : Nat,
                      running : Task \cup {None}, used_slice : Nat]
          /\ new.name = "MLFQ"
          /\ \A k \in Mlfq!Level : new.queues[k] = IF k = l THEN rest ELSE s.queues[k]
      BY <1>5, <3>2, <3>3, <3>4 DEF MlfqOK
    <3> HIDE DEF new
    <3>7. \A k \in Mlfq!Level : Range(new.queues[k]) = Range(s.queues[k]) \ {first}
      <4> SUFFICES ASSUME NEW k \in Mlfq!Level
                   PROVE  Range(new.queues[k]) = Range(s.queues[k]) \ {first}
        OBVIOUS
      <4>1. CASE k = l
        BY <3>3, <3>6, <4>1
      <4>2. CASE k # l
        <5>1. Range(s.queues[k]) \cap Range(s.queues[l]) = {}
          BY <1>5, <3>2, <4>2 DEF MlfqOK
        <5> QED
          BY <3>3, <3>6, <4>2, <5>1
      <4> QED
        BY <4>1, <4>2
    <3>8. MlfqOK(new, Task)
      <4>1. \A k \in Mlfq!Level : IsDuplicateFree(new.queues[k])
        BY <2>1, <3>3, <3>6
      <4>2. ASSUME NEW j \in Mlfq!Level, NEW k \in Mlfq!Level, j # k
            PROVE  Range(new.queues[j]) \cap Range(new.queues[k]) = {}
        <5>1. Range(s.queues[j]) \cap Range(s.queues[k]) = {}
          BY <1>5, <4>2 DEF MlfqOK
        <5> QED
          BY <3>7, <5>1
      <4> QED
        BY <3>6, <4>1, <4>2 DEF MlfqOK
    <3>9. ReadyTasks(new) = ReadyTasks(s) \ {first}
      <4>1. ReadyTasks(new) = UNION {Range(new.queues[k]) : k \in Mlfq!Level}
        BY <3>6 DEF ReadyTasks
      <4>2. ASSUME NEW x
            PROVE  x \in ReadyTasks(new) <=> x \in ReadyTasks(s) /\ x # first
        <5>1. x \in ReadyTasks(new) <=> \E k \in Mlfq!Level : x \in Range(new.queues[k])
          BY <4>1
        <5>2. x \in ReadyTasks(s) <=> \E k \in Mlfq!Level : x \in Range(s.queues[k])
          BY <2>1
        <5> QED
          BY <3>7, <5>1, <5>2
      <4> QED
        BY <4>2
    <3>10. first \in ReadyTasks(s)
      BY <2>1, <3>2, <3>3
    <3> QED
      BY <1>5, <3>5, <3>6, <3>8, <3>9, <3>10 DEF SchedulerOK
  <2> QED
    BY <2>2, <2>3
<1>6. CASE s.name = "CFS-like" /\ CfsOK(s, Task)
  <2>1. s.ready \in Seq(Task) /\ ReadyTasks(s) = Range(s.ready)
    BY <1>6 DEF CfsOK, ReadyTasks
  <2>2. CASE s.ready = << >>
    <3>1. o.next = None /\ CfsOK(o.sched, Task) /\ o.sched.name = "CFS-like" /\ o.sched.ready = s.ready
      BY <1>6, <2>2 DEF PickNext, Cfs!PickNext, CfsOK
    <3>2. ReadyTasks(s) = {} /\ ReadyTasks(o.sched) = {}
      BY <2>1, <2>2, <3>1, EmptyVec DEF ReadyTasks
    <3> QED
      BY <1>6, <3>1, <3>2 DEF SchedulerOK
  <2>3. CASE s.ready # << >>
    <3>1. PICK i \in DOMAIN s.ready :
            /\ o.next = s.ready[i]
            /\ o.sched = [s EXCEPT !.ready = SwapRemove(s.ready, i), !.running = s.ready[i],
                                  !.used_slice = 0]
      <4> DEFINE Answer(i) ==
            [next |-> s.ready[i],
             sched |-> [s EXCEPT !.ready = Cfs!SwapRemove(s.ready, i),
                                 !.running = s.ready[i], !.used_slice = 0]]
      <4>1. o \in {Answer(i) : i \in Cfs!BestIndices(s, class)}
        <5>1. o \in Cfs!PickNext(s, class)
          BY <1>6 DEF PickNext
        <5> QED
          BY <2>3, <5>1 DEF Cfs!PickNext
      <4> HIDE DEF Answer
      <4>2. PICK i \in Cfs!BestIndices(s, class) : o = Answer(i)
        BY <4>1
      <4>3. i \in DOMAIN s.ready
        BY DEF Cfs!BestIndices
      <4> QED
        BY <4>2, <4>3 DEF Answer, Cfs!SwapRemove, SwapRemove
    <3> DEFINE rest == SwapRemove(s.ready, i)
    <3>2. /\ rest \in Seq(Task) /\ IsDuplicateFree(rest)
          /\ Range(rest) = Range(s.ready) \ {s.ready[i]}
      BY <1>6, <2>1, SwapRemoveProperties DEF CfsOK
    <3>3. o.next \in Range(s.ready)
      BY <3>1 DEF Range
    <3>4. o.next \in Task
      BY <2>1, <3>3, RangeInTask
    <3> DEFINE new == [s EXCEPT !.ready = rest, !.running = o.next, !.used_slice = 0]
    <3> HIDE DEF rest
    <3>5. CfsOK(o.sched, Task) /\ o.sched.name = "CFS-like" /\ o.sched.ready = rest
      <4>1. o.sched = new
        BY <3>1 DEF rest
      <4>2. CfsOK(new, Task) /\ new.name = "CFS-like" /\ new.ready = rest
        BY <1>6, <3>2, <3>4 DEF CfsOK
      <4> QED
        BY <4>1, <4>2
    <3>6. ReadyTasks(o.sched) = Range(rest)
      BY <3>5 DEF ReadyTasks
    <3> QED
      BY <1>6, <2>1, <3>1, <3>2, <3>3, <3>5, <3>6 DEF SchedulerOK
  <2> QED
    BY <2>2, <2>3
<1> QED
  BY <1>1, <1>2, <1>3, <1>4, <1>5, <1>6, PolicyCases

-----------------------------------------------------------------------------
(* on_block leaves the ready tasks alone. *)
LEMMA BlockContract ==
  ASSUME NEW Task, NEW s, SchedulerOK(s, Task), NEW t \in Task
  PROVE  LET new == OnBlock(s, t)
         IN  /\ SchedulerOK(new, Task)
             /\ new.name = s.name
             /\ ReadyTasks(new) = ReadyTasks(s)
<1> DEFINE reset == [s EXCEPT !.running = None, !.used_slice = 0]
<1>1. CASE s.name \in {"Any", "FCFS", "SJF"}
  BY <1>1 DEF OnBlock, Contract!OnBlock, Fcfs!OnBlock, Sjf!OnBlock
<1>2. CASE s.name = "RR" /\ RrOK(s, Task)
  <2>1. OnBlock(s, t) \in {s, reset}
    BY <1>2 DEF OnBlock, Rr!OnBlock
  <2>2. RrOK(reset, Task) /\ reset.name = "RR" /\ reset.queue = s.queue
    BY <1>2 DEF RrOK
  <2> QED
    BY <1>2, <2>1, <2>2 DEF SchedulerOK, ReadyTasks
<1>3. CASE s.name = "MLFQ" /\ MlfqOK(s, Task)
  <2>1. OnBlock(s, t) \in {s, reset}
    BY <1>3 DEF OnBlock, Mlfq!OnBlock
  <2>2. MlfqOK(reset, Task) /\ reset.name = "MLFQ" /\ reset.queues = s.queues
    BY <1>3 DEF MlfqOK
  <2> HIDE DEF reset
  <2>3. ReadyTasks(reset) = ReadyTasks(s)
    BY <1>3, <2>2 DEF ReadyTasks
  <2> QED
    BY <1>3, <2>1, <2>2, <2>3 DEF SchedulerOK
<1>4. CASE s.name = "CFS-like" /\ CfsOK(s, Task)
  <2>1. OnBlock(s, t) \in {s, reset}
    BY <1>4 DEF OnBlock, Cfs!OnBlock
  <2>2. CfsOK(reset, Task) /\ reset.name = "CFS-like" /\ reset.ready = s.ready
    BY <1>4 DEF CfsOK
  <2> QED
    BY <1>4, <2>1, <2>2 DEF SchedulerOK, ReadyTasks
<1> QED
  BY <1>1, <1>2, <1>3, <1>4, PolicyCases

(* The drained queue of the boost holds every queued task once. *)
LEMMA AllQueuedContract ==
  ASSUME NEW Task, NEW s, s.name = "MLFQ", MlfqOK(s, Task)
  PROVE  /\ Mlfq!AllQueued(s) \in Seq(Task)
         /\ IsDuplicateFree(Mlfq!AllQueued(s))
         /\ Range(Mlfq!AllQueued(s)) = ReadyTasks(s)
         /\ Len(Mlfq!AllQueued(s)) = ReadyLen(s)
<1> DEFINE q0 == s.queues[0]
<1> DEFINE q1 == s.queues[1]
<1> DEFINE q2 == s.queues[2]
<1> DEFINE q3 == s.queues[3]
<1>0. 0 \in Mlfq!Level /\ 1 \in Mlfq!Level /\ 2 \in Mlfq!Level /\ 3 \in Mlfq!Level
      /\ \A k \in Mlfq!Level : k \in {0, 1, 2, 3}
  BY DEF Mlfq!Level, Mlfq!NumLevels
<1>1. /\ q0 \in Seq(Task) /\ q1 \in Seq(Task) /\ q2 \in Seq(Task) /\ q3 \in Seq(Task)
      /\ IsDuplicateFree(q0) /\ IsDuplicateFree(q1)
      /\ IsDuplicateFree(q2) /\ IsDuplicateFree(q3)
      /\ Range(q0) \cap Range(q1) = {}
      /\ Range(q0) \cap Range(q2) = {} /\ Range(q1) \cap Range(q2) = {}
      /\ Range(q0) \cap Range(q3) = {} /\ Range(q1) \cap Range(q3) = {}
      /\ Range(q2) \cap Range(q3) = {}
  <2>1. /\ s.queues \in [Mlfq!Level -> Seq(Task)]
        /\ \A l \in Mlfq!Level : IsDuplicateFree(s.queues[l])
        /\ \A k, l \in Mlfq!Level :
             k # l => Range(s.queues[k]) \cap Range(s.queues[l]) = {}
    BY DEF MlfqOK
  <2>2. \A k \in Mlfq!Level : s.queues[k] \in Seq(Task) /\ IsDuplicateFree(s.queues[k])
    BY <2>1
  <2> DEFINE Disjoint(k, l) == Range(s.queues[k]) \cap Range(s.queues[l]) = {}
  <2>3. \A k, l \in Mlfq!Level : k # l => Disjoint(k, l)
    BY <2>1
  <2> HIDE DEF Disjoint
  <2>4. /\ Disjoint(0, 1) /\ Disjoint(0, 2) /\ Disjoint(0, 3)
        /\ Disjoint(1, 2) /\ Disjoint(1, 3) /\ Disjoint(2, 3)
    BY <1>0, <2>3
  <2> QED
    BY <1>0, <2>2, <2>4 DEF Disjoint
<1>2. ReadyTasks(s) = Range(q0) \cup Range(q1) \cup Range(q2) \cup Range(q3)
  <2>1. ReadyTasks(s) = UNION {Range(s.queues[k]) : k \in Mlfq!Level}
    BY DEF ReadyTasks
  <2> QED
    BY <1>0, <2>1
<1>3. Mlfq!AllQueued(s) = q0 \o q1 \o q2 \o q3
  BY DEF Mlfq!AllQueued
<1>4. ReadyLen(s) = Len(q0) + Len(q1) + Len(q2) + Len(q3)
  BY DEF ReadyLen
<1> HIDE DEF q0, q1, q2, q3
<1> DEFINE q01 == q0 \o q1
<1> DEFINE q012 == q01 \o q2
<1> DEFINE q0123 == q012 \o q3
<1>5. /\ q01 \in Seq(Task) /\ IsDuplicateFree(q01)
      /\ Range(q01) = Range(q0) \cup Range(q1)
      /\ Len(q01) = Len(q0) + Len(q1)
  BY <1>1, Drain
<1>6. /\ q012 \in Seq(Task) /\ IsDuplicateFree(q012)
      /\ Range(q012) = Range(q01) \cup Range(q2)
      /\ Len(q012) = Len(q01) + Len(q2)
  <2> HIDE DEF q01
  <2>1. Range(q01) \cap Range(q2) = {}
    BY <1>1, <1>5
  <2>2. q01 \in Seq(Task) /\ IsDuplicateFree(q01) /\ q2 \in Seq(Task) /\ IsDuplicateFree(q2)
    BY <1>1, <1>5
  <2> QED
    BY <2>1, <2>2, Drain
<1>7. /\ q0123 \in Seq(Task) /\ IsDuplicateFree(q0123)
      /\ Range(q0123) = Range(q012) \cup Range(q3)
      /\ Len(q0123) = Len(q012) + Len(q3)
  <2> HIDE DEF q01, q012
  <2>1. Range(q012) \cap Range(q3) = {}
    BY <1>1, <1>5, <1>6
  <2>2. /\ q012 \in Seq(Task) /\ IsDuplicateFree(q012)
        /\ q3 \in Seq(Task) /\ IsDuplicateFree(q3)
    BY <1>1, <1>6
  <2> QED
    BY <2>1, <2>2, Drain
<1> QED
  BY <1>2, <1>3, <1>4, <1>5, <1>6, <1>7

(* The boost moves tasks between levels and loses none. *)
LEMMA BoostContract ==
  ASSUME NEW Task, NEW s, s.name = "MLFQ", MlfqOK(s, Task), NEW now \in Nat
  PROVE  LET new == Mlfq!Boosted(s, now)
         IN  /\ MlfqOK(new, Task)
             /\ new.name = "MLFQ"
             /\ ReadyTasks(new) = ReadyTasks(s)
<1> DEFINE all == Mlfq!AllQueued(s)
<1> DEFINE queues == [l \in Mlfq!Level |-> IF l = 0 THEN all ELSE << >>]
<1> DEFINE levels == [t \in DOMAIN s.mlfq_level |->
                        IF t \in Mlfq!Range(all) THEN 0 ELSE s.mlfq_level[t]]
<1> DEFINE new == [s EXCEPT !.queues = queues, !.mlfq_level = levels,
                            !.next_boost_at = now + BoostInterval]
<1>1. Mlfq!Boosted(s, now) \in {s, new}
  <2>1. Mlfq!BoostAll(s) = [s EXCEPT !.queues = queues, !.mlfq_level = levels]
    BY DEF Mlfq!BoostAll
  <2>2. new = [[s EXCEPT !.queues = queues, !.mlfq_level = levels]
                 EXCEPT !.next_boost_at = now + BoostInterval]
    OBVIOUS
  <2> QED
    BY <2>1, <2>2 DEF Mlfq!Boosted
<1>2. all \in Seq(Task) /\ IsDuplicateFree(all) /\ Range(all) = ReadyTasks(s)
  BY AllQueuedContract
<1> HIDE DEF all
<1>3. 0 \in Mlfq!Level
  BY DEF Mlfq!Level, Mlfq!NumLevels
<1>4. /\ queues \in [Mlfq!Level -> Seq(Task)]
      /\ \A l \in Mlfq!Level : queues[l] = IF l = 0 THEN all ELSE << >>
  BY <1>2, EmptyVec
<1>5. levels \in [Task -> Mlfq!Level]
  BY <1>3 DEF MlfqOK
<1>6. now + BoostInterval \in Nat
  BY PolicyAssumption
<1> HIDE DEF queues, levels
<1>7. /\ new \in [name : {"MLFQ"}, queues : [Mlfq!Level -> Seq(Task)],
                  mlfq_level : [Task -> Mlfq!Level], next_boost_at : Nat,
                  running : Task \cup {None}, used_slice : Nat]
      /\ new.name = "MLFQ"
      /\ new.queues = queues
  BY <1>4, <1>5, <1>6 DEF MlfqOK
<1> HIDE DEF new
<1>8. \A l \in Mlfq!Level : Range(queues[l]) = IF l = 0 THEN ReadyTasks(s) ELSE {}
  BY <1>2, <1>4, EmptyVec
<1>9. MlfqOK(new, Task)
  <2>1. \A l \in Mlfq!Level : IsDuplicateFree(queues[l])
    BY <1>2, <1>4, EmptyVec
  <2>2. \A k, l \in Mlfq!Level : k # l => Range(queues[k]) \cap Range(queues[l]) = {}
    BY <1>8
  <2> QED
    BY <1>7, <2>1, <2>2 DEF MlfqOK
<1>10. ReadyTasks(new) = ReadyTasks(s)
  <2>1. ReadyTasks(new) = UNION {Range(queues[l]) : l \in Mlfq!Level}
    BY <1>7 DEF ReadyTasks
  <2> QED
    BY <1>3, <1>8, <2>1
<1> QED
  BY <1>1, <1>7, <1>9, <1>10

(* on_tick answers Continue or Preempt and leaves the ready tasks alone,   *)
(* though MLFQ may move them all.                                          *)
LEMMA TickContract ==
  ASSUME NEW Task, NEW s, SchedulerOK(s, Task), NEW t \in Task, NEW now \in Nat,
         NEW class \in [Task -> {"CpuBound", "IoBound", "Interactive"}],
         NEW o \in OnTick(s, class, t, now)
  PROVE  /\ SchedulerOK(o.sched, Task)
         /\ o.sched.name = s.name
         /\ ReadyTasks(o.sched) = ReadyTasks(s)
         /\ o.action \in {"Continue", "Preempt"}
<1>1. CASE s.name \in {"Any", "FCFS", "SJF"}
  <2>1. o.sched = s /\ o.action \in {"Continue", "Preempt"}
    BY <1>1 DEF OnTick, Contract!OnTick, Fcfs!OnTick, Sjf!OnTick
  <2> QED
    BY <2>1
<1>2. CASE s.name = "RR" /\ RrOK(s, Task)
  <2> DEFINE used == (IF s.running = t THEN s.used_slice ELSE 0) + 1
  <2> DEFINE off == [s EXCEPT !.running = None, !.used_slice = 0]
  <2> DEFINE on == [s EXCEPT !.running = t, !.used_slice = used]
  <2>1. o.sched \in {off, on} /\ o.action \in {"Continue", "Preempt"}
    BY <1>2 DEF OnTick, Rr!OnTick
  <2>2. used \in Nat
    BY <1>2 DEF RrOK
  <2> HIDE DEF used
  <2>3. RrOK(off, Task) /\ off.name = "RR" /\ off.queue = s.queue
    BY <1>2 DEF RrOK
  <2>4. RrOK(on, Task) /\ on.name = "RR" /\ on.queue = s.queue
    BY <1>2, <2>2 DEF RrOK
  <2> QED
    BY <1>2, <2>1, <2>3, <2>4 DEF SchedulerOK, ReadyTasks
<1>3. CASE s.name = "MLFQ" /\ MlfqOK(s, Task)
  <2> DEFINE b == Mlfq!Boosted(s, now)
  <2> DEFINE used == (IF b.running = t THEN b.used_slice ELSE 0) + 1
  <2> DEFINE level == b.mlfq_level[t]
  <2> DEFINE lower == IF level + 1 < 4 THEN level + 1 ELSE level
  <2> DEFINE off == [b EXCEPT !.running = None, !.used_slice = 0,
                              !.mlfq_level[t] = lower]
  <2> DEFINE on == [b EXCEPT !.running = t, !.used_slice = used]
  <2>1. o.sched \in {off, on} /\ o.action \in {"Continue", "Preempt"}
    BY <1>3 DEF OnTick, Mlfq!OnTick, Mlfq!NumLevels
  <2>2. MlfqOK(b, Task) /\ b.name = "MLFQ" /\ ReadyTasks(b) = ReadyTasks(s)
    BY <1>3, BoostContract
  <2> HIDE DEF b
  <2>3. used \in Nat
    BY <2>2 DEF MlfqOK
  <2>4. lower \in Mlfq!Level
    <3>1. level \in Mlfq!Level
      BY <2>2 DEF MlfqOK
    <3> HIDE DEF level
    <3> QED
      BY <3>1 DEF Mlfq!Level, Mlfq!NumLevels
  <2> HIDE DEF used, lower
  <2>5. MlfqOK(off, Task) /\ off.name = "MLFQ" /\ off.queues = b.queues
    BY <2>2, <2>4 DEF MlfqOK
  <2>6. MlfqOK(on, Task) /\ on.name = "MLFQ" /\ on.queues = b.queues
    BY <2>2, <2>3 DEF MlfqOK
  <2> HIDE DEF off, on
  <2>7. ReadyTasks(off) = ReadyTasks(b) /\ ReadyTasks(on) = ReadyTasks(b)
    BY <2>2, <2>5, <2>6 DEF ReadyTasks
  <2> QED
    BY <1>3, <2>1, <2>2, <2>5, <2>6, <2>7 DEF SchedulerOK
<1>4. CASE s.name = "CFS-like" /\ CfsOK(s, Task)
  <2> DEFINE v == s.vruntime[t] + Cfs!ClassWeight(class[t])
  <2> DEFINE used == (IF s.running = t THEN s.used_slice ELSE 0) + 1
  <2> DEFINE on == [s EXCEPT !.vruntime[t] = v, !.running = t, !.used_slice = used]
  <2> DEFINE off == [on EXCEPT !.running = None, !.used_slice = 0]
  <2>1. o.sched \in {off, on} /\ o.action \in {"Continue", "Preempt"}
    <3>1. o \in Cfs!OnTick(s, class, t)
      BY <1>4 DEF OnTick
    <3>2. \/ o = [action |-> "Continue", sched |-> on]
          \/ o = [action |-> "Preempt", sched |-> off]
      BY <3>1 DEF Cfs!OnTick
    <3> QED
      BY <3>2
  <2>2. v \in Nat
    <3>1. s.vruntime[t] \in Nat
      BY <1>4 DEF CfsOK
    <3>2. Cfs!ClassWeight(class[t]) \in Nat
      <4>1. class[t] \in {"CpuBound", "IoBound", "Interactive"}
        OBVIOUS
      <4> QED
        BY <4>1 DEF Cfs!ClassWeight
    <3> QED
      BY <3>1, <3>2
  <2>3. used \in Nat
    BY <1>4 DEF CfsOK
  <2> HIDE DEF v, used
  <2>4. CfsOK(on, Task) /\ on.name = "CFS-like" /\ on.ready = s.ready
    BY <1>4, <2>2, <2>3 DEF CfsOK
  <2> HIDE DEF on
  <2>5. CfsOK(off, Task) /\ off.name = "CFS-like" /\ off.ready = s.ready
    BY <2>4 DEF CfsOK
  <2> HIDE DEF off
  <2> QED
    BY <1>4, <2>1, <2>4, <2>5 DEF SchedulerOK, ReadyTasks
<1> QED
  BY <1>1, <1>2, <1>3, <1>4, PolicyCases

-----------------------------------------------------------------------------
(* A policy holds none but the tasks of its experiment, and ready_len is   *)
(* their number.                                                           *)
LEMMA ReadyLenContract ==
  ASSUME NEW Task, IsFiniteSet(Task), NEW s, SchedulerOK(s, Task)
  PROVE  /\ ReadyTasks(s) \subseteq Task
         /\ ReadyLen(s) = Cardinality(ReadyTasks(s))
         /\ ReadyLen(s) \in Nat
<1>1. CASE s.name = "Any" /\ AnyOK(s, Task)
  <2>1. ReadyTasks(s) = s.ready /\ ReadyLen(s) = Cardinality(s.ready) /\ s.ready \subseteq Task
    BY <1>1 DEF AnyOK, ReadyTasks, ReadyLen
  <2> QED
    BY <2>1, FS_Subset, FS_CardinalityType
<1>2. ASSUME NEW vec \in Seq(Task), IsDuplicateFree(vec),
             ReadyTasks(s) = Range(vec), ReadyLen(s) = Len(vec)
      PROVE  /\ ReadyTasks(s) \subseteq Task
             /\ ReadyLen(s) = Cardinality(ReadyTasks(s))
             /\ ReadyLen(s) \in Nat
  BY <1>2, RangeInTask, LenIsCardinality
<1>3. CASE s.name = "FCFS" /\ FcfsOK(s, Task)
  <2>1. s.queue \in Seq(Task) /\ IsDuplicateFree(s.queue)
        /\ ReadyTasks(s) = Range(s.queue) /\ ReadyLen(s) = Len(s.queue)
    BY <1>3 DEF FcfsOK, ReadyTasks, ReadyLen
  <2> QED
    BY <1>2, <2>1
<1>4. CASE s.name = "SJF" /\ SjfOK(s, Task)
  <2>1. s.ready \in Seq(Task) /\ IsDuplicateFree(s.ready)
        /\ ReadyTasks(s) = Range(s.ready) /\ ReadyLen(s) = Len(s.ready)
    BY <1>4 DEF SjfOK, ReadyTasks, ReadyLen
  <2> QED
    BY <1>2, <2>1
<1>5. CASE s.name = "RR" /\ RrOK(s, Task)
  <2>1. s.queue \in Seq(Task) /\ IsDuplicateFree(s.queue)
        /\ ReadyTasks(s) = Range(s.queue) /\ ReadyLen(s) = Len(s.queue)
    BY <1>5 DEF RrOK, ReadyTasks, ReadyLen
  <2> QED
    BY <1>2, <2>1
<1>6. CASE s.name = "MLFQ" /\ MlfqOK(s, Task)
  BY <1>2, <1>6, AllQueuedContract
<1>7. CASE s.name = "CFS-like" /\ CfsOK(s, Task)
  <2>1. s.ready \in Seq(Task) /\ IsDuplicateFree(s.ready)
        /\ ReadyTasks(s) = Range(s.ready) /\ ReadyLen(s) = Len(s.ready)
    BY <1>7 DEF CfsOK, ReadyTasks, ReadyLen
  <2> QED
    BY <1>2, <2>1
<1> QED
  BY <1>1, <1>3, <1>4, <1>5, <1>6, <1>7, PolicyCases
=============================================================================
