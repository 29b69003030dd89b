----------------------------- MODULE LoopProofs -----------------------------
(***************************************************************************)
(* What the loop does under any policy, for every workload, every          *)
(* parameter and every tick limit: each tick of the life of a task is      *)
(* booked once, the loop implements the loop under the contract of trait   *)
(* Scheduler, so that a policy may be reasoned about through the contract  *)
(* alone, and its logs and the report made of them tell of the run what    *)
(* happened.  The part about sums comes first: what SumFunctionOnSet       *)
(* computes is unfolded at the least set for which it would not hold.      *)
(***************************************************************************)
EXTENDS ExperimentContract, ExperimentReport, ExperimentProofs, WellFoundedInduction

(* A set of subsets of a finite set has a member none of whose proper      *)
(* subsets is in it.                                                       *)
LEMMA LeastSubset ==
  ASSUME NEW S, IsFiniteSet(S), NEW C, C \subseteq SUBSET S, C # {}
  PROVE  \E u \in C : \A v \in SUBSET u : v \in C => v = u
<1>1. IsWellFoundedOn(StrictSubsetOrdering(S), SUBSET S)
  BY FS_StrictSubsetOrderingWellFounded, FS_FiniteSubsetsOfFinite
<1>2. PICK u \in C : \A v \in C : ~ (<<v, u>> \in StrictSubsetOrdering(S))
  BY <1>1, WFMin
<1>3. \A v \in SUBSET u : v \in C => v = u
  BY <1>2 DEF StrictSubsetOrdering
<1> QED
  BY <1>3

(* The element a fold over s takes first, and the rest.                    *)
First(s) == CHOOSE x \in s : TRUE
Rest(s) == s \ {First(s)}

LEMMA FirstRest ==
  ASSUME NEW s, s # {}
  PROVE  First(s) \in s /\ Rest(s) \subseteq s /\ First(s) \notin Rest(s) /\ Rest(s) # s
         /\ s = Rest(s) \cup {First(s)}
BY DEF First, Rest

(* The function a sum over S is folded with.                               *)
IsFold(f, S, g) == g = [s \in SUBSET S |-> IF s = {} THEN 0 ELSE f[First(s)] + g[Rest(s)]]

FoldOf(f, S) == CHOOSE g : IsFold(f, S, g)

LEMMA SumIsFold ==
  ASSUME NEW f, NEW S
  PROVE  SumFunctionOnSet(f, S) = FoldOf(f, S)[S]
BY DEF SumFunctionOnSet, FoldFunctionOnSet, MapThenFoldSet, FoldOf, IsFold, First, Rest

LEMMA FoldUnique ==
  ASSUME NEW f, NEW S, IsFiniteSet(S), NEW g, NEW h, IsFold(f, S, g), IsFold(f, S, h)
  PROVE  g = h
<1> DEFINE C == {s \in SUBSET S : g[s] # h[s]}
<1>1. /\ \A s \in SUBSET S : g[s] = IF s = {} THEN 0 ELSE f[First(s)] + g[Rest(s)]
      /\ \A s \in SUBSET S : h[s] = IF s = {} THEN 0 ELSE f[First(s)] + h[Rest(s)]
  BY DEF IsFold
<1>2. ASSUME C # {} PROVE FALSE
  <2>0. C \subseteq SUBSET S
    OBVIOUS
  <2> HIDE DEF C
  <2>1. PICK u \in C : \A v \in SUBSET u : v \in C => v = u
    BY <1>2, <2>0, LeastSubset
  <2> USE DEF C
  <2>2. u # {} /\ u \subseteq S
    BY <1>1
  <2>3. Rest(u) \subseteq u /\ Rest(u) # u
    BY <2>2, FirstRest
  <2>4. g[Rest(u)] = h[Rest(u)]
    BY <2>1, <2>2, <2>3
  <2> QED
    BY <1>1, <2>2, <2>4
<1>3. \A s \in SUBSET S : g[s] = h[s]
  BY <1>2
<1> DEFINE G == [s \in SUBSET S |-> IF s = {} THEN 0 ELSE f[First(s)] + g[Rest(s)]]
           H == [s \in SUBSET S |-> IF s = {} THEN 0 ELSE f[First(s)] + h[Rest(s)]]
<1>4. g = G /\ h = H
  BY DEF IsFold
<1>5. \A s \in SUBSET S : s # {} => Rest(s) \in SUBSET S
  BY FirstRest
<1>6. G = H
  BY <1>3, <1>5
<1> QED
  BY <1>4, <1>6

LEMMA FoldRestricted ==
  ASSUME NEW f, NEW S, NEW g, IsFold(f, S, g), NEW u \in SUBSET S
  PROVE  IsFold(f, u, [s \in SUBSET u |-> g[s]])
<1> DEFINE h == [s \in SUBSET u |-> g[s]]
<1>1. \A s \in SUBSET S : g[s] = IF s = {} THEN 0 ELSE f[First(s)] + g[Rest(s)]
  BY DEF IsFold
<1>2. \A s \in SUBSET u : s # {} => Rest(s) \in SUBSET u
  BY FirstRest
<1>3. \A s \in SUBSET u : h[s] = IF s = {} THEN 0 ELSE f[First(s)] + h[Rest(s)]
  BY <1>1, <1>2
<1> QED
  BY <1>3 DEF IsFold

(* What a fold over u gives for a subset is the fold over the subset.      *)
LEMMA FoldWithin ==
  ASSUME NEW f, NEW S, IsFiniteSet(S), NEW g, IsFold(f, S, g), NEW u \in SUBSET S
  PROVE  FoldOf(f, u)[u] = g[u]
<1> DEFINE h == [s \in SUBSET u |-> g[s]]
<1>1. IsFold(f, u, h)
  BY FoldRestricted
<1>2. IsFold(f, u, FoldOf(f, u))
  BY <1>1 DEF FoldOf
<1>3. IsFiniteSet(u)
  BY FS_Subset
<1>4. FoldOf(f, u) = h
  BY <1>1, <1>2, <1>3, FoldUnique
<1> QED
  BY <1>4

LEMMA FoldExists ==
  ASSUME NEW f, NEW S, IsFiniteSet(S)
  PROVE  IsFold(f, S, FoldOf(f, S))
<1> DEFINE C == {s \in SUBSET S : ~ \E g : IsFold(f, s, g)}
<1>1. ASSUME C # {} PROVE FALSE
  <2>0. C \subseteq SUBSET S
    OBVIOUS
  <2> HIDE DEF C
  <2>1. PICK u \in C : \A v \in SUBSET u : v \in C => v = u
    BY <1>1, <2>0, LeastSubset
  <2> USE DEF C
  <2> DEFINE Value(s) == IF s = {} THEN 0 ELSE f[First(s)] + FoldOf(f, Rest(s))[Rest(s)]
             h == [s \in SUBSET u |-> Value(s)]
  <2>2. u \subseteq S
    BY <2>1
  <2>3. ASSUME NEW s \in SUBSET u, s # {}
        PROVE  h[s] = f[First(s)] + h[Rest(s)]
    <3> DEFINE v == Rest(s)
    <3>1. v \in SUBSET u /\ v # u
      BY <2>3, FirstRest
    <3>2. PICK g : IsFold(f, v, g)
      BY <2>1, <2>2, <3>1
    <3>3. IsFiniteSet(v)
      BY <2>2, <3>1, FS_Subset
    <3>4. FoldOf(f, v)[v] = g[v]
      BY <3>2, <3>3, FoldWithin
    <3>5. g[v] = IF v = {} THEN 0 ELSE f[First(v)] + g[Rest(v)]
      BY <3>2 DEF IsFold
    <3>6. v # {} => g[Rest(v)] = FoldOf(f, Rest(v))[Rest(v)]
      BY <3>2, <3>3, FoldWithin, FirstRest
    <3>7. h[v] = FoldOf(f, v)[v]
      BY <3>1, <3>4, <3>5, <3>6
    <3> QED
      BY <2>3, <3>7
  <2>4. h = [s \in SUBSET u |-> IF s = {} THEN 0 ELSE f[First(s)] + h[Rest(s)]]
    BY <2>3
  <2> QED
    BY <2>1, <2>4 DEF IsFold
<1> QED
  BY <1>1 DEF FoldOf

(* A sum over a finite set, by the element that is taken first.            *)
LEMMA SumByFirst ==
  ASSUME NEW f, NEW S, IsFiniteSet(S)
  PROVE  SumFunctionOnSet(f, S)
           = IF S = {} THEN 0 ELSE f[First(S)] + SumFunctionOnSet(f, Rest(S))
<1> DEFINE g == FoldOf(f, S)
<1>1. IsFold(f, S, g)
  BY FoldExists
<1>2. g[S] = IF S = {} THEN 0 ELSE f[First(S)] + g[Rest(S)]
  BY <1>1 DEF IsFold
<1>3. S # {} => FoldOf(f, Rest(S))[Rest(S)] = g[Rest(S)]
  BY <1>1, FoldWithin, FirstRest
<1> QED
  BY <1>2, <1>3, SumIsFold

LEMMA SumType ==
  ASSUME NEW f, NEW S, IsFiniteSet(S), \A x \in S : f[x] \in Int
  PROVE  SumFunctionOnSet(f, S) \in Int
<1> DEFINE C == {s \in SUBSET S : SumFunctionOnSet(f, s) \notin Int}
<1>1. C \subseteq SUBSET S
  OBVIOUS
<1> SUFFICES ASSUME C # {} PROVE FALSE
  OBVIOUS
<1> HIDE DEF C
<1>2. PICK u \in C : \A v \in SUBSET u : v \in C => v = u
  BY <1>1, LeastSubset
<1> USE DEF C
<1>3. u \subseteq S /\ IsFiniteSet(u)
  BY <1>2, FS_Subset
<1>4. SumFunctionOnSet(f, u)
        = IF u = {} THEN 0 ELSE f[First(u)] + SumFunctionOnSet(f, Rest(u))
  BY <1>3, SumByFirst
<1>5. u # {}
  BY <1>2, <1>4
<1>6. SumFunctionOnSet(f, Rest(u)) \in Int /\ f[First(u)] \in Int
  BY <1>2, <1>3, <1>5, FirstRest
<1> QED
  BY <1>2, <1>4, <1>5, <1>6

(* The order in which the elements are taken does not matter.              *)
LEMMA SumAdd ==
  ASSUME NEW f, NEW S, IsFiniteSet(S), NEW x, x \notin S,
         \A y \in S \cup {x} : f[y] \in Int
  PROVE  SumFunctionOnSet(f, S \cup {x}) = f[x] + SumFunctionOnSet(f, S)
<1> DEFINE Sum(s) == SumFunctionOnSet(f, s)
           All == S \cup {x}
           Adds(s, y) == Sum(s \cup {y}) = f[y] + Sum(s)
           C == {s \in SUBSET All : \E y \in All \ s : ~ Adds(s, y)}
<1>1. C \subseteq SUBSET All /\ IsFiniteSet(All)
  BY FS_AddElement
<1>2. ASSUME C # {} PROVE FALSE
  <2> HIDE DEF C
  <2>1. PICK s \in C : \A v \in SUBSET s : v \in C => v = s
    BY <1>1, <1>2, LeastSubset
  <2> USE DEF C
  <2>2. PICK y \in All \ s : ~ Adds(s, y)
    BY <2>1
  <2> DEFINE t == s \cup {y}
             c == First(t)
  <2>3. /\ s \in SUBSET All /\ t \in SUBSET All /\ t # {}
        /\ c \in t /\ Rest(t) = t \ {c}
    BY <2>1, <2>2, FirstRest DEF Rest
  <2>4. Sum(t) = f[c] + Sum(t \ {c})
    <3>1. IsFiniteSet(t)
      BY <1>1, <2>3, FS_Subset
    <3> HIDE DEF t
    <3> QED
      BY <2>3, <3>1, SumByFirst
  <2>5. CASE c = y
    <3>1. t \ {c} = s
      BY <2>2, <2>5
    <3> QED
      BY <2>2, <2>4, <2>5, <3>1
  <2>6. CASE c # y
    <3> DEFINE r == s \ {c}
    <3>1. /\ c \in s /\ t \ {c} = r \cup {y} /\ s = r \cup {c}
          /\ r \in SUBSET s /\ r # s /\ y \in All \ r /\ c \in All \ r
      BY <2>2, <2>3, <2>6
    <3>2. r \notin C /\ r \in SUBSET All
      <4> HIDE DEF C, r
      <4> QED
        BY <2>1, <2>3, <3>1
    <3>3. Adds(r, y) /\ Adds(r, c)
      BY <3>1, <3>2
    <3>4. Sum(t) = f[c] + (f[y] + Sum(r)) /\ Sum(s) = f[c] + Sum(r)
      BY <2>4, <3>1, <3>3
    <3>5. f[c] \in Int /\ f[y] \in Int /\ Sum(r) \in Int
      <4>1. IsFiniteSet(r) /\ \A e \in r : f[e] \in Int
        BY <1>1, <3>2, FS_Subset
      <4> HIDE DEF r, c
      <4> QED
        BY <2>2, <2>3, <4>1, SumType
    <3>6. Sum(t) = f[y] + Sum(s)
      <4> HIDE DEF Sum, t, c, r
      <4> QED
        BY <3>4, <3>5
    <3> QED
      BY <2>2, <3>6
  <2> QED
    BY <2>5, <2>6
<1>3. S \notin C /\ S \in SUBSET All /\ x \in All \ S
  BY <1>2
<1> QED
  BY <1>3

LEMMA SumSplit ==
  ASSUME NEW f, NEW S, IsFiniteSet(S), NEW x \in S, \A y \in S : f[y] \in Int
  PROVE  SumFunctionOnSet(f, S) = f[x] + SumFunctionOnSet(f, S \ {x})
<1> DEFINE r == S \ {x}
<1>1. IsFiniteSet(r) /\ x \notin r /\ r \cup {x} = S
  BY FS_Subset
<1> HIDE DEF r
<1>2. SumFunctionOnSet(f, r \cup {x}) = f[x] + SumFunctionOnSet(f, r)
  BY <1>1, SumAdd
<1> QED
  BY <1>1, <1>2 DEF r

LEMMA SumEmpty ==
  ASSUME NEW f PROVE SumFunctionOnSet(f, {}) = 0
BY FS_EmptySet, SumByFirst

(* Sums of functions that agree, or whose sum is a third.                  *)
LEMMA SumSame ==
  ASSUME NEW f, NEW g, NEW S, IsFiniteSet(S), \A x \in S : f[x] = g[x]
  PROVE  SumFunctionOnSet(f, S) = SumFunctionOnSet(g, S)
<1> DEFINE C == {s \in SUBSET S : SumFunctionOnSet(f, s) # SumFunctionOnSet(g, s)}
<1>1. C \subseteq SUBSET S
  OBVIOUS
<1> SUFFICES ASSUME C # {} PROVE FALSE
  OBVIOUS
<1> HIDE DEF C
<1>2. PICK u \in C : \A v \in SUBSET u : v \in C => v = u
  BY <1>1, LeastSubset
<1> USE DEF C
<1>3. u \subseteq S /\ IsFiniteSet(u)
  BY <1>2, FS_Subset
<1>4. \A h : SumFunctionOnSet(h, u)
               = IF u = {} THEN 0 ELSE h[First(u)] + SumFunctionOnSet(h, Rest(u))
  BY <1>3, SumByFirst
<1>5. u # {}
  BY <1>2, <1>4
<1>6. /\ SumFunctionOnSet(f, Rest(u)) = SumFunctionOnSet(g, Rest(u))
      /\ f[First(u)] = g[First(u)]
  BY <1>2, <1>3, <1>5, FirstRest
<1> QED
  BY <1>2, <1>4, <1>6

LEMMA SumOfSums ==
  ASSUME NEW f, NEW g, NEW h, NEW S, IsFiniteSet(S),
         \A x \in S : f[x] \in Int /\ g[x] \in Int /\ h[x] = f[x] + g[x]
  PROVE  SumFunctionOnSet(h, S) = SumFunctionOnSet(f, S) + SumFunctionOnSet(g, S)
<1> DEFINE Sum(k, s) == SumFunctionOnSet(k, s)
           C == {s \in SUBSET S : Sum(h, s) # Sum(f, s) + Sum(g, s)}
<1>1. C \subseteq SUBSET S
  OBVIOUS
<1> SUFFICES ASSUME C # {} PROVE FALSE
  OBVIOUS
<1> HIDE DEF C
<1>2. PICK u \in C : \A v \in SUBSET u : v \in C => v = u
  BY <1>1, LeastSubset
<1> USE DEF C
<1>3. u \subseteq S /\ IsFiniteSet(u)
  BY <1>2, FS_Subset
<1>4. \A k : Sum(k, u) = IF u = {} THEN 0 ELSE k[First(u)] + Sum(k, Rest(u))
  BY <1>3, SumByFirst
<1>5. u # {}
  BY <1>2, <1>4
<1> DEFINE c == First(u)
           r == Rest(u)
<1>6. /\ c \in S /\ r \in SUBSET S /\ IsFiniteSet(r)
      /\ Sum(h, r) = Sum(f, r) + Sum(g, r)
  BY <1>2, <1>3, <1>5, FirstRest, FS_Subset
<1>7. /\ f[c] \in Int /\ g[c] \in Int /\ h[c] = f[c] + g[c]
      /\ Sum(f, r) \in Int /\ Sum(g, r) \in Int
  BY <1>6, SumType
<1>8. Sum(h, u) = Sum(f, u) + Sum(g, u)
  <2>1. Sum(h, u) = h[c] + Sum(h, r) /\ Sum(f, u) = f[c] + Sum(f, r)
        /\ Sum(g, u) = g[c] + Sum(g, r)
    BY <1>4, <1>5
  <2> HIDE DEF Sum, c, r
  <2> QED
    BY <2>1, <1>6, <1>7
<1> QED
  BY <1>2, <1>8

(* A sum in which one summand changes.                                     *)
LEMMA SumChange ==
  ASSUME NEW f, NEW g, NEW S, IsFiniteSet(S), NEW x \in S,
         \A y \in S : f[y] \in Int /\ g[y] \in Int,
         \A y \in S : y # x => g[y] = f[y]
  PROVE  SumFunctionOnSet(g, S) = SumFunctionOnSet(f, S) + (g[x] - f[x])
<1> DEFINE r == S \ {x}
           rest == SumFunctionOnSet(f, r)
<1>1. IsFiniteSet(r)
  BY FS_Subset
<1>2. rest \in Int /\ SumFunctionOnSet(g, r) = rest
  BY <1>1, SumType, SumSame
<1>3. /\ SumFunctionOnSet(f, S) = f[x] + SumFunctionOnSet(f, r)
      /\ SumFunctionOnSet(g, S) = g[x] + SumFunctionOnSet(g, r)
  BY SumSplit
<1> HIDE DEF rest, r
<1> QED
  BY <1>2, <1>3 DEF rest

LEMMA SeqSumType ==
  ASSUME NEW s \in Seq(Int)
  PROVE  SumFunction(s) \in Int
<1> DEFINE d == 1 .. Len(s)
<1>1. DOMAIN s = d /\ Len(s) \in Nat /\ \A i \in d : s[i] \in Int
  OBVIOUS
<1>2. IsFiniteSet(d)
  BY <1>1, FS_Interval
<1> HIDE DEF d
<1> QED
  BY <1>1, <1>2, SumType DEF SumFunction

LEMMA SumAppend ==
  ASSUME NEW s \in Seq(Int), NEW n \in Int
  PROVE  SumFunction(Append(s, n)) = SumFunction(s) + n
<1> DEFINE a == Append(s, n)
           d == 1 .. Len(s)
           l == Len(s) + 1
<1>1. a \in Seq(Int) /\ Len(a) = l /\ Len(s) \in Nat
  OBVIOUS
<1>2. DOMAIN s = d /\ DOMAIN a = d \cup {l} /\ l \notin d
  BY <1>1
<1>3. a[l] = n /\ \A i \in d : a[i] = s[i] /\ s[i] \in Int
  OBVIOUS
<1>4. IsFiniteSet(d)
  BY <1>1, FS_Interval
<1> HIDE DEF a, d, l
<1>5. SumFunctionOnSet(a, d) = SumFunctionOnSet(s, d)
  BY <1>3, <1>4, SumSame
<1>6. SumFunctionOnSet(s, d) \in Int
  BY <1>3, <1>4, SumType
<1>7. SumFunctionOnSet(a, d \cup {l}) = a[l] + SumFunctionOnSet(a, d)
  <2>1. \A y \in d \cup {l} : a[y] \in Int
    BY <1>3
  <2> QED
    BY <1>2, <1>4, <2>1, SumAdd
<1> QED
  BY <1>2, <1>3, <1>5, <1>6, <1>7 DEF SumFunction, a

-----------------------------------------------------------------------------
HasIo(t) == TaskAt(t).io_every \notin {None, 0}

InSettle(t) == Running(t) /\ step = "settle"

(* What has to be known of a task besides its books: when it arrives, that *)
(* a task with CPU time left has used none in excess, and that it does I/O *)
(* after exactly io_every ticks, so that the number of operations can be   *)
(* read off its CPU time.                                                  *)
Progress(t) ==
  /\ state[t] = "New" =>
       /\ remaining_cpu[t] = TaskAt(t).total_cpu
       /\ run_since_io[t] = 0 /\ waiting_time[t] = 0
       /\ step \in {"wake", "arrive"} => TaskAt(t).arrival >= now
  /\ remaining_cpu[t] <= TaskAt(t).total_cpu
  /\ TaskAt(t).total_cpu > 0 /\ ~Done(t) /\ ~InSettle(t) => remaining_cpu[t] > 0
  /\ HasIo(t) =>
       /\ CpuTicks(t) - run_since_io[t] = IoCount(t) * TaskAt(t).io_every
       /\ IoCount(t) \in Nat
       /\ run_since_io[t] <= TaskAt(t).io_every
       /\ ~Done(t) /\ ~InSettle(t) => run_since_io[t] < TaskAt(t).io_every

Booked(t) ==
  state[t] # "New" =>
    BookedUntil(t) = TaskAt(t).arrival + CpuTicks(t) + waiting_time[t]
                       + IoCount(t) * TaskAt(t).io_block

Books == \A t \in Task : Progress(t) /\ Booked(t)

-----------------------------------------------------------------------------
LEMMA DivFacts ==
  ASSUME NEW k \in Nat, NEW e \in Nat, e > 0
  PROVE  (k * e + e) \div e = k + 1 /\ (0 \div e) = 0
<1>1. (k * e + e) \div e = k + 1
  <2>1. k * e + e = (k + 1) * e /\ k * e \in Nat
    OBVIOUS
  <2> DEFINE q == (k * e + e) \div e
  <2>2. q \in Int /\ q * e <= k * e + e /\ k * e + e < (q + 1) * e
    OBVIOUS
  <2> QED
    BY <2>1, <2>2
<1>2. 0 \div e = 0
  OBVIOUS
<1> QED
  BY <1>1, <1>2

LEMMA SpecFacts ==
  ASSUME TypeOK, NEW t \in Task
  PROVE  /\ TaskAt(t).arrival \in Nat /\ TaskAt(t).total_cpu \in Nat
         /\ TaskAt(t).io_block \in Nat
         /\ HasIo(t) => TaskAt(t).io_every \in Nat /\ TaskAt(t).io_every > 0
         /\ IoCount(t) * TaskAt(t).io_block \in Int
<1>1. TaskAt(t) \in TaskSpecs
  BY TaskFacts
<1>2. /\ TaskAt(t).arrival \in Nat /\ TaskAt(t).total_cpu \in Nat
      /\ TaskAt(t).io_block \in Nat
      /\ HasIo(t) => TaskAt(t).io_every \in Nat /\ TaskAt(t).io_every > 0
  BY <1>1 DEF TaskSpecs, HasIo
<1>3. CpuTicks(t) \in Int /\ run_since_io[t] \in Int
  BY <1>2 DEF CpuTicks, TypeOK
<1>4. IoCount(t) \in Int
  BY <1>2, <1>3 DEF IoCount, HasIo
<1> QED
  BY <1>2, <1>4

LEMMA FreshTask ==
  ASSUME TypeOK, NEW t \in Task, state[t] = "New",
         remaining_cpu[t] = TaskAt(t).total_cpu, run_since_io[t] = 0
  PROVE  CpuTicks(t) = 0 /\ IoCount(t) = 0
<1>1. CpuTicks(t) = 0
  BY SpecFacts DEF CpuTicks, Done, Running
<1> QED
  BY <1>1, SpecFacts, DivFacts DEF IoCount, HasIo

(* A step that leaves CPU time and run_since_io of a task alone keeps its  *)
(* I/O count.                                                              *)
LEMMA SameIo ==
  ASSUME workload' = workload, NEW t \in Task,
         CpuTicks(t)' - run_since_io'[t] = CpuTicks(t) - run_since_io[t]
  PROVE  IoCount(t)' = IoCount(t)
BY SameTasks DEF IoCount

(* A step that leaves the fields of a task alone keeps its books, if the   *)
(* time they are kept up to is the same.                                   *)
LEMMA Untouched ==
  ASSUME workload' = workload, now' = now, NEW u \in Task, Progress(u), Booked(u),
         state'[u] = state[u], remaining_cpu'[u] = remaining_cpu[u],
         run_since_io'[u] = run_since_io[u], waiting_time'[u] = waiting_time[u],
         InSettle(u)' <=> InSettle(u),
         step' \in {"wake", "arrive"} => step \in {"wake", "arrive"},
         BookedUntil(u)' = BookedUntil(u)
  PROVE  Progress(u)' /\ Booked(u)'
<1>1. \A t : TaskAt(t)' = TaskAt(t)
  BY SameTasks
<1>2. CpuTicks(u)' = CpuTicks(u)
  BY <1>1 DEF CpuTicks, Done, InSettle, Running
<1>3. IoCount(u)' = IoCount(u)
  BY <1>2, SameIo
<1> QED
  BY <1>1, <1>2, <1>3 DEF Progress, Booked, HasIo, Done

LEMMA InitBooks == Init => Books
<1> SUFFICES ASSUME Init, NEW t \in Task PROVE Progress(t) /\ Booked(t)
  BY DEF Books
<1>1. TypeOK
  BY InitIInv DEF IInv
<1>2. /\ state[t] = "New" /\ remaining_cpu[t] = TaskAt(t).total_cpu
      /\ run_since_io[t] = 0 /\ waiting_time[t] = 0 /\ now = 0 /\ step = "wake"
  BY DEF Init
<1>3. CpuTicks(t) = 0 /\ IoCount(t) = 0
  BY <1>1, <1>2, FreshTask
<1> QED
  BY <1>1, <1>2, <1>3, SpecFacts DEF Progress, Booked, Done

-----------------------------------------------------------------------------
(* A blocked or a new task becomes ready.                                  *)
LEMMA ReadyBooks ==
  ASSUME IInv, Books, NEW t \in Task, Wake(t) \/ Arrive(t)
  PROVE  Books'
<1>1. /\ step \in {"wake", "arrive"} /\ step' = step /\ now' = now
      /\ workload' = workload /\ state' = [state EXCEPT ![t] = "Ready"]
      /\ remaining_cpu' = remaining_cpu /\ run_since_io' = run_since_io
      /\ waiting_time' = waiting_time /\ completion_time' = completion_time
      /\ \/ state[t] = "Blocked" /\ unblock_at[t] = now
            /\ unblock_at' = [unblock_at EXCEPT ![t] = None]
         \/ state[t] = "New" /\ TaskAt(t).arrival <= now /\ unblock_at' = unblock_at
  BY DEF Wake, Arrive, MakeReady, IsFirst, WakeList, ArrivalList
<1>2. Task' = Task /\ \A u : TaskAt(u)' = TaskAt(u)
  BY <1>1, SameTasks
<1> SUFFICES ASSUME NEW u \in Task PROVE Progress(u)' /\ Booked(u)'
  BY <1>2 DEF Books
<1>3. Progress(u) /\ Booked(u) /\ TypeOK
  BY DEF Books, IInv
<1>4. CASE u # t
  <2>1. /\ state'[u] = state[u] /\ unblock_at'[u] = unblock_at[u]
        /\ (InSettle(u)' <=> InSettle(u))
    BY <1>1, <1>3, <1>4 DEF TypeOK, InSettle, Running
  <2>2. BookedUntil(u)' = BookedUntil(u)
    BY <1>1, <2>1 DEF BookedUntil, Done, Blocked, Ready, Running
  <2> QED
    BY <1>1, <1>3, <2>1, <2>2, Untouched
<1>5. CASE u = t
  <2>1. state'[u] = "Ready" /\ state[u] \in {"Blocked", "New"}
    BY <1>1, <1>3, <1>5 DEF TypeOK
  <2>2. CpuTicks(u)' = CpuTicks(u)
    BY <1>1, <1>2, <2>1 DEF CpuTicks, Done, Running
  <2>3. IoCount(u)' = IoCount(u)
    BY <1>1, <2>2, SameIo
  <2>4. Progress(u)'
    BY <1>1, <1>2, <1>3, <2>1, <2>2, <2>3 DEF Progress, HasIo, Done, InSettle, Running
  <2>5. BookedUntil(u)' = now
    BY <1>1, <2>1 DEF BookedUntil, Done, Blocked, Ready, Running
  <2>6. CASE state[u] = "Blocked"
    <3>1. BookedUntil(u) = now
      BY <1>1, <1>5, <2>6 DEF BookedUntil, Done, Blocked, Ready, Running
    <3> QED
      BY <1>1, <1>2, <1>3, <2>2, <2>3, <2>4, <2>5, <2>6, <3>1 DEF Booked
  <2>7. CASE state[u] = "New"
    <3>1. TaskAt(u).arrival = now /\ CpuTicks(u) = 0 /\ waiting_time[u] = 0
          /\ IoCount(u) * TaskAt(u).io_block = 0
      <4>1. now \in Nat
        BY <1>3 DEF TypeOK
      <4>2. /\ remaining_cpu[u] = TaskAt(u).total_cpu /\ run_since_io[u] = 0
            /\ waiting_time[u] = 0 /\ TaskAt(u).arrival = now
        BY <1>1, <1>3, <1>5, <2>7, <4>1, SpecFacts DEF Progress
      <4>3. CpuTicks(u) = 0 /\ IoCount(u) = 0
        BY <1>3, <2>7, <4>2, FreshTask
      <4> QED
        BY <1>3, <4>2, <4>3, SpecFacts
    <3> QED
      BY <1>1, <1>2, <2>2, <2>3, <2>4, <2>5, <3>1 DEF Booked, IInv, TypeOK
  <2> QED
    BY <2>1, <2>4, <2>6, <2>7
<1> QED
  BY <1>4, <1>5

(* The loop goes on to its next part; no task is touched.                  *)
LEMMA MoveBooks ==
  ASSUME IInv, Books, WakesDone \/ ArrivalsDone \/ KeepRunning \/ StayIdle \/ NoTask
  PROVE  Books'
<1>1. /\ workload' = workload /\ now' = now
      /\ UNCHANGED <<state, remaining_cpu, run_since_io, unblock_at, waiting_time,
                     completion_time, running>>
      /\ \/ step \in {"wake", "arrive", "pick"} /\ step' \in {"arrive", "pick", "account"}
         \/ step = "tick" /\ step' = "end" /\ running = None
      /\ step' \in {"wake", "arrive"} => step \in {"wake", "arrive"}
  BY DEF WakesDone, ArrivalsDone, KeepRunning, StayIdle, NoTask, taskVars, cpuVars
<1>2. Task' = Task
  BY <1>1, SameTasks
<1> SUFFICES ASSUME NEW u \in Task PROVE Progress(u)' /\ Booked(u)'
  BY <1>2 DEF Books
<1>3. running = None => ~Running(u)
  BY TaskFacts DEF IInv, SingleRunner
<1>4. BookedUntil(u)' = BookedUntil(u) /\ (InSettle(u)' <=> InSettle(u))
  BY <1>1, <1>3 DEF BookedUntil, Done, Blocked, Ready, Running, InSettle
<1> QED
  BY <1>1, <1>4, Untouched DEF Books

(* now moves on, up to where the books are kept already.                   *)
LEMMA ClockBooks ==
  ASSUME IInv, Books, NextTick \/ Break
  PROVE  Books'
<1>1. /\ workload' = workload /\ now' = now + 1 /\ step = "end" /\ step' \in {"wake", "done"}
      /\ UNCHANGED <<state, remaining_cpu, run_since_io, unblock_at, waiting_time,
                     completion_time>>
  BY DEF NextTick, Break, taskVars
<1>2. Task' = Task /\ \A t : TaskAt(t)' = TaskAt(t)
  BY <1>1, SameTasks
<1> SUFFICES ASSUME NEW u \in Task PROVE Progress(u)' /\ Booked(u)'
  BY <1>2 DEF Books
<1>3. CpuTicks(u)' = CpuTicks(u) /\ BookedUntil(u)' = BookedUntil(u)
  BY <1>1, <1>2 DEF CpuTicks, BookedUntil, Done, Blocked, Ready, Running
<1>4. IoCount(u)' = IoCount(u)
  BY <1>1, <1>3, SameIo
<1>5. state[u] = "New" => TaskAt(u).arrival >= now + 1
  BY <1>1, SpecFacts DEF IInv, TypeOK, ArrivalsSeen
<1>6. Progress(u) /\ Booked(u)
  BY DEF Books
<1> QED
  BY <1>1, <1>2, <1>3, <1>4, <1>5, <1>6 DEF Progress, Booked, HasIo, Done, InSettle, Running

(* Every ready task waits one tick.                                        *)
LEMMA AccountBooks ==
  ASSUME IInv, Books, Account
  PROVE  Books'
<1>1. /\ workload' = workload /\ now' = now /\ step = "account" /\ step' = "tick"
      /\ UNCHANGED <<state, remaining_cpu, run_since_io, unblock_at, completion_time>>
  BY DEF Account
<1>2. Task' = Task /\ \A t : TaskAt(t)' = TaskAt(t)
  BY <1>1, SameTasks
<1> SUFFICES ASSUME NEW u \in Task PROVE Progress(u)' /\ Booked(u)'
  BY <1>2 DEF Books
<1>3. Progress(u) /\ Booked(u) /\ TypeOK /\ now \in Nat
  BY DEF Books, IInv, TypeOK
<1>4. CpuTicks(u)' = CpuTicks(u) /\ (InSettle(u)' <=> InSettle(u))
  BY <1>1, <1>2 DEF CpuTicks, Done, Running, InSettle
<1>5. CASE ~Ready(u)
  <2>1. waiting_time'[u] = waiting_time[u]
    BY <1>3, <1>5 DEF Account, Ready
  <2>2. BookedUntil(u)' = BookedUntil(u)
    BY <1>1, <1>5 DEF BookedUntil, Done, Blocked, Ready, Running
  <2> QED
    BY <1>1, <1>3, <1>4, <2>1, <2>2, Untouched
<1>6. CASE Ready(u)
  <2>1. waiting_time'[u] = waiting_time[u] + 1 /\ waiting_time[u] \in Nat
    BY <1>3, <1>6 DEF Account, Ready, TypeOK
  <2>2. BookedUntil(u) = now /\ BookedUntil(u)' = now + 1
    BY <1>1, <1>6 DEF BookedUntil, Done, Blocked, Ready, Running
  <2>3. IoCount(u)' = IoCount(u)
    BY <1>1, <1>4, SameIo
  <2>4. Progress(u)'
    BY <1>1, <1>2, <1>3, <1>4, <1>6, <2>3 DEF Progress, HasIo, Done, Ready
  <2>5. CpuTicks(u) \in Int /\ IoCount(u) * TaskAt(u).io_block \in Int
        /\ TaskAt(u).arrival \in Int
    BY <1>3, SpecFacts DEF CpuTicks, TypeOK
  <2> QED
    BY <1>1, <1>2, <1>3, <1>4, <1>6, <2>1, <2>2, <2>3, <2>4, <2>5 DEF Booked, Ready
<1> QED
  BY <1>5, <1>6

(* The picked task was ready and runs from this tick on.                   *)
LEMMA DispatchBooks ==
  ASSUME IInv, Books, Dispatch
  PROVE  Books'
<1>1. PICK o \in PickNext(sched, remaining_cpu, Class) :
        o.next # None /\ StartRunning(o.next)
  BY DEF Dispatch
<1> DEFINE t == o.next
<1>2. /\ workload' = workload /\ now' = now /\ step = "pick" /\ step' = "account"
      /\ UNCHANGED <<remaining_cpu, run_since_io, unblock_at, completion_time, waiting_time>>
  BY DEF Dispatch
<1>3. Task' = Task /\ \A x : TaskAt(x)' = TaskAt(x)
  BY <1>2, SameTasks
<1>4. t \in Task /\ state[t] = "Ready" /\ state' = [state EXCEPT ![t] = "Running"]
  <2>1. t \in ReadyTasks(sched)
    BY <1>1, PickContract DEF IInv, TypeOK
  <2> QED
    BY <1>1, <2>1 DEF StartRunning, IInv, ReadyAgree, Ready
<1> HIDE DEF t
<1> SUFFICES ASSUME NEW u \in Task PROVE Progress(u)' /\ Booked(u)'
  BY <1>3 DEF Books
<1>5. Progress(u) /\ Booked(u)
  BY DEF Books
<1>6. state'[u] = IF u = t THEN "Running" ELSE state[u]
  BY <1>4 DEF IInv, TypeOK
<1>7. /\ CpuTicks(u)' = CpuTicks(u) /\ ~InSettle(u) /\ ~InSettle(u)'
      /\ state[u] # "New" => BookedUntil(u)' = BookedUntil(u)
  <2>1. CpuTicks(u)' = CpuTicks(u) /\ ~InSettle(u) /\ ~InSettle(u)'
    BY <1>2, <1>3, <1>4, <1>6 DEF CpuTicks, Done, Running, InSettle
  <2>2. CASE u = t
    <3>1. state[u] = "Ready" /\ state'[u] = "Running"
      BY <1>4, <1>6, <2>2
    <3>2. BookedUntil(u) = now /\ BookedUntil(u)' = now
      BY <1>2, <3>1 DEF BookedUntil, Done, Blocked, Ready, Running
    <3> QED
      BY <2>1, <3>2
  <2>3. CASE u # t
    <3>1. state'[u] = state[u]
      BY <1>6, <2>3
    <3> QED
      BY <1>2, <2>1, <3>1 DEF BookedUntil, Done, Blocked, Ready, Running
  <2> QED
    BY <2>1, <2>2, <2>3
<1>8. IoCount(u)' = IoCount(u)
  BY <1>2, <1>7, SameIo
<1> QED
  BY <1>2, <1>3, <1>4, <1>5, <1>6, <1>7, <1>8 DEF Progress, Booked, HasIo, Done

(* The running task uses the tick: one more tick of CPU time, also for a   *)
(* task specified with none.                                               *)
LEMMA TickBooks ==
  ASSUME IInv, Books, Tick
  PROVE  Books'
<1>1. /\ workload' = workload /\ now' = now /\ step = "tick" /\ step' = "settle"
      /\ UNCHANGED <<state, unblock_at, completion_time, waiting_time>>
      /\ remaining_cpu' = [remaining_cpu EXCEPT ![running] = Monus(@, 1)]
      /\ run_since_io' = [run_since_io EXCEPT ![running] = @ + 1]
      /\ running # None
  BY DEF Tick
<1>2. Task' = Task /\ \A x : TaskAt(x)' = TaskAt(x)
  BY <1>1, SameTasks
<1> SUFFICES ASSUME NEW u \in Task PROVE Progress(u)' /\ Booked(u)'
  BY <1>2 DEF Books
<1>3. Progress(u) /\ Booked(u) /\ TypeOK /\ (Running(u) <=> running = u)
  BY DEF Books, IInv, SingleRunner
<1>4. CASE u # running
  <2>1. /\ remaining_cpu'[u] = remaining_cpu[u] /\ run_since_io'[u] = run_since_io[u]
        /\ ~Running(u) /\ ~InSettle(u) /\ ~InSettle(u)'
    BY <1>1, <1>3, <1>4 DEF TypeOK, InSettle, Running
  <2>2. BookedUntil(u)' = BookedUntil(u)
    BY <1>1, <2>1 DEF BookedUntil, Done, Blocked, Ready, Running
  <2> QED
    BY <1>1, <1>3, <2>1, <2>2, Untouched
<1>5. CASE u = running
  <2>1. state[u] = "Running" /\ remaining_cpu[u] \in Nat /\ run_since_io[u] \in Nat
        /\ now \in Nat /\ waiting_time[u] \in Nat
    BY <1>3, <1>5 DEF Running, TypeOK
  <2>2. run_since_io'[u] = run_since_io[u] + 1
        /\ remaining_cpu'[u] = IF remaining_cpu[u] > 0 THEN remaining_cpu[u] - 1 ELSE 0
    BY <1>1, <1>3, <1>5, <2>1 DEF TypeOK, Monus
  <2>3. CpuTicks(u) \in Int /\ CpuTicks(u)' = CpuTicks(u) + 1
    BY <1>1, <1>2, <1>3, <2>1, <2>2, SpecFacts DEF CpuTicks, Done, Running, Progress, InSettle
  <2>4. IoCount(u)' = IoCount(u)
    BY <1>1, <2>1, <2>2, <2>3, SameIo
  <2>5. BookedUntil(u) = now /\ BookedUntil(u)' = now + 1
    BY <1>1, <2>1 DEF BookedUntil, Done, Blocked, Ready, Running
  <2>6. Progress(u)'
    <3>1. InSettle(u)' /\ ~InSettle(u) /\ ~Done(u)
      BY <1>1, <2>1 DEF InSettle, Running, Done
    <3>2. HasIo(u) => /\ CpuTicks(u)' - run_since_io'[u] = CpuTicks(u) - run_since_io[u]
                      /\ run_since_io'[u] <= TaskAt(u).io_every
      <4>1. CpuTicks(u)' - run_since_io'[u] = CpuTicks(u) - run_since_io[u]
        BY <2>1, <2>2, <2>3
      <4>2. HasIo(u) => run_since_io[u] < TaskAt(u).io_every /\ TaskAt(u).io_every \in Nat
        BY <1>3, <3>1, SpecFacts DEF Progress
      <4> QED
        BY <2>1, <2>2, <4>1, <4>2
    <3> QED
      BY <1>1, <1>2, <1>3, <2>1, <2>2, <2>4, <3>1, <3>2, SpecFacts DEF Progress, HasIo
  <2>7. IoCount(u) * TaskAt(u).io_block \in Int /\ TaskAt(u).arrival \in Int
    BY <1>3, SpecFacts
  <2> QED
    BY <1>1, <1>2, <1>3, <2>1, <2>3, <2>4, <2>5, <2>6, <2>7 DEF Booked
<1> QED
  BY <1>4, <1>5

(* The tick is settled.  An I/O is issued at exactly io_every, so that the *)
(* count of operations goes up by one.                                     *)
LEMMA SettleBooks ==
  ASSUME IInv, Books, Finish \/ Block \/ Preempt \/ Continue
  PROVE  Books'
<1>1. /\ workload' = workload /\ now' = now /\ step = "settle" /\ step' = "end"
      /\ UNCHANGED <<remaining_cpu, waiting_time>>
  BY DEF Finish, Block, Preempt, Continue, taskVars
<1>2. Task' = Task /\ \A x : TaskAt(x)' = TaskAt(x)
  BY <1>1, SameTasks
<1> SUFFICES ASSUME NEW u \in Task PROVE Progress(u)' /\ Booked(u)'
  BY <1>2 DEF Books
<1>3. Progress(u) /\ Booked(u) /\ TypeOK /\ (Running(u) <=> running = u)
  BY DEF Books, IInv, SingleRunner
<1>4. CASE u # running
  <2>1. /\ state'[u] = state[u] /\ run_since_io'[u] = run_since_io[u]
        /\ unblock_at'[u] = unblock_at[u] /\ completion_time'[u] = completion_time[u]
        /\ ~Running(u) /\ ~InSettle(u) /\ ~InSettle(u)'
    BY <1>1, <1>3, <1>4 DEF TypeOK, InSettle, Running, Finish, Block, Preempt, Continue,
       MakeReady, taskVars
  <2>2. BookedUntil(u)' = BookedUntil(u)
    BY <1>1, <2>1 DEF BookedUntil, Done, Blocked, Ready, Running
  <2> QED
    BY <1>1, <1>3, <2>1, <2>2, Untouched
<1>5. CASE u = running
  <2>1. /\ state[u] = "Running" /\ remaining_cpu[u] \in Nat /\ run_since_io[u] \in Nat
        /\ now \in Nat /\ waiting_time[u] \in Nat
        /\ InSettle(u) /\ BookedUntil(u) = now + 1
    BY <1>1, <1>3, <1>5 DEF Running, TypeOK, InSettle, BookedUntil, Done, Blocked, Ready
  <2>2. TaskAt(u).total_cpu \in Nat /\ TaskAt(u).io_block \in Nat /\ TaskAt(u).arrival \in Nat
        /\ IoCount(u) * TaskAt(u).io_block \in Int
    BY <1>3, SpecFacts
  <2>3. CASE Finish
    <3>1. /\ state'[u] = "Done" /\ completion_time'[u] = now + 1
          /\ run_since_io' = run_since_io /\ remaining_cpu[u] = 0
      BY <1>3, <1>5, <2>3 DEF Finish, ts_next, TypeOK
    <3>2. CpuTicks(u)' = CpuTicks(u) /\ BookedUntil(u)' = now + 1
      BY <1>1, <1>2, <2>1, <3>1 DEF CpuTicks, InSettle, BookedUntil, Done, Blocked, Ready,
         Running
    <3>3. IoCount(u)' = IoCount(u)
      BY <1>1, <3>1, <3>2, SameIo
    <3> QED
      BY <1>1, <1>2, <1>3, <2>1, <3>1, <3>2, <3>3 DEF Progress, Booked, HasIo, Done
  <2>4. CASE Block \/ Preempt \/ Continue
    <3>1. /\ remaining_cpu[u] > 0 /\ TaskAt(u).total_cpu > 0
          /\ CpuTicks(u) = TaskAt(u).total_cpu - remaining_cpu[u]
          /\ CpuTicks(u)' = CpuTicks(u) /\ CpuTicks(u) \in Int
      <4>1. remaining_cpu[u] > 0
        BY <1>5, <2>1, <2>4 DEF Block, Preempt, Continue
      <4>2. TaskAt(u).total_cpu > 0
        BY <1>3, <2>1, <2>2, <4>1 DEF Progress
      <4> QED
        BY <1>1, <1>2, <2>1, <2>2, <4>1, <4>2 DEF CpuTicks
    <3>2. HasIo(u) <=> TaskAt(u).io_every \notin {None, 0}
      BY DEF HasIo
    <3>3. CASE Block
      <4>1. /\ state'[u] = "Blocked" /\ run_since_io'[u] = 0
            /\ unblock_at'[u] = (now + 1) + TaskAt(u).io_block
            /\ TaskAt(u).io_every # None /\ TaskAt(u).io_every > 0
            /\ run_since_io[u] >= TaskAt(u).io_every
        BY <1>3, <1>5, <3>3 DEF Block, IoDue, ts_next, TypeOK
      <4> DEFINE e == TaskAt(u).io_every
                 k == IoCount(u)
      <4>2. HasIo(u) /\ e \in Nat /\ e > 0
        <5>1. HasIo(u)
          BY <4>1, TaskFacts, <1>3 DEF HasIo, TaskSpecs
        <5> QED
          BY <1>3, <5>1, SpecFacts
      <4>3. run_since_io[u] = e /\ k \in Nat /\ CpuTicks(u) - run_since_io[u] = k * e
        BY <1>3, <2>1, <4>1, <4>2 DEF Progress
      <4>4. CpuTicks(u) = k * e + e
        BY <3>1, <4>2, <4>3
      <4>5. IoCount(u)' = (k * e + e) \div e
        <5>1. IoCount(u)' = (CpuTicks(u)' - run_since_io'[u]) \div e
          BY <1>2, <4>2, <3>2 DEF IoCount
        <5>2. CpuTicks(u)' - run_since_io'[u] = k * e + e
          BY <3>1, <4>1, <4>4
        <5> QED
          BY <5>1, <5>2
      <4>6. IoCount(u)' = k + 1
        BY <4>2, <4>3, <4>5, DivFacts
      <4>7. BookedUntil(u)' = (now + 1) + TaskAt(u).io_block
        BY <4>1 DEF BookedUntil, Done, Blocked, Ready, Running
      <4> HIDE DEF e, k
      <4>8. (k + 1) * e = k * e + e
            /\ (k + 1) * TaskAt(u).io_block = k * TaskAt(u).io_block + TaskAt(u).io_block
        BY <2>2, <4>2, <4>3
      <4>9. Progress(u)'
        <5>1. CpuTicks(u)' - run_since_io'[u] = IoCount(u)' * e /\ IoCount(u)' \in Nat
              /\ run_since_io'[u] < e /\ run_since_io'[u] <= e
          BY <3>1, <4>1, <4>2, <4>3, <4>4, <4>6, <4>8
        <5> QED
          BY <1>1, <1>2, <1>3, <3>1, <4>1, <5>1 DEF Progress, HasIo, e
      <4>10. Booked(u)'
        <5>1. now + 1 = TaskAt(u).arrival + CpuTicks(u) + waiting_time[u]
                         + k * TaskAt(u).io_block
          BY <1>3, <2>1 DEF Booked, k
        <5>2. k * TaskAt(u).io_block \in Int
          BY <2>2 DEF k
        <5> QED
          BY <1>1, <1>2, <2>1, <2>2, <3>1, <4>6, <4>7, <4>8, <5>1, <5>2 DEF Booked
      <4> QED
        BY <4>9, <4>10
    <3>4. CASE Preempt \/ Continue
      <4>1. /\ state'[u] \in {"Ready", "Running"} /\ run_since_io'[u] = run_since_io[u]
            /\ ~IoDue(u)
        BY <1>3, <1>5, <2>1, <3>4 DEF Preempt, Continue, MakeReady, taskVars, TypeOK
      <4>2. IoCount(u)' = IoCount(u)
        BY <1>1, <3>1, <4>1, SameIo
      <4>3. BookedUntil(u)' = now + 1
        BY <1>1, <4>1 DEF BookedUntil, Done, Blocked, Ready, Running
      <4>4. HasIo(u) => run_since_io[u] < TaskAt(u).io_every
        BY <1>3, <2>1, <4>1, SpecFacts DEF IoDue, HasIo
      <4>5. Progress(u)'
        BY <1>1, <1>2, <1>3, <3>1, <4>1, <4>2, <4>4 DEF Progress, HasIo
      <4>6. Booked(u)'
        BY <1>1, <1>2, <1>3, <2>1, <3>1, <4>2, <4>3 DEF Booked
      <4> QED
        BY <4>5, <4>6
    <3> QED
      BY <2>4, <3>3, <3>4
  <2> QED
    BY <2>3, <2>4
<1> QED
  BY <1>4, <1>5

-----------------------------------------------------------------------------
LEMMA NextBooks ==
  ASSUME IInv, Books, [Next]_vars
  PROVE  Books'
<1>1. CASE Terminated \/ UNCHANGED vars
  <2>1. UNCHANGED vars
    BY <1>1 DEF Terminated
  <2>2. Task' = Task
    BY <2>1, SameTasks DEF vars
  <2> SUFFICES ASSUME NEW u \in Task PROVE Progress(u)' /\ Booked(u)'
    BY <2>2 DEF Books
  <2>3. BookedUntil(u)' = BookedUntil(u) /\ (InSettle(u)' <=> InSettle(u))
    BY <2>1 DEF vars, taskVars, BookedUntil, Done, Blocked, Ready, Running, InSettle
  <2> QED
    BY <2>1, <2>3, Untouched DEF Books, vars, taskVars
<1> QED
  BY <1>1, ReadyBooks, MoveBooks, DispatchBooks, AccountBooks, TickBooks, SettleBooks,
     ClockBooks DEF Next

(* The books are kept: how far each task is, and every tick it was there.  *)
THEOREM BooksKept == Spec => []Books
<1>1. Init => Books
  BY InitBooks
<1>2. IInv /\ Books /\ [Next]_vars => Books'
  BY NextBooks
<1> QED
  BY <1>1, <1>2, Invariance, PTL DEF Spec

(* Turnaround is CPU time, waiting and I/O, of every task that is done, and*)
(* the same holds at any moment of those that are not.                     *)
THEOREM TimeAccounted == Spec => []TimeAccounting
<1>1. Books => TimeAccounting
  BY DEF Books, Booked, TimeAccounting
<1> QED
  BY <1>1, BooksKept, PTL

-----------------------------------------------------------------------------
(* The refinement: what the contract sees of a policy's state.             *)
View(ready) == [name |-> "Any", ready |-> ready]

LEMMA SameOperators ==
  /\ \A S : Abstract!Cardinality(S) = Cardinality(S)
  /\ \A s, e : Abstract!Append(s, e) = Append(s, e)
BY DEF Abstract!Cardinality, Cardinality

(* The contract's operations on what is seen of a policy's state.          *)
LEMMA ContractOperations ==
  ASSUME NEW ready, NEW t, NEW v, v = View(ready)
  PROVE  /\ Abstract!Enqueue(v, t) = View(ready \cup {t})
         /\ Abstract!OnWakeup(v, t) = View(ready \cup {t})
         /\ Abstract!OnBlock(v, t) = View(ready)
         /\ Abstract!ReadyLen(v) = Cardinality(ready)
<1>1. v.name = "Any" /\ v.ready = ready /\ \A r : [v EXCEPT !.ready = r] = View(r)
  BY DEF View
<1>2. Abstract!Enqueue(v, t) = View(ready \cup {t})
  BY <1>1 DEF Abstract!Enqueue, Abstract!Contract!Enqueue
<1>3. Abstract!OnWakeup(v, t) = View(ready \cup {t})
  BY <1>1 DEF Abstract!OnWakeup, Abstract!Contract!OnWakeup, Abstract!Contract!Enqueue
<1>4. Abstract!OnBlock(v, t) = View(ready)
  BY <1>1 DEF Abstract!OnBlock, Abstract!Contract!OnBlock
<1>5. Abstract!ReadyLen(v) = Cardinality(ready)
  BY <1>1, SameOperators DEF Abstract!ReadyLen
<1> QED
  BY <1>2, <1>3, <1>4, <1>5

LEMMA ContractAnswers ==
  ASSUME NEW ready, NEW v, v = View(ready), NEW cpu, NEW class, NEW t, NEW tick
  PROVE  /\ \A x \in ready : [next |-> x, sched |-> View(ready \ {x})]
                              \in Abstract!PickNext(v, cpu, class)
         /\ ready = {} => [next |-> None, sched |-> v] \in Abstract!PickNext(v, cpu, class)
         /\ \A a \in {"Continue", "Preempt"} :
              [action |-> a, sched |-> v] \in Abstract!OnTick(v, class, t, tick)
<1>1. v.name = "Any" /\ v.ready = ready /\ \A r : [v EXCEPT !.ready = r] = View(r)
  BY DEF View
<1>2. ASSUME NEW x \in ready
      PROVE  [next |-> x, sched |-> View(ready \ {x})] \in Abstract!PickNext(v, cpu, class)
  <2>1. Abstract!PickNext(v, cpu, class) = Abstract!Contract!PickNext(v)
    BY <1>1 DEF Abstract!PickNext
  <2>2. Abstract!Contract!PickNext(v) =
          {[next |-> y, sched |-> [v EXCEPT !.ready = ready \ {y}]] : y \in ready}
    BY <1>1, <1>2 DEF Abstract!Contract!PickNext
  <2> QED
    BY <1>1, <2>1, <2>2
<1>3. ready = {} => [next |-> None, sched |-> v] \in Abstract!PickNext(v, cpu, class)
  BY <1>1 DEF Abstract!PickNext, Abstract!Contract!PickNext
<1>4. ASSUME NEW a \in {"Continue", "Preempt"}
      PROVE  [action |-> a, sched |-> v] \in Abstract!OnTick(v, class, t, tick)
  BY <1>1 DEF Abstract!OnTick, Abstract!Contract!OnTick
<1> QED
  BY <1>2, <1>3, <1>4

LEMMA SeenOfPolicy ==
  /\ ContractView = View(ReadyTasks(sched))
  /\ ContractView' = View(ReadyTasks(sched)')
BY DEF ContractView, View

-----------------------------------------------------------------------------
LEMMA InitContract == Init => Abstract!Init
<1> SUFFICES ASSUME Init PROVE Abstract!Init
  OBVIOUS
<1>1. ReadyTasks(sched) = {}
  <2>1. PICK name \in SchedulerNames : sched = NewScheduler(name, Task)
    BY DEF Init
  <2> QED
    BY <2>1, NewContract, ExperimentAssumption
<1>2. Abstract!NewScheduler("Any", Task) = View({})
  BY DEF Abstract!NewScheduler, Abstract!Contract!New, View
<1>3. \E name \in {"Any"} : ContractView = Abstract!NewScheduler(name, Abstract!Task)
  BY <1>1, <1>2, SeenOfPolicy DEF Abstract!Task, Task
<1> QED
  BY <1>3 DEF Init, Abstract!Init, Abstract!Task, Task, Abstract!TaskAt, TaskAt

(* Steps in which the policy is not asked.                                 *)
LEMMA LoopStep ==
  ASSUME WakesDone \/ ArrivalsDone \/ KeepRunning \/ Account \/ NoTask \/ Continue
           \/ NextTick \/ Break \/ Terminated
  PROVE  Abstract!Next
<1>1. sched' = sched
  BY DEF WakesDone, ArrivalsDone, KeepRunning, Account, NoTask, Continue, NextTick, Break,
     Terminated, vars
<1>2. ContractView' = ContractView
  BY <1>1 DEF ContractView
<1> USE <1>2 DEF taskVars, cpuVars, Abstract!taskVars, Abstract!cpuVars, Task, TaskAt,
     Abstract!Task, Abstract!TaskAt, Abstract!Next
<1>3. CASE WakesDone
  BY <1>3 DEF WakesDone, WakeList, Abstract!WakesDone, Abstract!WakeList
<1>4. CASE ArrivalsDone
  BY <1>4 DEF ArrivalsDone, ArrivalList, Abstract!ArrivalsDone, Abstract!ArrivalList
<1>5. CASE KeepRunning
  BY <1>5 DEF KeepRunning, Abstract!KeepRunning
<1>6. CASE Account
  BY <1>6, SameOperators DEF Account, Starving, Monus, Abstract!Account, Abstract!Starving,
     Abstract!Monus
<1>7. CASE NoTask
  BY <1>7 DEF NoTask, Abstract!NoTask
<1>8. CASE Continue
  BY <1>8 DEF Continue, IoDue, Abstract!Continue, Abstract!IoDue
<1>9. CASE NextTick
  BY <1>9 DEF NextTick, AllDone, Abstract!NextTick, Abstract!AllDone
<1>10. CASE Break
  BY <1>10 DEF Break, AllDone, Abstract!Break, Abstract!AllDone
<1>11. CASE Terminated
  BY <1>11 DEF Terminated, vars, Abstract!Terminated, Abstract!vars
<1> QED
  BY <1>3, <1>4, <1>5, <1>6, <1>7, <1>8, <1>9, <1>10, <1>11

(* A task becomes ready.                                                   *)
LEMMA ReadyStep ==
  ASSUME IInv, NEW t \in Task, Wake(t) \/ Arrive(t)
  PROVE  Abstract!Next
<1>1. t \notin ReadyTasks(sched)
  BY DEF IInv, ReadyAgree, Ready, Wake, Arrive, IsFirst, WakeList, ArrivalList
<1> USE DEF cpuVars, Abstract!cpuVars, Task, TaskAt, Abstract!Task, Abstract!TaskAt, IsFirst,
     Abstract!IsFirst, MakeReady, Abstract!MakeReady
<1>2. CASE Wake(t)
  <2>1. ReadyTasks(sched') = ReadyTasks(sched) \cup {t}
    BY <1>1, <1>2, WakeupContract DEF Wake, IInv, TypeOK
  <2>2. ContractView' = Abstract!OnWakeup(ContractView, t)
    BY <2>1, SeenOfPolicy, ContractOperations
  <2>3. Abstract!Wake(t)
    BY <1>2, <2>2 DEF Wake, WakeList, Abstract!Wake, Abstract!WakeList
  <2> QED
    BY <2>3 DEF Abstract!Next
<1>3. CASE Arrive(t)
  <2>1. ReadyTasks(sched') = ReadyTasks(sched) \cup {t}
    BY <1>1, <1>3, EnqueueContract DEF Arrive, IInv, TypeOK
  <2>2. ContractView' = Abstract!Enqueue(ContractView, t)
    BY <2>1, SeenOfPolicy, ContractOperations
  <2>3. Abstract!Arrive(t)
    BY <1>3, <2>2 DEF Arrive, ArrivalList, Abstract!Arrive, Abstract!ArrivalList
  <2> QED
    BY <2>3 DEF Abstract!Next
<1> QED
  BY <1>2, <1>3

LEMMA SameSwitch ==
  ASSUME NEW next, NEW ts, NEW len, SwitchContext(next, ts, len)
  PROVE  Abstract!SwitchContext(next, ts, len)
BY SameOperators DEF SwitchContext, RunFragment, Monus, IsInteractive, TaskAt, cpuVars,
   Abstract!SwitchContext, Abstract!RunFragment, Abstract!Monus, Abstract!IsInteractive,
   Abstract!TaskAt, Abstract!cpuVars

(* Once a task is picked or put back, the log shows the same length.       *)
LEMMA SameLength ==
  ASSUME SchedulerOK(sched', Task), IsFiniteSet(Task)
  PROVE  Abstract!ReadyLen(ContractView') = ReadyLen(sched')
BY ReadyLenContract, SeenOfPolicy, ContractOperations

(* What the policy picks is a task that the contract may pick.             *)
LEMMA DispatchContract ==
  ASSUME IInv, Dispatch
  PROVE  Abstract!Next
<1>1. PICK o \in PickNext(sched, remaining_cpu, Class) :
        /\ o.next # None /\ sched' = o.sched
        /\ SwitchContext(o.next, now, ReadyLen(o.sched))
        /\ StartRunning(o.next)
  BY DEF Dispatch
<1>2. IsFiniteSet(Task) /\ SchedulerOK(sched, Task)
  BY TaskFacts DEF IInv, TypeOK
<1>3. /\ SchedulerOK(sched', Task) /\ o.next \in ReadyTasks(sched)
      /\ ReadyTasks(sched') = ReadyTasks(sched) \ {o.next}
  BY <1>1, <1>2, PickContract
<1>4. PICK a : /\ a \in Abstract!PickNext(ContractView, remaining_cpu, Abstract!Class)
              /\ a.next = o.next /\ a.sched = ContractView'
  <2> DEFINE a == [next |-> o.next, sched |-> View(ReadyTasks(sched) \ {o.next})]
  <2>1. a \in Abstract!PickNext(ContractView, remaining_cpu, Abstract!Class)
    BY <1>3, SeenOfPolicy, ContractAnswers
  <2>2. a.next = o.next /\ a.sched = ContractView'
    BY <1>3, SeenOfPolicy
  <2> QED
    BY <2>1, <2>2
<1>5. Abstract!SwitchContext(a.next, now, Abstract!ReadyLen(a.sched))
  <2>1. Abstract!ReadyLen(a.sched) = ReadyLen(o.sched)
    BY <1>1, <1>2, <1>3, <1>4, SameLength
  <2>2. Abstract!SwitchContext(o.next, now, ReadyLen(o.sched))
    BY <1>1, SameSwitch
  <2> QED
    BY <1>4, <2>1, <2>2
<1>6. Abstract!StartRunning(a.next)
  BY <1>1, <1>4 DEF StartRunning, Abstract!StartRunning
<1>7. Abstract!Dispatch
  BY <1>1, <1>4, <1>5, <1>6 DEF Dispatch, Abstract!Dispatch
<1> QED
  BY <1>7 DEF Abstract!Next

(* A policy that answers None holds no ready task.                         *)
LEMMA StayIdleContract ==
  ASSUME IInv, StayIdle
  PROVE  Abstract!Next
<1>1. PICK o \in PickNext(sched, remaining_cpu, Class) : o.next = None /\ sched' = o.sched
  BY DEF StayIdle
<1>2. IsFiniteSet(Task) /\ None \notin Task /\ SchedulerOK(sched, Task)
  BY TaskFacts DEF IInv, TypeOK
<1>3. ReadyTasks(sched) = {} /\ ReadyTasks(sched') = {}
  BY <1>1, <1>2, PickContract, ReadyLenContract
<1>4. PICK a : /\ a \in Abstract!PickNext(ContractView, remaining_cpu, Abstract!Class)
              /\ a.next = None /\ a.sched = ContractView'
  <2> DEFINE a == [next |-> None, sched |-> ContractView]
  <2>1. a \in Abstract!PickNext(ContractView, remaining_cpu, Abstract!Class)
    BY <1>3, SeenOfPolicy, ContractAnswers
  <2>2. a.next = None /\ a.sched = ContractView'
    BY <1>3, SeenOfPolicy
  <2> QED
    BY <2>1, <2>2
<1>5. Abstract!StayIdle
  BY <1>4 DEF StayIdle, Abstract!StayIdle, taskVars, cpuVars, Abstract!taskVars,
     Abstract!cpuVars
<1> QED
  BY <1>5 DEF Abstract!Next

(* Whatever a policy says to a tick, the contract may say.                 *)
LEMMA TickStepContract ==
  ASSUME IInv, Tick
  PROVE  Abstract!Next
<1>1. PICK o \in OnTick(sched, Class, running, now) : action' = o.action /\ sched' = o.sched
  BY DEF Tick
<1>2. /\ running \in Task /\ now \in Nat /\ SchedulerOK(sched, Task)
      /\ Class \in [Task -> {"CpuBound", "IoBound", "Interactive"}]
  BY TaskFacts DEF Tick, IInv, TypeOK, Classes
<1>3. ReadyTasks(sched') = ReadyTasks(sched) /\ action' \in {"Continue", "Preempt"}
  BY <1>1, <1>2, TickContract
<1>4. PICK a : /\ a \in Abstract!OnTick(ContractView, Abstract!Class, running, now)
              /\ a.action = action' /\ a.sched = ContractView'
  <2> DEFINE a == [action |-> action', sched |-> ContractView]
  <2>1. a \in Abstract!OnTick(ContractView, Abstract!Class, running, now)
    BY <1>3, SeenOfPolicy, ContractAnswers
  <2>2. a.action = action' /\ a.sched = ContractView'
    BY <1>3, SeenOfPolicy
  <2> QED
    BY <2>1, <2>2
<1>5. Abstract!Tick
  BY <1>4 DEF Tick, Abstract!Tick, Monus, Abstract!Monus, cpuVars, Abstract!cpuVars
<1> QED
  BY <1>5 DEF Abstract!Next

(* The tick is settled: the task is done, blocked or ready again.          *)
LEMMA SettleContract ==
  ASSUME IInv, Finish \/ Block \/ Preempt
  PROVE  Abstract!Next
<1>1. /\ running \in Task /\ state[running] = "Running" /\ SchedulerOK(sched, Task)
      /\ IsFiniteSet(Task)
  BY TaskFacts DEF Finish, Block, Preempt, IInv, TypeOK, SettleHasTask, SingleRunner, Running
<1>2. running \notin ReadyTasks(sched)
  BY <1>1 DEF IInv, ReadyAgree, Ready
<1> USE DEF IoDue, Abstract!IoDue, ts_next, Abstract!ts_next, TaskAt, Abstract!TaskAt
<1>3. CASE Finish
  <2>1. SchedulerOK(sched', Task) /\ sched' = sched /\ ContractView' = ContractView
    BY <1>1, <1>3 DEF Finish, ContractView
  <2>2. Abstract!SwitchContext(None, now + 1, Abstract!ReadyLen(ContractView))
    <3>1. Abstract!ReadyLen(ContractView) = ReadyLen(sched)
      BY <1>1, <2>1, SameLength
    <3> QED
      BY <1>3, <3>1, SameSwitch DEF Finish
  <2>3. Abstract!Finish
    BY <1>3, <2>1, <2>2 DEF Finish, Abstract!Finish
  <2> QED
    BY <2>3 DEF Abstract!Next
<1>4. CASE Block
  <2>1. SchedulerOK(sched', Task) /\ ReadyTasks(sched') = ReadyTasks(sched)
    BY <1>1, <1>4, BlockContract DEF Block
  <2>2. ContractView' = Abstract!OnBlock(ContractView, running)
    BY <2>1, SeenOfPolicy, ContractOperations
  <2>3. Abstract!SwitchContext(None, now + 1, Abstract!ReadyLen(ContractView'))
    BY <1>1, <1>4, <2>1, SameLength, SameSwitch DEF Block
  <2>4. Abstract!Block
    BY <1>4, <2>2, <2>3 DEF Block, Abstract!Block
  <2> QED
    BY <2>4 DEF Abstract!Next
<1>5. CASE Preempt
  <2>1. SchedulerOK(sched', Task) /\ ReadyTasks(sched') = ReadyTasks(sched) \cup {running}
    BY <1>1, <1>2, <1>5, EnqueueContract DEF Preempt
  <2>2. ContractView' = Abstract!Enqueue(ContractView, running)
    BY <2>1, SeenOfPolicy, ContractOperations
  <2>3. Abstract!SwitchContext(None, now + 1, Abstract!ReadyLen(ContractView'))
    BY <1>1, <1>5, <2>1, SameLength, SameSwitch DEF Preempt
  <2>4. Abstract!Preempt
    BY <1>5, <2>2, <2>3 DEF Preempt, Abstract!Preempt, MakeReady, Abstract!MakeReady
  <2> QED
    BY <2>4 DEF Abstract!Next
<1> QED
  BY <1>3, <1>4, <1>5

-----------------------------------------------------------------------------
(* Every policy of the suite, in the loop, keeps the contract of trait     *)
(* Scheduler: whatever holds of the loop under the contract alone holds    *)
(* under each of them.                                                     *)
THEOREM Refinement == Spec => ImplementsContract
<1>1. Init => Abstract!Init
  BY InitContract
<1>2. IInv /\ [Next]_vars => [Abstract!Next]_(Abstract!vars)
  <2>1. ASSUME UNCHANGED vars PROVE UNCHANGED Abstract!vars
    BY <2>1 DEF vars, taskVars, cpuVars, Abstract!vars, Abstract!taskVars, Abstract!cpuVars,
       ContractView
  <2> QED
    BY <2>1, LoopStep, ReadyStep, DispatchContract, StayIdleContract, TickStepContract,
       SettleContract DEF Next
<1> QED
  BY <1>1, <1>2, Invariance, PTL DEF Spec, ImplementsContract, Abstract!Spec

-----------------------------------------------------------------------------
(* What a step of the loop writes to its logs.                             *)
SwitchIn(t) ==
  /\ step = "pick" /\ step' = "account" /\ now' = now
  /\ running = None /\ running' = t /\ run_start' = now
  /\ \E n \in Nat :
       events' = Append(events, [ts |-> now, from |-> None, to |-> t, ready_len |-> n,
                                 run_fragment |-> 0])
  /\ interactive_latencies' =
       IF IsInteractive(t) THEN Append(interactive_latencies, now - ready_since[t])
                           ELSE interactive_latencies

SwitchOut ==
  /\ step = "settle" /\ step' = "end" /\ now' = now
  /\ running \in Task /\ running' = None /\ run_start' = now + 1
  /\ \E n \in Nat :
       events' = Append(events, [ts |-> now + 1, from |-> running, to |-> None,
                                 ready_len |-> n, run_fragment |-> Monus(now + 1, run_start)])
  /\ interactive_latencies' = interactive_latencies

NoSwitch == UNCHANGED cpuVars

LEMMA DispatchSwitch ==
  ASSUME IInv, SinceKnown, Dispatch
  PROVE  WaitEnds(running') /\ SwitchIn(running')
<1>1. PICK o \in PickNext(sched, remaining_cpu, Class) :
        /\ o.next # None /\ sched' = o.sched
        /\ SwitchContext(o.next, now, ReadyLen(o.sched))
  BY DEF Dispatch
<1>2. WaitEnds(running')
  BY DispatchWaits
<1>3. running = None /\ running' = o.next /\ run_start' = now
  BY <1>1 DEF Dispatch, SwitchContext
<1> DEFINE t == o.next
<1>4. /\ t \in Task /\ Ready(t) /\ step = "pick" /\ step' = "account" /\ now' = now
      /\ ready_since[t] \in Nat /\ ready_since[t] <= now /\ ready_since[t] # None
  BY <1>2, <1>3, NoneAssumption DEF WaitEnds, SinceKnown, Until, Dispatch
<1>5. Monus(now, ready_since[t]) = now - ready_since[t]
  BY <1>4 DEF Monus, IInv, TypeOK
<1>6. ReadyLen(sched') \in Nat
  <2>1. SchedulerOK(sched', Task)
    BY <1>1, PickContract DEF IInv, TypeOK
  <2> QED
    BY <2>1, TaskFacts, ReadyLenContract DEF IInv
<1>7. /\ events' = Append(events, [ts |-> now, from |-> None, to |-> t,
                                   ready_len |-> ReadyLen(sched'), run_fragment |-> 0])
      /\ interactive_latencies' =
           IF IsInteractive(t) THEN Append(interactive_latencies, now - ready_since[t])
                               ELSE interactive_latencies
  BY <1>1, <1>3, <1>4, <1>5 DEF SwitchContext, RunFragment
<1> QED
  BY <1>2, <1>3, <1>4, <1>6, <1>7 DEF SwitchIn

LEMMA LeaveSwitch ==
  ASSUME IInv, Finish \/ Block \/ Preempt
  PROVE  SwitchOut
<1>1. PICK n : SwitchContext(None, now + 1, n) /\ n \in {ReadyLen(sched), ReadyLen(sched')}
  BY DEF Finish, Block, Preempt, ts_next
<1>2. /\ step = "settle" /\ step' = "end" /\ now' = now /\ running \in Task
      /\ running # None
  BY DEF Finish, Block, Preempt, IInv, TypeOK, SettleHasTask
<1>3. SchedulerOK(sched, Task) /\ SchedulerOK(sched', Task) /\ IsFiniteSet(Task)
  <2>1. SchedulerOK(sched', Task') /\ workload' = workload
    BY FinishStep, BlockStep, PreemptStep DEF IInv, TypeOK, Finish, Block, Preempt
  <2> QED
    BY <2>1, SameTasks, TaskFacts DEF IInv, TypeOK
<1>4. n \in Nat
  BY <1>1, <1>3, ReadyLenContract
<1> QED
  BY <1>1, <1>2, <1>4 DEF SwitchContext, SwitchOut, RunFragment

LEMMA OtherSwitch ==
  ASSUME \/ \E t \in Task : Wake(t) \/ Arrive(t)
         \/ WakesDone \/ ArrivalsDone \/ KeepRunning \/ StayIdle \/ Account \/ NoTask
         \/ Tick \/ Continue \/ NextTick \/ Break \/ Terminated \/ UNCHANGED vars
  PROVE  NoSwitch
BY DEF NoSwitch, Wake, Arrive, WakesDone, ArrivalsDone, KeepRunning, StayIdle, Account,
   NoTask, Tick, Continue, NextTick, Break, Terminated, vars

-----------------------------------------------------------------------------
(* The wait of a ready task that is booked as waiting_time already.        *)
ReadyUntil == IF step \in {"tick", "settle", "end"} THEN now + 1 ELSE now

Pending == [t \in Task |-> IF Ready(t) THEN BookedUntil(t) - ready_since[t] ELSE 0]

LEMMA PendingFacts ==
  ASSUME IInv, SinceKnown
  PROVE  /\ \A t \in Task : Pending[t] = IF Ready(t) THEN ReadyUntil - ready_since[t] ELSE 0
         /\ \A t \in Task : Pending[t] \in Int
<1>1. ASSUME NEW t \in Task
      PROVE  Pending[t] = IF Ready(t) THEN ReadyUntil - ready_since[t] ELSE 0
  <2>1. Ready(t) => BookedUntil(t) = ReadyUntil
    BY DEF BookedUntil, Done, Blocked, Ready, Running, ReadyUntil
  <2> QED
    BY <2>1 DEF Pending
<1>2. now \in Nat /\ ReadyUntil \in Nat
  BY DEF IInv, TypeOK, ReadyUntil
<1> QED
  BY <1>1, <1>2 DEF SinceKnown

(* Besides the accounting and a dispatch no step changes a summand.        *)
LEMMA PendingStays ==
  ASSUME IInv, SinceKnown, [Next]_vars, ~Account, ~Dispatch
  PROVE  /\ workload' = workload /\ Task' = Task
         /\ UNCHANGED <<waiting_time, starvation_marked, starvation_count,
                        interactive_latencies>>
         /\ \A t \in Task : Pending'[t] = Pending[t]
<1>1. IInv' /\ SinceKnown' /\ Task' = Task
  BY NextIInv, NextSince, NextWaits
<1>2. UNCHANGED <<workload, waiting_time, starvation_marked, starvation_count>>
  BY DEF Next, Wake, Arrive, WakesDone, ArrivalsDone, KeepRunning, StayIdle, NoTask, Tick,
     Finish, Block, Preempt, Continue, NextTick, Break, Terminated, vars, taskVars
<1>3. interactive_latencies' = interactive_latencies
  BY OtherSwitch, LeaveSwitch DEF Next, NoSwitch, SwitchOut, cpuVars
<1>4. ReadyUntil' = ReadyUntil
  <2>1. CASE \E t \in Task : Wake(t) \/ Arrive(t)
    BY <2>1 DEF Wake, Arrive, ReadyUntil
  <2>2. CASE WakesDone \/ ArrivalsDone \/ KeepRunning \/ StayIdle \/ Terminated \/ UNCHANGED vars
    BY <2>2 DEF WakesDone, ArrivalsDone, KeepRunning, StayIdle, Terminated, vars, ReadyUntil
  <2>3. CASE NoTask \/ Tick \/ Finish \/ Block \/ Preempt \/ Continue
    BY <2>3 DEF NoTask, Tick, Finish, Block, Preempt, Continue, ReadyUntil
  <2>4. CASE NextTick \/ Break
    BY <2>4 DEF NextTick, Break, ReadyUntil
  <2> QED
    BY <2>1, <2>2, <2>3, <2>4 DEF Next
<1>5. /\ \A t \in Task : Pending[t] = IF Ready(t) THEN ReadyUntil - ready_since[t] ELSE 0
      /\ \A t \in Task : Pending'[t] = IF Ready(t)' THEN ReadyUntil - ready_since'[t] ELSE 0
  <2>1. ASSUME NEW t \in Task
        PROVE  Pending'[t] = IF Ready(t)' THEN ReadyUntil - ready_since'[t] ELSE 0
    <3>1. Ready(t)' => BookedUntil(t)' = ReadyUntil'
      BY DEF BookedUntil, Done, Blocked, Ready, Running, ReadyUntil
    <3> QED
      BY <1>1, <1>4, <3>1 DEF Pending
  <2> QED
    BY <2>1, PendingFacts
<1>6. ASSUME NEW t \in Task, Wake(t) \/ Arrive(t) \/ (Preempt /\ t = running)
      PROVE  \A u \in Task : Pending'[u] = Pending[u]
  <2>1. WaitBegins(t)
    BY <1>6, WakeWaits, PreemptWaits
  <2>2. step \in {"wake", "arrive", "settle"}
    BY <1>6 DEF Wake, Arrive, Preempt
  <2>3. Until = ReadyUntil /\ ReadyUntil \in Nat
    BY <2>2 DEF Until, ReadyUntil, IInv, TypeOK
  <2>4. /\ state \in [Task -> {"New", "Ready", "Running", "Blocked", "Done"}]
        /\ ready_since \in [Task -> Nat \cup {None}]
    BY DEF IInv, TypeOK
  <2> QED
    BY <1>5, <2>1, <2>3, <2>4 DEF WaitBegins, Ready
<1>7. CASE WaitsOn
  BY <1>1, <1>2, <1>3, <1>5, <1>7 DEF WaitsOn, Ready
<1>8. CASE Preempt
  <2>1. running \in Task
    BY <1>8, LeaveSwitch DEF SwitchOut
  <2> QED
    BY <1>1, <1>2, <1>3, <1>6, <1>8, <2>1
<1>9. WaitsOn \/ Preempt \/ \E t \in Task : Wake(t) \/ Arrive(t)
  BY MoveWaits DEF Next
<1> QED
  BY <1>1, <1>2, <1>3, <1>6, <1>7, <1>8, <1>9

(* Step 4 adds a tick to the wait of every ready task.                     *)
LEMMA PendingGrows ==
  ASSUME IInv, SinceKnown, Account, NEW t \in Task
  PROVE  /\ Ready(t) => /\ ready_since[t] \in Nat /\ ready_since[t] <= now
                        /\ Pending[t] = now - ready_since[t]
                        /\ Pending'[t] = Pending[t] + 1
         /\ ~Ready(t) => Pending[t] = 0 /\ Pending'[t] = 0
<1>1. /\ state' = state /\ ready_since' = ready_since /\ now' = now /\ now \in Nat
      /\ step = "account" /\ step' = "tick" /\ Task' = Task
  BY SameTasks DEF Account, IInv, TypeOK
<1>2. /\ Pending[t] = IF Ready(t) THEN now - ready_since[t] ELSE 0
      /\ Ready(t) => ready_since[t] \in Nat /\ ready_since[t] <= now
  BY <1>1, PendingFacts DEF ReadyUntil, SinceKnown, Until
<1>3. Pending'[t] = IF Ready(t) THEN (now + 1) - ready_since[t] ELSE 0
  <2>1. Ready(t)' => BookedUntil(t)' = now + 1
    BY <1>1 DEF BookedUntil, Done, Blocked, Ready, Running
  <2>2. Pending'[t] = IF Ready(t)' THEN BookedUntil(t)' - ready_since'[t] ELSE 0
    BY <1>1 DEF Pending
  <2>3. Ready(t)' <=> Ready(t)
    BY <1>1 DEF Ready
  <2> QED
    BY <1>1, <2>1, <2>2, <2>3
<1> QED
  BY <1>1, <1>2, <1>3

(* Step 3 ends the wait of the task it dispatches.                         *)
LEMMA PendingEnds ==
  ASSUME IInv, SinceKnown, Dispatch
  PROVE  /\ WaitEnds(running') /\ SwitchIn(running') /\ Task' = Task
         /\ Pending[running'] = now - ready_since[running']
         /\ \A u \in Task : /\ Pending[u] \in Int
                            /\ Pending'[u] = IF u = running' THEN 0 ELSE Pending[u]
<1> DEFINE t == running'
<1>1. WaitEnds(t) /\ SwitchIn(t) /\ Task' = Task
  BY DispatchSwitch, SameTasks DEF Dispatch
<1>2. Pending[t] = now - ready_since[t]
  BY <1>1, PendingFacts DEF WaitEnds, SwitchIn, ReadyUntil
<1>3. ASSUME NEW u \in Task
      PROVE  Pending[u] \in Int /\ Pending'[u] = IF u = t THEN 0 ELSE Pending[u]
  <2>1. Ready(u)' <=> Ready(u) /\ u # t
    BY <1>1 DEF WaitEnds, Ready, IInv, TypeOK
  <2>2. u # t => ready_since'[u] = ready_since[u]
    BY <1>1 DEF WaitEnds, IInv, TypeOK
  <2>3. Ready(u)' => BookedUntil(u)' = now
    BY <1>1 DEF SwitchIn, BookedUntil, Done, Blocked, Ready, Running
  <2>4. Pending[u] \in Int /\ Pending[u] = IF Ready(u) THEN now - ready_since[u] ELSE 0
    BY <1>1, PendingFacts DEF SwitchIn, ReadyUntil
  <2> QED
    BY <1>1, <2>1, <2>2, <2>3, <2>4 DEF Pending
<1> QED
  BY <1>1, <1>2, <1>3

LEMMA InteractiveFacts ==
  ASSUME IInv
  PROVE  InteractiveTasks \subseteq Task /\ IsFiniteSet(InteractiveTasks)
BY TaskFacts, FS_Subset DEF IInv, InteractiveTasks

LEMMA SameInteractive ==
  ASSUME workload' = workload
  PROVE  InteractiveTasks' = InteractiveTasks
BY SameTasks DEF InteractiveTasks, IsInteractive

LEMMA AccountLatencies ==
  ASSUME IInv, SinceKnown, LatenciesAreWaits, Account
  PROVE  LatenciesAreWaits'
<1> DEFINE I == InteractiveTasks
           bump == [t \in Task |-> IF Ready(t) THEN 1 ELSE 0]
           pending == Pending
           later == Pending'
           waits == waiting_time
<1>1. /\ workload' = workload /\ interactive_latencies' = interactive_latencies
      /\ waits' = [t \in Task |-> IF state[t] = "Ready" THEN waits[t] + 1 ELSE waits[t]]
  BY DEF Account, cpuVars
<1>2. Task' = Task /\ I' = I /\ I \subseteq Task /\ IsFiniteSet(I)
  BY <1>1, SameTasks, SameInteractive, InteractiveFacts
<1>3. \A t \in Task : bump[t] \in Int /\ pending[t] \in Int /\ waits[t] \in Int
  BY PendingFacts DEF IInv, TypeOK
<1>4. ASSUME NEW t \in Task
      PROVE  waits'[t] = waits[t] + bump[t] /\ later[t] = pending[t] + bump[t]
  <2>1. waits'[t] = waits[t] + bump[t]
    BY <1>1, <1>3 DEF Ready
  <2> QED
    BY <1>3, <2>1, PendingGrows
<1>5. /\ SumFunctionOnSet(pending, I) \in Int /\ SumFunctionOnSet(waits, I) \in Int
      /\ SumFunctionOnSet(bump, I) \in Int
  <2> HIDE DEF I, bump, pending, waits
  <2> QED
    BY <1>2, <1>3, SumType
<1>6. SumFunctionOnSet(later, I) = SumFunctionOnSet(pending, I) + SumFunctionOnSet(bump, I)
  <2> HIDE DEF I, bump, pending, later
  <2> QED
    BY <1>2, <1>3, <1>4, SumOfSums
<1>7. SumFunctionOnSet(waits', I) = SumFunctionOnSet(waits, I) + SumFunctionOnSet(bump, I)
  <2> DEFINE more == waits'
  <2>1. \A t \in Task : more[t] = waits[t] + bump[t]
    BY <1>4
  <2> HIDE DEF I, bump, waits, more
  <2>2. SumFunctionOnSet(more, I) = SumFunctionOnSet(waits, I) + SumFunctionOnSet(bump, I)
    BY <1>2, <1>3, <2>1, SumOfSums
  <2> QED
    BY <2>2 DEF more
<1>8. SumFunction(interactive_latencies) \in Int
  <2>1. interactive_latencies \in Seq(Int)
    BY DEF IInv, TypeOK
  <2> QED
    BY <2>1, SeqSumType
<1>9. LatenciesAreWaits <=>
        SumFunction(interactive_latencies) + SumFunctionOnSet(pending, I)
          = SumFunctionOnSet(waits, I)
  BY DEF LatenciesAreWaits, Pending
<1>10. LatenciesAreWaits' <=>
        SumFunction(interactive_latencies) + SumFunctionOnSet(later, I)
          = SumFunctionOnSet(waits', I)
  BY <1>1, <1>2 DEF LatenciesAreWaits, Pending
<1> HIDE DEF I, bump, pending, later
<1> QED
  BY <1>5, <1>6, <1>7, <1>8, <1>9, <1>10

(* A dispatch turns the pending wait of an interactive task into a sample. *)
LEMMA DispatchLatencies ==
  ASSUME IInv, SinceKnown, LatenciesAreWaits, Dispatch
  PROVE  LatenciesAreWaits'
<1> DEFINE I == InteractiveTasks
           t == running'
           pending == Pending
           later == Pending'
           samples == interactive_latencies
           wait == now - ready_since[t]
<1>1. WaitEnds(t) /\ SwitchIn(t) /\ waiting_time' = waiting_time /\ workload' = workload
  BY PendingEnds DEF Dispatch
<1>2. /\ Task' = Task /\ I' = I /\ I \subseteq Task /\ IsFiniteSet(I)
      /\ t \in I <=> IsInteractive(t)
  BY <1>1, SameTasks, SameInteractive, InteractiveFacts DEF InteractiveTasks, WaitEnds
<1>3. /\ t \in Task /\ pending[t] = wait /\ wait \in Int
  BY <1>1, PendingEnds DEF WaitEnds
<1>4. \A u \in Task : pending[u] \in Int /\ later[u] = IF u = t THEN 0 ELSE pending[u]
  BY PendingEnds
<1>5. SumFunctionOnSet(pending, I) \in Int
  <2> HIDE DEF I, pending
  <2> QED
    BY <1>2, <1>4, SumType
<1>6. samples \in Seq(Int) /\ SumFunction(samples) \in Int
  <2>1. samples \in Seq(Int)
    BY DEF IInv, TypeOK
  <2> QED
    BY <2>1, SeqSumType
<1>7. /\ LatenciesAreWaits <=>
           SumFunction(samples) + SumFunctionOnSet(pending, I)
             = SumFunctionOnSet(waiting_time, I)
      /\ LatenciesAreWaits' <=>
           SumFunction(samples') + SumFunctionOnSet(later, I)
             = SumFunctionOnSet(waiting_time, I)
  BY <1>1, <1>2 DEF LatenciesAreWaits, Pending
<1>8. CASE IsInteractive(t)
  <2>1. samples' = Append(samples, wait)
    BY <1>1, <1>8 DEF SwitchIn
  <2>2. SumFunction(samples') = SumFunction(samples) + wait
    <3> HIDE DEF wait
    <3> QED
      BY <1>3, <1>6, <2>1, SumAppend
  <2>3. SumFunctionOnSet(later, I) = SumFunctionOnSet(pending, I) + (later[t] - pending[t])
    <3> DEFINE x == t
    <3>1. x \in I /\ \A u \in I : pending[u] \in Int /\ later[u] \in Int
      BY <1>2, <1>4, <1>8
    <3>2. \A u \in I : u # x => later[u] = pending[u]
      BY <1>2, <1>4
    <3> HIDE DEF I, pending, later, x
    <3>3. SumFunctionOnSet(later, I) = SumFunctionOnSet(pending, I) + (later[x] - pending[x])
      BY <1>2, <3>1, <3>2, SumChange
    <3> QED
      BY <3>3 DEF x
  <2>4. later[t] - pending[t] = 0 - wait
    BY <1>3, <1>4
  <2> HIDE DEF I, pending, later, wait, t
  <2> QED
    BY <1>3, <1>5, <1>6, <1>7, <2>2, <2>3, <2>4
<1>9. CASE ~IsInteractive(t)
  <2>1. samples' = samples
    BY <1>1, <1>9 DEF SwitchIn
  <2>2. \A u \in I : later[u] = pending[u]
    BY <1>2, <1>4, <1>9
  <2>3. SumFunctionOnSet(later, I) = SumFunctionOnSet(pending, I)
    <3> HIDE DEF I, pending, later
    <3> QED
      BY <1>2, <2>2, SumSame
  <2> HIDE DEF I, pending, later
  <2> QED
    BY <1>7, <2>1, <2>3
<1> QED
  BY <1>8, <1>9

LEMMA NextLatencies ==
  ASSUME IInv, SinceKnown, LatenciesAreWaits, [Next]_vars
  PROVE  LatenciesAreWaits'
<1>1. CASE ~Account /\ ~Dispatch
  <2> DEFINE I == InteractiveTasks
             pending == Pending
             later == Pending'
  <2>1. /\ workload' = workload /\ Task' = Task /\ waiting_time' = waiting_time
        /\ interactive_latencies' = interactive_latencies
        /\ \A t \in Task : later[t] = pending[t]
    BY <1>1, PendingStays
  <2>3. I' = I /\ I \subseteq Task /\ IsFiniteSet(I)
    BY <2>1, SameInteractive, InteractiveFacts
  <2>4. SumFunctionOnSet(later, I) = SumFunctionOnSet(pending, I)
    <3> HIDE DEF I, pending, later
    <3> QED
      BY <2>1, <2>3, SumSame
  <2> QED
    BY <2>1, <2>3, <2>4 DEF LatenciesAreWaits, Pending
<1> QED
  BY <1>1, AccountLatencies, DispatchLatencies

(* The samples and the waits in progress are all the waiting there was.    *)
THEOREM LatenciesTold == Spec => []LatenciesAreWaits
<1>1. Init => LatenciesAreWaits
  <2> SUFFICES ASSUME Init
               PROVE  LatenciesAreWaits
    OBVIOUS
  <2> DEFINE I == InteractiveTasks
             pending == Pending
             waits == waiting_time
  <2>1. IInv /\ I \subseteq Task /\ IsFiniteSet(I) /\ interactive_latencies = << >>
    BY InitIInv, InteractiveFacts DEF Init
  <2>2. \A t \in I : pending[t] = waits[t]
    BY <2>1 DEF Init, Pending, Ready
  <2>3. SumFunctionOnSet(pending, I) = SumFunctionOnSet(waits, I)
    <3> HIDE DEF I, pending, waits
    <3> QED
      BY <2>1, <2>2, SumSame
  <2>4. SumFunctionOnSet(waits, I) \in Int
    <3>1. \A t \in I : waits[t] \in Int
      BY <2>1 DEF IInv, TypeOK
    <3> HIDE DEF I, waits
    <3> QED
      BY <2>1, <3>1, SumType
  <2>5. SumFunction(<< >>) = 0
    <3>1. DOMAIN << >> = {}
      OBVIOUS
    <3> QED
      BY <3>1, SumEmpty DEF SumFunction
  <2> QED
    BY <2>1, <2>3, <2>4, <2>5 DEF LatenciesAreWaits, Pending
<1>2. IInv /\ SinceKnown /\ LatenciesAreWaits /\ [Next]_vars => LatenciesAreWaits'
  BY NextLatencies
<1> QED
  BY <1>1, <1>2, Invariance, WaitsKnown, PTL DEF Spec

-----------------------------------------------------------------------------
(* The starvation count.  A task is marked if and only if the wait booked  *)
(* for it is longer than threshold + 1: so is then the sample it leaves.   *)
Threshold == workload.starvation_threshold

Marks == \A t \in Task : starvation_marked[t] <=> Pending[t] > Threshold + 1

Above(s, n) == {i \in DOMAIN s : s[i] > n}

Marked == {t \in InteractiveTasks : starvation_marked[t]}

Counted == Cardinality(Above(interactive_latencies, Threshold + 1)) + Cardinality(Marked)

Counts ==
  /\ starvation_count >= Counted
  /\ InteractiveTasks = Task => starvation_count = Counted

LEMMA AboveAppend ==
  ASSUME NEW s \in Seq(Int), NEW n \in Int, NEW k \in Int
  PROVE  /\ IsFiniteSet(Above(s, k))
         /\ Cardinality(Above(Append(s, n), k))
              = Cardinality(Above(s, k)) + (IF n > k THEN 1 ELSE 0)
<1> DEFINE l == Len(s) + 1
           a == Above(s, k)
           b == Above(Append(s, n), k)
<1>1. Append(s, n) \in Seq(Int) /\ Len(Append(s, n)) = l /\ Len(s) \in Nat
  OBVIOUS
<1>2. /\ DOMAIN s = 1 .. Len(s) /\ DOMAIN Append(s, n) = 1 .. Len(s) + 1
      /\ Append(s, n)[l] = n /\ \A i \in 1 .. Len(s) : Append(s, n)[i] = s[i]
  BY <1>1
<1>3. IsFiniteSet(a) /\ l \notin a
  <2>1. a \subseteq 1 .. Len(s) /\ l \notin 1 .. Len(s) /\ IsFiniteSet(1 .. Len(s))
    BY <1>1, <1>2, FS_Interval DEF Above
  <2> HIDE DEF a
  <2> QED
    BY <2>1, FS_Subset
<1>4. b = IF n > k THEN a \cup {l} ELSE a
  BY <1>1, <1>2 DEF Above
<1>5. Cardinality(a \cup {l}) = Cardinality(a) + 1 /\ Cardinality(a) \in Nat
  <2> HIDE DEF a, l
  <2> QED
    BY <1>3, FS_AddElement, FS_CardinalityType
<1> QED
  BY <1>3, <1>4, <1>5

LEMMA CountFacts ==
  ASSUME IInv
  PROVE  /\ Threshold \in Nat /\ starvation_count \in Nat
         /\ interactive_latencies \in Seq(Int)
         /\ IsFiniteSet(Marked) /\ Cardinality(Marked) \in Nat
         /\ Cardinality(Above(interactive_latencies, Threshold + 1)) \in Nat
         /\ Counted \in Nat
<1>1. Threshold \in Nat /\ starvation_count \in Nat /\ interactive_latencies \in Seq(Int)
  BY DEF IInv, TypeOK, WorkloadOK, Threshold
<1>2. IsFiniteSet(Marked) /\ Cardinality(Marked) \in Nat
  BY InteractiveFacts, FS_Subset, FS_CardinalityType DEF Marked
<1>3. Cardinality(Above(interactive_latencies, Threshold + 1)) \in Nat
  BY <1>1, AboveAppend, FS_CardinalityType
<1> QED
  BY <1>1, <1>2, <1>3 DEF Counted

LEMMA NextMarks ==
  ASSUME IInv, SinceKnown, Marks, [Next]_vars
  PROVE  Marks'
<1>1. workload' = workload /\ Task' = Task /\ Threshold' = Threshold /\ Threshold \in Nat
  <2>1. workload' = workload
    BY PendingStays DEF Account, Dispatch
  <2> QED
    BY <2>1, SameTasks, CountFacts DEF Threshold
<1> SUFFICES ASSUME NEW t \in Task
             PROVE  starvation_marked'[t] <=> Pending'[t] > Threshold + 1
  BY <1>1 DEF Marks
<1>2. starvation_marked[t] <=> Pending[t] > Threshold + 1
  BY DEF Marks
<1>3. CASE ~Account /\ ~Dispatch
  BY <1>2, <1>3, PendingStays
<1>4. CASE Account
  <2>1. starvation_marked'[t] <=> starvation_marked[t] \/ Starving(t)
    BY <1>4 DEF Account
  <2>2. CASE ~Ready(t)
    BY <1>1, <1>2, <1>4, <2>1, <2>2, PendingGrows DEF Starving, Ready
  <2>3. CASE Ready(t)
    <3>1. /\ ready_since[t] \in Nat /\ ready_since[t] <= now /\ now \in Nat
          /\ Pending[t] = now - ready_since[t] /\ Pending'[t] = Pending[t] + 1
      BY <1>4, <2>3, PendingGrows DEF IInv, TypeOK
    <3>2. Starving(t) <=> now - ready_since[t] > Threshold /\ ~starvation_marked[t]
      BY <2>3, <3>1, NoneAssumption DEF Starving, Monus, Ready, Threshold
    <3> QED
      BY <1>1, <1>2, <2>1, <3>1, <3>2
  <2> QED
    BY <2>2, <2>3
<1>5. CASE Dispatch
  <2>1. starvation_marked'[t] <=> starvation_marked[t] /\ t # running'
    <3>1. PICK o \in PickNext(sched, remaining_cpu, Class) :
            SwitchContext(o.next, now, ReadyLen(o.sched)) /\ StartRunning(o.next)
              /\ o.next # None
      BY <1>5 DEF Dispatch
    <3>2. running' = o.next
      BY <1>5, <3>1 DEF SwitchContext, Dispatch
    <3> QED
      BY <3>1, <3>2 DEF StartRunning, IInv, TypeOK
  <2>2. Pending'[t] = IF t = running' THEN 0 ELSE Pending[t]
    BY <1>5, PendingEnds
  <2> QED
    BY <1>1, <1>2, <2>1, <2>2
<1> QED
  BY <1>3, <1>4, <1>5

LEMMA NextCounts ==
  ASSUME IInv, SinceKnown, Marks, Counts, [Next]_vars
  PROVE  Counts'
<1>1. /\ workload' = workload /\ Task' = Task /\ Threshold' = Threshold
      /\ InteractiveTasks' = InteractiveTasks
  <2>1. workload' = workload
    BY PendingStays DEF Account, Dispatch
  <2> QED
    BY <2>1, SameTasks, SameInteractive DEF Threshold
<1> DEFINE I == InteractiveTasks
           samples == interactive_latencies
           k == Threshold + 1
           long == Cardinality(Above(samples, k))
           later == Cardinality(Above(samples', k))
           marks == Cardinality(Marked)
           M == Marked'
<1>2. /\ k \in Int /\ starvation_count \in Nat /\ long \in Nat /\ marks \in Nat
      /\ IsFiniteSet(Marked) /\ samples \in Seq(Int) /\ I \subseteq Task
      /\ IsFiniteSet(Task)
  BY CountFacts, InteractiveFacts, TaskFacts DEF IInv
<1>3. /\ starvation_count >= long + marks
      /\ I = Task => starvation_count = long + marks
  BY DEF Counts, Counted
<1>4. Counted' = later + Cardinality(M) /\ M = {t \in I : starvation_marked'[t]}
  BY <1>1 DEF Counted, Marked
<1> SUFFICES /\ starvation_count' >= later + Cardinality(M)
             /\ I = Task => starvation_count' = later + Cardinality(M)
  BY <1>1, <1>4 DEF Counts
<1>5. CASE ~Account /\ ~Dispatch
  <2>1. UNCHANGED <<starvation_marked, starvation_count, interactive_latencies>>
    BY <1>5, PendingStays
  <2>2. M = Marked
    BY <1>4, <2>1 DEF Marked
  <2> QED
    BY <1>3, <2>1, <2>2
<1>6. CASE Account
  <2> DEFINE new == {t \in Task : Starving(t)}
             newI == {t \in I : Starving(t)}
  <2>1. /\ samples' = samples /\ starvation_count' = starvation_count + Cardinality(new)
        /\ \A t \in Task : starvation_marked'[t] <=> starvation_marked[t] \/ Starving(t)
    BY <1>6 DEF Account, cpuVars
  <2>2. M = Marked \cup newI /\ Marked \cap newI = {}
    BY <1>2, <1>4, <2>1 DEF Marked, Starving
  <2>3. newI \subseteq new /\ IsFiniteSet(new) /\ (I = Task => newI = new)
    BY <1>2, FS_Subset
  <2> HIDE DEF new, newI, I, M
  <2>4. IsFiniteSet(newI) /\ Cardinality(newI) <= Cardinality(new)
        /\ Cardinality(newI) \in Nat /\ Cardinality(new) \in Nat
    <3>1. newI \in SUBSET new /\ IsFiniteSet(new)
      BY <2>3
    <3>2. IsFiniteSet(newI) /\ Cardinality(newI) <= Cardinality(new)
      BY <3>1, FS_Subset
    <3> QED
      BY <3>1, <3>2, FS_CardinalityType
  <2>5. Cardinality(M) = marks + Cardinality(newI)
    <3>1. Cardinality(Marked \cap newI) = 0
      BY <2>2, FS_EmptySet
    <3>2. Cardinality(Marked \cup newI)
            = Cardinality(Marked) + Cardinality(newI) - Cardinality(Marked \cap newI)
      BY <1>2, <2>4, FS_Union
    <3> QED
      BY <1>2, <2>2, <2>4, <3>1, <3>2
  <2>6. later = long
    BY <2>1
  <2> HIDE DEF long, marks, later
  <2>7. starvation_count' >= later + Cardinality(M)
    BY <1>2, <1>3, <2>1, <2>4, <2>5, <2>6
  <2>8. I = Task => starvation_count' = later + Cardinality(M)
    BY <1>2, <1>3, <2>1, <2>3, <2>4, <2>5, <2>6
  <2> QED
    BY <2>7, <2>8
<1>7. CASE Dispatch
  <2> DEFINE t == running'
             wait == now - ready_since[t]
  <2>1. /\ t \in Task /\ SwitchIn(t) /\ wait \in Int /\ Pending[t] = wait
        /\ starvation_count' = starvation_count
    BY <1>7, PendingEnds DEF WaitEnds, Dispatch
  <2>2. starvation_marked[t] <=> wait > k
    BY <2>1 DEF Marks
  <2>3. \A u \in Task : starvation_marked'[u] <=> starvation_marked[u] /\ u # t
    <3>1. PICK o \in PickNext(sched, remaining_cpu, Class) :
            SwitchContext(o.next, now, ReadyLen(o.sched)) /\ StartRunning(o.next)
              /\ o.next # None
      BY <1>7 DEF Dispatch
    <3>2. running' = o.next
      BY <1>7, <3>1 DEF SwitchContext, Dispatch
    <3> QED
      BY <3>1, <3>2 DEF StartRunning, IInv, TypeOK
  <2>4. M = Marked \ {t}
    BY <1>2, <1>4, <2>3 DEF Marked
  <2>5. CASE IsInteractive(t)
    <3>1. samples' = Append(samples, wait)
      BY <2>1, <2>5 DEF SwitchIn
    <3>2. later = long + (IF wait > k THEN 1 ELSE 0)
      <4> HIDE DEF wait, k
      <4> QED
        BY <1>2, <2>1, <3>1, AboveAppend
    <3>3. t \in Marked <=> wait > k
      BY <2>1, <2>2, <2>5 DEF Marked, InteractiveTasks
    <3>4. Cardinality(M) = marks - (IF wait > k THEN 1 ELSE 0)
      <4>1. Cardinality(Marked \ {t})
              = IF t \in Marked THEN Cardinality(Marked) - 1 ELSE Cardinality(Marked)
        BY <1>2, FS_RemoveElement
      <4> HIDE DEF t, wait, k, M
      <4> QED
        BY <1>2, <2>4, <3>3, <4>1
    <3> DEFINE bit == IF wait > k THEN 1 ELSE 0
    <3>5. bit \in Nat
      OBVIOUS
    <3> HIDE DEF bit, M, long, marks, later, I
    <3>6. later + Cardinality(M) = long + marks
      BY <1>2, <3>2, <3>4, <3>5 DEF bit
    <3> QED
      BY <1>3, <2>1, <3>6
  <2>6. CASE ~IsInteractive(t)
    <3>1. samples' = samples /\ M = Marked
      BY <2>1, <2>4, <2>6 DEF SwitchIn, Marked, InteractiveTasks
    <3> QED
      BY <1>3, <2>1, <3>1
  <2> QED
    BY <2>5, <2>6
<1> QED
  BY <1>5, <1>6, <1>7

(* Every wait is counted as starvation once, while it is on, and no other. *)
THEOREM StarvationCounted == Spec => []StarvationCountExact
<1>1. Init => Marks /\ Counts
  <2> SUFFICES ASSUME Init
               PROVE  Marks /\ Counts
    OBVIOUS
  <2>1. /\ IInv /\ Threshold \in Nat /\ interactive_latencies = << >>
        /\ starvation_count = 0 /\ \A t \in Task : ~starvation_marked[t] /\ ~Ready(t)
    BY InitIInv, CountFacts DEF Init, Ready
  <2>2. Marks
    BY <2>1 DEF Marks, Pending
  <2>3. Marked = {} /\ Above(interactive_latencies, Threshold + 1) = {}
    BY <2>1, InteractiveFacts DEF Marked, Above
  <2>4. Counted = 0
    BY <2>3, FS_EmptySet DEF Counted
  <2> QED
    BY <2>1, <2>2, <2>4 DEF Counts
<1>2. IInv /\ SinceKnown /\ Marks /\ Counts /\ [Next]_vars => Marks' /\ Counts'
  BY NextMarks, NextCounts
<1>3. IInv /\ SinceKnown /\ Marks /\ Counts => StarvationCountExact
  <2> SUFFICES ASSUME IInv, SinceKnown, Marks, Counts
               PROVE  StarvationCountExact
    OBVIOUS
  <2>1. Counted = Cardinality({i \in DOMAIN interactive_latencies :
                                 interactive_latencies[i] > Threshold + 1})
                    + Cardinality({t \in InteractiveTasks : starvation_marked[t]})
    BY DEF Counted, Above, Marked
  <2>2. ASSUME NEW t \in Task
        PROVE  /\ starvation_marked[t] => Ready(t) /\ now - ready_since[t] > Threshold
               /\ step \in {"tick", "settle", "end"} /\ Ready(t)
                    /\ now - ready_since[t] > Threshold => starvation_marked[t]
    <3>1. starvation_marked[t] <=> Pending[t] > Threshold + 1
      BY DEF Marks
    <3>2. Pending[t] = IF Ready(t) THEN ReadyUntil - ready_since[t] ELSE 0
      BY PendingFacts
    <3>3. Threshold \in Nat /\ now \in Nat /\ (Ready(t) => ready_since[t] \in Nat)
      BY CountFacts DEF IInv, TypeOK, SinceKnown
    <3>4. CASE step \in {"tick", "settle", "end"}
      BY <3>1, <3>2, <3>3, <3>4 DEF ReadyUntil
    <3>5. CASE step \notin {"tick", "settle", "end"}
      BY <3>1, <3>2, <3>3, <3>5 DEF ReadyUntil
    <3> QED
      BY <3>4, <3>5
  <2> QED
    BY <2>1, <2>2 DEF Counts, StarvationCountExact, Threshold
<1> QED
  BY <1>1, <1>2, <1>3, Invariance, WaitsKnown, PTL DEF Spec

-----------------------------------------------------------------------------
(* The CPU time a log of switches shows of a task.                         *)
Logged(log, t) ==
  SumFunctionOnSet([i \in DOMAIN log |-> log[i].run_fragment],
                   {i \in DOMAIN log : log[i].from = t})

Follows(prev, e) ==
  /\ e.from = prev.to
  /\ (e.from = None) # (e.to = None)
  /\ e.run_fragment = IF e.from = None THEN 0 ELSE e.ts - prev.ts
  /\ e.from = None /\ e.ts > prev.ts => prev.ready_len = 0

Chain(log) == \A i \in 2 .. Len(log) : Follows(log[i - 1], log[i])

LastSwitch ==
  IF events = << >> THEN running = None
  ELSE Last(events).to = running /\ Last(events).ts = run_start

RunLogged == \A t \in Task : CpuTicks(t) = Logged(events, t) + CurrentRun(t)

(* Behind a switch that saw ready tasks no time passes, and there still is *)
(* one, until the next is dispatched.                                      *)
GapSeen ==
  running = None /\ events # << >> /\ Last(events).ready_len # 0 =>
    run_start = Until /\ \E t \in Task : Ready(t)

LogInv ==
  run_start <= Until /\ LastSwitch /\ GapSeen /\ Chain(events) /\ RunLogged

LogEntry == [ts : Nat, from : Task \cup {None}, to : Task \cup {None},
             ready_len : Nat, run_fragment : Nat]

LEMMA LogFacts ==
  ASSUME IInv
  PROVE  /\ events \in Seq(LogEntry)
         /\ run_start \in Nat /\ now \in Nat /\ Until \in Nat
         /\ running \in Task \cup {None} /\ None \notin Task
BY TaskFacts, UntilType DEF IInv, TypeOK, LogEntry

LEMMA LastAppend ==
  ASSUME NEW S, NEW log \in Seq(S), NEW e \in S
  PROVE  /\ Append(log, e) \in Seq(S) /\ Append(log, e) # << >>
         /\ Len(Append(log, e)) = Len(log) + 1 /\ Last(Append(log, e)) = e
         /\ \A i \in 1 .. Len(log) : Append(log, e)[i] = log[i]
BY AppendProperties, LenProperties DEF Last

LEMMA LoggedAppend ==
  ASSUME NEW log \in Seq(LogEntry), NEW e \in LogEntry, NEW t
  PROVE  /\ Logged(log, t) \in Int
         /\ Logged(Append(log, e), t)
              = Logged(log, t) + (IF e.from = t THEN e.run_fragment ELSE 0)
<1> DEFINE d == 1 .. Len(log)
           l == Len(log) + 1
           a == Append(log, e)
           f == [i \in DOMAIN log |-> log[i].run_fragment]
           g == [i \in DOMAIN a |-> a[i].run_fragment]
           F == {i \in DOMAIN log : log[i].from = t}
           G == {i \in DOMAIN a : a[i].from = t}
<1>1. /\ DOMAIN log = d /\ DOMAIN a = d \cup {l} /\ l \notin d /\ a[l] = e
      /\ \A i \in d : a[i] = log[i] /\ log[i] \in LogEntry
      /\ Len(log) \in Nat
  BY LenProperties, AppendProperties
<1>2. IsFiniteSet(d)
  BY <1>1, FS_Interval
<1>3. \A i \in d : log[i].run_fragment \in Int /\ e.run_fragment \in Int
  BY <1>1 DEF LogEntry
<1> HIDE DEF d, l, a
<1>4. /\ F \subseteq d /\ l \notin F /\ \A i \in F : f[i] \in Int /\ g[i] = f[i]
      /\ g[l] = e.run_fragment
      /\ G = IF e.from = t THEN F \cup {l} ELSE F
  BY <1>1, <1>3
<1>5. IsFiniteSet(F) /\ e.run_fragment \in Int
  BY <1>2, <1>4, FS_Subset DEF LogEntry
<1> HIDE DEF f, g, F, G
<1>6. SumFunctionOnSet(f, F) \in Int /\ SumFunctionOnSet(g, F) = SumFunctionOnSet(f, F)
  BY <1>4, <1>5, SumType, SumSame
<1>7. SumFunctionOnSet(g, F \cup {l}) = g[l] + SumFunctionOnSet(g, F)
  <2>1. \A i \in F \cup {l} : g[i] \in Int
    BY <1>4, <1>5
  <2> QED
    BY <1>4, <1>5, <2>1, SumAdd
<1>8. /\ Logged(log, t) = SumFunctionOnSet(f, F)
      /\ Logged(Append(log, e), t) = SumFunctionOnSet(g, G)
  BY DEF Logged, f, g, F, G, a
<1> QED
  BY <1>4, <1>5, <1>6, <1>7, <1>8

LEMMA EmptyLogged ==
  /\ \A t : Logged(<< >>, t) = 0
  /\ \A t : \A log \in Seq(LogEntry) : Logged(log, t) \in Int
<1>1. ASSUME NEW t PROVE Logged(<< >>, t) = 0
  <2>1. {i \in DOMAIN << >> : << >>[i].from = t} = {}
    OBVIOUS
  <2> QED
    BY <2>1, SumEmpty DEF Logged
<1>2. ASSUME NEW log \in Seq(LogEntry), NEW t PROVE Logged(log, t) \in Int
  <2> DEFINE f == [i \in DOMAIN log |-> log[i].run_fragment]
             F == {i \in DOMAIN log : log[i].from = t}
  <2>1. /\ DOMAIN log = 1 .. Len(log) /\ Len(log) \in Nat
        /\ \A i \in DOMAIN log : log[i] \in LogEntry
    BY LenProperties
  <2>2. \A i \in F : f[i] \in Int
    BY <2>1 DEF LogEntry
  <2>3. IsFiniteSet(F)
    <3>1. F \subseteq DOMAIN log /\ IsFiniteSet(DOMAIN log)
      BY <2>1, FS_Interval
    <3> HIDE DEF F
    <3> QED
      BY <3>1, FS_Subset
  <2>4. SumFunctionOnSet(f, F) \in Int
    <3> HIDE DEF f, F
    <3> QED
      BY <2>2, <2>3, SumType
  <2> QED
    BY <2>4 DEF Logged
<1> QED
  BY <1>1, <1>2

LEMMA ChainAppend ==
  ASSUME NEW S, NEW log \in Seq(S), NEW e \in S, Chain(log),
         log # << >> => Follows(Last(log), e)
  PROVE  Chain(Append(log, e))
<1> DEFINE a == Append(log, e)
<1> SUFFICES ASSUME NEW i \in 2 .. Len(a) PROVE Follows(a[i - 1], a[i])
  BY DEF Chain
<1>1. /\ Len(a) = Len(log) + 1 /\ Len(log) \in Nat /\ a[Len(log) + 1] = e
      /\ \A j \in 1 .. Len(log) : a[j] = log[j]
  BY LenProperties, AppendProperties
<1>2. CASE i = Len(a)
  <2>1. i - 1 = Len(log) /\ Len(log) \in 1 .. Len(log) /\ log # << >>
    BY <1>1, <1>2, EmptySeq
  <2>2. a[i - 1] = Last(log) /\ a[i] = e
    BY <1>1, <1>2, <2>1 DEF Last
  <2> QED
    BY <2>1, <2>2
<1>3. CASE i # Len(a)
  <2>1. i \in 2 .. Len(log) /\ i - 1 \in 1 .. Len(log) /\ i \in 1 .. Len(log)
    BY <1>1, <1>3
  <2>2. a[i - 1] = log[i - 1] /\ a[i] = log[i]
    BY <1>1, <2>1
  <2>3. Follows(log[i - 1], log[i])
    BY <2>1 DEF Chain
  <2> QED
    BY <2>2, <2>3
<1> QED
  BY <1>2, <1>3

-----------------------------------------------------------------------------
(* While a task runs, the time the books are kept to is CPU time it used.  *)
LEMMA RunBooked ==
  ASSUME IInv, Books, [Next]_vars, NEW t \in Task
  PROVE  /\ CpuTicks(t) \in Int
         /\ CpuTicks(t)' = CpuTicks(t) + (IF running = t THEN Until' - Until ELSE 0)
<1>1. /\ TypeOK /\ Progress(t) /\ (Running(t) <=> running = t) /\ t # None
      /\ now \in Nat /\ remaining_cpu[t] \in Nat
      /\ state \in [Task -> {"New", "Ready", "Running", "Blocked", "Done"}]
      /\ TaskAt(t).total_cpu \in Nat
  BY SpecFacts, TaskFacts DEF IInv, TypeOK, Books, SingleRunner
<1>2. workload' = workload /\ Task' = Task /\ TaskAt(t)' = TaskAt(t)
  <2>1. workload' = workload
    BY DEF Next, Wake, Arrive, WakesDone, ArrivalsDone, KeepRunning, Dispatch, StayIdle,
       Account, NoTask, Tick, Finish, Block, Preempt, Continue, NextTick, Break,
       Terminated, vars
  <2> QED
    BY <2>1, SameTasks
<1>3. CpuTicks(t) \in Int
  BY <1>1 DEF CpuTicks
<1> SUFFICES CpuTicks(t)' = CpuTicks(t) + (IF running = t THEN Until' - Until ELSE 0)
  BY <1>3
<1>4. CASE \E x \in Task : Wake(x) \/ Arrive(x)
  <2>1. PICK x \in Task : Wake(x) \/ Arrive(x)
    BY <1>4
  <2>2. /\ remaining_cpu' = remaining_cpu /\ Until' = now /\ Until = now
        /\ state' = [state EXCEPT ![x] = "Ready"] /\ state[x] \in {"New", "Blocked"}
        /\ step # "settle" /\ step' = step
    BY <2>1 DEF Wake, Arrive, MakeReady, IsFirst, WakeList, ArrivalList, Until
  <2>3. Done(t)' <=> Done(t)
    BY <1>1, <2>2 DEF Done
  <2> QED
    BY <1>1, <1>2, <1>3, <2>2, <2>3 DEF CpuTicks
<1>5. CASE \/ WakesDone \/ ArrivalsDone \/ KeepRunning \/ StayIdle \/ Account \/ NoTask
           \/ NextTick \/ Break \/ Terminated \/ UNCHANGED vars
  <2>1. UNCHANGED <<state, remaining_cpu, running>>
    BY <1>5 DEF WakesDone, ArrivalsDone, KeepRunning, StayIdle, Account, NoTask,
       NextTick, Break, Terminated, vars, taskVars, cpuVars
  <2>2. \/ step # "settle" /\ step' # "settle" 
        \/ step' = step
    BY <1>5 DEF WakesDone, ArrivalsDone, KeepRunning, StayIdle, Account, NoTask,
       NextTick, Break, Terminated, vars
  <2>3. CpuTicks(t)' = CpuTicks(t)
    BY <1>2, <2>1, <2>2 DEF CpuTicks, Done, Running
  <2>4. CASE NoTask
    BY <1>1, <1>3, <2>3, <2>4 DEF NoTask
  <2>5. CASE ~NoTask
    <3>1. Until' = Until
      BY <1>5, <2>5 DEF WakesDone, ArrivalsDone, KeepRunning, StayIdle, Account,
         NextTick, Break, Terminated, vars, Until
    <3> QED
      BY <1>1, <1>3, <2>3, <3>1, UntilType
  <2> QED
    BY <2>4, <2>5
<1>6. CASE Dispatch
  <2>1. WaitEnds(running') /\ remaining_cpu' = remaining_cpu
        /\ step # "settle" /\ step' # "settle"
    BY <1>6, DispatchWaits DEF Dispatch
  <2>2. Done(t)' <=> Done(t)
    BY <1>1, <2>1 DEF WaitEnds, Ready, Done
  <2> QED
    BY <1>1, <1>2, <1>3, <2>1, <2>2 DEF CpuTicks, WaitEnds
<1>7. CASE Tick
  <2>1. /\ state' = state /\ step = "tick" /\ step' = "settle" /\ now' = now
        /\ remaining_cpu' = [remaining_cpu EXCEPT ![running] = Monus(@, 1)]
    BY <1>7 DEF Tick
  <2>2. Until' = now + 1 /\ Until = now
    BY <2>1 DEF Until
  <2>3. CASE running # t
    <3>1. remaining_cpu'[t] = remaining_cpu[t] /\ ~Running(t) /\ ~Running(t)'
      BY <1>1, <2>1, <2>3 DEF Running, TypeOK
    <3>2. CpuTicks(t)' = CpuTicks(t)
      BY <1>2, <2>1, <3>1 DEF CpuTicks, Done
    <3> QED
      BY <1>3, <2>3, <3>2
  <2>4. CASE running = t
    <3>1. /\ state[t] = "Running"
          /\ remaining_cpu'[t] = IF remaining_cpu[t] > 0 THEN remaining_cpu[t] - 1 ELSE 0
      BY <1>1, <2>1, <2>4 DEF Running, TypeOK, Monus
    <3>2. CpuTicks(t)' = CpuTicks(t) + 1
      BY <1>1, <1>2, <2>1, <3>1 DEF CpuTicks, Done, Running, Progress, InSettle
    <3> QED
      BY <1>1, <1>3, <2>2, <2>4, <3>2
  <2> QED
    BY <2>3, <2>4
<1>8. CASE Finish \/ Block \/ Preempt \/ Continue
  <2>1. /\ step = "settle" /\ step' = "end" /\ Until' = now + 1 /\ Until = now + 1
        /\ remaining_cpu' = remaining_cpu
        /\ running \in Task /\ state[running] = "Running"
    BY <1>8 DEF Finish, Block, Preempt, Continue, taskVars, Until, IInv, TypeOK, SettleHasTask,
       SingleRunner, Running
  <2>2. CASE running # t
    <3>1. state'[t] = state[t]
      BY <1>1, <1>8, <2>1, <2>2 DEF Finish, Block, Preempt, Continue, taskVars, MakeReady
    <3>2. CpuTicks(t)' = CpuTicks(t)
      BY <1>1, <1>2, <2>1, <2>2, <3>1 DEF CpuTicks, Done, Running
    <3> QED
      BY <1>3, <2>2, <3>2
  <2>3. CASE running = t
    <3>1. CASE Finish
      <4>1. state'[t] = "Done"
        BY <1>1, <2>3, <3>1 DEF Finish
      <4> QED
        BY <1>1, <1>2, <1>3, <2>1, <2>3, <4>1 DEF CpuTicks, Done, Running
    <3>2. CASE Block \/ Preempt \/ Continue
      <4>1. remaining_cpu[t] # 0
        BY <2>3, <3>2 DEF Block, Preempt, Continue
      <4>2. TaskAt(t).total_cpu > 0
        BY <1>1, <4>1 DEF Progress
      <4> QED
        BY <1>1, <1>2, <1>3, <2>1, <4>2 DEF CpuTicks
    <3> QED
      BY <1>8, <3>1, <3>2
  <2> QED
    BY <2>2, <2>3
<1> QED
  BY <1>4, <1>5, <1>6, <1>7, <1>8 DEF Next

-----------------------------------------------------------------------------
(* A step that switches no task.                                           *)
LEMMA StayLog ==
  ASSUME IInv, Books, LogInv, [Next]_vars, ~Dispatch, ~Finish, ~Block, ~Preempt
  PROVE  LogInv'
<1>1. /\ UNCHANGED <<running, run_start, events, interactive_latencies>>
      /\ Task' = Task
  BY OtherSwitch, NextWaits DEF Next, NoSwitch, cpuVars
<1>2. /\ Until' \in {Until, Until + 1}
      /\ \A t \in Task : Ready(t) => Ready(t)'
  <2>1. CASE WaitsOn
    BY <2>1 DEF WaitsOn, Ready
  <2>2. CASE \E x \in Task : WaitBegins(x)
    BY <2>2 DEF WaitBegins, Ready, IInv, TypeOK
  <2>3. WaitsOn \/ \E x \in Task : WaitBegins(x)
    BY MoveWaits, WakeWaits DEF Next
  <2> QED
    BY <2>1, <2>2, <2>3
<1>3. run_start' <= Until' /\ LastSwitch' /\ Chain(events')
  BY <1>1, <1>2, LogFacts DEF LogInv, LastSwitch
<1>4. RunLogged'
  <2> SUFFICES ASSUME NEW t \in Task
               PROVE  CpuTicks(t)' = Logged(events, t)' + CurrentRun(t)'
    BY <1>1 DEF RunLogged
  <2>1. CpuTicks(t) = Logged(events, t) + CurrentRun(t)
    BY DEF LogInv, RunLogged
  <2>2. CurrentRun(t) = IF running # t THEN 0 ELSE Until - run_start
    BY DEF CurrentRun, Until
  <2>3. CurrentRun(t)' = IF running # t THEN 0 ELSE Until' - run_start
    BY <1>1 DEF CurrentRun, Until
  <2>4. Logged(events, t)' = Logged(events, t)
    BY <1>1 DEF Logged
  <2>5. /\ CpuTicks(t) \in Int
        /\ CpuTicks(t)' = CpuTicks(t) + (IF running = t THEN Until' - Until ELSE 0)
    BY RunBooked
  <2>6. Logged(events, t) \in Int
    BY <2>1, LogFacts, EmptyLogged
  <2>7. Until \in Int /\ Until' \in Int /\ run_start \in Int
    BY <1>2, LogFacts
  <2> QED
    BY <2>1, <2>2, <2>3, <2>4, <2>5, <2>6, <2>7
<1>5. GapSeen'
  <2> SUFFICES ASSUME running' = None, events' # << >>, Last(events').ready_len # 0
               PROVE  run_start' = Until' /\ \E t \in Task' : Ready(t)'
    BY DEF GapSeen
  <2>1. run_start = Until /\ \E t \in Task : Ready(t)
    BY <1>1 DEF LogInv, GapSeen
  <2>2. Until' = Until
    <3>1. ~NoTask
      BY <2>1 DEF NoTask, IInv, IdleJustified
    <3>2. ~Tick /\ ~Continue
      BY <1>1, LogFacts DEF Tick, Continue, IInv, SettleHasTask
    <3>3. CASE \E x \in Task : Wake(x) \/ Arrive(x)
      BY <3>3 DEF Wake, Arrive, Until
    <3>4. CASE \/ WakesDone \/ ArrivalsDone \/ KeepRunning \/ StayIdle \/ Account
               \/ NextTick \/ Break \/ Terminated \/ UNCHANGED vars
      BY <3>4 DEF WakesDone, ArrivalsDone, KeepRunning, StayIdle, Account, NextTick, Break,
         Terminated, vars, Until
    <3> QED
      BY <3>1, <3>2, <3>3, <3>4 DEF Next
  <2> QED
    BY <1>1, <1>2, <2>1, <2>2
<1> QED
  BY <1>3, <1>4, <1>5 DEF LogInv

(* A task is given the CPU: no time has passed since it was last given up, *)
(* unless the queues were empty then.                                      *)
LEMMA SwitchInLog ==
  ASSUME IInv, Books, SinceKnown, LogInv, Dispatch
  PROVE  LogInv'
<1> DEFINE x == running'
<1>1. WaitEnds(x) /\ SwitchIn(x)
  BY DispatchSwitch
<1>2. PICK n \in Nat :
        events' = Append(events, [ts |-> now, from |-> None, to |-> x, ready_len |-> n,
                                  run_fragment |-> 0])
  BY <1>1 DEF SwitchIn
<1> DEFINE e == [ts |-> now, from |-> None, to |-> x, ready_len |-> n, run_fragment |-> 0]
<1>3. /\ e \in LogEntry /\ events \in Seq(LogEntry) /\ x \in Task /\ x # None
      /\ Until = now /\ Until' = now /\ now \in Nat /\ run_start' = now
      /\ running = None /\ Task' = Task
  BY <1>1, LogFacts, SameTasks DEF LogEntry, WaitEnds, SwitchIn, Until, Dispatch
<1>4. e.ts = now /\ e.from = None /\ e.to = x /\ e.ready_len = n /\ e.run_fragment = 0
  OBVIOUS
<1> HIDE DEF e
<1>5. events' = Append(events, e)
  BY <1>2 DEF e
<1>6. events' # << >> /\ Last(events') = e
  BY <1>3, <1>5, LastAppend
<1>7. Chain(events')
  <2> SUFFICES ASSUME events # << >> PROVE Follows(Last(events), e)
    BY <1>3, <1>5, ChainAppend DEF LogInv
  <2>1. Last(events).to = None /\ Last(events).ts = run_start
    BY <1>3 DEF LogInv, LastSwitch
  <2>2. e.ts > run_start => Last(events).ready_len = 0
    BY <1>3, <1>4, LogFacts DEF LogInv, GapSeen
  <2> QED
    BY <1>3, <1>4, <2>1, <2>2 DEF Follows
<1>8. RunLogged'
  <2> SUFFICES ASSUME NEW t \in Task
               PROVE  CpuTicks(t)' = Logged(events', t) + CurrentRun(t)'
    BY <1>3 DEF RunLogged, Logged
  <2>1. CpuTicks(t) = Logged(events, t) + CurrentRun(t)
    BY DEF LogInv, RunLogged
  <2>2. t # None
    BY LogFacts
  <2>3. CurrentRun(t) = 0 /\ CurrentRun(t)' = 0
    <3>1. CurrentRun(t) = 0
      BY <1>3, <2>2 DEF CurrentRun
    <3>2. CurrentRun(t)' = IF x # t THEN 0 ELSE Until' - run_start'
      BY DEF CurrentRun, Until
    <3> QED
      BY <1>3, <3>1, <3>2
  <2>4. Logged(events', t) = Logged(events, t) /\ Logged(events, t) \in Int
    BY <1>3, <1>4, <1>5, <2>2, LoggedAppend
  <2>5. CpuTicks(t)' = CpuTicks(t) /\ CpuTicks(t) \in Int
    <3>1. [Next]_vars
      BY DEF Next
    <3> QED
      BY <1>3, <2>2, <3>1, RunBooked
  <2> QED
    BY <2>1, <2>3, <2>4, <2>5
<1>9. run_start' <= Until' /\ LastSwitch' /\ GapSeen'
  BY <1>3, <1>4, <1>6 DEF LastSwitch, GapSeen
<1> QED
  BY <1>7, <1>8, <1>9 DEF LogInv

(* The running task gives the CPU up: its run since run_start is logged,   *)
(* and the number of the ready tasks that are left behind.                 *)
LEMMA SwitchOutLog ==
  ASSUME IInv, IInv', Books, LogInv, Finish \/ Block \/ Preempt
  PROVE  LogInv'
<1>1. SwitchOut
  BY LeaveSwitch
<1>2. [Next]_vars /\ workload' = workload
  BY DEF Next, Finish, Block, Preempt
<1>3. PICK n \in Nat :
        events' = Append(events, [ts |-> now + 1, from |-> running, to |-> None,
                                  ready_len |-> n, run_fragment |-> Monus(now + 1, run_start)])
  BY <1>1 DEF SwitchOut
<1> DEFINE run == Monus(now + 1, run_start)
           e == [ts |-> now + 1, from |-> running, to |-> None, ready_len |-> n,
                 run_fragment |-> run]
<1>4. /\ Until = now + 1 /\ Until' = now + 1 /\ run_start' = now + 1 /\ now \in Nat
      /\ running \in Task /\ running # None /\ running' = None /\ Task' = Task
      /\ run_start \in Nat /\ run_start <= now + 1
  BY <1>1, <1>2, LogFacts, SameTasks DEF SwitchOut, Until, LogInv
<1>5. run = (now + 1) - run_start /\ run \in Nat
  BY <1>4 DEF Monus
<1> HIDE DEF run
<1>6. e \in LogEntry /\ events \in Seq(LogEntry)
  BY <1>4, <1>5, LogFacts DEF LogEntry
<1>7. /\ e.ts = now + 1 /\ e.from = running /\ e.to = None /\ e.ready_len = n
      /\ e.run_fragment = run
  OBVIOUS
<1> HIDE DEF e
<1>8. events' = Append(events, e)
  BY <1>3 DEF e, run
<1>9. events' # << >> /\ Last(events') = e /\ events' # events
  BY <1>6, <1>8, LastAppend
<1>10. Chain(events')
  <2> SUFFICES ASSUME events # << >> PROVE Follows(Last(events), e)
    BY <1>6, <1>8, ChainAppend DEF LogInv
  <2>1. Last(events).to = running /\ Last(events).ts = run_start
    BY DEF LogInv, LastSwitch
  <2> QED
    BY <1>4, <1>5, <1>7, <2>1 DEF Follows
<1>11. RunLogged'
  <2> SUFFICES ASSUME NEW t \in Task
               PROVE  CpuTicks(t)' = Logged(events', t) + CurrentRun(t)'
    BY <1>4 DEF RunLogged, Logged
  <2>1. CpuTicks(t) = Logged(events, t) + CurrentRun(t)
    BY DEF LogInv, RunLogged
  <2>2. CurrentRun(t) = (IF running = t THEN run ELSE 0) /\ CurrentRun(t)' = 0
    <3>1. CurrentRun(t) = IF running # t THEN 0 ELSE Until - run_start
      BY DEF CurrentRun, Until
    <3>2. CurrentRun(t)' = 0
      BY <1>4, LogFacts DEF CurrentRun
    <3> QED
      BY <1>4, <1>5, <3>1, <3>2
  <2>3. /\ Logged(events', t) = Logged(events, t) + (IF running = t THEN run ELSE 0)
        /\ Logged(events, t) \in Int
    BY <1>6, <1>7, <1>8, LoggedAppend
  <2>4. CpuTicks(t)' = CpuTicks(t) /\ CpuTicks(t) \in Int
    BY <1>2, <1>4, RunBooked
  <2> QED
    BY <1>5, <2>1, <2>2, <2>3, <2>4
<1>12. run_start' <= Until' /\ LastSwitch'
  BY <1>4, <1>7, <1>9 DEF LastSwitch
<1>13. GapSeen'
  <2> DEFINE R == {t \in Task : state'[t] = "Ready"}
  <2>1. e.ready_len = Cardinality(R)
    BY <1>2, <1>9, LoggedLen
  <2>2. R = {} => e.ready_len = 0
    BY <2>1, FS_EmptySet
  <2> QED
    BY <1>4, <1>9, <2>2 DEF GapSeen, Ready
<1> QED
  BY <1>10, <1>11, <1>12, <1>13 DEF LogInv

(* The invariant of the log holds in every reachable state.                *)
THEOREM LogKept == Spec => []LogInv
<1>1. Init => LogInv
  <2> SUFFICES ASSUME Init
               PROVE  LogInv
    OBVIOUS
  <2>1. /\ IInv /\ events = << >> /\ running = None /\ run_start = 0 /\ step = "wake"
        /\ \A t \in Task : state[t] = "New" /\ remaining_cpu[t] = TaskAt(t).total_cpu
    BY InitIInv DEF Init
  <2>2. RunLogged
    <3> SUFFICES ASSUME NEW t \in Task
                 PROVE  CpuTicks(t) = Logged(events, t) + CurrentRun(t)
      BY DEF RunLogged
    <3>1. CpuTicks(t) = 0
      BY <2>1, SpecFacts DEF CpuTicks, Done, Running, IInv
    <3>2. Logged(events, t) = 0
      BY <2>1, EmptyLogged
    <3>3. CurrentRun(t) = 0
      BY <2>1, LogFacts DEF CurrentRun
    <3> QED
      BY <3>1, <3>2, <3>3
  <2> QED
    BY <2>1, <2>2, LogFacts DEF LogInv, LastSwitch, GapSeen, Chain
<1>2. IInv /\ IInv' /\ Books /\ SinceKnown /\ LogInv /\ [Next]_vars => LogInv'
  BY StayLog, SwitchInLog, SwitchOutLog
<1> QED
  BY <1>1, <1>2, Invariance, WaitsKnown, BooksKept, PTL DEF Spec

(* The switch log tells the run: who ran when, and for how long.           *)
THEOREM RunTold == Spec => []SwitchLogTellsRun
<1>1. LogInv => SwitchLogTellsRun
  BY DEF LogInv, LastSwitch, Chain, Follows, RunLogged, Logged, SwitchLogTellsRun, FragmentsOf
<1> QED
  BY <1>1, LogKept, PTL

-----------------------------------------------------------------------------
LEMMA MetricsFacts ==
  /\ Metrics.avg_turnaround[1] = SumFunction([t \in Task |-> Turnaround(t)])
  /\ Metrics.avg_waiting[1] = SumFunction(waiting_time)
  /\ Metrics.p95_latency = Percentile(interactive_latencies, 95)
  /\ Metrics.p99_latency = Percentile(interactive_latencies, 99)
  /\ Metrics.makespan = now
  /\ Metrics.context_switches = Len(events)
<1> DEFINE P95 == Percentile(interactive_latencies, 95)
           P99 == Percentile(interactive_latencies, 99)
           completed == AtLeast1(Cardinality(Completed))
<1>1. Metrics =
        [avg_waiting      |-> <<SumFunction(waiting_time), completed>>,
         avg_turnaround   |-> <<SumFunction([t \in Task |-> Turnaround(t)]), completed>>,
         throughput       |-> <<Cardinality(Task), AtLeast1(now)>>,
         p95_latency      |-> P95,
         p99_latency      |-> P99,
         starvation_count |-> starvation_count,
         makespan         |-> now,
         context_switches |-> Len(events)]
  BY DEF Metrics
<1> HIDE DEF P95, P99, completed
<1>2. Metrics.p95_latency = P95 /\ Metrics.p99_latency = P99
  BY <1>1
<1>3. /\ Metrics.avg_turnaround[1] = SumFunction([t \in Task |-> Turnaround(t)])
      /\ Metrics.avg_waiting[1] = SumFunction(waiting_time)
      /\ Metrics.makespan = now
      /\ Metrics.context_switches = Len(events)
  BY <1>1
<1> QED
  BY <1>2, <1>3 DEF P95, P99

(* Every switch in is followed by a switch out.                            *)
Paired == Len(events) % 2 = IF running = None THEN 0 ELSE 1

(* Tasks are done in the past, the last of them when the loop ends.        *)
CompletionsPast ==
  \A t \in Task : Done(t) => completion_time[t] \in Nat /\ completion_time[t] <= Until

EndsWithLast ==
  AllDone /\ Task # {} =>
    /\ step \in {"end", "done"} /\ events # << >> /\ run_start = Until
    /\ \E t \in Task : completion_time[t] = Until

Closing == Paired /\ CompletionsPast /\ EndsWithLast

LEMMA FinishCloses ==
  ASSUME IInv, Closing, Finish
  PROVE  CompletionsPast' /\ EndsWithLast'
<1>1. /\ SwitchOut /\ Until = now + 1 /\ Until' = now + 1 /\ now \in Nat
      /\ completion_time' = [completion_time EXCEPT ![running] = now + 1]
      /\ state' = [state EXCEPT ![running] = "Done"]
      /\ Task' = Task /\ running \in Task /\ step' = "end" /\ run_start' = now + 1
  BY LeaveSwitch, SameTasks, LogFacts DEF Finish, Until, ts_next, SwitchOut
<1>2. completion_time'[running] = now + 1
  BY <1>1 DEF IInv, TypeOK
<1>3. CompletionsPast'
  <2> SUFFICES ASSUME NEW t \in Task, Done(t)'
               PROVE  completion_time'[t] \in Nat /\ completion_time'[t] <= now + 1
    BY <1>1 DEF CompletionsPast
  <2>1. t # running => Done(t) /\ completion_time'[t] = completion_time[t]
    BY <1>1 DEF IInv, TypeOK, Done
  <2> QED
    BY <1>1, <1>2, <2>1 DEF Closing, CompletionsPast
<1>4. events' # << >>
  <2>1. PICK e : events' = Append(events, e)
    BY <1>1 DEF SwitchOut
  <2>2. events \in Seq(LogEntry)
    BY LogFacts
  <2> QED
    BY <2>1, <2>2
<1> QED
  BY <1>1, <1>2, <1>3, <1>4 DEF EndsWithLast

(* No other step completes a task; once all are done the loop only ends.   *)
LEMMA OtherCloses ==
  ASSUME IInv, Closing, [Next]_vars, ~Finish
  PROVE  CompletionsPast' /\ EndsWithLast'
<1>1. completion_time' = completion_time /\ workload' = workload
  BY DEF Next, Wake, Arrive, WakesDone, ArrivalsDone, KeepRunning, Dispatch, StayIdle,
     Account, NoTask, Tick, Block, Preempt, Continue, NextTick, Break, Terminated, vars,
     taskVars
<1>2. Task' = Task
  BY <1>1, SameTasks
<1>3. \/ state' = state
      \/ \E x \in Task, s \in {"Ready", "Running", "Blocked"} : state' = [state EXCEPT ![x] = s]
  <2>1. CASE \E x \in Task : Wake(x) \/ Arrive(x)
    BY <2>1 DEF Wake, Arrive, MakeReady
  <2>2. CASE Dispatch
    BY <2>2, DispatchWaits DEF WaitEnds
  <2>3. CASE Block \/ Preempt
    BY <2>3, LeaveSwitch DEF Block, Preempt, MakeReady, SwitchOut
  <2>4. CASE \/ WakesDone \/ ArrivalsDone \/ KeepRunning \/ StayIdle \/ Account \/ NoTask
             \/ Tick \/ Continue \/ NextTick \/ Break \/ Terminated \/ UNCHANGED vars
    BY <2>4 DEF WakesDone, ArrivalsDone, KeepRunning, StayIdle, Account, NoTask, Tick,
       Continue, NextTick, Break, Terminated, vars, taskVars
  <2> QED
    BY <2>1, <2>2, <2>3, <2>4 DEF Next
<1>4. \A t \in Task : Done(t)' => Done(t)
  BY <1>3 DEF IInv, TypeOK, Done
<1>5. Until' \in {Until, Until + 1} /\ Until \in Nat
  BY NextWaits, UntilType DEF WaitsOn, WaitBegins, WaitEnds
<1>6. CompletionsPast'
  BY <1>1, <1>2, <1>4, <1>5 DEF Closing, CompletionsPast
<1>7. EndsWithLast'
  <2> SUFFICES ASSUME AllDone', Task # {}
               PROVE  /\ step' \in {"end", "done"} /\ events' # << >> /\ run_start' = Until'
                      /\ \E t \in Task : completion_time[t] = Until'
    BY <1>1, <1>2 DEF EndsWithLast
  <2>1. AllDone
    BY <1>2, <1>4 DEF AllDone, Done
  <2>2. step \in {"end", "done"}
    BY <2>1 DEF Closing, EndsWithLast
  <2>3. Break \/ Terminated \/ UNCHANGED vars
    BY <2>1, <2>2 DEF Next, Wake, Arrive, WakesDone, ArrivalsDone, KeepRunning, Dispatch,
       StayIdle, Account, NoTask, Tick, Block, Preempt, Continue, NextTick
  <2>4. /\ step' \in {"end", "done"} /\ UNCHANGED <<events, run_start>> /\ Until' = Until
    BY <2>2, <2>3 DEF Break, Terminated, vars, cpuVars, Until
  <2> QED
    BY <2>1, <2>4 DEF Closing, EndsWithLast
<1> QED
  BY <1>6, <1>7

LEMMA DispatchAppends ==
  ASSUME Dispatch
  PROVE  \E e : events' = Append(events, e)
BY DEF Dispatch, SwitchContext

LEMMA NextCloses ==
  ASSUME IInv, Closing, [Next]_vars
  PROVE  Closing'
<1>1. CompletionsPast' /\ EndsWithLast'
  BY FinishCloses, OtherCloses
<1>2. Len(events) \in Nat /\ \A e : Len(Append(events, e)) = Len(events) + 1
  BY LogFacts
<1>3. Paired'
  <2>1. CASE Dispatch
    <3>1. running = None /\ running' # None /\ \E e : events' = Append(events, e)
      BY <2>1, LogFacts, DispatchWaits, DispatchAppends DEF WaitEnds
    <3> QED
      BY <1>2, <3>1 DEF Closing, Paired
  <2>2. CASE Finish \/ Block \/ Preempt
    <3>1. running # None /\ running' = None /\ \E e : events' = Append(events, e)
      BY <2>2, LogFacts, LeaveSwitch DEF SwitchOut
    <3> QED
      BY <1>2, <3>1 DEF Closing, Paired
  <2>3. CASE ~Dispatch /\ ~Finish /\ ~Block /\ ~Preempt
    <3>1. UNCHANGED <<events, running>>
      BY <2>3, OtherSwitch DEF Next, NoSwitch, cpuVars
    <3> QED
      BY <3>1 DEF Closing, Paired
  <2> QED
    BY <2>1, <2>2, <2>3
<1> QED
  BY <1>1, <1>3 DEF Closing

(* What a task was there for, summed over the tasks.                       *)
LEMMA TurnaroundsBalance ==
  ASSUME IInv, Books, CompletionsPast, AllDone
  PROVE  SumFunction([t \in Task |-> Turnaround(t)])
           = SumFunction(waiting_time)
               + SumFunction([t \in Task |-> CpuTicks(t) + IoCount(t) * TaskAt(t).io_block])
<1> DEFINE h == [t \in Task |-> Turnaround(t)]
           g == [t \in Task |-> CpuTicks(t) + IoCount(t) * TaskAt(t).io_block]
<1>1. IsFiniteSet(Task) /\ DOMAIN waiting_time = Task
  BY TaskFacts DEF IInv, TypeOK
<1>2. ASSUME NEW t \in Task
      PROVE  waiting_time[t] \in Int /\ g[t] \in Int /\ h[t] = waiting_time[t] + g[t]
  <2> DEFINE io == IoCount(t) * TaskAt(t).io_block
  <2>1. /\ waiting_time[t] \in Nat /\ TaskAt(t).arrival \in Nat /\ TaskAt(t).total_cpu \in Nat
        /\ TaskAt(t).io_block \in Nat /\ io \in Int /\ remaining_cpu[t] \in Nat
    BY SpecFacts DEF IInv, TypeOK
  <2>2. completion_time[t] \in Nat /\ completion_time[t] # None /\ Done(t)
    BY NoneAssumption DEF CompletionsPast, AllDone, Done
  <2>3. completion_time[t] = TaskAt(t).arrival + CpuTicks(t) + waiting_time[t] + io
    <3>1. Booked(t) /\ state[t] # "New"
      BY <2>2 DEF Books, Done
    <3>2. BookedUntil(t) = completion_time[t]
      BY <2>2 DEF BookedUntil, Done, Blocked, Ready, Running
    <3> QED
      BY <3>1, <3>2 DEF Booked
  <2>4. CpuTicks(t) \in Nat
    BY <2>1 DEF Books, Progress, CpuTicks
  <2>5. io \in Nat
    <3>1. IoCount(t) \in Nat
      BY DEF Books, Progress, HasIo, IoCount
    <3> QED
      BY <2>1, <3>1
  <2>6. Turnaround(t) = completion_time[t] - TaskAt(t).arrival
    BY <2>1, <2>2, <2>3, <2>4, <2>5 DEF Turnaround, Monus
  <2> HIDE DEF io
  <2>7. Turnaround(t) = waiting_time[t] + (CpuTicks(t) + io)
    BY <2>1, <2>3, <2>4, <2>5, <2>6
  <2> QED
    BY <2>1, <2>4, <2>5, <2>7 DEF io
<1>3. DOMAIN h = Task /\ DOMAIN g = Task
  OBVIOUS
<1> HIDE DEF g, h
<1>4. SumFunctionOnSet(h, Task) = SumFunctionOnSet(waiting_time, Task) + SumFunctionOnSet(g, Task)
  BY <1>1, <1>2, SumOfSums
<1>5. SumFunction(h) = SumFunction(waiting_time) + SumFunction(g)
  BY <1>1, <1>3, <1>4 DEF SumFunction
<1> QED
  BY <1>5 DEF g, h

(* The report of a complete run balances.                                  *)
THEOREM ReportAddsUp == Spec => []ReportBalances
<1>1. Init => Closing
  <2> SUFFICES ASSUME Init
               PROVE  Closing
    OBVIOUS
  <2>1. running = None /\ events = << >> /\ \A t \in Task : state[t] = "New"
    BY DEF Init
  <2>2. Paired
    BY <2>1 DEF Paired
  <2> QED
    BY <2>1, <2>2 DEF Closing, CompletionsPast, EndsWithLast, AllDone, Done
<1>2. IInv /\ Closing /\ [Next]_vars => Closing'
  BY NextCloses
<1>3. IInv /\ Books /\ LogInv /\ Closing => ReportBalances
  <2> SUFFICES ASSUME IInv, Books, LogInv, Closing, step = "done", AllDone
               PROVE  /\ SumFunction([t \in Task |-> Turnaround(t)])
                           = SumFunction(waiting_time)
                               + SumFunction([t \in Task |->
                                                CpuTicks(t) + IoCount(t) * TaskAt(t).io_block])
                      /\ Task # {} => /\ now = Last(events).ts
                                      /\ \E t \in Task : completion_time[t] = now
                                      /\ \A t \in Task : completion_time[t] <= now
                      /\ Len(events) % 2 = 0
    BY MetricsFacts DEF ReportBalances
  <2>1. Until = now
    BY DEF Until
  <2>2. running = None
    BY LogFacts DEF IInv, SingleRunner, Running, AllDone
  <2>3. Len(events) % 2 = 0
    BY <2>2 DEF Closing, Paired
  <2>4. ASSUME Task # {}
        PROVE  /\ now = Last(events).ts
               /\ \E t \in Task : completion_time[t] = now
               /\ \A t \in Task : completion_time[t] <= now
    BY <2>1, <2>4 DEF Closing, EndsWithLast, CompletionsPast, AllDone, Done, LogInv, LastSwitch
  <2>5. CompletionsPast
    BY DEF Closing
  <2> QED
    BY <2>3, <2>4, <2>5, TurnaroundsBalance
<1> QED
  BY <1>1, <1>2, <1>3, LogKept, Invariance, BooksKept, PTL DEF Spec

-----------------------------------------------------------------------------
(* A non-empty set of naturals has a least element.                        *)
LEMMA LeastNat ==
  ASSUME NEW C, C \subseteq Nat, C # {}
  PROVE  \E n \in C : \A m \in C : n <= m
<1> DEFINE R == OpToRel(<, Nat)
<1>1. R = {ss \in Nat \X Nat : ss[1] < ss[2]}
  BY DEF OpToRel
<1>2. IsWellFoundedOn(R, Nat)
  BY NatLessThanWellFounded
<1> HIDE DEF R
<1>3. PICK n \in C : \A m \in C : ~ (<<m, n>> \in R)
  BY <1>2, WFMin
<1>4. ASSUME NEW m \in C PROVE n <= m
  <2>1. m \in Nat /\ n \in Nat
    OBVIOUS
  <2>2. <<m, n>> \notin {ss \in Nat \X Nat : ss[1] < ss[2]}
    BY <1>1, <1>3
  <2>3. ~ (m < n)
    BY <2>1, <2>2
  <2> QED
    BY <2>1, <2>3
<1> QED
  BY <1>4

(* Finitely many samples have an upper bound.                              *)
LEMMA BoundedSamples ==
  ASSUME NEW data \in Seq(Nat)
  PROVE  \E top \in Nat : \A i \in 1 .. Len(data) : data[i] <= top
<1> DEFINE Bounded(n) == \E top \in Nat : \A i \in 1 .. n : data[i] <= top
           C == {n \in Nat : n <= Len(data) /\ ~ Bounded(n)}
<1>1. Len(data) \in Nat /\ \A i \in 1 .. Len(data) : data[i] \in Nat
  BY LenProperties, ElementOfSeq
<1>2. ASSUME C # {} PROVE FALSE
  <2>1. PICK n \in C : \A m \in C : n <= m
    <3>1. C \subseteq Nat
      BY <1>1
    <3> HIDE DEF C
    <3> QED
      BY <1>2, <3>1, LeastNat
  <2>2. n # 0
    <3>1. \A i \in 1 .. 0 : data[i] <= 0
      OBVIOUS
    <3> QED
      BY <3>1
  <2>3. n \in Nat /\ n <= Len(data) /\ n - 1 \in Nat /\ Bounded(n - 1)
    <3>1. n \in Nat /\ n <= Len(data) /\ n - 1 \in Nat /\ n - 1 < n
      BY <2>2
    <3>2. n - 1 \notin C
      <4> HIDE DEF C
      <4> QED
        BY <2>1, <3>1
    <3> HIDE DEF Bounded
    <3> QED
      BY <1>1, <3>1, <3>2
  <2>4. PICK top \in Nat : \A i \in 1 .. n - 1 : data[i] <= top
    BY <2>3
  <2>5. \E top2 \in Nat : \A i \in 1 .. n : data[i] <= top2
    <3> HIDE DEF C, Bounded
    <3>1. data[n] \in Nat
      <4>1. n \in 1 .. Len(data)
        BY <1>1, <2>2, <2>3
      <4> QED
        BY <1>1, <4>1
    <3>2. PICK top2 \in Nat : data[n] <= top2 /\ top <= top2
      <4>1. data[n] <= data[n] + top /\ top <= data[n] + top /\ data[n] + top \in Nat
        BY <2>4, <3>1
      <4> QED
        BY <4>1
    <3>3. ASSUME NEW i \in 1 .. n PROVE data[i] <= top2
      <4>1. CASE i = n
        BY <3>2, <4>1
      <4>2. CASE i # n
        <5>1. i \in 1 .. n - 1 /\ data[i] \in Nat
          BY <1>1, <2>3, <4>2
        <5>2. data[i] <= top
          BY <2>4, <5>1
        <5> QED
          BY <3>2, <5>1, <5>2
      <4> QED
        BY <4>1, <4>2
    <3> QED
      BY <3>3
  <2>6. ~ Bounded(n)
    BY <2>1
  <2> QED
    BY <2>5, <2>6
<1>3. Bounded(Len(data))
  <2>1. Len(data) \notin C
    BY <1>2
  <2> HIDE DEF Bounded
  <2> QED
    BY <1>1, <2>1
<1> QED
  BY <1>3

(* The samples up to v, and those below it.                                *)
UpTo(data, v)  == {i \in DOMAIN data : data[i] <= v}
Below(data, v) == {i \in DOMAIN data : data[i] < v}

LEMMA CountUpTo ==
  ASSUME NEW n \in Nat
  PROVE  IsFiniteSet(1 .. n) /\ Cardinality(1 .. n) = n
<1>1. IsFiniteSet(1 .. n) /\ Cardinality(1 .. n) = IF 1 > n THEN 0 ELSE n - 1 + 1
  BY FS_Interval
<1> QED
  BY <1>1

LEMMA RankFacts ==
  ASSUME NEW data \in Seq(Nat), NEW v \in Nat
  PROVE  /\ IsFiniteSet(UpTo(data, v)) /\ Cardinality(UpTo(data, v)) \in Nat
         /\ Cardinality(UpTo(data, v)) <= Len(data)
         /\ IsFiniteSet(Below(data, v)) /\ Cardinality(Below(data, v)) \in Nat
         /\ \A w \in Nat : v < w => /\ UpTo(data, v) \subseteq Below(data, w)
                                    /\ Cardinality(UpTo(data, v))
                                         <= Cardinality(Below(data, w))
<1> DEFINE d == 1 .. Len(data)
<1>1. /\ DOMAIN data = d /\ Len(data) \in Nat /\ \A i \in d : data[i] \in Nat
  BY LenProperties, ElementOfSeq
<1>2. IsFiniteSet(d) /\ Cardinality(d) = Len(data)
  BY <1>1, CountUpTo
<1> HIDE DEF d
<1>3. \A w \in Nat : UpTo(data, w) \subseteq d /\ Below(data, w) \subseteq d
  BY <1>1 DEF UpTo, Below
<1>4. \A w \in Nat : /\ IsFiniteSet(UpTo(data, w)) /\ Cardinality(UpTo(data, w)) \in Nat
                     /\ Cardinality(UpTo(data, w)) <= Len(data)
  BY <1>1, <1>2, <1>3, FS_Subset, FS_CardinalityType
<1>5. \A w \in Nat : IsFiniteSet(Below(data, w)) /\ Cardinality(Below(data, w)) \in Nat
  BY <1>2, <1>3, FS_Subset, FS_CardinalityType
<1>6. \A w \in Nat : v < w => UpTo(data, v) \subseteq Below(data, w)
  BY <1>1 DEF UpTo, Below
<1>7. \A w \in Nat : v < w =>
        Cardinality(UpTo(data, v)) <= Cardinality(Below(data, w))
  BY <1>5, <1>6, FS_Subset
<1> QED
  BY <1>4, <1>5, <1>6, <1>7

(* Every place of the sorted samples is filled, with a sample of its rank. *)
LEMMA SortedRank ==
  ASSUME NEW data \in Seq(Nat), NEW k \in 1 .. Len(data)
  PROVE  /\ Sorted(data)[k] \in Range(data) /\ Sorted(data)[k] \in Nat
         /\ Cardinality(Below(data, Sorted(data)[k])) < k
         /\ Cardinality(UpTo(data, Sorted(data)[k])) >= k
<1> DEFINE d == 1 .. Len(data)
           R(v) == Cardinality(Below(data, v)) < k /\ Cardinality(UpTo(data, v)) >= k
           C == {v \in Nat : Cardinality(UpTo(data, v)) >= k}
<1>1. /\ DOMAIN data = d /\ Len(data) \in Nat /\ \A i \in d : data[i] \in Nat
  BY LenProperties, ElementOfSeq
<1>2. IsFiniteSet(d) /\ Cardinality(d) = Len(data)
  BY <1>1, CountUpTo
<1>3. PICK top \in Nat : \A i \in d : data[i] <= top
  BY <1>1, BoundedSamples
<1>4. top \in C
  <2>1. UpTo(data, top) = d
    BY <1>1, <1>3 DEF UpTo
  <2> QED
    BY <1>2, <2>1
<1>5. PICK v \in C : \A w \in C : v <= w
  <2>1. C \subseteq Nat
    OBVIOUS
  <2> HIDE DEF C
  <2> QED
    BY <1>4, <2>1, LeastNat
<1>6. v \in Nat /\ Cardinality(UpTo(data, v)) >= k
  OBVIOUS
<1>7. Cardinality(Below(data, v)) < k
  <2>1. CASE v = 0
    <3>1. Below(data, v) = {}
      BY <1>1, <2>1 DEF Below
    <3> QED
      BY <3>1, FS_EmptySet
  <2>2. CASE v # 0
    <3>1. v - 1 \in Nat /\ v - 1 \notin C
      BY <1>5, <1>6, <2>2
    <3>2. Below(data, v) = UpTo(data, v - 1)
      BY <1>1, <1>6, <3>1 DEF Below, UpTo
    <3>3. Cardinality(UpTo(data, v - 1)) \in Nat
      BY <3>1, RankFacts
    <3> QED
      BY <3>1, <3>2, <3>3
  <2> QED
    BY <2>1, <2>2
<1>8. v \in Range(data)
  <2>1. Below(data, v) # UpTo(data, v)
    BY <1>6, <1>7, RankFacts
  <2>2. PICK i \in d : data[i] = v
    BY <1>1, <1>6, <2>1 DEF Below, UpTo
  <2> QED
    BY <1>1, <2>2 DEF Range
<1>9. Sorted(data)[k] = CHOOSE w \in Range(data) : R(w)
  BY <1>1 DEF Sorted, Below, UpTo
<1>10. \E w \in Range(data) : R(w)
  BY <1>6, <1>7, <1>8
<1>11. Sorted(data)[k] \in Range(data) /\ R(Sorted(data)[k])
  <2> HIDE DEF R
  <2> QED
    BY <1>9, <1>10
<1>12. Range(data) \subseteq Nat
  BY <1>1 DEF Range
<1> QED
  BY <1>11, <1>12

(* Sorted gives a sorted copy: in order, and with as many samples up to    *)
(* any value as there are in the data.                                     *)
LEMMA SortedCopy ==
  ASSUME NEW data \in Seq(Nat)
  PROVE  /\ \A j, k \in 1 .. Len(data) : j <= k => Sorted(data)[j] <= Sorted(data)[k]
         /\ \A v \in Nat : Cardinality({k \in 1 .. Len(data) : Sorted(data)[k] <= v})
                             = Cardinality(UpTo(data, v))
<1> DEFINE s == Sorted(data)
<1>1. /\ Len(data) \in Nat
      /\ \A k \in 1 .. Len(data) : /\ s[k] \in Nat /\ Cardinality(Below(data, s[k])) < k
                                   /\ Cardinality(UpTo(data, s[k])) >= k
  BY LenProperties, SortedRank
<1> HIDE DEF s
<1>2. ASSUME NEW k \in 1 .. Len(data), NEW v \in Nat
      PROVE  s[k] <= v <=> k <= Cardinality(UpTo(data, v))
  <2> DEFINE n(w) == Cardinality(UpTo(data, w))
  <2>1. /\ n(v) \in Nat /\ n(s[k]) \in Nat /\ Cardinality(Below(data, s[k])) \in Nat
        /\ v < s[k] => n(v) <= Cardinality(Below(data, s[k]))
    BY <1>1, RankFacts
  <2>2. s[k] < v => n(s[k]) <= n(v)
    <3>1. s[k] < v => UpTo(data, s[k]) \subseteq UpTo(data, v)
      <4>1. \A i \in DOMAIN data : data[i] \in Nat
        BY LenProperties, ElementOfSeq
      <4>2. s[k] \in Nat
        BY <1>1
      <4> QED
        BY <4>1, <4>2 DEF UpTo
    <3>2. IsFiniteSet(UpTo(data, v))
      BY RankFacts
    <3> QED
      BY <3>1, <3>2, FS_Subset
  <2> HIDE DEF n
  <2>3. Cardinality(Below(data, s[k])) < k /\ n(s[k]) >= k
    BY <1>1 DEF n
  <2>4. s[k] <= v <=> k <= n(v)
    BY <1>1, <2>1, <2>2, <2>3
  <2> QED
    BY <2>4 DEF n
<1>3. ASSUME NEW j \in 1 .. Len(data), NEW k \in 1 .. Len(data), j <= k
      PROVE  s[j] <= s[k]
  <2> DEFINE c == Cardinality(UpTo(data, s[k]))
  <2>1. s[k] \in Nat /\ c \in Nat /\ c >= k
    BY <1>1, RankFacts
  <2>2. s[j] <= s[k] <=> j <= c
    BY <1>2, <2>1
  <2> HIDE DEF c
  <2> QED
    BY <1>3, <2>1, <2>2
<1>4. ASSUME NEW v \in Nat
      PROVE  Cardinality({k \in 1 .. Len(data) : s[k] <= v}) = Cardinality(UpTo(data, v))
  <2> DEFINE c == Cardinality(UpTo(data, v))
  <2>1. c \in Nat /\ c <= Len(data)
    BY RankFacts
  <2>2. {k \in 1 .. Len(data) : s[k] <= v} = {k \in 1 .. Len(data) : k <= c}
    BY <1>2
  <2> HIDE DEF c
  <2>3. {k \in 1 .. Len(data) : k <= c} = 1 .. c
    BY <1>1, <2>1
  <2>4. Cardinality(1 .. c) = c
    BY <2>1, CountUpTo
  <2> QED
    BY <2>2, <2>3, <2>4 DEF c
<1> QED
  BY <1>3, <1>4 DEF s

LEMMA IndexFacts ==
  ASSUME NEW n \in Nat \ {0}, NEW p \in 0 .. 100
  PROVE  /\ PercentileIndex(n, p) \in 0 .. n - 1
         /\ 100 * PercentileIndex(n, p) <= (n - 1) * p + 50
         /\ 100 * (PercentileIndex(n, p) + 1) > (n - 1) * p + 50
<1> DEFINE x == (n - 1) * p + 50
           q == x \div 100
<1>1. x \in Nat /\ x <= (n - 1) * 100 + 50
  <2> DEFINE m == n - 1
  <2>1. m \in Nat
    OBVIOUS
  <2> HIDE DEF m
  <2>2. m * p \in Nat /\ m * p <= m * 100
    BY <2>1
  <2> QED
    BY <2>2 DEF m
<1> HIDE DEF x
<1>2. q \in Nat /\ 100 * q <= x /\ x < 100 * (q + 1)
  BY <1>1
<1>3. q <= n - 1
  BY <1>1, <1>2
<1> QED
  BY <1>2, <1>3 DEF PercentileIndex, x

(* The sample round((len - 1) * p) of the sorted ones has the rank that is *)
(* asked for, whatever the samples and however many there are.             *)
LEMMA PercentileRank ==
  ASSUME NEW data \in Seq(Nat), data # << >>, NEW p \in 0 .. 100
  PROVE  HasRank(Percentile(data, p), data, p)
<1> DEFINE n == Len(data)
           q == PercentileIndex(n, p)
           v == Sorted(data)[q + 1]
           share == (n - 1) * p + 50
<1>1. n \in Nat \ {0}
  BY EmptySeq
<1>2. /\ q \in 0 .. n - 1 /\ 100 * q <= share /\ 100 * (q + 1) > share
  BY <1>1, IndexFacts
<1>3. v \in Range(data) /\ v \in Nat /\ Percentile(data, p) = v
  <2>1. q + 1 \in 1 .. n
    <3> HIDE DEF q, n
    <3> QED
      BY <1>1, <1>2
  <2> QED
    BY <2>1, SortedRank DEF Percentile
<1>4. /\ Cardinality(Below(data, v)) < q + 1 /\ Cardinality(UpTo(data, v)) >= q + 1
      /\ Cardinality(Below(data, v)) \in Nat /\ Cardinality(UpTo(data, v)) \in Nat
  <2>1. q + 1 \in 1 .. n
    <3> HIDE DEF q, n
    <3> QED
      BY <1>1, <1>2
  <2> QED
    BY <1>3, <2>1, SortedRank, RankFacts
<1>5. share \in Int
  <2>1. n - 1 \in Int /\ p \in Int
    BY <1>1
  <2> HIDE DEF n
  <2> QED
    BY <2>1
<1>6. 100 * Cardinality(Below(data, v)) <= share /\ 100 * Cardinality(UpTo(data, v)) >= share
  <2> DEFINE b == Cardinality(Below(data, v))
             u == Cardinality(UpTo(data, v))
  <2>1. b \in Nat /\ u \in Nat /\ b < q + 1 /\ u >= q + 1
    BY <1>4
  <2> HIDE DEF b, u, q, share, n, v
  <2>2. 100 * b <= share /\ 100 * u >= share
    BY <1>1, <1>2, <1>5, <2>1
  <2> QED
    BY <2>2 DEF b, u
<1> QED
  BY <1>3, <1>6 DEF HasRank, Below, UpTo

(* The percentiles of every finished experiment have the rank asked for,   *)
(* also with one sample and where the rank falls between two samples.      *)
THEOREM PercentilesRanked == Spec => []PercentilesHaveRank
<1>1. IInv => PercentilesHaveRank
  <2> SUFFICES ASSUME IInv, interactive_latencies # << >>
               PROVE  /\ HasRank(Metrics.p95_latency, interactive_latencies, 95)
                      /\ HasRank(Metrics.p99_latency, interactive_latencies, 99)
    BY DEF PercentilesHaveRank
  <2>1. interactive_latencies \in Seq(Nat)
    BY DEF IInv, TypeOK
  <2>2. /\ Metrics.p95_latency = Percentile(interactive_latencies, 95)
        /\ Metrics.p99_latency = Percentile(interactive_latencies, 99)
    BY MetricsFacts
  <2> QED
    BY <2>1, <2>2, PercentileRank
<1> QED
  BY <1>1, Invariance, PTL
=============================================================================
