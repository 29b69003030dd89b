----------------------------- MODULE UartProofs -----------------------------
(***************************************************************************)
(* The polling driver loses nothing, whatever is printed and however slow  *)
(* the transmitter is.  FlattenSeq is a recursive function over positions; *)
(* what it computes is unfolded at the least counterexample.               *)
(***************************************************************************)
EXTENDS Uart, SequenceTheorems, WellFoundedInduction, FiniteSetTheorems, TLAPS

(* A non-empty set of naturals has a least element.                        *)
LEMMA LeastNat ==
  ASSUME NEW C, C \subseteq Nat, C # {}
  PROVE  \E n \in C : \A m \in C : n <= m
<1> DEFINE R == OpToRel(<, Nat)
<1>1. R = {ss \in Nat \X Nat : ss[1] < ss[2]}
  BY DEF OpToRel
<1>2. IsWellFoundedOn(R, Nat)
  BY NatLessThanWellFounded
<1> HIDE DEF R
<1>3. PICK n \in C : \A m \in C : ~ (<<m, n>> \in R)
  BY <1>2, WFMin
<1>4. ASSUME NEW m \in C PROVE n <= m
  <2>1. m \in Nat /\ n \in Nat
    OBVIOUS
  <2>2. <<m, n>> \notin {ss \in Nat \X Nat : ss[1] < ss[2]}
    BY <1>1, <1>3
  <2>3. ~ (m < n)
    BY <2>1, <2>2
  <2> QED
    BY <2>1, <2>3
<1> QED
  BY <1>4

-----------------------------------------------------------------------------
(* The function FlattenSeq builds for the first n members of s.            *)
IsFlat(s, n, g) == g = [i \in 1 .. n |-> IF i = 1 THEN s[i] ELSE g[i - 1] \o s[i]]

Flat(s, n) == (CHOOSE g : IsFlat(s, n, g))[n]

LEMMA FlattenIsFlat ==
  ASSUME NEW s
  PROVE  FlattenSeq(s) = IF Len(s) = 0 THEN s ELSE Flat(s, Len(s))
BY DEF FlattenSeq, Flat, IsFlat

LEMMA FlatUnique ==
  ASSUME NEW s, NEW n \in Nat, NEW g, NEW h, IsFlat(s, n, g), IsFlat(s, n, h)
  PROVE  g = h
<1> DEFINE C == {i \in 1 .. n : g[i] # h[i]}
<1>1. /\ \A i \in 1 .. n : g[i] = IF i = 1 THEN s[i] ELSE g[i - 1] \o s[i]
      /\ \A i \in 1 .. n : h[i] = IF i = 1 THEN s[i] ELSE h[i - 1] \o s[i]
  BY DEF IsFlat
<1>2. ASSUME C # {} PROVE FALSE
  <2>1. PICK i \in C : \A j \in C : i <= j
    <3>1. C \subseteq Nat
      OBVIOUS
    <3> HIDE DEF C
    <3> QED
      BY <1>2, <3>1, LeastNat
  <2>2. i # 1
    BY <1>1
  <2>3. i - 1 \in 1 .. n /\ i - 1 \notin C
    BY <2>1, <2>2
  <2>4. g[i - 1] = h[i - 1]
    BY <2>3
  <2> QED
    BY <1>1, <2>2, <2>4
<1>3. \A i \in 1 .. n : g[i] = h[i]
  BY <1>2
<1>4. g = [i \in 1 .. n |-> g[i]] /\ h = [i \in 1 .. n |-> h[i]]
  BY DEF IsFlat
<1>5. [i \in 1 .. n |-> g[i]] = [i \in 1 .. n |-> h[i]]
  BY <1>3
<1> QED
  BY <1>4, <1>5

LEMMA FlatExists ==
  ASSUME NEW s, NEW n \in Nat
  PROVE  \E g : IsFlat(s, n, g)
<1> DEFINE C == {m \in Nat : ~ \E g : IsFlat(s, m, g)}
<1>1. ASSUME C # {} PROVE FALSE
  <2>1. PICK m \in C : \A k \in C : m <= k
    <3>1. C \subseteq Nat
      OBVIOUS
    <3> HIDE DEF C
    <3> QED
      BY <1>1, <3>1, LeastNat
  <2>2. m # 0
    <3> DEFINE e == [i \in 1 .. 0 |-> s[i]]
    <3>1. IsFlat(s, 0, e)
      BY DEF IsFlat
    <3> QED
      BY <3>1
  <2>3. m - 1 \in Nat /\ m - 1 \notin C
    BY <2>1, <2>2
  <2>4. PICK g : IsFlat(s, m - 1, g)
    BY <2>3
  <2> DEFINE h == [i \in 1 .. m |-> IF i = 1 THEN s[i]
                                    ELSE IF i = m THEN g[i - 1] \o s[i] ELSE g[i]]
  <2>5. \A i \in 1 .. m - 1 : g[i] = IF i = 1 THEN s[i] ELSE g[i - 1] \o s[i]
    BY <2>4 DEF IsFlat
  <2>6. \A i \in 1 .. m - 1 : h[i] = g[i]
    BY <2>3, <2>5
  <2>7. ASSUME NEW i \in 1 .. m
        PROVE  h[i] = IF i = 1 THEN s[i] ELSE h[i - 1] \o s[i]
    <3>1. CASE i = 1
      BY <3>1
    <3>2. CASE i # 1
      <4>1. i - 1 \in 1 .. m - 1
        BY <2>3, <3>2
      <4>2. h[i - 1] = g[i - 1]
        BY <2>6, <4>1
      <4>3. CASE i = m
        BY <3>2, <4>2, <4>3
      <4>4. CASE i # m
        <5>1. i \in 1 .. m - 1
          BY <2>3, <4>4
        <5> QED
          BY <2>5, <2>6, <3>2, <4>2, <5>1
      <4> QED
        BY <4>3, <4>4
    <3> QED
      BY <3>1, <3>2
  <2>8. IsFlat(s, m, h)
    <3>1. h = [i \in 1 .. m |-> h[i]]
      OBVIOUS
    <3> HIDE DEF h
    <3>2. [i \in 1 .. m |-> h[i]]
            = [i \in 1 .. m |-> IF i = 1 THEN s[i] ELSE h[i - 1] \o s[i]]
      BY <2>7
    <3> QED
      BY <3>1, <3>2 DEF IsFlat
  <2> QED
    BY <2>1, <2>8
<1> QED
  BY <1>1

(* One more member; only the first n members matter.                       *)
LEMMA FlatStep ==
  ASSUME NEW s, NEW r, NEW n \in Nat \ {0}, \A i \in 1 .. n : r[i] = s[i]
  PROVE  /\ n = 1 => Flat(s, n) = s[n]
         /\ Flat(s, n + 1) = Flat(r, n) \o s[n + 1]
<1>1. ASSUME NEW q, NEW k \in Nat PROVE IsFlat(q, k, CHOOSE g : IsFlat(q, k, g))
  BY FlatExists
<1> DEFINE g == CHOOSE f : IsFlat(s, n + 1, f)
           h == CHOOSE f : IsFlat(r, n, f)
           e == [i \in 1 .. n |-> g[i]]
<1>2. IsFlat(s, n + 1, g) /\ IsFlat(r, n, h)
  BY <1>1
<1>3. n = 1 => Flat(s, n) = s[n]
  <2>1. IsFlat(s, n, CHOOSE f : IsFlat(s, n, f))
    BY <1>1
  <2> QED
    BY <2>1 DEF IsFlat, Flat
<1> HIDE DEF g, h
<1>4. \A i \in 1 .. n + 1 : g[i] = IF i = 1 THEN s[i] ELSE g[i - 1] \o s[i]
  BY <1>2 DEF IsFlat
<1>5. \A i \in 1 .. n : e[i] = IF i = 1 THEN r[i] ELSE e[i - 1] \o r[i]
  BY <1>4
<1>6. IsFlat(r, n, e)
  <2>1. e = [i \in 1 .. n |-> e[i]]
    OBVIOUS
  <2> HIDE DEF e
  <2>2. [i \in 1 .. n |-> e[i]]
          = [i \in 1 .. n |-> IF i = 1 THEN r[i] ELSE e[i - 1] \o r[i]]
    BY <1>5
  <2> QED
    BY <2>1, <2>2 DEF IsFlat
<1>7. e = h
  BY <1>2, <1>6, FlatUnique
<1>8. e[n] = g[n] /\ g[n + 1] = g[n] \o s[n + 1]
  <2>1. n + 1 \in 1 .. n + 1 /\ n + 1 # 1 /\ (n + 1) - 1 = n
    OBVIOUS
  <2>2. g[n + 1] = g[(n + 1) - 1] \o s[n + 1]
    BY <1>4, <2>1
  <2>3. e[n] = g[n]
    OBVIOUS
  <2> QED
    BY <2>1, <2>2, <2>3
<1>9. Flat(s, n + 1) = g[n + 1] /\ Flat(r, n) = h[n]
  BY DEF Flat, g, h
<1> QED
  BY <1>3, <1>7, <1>8, <1>9

LEMMA FlattenAppend ==
  ASSUME NEW S, NEW s \in Seq(Seq(S)), NEW x \in Seq(S)
  PROVE  /\ FlattenSeq(<< >>) = << >>
         /\ FlattenSeq(Append(s, x)) = FlattenSeq(s) \o x
<1> DEFINE a == Append(s, x)
           n == Len(s)
<1>1. /\ n \in Nat /\ Len(a) = n + 1 /\ \A i \in 1 .. n : s[i] = a[i]
      /\ a[n + 1] = x
  BY LenProperties, AppendProperties
<1>2. FlattenSeq(<< >>) = << >>
  BY FlattenIsFlat
<1> HIDE DEF a, n
<1>3. FlattenSeq(a) = Flat(a, n + 1)
  <2>1. Len(a) # 0
    BY <1>1
  <2> QED
    BY <1>1, <2>1, FlattenIsFlat
<1>4. CASE s = << >>
  <2>1. n = 0
    BY <1>4 DEF n
  <2>2. Flat(a, 1) = a[1]
    <3>1. 1 \in Nat \ {0} /\ \A i \in 1 .. 1 : a[i] = a[i]
      OBVIOUS
    <3> QED
      BY <3>1, FlatStep
  <2> QED
    BY <1>1, <1>2, <1>3, <1>4, <2>1, <2>2, ConcatEmptySeq DEF a
<1>5. CASE s # << >>
  <2>1. n \in Nat \ {0}
    BY <1>5, EmptySeq DEF n
  <2>2. FlattenSeq(s) = Flat(s, n)
    BY <2>1, FlattenIsFlat DEF n
  <2>3. Flat(a, n + 1) = Flat(s, n) \o a[n + 1]
    BY <1>1, <2>1, FlatStep
  <2> QED
    BY <1>1, <1>2, <1>3, <1>5, <2>2, <2>3 DEF a
<1> QED
  BY <1>2, <1>4, <1>5 DEF a

LEMMA FlattenType ==
  ASSUME NEW S, NEW s \in Seq(Seq(S))
  PROVE  FlattenSeq(s) \in Seq(S)
<1> DEFINE C == {n \in Nat : \E q \in Seq(Seq(S)) :
                    Len(q) = n /\ FlattenSeq(q) \notin Seq(S)}
<1>1. ASSUME C # {} PROVE FALSE
  <2>1. PICK m \in C : \A k \in C : m <= k
    <3>1. C \subseteq Nat
      OBVIOUS
    <3> HIDE DEF C
    <3> QED
      BY <1>1, <3>1, LeastNat
  <2>2. PICK q \in Seq(Seq(S)) : Len(q) = m /\ FlattenSeq(q) \notin Seq(S)
    OBVIOUS
  <2>3. q # << >>
    BY <2>2, FlattenAppend, EmptySeq
  <2>4. PICK r \in Seq(Seq(S)), x \in Seq(S) : q = Append(r, x)
    BY <2>3, SequenceEmptyOrAppend
  <2>5. FlattenSeq(q) = FlattenSeq(r) \o x
    BY <2>4, FlattenAppend
  <2>6. FlattenSeq(r) \in Seq(S)
    <3>1. Len(r) \in Nat /\ m = Len(r) + 1
      <4>1. Len(q) = m /\ Len(q) = Len(r) + 1 /\ Len(r) \in Nat
        <5> HIDE DEF C
        <5> QED
          BY <2>2, <2>4, AppendProperties, LenProperties
      <4> QED
        BY <4>1
    <3>2. Len(r) \notin C
      <4> HIDE DEF C
      <4>1. ~ (Len(r) + 1 <= Len(r))
        BY <3>1
      <4> QED
        BY <2>1, <3>1, <4>1
    <3> QED
      BY <3>1, <3>2
  <2> QED
    BY <2>2, <2>5, <2>6, ConcatProperties
<1>2. Len(s) \in Nat
  BY LenProperties
<1> QED
  BY <1>1, <1>2

(* \o by a name the provers leave folded: regrouping is then an equation.  *)
Cat(a, b) == a \o b

LEMMA CatAssociative ==
  ASSUME NEW T, NEW a \in Seq(T), NEW b \in Seq(T), NEW c \in Seq(T)
  PROVE  Cat(Cat(a, b), c) = Cat(a, Cat(b, c))
BY ConcatAssociative DEF Cat

LEMMA CatType ==
  ASSUME NEW T, NEW a \in Seq(T), NEW b \in Seq(T)
  PROVE  Cat(a, b) \in Seq(T)
BY ConcatProperties DEF Cat

LEMMA TwoBytes ==
  ASSUME NEW T, NEW x \in T, NEW y \in T
  PROVE  <<x>> \o <<y>> = <<x, y>>
<1>1. /\ <<x>> \in Seq(T) /\ Len(<<x>>) = 1 /\ <<x>>[1] = x
      /\ <<y>> \in Seq(T) /\ Len(<<y>>) = 1 /\ <<y>>[1] = y
  OBVIOUS
<1> DEFINE a == <<x>>
           b == <<y>>
           c == <<x, y>>
<1>2. c \in Seq(T) /\ Len(c) = 2 /\ c[1] = x /\ c[2] = y
  OBVIOUS
<1> HIDE DEF a, b, c
<1>3. /\ a \o b \in Seq(T) /\ Len(a \o b) = Len(a) + Len(b)
      /\ \A i \in 1 .. Len(a) + Len(b) :
           (a \o b)[i] = IF i <= Len(a) THEN a[i] ELSE b[i - Len(a)]
  BY <1>1, ConcatProperties DEF a, b
<1>4. Len(a) = 1 /\ Len(b) = 1 /\ a[1] = x /\ b[1] = y
  BY <1>1 DEF a, b
<1>5. (a \o b)[1] = x /\ (a \o b)[2] = y /\ Len(a \o b) = 2
  BY <1>3, <1>4
<1>6. a \o b = c
  BY <1>2, <1>3, <1>5, SeqEqual
<1> QED
  BY <1>6 DEF a, b, c

LEMMA ConcatAppend ==
  ASSUME NEW T, NEW s \in Seq(T), NEW r \in Seq(T), NEW x \in T
  PROVE  s \o Append(r, x) = Append(s \o r, x) /\ s \o r \in Seq(T)
<1>1. <<x>> \in Seq(T) /\ s \o r \in Seq(T)
  BY ConcatProperties
<1>2. Append(r, x) = r \o <<x>> /\ Append(s \o r, x) = (s \o r) \o <<x>>
  BY <1>1, AppendIsConcat
<1> DEFINE y == <<x>>
<1>3. (s \o r) \o y = s \o (r \o y)
  <2>1. y \in Seq(T)
    BY <1>1
  <2> HIDE DEF y
  <2>2. Cat(Cat(s, r), y) = Cat(s, Cat(r, y))
    BY <2>1, CatAssociative
  <2> QED
    BY <2>2 DEF Cat
<1> QED
  BY <1>1, <1>2, <1>3

(* Flattening goes through concatenation.                                  *)
LEMMA FlattenConcat ==
  ASSUME NEW S, NEW s \in Seq(Seq(S)), NEW t \in Seq(Seq(S))
  PROVE  FlattenSeq(s \o t) = FlattenSeq(s) \o FlattenSeq(t)
<1> DEFINE C == {n \in Nat : \E q \in Seq(Seq(S)) :
                    Len(q) = n /\ FlattenSeq(s \o q) # FlattenSeq(s) \o FlattenSeq(q)}
<1>1. ASSUME C # {} PROVE FALSE
  <2>1. PICK m \in C : \A k \in C : m <= k
    <3>1. C \subseteq Nat
      OBVIOUS
    <3> HIDE DEF C
    <3> QED
      BY <1>1, <3>1, LeastNat
  <2>2. PICK q \in Seq(Seq(S)) :
          Len(q) = m /\ FlattenSeq(s \o q) # FlattenSeq(s) \o FlattenSeq(q)
    OBVIOUS
  <2>3. q # << >>
    <3>1. FlattenSeq(s) \o << >> = FlattenSeq(s) /\ s \o << >> = s
      BY FlattenType, ConcatEmptySeq
    <3>2. FlattenSeq(<< >>) = << >>
      BY FlattenAppend, EmptySeq
    <3> QED
      BY <2>2, <3>1, <3>2
  <2>4. PICK r \in Seq(Seq(S)), x \in Seq(S) : q = Append(r, x)
    BY <2>3, SequenceEmptyOrAppend
  <2>5. FlattenSeq(s \o r) = FlattenSeq(s) \o FlattenSeq(r)
    <3>1. Len(r) \in Nat /\ m = Len(r) + 1
      <4>1. Len(q) = m /\ Len(q) = Len(r) + 1 /\ Len(r) \in Nat
        <5> HIDE DEF C
        <5> QED
          BY <2>2, <2>4, AppendProperties, LenProperties
      <4> QED
        BY <4>1
    <3>2. Len(r) \notin C
      <4> HIDE DEF C
      <4>1. ~ (Len(r) + 1 <= Len(r))
        BY <3>1
      <4> QED
        BY <2>1, <3>1, <4>1
    <3> QED
      BY <3>1, <3>2
  <2>6. s \o q = Append(s \o r, x) /\ s \o r \in Seq(Seq(S))
    <3> DEFINE T == Seq(S)
    <3>1. s \in Seq(T) /\ r \in Seq(T) /\ x \in T
      OBVIOUS
    <3> HIDE DEF C, T
    <3>2. s \o Append(r, x) = Append(s \o r, x) /\ s \o r \in Seq(T)
      BY <3>1, ConcatAppend
    <3> QED
      BY <2>4, <3>2 DEF T
  <2>7. FlattenSeq(s \o q) = FlattenSeq(s \o r) \o x
    <3> DEFINE u == s \o r
    <3>1. u \in Seq(Seq(S)) /\ s \o q = Append(u, x)
      BY <2>6
    <3> HIDE DEF C, u
    <3>2. FlattenSeq(Append(u, x)) = FlattenSeq(u) \o x
      BY <3>1, FlattenAppend
    <3> QED
      BY <3>1, <3>2 DEF u
  <2>8. FlattenSeq(q) = FlattenSeq(r) \o x
    BY <2>4, FlattenAppend
  <2>9. FlattenSeq(s) \in Seq(S) /\ FlattenSeq(r) \in Seq(S)
    BY FlattenType
  <2>10. (FlattenSeq(s) \o FlattenSeq(r)) \o x = FlattenSeq(s) \o (FlattenSeq(r) \o x)
    <3> DEFINE fs == FlattenSeq(s)
               fr == FlattenSeq(r)
    <3>1. fs \in Seq(S) /\ fr \in Seq(S)
      BY <2>9
    <3> HIDE DEF C, fs, fr
    <3>3. (fs \o fr) \o x = fs \o (fr \o x)
      <4>1. Cat(Cat(fs, fr), x) = Cat(fs, Cat(fr, x))
        BY <3>1, CatAssociative
      <4> QED
        BY <4>1 DEF Cat
    <3> QED
      BY <3>3 DEF fs, fr
  <2> QED
    BY <2>2, <2>5, <2>7, <2>8, <2>10
<1>2. Len(t) \in Nat
  BY LenProperties
<1> QED
  BY <1>1, <1>2

-----------------------------------------------------------------------------
(* What the driver writes for one byte, and what OnLine makes of several.  *)
Code(b) == IF b = Newline THEN <<Newline, Return>> ELSE <<b>>

Codes(bytes) == [i \in DOMAIN bytes |-> Code(bytes[i])]

LEMMA CodesType ==
  ASSUME NEW bytes \in Seq(Bytes)
  PROVE  /\ Codes(bytes) \in Seq(Seq(Bytes)) /\ Len(Codes(bytes)) = Len(bytes)
         /\ \A i \in 1 .. Len(bytes) : Codes(bytes)[i] = Code(bytes[i])
         /\ OnLine(bytes) = FlattenSeq(Codes(bytes)) /\ OnLine(bytes) \in Seq(Bytes)
<1>1. ASSUME NEW b \in Bytes PROVE Code(b) \in Seq(Bytes)
  BY UartAssumption DEF Code
<1>2. Len(bytes) \in Nat /\ DOMAIN bytes = 1 .. Len(bytes)
  BY LenProperties
<1>3. \A i \in 1 .. Len(bytes) : bytes[i] \in Bytes
  BY ElementOfSeq
<1>4. Codes(bytes) \in [1 .. Len(bytes) -> Seq(Bytes)]
  BY <1>1, <1>2, <1>3 DEF Codes
<1>5. Codes(bytes) \in Seq(Seq(Bytes)) /\ Len(Codes(bytes)) = Len(bytes)
  BY <1>2, <1>4
<1>6. OnLine(bytes) = FlattenSeq(Codes(bytes))
  BY DEF OnLine, Codes, Code
<1> QED
  BY <1>2, <1>5, <1>6, FlattenType DEF Codes

LEMMA OnLineConcat ==
  ASSUME NEW p \in Seq(Bytes), NEW q \in Seq(Bytes)
  PROVE  OnLine(p \o q) = OnLine(p) \o OnLine(q)
<1>1. /\ p \o q \in Seq(Bytes) /\ Len(p \o q) = Len(p) + Len(q)
      /\ \A i \in 1 .. Len(p) + Len(q) :
           (p \o q)[i] = IF i <= Len(p) THEN p[i] ELSE q[i - Len(p)]
  BY ConcatProperties
<1>2. Len(p) \in Nat /\ Len(q) \in Nat
  BY LenProperties
<1> DEFINE a == Codes(p \o q)
           cp == Codes(p)
           cq == Codes(q)
           b == cp \o cq
<1>3. /\ b \in Seq(Seq(Bytes)) /\ Len(b) = Len(p) + Len(q)
      /\ \A i \in 1 .. Len(p) + Len(q) :
           b[i] = IF i <= Len(p) THEN Codes(p)[i] ELSE Codes(q)[i - Len(p)]
  <2>1. /\ cp \in Seq(Seq(Bytes)) /\ cq \in Seq(Seq(Bytes))
        /\ Len(cp) = Len(p) /\ Len(cq) = Len(q)
    BY CodesType
  <2> HIDE DEF cp, cq
  <2>2. /\ b \in Seq(Seq(Bytes)) /\ Len(b) = Len(cp) + Len(cq)
        /\ \A i \in 1 .. Len(cp) + Len(cq) :
             b[i] = IF i <= Len(cp) THEN cp[i] ELSE cq[i - Len(cp)]
    BY <2>1, ConcatProperties
  <2> QED
    BY <2>1, <2>2 DEF cp, cq
<1>4. ASSUME NEW i \in 1 .. Len(p) + Len(q) PROVE a[i] = b[i]
  <2>1. a[i] = Code((p \o q)[i])
    BY <1>1, CodesType
  <2>2. CASE i <= Len(p)
    <3>1. i \in 1 .. Len(p)
      BY <1>2, <2>2
    <3> QED
      BY <1>1, <1>3, <2>1, <2>2, <3>1, CodesType
  <2>3. CASE ~ (i <= Len(p))
    <3>1. i - Len(p) \in 1 .. Len(q)
      BY <1>2, <2>3
    <3> QED
      BY <1>1, <1>3, <2>1, <2>3, <3>1, CodesType
  <2> QED
    BY <2>2, <2>3
<1>5. a \in Seq(Seq(Bytes)) /\ Len(a) = Len(p) + Len(q)
  BY <1>1, CodesType
<1> HIDE DEF a, b, cp, cq
<1>6. a = b
  BY <1>3, <1>4, <1>5, SeqEqual
<1>7. Codes(p) \in Seq(Seq(Bytes)) /\ Codes(q) \in Seq(Seq(Bytes))
  BY CodesType
<1>8. FlattenSeq(b) = FlattenSeq(Codes(p)) \o FlattenSeq(Codes(q))
  BY <1>7, FlattenConcat DEF b, cp, cq
<1> QED
  BY <1>1, <1>6, <1>8, CodesType DEF a

LEMMA OnLineShort ==
  /\ OnLine(<< >>) = << >>
  /\ \A b \in Bytes : OnLine(<<b>>) = Code(b)
<1>1. OnLine(<< >>) = << >>
  <2>1. Codes(<< >>) = << >>
    BY DEF Codes
  <2> QED
    BY <2>1, CodesType, FlattenAppend, EmptySeq
<1>2. ASSUME NEW b \in Bytes PROVE OnLine(<<b>>) = Code(b)
  <2>1. <<b>> \in Seq(Bytes) /\ Len(<<b>>) = 1 /\ <<b>>[1] = b
    OBVIOUS
  <2>2. /\ Codes(<<b>>) \in Seq(Seq(Bytes)) /\ Len(Codes(<<b>>)) = 1
        /\ Codes(<<b>>)[1] = Code(b)
    <3> DEFINE s == <<b>>
    <3>1. s \in Seq(Bytes) /\ Len(s) = 1 /\ s[1] = b
      OBVIOUS
    <3> HIDE DEF s
    <3>2. Codes(s) \in Seq(Seq(Bytes)) /\ Len(Codes(s)) = 1 /\ Codes(s)[1] = Code(b)
      BY <3>1, CodesType
    <3> QED
      BY <3>2 DEF s
  <2>3. Code(b) \in Seq(Bytes)
    BY UartAssumption DEF Code
  <2>4. Codes(<<b>>) = Append(<< >>, Code(b))
    BY <2>2, <2>3, EmptySeq, AppendProperties, SeqEqual
  <2>5. FlattenSeq(Codes(<<b>>)) = << >> \o Code(b)
    BY <2>3, <2>4, EmptySeq, FlattenAppend
  <2> QED
    BY <2>1, <2>3, <2>5, CodesType, ConcatEmptySeq
<1> QED
  BY <1>1, <1>2

-----------------------------------------------------------------------------
(* The invariant.  Every byte of the texts begun is in exactly one place:  *)
(* on the line, in a register, or still to be put.  The driver is past a   *)
(* poll only with an empty holding register: only Load changes it behind   *)
(* the driver's back, and Load empties it.                                 *)
Lines == [i \in DOMAIN Texts |-> OnLine(Append(Texts[i], Newline))]

Out  == line \o Sent(shift) \o Sent(thr)
Due  == IF at \in {"poll_return", "write_return"} THEN <<Return>> ELSE <<>>
Todo == Due \o OnLine(rest)

Types ==
  /\ at \in {"init", "puts", "poll", "write", "poll_return", "write_return", "halt"}
  /\ printed \in 0 .. Len(Texts) /\ rest \in Seq(Bytes) /\ line \in Seq(Bytes)
  /\ thr \in Bytes \union {None} /\ shift \in Bytes \union {None}

Polled ==
  /\ at \in {"write", "write_return"} => thr = None
  /\ at \in {"poll", "write"} => rest # <<>>

Accounted == Out \o Todo = FlattenSeq(SubSeq(Lines, 1, printed))

UartInv == Types /\ Polled /\ Accounted

LEMMA LinesType ==
  /\ Len(Texts) \in Nat /\ Len(Lines) = Len(Texts) /\ Lines \in Seq(Seq(Bytes))
  /\ \A i \in 1 .. Len(Texts) :
       /\ Append(Texts[i], Newline) \in Seq(Bytes)
       /\ Lines[i] = OnLine(Append(Texts[i], Newline))
<1>1. Len(Texts) \in Nat /\ DOMAIN Texts = 1 .. Len(Texts)
  BY UartAssumption, LenProperties
<1>2. ASSUME NEW i \in 1 .. Len(Texts) PROVE Append(Texts[i], Newline) \in Seq(Bytes)
  <2>1. Texts[i] \in Seq(Bytes) /\ Newline \in Bytes
    BY UartAssumption, ElementOfSeq
  <2> QED
    BY <2>1, AppendProperties
<1>3. \A i \in 1 .. Len(Texts) : OnLine(Append(Texts[i], Newline)) \in Seq(Bytes)
  BY <1>2, CodesType
<1>4. /\ Lines \in [1 .. Len(Texts) -> Seq(Bytes)]
      /\ \A i \in 1 .. Len(Texts) : Lines[i] = OnLine(Append(Texts[i], Newline))
  BY <1>1, <1>3 DEF Lines
<1>5. Lines \in Seq(Seq(Bytes)) /\ Len(Lines) = Len(Texts)
  BY <1>1, <1>4
<1> QED
  BY <1>1, <1>2, <1>4, <1>5

(* The lines of the texts begun, when one more is.                         *)
LEMMA OneMoreLine ==
  ASSUME NEW n \in 0 .. Len(Texts), n # Len(Texts)
  PROVE  FlattenSeq(SubSeq(Lines, 1, n + 1))
           = FlattenSeq(SubSeq(Lines, 1, n)) \o Lines[n + 1]
<1>1. /\ Len(Texts) \in Nat /\ Len(Lines) = Len(Texts) /\ Lines \in Seq(Seq(Bytes))
      /\ n + 1 \in 1 .. Len(Lines) /\ (n + 1) - 1 = n
  BY LinesType
<1> DEFINE s == SubSeq(Lines, 1, n)
           x == Lines[n + 1]
<1>2. s \in Seq(Seq(Bytes)) /\ x \in Seq(Bytes)
  <2>1. \A i \in 1 .. n : Lines[i] \in Seq(Bytes)
    BY <1>1, ElementOfSeq
  <2>2. s \in Seq(Seq(Bytes))
    BY <2>1, SubSeqProperties
  <2> QED
    BY <1>1, <2>2, ElementOfSeq
<1>3. SubSeq(Lines, 1, n + 1) = s \o <<x>>
  <2>1. 1 \in 1 .. Len(Lines) /\ n + 1 \in 1 .. Len(Lines)
    BY <1>1
  <2>2. SubSeq(Lines, 1, n + 1) = SubSeq(Lines, 1, (n + 1) - 1) \o <<Lines[n + 1]>>
    BY <1>1, <2>1, SubSeqRecursiveSecond
  <2> QED
    BY <1>1, <2>2
<1> HIDE DEF s, x
<1>4. s \o <<x>> = Append(s, x)
  BY <1>2, AppendIsConcat
<1>5. FlattenSeq(Append(s, x)) = FlattenSeq(s) \o x
  BY <1>2, FlattenAppend
<1> QED
  BY <1>3, <1>4, <1>5 DEF s, x

LEMMA OutTypes ==
  ASSUME Types
  PROVE  /\ Sent(shift) \in Seq(Bytes) /\ Sent(thr) \in Seq(Bytes) /\ Out \in Seq(Bytes)
         /\ Due \in Seq(Bytes) /\ OnLine(rest) \in Seq(Bytes) /\ Todo \in Seq(Bytes)
<1>1. Sent(shift) \in Seq(Bytes) /\ Sent(thr) \in Seq(Bytes)
  BY DEF Types, Sent
<1>2. Out \in Seq(Bytes)
  BY <1>1, ConcatProperties DEF Types, Out
<1>3. Due \in Seq(Bytes)
  BY UartAssumption DEF Due
<1>4. OnLine(rest) \in Seq(Bytes)
  BY CodesType DEF Types
<1>5. Todo \in Seq(Bytes)
  BY <1>3, <1>4, ConcatProperties DEF Todo
<1> QED
  BY <1>1, <1>2, <1>3, <1>4, <1>5

(* Nothing is begun yet.                                                  *)
LEMMA InitAccounted ==
  Init => UartInv
<1> SUFFICES ASSUME Init PROVE UartInv
  OBVIOUS
<1>1. Types /\ Polled
  BY LinesType DEF Init, Types, Polled
<1>2. Accounted
  <2>1. Out = << >> /\ Todo = << >>
    BY OnLineShort DEF Init, Out, Due, Todo, Sent
  <2>2. SubSeq(Lines, 1, printed) = << >>
    BY SubSeqEmpty DEF Init
  <2> QED
    <3>1. << >> \o << >> = << >>
      OBVIOUS
    <3>2. FlattenSeq(<< >>) = << >>
      BY FlattenIsFlat
    <3> QED
      BY <2>1, <2>2, <3>1, <3>2 DEF Accounted
<1> QED
  BY <1>1, <1>2 DEF UartInv

(* Steps that move no byte.                                                *)
LEMMA PollAccounted ==
  ASSUME UartInv, UNCHANGED <<printed, rest, thr, shift, line>>,
         (at \in {"poll_return", "write_return"})
           = (at' \in {"poll_return", "write_return"})
  PROVE  Accounted'
<1>1. Out' = Out /\ Due' = Due /\ OnLine(rest)' = OnLine(rest)
  BY DEF Out, Due, OnLine, Sent
<1>2. FlattenSeq(SubSeq(Lines, 1, printed))' = FlattenSeq(SubSeq(Lines, 1, printed))
  BY DEF Lines
<1> QED
  BY <1>1, <1>2 DEF UartInv, Accounted, Todo

(* A text is begun when the one before is put: what is still to be put is  *)
(* the new line.                                                           *)
LEMMA PrintlnKeeps ==
  ASSUME UartInv, Println PROVE UartInv'
<1>1. Types /\ Polled /\ Accounted
  BY DEF UartInv
<1>2. CASE printed = Len(Texts)
  <2>1. at = "puts" /\ at' = "halt" /\ UNCHANGED <<printed, rest, thr, shift, line>>
    BY <1>2 DEF Println
  <2>2. Accounted'
    BY <2>1, PollAccounted
  <2>3. Types' /\ Polled'
    BY <1>1, <2>1 DEF Types, Polled
  <2> QED
    BY <2>2, <2>3 DEF UartInv
<1>3. CASE printed # Len(Texts)
  <2>1. /\ at = "puts" /\ rest = << >> /\ at' = at /\ printed' = printed + 1
        /\ rest' = Append(Texts[printed + 1], Newline)
        /\ UNCHANGED <<thr, shift, line>>
    BY <1>3 DEF Println
  <2>2. /\ printed \in 0 .. Len(Texts) /\ Len(Texts) \in Nat
        /\ printed + 1 \in 1 .. Len(Texts)
    BY <1>1, <1>3, LinesType DEF Types
  <2>3. rest' \in Seq(Bytes) /\ Lines[printed + 1] = OnLine(rest')
    BY <2>1, <2>2, LinesType
  <2>4. Types' /\ Polled'
    BY <1>1, <2>1, <2>2, <2>3 DEF Types, Polled
  <2>5. Out' = Out /\ Todo = << >> /\ Todo' = OnLine(rest')
    <3>1. Out' = Out
      BY <2>1 DEF Out, Sent
    <3>2. Due = << >> /\ Due' = << >>
      BY <2>1 DEF Due
    <3>3. OnLine(rest) = << >> /\ OnLine(rest') \in Seq(Bytes)
      BY <2>1, <2>3, OnLineShort, CodesType
    <3>4. Todo' = Due' \o OnLine(rest')
      BY DEF Todo, OnLine
    <3> QED
      BY <3>1, <3>2, <3>3, <3>4, ConcatEmptySeq DEF Todo
  <2>6. Out = FlattenSeq(SubSeq(Lines, 1, printed))
    BY <1>1, <2>5, OutTypes, ConcatEmptySeq DEF Accounted
  <2>7. FlattenSeq(SubSeq(Lines, 1, printed)) \o Lines[printed + 1]
          = FlattenSeq(SubSeq(Lines, 1, printed'))
    BY <1>3, <2>1, <2>2, OneMoreLine
  <2>8. Out' \o Todo' = FlattenSeq(SubSeq(Lines, 1, printed'))
    BY <2>3, <2>5, <2>6, <2>7
  <2>9. Accounted'
    BY <2>8 DEF Accounted, Lines
  <2> QED
    BY <2>4, <2>9 DEF UartInv
<1> QED
  BY <1>2, <1>3

(* The byte goes from rest to the holding register; after a newline its    *)
(* carriage return is due.                                                 *)
LEMMA WriteByteKeeps ==
  ASSUME UartInv, WriteByte PROVE UartInv'
<1> DEFINE b == Head(rest)
           P == line \o Sent(shift)
           D == IF b = Newline THEN <<Return>> ELSE <<>>
           O == OnLine(Tail(rest))
<1>1. Types /\ Polled /\ Accounted
  BY DEF UartInv
<1>2. /\ at = "write" /\ thr = None /\ rest # << >> /\ rest \in Seq(Bytes)
      /\ thr' = b /\ rest' = Tail(rest) /\ UNCHANGED <<printed, shift, line>>
      /\ at' = IF b = Newline THEN "poll_return" ELSE "puts"
  BY <1>1 DEF WriteByte, Types, Polled
<1>3. b \in Bytes /\ b # None /\ Tail(rest) \in Seq(Bytes) /\ rest = <<b>> \o Tail(rest)
  <2>1. b \in Bytes /\ Tail(rest) \in Seq(Bytes)
    BY <1>2, HeadTailProperties
  <2>2. rest = <<b>> \o Tail(rest)
    BY <1>2
  <2> QED
    BY <2>1, <2>2, UartAssumption
<1>4. Types' /\ Polled'
  BY <1>1, <1>2, <1>3 DEF Types, Polled
<1>5. /\ P \in Seq(Bytes) /\ D \in Seq(Bytes) /\ O \in Seq(Bytes)
      /\ <<b>> \in Seq(Bytes)
  <2>1. line \in Seq(Bytes) /\ Sent(shift) \in Seq(Bytes)
    BY <1>1, OutTypes DEF Types
  <2>2. P \in Seq(Bytes)
    BY <2>1, ConcatProperties
  <2>3. D \in Seq(Bytes) /\ <<b>> \in Seq(Bytes)
    BY <1>3, UartAssumption
  <2>4. O \in Seq(Bytes)
    BY <1>3, CodesType
  <2> QED
    BY <2>2, <2>3, <2>4
<1>6. OnLine(rest) = (<<b>> \o D) \o O
  <2>1. OnLine(<<b>> \o Tail(rest)) = OnLine(<<b>>) \o O
    BY <1>3, <1>5, OnLineConcat
  <2>2. OnLine(<<b>>) = Code(b)
    BY <1>3, OnLineShort
  <2>3. Code(b) = <<b>> \o D
    <3>1. CASE b = Newline
      <4>1. Code(b) = <<Newline, Return>> /\ D = <<Return>>
        BY <3>1 DEF Code
      <4>2. <<Newline>> \o <<Return>> = <<Newline, Return>>
        BY UartAssumption, TwoBytes
      <4> QED
        BY <3>1, <4>1, <4>2
    <3>2. CASE b # Newline
      <4>1. Code(b) = <<b>> /\ D = << >>
        BY <3>2 DEF Code
      <4> HIDE DEF b
      <4>2. <<b>> \o << >> = <<b>>
        OBVIOUS
      <4> QED
        BY <4>1, <4>2
    <3> QED
      BY <3>1, <3>2
  <2> QED
    BY <1>3, <2>1, <2>2, <2>3
<1>7. Out = P \o << >> /\ Out' = P \o <<b>>
  BY <1>2, <1>3 DEF Out, Sent
<1>8. Due = << >> /\ Due' = D
  BY <1>2 DEF Due
<1>9. Todo = << >> \o ((<<b>> \o D) \o O) /\ Todo' = D \o O
  <2>1. Todo' = Due' \o OnLine(rest')
    BY DEF Todo, OnLine
  <2> QED
    BY <1>2, <1>6, <1>8, <2>1 DEF Todo
<1> DEFINE B == <<b>>
<1>10. B \in Seq(Bytes) /\ P \in Seq(Bytes) /\ D \in Seq(Bytes) /\ O \in Seq(Bytes)
  BY <1>5
<1>11. Out \o Todo = Out' \o Todo'
  <2>1. (P \o << >>) \o (<< >> \o ((B \o D) \o O)) = (P \o B) \o (D \o O)
    <3> HIDE DEF B, P, D, O
    <3>1. Cat(B, D) \in Seq(Bytes) /\ Cat(D, O) \in Seq(Bytes)
      BY <1>10, CatType
    <3>2. (B \o D) \o O \in Seq(Bytes)
      BY <1>10, <3>1, CatType DEF Cat
    <3>3. P \o << >> = P /\ << >> \o ((B \o D) \o O) = (B \o D) \o O
      BY <1>10, <3>2, ConcatEmptySeq
    <3>4. Cat(Cat(B, D), O) = Cat(B, Cat(D, O))
      BY <1>10, CatAssociative
    <3>5. Cat(Cat(P, B), Cat(D, O)) = Cat(P, Cat(B, Cat(D, O)))
      BY <1>10, <3>1, CatAssociative
    <3>6. P \o ((B \o D) \o O) = (P \o B) \o (D \o O)
      BY <3>4, <3>5 DEF Cat
    <3> QED
      BY <3>3, <3>6
  <2> HIDE DEF P, D, O
  <2> QED
    BY <1>7, <1>9, <2>1 DEF B
<1>12. Accounted'
  BY <1>1, <1>2, <1>11 DEF Accounted, Lines
<1> QED
  BY <1>4, <1>12 DEF UartInv

LEMMA WriteReturnKeeps ==
  ASSUME UartInv, WriteReturn PROVE UartInv'
<1> DEFINE P == line \o Sent(shift)
           R == <<Return>>
           O == OnLine(rest)
<1>1. Types /\ Polled /\ Accounted
  BY DEF UartInv
<1>2. /\ at = "write_return" /\ thr = None /\ thr' = Return /\ at' = "puts"
      /\ UNCHANGED <<printed, rest, shift, line>>
  BY <1>1 DEF WriteReturn, Polled
<1>3. Return \in Bytes /\ Return # None
  BY UartAssumption
<1>4. Types' /\ Polled'
  BY <1>1, <1>2, <1>3 DEF Types, Polled
<1>5. P \in Seq(Bytes) /\ R \in Seq(Bytes) /\ O \in Seq(Bytes)
  <2>1. line \in Seq(Bytes) /\ Sent(shift) \in Seq(Bytes) /\ O \in Seq(Bytes)
    BY <1>1, OutTypes DEF Types
  <2> QED
    BY <1>3, <2>1, ConcatProperties
<1>6. Out = P \o << >> /\ Out' = P \o R
  BY <1>2, <1>3 DEF Out, Sent
<1>7. Todo = R \o O /\ Todo' = << >> \o O
  <2>1. Due = R /\ Due' = << >>
    BY <1>2 DEF Due
  <2>2. OnLine(rest)' = O
    BY <1>2 DEF OnLine
  <2> QED
    BY <2>1, <2>2 DEF Todo
<1>8. Out \o Todo = Out' \o Todo'
  <2> HIDE DEF P, R, O
  <2>1. P \o << >> = P /\ << >> \o O = O
    BY <1>5, ConcatEmptySeq
  <2>2. (P \o R) \o O = P \o (R \o O)
    <3>1. Cat(Cat(P, R), O) = Cat(P, Cat(R, O))
      BY <1>5, CatAssociative
    <3> QED
      BY <3>1 DEF Cat
  <2> QED
    BY <1>6, <1>7, <2>1, <2>2
<1>9. Accounted'
  BY <1>1, <1>2, <1>8 DEF Accounted, Lines
<1> QED
  BY <1>4, <1>9 DEF UartInv

(* The transmitter moves a byte on; no byte overtakes another.             *)
LEMMA SenderKeeps ==
  ASSUME UartInv, Load \/ Shift PROVE UartInv'
<1>1. Types /\ Polled /\ Accounted
  BY DEF UartInv
<1>2. at' = at /\ UNCHANGED <<printed, rest>>
  BY DEF Load, Shift
<1>3. Types' /\ Polled'
  <2>1. CASE Load
    BY <1>1, <2>1 DEF Load, Types, Polled
  <2>2. CASE Shift
    <3>1. line' \in Seq(Bytes)
      BY <1>1, <2>2, AppendProperties DEF Shift, Types
    <3> QED
      BY <1>1, <2>2, <3>1 DEF Shift, Types, Polled
  <2> QED
    BY <2>1, <2>2
<1>4. Out' = Out
  <2>1. /\ line \in Seq(Bytes) /\ thr \in Bytes \union {None}
        /\ shift \in Bytes \union {None}
    BY <1>1 DEF Types
  <2>2. CASE Load
    <3> DEFINE s == <<thr>>
    <3>1. Out = (line \o << >>) \o s /\ Out' = (line \o s) \o << >>
      BY <2>2 DEF Load, Out, Sent
    <3>2. s \in Seq(Bytes)
      BY <2>1, <2>2 DEF Load
    <3> HIDE DEF s
    <3>3. line \o s \in Seq(Bytes)
      BY <2>1, <3>2, ConcatProperties
    <3>4. line \o << >> = line /\ (line \o s) \o << >> = line \o s
      BY <2>1, <3>3, ConcatEmptySeq
    <3> QED
      BY <3>1, <3>4
  <2>3. CASE Shift
    <3> DEFINE s == <<shift>>
               r == Sent(thr)
    <3>1. /\ shift \in Bytes /\ shift # None
          /\ shift' = None /\ line' = Append(line, shift)
      BY <2>1, <2>3 DEF Shift
    <3>2. line' = line \o s /\ s \in Seq(Bytes)
      BY <2>1, <3>1, AppendIsConcat
    <3>3. Out = (line \o s) \o r /\ Out' = (line' \o << >>) \o r
      BY <2>3, <3>1 DEF Shift, Out, Sent
    <3>4. line' \o << >> = line'
      BY <1>3, ConcatEmptySeq DEF Types
    <3> QED
      BY <3>2, <3>3, <3>4
  <2> QED
    BY <2>2, <2>3
<1>5. Todo' = Todo
  BY <1>2 DEF Todo, Due, OnLine
<1>6. Accounted'
  BY <1>1, <1>2, <1>4, <1>5 DEF Accounted, Lines
<1> QED
  BY <1>3, <1>6 DEF UartInv

LEMMA NextKeeps ==
  ASSUME UartInv, [Next]_vars PROVE UartInv'
<1>1. Types /\ Polled /\ Accounted
  BY DEF UartInv
<1>2. CASE UartInit
  <2>1. UNCHANGED <<printed, rest, thr, shift, line>> /\ at = "init" /\ at' = "puts"
    BY <1>2 DEF UartInit
  <2>2. Accounted'
    BY <2>1, PollAccounted
  <2> QED
    BY <1>1, <2>1, <2>2 DEF UartInv, Types, Polled
<1>3. CASE PutNext
  <2>1. /\ UNCHANGED <<printed, rest, thr, shift, line>>
        /\ at = "puts" /\ at' = "poll" /\ rest # << >>
    BY <1>3 DEF PutNext
  <2>2. Accounted'
    BY <2>1, PollAccounted
  <2> QED
    BY <1>1, <2>1, <2>2 DEF UartInv, Types, Polled
<1>4. CASE Poll("poll", "write")
  <2>1. /\ UNCHANGED <<printed, rest, thr, shift, line>> /\ at = "poll" /\ at' = "write"
        /\ thr = None
    BY <1>4 DEF Poll, TxReady
  <2>2. Accounted'
    BY <2>1, PollAccounted
  <2> QED
    BY <1>1, <2>1, <2>2 DEF UartInv, Types, Polled
<1>5. CASE Poll("poll_return", "write_return")
  <2>1. /\ UNCHANGED <<printed, rest, thr, shift, line>>
        /\ at = "poll_return" /\ at' = "write_return" /\ thr = None
    BY <1>5 DEF Poll, TxReady
  <2>2. Accounted'
    BY <2>1, PollAccounted
  <2> QED
    BY <1>1, <2>1, <2>2 DEF UartInv, Types, Polled
<1>6. CASE UNCHANGED vars
  <2>1. UNCHANGED <<printed, rest, thr, shift, line>> /\ at' = at
    BY <1>6 DEF vars
  <2>2. Accounted'
    BY <2>1, PollAccounted
  <2> QED
    BY <1>1, <2>1, <2>2 DEF UartInv, Types, Polled
<1> QED
  BY <1>2, <1>3, <1>4, <1>5, <1>6, PrintlnKeeps, WriteByteKeeps, WriteReturnKeeps,
     SenderKeeps
  DEF Next, Driver

-----------------------------------------------------------------------------
(* What the UART has got, what is still due of the texts begun, and the    *)
(* texts not begun make up all there is to be seen.                        *)
LEMMA InvGivesNothingLost ==
  ASSUME UartInv PROVE NothingLost
<1> DEFINE p == FlattenSeq(SubSeq(Lines, 1, printed))
           q == FlattenSeq(SubSeq(Lines, printed + 1, Len(Lines)))
           e == Todo \o q
<1>1. Types /\ Accounted /\ printed \in 0 .. Len(Lines) /\ Len(Lines) \in Nat
  BY LinesType DEF UartInv, Types
<1>2. Expected = FlattenSeq(Lines)
  BY DEF Expected, Lines
<1>3. /\ SubSeq(Lines, 1, printed) \in Seq(Seq(Bytes))
      /\ SubSeq(Lines, printed + 1, Len(Lines)) \in Seq(Seq(Bytes))
      /\ SubSeq(Lines, 1, printed) \o SubSeq(Lines, printed + 1, Len(Lines)) = Lines
  <2>1. \A i \in 1 .. Len(Lines) : Lines[i] \in Seq(Bytes)
    BY LinesType, ElementOfSeq
  <2>2. SubSeq(Lines, 1, printed) \in Seq(Seq(Bytes))
    <3>1. \A i \in 1 .. printed : Lines[i] \in Seq(Bytes)
      BY <1>1, <2>1
    <3> QED
      BY <1>1, <3>1, SubSeqProperties
  <2>3. SubSeq(Lines, printed + 1, Len(Lines)) \in Seq(Seq(Bytes))
    <3>1. \A i \in printed + 1 .. Len(Lines) : Lines[i] \in Seq(Bytes)
      BY <1>1, <2>1
    <3> QED
      BY <1>1, <3>1, SubSeqProperties
  <2>4. /\ 1 \in 1 .. Len(Lines) + 1 /\ printed \in 1 - 1 .. Len(Lines)
        /\ Len(Lines) \in printed .. Len(Lines)
    BY <1>1
  <2>5. SubSeq(Lines, 1, printed) \o SubSeq(Lines, printed + 1, Len(Lines))
          = SubSeq(Lines, 1, Len(Lines))
    BY <2>4, LinesType, ConcatAdjacentSubSeq
  <2>6. SubSeq(Lines, 1, Len(Lines)) = Lines
    BY LinesType, SubSeqFull
  <2> QED
    BY <2>2, <2>3, <2>5, <2>6
<1>4. Expected = p \o q
  BY <1>2, <1>3, FlattenConcat
<1>5. q \in Seq(Bytes) /\ Out \in Seq(Bytes) /\ Todo \in Seq(Bytes)
  BY <1>1, <1>3, FlattenType, OutTypes
<1>6. p = Out \o Todo
  BY <1>1 DEF Accounted
<1> HIDE DEF p, q
<1>7. e \in Seq(Bytes)
  BY <1>5, ConcatProperties
<1>8. Expected = Out \o e
  <2> DEFINE o == Out
             d == Todo
  <2>1. o \in Seq(Bytes) /\ d \in Seq(Bytes) /\ q \in Seq(Bytes)
    BY <1>5
  <2>2. Expected = (o \o d) \o q /\ e = d \o q
    BY <1>4, <1>6 DEF e
  <2> HIDE DEF o, d, e
  <2>3. Cat(Cat(o, d), q) = Cat(o, Cat(d, q))
    BY <2>1, CatAssociative
  <2>4. Expected = o \o e
    BY <2>2, <2>3 DEF Cat
  <2> QED
    BY <2>4 DEF o
<1> HIDE DEF e
<1>9. IsPrefix(Out, Out \o e)
  <2>1. Len(Out) \in Nat /\ Len(e) \in Nat
    BY <1>5, <1>7, LenProperties
  <2>2. /\ Out \o e \in Seq(Bytes) /\ Len(Out \o e) = Len(Out) + Len(e)
        /\ \A i \in 1 .. Len(Out) + Len(e) :
             (Out \o e)[i] = IF i <= Len(Out) THEN Out[i] ELSE e[i - Len(Out)]
    BY <1>5, <1>7, ConcatProperties
  <2>3. \A i \in 1 .. Len(Out) : (Out \o e)[i] = Out[i]
    BY <2>1, <2>2
  <2> QED
    BY <1>5, <2>1, <2>2, <2>3 DEF IsPrefix
<1> QED
  BY <1>8, <1>9 DEF NothingLost, Out

(* However slow the transmitter is and whatever the texts are, what the    *)
(* UART has got is a prefix of what should be seen: uart_putc never writes *)
(* over a byte that has not left the holding register.                     *)
THEOREM PrintsInOrder == Spec => []NothingLost
<1>1. Init => UartInv
  BY InitAccounted
<1>2. UartInv /\ [Next]_vars => UartInv'
  BY NextKeeps
<1>3. UartInv => NothingLost
  BY InvGivesNothingLost
<1> QED
  BY <1>1, <1>2, <1>3, PTL DEF Spec
====
