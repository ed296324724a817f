--------------------------- MODULE TalliesProofs ---------------------------
(***************************************************************************)
(* What the folds of Tallies compute, for every sequence, and the sum of   *)
(* the values of a function with a finite domain.  The library's induction *)
(* theorems take the property to prove as an operator, which the provers   *)
(* cannot instantiate; here a property is the set of numbers, or of finite *)
(* sets, that have it, and induction is the absence of a least             *)
(* counterexample.                                                         *)
(***************************************************************************)
EXTENDS Tallies, SequenceTheorems, FiniteSetTheorems, WellFoundedInduction, TLAPS

-----------------------------------------------------------------------------
(* Induction over the naturals *)

\* A set of naturals that has an element has a least one.
LEMMA LeastNatural ==
  ASSUME NEW S, S \subseteq Nat, S # {}
  PROVE  \E m \in S : \A n \in S : m <= n
<1> DEFINE R == OpToRel(<, Nat)
<1>1. IsWellFoundedOn(R, Nat)
  BY NatLessThanWellFounded
<1>2. \E m \in S : \A n \in S : <<n, m>> \notin R
  BY <1>1, WFMin, Zenon
<1>3. R = {ss \in Nat \X Nat : ss[1] < ss[2]}
  BY DEF OpToRel
<1> HIDE DEF R
<1>4. PICK m \in S : \A n \in S : <<n, m>> \notin R
  BY <1>2
<1>5. ASSUME NEW n \in S PROVE m <= n
  <2>1. <<n, m>> \notin {ss \in Nat \X Nat : ss[1] < ss[2]}
    BY <1>3, <1>4
  <2> QED
    BY <2>1
<1> QED
  BY <1>5

\* Induction, with the property given as the set of numbers that have it.
LEMMA SetInduction ==
  ASSUME NEW S, 0 \in S, \A n \in Nat : n \in S => n + 1 \in S
  PROVE  Nat \subseteq S
<1> SUFFICES ASSUME Nat \ S # {} PROVE FALSE
  OBVIOUS
<1>1. PICK m \in Nat \ S : \A n \in Nat \ S : m <= n
  BY LeastNatural
<1>2. m # 0 /\ m - 1 \in Nat /\ m - 1 \in S
  BY <1>1
<1> QED
  BY <1>1, <1>2

\* The greatest element of a set of naturals with an upper bound.
LEMMA MaxNatural ==
  ASSUME NEW n \in Nat, NEW T \in SUBSET (0 .. n), T # {}
  PROVE  Max(T) \in T /\ \A t \in T : t <= Max(T)
<1> DEFINE B == {k \in Nat : \A t \in T : t <= k}
<1>1. n \in B
  OBVIOUS
<1>2. PICK b \in B : \A k \in B : b <= k
  BY <1>1, LeastNatural
<1>3. b \in T
  <2> SUFFICES ASSUME b \notin T PROVE FALSE
    OBVIOUS
  <2>1. b \in Nat /\ \A t \in T : t \in 0 .. n /\ t <= b /\ t # b
    BY <1>2
  <2>2. PICK t \in T : TRUE
    OBVIOUS
  <2>3. b - 1 \in Nat /\ \A u \in T : u <= b - 1
    BY <2>1, <2>2
  <2>4. b - 1 \in B
    BY <2>3
  <2> QED
    BY <1>2, <2>1, <2>4
<1>4. \E x \in T : \A y \in T : x >= y
  BY <1>2, <1>3
<1> QED
  BY <1>4 DEF Max

\* The greatest of a sequence's numbers, or 0: by induction on its length the
\* numbers are bounded, so Max finds one.
LEMMA MaxOfSequence ==
  ASSUME NEW s \in Seq(Nat)
  PROVE  LET m == Max({0} \cup {s[i] : i \in DOMAIN s})
         IN  m \in Nat /\ \A i \in DOMAIN s : s[i] \in Nat /\ s[i] <= m
<1> DEFINE Bounded(n) == \E b \in Nat : \A i \in 1 .. n : s[i] \in 0 .. b
           D == {n \in Nat : n <= Len(s) => Bounded(n)}
<1>1. /\ Len(s) \in Nat
      /\ DOMAIN s = 1 .. Len(s)
      /\ \A i \in 1 .. Len(s) : s[i] \in Nat
  OBVIOUS
<1>2. 0 \in D
  OBVIOUS
<1>3. ASSUME NEW n \in Nat, n \in D PROVE n + 1 \in D
  <2>0. n + 1 \in Nat
    OBVIOUS
  <2> SUFFICES ASSUME n + 1 <= Len(s)
               PROVE  Bounded(n + 1)
    BY <2>0, Zenon
  <2>1. PICK c \in Nat : \A i \in 1 .. n : s[i] \in 0 .. c
    <3>1. Bounded(n)
      <4> HIDE DEF Bounded
      <4> QED
        BY <1>1, <1>3
    <3> QED
      BY <3>1
  <2> DEFINE x == s[n + 1]
             b == IF x > c THEN x ELSE c
  <2>2. x \in Nat
    BY <1>1
  <2> HIDE DEF x
  <2>3. b \in Nat /\ c <= b /\ x <= b
    BY <2>2
  <2>4. \A i \in 1 .. n + 1 : s[i] \in 0 .. b
    <3> HIDE DEF b
    <3> QED
      BY <2>1, <2>2, <2>3 DEF x
  <2> QED
    BY <2>3, <2>4
<1>4. Len(s) \in D
  <2> HIDE DEF D
  <2> QED
    BY <1>1, <1>2, <1>3, SetInduction
<1>5. PICK b \in Nat : \A i \in DOMAIN s : s[i] \in 0 .. b
  <2>1. Bounded(Len(s))
    <3> HIDE DEF Bounded
    <3> QED
      BY <1>1, <1>4
  <2> QED
    BY <1>1, <2>1
<1> DEFINE T == {0} \cup {s[i] : i \in DOMAIN s}
<1>6. T \in SUBSET (0 .. b) /\ T # {} /\ \A i \in DOMAIN s : s[i] \in T
  BY <1>5
<1> HIDE DEF T
<1>7. Max(T) \in T /\ \A t \in T : t <= Max(T)
  BY <1>6, MaxNatural
<1>8. Max(T) \in Nat /\ \A i \in DOMAIN s : s[i] \in Nat /\ s[i] <= Max(T)
  <2>1. Max(T) \in 0 .. b
    BY <1>6, <1>7, Zenon
  <2>2. \A i \in DOMAIN s : s[i] <= Max(T)
    BY <1>6, <1>7, Zenon
  <2> QED
    BY <1>1, <2>1, <2>2
<1> QED
  BY <1>8 DEF T

-----------------------------------------------------------------------------
(* The recursion of a fold over 1 .. n, the step given as a function *)

IsFold(V, base, n, step, f) ==
  /\ f \in [SUBSET (1 .. n) -> V]
  /\ \A T \in SUBSET (1 .. n) :
       f[T] = IF T = {} THEN base ELSE step[<< f[T \ {Max(T)}], Max(T) >>]

\* A fold exists for every length: the fold over 1 .. m + 1 takes one step more
\* on the sets that hold m + 1 and is the fold over 1 .. m on the others.
LEMMA FoldExists ==
  ASSUME NEW V, NEW base \in V, NEW n \in Nat, NEW step \in [V \X (1 .. n) -> V]
  PROVE  \E f : IsFold(V, base, n, step, f)
<1> DEFINE D == {m \in Nat : m <= n => \E f : IsFold(V, base, m, step, f)}
<1>1. 0 \in D
  <2> DEFINE f == [T \in SUBSET (1 .. 0) |-> base]
  <2>1. \A T \in SUBSET (1 .. 0) : T = {}
    OBVIOUS
  <2>2. IsFold(V, base, 0, step, f)
    BY <2>1 DEF IsFold
  <2> QED
    BY <2>2
<1>2. ASSUME NEW m \in Nat, m \in D PROVE m + 1 \in D
  <2>0. m + 1 \in Nat
    OBVIOUS
  <2> SUFFICES ASSUME m + 1 <= n PROVE \E f : IsFold(V, base, m + 1, step, f)
    BY <2>0, Zenon
  <2>1. PICK f0 : IsFold(V, base, m, step, f0)
    BY <1>2
  <2>2. \A T \in SUBSET (1 .. m) :
          /\ f0[T] \in V
          /\ f0[T] = IF T = {} THEN base ELSE step[<< f0[T \ {Max(T)}], Max(T) >>]
    BY <2>1 DEF IsFold
  <2>3. \A T \in SUBSET (1 .. m + 1) :
          /\ T \ {m + 1} \in SUBSET (1 .. m)
          /\ m + 1 \notin T => T \in SUBSET (1 .. m)
    OBVIOUS
  <2>4. m + 1 \in 1 .. n
    OBVIOUS
  <2> DEFINE f == [T \in SUBSET (1 .. m + 1) |->
                     IF m + 1 \in T THEN step[<< f0[T \ {m + 1}], m + 1 >>] ELSE f0[T]]
  <2>5. f \in [SUBSET (1 .. m + 1) -> V]
    <3>1. ASSUME NEW T \in SUBSET (1 .. m + 1)
          PROVE  (IF m + 1 \in T THEN step[<< f0[T \ {m + 1}], m + 1 >>] ELSE f0[T]) \in V
      <4>1. f0[T \ {m + 1}] \in V
        BY <2>2, <2>3, Zenon
      <4>2. step[<< f0[T \ {m + 1}], m + 1 >>] \in V
        BY <2>4, <4>1
      <4>3. m + 1 \notin T => f0[T] \in V
        BY <2>2, <2>3, Zenon
      <4> QED
        BY <4>2, <4>3
    <3> QED
      BY <3>1, Zenon
  <2>6. ASSUME NEW T \in SUBSET (1 .. m + 1)
        PROVE  f[T] = IF T = {} THEN base ELSE step[<< f[T \ {Max(T)}], Max(T) >>]
    <3>1. CASE T = {}
      <4>1. f[T] = f0[T] /\ f0[T] = base
        BY <2>2, <3>1
      <4> QED
        BY <3>1, <4>1
    <3>2. CASE m + 1 \in T
      <4>1. T \in SUBSET (0 .. m + 1) /\ T # {}
        BY <3>2
      <4>2. Max(T) \in T /\ \A u \in T : u <= Max(T)
        BY <2>0, <4>1, MaxNatural
      <4>3. Max(T) \in 1 .. m + 1 /\ m + 1 <= Max(T)
        BY <3>2, <4>2, Zenon
      <4>4. Max(T) = m + 1
        BY <4>3
      <4>5. T \ {m + 1} \in SUBSET (1 .. m + 1) /\ m + 1 \notin T \ {m + 1}
        OBVIOUS
      <4>6. f[T \ {m + 1}] = f0[T \ {m + 1}]
        BY <4>5
      <4> QED
        BY <3>2, <4>4, <4>6
    <3>3. CASE T # {} /\ m + 1 \notin T
      <4>1. T \in SUBSET (1 .. m) /\ T \in SUBSET (0 .. m) /\ T # {}
        BY <3>3
      <4>2. Max(T) \in T /\ T \ {Max(T)} \in SUBSET (1 .. m + 1)
        BY <4>1, MaxNatural
      <4>3. f[T] = f0[T]
        BY <3>3
      <4>4. f[T \ {Max(T)}] = f0[T \ {Max(T)}]
        BY <3>3, <4>2
      <4>5. f0[T] = step[<< f0[T \ {Max(T)}], Max(T) >>]
        BY <2>2, <4>1
      <4> QED
        BY <3>3, <4>3, <4>4, <4>5
    <3> QED
      BY <3>1, <3>2, <3>3
  <2>7. IsFold(V, base, m + 1, step, f)
    <3> HIDE DEF f
    <3> QED
      BY <2>5, <2>6 DEF IsFold
  <2> QED
    BY <2>7
<1> HIDE DEF D
<1>3. n \in D
  BY <1>1, <1>2, SetInduction
<1> QED
  BY <1>3 DEF D

\* Along the prefixes 1 .. k a fold takes one step at a time.
LEMMA FoldPrefixes ==
  ASSUME NEW n \in Nat, NEW k \in 1 .. n
  PROVE  /\ 1 .. k \in SUBSET (1 .. n)
         /\ 1 .. k # {}
         /\ Max(1 .. k) = k
         /\ (1 .. k) \ {Max(1 .. k)} = 1 .. (k - 1)
<1>1. k \in Nat /\ 1 <= k /\ k <= n
  OBVIOUS
<1>2. 1 .. k \subseteq 1 .. n /\ k \in 1 .. k /\ 1 .. k \subseteq 0 .. k
  BY <1>1
<1>3. 1 .. k \in SUBSET (1 .. n) /\ 1 .. k # {} /\ 1 .. k \in SUBSET (0 .. k)
  BY <1>2, Zenon
<1>4. Max(1 .. k) \in 1 .. k /\ \A u \in 1 .. k : u <= Max(1 .. k)
  BY <1>1, <1>3, MaxNatural
<1>5. Max(1 .. k) = k
  BY <1>1, <1>2, <1>4
<1>6. (1 .. k) \ {k} = 1 .. (k - 1)
  BY <1>1
<1> QED
  BY <1>3, <1>5, <1>6

-----------------------------------------------------------------------------
(* Sums *)

\* g lists the sums of the prefixes of s.
PrefixSums(s, g) ==
  /\ g[0] = 0
  /\ \A k \in 0 .. Len(s) : g[k] \in Int
  /\ \A k \in 1 .. Len(s) : g[k] = g[k - 1] + s[k]

\* The sum of a list is the last of its prefix sums.
LEMMA SumSeqHasPrefixSums ==
  ASSUME NEW s \in Seq(Int)
  PROVE  \E g : PrefixSums(s, g) /\ SumSeq(s) = g[Len(s)]
<1> DEFINE n == Len(s)
           IsIter(f) == f = [T \in SUBSET DOMAIN s |->
                               IF T = {} THEN 0 ELSE f[T \ {Max(T)}] + s[Max(T)]]
           iter == CHOOSE f : IsIter(f)
           step == [p \in Int \X (1 .. n) |-> p[1] + s[p[2]]]
<1>1. n \in Nat /\ DOMAIN s = 1 .. n /\ \A i \in 1 .. n : s[i] \in Int
  OBVIOUS
<1>2. SumSeq(s) = iter[DOMAIN s]
  BY Zenon DEF SumSeq, FoldLeft, MapThenFoldSet
<1>3. step \in [Int \X (1 .. n) -> Int]
  BY <1>1
<1>4. PICK f : IsFold(Int, 0, n, step, f)
  <2>1. n \in Nat /\ 0 \in Int
    BY <1>1
  <2> HIDE DEF step, n
  <2> QED
    BY <2>1, <1>3, FoldExists, Zenon
<1>5. IsIter(f)
  <2>1. ASSUME NEW T \in SUBSET (1 .. n)
        PROVE  f[T] = IF T = {} THEN 0 ELSE f[T \ {Max(T)}] + s[Max(T)]
    <3>1. CASE T = {}
      BY <1>4, <3>1 DEF IsFold
    <3>2. CASE T # {}
      <4>1. T \in SUBSET (0 .. n)
        BY <1>1
      <4>2. Max(T) \in 1 .. n
        BY <1>1, <3>2, <4>1, MaxNatural
      <4>3. f[T \ {Max(T)}] \in Int
        <5>1. T \ {Max(T)} \in SUBSET (1 .. n)
          OBVIOUS
        <5> HIDE DEF step, n
        <5> QED
          BY <1>4, <5>1 DEF IsFold
      <4>4. f[T] = step[<< f[T \ {Max(T)}], Max(T) >>]
        BY <1>4, <3>2, Zenon DEF IsFold
      <4> QED
        BY <3>2, <4>2, <4>3, <4>4
    <3> QED
      BY <3>1, <3>2
  <2>2. f = [T \in SUBSET (1 .. n) |-> f[T]]
    <3> HIDE DEF step, n
    <3> QED
      BY <1>4 DEF IsFold
  <2> HIDE DEF step
  <2> QED
    BY <1>1, <2>1, <2>2
<1>6. IsIter(iter)
  BY <1>5, Zenon
<1> DEFINE g == [k \in 0 .. n |-> iter[1 .. k]]
<1>7. g[0] = 0
  <2> HIDE DEF iter
  <2>1. 0 \in 0 .. n /\ 1 .. 0 = {} /\ {} \in SUBSET DOMAIN s
    BY <1>1
  <2>2. iter[{}] = 0
    BY <1>6, <2>1
  <2> QED
    BY <2>1, <2>2
<1>8. ASSUME NEW k \in 1 .. n PROVE g[k] = g[k - 1] + s[k]
  <2> HIDE DEF iter
  <2>1. k \in 0 .. n /\ k - 1 \in 0 .. n
    BY <1>1
  <2>2. /\ 1 .. k \in SUBSET (1 .. n)
        /\ 1 .. k # {}
        /\ Max(1 .. k) = k
        /\ (1 .. k) \ {Max(1 .. k)} = 1 .. (k - 1)
    BY <1>1, FoldPrefixes
  <2>3. iter[1 .. k] = iter[(1 .. k) \ {Max(1 .. k)}] + s[Max(1 .. k)]
    <3>1. 1 .. k \in SUBSET DOMAIN s
      BY <1>1, <2>2, Zenon
    <3> QED
      BY <1>6, <2>2, <3>1
  <2> QED
    BY <2>1, <2>2, <2>3
<1> DEFINE D == {k \in Nat : k <= n => g[k] \in Int}
<1>9. \A k \in 0 .. n : g[k] \in Int
  <2> HIDE DEF g
  <2>1. 0 \in D
    BY <1>7
  <2>2. ASSUME NEW k \in Nat, k \in D PROVE k + 1 \in D
    <3>1. k + 1 <= n => k + 1 \in 1 .. n /\ k <= n
      BY <1>1
    <3>2. k + 1 <= n => g[k + 1] \in Int
      BY <1>1, <1>8, <2>2, <3>1
    <3> QED
      BY <3>2
  <2>3. Nat \subseteq D
    <3> HIDE DEF D
    <3> QED
      BY <2>1, <2>2, SetInduction
  <2> QED
    BY <1>1, <2>3
<1>10. SumSeq(s) = g[n]
  <2> HIDE DEF iter
  <2> QED
    BY <1>1, <1>2
<1> HIDE DEF g
<1> QED
  BY <1>7, <1>8, <1>9, <1>10 DEF PrefixSums

\* A list has one list of prefix sums.
LEMMA PrefixSumsUnique ==
  ASSUME NEW s \in Seq(Int), NEW g, NEW h, PrefixSums(s, g), PrefixSums(s, h)
  PROVE  g[Len(s)] = h[Len(s)]
<1> DEFINE D == {k \in Nat : k <= Len(s) => g[k] = h[k]}
<1>1. 0 \in D
  BY DEF PrefixSums
<1>2. ASSUME NEW k \in Nat, k \in D PROVE k + 1 \in D
  BY <1>2 DEF PrefixSums
<1> HIDE DEF D
<1>3. Len(s) \in D
  BY <1>1, <1>2, SetInduction, SMTT(30)
<1> QED
  BY <1>3 DEF D

\* Integers have an integer sum.
LEMMA SumSeqType ==
  ASSUME NEW s \in Seq(Int)
  PROVE  SumSeq(s) \in Int
<1>1. PICK g : PrefixSums(s, g) /\ SumSeq(s) = g[Len(s)]
  BY SumSeqHasPrefixSums
<1> QED
  BY <1>1 DEF PrefixSums

\* An empty list sums to nothing.
LEMMA SumSeqEmpty ==
  ASSUME NEW s \in Seq(Int), Len(s) = 0
  PROVE  SumSeq(s) = 0
<1>1. PICK g : PrefixSums(s, g) /\ SumSeq(s) = g[Len(s)]
  BY SumSeqHasPrefixSums
<1> QED
  BY <1>1 DEF PrefixSums

\* One element more: t is s followed by x.
LEMMA SumSeqExtended ==
  ASSUME NEW s \in Seq(Int), NEW x \in Int, NEW t,
         t \in Seq(Int), Len(t) = Len(s) + 1, t[Len(s) + 1] = x,
         \A i \in 1 .. Len(s) : t[i] = s[i]
  PROVE  SumSeq(t) = SumSeq(s) + x
<1>1. PICK g : PrefixSums(t, g) /\ SumSeq(t) = g[Len(s) + 1]
  BY SumSeqHasPrefixSums
<1>2. PICK h : PrefixSums(s, h) /\ SumSeq(s) = h[Len(s)]
  BY SumSeqHasPrefixSums
<1>3. PrefixSums(s, g)
  BY <1>1 DEF PrefixSums
<1>4. g[Len(s)] = SumSeq(s)
  BY <1>2, <1>3, PrefixSumsUnique
<1>5. g[Len(s) + 1] = g[Len(s)] + x
  BY <1>1 DEF PrefixSums
<1> QED
  BY <1>1, <1>4, <1>5

\* The sum of a list with an element appended.
LEMMA SumSeqAppend ==
  ASSUME NEW s \in Seq(Int), NEW x \in Int
  PROVE  SumSeq(Append(s, x)) = SumSeq(s) + x
<1>1. /\ Append(s, x) \in Seq(Int)
      /\ Len(Append(s, x)) = Len(s) + 1
      /\ Append(s, x)[Len(s) + 1] = x
      /\ \A i \in 1 .. Len(s) : Append(s, x)[i] = s[i]
  OBVIOUS
<1> QED
  BY <1>1, SumSeqExtended

\* Changing every sign changes the sign of the sum.
LEMMA SumSeqNegated ==
  ASSUME NEW s \in Seq(Int)
  PROVE  SumSeq([i \in DOMAIN s |-> 0 - s[i]]) = 0 - SumSeq(s)
<1> DEFINE t == [i \in DOMAIN s |-> 0 - s[i]]
<1>1. t \in Seq(Int) /\ Len(t) = Len(s) /\ \A i \in 1 .. Len(s) : t[i] = 0 - s[i] /\ s[i] \in Int
  OBVIOUS
<1> HIDE DEF t
<1>2. PICK g : PrefixSums(t, g) /\ SumSeq(t) = g[Len(t)]
  BY <1>1, SumSeqHasPrefixSums
<1>3. PICK h : PrefixSums(s, h) /\ SumSeq(s) = h[Len(s)]
  BY SumSeqHasPrefixSums
<1> DEFINE f == [k \in 0 .. Len(s) |-> 0 - h[k]]
<1>4. PrefixSums(t, f)
  <2>1. Len(s) \in Nat /\ f[0] = 0
    BY <1>3 DEF PrefixSums
  <2>2. \A k \in 0 .. Len(s) : f[k] \in Int
    BY <1>3 DEF PrefixSums
  <2>3. ASSUME NEW k \in 1 .. Len(s) PROVE f[k] = f[k - 1] + t[k]
    <3>1. k \in 0 .. Len(s) /\ k - 1 \in 0 .. Len(s)
      BY <2>1
    <3>2. h[k] = h[k - 1] + s[k] /\ h[k - 1] \in Int /\ h[k] \in Int
      BY <1>3, <3>1 DEF PrefixSums
    <3> QED
      BY <1>1, <3>1, <3>2, SMTT(30)
  <2> HIDE DEF f
  <2> QED
    BY <1>1, <2>1, <2>2, <2>3 DEF PrefixSums
<1>5. g[Len(t)] = f[Len(t)]
  <2> HIDE DEF f
  <2> QED
    BY <1>1, <1>2, <1>4, PrefixSumsUnique
<1>6. f[Len(t)] = 0 - SumSeq(s)
  BY <1>1, <1>3
<1> QED
  BY <1>2, <1>5, <1>6 DEF t

\* The sum of two lists, one after the other.
LEMMA SumSeqConcat ==
  ASSUME NEW s \in Seq(Int), NEW t \in Seq(Int)
  PROVE  SumSeq(s \o t) = SumSeq(s) + SumSeq(t)
<1> DEFINE u == s \o t
<1>1. /\ u \in Seq(Int)
      /\ Len(u) = Len(s) + Len(t)
      /\ \A i \in 1 .. Len(s) : u[i] = s[i]
      /\ \A i \in 1 .. Len(t) : u[Len(s) + i] = t[i]
  OBVIOUS
<1> HIDE DEF u
<1>2. PICK f : PrefixSums(u, f) /\ SumSeq(u) = f[Len(u)]
  BY <1>1, SumSeqHasPrefixSums
<1>3. PICK g : PrefixSums(s, g) /\ SumSeq(s) = g[Len(s)]
  BY SumSeqHasPrefixSums
<1>4. PICK h : PrefixSums(t, h) /\ SumSeq(t) = h[Len(t)]
  BY SumSeqHasPrefixSums
<1>10. Len(s) \in Nat /\ Len(t) \in Nat /\ \A i \in 1 .. Len(t) : t[i] \in Int
  OBVIOUS
<1>5. PrefixSums(s, f)
  <2>1. ASSUME NEW k \in 0 .. Len(s) PROVE f[k] \in Int
    <3>1. k \in 0 .. Len(u)
      BY <1>1, <1>10
    <3> QED
      BY <1>2, <3>1 DEF PrefixSums
  <2>2. ASSUME NEW k \in 1 .. Len(s) PROVE f[k] = f[k - 1] + s[k]
    <3>1. k \in 1 .. Len(u)
      BY <1>1, <1>10
    <3> QED
      BY <1>1, <1>2, <3>1 DEF PrefixSums
  <2> QED
    BY <1>2, <2>1, <2>2 DEF PrefixSums
<1>6. f[Len(s)] = SumSeq(s)
  BY <1>3, <1>5, PrefixSumsUnique
<1> DEFINE e == [k \in 0 .. Len(t) |-> f[Len(s) + k] - f[Len(s)]]
<1>7. PrefixSums(t, e)
  <2>1. \A k \in 0 .. Len(t) : f[Len(s) + k] \in Int /\ f[Len(s)] \in Int
    BY <1>1, <1>2 DEF PrefixSums
  <2>2. ASSUME NEW k \in 1 .. Len(t)
        PROVE  f[Len(s) + k] = f[Len(s) + (k - 1)] + t[k]
    <3>1. Len(s) + k \in 1 .. Len(u) /\ (Len(s) + k) - 1 = Len(s) + (k - 1)
      BY <1>1, <1>10
    <3>2. f[Len(s) + k] = f[(Len(s) + k) - 1] + u[Len(s) + k]
      BY <1>2, <3>1 DEF PrefixSums
    <3> QED
      BY <1>1, <3>1, <3>2
  <2>3. ASSUME NEW k \in 1 .. Len(t) PROVE e[k] = e[k - 1] + t[k]
    <3>1. k \in 0 .. Len(t) /\ k - 1 \in 0 .. Len(t)
      BY <1>10
    <3>2. f[Len(s) + k] = f[Len(s) + (k - 1)] + t[k]
      BY <2>2
    <3>3. /\ e[k] = f[Len(s) + k] - f[Len(s)]
          /\ e[k - 1] = f[Len(s) + (k - 1)] - f[Len(s)]
      BY <3>1
    <3>4. /\ f[Len(s) + (k - 1)] \in Int
          /\ f[Len(s)] \in Int
          /\ t[k] \in Int
      BY <1>10, <2>1, <3>1
    <3> HIDE DEF e
    <3> QED
      BY <3>2, <3>3, <3>4
  <2>4. e[0] = 0
    BY <1>10, <2>1
  <2>5. \A k \in 0 .. Len(t) : e[k] \in Int
    BY <2>1
  <2> HIDE DEF e
  <2> QED
    BY <2>3, <2>4, <2>5 DEF PrefixSums
<1>8. e[Len(t)] = SumSeq(t)
  <2> HIDE DEF e
  <2> QED
    BY <1>4, <1>7, PrefixSumsUnique
<1>9. f[Len(u)] - f[Len(s)] = SumSeq(t)
  BY <1>1, <1>8
<1> QED
  <2>1. f[Len(u)] \in Int /\ f[Len(s)] \in Int
    BY <1>1, <1>2 DEF PrefixSums
  <2> QED
    BY <1>2, <1>6, <1>9, <2>1 DEF u

\* A list with one element replaced sums to the difference more.
LEMMA SumSeqReplaced ==
  ASSUME NEW s \in Seq(Int), NEW t \in Seq(Int), Len(t) = Len(s), NEW k \in DOMAIN s,
         \A i \in DOMAIN s : i # k => t[i] = s[i]
  PROVE  SumSeq(t) = SumSeq(s) - s[k] + t[k]
<1> DEFINE n == Len(s)
           d == t[k] - s[k]
<1>0. /\ n \in Nat /\ k \in 1 .. n
      /\ \A i \in 1 .. n : s[i] \in Int /\ t[i] \in Int /\ (i # k => t[i] = s[i])
  OBVIOUS
<1>1. /\ n \in Nat /\ k \in 1 .. n /\ d \in Int
      /\ \A i \in 1 .. n : s[i] \in Int /\ (i # k => t[i] = s[i])
      /\ t[k] = s[k] + d
  BY <1>0
<1>2. PICK g : PrefixSums(t, g) /\ SumSeq(t) = g[n]
  BY SumSeqHasPrefixSums
<1>3. PICK h : PrefixSums(s, h) /\ SumSeq(s) = h[n]
  BY SumSeqHasPrefixSums
<1> DEFINE f == [i \in 0 .. n |-> IF i < k THEN h[i] ELSE h[i] + d]
<1>4. PrefixSums(t, f)
  <2>0. h[0] = 0 /\ \A i \in 0 .. n : h[i] \in Int
    BY <1>3 DEF PrefixSums
  <2>1. /\ f[0] = 0
        /\ \A i \in 0 .. n : h[i] \in Int /\ f[i] \in Int
    <3> HIDE DEF d, n
    <3> QED
      BY <1>1, <2>0, SMTT(30)
  <2>2. ASSUME NEW i \in 1 .. n PROVE f[i] = f[i - 1] + t[i]
    <3>1. i \in 0 .. n /\ i - 1 \in 0 .. n /\ i \in Int
      BY <1>1
    <3>2. h[i] = h[i - 1] + s[i] /\ h[i - 1] \in Int /\ h[i] \in Int
      BY <1>3, <2>1, <3>1 DEF PrefixSums
    <3>3. /\ f[i] = IF i < k THEN h[i] ELSE h[i] + d
          /\ f[i - 1] = IF i - 1 < k THEN h[i - 1] ELSE h[i - 1] + d
      BY <3>1
    <3>4. s[i] \in Int /\ d \in Int /\ k \in Int /\ (i # k => t[i] = s[i])
          /\ t[k] = s[k] + d
      BY <1>1
    <3> HIDE DEF f, d, n
    <3>5. CASE i < k
      <4>1. i - 1 < k /\ i # k
        BY ONLY <3>1, <3>4, <3>5
      <4>2. f[i] = h[i] /\ f[i - 1] = h[i - 1] /\ t[i] = s[i]
        BY ONLY <3>3, <3>4, <3>5, <4>1
      <4> QED
        BY ONLY <3>2, <4>2
    <3>6. CASE i = k
      <4>1. ~(i < k) /\ i - 1 < k
        BY ONLY <3>1, <3>4, <3>6, SMTT(30)
      <4>2. f[i] = h[i] + d /\ f[i - 1] = h[i - 1] /\ t[i] = s[i] + d
        BY ONLY <3>3, <3>4, <3>6, <4>1
      <4> QED
        BY ONLY <3>2, <3>4, <4>2, SMTT(30)
    <3>7. CASE i > k
      <4>1. ~(i < k) /\ ~(i - 1 < k) /\ i # k
        BY ONLY <3>1, <3>4, <3>7
      <4>2. f[i] = h[i] + d /\ f[i - 1] = h[i - 1] + d /\ t[i] = s[i]
        BY ONLY <3>3, <3>4, <4>1
      <4> QED
        BY ONLY <3>2, <3>4, <4>2, SMTT(30)
    <3> QED
      BY ONLY <3>1, <3>4, <3>5, <3>6, <3>7
  <2> HIDE DEF f
  <2> QED
    BY <2>1, <2>2 DEF PrefixSums
<1>5. g[n] = f[n]
  <2> HIDE DEF f
  <2> QED
    BY <1>2, <1>4, PrefixSumsUnique
<1>6. f[n] = h[n] + d /\ h[n] \in Int
  BY <1>1, <1>3 DEF PrefixSums
<1> HIDE DEF f
<1> QED
  BY <1>1, <1>2, <1>3, <1>5, <1>6

\* The sum grows with the elements: by induction on the prefixes.
LEMMA SumSeqMonotone ==
  ASSUME NEW s \in Seq(Int), NEW t \in Seq(Int), Len(t) = Len(s),
         \A i \in DOMAIN s : s[i] <= t[i]
  PROVE  SumSeq(s) <= SumSeq(t)
<1> DEFINE n == Len(s)
<1>1. n \in Nat /\ \A i \in 1 .. n : s[i] \in Int /\ t[i] \in Int /\ s[i] <= t[i]
  OBVIOUS
<1>2. PICK g : PrefixSums(t, g) /\ SumSeq(t) = g[n]
  BY SumSeqHasPrefixSums
<1>3. PICK h : PrefixSums(s, h) /\ SumSeq(s) = h[n]
  BY SumSeqHasPrefixSums
<1> DEFINE D == {k \in Nat : k <= n => h[k] <= g[k]}
<1>4. 0 \in D
  BY <1>2, <1>3 DEF PrefixSums
<1>5. ASSUME NEW k \in Nat, k \in D PROVE k + 1 \in D
  <2>0. k + 1 \in Nat
    OBVIOUS
  <2> SUFFICES ASSUME k + 1 <= n PROVE h[k + 1] <= g[k + 1]
    BY <2>0, Zenon
  <2>1. h[k] <= g[k]
    BY <1>1, <1>5
  <2>2. k \in 0 .. n /\ k + 1 \in 1 .. n /\ (k + 1) - 1 = k
    BY <1>1
  <2>3. /\ h[k + 1] = h[k] + s[k + 1] /\ g[k + 1] = g[k] + t[k + 1]
        /\ h[k] \in Int /\ g[k] \in Int
    BY <1>2, <1>3, <2>2 DEF PrefixSums
  <2>4. s[k + 1] \in Int /\ t[k + 1] \in Int /\ s[k + 1] <= t[k + 1]
    BY <1>1, <2>2
  <2> QED
    BY <2>1, <2>3, <2>4
<1>6. n \in D
  <2> HIDE DEF D
  <2> QED
    BY <1>1, <1>4, <1>5, SetInduction
<1> QED
  BY <1>1, <1>2, <1>3, <1>6

-----------------------------------------------------------------------------
(* Selections *)

\* g lists what is kept of each prefix of s.
KeptOfPrefixes(s, T, g) ==
  /\ g[0] = <<>>
  /\ \A k \in 1 .. Len(s) :
       g[k] = IF s[k] \in T THEN Append(g[k - 1], s[k]) ELSE g[k - 1]

\* The elements kept of a list are the ones kept of its longest prefix.
LEMMA SelectInPrefixes ==
  ASSUME NEW S, NEW s \in Seq(S), NEW T
  PROVE  \E g : KeptOfPrefixes(s, T, g) /\ SelectIn(s, T) = g[Len(s)]
<1> DEFINE n == Len(s)
           IsIter(f) == f = [U \in SUBSET DOMAIN s |->
                               IF U = {} THEN <<>>
                               ELSE IF s[Max(U)] \in T
                                    THEN Append(f[U \ {Max(U)}], s[Max(U)])
                                    ELSE f[U \ {Max(U)}]]
           iter == CHOOSE f : IsIter(f)
           step == [p \in Seq(S) \X (1 .. n) |->
                      IF s[p[2]] \in T THEN Append(p[1], s[p[2]]) ELSE p[1]]
<1>1. n \in Nat /\ DOMAIN s = 1 .. n /\ \A i \in 1 .. n : s[i] \in S
  OBVIOUS
<1>2. SelectIn(s, T) = iter[DOMAIN s]
  BY Zenon DEF SelectIn, FoldLeft, MapThenFoldSet
<1>3. step \in [Seq(S) \X (1 .. n) -> Seq(S)]
  <2>1. ASSUME NEW p \in Seq(S) \X (1 .. n)
        PROVE  (IF s[p[2]] \in T THEN Append(p[1], s[p[2]]) ELSE p[1]) \in Seq(S)
    BY <1>1
  <2> QED
    BY <2>1, Zenon
<1>4. PICK f : IsFold(Seq(S), <<>>, n, step, f)
  <2>1. n \in Nat /\ <<>> \in Seq(S)
    BY <1>1
  <2> HIDE DEF step, n
  <2> QED
    BY <2>1, <1>3, FoldExists, Zenon
<1>5. IsIter(f)
  <2>1. ASSUME NEW U \in SUBSET (1 .. n), U # {}
        PROVE  f[U] = IF s[Max(U)] \in T
                      THEN Append(f[U \ {Max(U)}], s[Max(U)])
                      ELSE f[U \ {Max(U)}]
    <3>1. U \in SUBSET (0 .. n)
      BY <1>1
    <3>2. Max(U) \in 1 .. n
      BY <1>1, <2>1, <3>1, MaxNatural
    <3>3. f[U \ {Max(U)}] \in Seq(S)
      <4>1. U \ {Max(U)} \in SUBSET (1 .. n)
        OBVIOUS
      <4> HIDE DEF step, n
      <4> QED
        BY <1>4, <4>1 DEF IsFold
    <3>4. f[U] = step[<< f[U \ {Max(U)}], Max(U) >>]
      BY <1>4, <2>1, Zenon DEF IsFold
    <3>5. << f[U \ {Max(U)}], Max(U) >> \in Seq(S) \X (1 .. n)
      BY <3>2, <3>3, Zenon
    <3> QED
      BY <3>4, <3>5
  <2>2. f[{}] = <<>>
    BY <1>4, {} \in SUBSET (1 .. n), Zenon DEF IsFold
  <2>3. f = [U \in SUBSET (1 .. n) |-> f[U]]
    <3> HIDE DEF step, n
    <3> QED
      BY <1>4 DEF IsFold
  <2>4. f = [U \in SUBSET (1 .. n) |->
               IF U = {} THEN <<>>
               ELSE IF s[Max(U)] \in T
                    THEN Append(f[U \ {Max(U)}], s[Max(U)])
                    ELSE f[U \ {Max(U)}]]
    <3> HIDE DEF step, n
    <3> QED
      BY <2>1, <2>2, <2>3
  <2> HIDE DEF step
  <2> QED
    BY <1>1, <2>4, Zenon
<1>6. IsIter(iter)
  BY <1>5, Zenon
<1> DEFINE g == [k \in 0 .. n |-> iter[1 .. k]]
<1>7. g[0] = <<>>
  <2> HIDE DEF iter
  <2>1. 0 \in 0 .. n /\ 1 .. 0 = {} /\ {} \in SUBSET DOMAIN s
    BY <1>1
  <2>2. iter[{}] = <<>>
    BY <1>6, <2>1
  <2> QED
    BY <2>1, <2>2
<1>8. ASSUME NEW k \in 1 .. n
      PROVE  g[k] = IF s[k] \in T THEN Append(g[k - 1], s[k]) ELSE g[k - 1]
  <2> HIDE DEF iter
  <2>1. k \in 0 .. n /\ k - 1 \in 0 .. n
    BY <1>1
  <2>2. /\ 1 .. k \in SUBSET (1 .. n)
        /\ 1 .. k # {}
        /\ Max(1 .. k) = k
        /\ (1 .. k) \ {Max(1 .. k)} = 1 .. (k - 1)
    BY <1>1, FoldPrefixes
  <2>3. iter[1 .. k] = IF s[Max(1 .. k)] \in T
                       THEN Append(iter[(1 .. k) \ {Max(1 .. k)}], s[Max(1 .. k)])
                       ELSE iter[(1 .. k) \ {Max(1 .. k)}]
    <3>1. 1 .. k \in SUBSET DOMAIN s
      BY <1>1, <2>2, Zenon
    <3> HIDE DEF n
    <3> QED
      BY <1>6, <2>2, <3>1
  <2> QED
    BY <2>1, <2>2, <2>3
<1>9. SelectIn(s, T) = g[n]
  <2> HIDE DEF iter
  <2> QED
    BY <1>1, <1>2
<1> HIDE DEF g
<1> QED
  BY <1>7, <1>8, <1>9 DEF KeptOfPrefixes

\* r holds the elements of the first k of s that are in T, in order; m says where
\* each of them comes from.
IsSelection(s, T, k, r, m) ==
  /\ m \in [1 .. Len(r) -> 1 .. k]
  /\ \A i \in 1 .. Len(r) : r[i] = s[m[i]] /\ s[m[i]] \in T
  /\ \A i, j \in 1 .. Len(r) : i < j => m[i] < m[j]
  /\ \A a \in 1 .. k : s[a] \in T => \E i \in 1 .. Len(r) : m[i] = a

\* The selection is a list of elements of s that belong to T: each comes from a
\* position of s, in the order of s, and none that belongs to T is left out.
LEMMA SelectInSound ==
  ASSUME NEW S, NEW s \in Seq(S), NEW T
  PROVE  /\ SelectIn(s, T) \in Seq(S)
         /\ \E m : IsSelection(s, T, Len(s), SelectIn(s, T), m)
<1>1. PICK g : KeptOfPrefixes(s, T, g) /\ SelectIn(s, T) = g[Len(s)]
  BY SelectInPrefixes
<1> DEFINE D == {k \in Nat : k <= Len(s) =>
                   g[k] \in Seq(S) /\ \E m : IsSelection(s, T, k, g[k], m)}
<1>2. 0 \in D
  <2> DEFINE m == [i \in 1 .. 0 |-> i]
  <2>1. g[0] = <<>> /\ Len(<<>>) = 0
    BY <1>1 DEF KeptOfPrefixes
  <2>2. IsSelection(s, T, 0, <<>>, m)
    BY DEF IsSelection
  <2> HIDE DEF m
  <2>3. g[0] \in Seq(S) /\ \E p : IsSelection(s, T, 0, g[0], p)
    BY <2>1, <2>2
  <2> QED
    BY <2>3
<1>3. ASSUME NEW k \in Nat, k \in D PROVE k + 1 \in D
  <2> SUFFICES ASSUME k + 1 <= Len(s)
               PROVE  g[k + 1] \in Seq(S) /\ \E m : IsSelection(s, T, k + 1, g[k + 1], m)
    BY k + 1 \in Nat, Zenon
  <2>1. g[k] \in Seq(S)
    BY <1>3
  <2>2. PICK m : IsSelection(s, T, k, g[k], m)
    BY <1>3
  <2>3. k + 1 \in 1 .. Len(s) /\ (k + 1) - 1 = k /\ s[k + 1] \in S
    OBVIOUS
  <2>4. CASE s[k + 1] \notin T
    <3>1. g[k + 1] = g[k]
      BY <1>1, <2>3, <2>4 DEF KeptOfPrefixes
    <3>2. IsSelection(s, T, k + 1, g[k], m)
      BY <2>1, <2>2, <2>4 DEF IsSelection
    <3> QED
      BY <2>1, <3>1, <3>2
  <2>5. CASE s[k + 1] \in T
    <3> DEFINE r == g[k]
               l == Append(r, s[k + 1])
               p == [i \in 1 .. Len(r) + 1 |-> IF i = Len(r) + 1 THEN k + 1 ELSE m[i]]
    <3>1. g[k + 1] = l
      BY <1>1, <2>3, <2>5 DEF KeptOfPrefixes
    <3>2. /\ l \in Seq(S)
          /\ Len(r) \in Nat
          /\ Len(l) = Len(r) + 1
          /\ l[Len(r) + 1] = s[k + 1]
          /\ \A i \in 1 .. Len(r) : l[i] = r[i]
      BY <2>1, <2>3
    <3> HIDE DEF l, r
    <3>3. /\ m \in [1 .. Len(r) -> 1 .. k]
          /\ \A i \in 1 .. Len(r) : r[i] = s[m[i]] /\ s[m[i]] \in T
          /\ \A i, j \in 1 .. Len(r) : i < j => m[i] < m[j]
          /\ \A a \in 1 .. k : s[a] \in T => \E i \in 1 .. Len(r) : m[i] = a
      BY <2>2 DEF IsSelection, r
    <3>4. p \in [1 .. Len(l) -> 1 .. k + 1]
      BY <3>2, <3>3
    <3>5. \A i \in 1 .. Len(l) : l[i] = s[p[i]] /\ s[p[i]] \in T
      BY <2>5, <3>2, <3>3
    <3>6. ASSUME NEW i \in 1 .. Len(l), NEW j \in 1 .. Len(l), i < j PROVE p[i] < p[j]
      <4>1. i \in 1 .. Len(r) /\ p[i] = m[i] /\ m[i] \in 1 .. k
        BY <3>2, <3>3, <3>6, SMTT(30)
      <4>2. j = Len(r) + 1 => p[j] = k + 1
        BY <3>2
      <4>3. j # Len(r) + 1 => j \in 1 .. Len(r) /\ p[j] = m[j]
        BY <3>2
      <4> HIDE DEF p
      <4> QED
        BY <3>3, <3>6, <4>1, <4>2, <4>3
    <3>7. ASSUME NEW a \in 1 .. k + 1, s[a] \in T
          PROVE  \E i \in 1 .. Len(l) : p[i] = a
      <4>1. CASE a = k + 1
        BY <3>2, <4>1
      <4>2. CASE a \in 1 .. k
        <5>1. PICK i \in 1 .. Len(r) : m[i] = a
          BY <3>3, <3>7, <4>2
        <5>2. i \in 1 .. Len(l) /\ p[i] = a
          BY <3>2, <5>1
        <5> QED
          BY <5>2
      <4> QED
        BY <4>1, <4>2
    <3>8. IsSelection(s, T, k + 1, l, p)
      <4> HIDE DEF p
      <4> QED
        BY <3>4, <3>5, <3>6, <3>7 DEF IsSelection
    <3> QED
      BY <3>1, <3>2, <3>8
  <2> QED
    BY <2>4, <2>5
<1>4. Len(s) \in D
  <2> HIDE DEF D
  <2> QED
    BY <1>2, <1>3, SetInduction, Len(s) \in Nat
<1> QED
  BY <1>1, <1>4

\* One element more: t is s followed by one element, and U agrees with T on s.
LEMMA SelectInExtended ==
  ASSUME NEW S, NEW s \in Seq(S), NEW T, NEW t \in Seq(S), NEW U,
         Len(t) = Len(s) + 1,
         \A i \in 1 .. Len(s) : t[i] = s[i] /\ (s[i] \in T <=> s[i] \in U)
  PROVE  SelectIn(t, U) = IF t[Len(t)] \in U
                          THEN Append(SelectIn(s, T), t[Len(t)])
                          ELSE SelectIn(s, T)
<1>1. PICK g : KeptOfPrefixes(s, T, g) /\ SelectIn(s, T) = g[Len(s)]
  BY SelectInPrefixes
<1>2. PICK h : KeptOfPrefixes(t, U, h) /\ SelectIn(t, U) = h[Len(t)]
  BY SelectInPrefixes
<1> DEFINE D == {k \in Nat : k <= Len(s) => g[k] = h[k]}
<1>3. 0 \in D
  BY <1>1, <1>2 DEF KeptOfPrefixes
<1>4. ASSUME NEW k \in Nat, k \in D PROVE k + 1 \in D
  <2>0. k + 1 \in Nat
    OBVIOUS
  <2> SUFFICES ASSUME k + 1 <= Len(s) PROVE g[k + 1] = h[k + 1]
    BY <2>0, Zenon
  <2>1. k + 1 \in 1 .. Len(s) /\ k + 1 \in 1 .. Len(t) /\ (k + 1) - 1 = k /\ g[k] = h[k]
    BY <1>4
  <2> QED
    BY <1>1, <1>2, <2>1 DEF KeptOfPrefixes
<1>5. Len(s) \in D
  <2> HIDE DEF D
  <2> QED
    BY <1>3, <1>4, SetInduction, Len(s) \in Nat
<1>6. Len(t) \in 1 .. Len(t) /\ Len(t) - 1 = Len(s)
  OBVIOUS
<1> QED
  BY <1>1, <1>2, <1>5, <1>6 DEF KeptOfPrefixes

\* What is left out of a selection and counts for nothing can as well be counted.
LEMMA SumOfSelection ==
  ASSUME NEW S, NEW s \in Seq(S), NEW T, NEW f \in [S -> Int],
         \A x \in S : x \notin T => f[x] = 0
  PROVE  SumSeq([i \in DOMAIN SelectIn(s, T) |-> f[SelectIn(s, T)[i]]])
           = SumSeq([i \in DOMAIN s |-> f[s[i]]])
<1> DEFINE n == Len(s)
           v == [i \in DOMAIN s |-> f[s[i]]]
           Values(r) == [i \in DOMAIN r |-> f[r[i]]]
<1>1. n \in Nat /\ v \in Seq(Int) /\ Len(v) = n /\ \A i \in 1 .. n : v[i] = f[s[i]] /\ s[i] \in S
  OBVIOUS
<1>2. PICK g : KeptOfPrefixes(s, T, g) /\ SelectIn(s, T) = g[n]
  BY SelectInPrefixes
<1> HIDE DEF v
<1>3. PICK h : PrefixSums(v, h) /\ SumSeq(v) = h[n]
  BY <1>1, SumSeqHasPrefixSums
<1> DEFINE D == {k \in Nat : k <= n => g[k] \in Seq(S) /\ SumSeq(Values(g[k])) = h[k]}
<1>4. 0 \in D
  <2>1. g[0] = <<>> /\ h[0] = 0
    BY <1>2, <1>3 DEF KeptOfPrefixes, PrefixSums
  <2>2. Values(<<>>) \in Seq(Int) /\ Len(Values(<<>>)) = 0
    OBVIOUS
  <2>3. SumSeq(Values(<<>>)) = 0
    <3> HIDE DEF Values
    <3> QED
      BY <2>2, SumSeqEmpty
  <2>4. g[0] \in Seq(S) /\ SumSeq(Values(g[0])) = h[0]
    BY <2>1, <2>3
  <2> HIDE DEF Values
  <2> QED
    BY <2>4
<1>5. ASSUME NEW k \in Nat, k \in D PROVE k + 1 \in D
  <2>0. k + 1 \in Nat
    OBVIOUS
  <2> SUFFICES ASSUME k + 1 <= n
               PROVE  g[k + 1] \in Seq(S) /\ SumSeq(Values(g[k + 1])) = h[k + 1]
    BY <2>0, Zenon
  <2>1. g[k] \in Seq(S) /\ SumSeq(Values(g[k])) = h[k]
    <3> HIDE DEF Values
    <3> QED
      BY <1>1, <1>5
  <2>2. k + 1 \in 1 .. n /\ (k + 1) - 1 = k
    BY <1>1
  <2> DEFINE x == s[k + 1]
  <2>3. h[k + 1] = h[k] + f[x] /\ x \in S /\ f[x] \in Int /\ h[k] \in Int
    <3>1. k \in 0 .. n
      BY <1>1
    <3>2. h[k + 1] = h[k] + v[k + 1] /\ h[k] \in Int
      BY <1>1, <1>3, <2>2, <3>1 DEF PrefixSums
    <3>3. v[k + 1] = f[x] /\ x \in S
      BY <1>1, <2>2
    <3> QED
      BY <3>2, <3>3
  <2>4. g[k + 1] = IF x \in T THEN Append(g[k], x) ELSE g[k]
    BY <1>2, <2>2 DEF KeptOfPrefixes
  <2> HIDE DEF x
  <2>5. CASE x \notin T
    <3>1. g[k + 1] = g[k] /\ f[x] = 0
      BY <2>3, <2>4, <2>5
    <3> HIDE DEF Values
    <3> QED
      BY <2>1, <2>3, <3>1
  <2>6. CASE x \in T
    <3> DEFINE r == g[k]
    <3>1. g[k + 1] = Append(r, x) /\ r \in Seq(S) /\ Append(r, x) \in Seq(S)
      BY <2>1, <2>3, <2>4, <2>6
    <3> HIDE DEF r
    <3>2. /\ Values(r) \in Seq(Int) /\ Len(Values(r)) = Len(r)
          /\ \A i \in 1 .. Len(r) : Values(r)[i] = f[r[i]]
      BY <3>1, SMTT(30)
    <3>3. /\ Values(Append(r, x)) \in Seq(Int) /\ Len(Values(Append(r, x))) = Len(r) + 1
          /\ \A i \in 1 .. Len(r) + 1 : Values(Append(r, x))[i] = f[Append(r, x)[i]]
      <4> DEFINE e == Append(r, x)
      <4>1. e \in Seq(S) /\ Len(e) = Len(r) + 1
        BY <2>3, <3>1
      <4> HIDE DEF e
      <4> QED
        BY <4>1 DEF e
    <3>4. /\ Values(Append(r, x))[Len(r) + 1] = f[x]
          /\ \A i \in 1 .. Len(r) : Values(Append(r, x))[i] = Values(r)[i]
      <4>1. /\ Append(r, x)[Len(r) + 1] = x /\ Len(r) + 1 \in 1 .. Len(r) + 1
            /\ \A i \in 1 .. Len(r) : Append(r, x)[i] = r[i] /\ i \in 1 .. Len(r) + 1
        BY <3>1
      <4> HIDE DEF Values
      <4> QED
        BY <3>2, <3>3, <4>1, ZenonT(30)
    <3>5. SumSeq(Values(Append(r, x))) = SumSeq(Values(r)) + f[x]
      <4> DEFINE a == Values(r)
                 b == Values(Append(r, x))
      <4>1. /\ a \in Seq(Int) /\ b \in Seq(Int) /\ Len(b) = Len(a) + 1
            /\ b[Len(a) + 1] = f[x] /\ \A i \in 1 .. Len(a) : b[i] = a[i]
        <5> HIDE DEF Values
        <5> QED
          BY <3>2, <3>3, <3>4
      <4> HIDE DEF a, b
      <4>2. SumSeq(b) = SumSeq(a) + f[x]
        BY <2>3, <4>1, SumSeqExtended
      <4> QED
        BY <4>2 DEF a, b
    <3> HIDE DEF Values
    <3> QED
      BY <2>1, <2>3, <3>1, <3>5 DEF r
  <2> QED
    BY <2>5, <2>6
<1>6. n \in D
  <2> HIDE DEF D
  <2> QED
    BY <1>1, <1>4, <1>5, SetInduction
<1>7. SumSeq(Values(SelectIn(s, T))) = SumSeq(v)
  <2> HIDE DEF Values
  <2> QED
    BY <1>1, <1>2, <1>3, <1>6
<1> QED
  BY <1>7 DEF v

-----------------------------------------------------------------------------
(* Sums over finite sets *)

\* Induction over the subsets of a finite set, with the property given as the set
\* of subsets that have it.
LEMMA SubsetInduction ==
  ASSUME NEW S, IsFiniteSet(S), NEW D, {} \in D,
         \A T \in SUBSET S : \A x \in S \ T : T \in D => T \cup {x} \in D
  PROVE  SUBSET S \subseteq D
<1> DEFINE N == {n \in Nat : \A T \in SUBSET S : Cardinality(T) = n => T \in D}
<1>1. \A T \in SUBSET S : IsFiniteSet(T) /\ Cardinality(T) \in Nat
  BY FS_Subset, FS_CardinalityType
<1>2. 0 \in N
  BY <1>1, FS_EmptySet
<1>3. ASSUME NEW n \in Nat, n \in N PROVE n + 1 \in N
  <2>1. ASSUME NEW T \in SUBSET S, Cardinality(T) = n + 1 PROVE T \in D
    <3>1. T # {}
      <4>1. Cardinality({}) = 0
        BY FS_EmptySet
      <4>2. n + 1 # 0
        OBVIOUS
      <4> QED
        BY <2>1, <4>1, <4>2, Zenon
    <3>2. PICK x \in T : TRUE
      BY <3>1
    <3> DEFINE U == T \ {x}
    <3>3. U \in SUBSET S /\ x \in S \ U /\ T = U \cup {x}
      BY <3>2
    <3>4. Cardinality(U) = n
      <4>1. IsFiniteSet(T)
        BY <1>1
      <4>2. Cardinality(U) = Cardinality(T) - 1
        BY <3>2, <4>1, FS_RemoveElement
      <4> QED
        BY <2>1, <4>2
    <3>5. U \in D
      BY <1>3, <3>3, <3>4
    <3> HIDE DEF U
    <3> QED
      BY <3>3, <3>5
  <2> QED
    BY <2>1
<1>4. Nat \subseteq N
  <2> HIDE DEF N
  <2> QED
    BY <1>2, <1>3, SetInduction
<1> QED
  BY <1>1, <1>4

\* g lists the sums of f over the subsets of S.
SubsetSums(f, S, g) ==
  /\ g \in [SUBSET S -> Int]
  /\ g[{}] = 0
  /\ \A T \in SUBSET S : \A x \in T : g[T] = f[x] + g[T \ {x}]

\* The sums over the subsets of a set with one more element.
LEMMA SubsetSumsExtended ==
  ASSUME NEW S, NEW x, x \notin S, NEW f, f[x] \in Int, \A y \in S : f[y] \in Int,
         NEW g0, SubsetSums(f, S, g0)
  PROVE  \E g : SubsetSums(f, S \cup {x}, g)
<1> DEFINE g == [T \in SUBSET (S \cup {x}) |->
                   IF x \in T THEN f[x] + g0[T \ {x}] ELSE g0[T]]
<1>1. \A T \in SUBSET (S \cup {x}) :
        /\ T \ {x} \in SUBSET S
        /\ x \notin T => T \in SUBSET S
  OBVIOUS
<1>2. \A T \in SUBSET S : g0[T] \in Int
  BY DEF SubsetSums
<1>3. g \in [SUBSET (S \cup {x}) -> Int]
  <2>1. ASSUME NEW T \in SUBSET (S \cup {x})
        PROVE  (IF x \in T THEN f[x] + g0[T \ {x}] ELSE g0[T]) \in Int
    BY <1>1, <1>2
  <2> QED
    BY <2>1
<1>4. g[{}] = 0
  BY DEF SubsetSums
<1>5. ASSUME NEW T \in SUBSET (S \cup {x}), NEW y \in T
      PROVE  g[T] = f[y] + g[T \ {y}]
  <2>1. T \ {y} \in SUBSET (S \cup {x})
    OBVIOUS
  <2>2. CASE y = x
    <3>1. g[T] = f[x] + g0[T \ {x}] /\ g[T \ {y}] = g0[T \ {x}]
      BY <2>1, <2>2
    <3> QED
      BY <2>2, <3>1
  <2>3. CASE y # x /\ x \in T
    <3>1. g[T] = f[x] + g0[T \ {x}] /\ g[T \ {y}] = f[x] + g0[(T \ {y}) \ {x}]
      BY <2>1, <2>3
    <3>2. (T \ {x}) \ {y} = (T \ {y}) \ {x} /\ y \in T \ {x}
      BY <2>3
    <3>3. g0[T \ {x}] = f[y] + g0[(T \ {y}) \ {x}]
      <4>1. T \ {x} \in SUBSET S
        BY <1>1
      <4>2. \A U \in SUBSET S : \A z \in U : g0[U] = f[z] + g0[U \ {z}]
        BY DEF SubsetSums
      <4>3. g0[T \ {x}] = f[y] + g0[(T \ {x}) \ {y}]
        BY <3>2, <4>1, <4>2, Zenon
      <4> QED
        BY <3>2, <4>3, Zenon
    <3>4. g0[(T \ {y}) \ {x}] \in Int /\ f[y] \in Int
      BY <1>1, <1>2, <2>1, <2>3
    <3> QED
      BY <3>1, <3>3, <3>4
  <2>4. CASE x \notin T
    <3>1. g[T] = g0[T] /\ g[T \ {y}] = g0[T \ {y}]
      BY <2>1, <2>4
    <3>2. g0[T] = f[y] + g0[T \ {y}]
      BY <1>1, <2>4 DEF SubsetSums
    <3> QED
      BY <3>1, <3>2
  <2> QED
    BY <2>2, <2>3, <2>4
<1>6. SubsetSums(f, S \cup {x}, g)
  <2> HIDE DEF g
  <2> QED
    BY <1>3, <1>4, <1>5 DEF SubsetSums
<1> QED
  BY <1>6, Zenon

\* Every finite set of integers has sums.
LEMMA SubsetSumsExist ==
  ASSUME NEW S, IsFiniteSet(S), NEW f, \A x \in S : f[x] \in Int
  PROVE  \E g : SubsetSums(f, S, g)
<1> DEFINE D == {T \in SUBSET S : \E g : SubsetSums(f, T, g)}
<1>1. {} \in D
  <2> DEFINE g == [T \in SUBSET {} |-> 0]
  <2>1. SubsetSums(f, {}, g)
    BY DEF SubsetSums
  <2> HIDE DEF g
  <2> QED
    BY <2>1, Zenon
<1>2. ASSUME NEW T \in SUBSET S, NEW x \in S \ T, T \in D
      PROVE  T \cup {x} \in D
  <2>1. PICK g0 : SubsetSums(f, T, g0)
    BY <1>2
  <2>2. \E g : SubsetSums(f, T \cup {x}, g)
    BY <2>1, SubsetSumsExtended
  <2> QED
    BY <2>2
<1>3. SUBSET S \subseteq D
  <2> HIDE DEF D
  <2> QED
    BY <1>1, <1>2, SubsetInduction
<1> QED
  BY <1>3

\* Sums depend on nothing but the values summed.
LEMMA SubsetSumsAgree ==
  ASSUME NEW S, IsFiniteSet(S), NEW R, S \subseteq R, NEW f, NEW h,
         \A x \in S : f[x] = h[x],
         NEW g, SubsetSums(f, S, g), NEW k, SubsetSums(h, R, k)
  PROVE  \A T \in SUBSET S : g[T] = k[T]
<1> DEFINE D == {T \in SUBSET S : g[T] = k[T]}
<1>1. {} \in D
  BY DEF SubsetSums
<1>2. ASSUME NEW T \in SUBSET S, NEW x \in S \ T, T \in D
      PROVE  T \cup {x} \in D
  <2>1. /\ T \cup {x} \in SUBSET S /\ T \cup {x} \in SUBSET R
        /\ x \in T \cup {x} /\ (T \cup {x}) \ {x} = T
    BY <1>2
  <2>2. \A U \in SUBSET S : \A y \in U : g[U] = f[y] + g[U \ {y}]
    BY DEF SubsetSums
  <2>3. \A U \in SUBSET R : \A y \in U : k[U] = h[y] + k[U \ {y}]
    BY DEF SubsetSums
  <2>4. g[T \cup {x}] = f[x] + g[T]
    BY ONLY <2>1, <2>2, Zenon
  <2>5. k[T \cup {x}] = h[x] + k[T]
    BY ONLY <2>1, <2>3, Zenon
  <2> QED
    BY <1>2, <2>1, <2>4, <2>5
<1>3. SUBSET S \subseteq D
  <2> HIDE DEF D
  <2> QED
    BY <1>1, <1>2, SubsetInduction
<1> QED
  BY <1>3

\* The sum of a function is the sum over its whole domain.
LEMMA SumFunctionIsSum ==
  ASSUME NEW S, IsFiniteSet(S), NEW f, DOMAIN f = S, NEW g, SubsetSums(f, S, g)
  PROVE  SumFunction(f) = g[S]
<1> DEFINE IsIter(k) == k = [T \in SUBSET S |->
                               IF T = {} THEN 0
                               ELSE f[CHOOSE x \in T : TRUE] + k[T \ {CHOOSE x \in T : TRUE}]]
           iter == CHOOSE k : IsIter(k)
<1>1. SumFunction(f) = iter[S]
  BY Zenon DEF SumFunction, SumFunctionOnSet, FoldFunctionOnSet, MapThenFoldSet
<1>2. \A T \in SUBSET S : T # {} => (CHOOSE x \in T : TRUE) \in T
  OBVIOUS
<1>3. IsIter(g)
  <2>1. ASSUME NEW T \in SUBSET S
        PROVE  g[T] = IF T = {} THEN 0
                      ELSE f[CHOOSE x \in T : TRUE] + g[T \ {CHOOSE x \in T : TRUE}]
    BY <1>2 DEF SubsetSums
  <2>2. g = [T \in SUBSET S |-> g[T]]
    BY DEF SubsetSums
  <2> QED
    BY <2>1, <2>2
<1>4. IsIter(iter)
  <2> HIDE DEF IsIter
  <2> QED
    BY <1>3, Zenon
<1> HIDE DEF iter
<1> DEFINE N == {n \in Nat : \A T \in SUBSET S : Cardinality(T) = n => iter[T] = g[T]}
<1>5. \A T \in SUBSET S : IsFiniteSet(T) /\ Cardinality(T) \in Nat
  BY FS_Subset, FS_CardinalityType
<1>6. 0 \in N
  <2>1. \A T \in SUBSET S : Cardinality(T) = 0 => T = {}
    BY <1>5, FS_EmptySet
  <2>2. iter[{}] = 0 /\ g[{}] = 0
    BY <1>4 DEF SubsetSums
  <2> QED
    BY <2>1, <2>2
<1>7. ASSUME NEW n \in Nat, n \in N PROVE n + 1 \in N
  <2>1. ASSUME NEW T \in SUBSET S, Cardinality(T) = n + 1 PROVE iter[T] = g[T]
    <3>1. T # {}
      <4>1. Cardinality({}) = 0
        BY FS_EmptySet
      <4>2. n + 1 # 0
        OBVIOUS
      <4> QED
        BY <2>1, <4>1, <4>2, Zenon
    <3> DEFINE x == CHOOSE y \in T : TRUE
               U == T \ {x}
    <3>2. x \in T /\ U \in SUBSET S
      BY <1>2, <3>1
    <3>3. Cardinality(U) = n
      <4>1. IsFiniteSet(T)
        BY <1>5
      <4>2. Cardinality(U) = Cardinality(T) - 1
        BY <3>2, <4>1, FS_RemoveElement
      <4> QED
        BY <2>1, <4>2
    <3>4. iter[U] = g[U]
      BY <1>7, <3>2, <3>3
    <3>5. iter[T] = f[x] + iter[U]
      BY <1>4, <3>1
    <3>6. g[T] = f[x] + g[U]
      BY <3>2 DEF SubsetSums
    <3> QED
      BY <3>4, <3>5, <3>6
  <2> QED
    BY <2>1
<1>8. Nat \subseteq N
  <2> HIDE DEF N
  <2> QED
    BY <1>6, <1>7, SetInduction
<1> QED
  BY <1>1, <1>5, <1>8

\* The sum of a function with a finite domain is a number.
LEMMA SumFunctionType ==
  ASSUME NEW S, IsFiniteSet(S), NEW f \in [S -> Int]
  PROVE  SumFunction(f) \in Int
<1>1. PICK g : SubsetSums(f, S, g)
  BY SubsetSumsExist
<1>2. SumFunction(f) = g[S]
  BY <1>1, SumFunctionIsSum
<1>3. g[S] \in Int
  BY <1>1 DEF SubsetSums
<1> QED
  BY <1>2, <1>3

\* A sum over nothing.
LEMMA SumFunctionEmpty ==
  ASSUME NEW f, DOMAIN f = {}
  PROVE  SumFunction(f) = 0
<1>1. IsFiniteSet({}) /\ \A x \in {} : f[x] \in Int
  BY FS_EmptySet
<1>2. PICK g : SubsetSums(f, {}, g)
  BY <1>1, SubsetSumsExist
<1>3. SumFunction(f) = g[{}]
  BY <1>1, <1>2, SumFunctionIsSum
<1> QED
  BY <1>2, <1>3 DEF SubsetSums

\* One element more, or one element less.
LEMMA SumFunctionExtended ==
  ASSUME NEW S, IsFiniteSet(S), NEW x, x \notin S, NEW f \in [S \cup {x} -> Int],
         NEW h, h = [y \in S |-> f[y]]
  PROVE  SumFunction(f) = f[x] + SumFunction(h) /\ SumFunction(h) \in Int
<1> DEFINE R == S \cup {x}
<1>0. IsFiniteSet(R)
  BY FS_AddElement
<1>1. PICK k : SubsetSums(f, R, k)
  BY <1>0, SubsetSumsExist
<1>2. h \in [S -> Int] /\ DOMAIN h = S /\ DOMAIN f = R /\ \A y \in S : h[y] = f[y]
  OBVIOUS
<1>3. PICK g : SubsetSums(h, S, g)
  BY <1>2, SubsetSumsExist
<1>4. SumFunction(f) = k[R] /\ SumFunction(h) = g[S]
  BY <1>0, <1>1, <1>2, <1>3, SumFunctionIsSum
<1>5. g[S] = k[S]
  <2>1. S \subseteq R
    OBVIOUS
  <2>2. \A T \in SUBSET S : g[T] = k[T]
    <3>1. \A y \in S : h[y] = f[y]
      BY <1>2
    <3> HIDE DEF R
    <3> QED
      BY ONLY IsFiniteSet(S), <1>1, <1>3, <2>1, <3>1, SubsetSumsAgree, SMT
  <2> QED
    BY <2>2
<1>6. k[R] = f[x] + k[S]
  <2>1. x \in R /\ R \ {x} = S /\ R \in SUBSET R
    OBVIOUS
  <2>2. \A T \in SUBSET R : \A y \in T : k[T] = f[y] + k[T \ {y}]
    BY <1>1 DEF SubsetSums
  <2> QED
    BY <2>1, <2>2, Zenon
<1>7. SumFunction(h) \in Int
  BY <1>2, SumFunctionType
<1> QED
  BY <1>4, <1>5, <1>6, <1>7

\* No less is summed over more elements, or of larger values, none of them negative.
LEMMA SumFunctionMonotone ==
  ASSUME NEW S, IsFiniteSet(S), NEW R \in SUBSET S, NEW f \in [R -> Int], NEW h \in [S -> Int],
         \A x \in R : f[x] <= h[x], \A x \in S \ R : h[x] >= 0
  PROVE  SumFunction(f) <= SumFunction(h)
<1>0. IsFiniteSet(R)
  BY FS_Subset
<1>1. PICK g : SubsetSums(f, R, g)
  BY <1>0, SubsetSumsExist
<1>2. PICK k : SubsetSums(h, S, k)
  BY SubsetSumsExist
<1>3. SumFunction(f) = g[R] /\ SumFunction(h) = k[S]
  BY <1>0, <1>1, <1>2, SumFunctionIsSum
<1> DEFINE D == {T \in SUBSET S : g[T \cap R] <= k[T]}
<1>4. {} \in D
  <2>1. {} \cap R = {} /\ g[{}] = 0 /\ k[{}] = 0
    BY <1>1, <1>2 DEF SubsetSums
  <2> QED
    BY <2>1
<1>5. ASSUME NEW T \in SUBSET S, NEW x \in S \ T, T \in D
      PROVE  T \cup {x} \in D
  <2> DEFINE U == T \cup {x}
  <2>1. U \in SUBSET S /\ x \in U /\ U \ {x} = T
    BY <1>5
  <2>2. \A V \in SUBSET S : k[V] \in Int /\ \A y \in V : k[V] = h[y] + k[V \ {y}]
    BY <1>2 DEF SubsetSums
  <2>3. \A V \in SUBSET R : g[V] \in Int /\ \A y \in V : g[V] = f[y] + g[V \ {y}]
    BY <1>1 DEF SubsetSums
  <2>4. k[U] = h[x] + k[T]
    BY <2>1, <2>2, Zenon
  <2>5. k[T] \in Int /\ g[T \cap R] \in Int /\ g[T \cap R] <= k[T] /\ h[x] \in Int
    <3>1. T \cap R \in SUBSET R
      OBVIOUS
    <3> QED
      BY <1>5, <2>2, <2>3, <3>1
  <2>6. CASE x \in R
    <3>1. U \cap R \in SUBSET R /\ x \in U \cap R /\ (U \cap R) \ {x} = T \cap R
      BY <1>5, <2>6
    <3>2. g[U \cap R] = f[x] + g[T \cap R]
      BY <2>3, <3>1, Zenon
    <3>3. f[x] \in Int /\ f[x] <= h[x]
      BY <2>6
    <3> QED
      BY <2>1, <2>4, <2>5, <3>2, <3>3
  <2>7. CASE x \notin R
    <3>1. U \cap R = T \cap R
      BY <2>7
    <3>2. h[x] >= 0
      BY <1>5, <2>7
    <3>3. g[U \cap R] = g[T \cap R]
      BY <3>1
    <3>4. g[U \cap R] <= k[U]
      BY <2>4, <2>5, <3>2, <3>3
    <3> QED
      BY <2>1, <3>4
  <2> QED
    BY <2>6, <2>7
<1>6. SUBSET S \subseteq D
  <2> HIDE DEF D
  <2> QED
    BY <1>4, <1>5, SubsetInduction
<1>7. S \in D /\ S \cap R = R
  BY <1>6
<1> QED
  BY <1>3, <1>7
=============================================================================
