-------------------------------- MODULE Basics --------------------------------
(* Facts about numbers, finite sequences and functions computed step by step,    *)
(* which the proofs about the components share.  Induction is over sets of       *)
(* numbers: a set that has no least element is empty.                            *)
EXTENDS Integers, Sequences, FiniteSets, FiniteSetTheorems, SequenceTheorems, WellFoundedInduction, TLAPS

-----------------------------------------------------------------------------
(* Numbers *)

\* A set of naturals that is not empty has a least element.
LEMMA LeastOf ==
    ASSUME NEW S \in SUBSET Nat, S # {}
    PROVE  \E m \in S : \A n \in S : m <= n
<1> DEFINE R == {ss \in Nat \X Nat : ss[1] < ss[2]}
<1>1. IsWellFoundedOn(R, Nat)
  BY NatLessThanWellFounded DEF OpToRel
<1>2. \E m \in S : \A n \in S : ~(<<n, m>> \in R)
  <2> HIDE DEF R
  <2> QED
    BY <1>1, WFMin
<1>3. \A m, n \in S : <<n, m>> \notin R => m <= n
  OBVIOUS
<1> QED
  BY <1>2, <1>3

\* S has, with a number from base up to below top, the next one too.
Climbs(S, base, top) == \A n \in base..(top - 1) : n \in S => n + 1 \in S

\* Such a set that holds base holds all numbers up to top.
LEMMA Climb ==
    ASSUME NEW base \in Int, NEW top \in Int, NEW S, base \in S, Climbs(S, base, top)
    PROVE  \A n \in base..top : n \in S
<1> DEFINE Lacking == {k \in Nat : base + k <= top /\ base + k \notin S}
<1>1. CASE Lacking = {}
  <2> SUFFICES ASSUME NEW n \in base..top PROVE n \in S
    OBVIOUS
  <2>1. n - base \in Nat /\ base + (n - base) = n /\ n <= top
    OBVIOUS
  <2>2. n - base \notin Lacking
    BY <1>1
  <2> QED
    BY <2>1, <2>2
<1>2. CASE Lacking # {}
  <2>1. PICK m \in Lacking : \A k \in Lacking : m <= k
    BY <1>2, LeastOf
  <2>2. m # 0
    BY <2>1
  <2>3. m - 1 \in Nat /\ base + (m - 1) \in base..(top - 1) /\ base + (m - 1) + 1 = base + m
    BY <2>1, <2>2
  <2>4. base + (m - 1) \in S
    BY <2>1, <2>3
  <2> QED
    BY <2>1, <2>3, <2>4 DEF Climbs
<1> QED
  BY <1>1, <1>2

\* A set of numbers with a bound has a greatest element.
LEMMA GreatestOf ==
    ASSUME NEW bound \in Int, NEW S \in SUBSET Int, S # {}, \A n \in S : n <= bound
    PROVE  \E m \in S : \A n \in S : n <= m
<1> DEFINE Below == {k \in Nat : bound - k \in S}
<1>1. \A n \in S : n \in Int /\ bound - n \in Nat /\ bound - (bound - n) = n
  OBVIOUS
<1>2. \A n \in S : bound - n \in Below
  BY <1>1
<1>3. PICK b \in Below : \A c \in Below : b <= c
  <2>1. Below # {}
    BY <1>2
  <2> QED
    BY <2>1, LeastOf
<1>4. \A n \in S : b <= bound - n
  BY <1>2, <1>3
<1>5. \A n \in S : n <= bound - b
  BY <1>1, <1>4
<1> QED
  BY <1>3, <1>5

\* And one bounded from below a least.
LEMMA LeastAbove ==
    ASSUME NEW bound \in Int, NEW S \in SUBSET Int, S # {}, \A n \in S : bound <= n
    PROVE  \E m \in S : \A n \in S : m <= n
<1> DEFINE Above == {k \in Nat : bound + k \in S}
<1>1. \A n \in S : n \in Int /\ n - bound \in Nat /\ bound + (n - bound) = n
  OBVIOUS
<1>2. \A n \in S : n - bound \in Above
  BY <1>1
<1>3. PICK b \in Above : \A c \in Above : b <= c
  <2>1. Above # {}
    BY <1>2
  <2> QED
    BY <2>1, LeastOf
<1>4. \A n \in S : b <= n - bound
  BY <1>2, <1>3
<1>5. \A n \in S : bound + b <= n
  BY <1>1, <1>4
<1> QED
  BY <1>3, <1>5

\* A finite set of numbers has a greatest element.
LEMMA FiniteGreatest ==
    ASSUME NEW S \in SUBSET Int, IsFiniteSet(S), S # {}
    PROVE  \E m \in S : \A n \in S : n <= m
<1>1. PICK c \in Nat : ExistsBijection(1..c, S)
  BY FS_NatBijection
<1>2. PICK f \in [1..c -> S] : \A x \in S : \E i \in 1..c : f[i] = x
  BY <1>1 DEF ExistsBijection, Bijection, Surjection
<1>3. \A i \in 1..c : f[i] \in Int
  <2>1. \A i \in 1..c : f[i] \in S
    BY <1>2
  <2> QED
    BY <2>1
<1> DEFINE Bounded == {k \in 0..c : \E b \in Int : \A i \in 1..k : f[i] <= b}
<1>4. 0 \in Bounded
  <2>1. 0 \in Int /\ \A i \in 1..0 : f[i] <= 0
    OBVIOUS
  <2> QED
    BY <1>1, <2>1
<1>5. ASSUME NEW k \in 0..(c - 1), k \in Bounded PROVE k + 1 \in Bounded
  <2>1. PICK b \in Int : \A i \in 1..k : f[i] <= b
    BY <1>5
  <2>2. k + 1 \in 1..c /\ k + 1 \in 0..c /\ f[k+1] \in Int
    BY <1>1, <1>3
  <2>3. PICK d \in Int : b <= d /\ f[k+1] <= d
    <3>1. b <= f[k+1] \/ f[k+1] <= b
      BY <2>2
    <3> QED
      BY <2>2, <3>1
  <2>4. ASSUME NEW i \in 1..(k+1) PROVE f[i] <= d
    <3>1. CASE i \in 1..k
      <4>1. i \in 1..c /\ f[i] \in Int
        BY <1>1, <1>3, <3>1
      <4> QED
        BY <2>1, <2>3, <3>1, <4>1
    <3>2. CASE i = k+1
      BY <2>3, <3>2
    <3> QED
      BY <3>1, <3>2
  <2> QED
    BY <2>2, <2>4
<1>6. c \in Bounded
  <2>1. Climbs(Bounded, 0, c)
    BY <1>5 DEF Climbs
  <2> HIDE DEF Bounded
  <2>2. \A k \in 0..c : k \in Bounded
    BY <1>4, <2>1, Climb
  <2> QED
    BY <2>2
<1>7. PICK b \in Int : \A i \in 1..c : f[i] <= b
  BY <1>6
<1>8. \A n \in S : n <= b
  BY <1>2, <1>7
<1> QED
  BY <1>8, GreatestOf

\* What a function makes of a finite set is finite.
LEMMA FiniteImage ==
    ASSUME NEW S, IsFiniteSet(S), NEW f
    PROVE  IsFiniteSet({f[x] : x \in S})
<1> DEFINE T == {f[x] : x \in S}
           g == [x \in S |-> f[x]]
<1>1. g \in Surjection(S, T)
  BY DEF Surjection
<1> HIDE DEF g, T
<1> QED
  BY <1>1, FS_Surjection DEF T

\* The places of a sequence up to one where something ceases to hold are counted by it.
LEMMA PrefixCount ==
    ASSUME NEW n \in Nat, NEW S \in SUBSET (1..n),
           \A i \in S : \A j \in 1..i : j \in S
    PROVE  Cardinality(S) \in 0..n /\ S = 1..Cardinality(S)
<1>1. CASE S = {}
  BY <1>1, FS_EmptySet
<1>2. CASE S # {}
  <2>1. n \in Int /\ S \in SUBSET Int
    OBVIOUS
  <2>2. \A i \in S : i <= n
    OBVIOUS
  <2>3. PICK m \in S : \A i \in S : i <= m
    BY <1>2, <2>1, <2>2, GreatestOf
  <2>4. S = 1..m
    <3>1. \A i \in S : i \in 1..m
      BY <2>3
    <3>2. \A i \in 1..m : i \in S
      BY <2>3
    <3> QED
      BY <3>1, <3>2
  <2>5. Cardinality(1..m) = m
    BY <2>3, FS_Interval
  <2> QED
    BY <2>3, <2>4, <2>5
<1> QED
  BY <1>1, <1>2

-----------------------------------------------------------------------------
(* Sequences *)

Begin(s, k) == SubSeq(s, 1, k)

\* A front grows by one place at a time, and is in the end the sequence.
LEMMA Begins ==
    ASSUME NEW S, NEW s \in Seq(S)
    PROVE  /\ Begin(s, 0) = <<>> /\ Begin(s, Len(s)) = s
           /\ \A k \in 0..Len(s) : Begin(s, k) \in Seq(S) /\ Len(Begin(s, k)) = k
           /\ \A k \in 0..(Len(s) - 1) : s[k+1] \in S /\ Begin(s, k+1) = Append(Begin(s, k), s[k+1])
BY DEF Begin

\* Adding to the second of two sequences is adding to their concatenation.
LEMMA ConcatAppend ==
    ASSUME NEW S, NEW s \in Seq(S), NEW t \in Seq(S), NEW e \in S
    PROVE  /\ s \o t \in Seq(S) /\ s \o <<>> = s /\ <<>> \o s = s
           /\ s \o Append(t, e) = Append(s \o t, e)
OBVIOUS

\* What follows the first places of a sequence.
LEMMA Follows ==
    ASSUME NEW S, NEW s \in Seq(S), NEW d \in 0..Len(s)
    PROVE  /\ SubSeq(s, d+1, Len(s)) \in Seq(S)
           /\ Len(SubSeq(s, d+1, Len(s))) = Len(s) - d
           /\ \A i \in 1..(Len(s) - d) : SubSeq(s, d+1, Len(s))[i] = s[i+d]
<1>1. Len(s) \in Nat /\ d \in Nat /\ d <= Len(s)
  OBVIOUS
<1> QED
  BY <1>1

\* A sequence is its front and the rest, its head and its tail.
LEMMA Halves ==
    ASSUME NEW S, NEW s \in Seq(S), NEW k \in 0..Len(s)
    PROVE  /\ SubSeq(s, k+1, Len(s)) \in Seq(S)
           /\ s = Begin(s, k) \o SubSeq(s, k+1, Len(s))
<1> DEFINE b == Begin(s, k)
           t == SubSeq(s, k+1, Len(s))
           n == Len(s)
<1>1. n \in Nat /\ k \in Nat /\ k <= n
  OBVIOUS
<1>2. t \in Seq(S) /\ Len(t) = n - k /\ \A i \in 1..(n - k) : t[i] = s[k+i]
  BY <1>1
<1>3. b \in Seq(S) /\ Len(b) = k /\ \A i \in 1..k : b[i] = s[i]
  BY <1>1 DEF Begin
<1>4. s \in Seq(S) /\ Len(s) = n
  OBVIOUS
<1> HIDE DEF t, b, n
<1>5. b \o t \in Seq(S) /\ Len(b \o t) = n
  <2>1. b \o t \in Seq(S) /\ Len(b \o t) = Len(b) + Len(t)
    BY <1>2, <1>3, ConcatProperties
  <2>2. k + (n - k) = n
    BY <1>1
  <2> QED
    BY <1>2, <1>3, <2>1, <2>2
<1>6. \A i \in 1..n : (b \o t)[i] = s[i]
  <2> SUFFICES ASSUME NEW i \in 1..n PROVE (b \o t)[i] = s[i]
    OBVIOUS
  <2>3. i <= k \/ i > k
    BY <1>1
  <2>1. CASE i <= k
    BY <1>1, <1>2, <1>3, <2>1
  <2>2. CASE i > k
    <3>1. i - k \in 1..(n - k) /\ k + (i - k) = i
      BY <1>1, <2>2
    <3>2. (b \o t)[i] = t[i - k]
      BY <1>1, <1>2, <1>3, <2>2
    <3> QED
      BY <1>2, <3>1, <3>2
  <2> QED
    BY <2>1, <2>2, <2>3, Zenon
<1>7. s = b \o t
  BY <1>4, <1>5, <1>6, SeqEqual
<1> QED
  BY <1>2, <1>7 DEF t, b, n

-----------------------------------------------------------------------------
(* Functions computed step by step *)

\* f takes n steps from base.
Takes(f, n, base, step) == f[0] = base /\ \A i \in 1..n : f[i] = step[i][f[i-1]]

\* Whatever the steps are, as long as they stay in S, there is a function that takes them.
LEMMA StepsExist ==
    ASSUME NEW n \in Nat, NEW S, NEW base \in S, NEW step \in [1..n -> [S -> S]]
    PROVE  \E f \in [0..n -> S] : Takes(f, n, base, step)
<1> DEFINE Reached == {k \in 0..n : \E f \in [0..k -> S] : Takes(f, k, base, step)}
<1>1. 0 \in Reached
  <2> DEFINE f == [i \in 0..0 |-> base]
  <2>1. f \in [0..0 -> S] /\ Takes(f, 0, base, step)
    BY DEF Takes
  <2> QED
    BY <2>1
<1>2. ASSUME NEW k \in 0..(n-1), k \in Reached PROVE k+1 \in Reached
  <2>1. PICK f \in [0..k -> S] : Takes(f, k, base, step)
    BY <1>2
  <2> DEFINE g == [i \in 0..(k+1) |-> IF i <= k THEN f[i] ELSE step[k+1][f[k]]]
  <2>2. step[k+1][f[k]] \in S
    <3>1. k+1 \in 1..n /\ k \in 0..k
      OBVIOUS
    <3>2. f[k] \in S
      BY <3>1
    <3> QED
      BY <3>1, <3>2
  <2>3. g \in [0..(k+1) -> S] /\ g[0] = base
    BY <2>1, <2>2 DEF Takes
  <2>4. ASSUME NEW i \in 1..(k+1) PROVE g[i] = step[i][g[i-1]]
    <3>1. CASE i <= k
      <4>1. i \in 1..k /\ i-1 \in 0..k
        BY <3>1
      <4> QED
        BY <2>1, <3>1, <4>1 DEF Takes
    <3>2. CASE i = k+1
      <4>1. g[k+1] = step[k+1][f[k]] /\ g[k] = f[k] /\ (k+1) - 1 = k
        OBVIOUS
      <4> QED
        BY <3>2, <4>1
    <3> QED
      BY <3>1, <3>2
  <2>5. k+1 \in 0..n /\ Takes(g, k+1, base, step)
    <3> HIDE DEF g
    <3> QED
      BY <2>3, <2>4 DEF Takes
  <2> HIDE DEF g
  <2> QED
    BY <2>3, <2>5
<1>3. n \in Reached
  <2>1. Climbs(Reached, 0, n)
    BY <1>2 DEF Climbs
  <2> HIDE DEF Reached
  <2>2. \A k \in 0..n : k \in Reached
    BY <1>1, <2>1, Climb
  <2> QED
    BY <2>2
<1> QED
  BY <1>3
=============================================================================
