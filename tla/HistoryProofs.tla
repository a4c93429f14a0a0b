----------------------------- MODULE HistoryProofs -----------------------------
(* Proofs about the HTTP client's rate limiter, the look at the calendar and the  *)
(* verified coverage of the historical cache (HttpClient, MarketWatch,            *)
(* HistoryCache), as behaviours of the program they run in (Scanner).             *)
EXTENDS Scanner, Basics

-----------------------------------------------------------------------------
(* The rate limiter *)

\* Ages of what happened one after the other.
Aging(ages) == ages \in Seq(Nat) /\ \A i, j \in 1..Len(ages) : i <= j => ages[j] <= ages[i]

\* A window is the tail of the calls: it holds every call younger than its length.
Recent(window, len, calls) ==
    \A i \in 1..Len(calls) : calls[i] < len =>
        /\ Len(calls) - i < Len(window)
        /\ window[Len(window) - (Len(calls) - i)] = calls[i]

RateInv ==
    /\ Aging(sec) /\ Aging(min) /\ Aging(admitted)
    /\ \A i \in 1..Len(admitted) : admitted[i] < MinLen
    /\ Recent(sec, SecLen, admitted) /\ Recent(min, MinLen, admitted)
    /\ RateKept

\* What is popped from a window is what is too old, and only that.
LEMMA YoungerDrops ==
    ASSUME NEW ages, Aging(ages), NEW len \in Nat
    PROVE  \E d \in 0..Len(ages) :
               /\ Aging(Younger(ages, len)) /\ Len(Younger(ages, len)) = Len(ages) - d
               /\ \A i \in 1..(Len(ages) - d) : Younger(ages, len)[i] = ages[i+d]
               /\ \A i \in 1..Len(ages) : ages[i] >= len <=> i <= d
<1> DEFINE n == Len(ages)
           d == Cardinality(Gone(ages, len))
<1>1. ages \in Seq(Nat) /\ n \in Nat /\ DOMAIN ages = 1..n
  BY DEF Aging
<1>2. \A i \in 1..n : ages[i] \in Nat
  BY <1>1
<1>3. Gone(ages, len) \in SUBSET (1..n) /\ \A i \in Gone(ages, len) : \A j \in 1..i : j \in Gone(ages, len)
  BY <1>1 DEF Gone
<1>4. d \in 0..n /\ Gone(ages, len) = 1..d
  <2> HIDE DEF n
  <2> QED
    BY <1>1, <1>3, PrefixCount
<1>5. ASSUME NEW i \in 1..n PROVE ages[i] >= len <=> i <= d
  <2>1. CASE i <= d
    <3>1. i \in Gone(ages, len)
      BY <1>4, <2>1
    <3> QED
      BY <1>1, <2>1, <3>1 DEF Gone
  <2>2. CASE i > d
    <3>1. d+1 \in 1..n /\ d+1 <= i /\ d+1 \notin Gone(ages, len)
      BY <1>1, <1>4, <2>2
    <3>2. PICK j \in 1..(d+1) : ~(ages[j] >= len)
      BY <1>1, <3>1 DEF Gone
    <3>3. j = d+1
      <4>1. CASE j \in 1..d
        <5>1. j \in Gone(ages, len)
          BY <1>4, <4>1
        <5> QED
          BY <1>4, <3>2, <5>1 DEF Gone
      <4> QED
        BY <1>4, <4>1
    <3>4. ages[i] <= ages[d+1]
      BY <3>1 DEF Aging
    <3>5. ages[i] \in Nat /\ ages[d+1] \in Nat /\ ~(ages[d+1] >= len)
      BY <1>2, <3>1, <3>2, <3>3
    <3>6. ~(ages[i] >= len) /\ ~(i <= d)
      BY <1>1, <1>4, <2>2, <3>4, <3>5
    <3> QED
      BY <3>6
  <2>3. i <= d \/ i > d
    BY <1>4
  <2> QED
    BY <2>1, <2>2, <2>3
<1>7. Younger(ages, len) = SubSeq(ages, d+1, Len(ages))
  BY DEF Younger
<1> HIDE DEF d, n
<1>8. /\ Younger(ages, len) \in Seq(Nat) /\ Len(Younger(ages, len)) = n - d
      /\ \A i \in 1..(n - d) : Younger(ages, len)[i] = ages[i+d]
  <2>1. d \in 0..Len(ages)
    BY <1>4 DEF n
  <2> QED
    BY <1>1, <1>7, <2>1, Follows DEF n
<1>9. \A i \in 1..(n - d) : i+d \in 1..n
  BY <1>1, <1>4
<1>10. Aging(Younger(ages, len))
  <2> SUFFICES ASSUME NEW i \in 1..(n - d), NEW j \in 1..(n - d), i <= j
               PROVE  Younger(ages, len)[j] <= Younger(ages, len)[i]
    BY <1>8 DEF Aging
  <2>1. i+d \in 1..n /\ j+d \in 1..n /\ i+d <= j+d
    BY <1>1, <1>4, <1>9
  <2>2. ages[j+d] <= ages[i+d]
    BY <2>1 DEF Aging, n
  <2> QED
    BY <1>8, <2>2
<1> QED
  BY <1>4, <1>5, <1>8, <1>10 DEF n

\* Popping what is too old loses nothing that is recent.
LEMMA YoungerRecent ==
    ASSUME NEW w, Aging(w), NEW len \in Nat, NEW calls, Aging(calls), Recent(w, len, calls)
    PROVE  Recent(Younger(w, len), len, calls)
<1>1. PICK d \in 0..Len(w) :
          /\ Aging(Younger(w, len)) /\ Len(Younger(w, len)) = Len(w) - d
          /\ \A i \in 1..(Len(w) - d) : Younger(w, len)[i] = w[i+d]
          /\ \A i \in 1..Len(w) : w[i] >= len <=> i <= d
  BY YoungerDrops
<1> DEFINE m == Len(w)
           n == Len(calls)
           y == Younger(w, len)
<1>2. m \in Nat /\ n \in Nat /\ d \in Nat /\ d <= m /\ \A i \in 1..n : calls[i] \in Nat
  BY DEF Aging
<1> HIDE DEF m, n, y
<1> SUFFICES ASSUME NEW i \in 1..n, calls[i] < len
             PROVE  n - i < m - d /\ y[(m - d) - (n - i)] = calls[i]
  BY <1>1 DEF Recent, n, m, y
<1>3. n - i < m /\ w[m - (n - i)] = calls[i]
  BY DEF Recent, n, m
<1>4. m - (n - i) \in 1..m
  BY <1>2, <1>3
<1>5. m - (n - i) > d
  <2>1. ~(w[m - (n - i)] >= len)
    BY <1>2, <1>3
  <2> QED
    BY <1>1, <1>2, <1>4, <2>1 DEF m
<1>6. (m - d) - (n - i) \in 1..(m - d) /\ ((m - d) - (n - i)) + d = m - (n - i)
  BY <1>2, <1>4, <1>5
<1>7. y[(m - d) - (n - i)] = w[m - (n - i)]
  BY <1>1, <1>6 DEF m, y
<1>8. n - i < m - d
  BY <1>2, <1>5
<1> QED
  BY <1>3, <1>7, <1>8

\* A new call is the youngest.
LEMMA AppendAges ==
    ASSUME NEW ages, Aging(ages)
    PROVE  /\ Aging(Append(ages, 0)) /\ Len(Append(ages, 0)) = Len(ages) + 1
           /\ Append(ages, 0)[Len(ages) + 1] = 0
           /\ \A i \in 1..Len(ages) : Append(ages, 0)[i] = ages[i]
<1> DEFINE n == Len(ages)
           a == Append(ages, 0)
<1>1. ages \in Seq(Nat) /\ n \in Nat
  BY DEF Aging
<1>2. a \in Seq(Nat) /\ Len(a) = n + 1 /\ a[n+1] = 0 /\ \A i \in 1..n : a[i] = ages[i]
  BY <1>1
<1> HIDE DEF n, a
<1>3. ASSUME NEW i \in 1..(n+1), NEW j \in 1..(n+1), i <= j PROVE a[j] <= a[i]
  <2>1. CASE j <= n
    <3>1. i \in 1..n /\ j \in 1..n
      BY <1>1, <1>3, <2>1
    <3> QED
      BY <1>2, <1>3, <3>1 DEF Aging, n
  <2>2. CASE j > n
    <3>1. a[j] = 0 /\ a[i] \in Nat
      BY <1>1, <1>2, <2>2
    <3> QED
      BY <3>1
  <2>3. j <= n \/ j > n
    BY <1>1
  <2> QED
    BY <2>1, <2>2, <2>3
<1> QED
  BY <1>2, <1>3 DEF Aging, n, a

\* A window stays the tail of all calls when a call enters both.
LEMMA AppendRecent ==
    ASSUME NEW w, Aging(w), NEW len \in Nat, NEW calls, Aging(calls), Recent(w, len, calls)
    PROVE  Recent(Append(w, 0), len, Append(calls, 0))
<1> DEFINE m == Len(w)
           n == Len(calls)
           w2 == Append(w, 0)
           c2 == Append(calls, 0)
<1>1. m \in Nat /\ n \in Nat
  BY DEF Aging
<1>2. /\ Len(w2) = m + 1 /\ w2[m+1] = 0 /\ \A i \in 1..m : w2[i] = w[i]
      /\ Len(c2) = n + 1 /\ c2[n+1] = 0 /\ \A i \in 1..n : c2[i] = calls[i]
  BY AppendAges
<1>3. \A i \in 1..n : calls[i] < len => n - i < m /\ w[m - (n - i)] = calls[i]
  BY DEF Recent
<1> HIDE DEF m, n, w2, c2
<1> SUFFICES ASSUME NEW i \in 1..(n+1), c2[i] < len
             PROVE  (n+1) - i < m+1 /\ w2[(m+1) - ((n+1) - i)] = c2[i]
  BY <1>2 DEF Recent, w2, c2
<1>4. CASE i <= n
  <2>1. i \in 1..n /\ calls[i] < len
    BY <1>1, <1>2, <1>4
  <2>2. n - i < m /\ w[m - (n - i)] = calls[i] /\ m - (n - i) \in 1..m /\ m - (n - i) = (m+1) - ((n+1) - i)
    BY <1>1, <1>3, <2>1
  <2> QED
    BY <1>1, <1>2, <2>1, <2>2
<1>5. CASE i = n+1
  <2>1. (n+1) - i = 0 /\ (m+1) - ((n+1) - i) = m+1
    BY <1>1, <1>5
  <2> QED
    BY <1>1, <1>2, <1>5, <2>1
<1> QED
  BY <1>1, <1>4, <1>5

\* Time makes every age grow, up to the length of its window.
LEMMA OlderAges ==
    ASSUME NEW ages, Aging(ages), NEW len \in Nat
    PROVE  /\ Aging(Older(ages, len)) /\ Len(Older(ages, len)) = Len(ages)
           /\ \A i \in 1..Len(ages) : Older(ages, len)[i] = IF ages[i] < len THEN ages[i] + 1 ELSE len
<1> DEFINE n == Len(ages)
           o == Older(ages, len)
<1>1. ages \in Seq(Nat) /\ n \in Nat /\ DOMAIN ages = 1..n /\ \A i \in 1..n : ages[i] \in Nat
  BY DEF Aging
<1>2. o = [i \in 1..n |-> IF ages[i] < len THEN ages[i] + 1 ELSE len]
  BY <1>1 DEF Older
<1>3. \A i \in 1..n : o[i] = IF ages[i] < len THEN ages[i] + 1 ELSE len
  BY <1>2
<1>4. o \in Seq(Nat) /\ Len(o) = n
  <2>1. \A i \in 1..n : o[i] \in Nat
    BY <1>1, <1>3
  <2>2. o \in [1..n -> Nat]
    BY <1>2, <2>1
  <2> HIDE DEF o, n
  <2> QED
    BY <1>1, <2>2
<1> HIDE DEF n, o
<1>5. ASSUME NEW i \in 1..n, NEW j \in 1..n, i <= j PROVE o[j] <= o[i]
  <2>1. ages[j] <= ages[i] /\ ages[i] \in Nat /\ ages[j] \in Nat
    BY <1>1, <1>5 DEF Aging, n
  <2> QED
    BY <1>3, <2>1
<1> QED
  BY <1>3, <1>4, <1>5 DEF Aging, n, o

\* Time leaves a window the tail of the calls.
LEMMA OlderRecent ==
    ASSUME NEW w, Aging(w), NEW len \in Nat, NEW long \in Nat, len <= long,
           NEW calls, Aging(calls), Recent(w, len, calls)
    PROVE  Recent(Older(w, len), len, Older(calls, long))
<1> DEFINE m == Len(w)
           n == Len(calls)
           w2 == Older(w, len)
           c2 == Older(calls, long)
<1>1. m \in Nat /\ n \in Nat /\ \A i \in 1..n : calls[i] \in Nat
  BY DEF Aging
<1>2. Len(w2) = m /\ \A i \in 1..m : w2[i] = IF w[i] < len THEN w[i] + 1 ELSE len
  BY OlderAges
<1>3. Len(c2) = n /\ \A i \in 1..n : c2[i] = IF calls[i] < long THEN calls[i] + 1 ELSE long
  BY OlderAges
<1> HIDE DEF m, n, w2, c2
<1> SUFFICES ASSUME NEW i \in 1..n, c2[i] < len
             PROVE  n - i < m /\ w2[m - (n - i)] = c2[i]
  BY <1>2, <1>3 DEF Recent, w2, c2
<1>4. calls[i] < len /\ c2[i] = calls[i] + 1
  BY <1>1, <1>3
<1>5. n - i < m /\ w[m - (n - i)] = calls[i]
  BY <1>4 DEF Recent, m, n
<1>6. m - (n - i) \in 1..m
  BY <1>1, <1>5
<1>7. w2[m - (n - i)] = calls[i] + 1
  BY <1>2, <1>4, <1>5, <1>6
<1> QED
  BY <1>4, <1>5, <1>7

\* So does forgetting the oldest calls.
LEMMA FewerRecent ==
    ASSUME NEW w, NEW len \in Nat, Aging(w), NEW calls, Aging(calls), Recent(w, len, calls),
           NEW fewer, Aging(fewer), NEW d \in 0..Len(calls), Len(fewer) = Len(calls) - d,
           \A i \in 1..(Len(calls) - d) : fewer[i] = calls[i+d]
    PROVE  Recent(w, len, fewer)
<1> DEFINE n == Len(calls)
<1>1. n \in Nat /\ d \in Nat /\ d <= n /\ Len(fewer) = n - d /\ Len(w) \in Nat
  BY DEF Aging
<1>2. \A i \in 1..(n - d) : fewer[i] = calls[i+d]
  OBVIOUS
<1>3. \A i \in 1..n : calls[i] < len => n - i < Len(w) /\ w[Len(w) - (n - i)] = calls[i]
  BY DEF Recent
<1> HIDE DEF n
<1>4. ASSUME NEW i \in 1..(n - d), fewer[i] < len
      PROVE  (n - d) - i < Len(w) /\ w[Len(w) - ((n - d) - i)] = fewer[i]
  <2>1. i+d \in 1..n /\ (n - d) - i = n - (i+d)
    BY <1>1
  <2> QED
    BY <1>2, <1>3, <1>4, <2>1
<1> QED
  BY <1>1, <1>4 DEF Recent

\* Two calls with PerSecond - 1 between them are SecLen apart.
Spaced(calls) ==
    \A i, j \in 1..Len(calls) : j = i + PerSecond => calls[i] - calls[j] >= SecLen

\* The limits of RateKept, by the distance of calls in the order they came.
LEMMA SpacedIs ==
    ASSUME Aging(admitted)
    PROVE  RateKept <=> Len(admitted) <= PerMinute /\ Spaced(admitted)
<1>1. DOMAIN admitted = 1..Len(admitted)
  BY DEF Aging
<1> QED
  BY <1>1 DEF RateKept, Spaced

\* A slot that passes keeps the invariant of the limiter.
LEMMA ElapseKeeps ==
    ASSUME RateInv, Elapse
    PROVE  RateInv'
<1>1. SecLen \in Nat /\ MinLen \in Nat /\ SecLen <= MinLen /\ MinLen # 0 /\ PerMinute \in Nat /\ PerSecond \in Nat
  BY HttpAssumption
<1>2. /\ Aging(sec) /\ Aging(min) /\ Aging(admitted)
      /\ Recent(sec, SecLen, admitted) /\ Recent(min, MinLen, admitted)
      /\ \A i \in 1..Len(admitted) : admitted[i] < MinLen
      /\ Len(admitted) <= PerMinute /\ Spaced(admitted)
  BY SpacedIs DEF RateInv
<1> DEFINE older == Older(admitted, MinLen)
           n == Len(admitted)
<1>3. n \in Nat /\ \A i \in 1..n : admitted[i] \in Nat
  BY <1>2 DEF Aging
<1>4. Aging(older) /\ Len(older) = n /\ \A i \in 1..n : older[i] = admitted[i] + 1
  BY <1>1, <1>2, OlderAges
<1>5. /\ Aging(sec') /\ Aging(min') /\ Recent(sec', SecLen, older) /\ Recent(min', MinLen, older)
  <2>1. sec' = Older(sec, SecLen) /\ min' = Older(min, MinLen)
    BY DEF Elapse
  <2>2. Recent(sec', SecLen, older)
    BY <1>1, <1>2, <2>1, OlderRecent
  <2>3. Recent(min', MinLen, older)
    <3>1. MinLen <= MinLen
      BY <1>1
    <3> QED
      BY <1>1, <1>2, <2>1, <3>1, OlderRecent
  <2>4. Aging(sec') /\ Aging(min')
    BY <1>1, <1>2, <2>1, OlderAges
  <2> QED
    BY <2>2, <2>3, <2>4
<1>6. admitted' = Younger(older, MinLen)
  BY DEF Elapse
<1> HIDE DEF older, n
<1>7. PICK d \in 0..Len(older) :
          /\ Aging(admitted') /\ Len(admitted') = Len(older) - d
          /\ \A i \in 1..(Len(older) - d) : admitted'[i] = older[i+d]
          /\ \A i \in 1..Len(older) : older[i] >= MinLen <=> i <= d
  BY <1>1, <1>4, <1>6, YoungerDrops
<1>8. Recent(sec', SecLen, admitted') /\ Recent(min', MinLen, admitted')
  BY <1>1, <1>4, <1>5, <1>7, FewerRecent
<1>9. d \in Nat /\ d <= n /\ Len(admitted') = n - d
      /\ \A i \in 1..(n - d) : i+d \in 1..n /\ admitted'[i] = admitted[i+d] + 1 /\ older[i+d] = admitted[i+d] + 1
  BY <1>3, <1>4, <1>7
<1>10. \A i \in 1..(n - d) : admitted'[i] < MinLen
  <2> SUFFICES ASSUME NEW i \in 1..(n - d) PROVE admitted'[i] < MinLen
    OBVIOUS
  <2>1. i+d \in 1..Len(older) /\ ~(i+d <= d)
    BY <1>3, <1>4, <1>9
  <2>2. ~(older[i+d] >= MinLen)
    BY <1>7, <2>1
  <2> QED
    BY <1>1, <1>3, <1>9, <2>2, SMTT(20)
<1>11. Spaced(admitted')
  <2> SUFFICES ASSUME NEW i \in 1..(n - d), NEW j \in 1..(n - d), j = i + PerSecond
               PROVE  admitted'[i] - admitted'[j] >= SecLen
    BY <1>9 DEF Spaced
  <2>1. i+d \in 1..n /\ j+d \in 1..n /\ j+d = (i+d) + PerSecond
    BY <1>1, <1>3, <1>9
  <2>2. admitted[i+d] - admitted[j+d] >= SecLen
    BY <1>2, <2>1 DEF Spaced, n
  <2>3. admitted'[i] = admitted[i+d] + 1 /\ admitted'[j] = admitted[j+d] + 1
    BY <1>9
  <2>4. admitted[i+d] \in Nat /\ admitted[j+d] \in Nat
    BY <1>3, <2>1
  <2> QED
    BY <1>1, <2>2, <2>3, <2>4
<1>12. Len(admitted') <= PerMinute
  BY <1>1, <1>2, <1>3, <1>9 DEF n
<1>13. RateKept'
  <2>1. DOMAIN admitted' = 1..Len(admitted')
    BY <1>7 DEF Aging
  <2> QED
    BY <1>11, <1>12, <2>1 DEF RateKept, Spaced
<1> QED
  BY <1>5, <1>7, <1>8, <1>9, <1>10, <1>13 DEF RateInv

\* A call is admitted when the windows have room, which is when the calls have.
LEMMA AcquireKeeps ==
    ASSUME RateInv, NEW c \in Callers, Acquire(c)
    PROVE  RateInv'
<1> DEFINE s == Younger(sec, SecLen)
           m == Younger(min, MinLen)
           admit == Len(s) < PerSecond /\ Len(m) < PerMinute
           n == Len(admitted)
<1>1. /\ SecLen \in Nat /\ MinLen \in Nat /\ SecLen <= MinLen /\ MinLen # 0 /\ SecLen # 0
      /\ PerMinute \in Nat /\ PerSecond \in Nat /\ PerSecond # 0 /\ PerMinute # 0
  BY HttpAssumption
<1>2. /\ Aging(sec) /\ Aging(min) /\ Aging(admitted)
      /\ Recent(sec, SecLen, admitted) /\ Recent(min, MinLen, admitted)
      /\ \A i \in 1..n : admitted[i] < MinLen
      /\ n <= PerMinute /\ Spaced(admitted)
  BY SpacedIs DEF RateInv
<1>3. n \in Nat /\ \A i \in 1..n : admitted[i] \in Nat
  BY <1>2 DEF Aging
<1>4. Aging(s) /\ Aging(m) /\ Recent(s, SecLen, admitted) /\ Recent(m, MinLen, admitted)
  BY <1>1, <1>2, YoungerDrops, YoungerRecent
<1>5. Len(s) \in Nat /\ Len(m) \in Nat
  BY <1>4 DEF Aging
<1>6. CASE ~admit
  <2>1. sec' = s /\ min' = m /\ admitted' = admitted
    BY <1>6 DEF Acquire
  <2>2. RateKept'
    BY <2>1 DEF RateInv, RateKept
  <2> HIDE DEF s, m
  <2> QED
    BY <1>2, <1>4, <2>1, <2>2 DEF RateInv, n
<1>7. CASE admit
  <2>1. sec' = Append(s, 0) /\ min' = Append(m, 0) /\ admitted' = Append(admitted, 0)
    BY <1>7 DEF Acquire
  <2>2. /\ Aging(admitted') /\ Len(admitted') = n + 1 /\ admitted'[n+1] = 0
        /\ \A i \in 1..n : admitted'[i] = admitted[i]
    BY <1>2, <2>1, AppendAges
  <2> HIDE DEF s, m, n
  <2>3. Aging(sec') /\ Aging(min')
    BY <1>4, <2>1, AppendAges
  <2>4. Recent(sec', SecLen, admitted') /\ Recent(min', MinLen, admitted')
    BY <1>1, <1>2, <1>4, <2>1, AppendRecent
  <2>5. \A i \in 1..(n+1) : admitted'[i] < MinLen
    <3> SUFFICES ASSUME NEW i \in 1..(n+1) PROVE admitted'[i] < MinLen
      OBVIOUS
    <3>1. i \in 1..n \/ i = n+1
      BY <1>3
    <3> QED
      BY <1>1, <1>2, <2>2, <3>1
  <2>6. n + 1 <= PerMinute
    <3>1. CASE n = 0
      BY <1>1, <3>1
    <3>2. CASE n # 0
      <4>1. 1 \in 1..n /\ admitted[1] < MinLen
        BY <1>2, <1>3, <3>2
      <4>2. n - 1 < Len(m)
        BY <1>4, <4>1 DEF Recent, n
      <4> QED
        BY <1>1, <1>3, <1>5, <1>7, <4>2
    <3> QED
      BY <3>1, <3>2
  <2>7. Spaced(admitted')
    <3> SUFFICES ASSUME NEW i \in 1..(n+1), NEW j \in 1..(n+1), j = i + PerSecond
                 PROVE  admitted'[i] - admitted'[j] >= SecLen
      BY <2>2 DEF Spaced
    <3>1. i \in 1..n /\ admitted'[i] = admitted[i]
      BY <1>1, <1>3, <2>2
    <3>2. CASE j \in 1..n
      <4>1. admitted[i] - admitted[j] >= SecLen
        BY <1>2, <3>1, <3>2 DEF Spaced, n
      <4> QED
        BY <2>2, <3>1, <3>2, <4>1
    <3>3. CASE j = n+1
      <4>1. ~(n - i < Len(s))
        BY <1>1, <1>3, <1>5, <1>7, <3>3
      <4>2. ~(admitted[i] < SecLen)
        BY <1>4, <3>1, <4>1 DEF Recent, n
      <4> QED
        BY <1>1, <1>3, <2>2, <3>1, <3>3, <4>2
    <3>4. j \in 1..n \/ j = n+1
      BY <1>3
    <3> QED
      BY <3>2, <3>3, <3>4
  <2>8. RateKept'
    <3>1. DOMAIN admitted' = 1..Len(admitted')
      BY <2>2 DEF Aging
    <3> QED
      BY <2>2, <2>6, <2>7, <3>1 DEF RateKept, Spaced
  <2> QED
    BY <2>2, <2>3, <2>4, <2>5, <2>8 DEF RateInv
<1> QED
  BY <1>6, <1>7

\* Empty windows, at the start and after a restart.
LEMMA NoCalls ==
    ASSUME sec = <<>>, min = <<>>, admitted = <<>>
    PROVE  RateInv
<1>1. Len(<<>>) = 0 /\ DOMAIN <<>> = {} /\ <<>> \in Seq(Nat) /\ 1..0 = {}
  OBVIOUS
<1>2. Aging(<<>>) /\ \A len : Recent(<<>>, len, <<>>)
  BY <1>1 DEF Aging, Recent
<1>3. RateKept
  BY <1>1, HttpAssumption DEF RateKept
<1> QED
  BY <1>1, <1>2, <1>3 DEF RateInv

\* So does a step that admits no call.
LEMMA SameCalls ==
    ASSUME RateInv, UNCHANGED <<sec, min, admitted>>
    PROVE  RateInv'
BY DEF RateInv, Aging, Recent, RateKept

-----------------------------------------------------------------------------
(* The program's steps, as far as these components go *)

\* What the scanner's steps do to the history, its clock and what was told.
LEMMA Steps ==
    ASSUME [ScannerNext]_<<historyVars, watchVars, scanVars>>
    PROVE  \/ HistoryStep /\ UNCHANGED watchVars
           \/ Restart /\ Forget
           \/ Housekeep
           \/ UNCHANGED <<historyVars, watchVars>>
<1>1. Time => HistoryStep
  BY DEF HistoryStep
<1> QED
  BY <1>1 DEF ScannerNext, Next, Zenon

\* Every step keeps the invariant of the limiter.
LEMMA StepRates == RateInv /\ [ScannerNext]_<<historyVars, watchVars, scanVars>> => RateInv'
<1> SUFFICES ASSUME RateInv, [ScannerNext]_<<historyVars, watchVars, scanVars>> PROVE RateInv'
  OBVIOUS
<1>1. CASE HistoryStep
  <2>1. ASSUME NEW len \in LoadLens, StartLoad(len) PROVE RateInv'
    BY <2>1, SameCalls DEF StartLoad, httpVars
  <2>2. CASE LoaderStep
    <3>1. UNCHANGED <<sec, min, admitted>>
      BY <2>2 DEF LoaderStep, Request, Receive, Fail, Store, Record, Submit, Take, httpVars
    <3> QED
      BY <3>1, SameCalls
  <2>3. ASSUME NEW c \in Callers, OtherRequest(c) PROVE RateInv'
    BY <2>3, SameCalls DEF OtherRequest, Submit
  <2>4. ASSUME NEW c \in Callers, Thread(c) PROVE RateInv'
    <3>1. CASE Acquire(c)
      BY <3>1, AcquireKeeps
    <3>2. CASE Wake(c) \/ Answer(c) \/ Take(c)
      BY <3>2, SameCalls DEF Wake, Answer, Take
    <3> QED
      BY <2>4, <3>1, <3>2 DEF Thread
  <2>5. CASE Time
    BY <2>5, ElapseKeeps DEF Time
  <2> QED
    BY <1>1, <2>1, <2>2, <2>3, <2>4, <2>5 DEF HistoryStep
<1>2. CASE Restart
  <2>1. sec' = <<>> /\ min' = <<>> /\ admitted' = <<>>
    BY <1>2 DEF Restart
  <2>2. (sec = <<>> /\ min = <<>> /\ admitted = <<>> => RateInv)'
    BY NoCalls, PTL
  <2> QED
    BY <2>1, <2>2
<1>3. CASE UNCHANGED historyVars
  BY <1>3, SameCalls DEF historyVars, httpVars
<1> QED
  BY <1>1, <1>2, <1>3, Steps DEF Housekeep

\* The limiter's promise: never more calls in a window than the broker allows, whatever
\* the threads measured before they slept.
THEOREM RateIsKept == ScannerSpec => []RateKept
<1>1. ScannerInit => RateInv
  BY NoCalls DEF ScannerInit, Init, HistoryInit, HttpInit
<1>2. RateInv => RateKept
  BY DEF RateInv
<1> QED
  BY <1>1, <1>2, StepRates, PTL DEF ScannerSpec

-----------------------------------------------------------------------------
(* What the calendar answers *)

\* The least of a set of integers that is bounded from below.
LEMMA MinIs ==
    ASSUME NEW S \in SUBSET Int, S # {}, NEW low \in Int, \A n \in S : low <= n
    PROVE  Min(S) \in S /\ Min(S) \in Int /\ \A n \in S : Min(S) <= n
<1>1. \E m \in S : \A n \in S : m <= n
  BY LeastAbove
<1>2. Min(S) \in S /\ \A n \in S : Min(S) <= n
  BY <1>1 DEF Min
<1> QED
  BY <1>2

\* The greatest of a set of integers that is bounded from above.
LEMMA MaxIs ==
    ASSUME NEW S \in SUBSET Int, S # {}, NEW high \in Int, \A n \in S : n <= high
    PROVE  Max(S) \in S /\ Max(S) \in Int /\ \A n \in S : n <= Max(S)
<1>1. \E m \in S : \A n \in S : n <= m
  BY GreatestOf
<1>2. \E m \in S : \A n \in S : m >= n
  <2>1. \A m, n \in S : n <= m => m >= n
    OBVIOUS
  <2> QED
    BY <1>1, <2>1
<1>3. Max(S) \in S /\ \A n \in S : Max(S) >= n
  BY <1>2 DEF Max
<1> QED
  BY <1>3

\* The smaller of two integers.
LEMMA MinOfTwo ==
    ASSUME NEW a \in Int, NEW b \in Int
    PROVE  Min({a, b}) \in {a, b} /\ Min({a, b}) <= a /\ Min({a, b}) <= b
<1>1. {a, b} \in SUBSET Int /\ {a, b} # {}
  OBVIOUS
<1>2. PICK low \in Int : low <= a /\ low <= b
  <2>1. a <= b \/ b <= a
    OBVIOUS
  <2> QED
    BY <2>1
<1>3. \A n \in {a, b} : low <= n
  BY <1>2
<1> QED
  BY <1>1, <1>3, MinIs

\* The greater of two integers.
LEMMA MaxOfTwo ==
    ASSUME NEW a \in Int, NEW b \in Int
    PROVE  Max({a, b}) \in Int
<1>1. {a, b} \in SUBSET Int /\ {a, b} # {}
  OBVIOUS
<1>2. PICK high \in Int : a <= high /\ b <= high
  <2>1. a <= b \/ b <= a
    OBVIOUS
  <2> QED
    BY <2>1
<1>3. \A n \in {a, b} : n <= high
  BY <1>2
<1> QED
  BY <1>1, <1>3, MaxIs

\* Of a day: whether it trades, why not, and its hours.
Days == [open : BOOLEAN, reason : Reasons, start : Int, end : Int]

\* The calendar's usual hours are times of day.
LEMMA UsualTimes ==
    ASSUME NEW c, IsCalendar(c), NEW d \in Int
    PROVE  /\ DefaultTimes(c) \in TimesOfDay /\ SessionTimes(c, d) \in TimesOfDay
           /\ RegularEnd(c, d) \in Nat
<1>1. DefaultTimes(c) \in TimesOfDay
  <2>1. CASE DOMAIN c.session = {}
    BY <2>1 DEF DefaultTimes, IsCalendar
  <2>2. CASE DOMAIN c.session # {}
    <3> DEFINE Y == DOMAIN c.session
    <3>1. Y \in SUBSET Int /\ IsFiniteSet(Y) /\ Y # {}
      BY <2>2 DEF IsCalendar
    <3>2. PICK m \in Y : \A n \in Y : n <= m
      BY <3>1, FiniteGreatest
    <3>3. Max(Y) \in Y
      BY <3>1, <3>2, MaxIs
    <3> QED
      BY <2>2, <3>3 DEF DefaultTimes, IsCalendar
  <2> QED
    BY <2>1, <2>2
<1>2. SessionTimes(c, d) \in TimesOfDay
  BY <1>1 DEF SessionTimes, IsCalendar
<1>3. SessionTimes(c, d).end \in Nat
  BY <1>2 DEF TimesOfDay
<1>4. RegularEnd(c, d) \in Nat
  <2> DEFINE P == {p \in c.close : p.from <= d /\ d <= p.to}
  <2>1. CASE P = {}
    BY <1>3, <2>1 DEF RegularEnd, SeasonEnd
  <2>2. CASE P # {}
    <3>1. (CHOOSE p \in P : TRUE) \in P
      BY <2>2
    <3>2. (CHOOSE p \in P : TRUE).end \in Nat
      BY <3>1 DEF IsCalendar
    <3> QED
      BY <2>2, <3>2 DEF RegularEnd, SeasonEnd
  <2> QED
    BY <2>1, <2>2
<1> QED
  BY <1>1, <1>2, <1>4

\* A closed day and a trading day are days.
LEMMA DayTypes ==
    ASSUME NEW reason \in Reasons, NEW usual \in TimesOfDay, NEW start \in Int, NEW end \in Int
    PROVE  Closed(reason, usual, end) \in Days /\ Trades(reason, start, end) \in Days
BY DEF Closed, Trades, Days, TimesOfDay

\* Whatever the files say of a date, it is a day.
LEMMA ResolvedDay ==
    ASSUME NEW c, IsCalendar(c), NEW d \in Int
    PROVE  ResolveDay(c, d) \in Days
<1> DEFINE usual == SessionTimes(c, d)
           end == RegularEnd(c, d)
<1>1. usual \in TimesOfDay /\ end \in Int /\ {usual.start, usual.evening} \subseteq Int
  BY UsualTimes DEF TimesOfDay
<1> HIDE DEF usual, end
<1>2. ASSUME NEW a \in Int, NEW b \in Int
      PROVE  /\ Closed("CLOSED_BY_OVERRIDE", usual, a) \in Days /\ Closed("CALENDAR_OUT_OF_RANGE", usual, a) \in Days
             /\ Closed("FULL_HOLIDAY", usual, a) \in Days /\ Closed("SPECIAL_SESSION_PENDING", usual, a) \in Days
             /\ Closed("WEEKEND", usual, a) \in Days /\ Trades("OPEN", a, b) \in Days
             /\ Trades("MORNING_SESSION_CLOSED", a, b) \in Days /\ Trades("EVENING_SESSION_CLOSED", a, b) \in Days
  <2>1. usual \in TimesOfDay
    BY <1>1
  <2>2. \A reason \in Reasons : Closed(reason, usual, a) \in Days /\ Trades(reason, a, b) \in Days
    BY <2>1, DayTypes
  <2> QED
    BY <2>2 DEF Reasons
<1>3. ASSUME d \in DOMAIN c.override PROVE Overridden(c.override[d], usual, end) \in Days
  <2> DEFINE o == c.override[d]
             a == IF o.start = None THEN usual.start ELSE o.start
             b == IF o.end = None THEN end ELSE o.end
  <2>1. {o.start, o.end} \subseteq Nat \cup {None}
    BY <1>3 DEF IsCalendar
  <2>2. a \in Int /\ b \in Int
    BY <1>1, <2>1
  <2>3. Overridden(o, usual, end) = IF o.closed THEN Closed("CLOSED_BY_OVERRIDE", usual, end) ELSE Trades("OPEN", a, b)
    BY DEF Overridden
  <2> HIDE DEF a, b, o
  <2>4. Overridden(o, usual, end) \in Days
    BY <1>1, <1>2, <2>2, <2>3
  <2> QED
    BY <2>4 DEF o
<1>4. ASSUME d \in DOMAIN c.holiday PROVE Holiday(c.holiday[d], usual, end) \in Days
  <2>1. c.holiday[d] \in {"full", "morning", "evening"}
    BY <1>4 DEF IsCalendar
  <2> QED
    BY <1>1, <1>2, <2>1 DEF Holiday
<1>5. ASSUME d \in DOMAIN c.special PROVE Trades("OPEN", c.special[d].start, c.special[d].end) \in Days
  <2>1. c.special[d].start \in Int /\ c.special[d].end \in Int
    BY <1>5 DEF IsCalendar
  <2> QED
    BY <1>2, <2>1
<1>6. /\ Closed("CALENDAR_OUT_OF_RANGE", usual, end) \in Days /\ Closed("FULL_HOLIDAY", usual, end) \in Days
      /\ Closed("SPECIAL_SESSION_PENDING", usual, end) \in Days /\ Closed("WEEKEND", usual, end) \in Days
      /\ Trades("OPEN", usual.start, end) \in Days
  BY <1>1, <1>2
<1>7. Resolved(c, d, usual, end) \in Days
  BY <1>3, <1>4, <1>5, <1>6 DEF Resolved
<1> QED
  BY <1>7 DEF ResolveDay, usual, end

\* So is its span in slots.
LEMMA SpanTypes ==
    ASSUME NEW c, IsCalendar(c), NEW d \in Int
    PROVE  TradingDaySpan(c, d) \in Days
<1> DEFINE day == ResolveDay(c, d)
<1>1. day \in Days /\ DayLen \in Int
  BY ResolvedDay, SessionsAssumption
<1> HIDE DEF day
<1>2. d * DayLen \in Int
  BY <1>1
<1>3. Instant(d, day.start) \in Int /\ Instant(d, day.end) + (IF day.end <= day.start THEN DayLen ELSE 0) \in Int
  BY <1>1, <1>2 DEF Days, Instant
<1>4. Spanned(day, d) \in Days
  BY <1>1, <1>3 DEF Spanned, Days
<1> QED
  BY <1>4 DEF TradingDaySpan, day

\* Every slot has a trading date, and that date a span.
LEMMA DateTypes ==
    ASSUME NEW c, IsCalendar(c), NEW t \in Int
    PROVE  TradingDate(c, t) \in Int /\ SpanAt(c, t) \in Days
<1>1. DayLen \in Nat /\ DayLen # 0
  BY SessionsAssumption
<1>2. DateOf(t) \in Int
  BY <1>1 DEF DateOf
<1>3. TradingDate(c, t) \in Int
  BY <1>2 DEF TradingDate, Belongs
<1> QED
  BY <1>3, SpanTypes DEF SpanAt

\* The next day, opening and close are integers, or there is none.
LEMMA NextTypes ==
    ASSUME NEW c, IsCalendar(c), NEW t \in Int
    PROVE  /\ NextDay(c, t) \in Int \cup {None}
           /\ NextOpen(c, t) \in Int \cup {None} /\ NextClose(c, t) \in Int \cup {None}
<1> DEFINE from == TradingDate(c, t)
           S == SearchEnds(c, t, from)
           n == NextDay(c, t)
<1>1. from \in Int /\ HorizonDays \in Int
  BY DateTypes, SessionsAssumption
<1> HIDE DEF from
<1>2. S \in SUBSET Int /\ \A d \in S : from <= d
  BY <1>1 DEF SearchEnds
<1>3. S # {} => Min(S) \in Int
  BY <1>1, <1>2, MinIs
<1>4. n = FirstCovered(c, S)
  BY DEF NextDay, from
<1> HIDE DEF S, n
<1>5. n \in Int \cup {None}
  BY <1>3, <1>4 DEF FirstCovered
<1>6. ASSUME n # None PROVE TradingDaySpan(c, n).start \in Int /\ TradingDaySpan(c, n).end \in Int
  <2>1. TradingDaySpan(c, n) \in Days
    BY <1>5, <1>6, SpanTypes
  <2> QED
    BY <2>1 DEF Days
<1>7. NextOpen(c, t) \in Int \cup {None} /\ NextClose(c, t) \in Int \cup {None}
  <2>1. CASE n = None
    BY <2>1 DEF NextOpen, NextClose, OpenOn, CloseOn, n
  <2>2. CASE n # None
    <3>1. Max({t, TradingDaySpan(c, n).start}) \in Int
      BY <1>6, <2>2, MaxOfTwo
    <3>2. NextOpen(c, t) = Max({t, TradingDaySpan(c, n).start}) /\ NextClose(c, t) = TradingDaySpan(c, n).end
      BY <2>2 DEF NextOpen, NextClose, OpenOn, CloseOn, n
    <3> QED
      BY <1>6, <2>2, <3>1, <3>2
  <2> QED
    BY <2>1, <2>2
<1> QED
  BY <1>5, <1>7 DEF n

\* A market that is shut has one of the listed states.
LEMMA ShutTypes ==
    ASSUME NEW reason \in Reasons, NEW d \in Int, NEW a \in Int \cup {None}, NEW b \in Int \cup {None},
           NEW e \in Int \cup {None}
    PROVE  MarketShut(reason, d, a, b, e) \in MarketStates
BY DEF MarketShut, MarketStates

\* Every answer is a market state; none is None.
LEMMA StateTypes ==
    ASSUME NEW c, IsCalendar(c), NEW t \in Int
    PROVE  MarketState(c, t) \in MarketStates /\ MarketState(c, t) # None
<1> DEFINE d == TradingDate(c, t)
           day == TradingDaySpan(c, d)
           label == SessionLabel(c, t, d)
<1>1. d \in Int
  BY DateTypes
<1> HIDE DEF d
<1>2. day \in Days
  BY <1>1, SpanTypes
<1>3. label \in {"SPECIAL", "EVENING", "MORNING"}
  BY DEF SessionLabel
<1>4. day.reason \in Reasons /\ day.start \in Int \cup {None} /\ day.end \in Int \cup {None} /\ None \in Int \cup {None}
      /\ t \in Int \cup {None} /\ NextOpen(c, t) \in Int \cup {None} /\ NextClose(c, t) \in Int \cup {None}
      /\ {"OPEN", "OUTSIDE_TRADING_HOURS", "MORNING_SESSION_CLOSED", "EVENING_SESSION_CLOSED"} \subseteq Reasons
  BY <1>2, NextTypes DEF Days, Reasons
<1> HIDE DEF day, label
<1>5. MarketShut(day.reason, d, None, None, None) \in MarketStates
  BY <1>1, <1>4, ShutTypes
<1>6. [MarketShut("OPEN", d, day.end, t, day.end) EXCEPT !.state = "OPEN", !.session = label] \in MarketStates
  <2>1. MarketShut("OPEN", d, day.end, t, day.end) \in MarketStates
    BY <1>1, <1>4, ShutTypes
  <2> QED
    BY <1>3, <2>1 DEF MarketStates
<1>7. MarketShut("MORNING_SESSION_CLOSED", d, day.end, day.start, day.end) \in MarketStates
      /\ MarketShut("OUTSIDE_TRADING_HOURS", d, day.end, day.start, day.end) \in MarketStates
  BY <1>1, <1>4, ShutTypes
<1>8. ASSUME NEW reason \in Reasons, NEW e \in Int \cup {None}
      PROVE  MarketShut(reason, d, e, NextOpen(c, t), NextClose(c, t)) \in MarketStates
  BY <1>1, <1>4, ShutTypes
<1>9. StateOn(c, t, d, day) \in MarketStates
  <2>1. CASE ~Covers(c, d)
    BY <1>5, <2>1 DEF StateOn
  <2>2. CASE Covers(c, d) /\ Within(day, t)
    BY <1>6, <2>2 DEF StateOn, label
  <2>3. CASE Covers(c, d) /\ ~Within(day, t) /\ day.open /\ t < day.start
    BY <1>7, <2>3 DEF StateOn
  <2>4. CASE Covers(c, d) /\ ~Within(day, t) /\ ~(day.open /\ t < day.start)
    <3> DEFINE why == IF day.open
                      THEN IF day.reason = "EVENING_SESSION_CLOSED" THEN "EVENING_SESSION_CLOSED" ELSE "OUTSIDE_TRADING_HOURS"
                      ELSE day.reason
               e == IF day.open THEN day.end ELSE None
    <3>1. why \in Reasons /\ e \in Int \cup {None}
      BY <1>4
    <3>2. StateOn(c, t, d, day) = MarketShut(why, d, e, NextOpen(c, t), NextClose(c, t))
      BY <2>4 DEF StateOn
    <3> QED
      BY <1>8, <3>1, <3>2
  <2> QED
    BY <2>1, <2>2, <2>3, <2>4
<1>10. MarketState(c, t) = StateOn(c, t, d, day)
  BY DEF MarketState, StateOfDate, d, day
<1> QED
  BY <1>9, <1>10, NoneIsNoMarket

-----------------------------------------------------------------------------
(* The looks at the calendar *)

ClockInv == now \in Int /\ cal \in Calendars

\* Every step keeps the clock and the calendar.
LEMMA StepClocks == ClockInv /\ [ScannerNext]_<<historyVars, watchVars, scanVars>> => ClockInv'
<1> SUFFICES ASSUME ClockInv, [ScannerNext]_<<historyVars, watchVars, scanVars>> PROVE ClockInv'
  OBVIOUS
<1>1. CASE HistoryStep
  <2>1. CASE Time
    BY <2>1 DEF Time, ClockInv
  <2>2. CASE UNCHANGED <<now, cal>>
    BY <2>2 DEF ClockInv
  <2> QED
    BY <1>1, <2>1, <2>2 DEF HistoryStep, StartLoad, LoaderStep, Request, Receive, Fail, Store, Record,
                            OtherRequest, Thread, cacheVars
<1>2. CASE UNCHANGED <<now, cal>>
  BY <1>2 DEF ClockInv
<1> QED
  BY <1>1, <1>2, Steps DEF Restart, Housekeep, historyVars, cacheVars

\* They are right at the start.
LEMMA StartClock == ScannerInit => ClockInv
BY HistoryAssumption DEF ScannerInit, Init, HistoryInit, ClockInv

\* Nothing is told before the first look.
ToldInv ==
    /\ market = None => told = None
    /\ ToldWhatIs

\* A look tells what differs from the look before; what it does not tell is as it was told.
LEMMA LookTells ==
    ASSUME ClockInv, ToldInv, Housekeep
    PROVE  ToldInv'
<1> DEFINE ms == MarketState(cal, now)
           About(m) == [state |-> m.state, which |-> IF m.state = "OPEN" THEN m.session ELSE m.reason]
<1>1. ms \in MarketStates /\ ms # None
  BY CalendarsAssumption, StateTypes DEF ClockInv
<1>2. market' = ms /\ told' = Event(ms)
  BY DEF Housekeep
<1>3. ms.state \in {"OPEN", "CLOSED"}
  BY <1>1 DEF MarketStates
<1> HIDE DEF ms
<1>4. told' # None => told' = About(ms)
  <2>1. CASE market = None
    BY <1>2, <2>1 DEF Event, ToldInv
  <2>2. CASE market # None /\ (\/ ms.state # market.state \/ ms.session # market.session
                               \/ ms.state = "CLOSED" /\ ms.reason # market.reason)
    BY <1>2, <2>2 DEF Event
  <2>3. CASE market # None /\ ms.state = market.state /\ ms.session = market.session
             /\ (ms.state = "CLOSED" => ms.reason = market.reason)
    <3>1. told' = told
      BY <1>2, <2>3 DEF Event
    <3>2. told # None => told = About(market)
      BY DEF ToldInv, ToldWhatIs
    <3>3. About(market) = About(ms)
      BY <1>3, <2>3
    <3> QED
      BY <3>1, <3>2, <3>3
  <2> QED
    BY <2>1, <2>2, <2>3
<1>5. ToldWhatIs'
  BY <1>2, <1>4 DEF ToldWhatIs
<1> QED
  BY <1>1, <1>2, <1>5 DEF ToldInv

\* Every step keeps what was told equal to what was seen.
LEMMA StepTells ==
    ClockInv /\ ToldInv /\ [ScannerNext]_<<historyVars, watchVars, scanVars>> => ToldInv'
<1> SUFFICES ASSUME ClockInv, ToldInv, [ScannerNext]_<<historyVars, watchVars, scanVars>> PROVE ToldInv'
  OBVIOUS
<1>1. CASE UNCHANGED watchVars
  BY <1>1 DEF ToldInv, ToldWhatIs, watchVars
<1>2. CASE Forget
  BY <1>2 DEF ToldInv, ToldWhatIs, Forget
<1>3. CASE Housekeep
  BY <1>3, LookTells
<1> QED
  BY <1>1, <1>2, <1>3, Steps

\* However late the looks at the calendar come, and whatever the calendar, the last market
\* event is about the state last looked at: nobody is left believing in a session that is over.
THEOREM TellsWhatIs == ScannerSpec => []ToldWhatIs
<1>1. ScannerInit => ToldInv
  BY DEF ScannerInit, Init, WatchInit, ToldInv, ToldWhatIs
<1>2. ToldInv => ToldWhatIs
  BY DEF ToldInv
<1> QED
  BY <1>1, <1>2, StartClock, StepClocks, StepTells, PTL DEF ScannerSpec

-----------------------------------------------------------------------------
(* Intervals *)

Intervals == [start : Int, end : Int]

\* A slot that some interval holds.
Held(S, t) == \E i \in S : i.start <= t /\ t < i.end

\* The fields of an interval.
LEMMA Fields ==
    ASSUME NEW i \in Intervals
    PROVE  i.start \in Int /\ i.end \in Int
BY DEF Intervals

\* The ends of the last intervals are held by none.
LEMMA LastEnd ==
    ASSUME NEW S \in SUBSET Intervals, IsFiniteSet(S), NEW j \in S, j.start < j.end
    PROVE  \E i \in S : ~Held(S, i.end) /\ j.end <= i.end
<1> DEFINE f == [i \in S |-> i.end]
           E == {f[i] : i \in S}
<1>1. IsFiniteSet(E)
  BY FiniteImage
<1>2. E \in SUBSET Int /\ E # {}
  BY Fields
<1>3. PICK m \in E : \A n \in E : n <= m
  BY <1>1, <1>2, FiniteGreatest
<1>4. PICK i \in S : m = i.end
  BY <1>3
<1>5. \A k \in S : k.end \in E /\ k.end <= i.end
  BY <1>3, <1>4
<1>6. ~Held(S, i.end)
  <2>1. \A k \in S : ~(i.end < k.end)
    BY <1>5, Fields
  <2> QED
    BY <2>1 DEF Held
<1> QED
  BY <1>5, <1>6

\* What is merged was held, and every merged interval has its slots.
LEMMA MergeHolds ==
    ASSUME NEW S \in SUBSET Intervals, IsFiniteSet(S), \A i \in S : i.start < i.end
    PROVE  /\ MergeIntervals(S) \in SUBSET Intervals /\ IsFiniteSet(MergeIntervals(S))
           /\ \A r \in MergeIntervals(S) :
                 /\ r.start < r.end
                 /\ \A t \in Int : r.start <= t /\ t < r.end => Held(S, t)
<1> DEFINE starts == {i.start : i \in {j \in S : ~Held(S, j.start - 1)}}
           ends == {i.end : i \in {j \in S : ~Held(S, j.end)}}
           After(a) == {e \in ends : e > a}
           Merged(a) == [start |-> a, end |-> Min(After(a))]
<1>1. MergeIntervals(S) = {Merged(a) : a \in starts}
  BY DEF MergeIntervals, Held
<1>2. starts \in SUBSET Int /\ ends \in SUBSET Int
  BY Fields
<1>3. ASSUME NEW a \in starts
      PROVE  /\ Min(After(a)) \in Int /\ a < Min(After(a)) /\ a \in Int
             /\ \A e \in ends : a < e => Min(After(a)) <= e
  <2>1. PICK j \in S : a = j.start
    OBVIOUS
  <2>2. PICK i \in S : ~Held(S, i.end) /\ j.end <= i.end
    BY LastEnd
  <2>3. a \in Int /\ i.end \in Int /\ j.end \in Int /\ a < j.end
    BY <2>1, Fields
  <2>4. i.end \in After(a)
    BY <2>2, <2>3
  <2>5. After(a) \in SUBSET Int /\ \A e \in After(a) : a <= e
    BY <1>2, <2>3
  <2> HIDE DEF ends
  <2>6. Min(After(a)) \in After(a) /\ \A e \in After(a) : Min(After(a)) <= e
    BY <2>3, <2>4, <2>5, MinIs
  <2> QED
    BY <1>2, <2>3, <2>6
<1>4. ASSUME NEW a \in starts, NEW t \in Int, a <= t, t < Min(After(a))
      PROVE  Held(S, t)
  <2> DEFINE Free == {u \in Int : a <= u /\ u <= t /\ ~Held(S, u)}
  <2> SUFFICES ASSUME ~Held(S, t) PROVE FALSE
    OBVIOUS
  <2>1. a \in Int /\ t \in Free
    <3>1. a \in Int
      BY <1>3
    <3>2. a <= t /\ t <= t
      BY <1>4, <3>1
    <3> QED
      BY <3>1, <3>2
  <2>2. PICK u \in Free : \A n \in Free : u <= n
    <3>1. Free \in SUBSET Int /\ Free # {} /\ \A n \in Free : a <= n
      BY <2>1
    <3> HIDE DEF Free
    <3> QED
      BY <2>1, <3>1, LeastAbove
  <2>3. u # a
    <3>1. PICK j \in S : a = j.start
      OBVIOUS
    <3>2. Held(S, a)
      BY <2>1, <3>1 DEF Held
    <3> QED
      BY <2>2, <3>2
  <2>4. u \in Int /\ a < u /\ u <= t
    BY <2>1, <2>2, <2>3
  <2>5. Held(S, u - 1)
    <3>1. u - 1 \in Int /\ a <= u - 1 /\ u - 1 <= t /\ ~(u <= u - 1)
      BY <1>4, <2>1, <2>4
    <3>2. u - 1 \notin Free
      BY <2>2, <3>1
    <3> QED
      BY <3>1, <3>2
  <2>6. PICK i \in S : i.start <= u - 1 /\ u - 1 < i.end
    BY <2>5 DEF Held
  <2>7. ~(u < i.end)
    <3>1. i.start \in Int /\ i.start <= u
      BY <2>4, <2>6, Fields
    <3>2. ~Held(S, u)
      BY <2>2
    <3> QED
      BY <3>1, <3>2 DEF Held
  <2>8. i.end = u
    BY <2>4, <2>6, <2>7, Fields
  <2>9. u \in ends
    BY <2>2, <2>8
  <2> HIDE DEF ends
  <2>10. Min(After(a)) <= u /\ Min(After(a)) \in Int
    BY <1>3, <2>4, <2>9
  <2> QED
    BY <1>4, <2>4, <2>10
<1>5. IsFiniteSet(MergeIntervals(S))
  <2> DEFINE T == {j \in S : ~Held(S, j.start - 1)}
             f == [i \in T |-> Merged(i.start)]
  <2>1. IsFiniteSet(T)
    BY FS_Subset
  <2>2. {f[i] : i \in T} = {Merged(a) : a \in starts}
    <3> HIDE DEF Merged
    <3> QED
      OBVIOUS
  <2>3. IsFiniteSet({f[i] : i \in T})
    <3> HIDE DEF T, f
    <3> QED
      BY <2>1, FiniteImage
  <2>4. MergeIntervals(S) = {f[i] : i \in T}
    BY <1>1, <2>2, Zenon
  <2> HIDE DEF T, f
  <2> QED
    BY <2>3, <2>4
<1> HIDE DEF starts, After
<1>6. \A a \in starts : Merged(a) \in Intervals /\ Merged(a).start = a /\ Merged(a).end = Min(After(a))
  BY <1>3 DEF Intervals
<1> HIDE DEF Merged
<1> QED
  BY <1>1, <1>3, <1>4, <1>5, <1>6

\* Two different multiples are at least one length apart.
LEMMA Multiples ==
    ASSUME NEW n \in Nat \ {0}, NEW a \in Int, NEW b \in Int, a % n = 0, b % n = 0, a < b
    PROVE  a + n <= b
<1> DEFINE p == a \div n
           q == b \div n
<1>1. p \in Int /\ q \in Int /\ a = n * p + (a % n) /\ b = n * q + (b % n)
  OBVIOUS
<1> HIDE DEF p, q
<1>2. n * p < n * q /\ a = n * p /\ b = n * q
  BY <1>1
<1>3. p < q
  BY <1>1, <1>2
<1>4. p + 1 <= q /\ n * (p + 1) = n * p + n
  BY <1>1, <1>3
<1>5. PICK d \in Nat : q = (p + 1) + d
  <2>1. q - (p + 1) \in Nat /\ q = (p + 1) + (q - (p + 1))
    BY <1>1, <1>4
  <2> QED
    BY <2>1
<1>6. n * q = n * (p + 1) + n * d /\ n * d \in Nat
  BY <1>1, <1>5
<1> QED
  BY <1>2, <1>4, <1>6

\* A bar closes at its own end or before, and not before it opens.
LEMMA CloseIs ==
    ASSUME NEW c, IsCalendar(c), NEW t \in Int
    PROVE  /\ EffectiveClose(c, t, BarLen) \in Int
           /\ EffectiveClose(c, t, BarLen) <= t + BarLen
           /\ t < EffectiveClose(c, t, BarLen)
<1>1. SpanAt(c, t).end \in Int
  <2>1. SpanAt(c, t) \in Days
    BY DateTypes
  <2> QED
    BY <2>1 DEF Days
<1>2. BarLen \in Nat /\ BarLen # 0
  BY HistoryAssumption
<1>3. EffectiveClose(c, t, BarLen) = IF Within(SpanAt(c, t), t) /\ SpanAt(c, t).end < t + BarLen
                                     THEN SpanAt(c, t).end ELSE t + BarLen
  BY DEF EffectiveClose, ClosesBy
<1>4. Within(SpanAt(c, t), t) => t < SpanAt(c, t).end
  BY DEF Within
<1> QED
  BY <1>1, <1>2, <1>3, <1>4

\* The bars the calendar expects in an interval are among those present.
Has(r, present) == \A t \in Aligned(r.start, r.end) : IsOpen(cal, t) => t \in present

\* The intervals that a range's bars prove complete are typed, finitely many, and complete.
LEMMA Verified ==
    ASSUME IsCalendar(cal), NEW present, NEW s \in Int, NEW e \in Int, NEW at \in Int
    PROVE  /\ VerifiedCoverage(present, s, e, at) \in SUBSET Intervals
           /\ IsFiniteSet(VerifiedCoverage(present, s, e, at))
           /\ \A r \in VerifiedCoverage(present, s, e, at) : Has(r, present)
<1> DEFINE potential == {t \in Aligned(s, e) : IsOpen(cal, t)}
           expected == {t \in potential : EffectiveClose(cal, t, BarLen) <= at}
           Run(a, b) == {t \in expected : a <= t /\ t <= b}
           Later(b) == {t \in expected : t > b}
           Prev(a) == {t \in expected : t < a}
           Maximal(a, b) ==
               /\ a <= b /\ Run(a, b) \subseteq present
               /\ Later(b) = {} \/ Min(Later(b)) \notin present
               /\ Prev(a) = {} \/ Max(Prev(a)) \notin present
           Covered(a, b) ==
               [start |-> IF Prev(a) = {} THEN s ELSE a,
                end |-> IF ReachesEnd(b, potential, expected) THEN e ELSE b + BarLen]
           pairs == {q \in expected \X expected : Maximal(q[1], q[2])}
           V == VerifiedCoverage(present, s, e, at)
<1>1. V = IF potential = {} THEN {[start |-> s, end |-> e]} ELSE {Covered(p[1], p[2]) : p \in pairs}
  BY DEF VerifiedCoverage
<1>2. BarLen \in Nat \ {0} /\ Aligned(s, e) \subseteq s .. e - 1 /\ \A t \in Aligned(s, e) : t % BarLen = 0
  BY HistoryAssumption DEF Aligned
<1>3. CASE potential = {}
  <2>1. V = {[start |-> s, end |-> e]}
    BY <1>1, <1>3
  <2>2. V \in SUBSET Intervals /\ IsFiniteSet(V)
    <3>1. [start |-> s, end |-> e] \in Intervals
      BY DEF Intervals
    <3> HIDE DEF V
    <3> QED
      BY <2>1, <3>1, FS_Singleton
  <2>3. \A r \in V : Has(r, present)
    BY <1>3, <2>1 DEF Has
  <2> QED
    BY <2>2, <2>3
<1>4. CASE potential # {}
  <2>1. expected \in SUBSET Int /\ potential \in SUBSET Int /\ \A t \in potential : s <= t /\ t <= e - 1
    BY <1>2
  <2>2. V = {Covered(p[1], p[2]) : p \in pairs}
    BY <1>1, <1>4
  <2>3. ASSUME NEW p \in pairs
        PROVE  Covered(p[1], p[2]) \in Intervals
    <3>1. p[1] \in Int /\ p[2] \in Int /\ p[2] + BarLen \in Int
      BY <1>2, <2>1
    <3> HIDE DEF expected, potential
    <3> QED
      BY <3>1 DEF Intervals
  <2>4. IsFiniteSet(V)
    <3> DEFINE f == [p \in pairs |-> Covered(p[1], p[2])]
    <3>1. IsFiniteSet(s .. e - 1)
      BY FS_Interval
    <3>2. IsFiniteSet(expected)
      <4>1. expected \subseteq s .. e - 1
        BY <1>2
      <4> HIDE DEF expected
      <4> QED
        BY <3>1, <4>1, FS_Subset
    <3>3. IsFiniteSet(pairs)
      <4>1. IsFiniteSet(expected \X expected)
        <5> HIDE DEF expected
        <5> QED
          BY <3>2, FS_Product
      <4>2. pairs \subseteq expected \X expected
        OBVIOUS
      <4> HIDE DEF pairs, expected
      <4> QED
        BY <4>1, <4>2, FS_Subset
    <3>4. V = {f[p] : p \in pairs}
      <4> HIDE DEF pairs, V, Covered
      <4> QED
        BY <2>2
    <3> HIDE DEF f, pairs, V
    <3> QED
      BY <3>3, <3>4, FiniteImage
  <2>5. ASSUME NEW p \in pairs, NEW t \in Aligned(Covered(p[1], p[2]).start, Covered(p[1], p[2]).end), IsOpen(cal, t)
        PROVE  t \in present
    <3> DEFINE a == p[1]
               b == p[2]
    <3>1. /\ a \in expected /\ b \in expected /\ a <= b /\ Run(a, b) \subseteq present
      OBVIOUS
    <3>2. /\ a \in Int /\ b \in Int /\ s <= a /\ a <= e - 1 /\ s <= b /\ b <= e - 1 /\ b % BarLen = 0
          /\ b \in potential /\ EffectiveClose(cal, b, BarLen) <= at
      BY <1>2, <2>1, <3>1
    <3>3. /\ t \in Int /\ t % BarLen = 0
          /\ (IF Prev(a) = {} THEN s ELSE a) <= t
          /\ t < (IF ReachesEnd(b, potential, expected) THEN e ELSE b + BarLen)
      <4> HIDE DEF Prev, expected, potential, a, b
      <4>1. Covered(a, b).start \in Int /\ Covered(a, b).end \in Int
        BY <1>2, <3>2
      <4>2. t \in Aligned(Covered(a, b).start, Covered(a, b).end)
        BY <2>5 DEF a, b
      <4> HIDE DEF Covered
      <4>3. t \in Int /\ t % BarLen = 0 /\ Covered(a, b).start <= t /\ t < Covered(a, b).end
        BY <4>1, <4>2 DEF Aligned
      <4> USE DEF Covered
      <4> QED
        BY <4>3
    <3> HIDE DEF pairs, a, b
    <3>4. t <= b \/ t < e
      <4>1. CASE ReachesEnd(b, potential, expected)
        BY <3>3, <4>1
      <4>2. CASE ~ReachesEnd(b, potential, expected)
        <5>1. t < b + BarLen
          BY <3>3, <4>2
        <5>2. b < t => b + BarLen <= t
          BY <1>2, <3>2, <3>3, Multiples
        <5> QED
          BY <1>2, <3>2, <3>3, <5>1, <5>2
      <4> QED
        BY <4>1, <4>2
    <3>5. t \in potential
      <4>1. s <= t /\ t < e
        BY <3>2, <3>3, <3>4
      <4>2. t \in Aligned(s, e)
        BY <3>3, <4>1 DEF Aligned
      <4> QED
        BY <2>5, <4>2
    <3>6. t <= b
      <4> SUFFICES ASSUME b < t PROVE FALSE
        BY <3>2, <3>3
      <4>1. ReachesEnd(b, potential, expected)
        <5> SUFFICES ASSUME ~ReachesEnd(b, potential, expected) PROVE FALSE
          OBVIOUS
        <5>1. t < b + BarLen /\ b + BarLen <= t
          BY <1>2, <3>2, <3>3, Multiples
        <5> QED
          BY <1>2, <3>2, <3>3, <5>1
      <4>2. b = Max(potential)
        BY <4>1 DEF ReachesEnd
      <4> HIDE DEF potential, expected
      <4>3. t <= Max(potential)
        <5>1. e - 1 \in Int /\ \A n \in potential : n <= e - 1
          BY <2>1
        <5> QED
          BY <1>4, <2>1, <3>5, <5>1, MaxIs
      <4> QED
        BY <3>2, <3>3, <4>2, <4>3
    <3>7. t \in expected
      <4>1. CASE t = b
        BY <3>1, <4>1
      <4>2. CASE t < b
        <5>1. t + BarLen <= b
          BY <1>2, <3>2, <3>3, <4>2, Multiples
        <5>2. EffectiveClose(cal, t, BarLen) \in Int /\ EffectiveClose(cal, t, BarLen) <= t + BarLen
          BY <3>3, CloseIs
        <5>3. EffectiveClose(cal, b, BarLen) \in Int /\ b < EffectiveClose(cal, b, BarLen)
          BY <3>2, CloseIs
        <5>4. EffectiveClose(cal, t, BarLen) <= at
          BY <1>2, <3>2, <3>3, <5>1, <5>2, <5>3
        <5> QED
          BY <3>5, <5>4
      <4> QED
        BY <3>2, <3>3, <3>6, <4>1, <4>2
    <3>8. a <= t
      <4> SUFFICES ASSUME t < a PROVE FALSE
        BY <3>2, <3>3
      <4>1. t \in Prev(a)
        BY <3>7
      <4>2. a <= t
        BY <3>3, <4>1
      <4> QED
        BY <3>2, <3>3, <4>2
    <3> QED
      BY <3>1, <3>6, <3>7, <3>8
  <2>6. V \in SUBSET Intervals
    <3> HIDE DEF pairs, V, Covered
    <3> QED
      BY <2>2, <2>3
  <2>7. \A r \in V : Has(r, present)
    <3> HIDE DEF pairs, V, Covered
    <3> QED
      BY <2>2, <2>5 DEF Has
  <2> QED
    BY <2>4, <2>6, <2>7
<1> QED
  BY <1>3, <1>4

\* What is uncovered is a set of intervals that begin no earlier than what was asked for.
LEMMA UncoveredTypes ==
    ASSUME NEW rows \in SUBSET Intervals, IsFiniteSet(rows), \A i \in rows : i.start < i.end,
           NEW s \in Int, NEW e \in Int
    PROVE  /\ Uncovered(rows, s, e) \in SUBSET Intervals
           /\ \A g \in Uncovered(rows, s, e) : s <= g.start
<1> DEFINE held == MergeIntervals(rows)
           starts == {a \in {s} \cup {r.end : r \in held} :
                         s <= a /\ a < e /\ ~\E r \in held : r.start <= a /\ a < r.end}
           After(a) == {e} \cup {b \in {r.start : r \in held} : a < b}
           Part(a) == [start |-> a, end |-> Min(After(a))]
<1>1. held \in SUBSET Intervals
  BY MergeHolds
<1>2. Uncovered(rows, s, e) = {Part(a) : a \in starts}
  BY DEF Uncovered
<1> HIDE DEF held
<1>3. starts \in SUBSET Int
  BY <1>1, Fields
<1>4. ASSUME NEW a \in starts PROVE a \in Int /\ s <= a /\ Min(After(a)) \in Int
  <2>1. a \in Int /\ s <= a /\ a < e
    BY <1>3
  <2>2. After(a) \in SUBSET Int /\ After(a) # {}
    BY <1>1, Fields
  <2>3. \A n \in After(a) : a <= n
    BY <1>1, <2>1, Fields
  <2> HIDE DEF After, starts
  <2> QED
    BY <2>1, <2>2, <2>3, MinIs
<1> HIDE DEF starts, After
<1>5. \A a \in starts : Part(a) \in Intervals /\ s <= Part(a).start
  BY <1>4 DEF Intervals
<1> HIDE DEF Part
<1> QED
  BY <1>2, <1>5

\* The earliest of some gaps is one of them.
LEMMA EarliestIs ==
    ASSUME NEW gaps \in SUBSET Intervals, gaps # {}, NEW s \in Int, \A g \in gaps : s <= g.start
    PROVE  Earliest(gaps) \in gaps
<1> DEFINE S == {g.start : g \in gaps}
<1>1. S \in SUBSET Int /\ S # {} /\ \A n \in S : s <= n
  BY Fields
<1>2. PICK m \in S : \A n \in S : m <= n
  <2> HIDE DEF S
  <2> QED
    BY <1>1, LeastAbove
<1>3. \E g \in gaps : \A h \in gaps : g.start <= h.start
  BY <1>2
<1> QED
  BY <1>3 DEF Earliest

-----------------------------------------------------------------------------
(* The coverage rows *)

Loads ==
    [pc : {"idle", "fetch", "request", "store", "record"}, start : Int, end : Int,
     gaps : SUBSET Intervals, at : Int, got : SUBSET Int]

Loading ==
    /\ load \in Loads
    /\ \A g \in load.gaps : load.start <= g.start
    /\ load.pc # "idle" => load.gaps # {}
    /\ load.pc = "record" => load.got \subseteq bars

Ranged ==
    /\ ranges \in SUBSET Intervals /\ IsFiniteSet(ranges)
    /\ \A r \in ranges : r.start < r.end

Complete == \A r \in ranges : Has(r, bars)

CoverageInv == Ranged /\ Loading /\ Complete

\* The part of the invariant that is the property.
LEMMA CompleteIs == Complete <=> CoverageIsStored
BY DEF Complete, CoverageIsStored, Has

\* The fields of a load.
LEMMA LoadFields ==
    ASSUME NEW l \in Loads
    PROVE  /\ l.pc \in {"idle", "fetch", "request", "store", "record"} /\ l.start \in Int /\ l.end \in Int
           /\ l.gaps \in SUBSET Intervals /\ l.at \in Int /\ l.got \in SUBSET Int
BY DEF Loads

\* What a load has left to do.
LEMMA OnwardIs ==
    ASSUME NEW l \in Loads, NEW gaps \in SUBSET Intervals, \A g \in gaps : l.start <= g.start,
           load' = Onward(l, gaps)
    PROVE  Loading'
<1>1. gaps # {} => Earliest(gaps).start \in Int
  BY LoadFields, EarliestIs, Fields
<1> DEFINE at == IF gaps = {} THEN 0 ELSE Earliest(gaps).start
           pc == IF gaps = {} THEN "idle" ELSE "fetch"
<1>2. at \in Int /\ pc \in {"idle", "fetch"}
  BY <1>1
<1>3. load' = [l EXCEPT !.gaps = gaps, !.got = {}, !.at = at, !.pc = pc]
  BY DEF Onward
<1>4. (pc # "idle" => gaps # {}) /\ pc # "record"
  OBVIOUS
<1> HIDE DEF at, pc
<1>5. load' \in Loads /\ load'.gaps = gaps /\ load'.start = l.start /\ load'.pc = pc
  BY <1>2, <1>3 DEF Loads
<1> QED
  BY <1>4, <1>5 DEF Loading

\* A load that ended has nothing to vouch for.
LEMMA NoLoading ==
    ASSUME load' = NoLoad
    PROVE  Loading'
BY DEF Loading, NoLoad, Loads

\* Candles that are added make no coverage wrong.
LEMMA SameRows ==
    ASSUME CoverageInv, ranges' = ranges, bars \subseteq bars', cal' = cal
    PROVE  Ranged' /\ Complete'
<1>1. \A r \in ranges : Has(r, bars) => Has(r, bars)'
  BY DEF Has, Aligned
<1> QED
  BY <1>1 DEF CoverageInv, Ranged, Complete

\* The gap of a load under way.
LEMMA GapIs ==
    ASSUME Loading, load.pc # "idle"
    PROVE  Gap \in load.gaps /\ Gap.start \in Int /\ Gap.end \in Int
<1>1. load.gaps \in SUBSET Intervals /\ load.start \in Int
  BY LoadFields DEF Loading
<1>2. Gap \in load.gaps
  BY <1>1, EarliestIs DEF Loading, Gap
<1> QED
  BY <1>1, <1>2, Fields

\* Starting a load keeps coverage backed.
LEMMA StartCovers ==
    ASSUME ClockInv, CoverageInv, NEW len \in LoadLens, StartLoad(len)
    PROVE  CoverageInv'
<1>1. now \in Int /\ now - len \in Int
  BY HistoryAssumption DEF ClockInv
<1> DEFINE l == [NoLoad EXCEPT !.start = now - len, !.end = now]
           gaps == Uncovered(ranges, now - len, now)
<1>2. l \in Loads /\ l.start = now - len
  <2>1. NoLoad \in Loads
    BY DEF NoLoad, Loads
  <2>2. l.start = now - len
    BY DEF NoLoad
  <2> QED
    BY <1>1, <2>1, <2>2 DEF Loads
<1>3. gaps \in SUBSET Intervals /\ \A g \in gaps : now - len <= g.start
  BY <1>1, UncoveredTypes DEF CoverageInv, Ranged
<1>4. load' = Onward(l, gaps)
  BY DEF StartLoad
<1> HIDE DEF l, gaps
<1>5. Loading'
  BY <1>2, <1>3, <1>4, OnwardIs
<1>6. ranges' = ranges /\ bars \subseteq bars' /\ cal' = cal
  BY DEF StartLoad
<1> QED
  BY <1>5, <1>6, SameRows DEF CoverageInv

\* So do requests and their answers, which store nothing.
LEMMA FetchCovers ==
    ASSUME CoverageInv, Request \/ Fail \/ (load.pc = "request" /\ \E p \in SUBSET Aligned(load.at, ChunkEnd) : Receive(p))
    PROVE  CoverageInv'
<1>1. ranges' = ranges /\ bars' = bars /\ cal' = cal
  BY DEF Request, Fail, Receive
<1>2. load \in Loads
  BY DEF CoverageInv, Loading
<1>3. CASE Request
  <2>1. load' = [load EXCEPT !.pc = "request"] /\ load.pc = "fetch"
    BY <1>3 DEF Request
  <2>2. load' \in Loads /\ load'.gaps = load.gaps /\ load'.start = load.start /\ load'.pc = "request"
    BY <1>2, <2>1 DEF Loads
  <2>3. Loading'
    BY <2>1, <2>2 DEF CoverageInv, Loading
  <2> QED
    BY <1>1, <2>3, SameRows DEF CoverageInv
<1>4. CASE Fail
  BY <1>1, <1>4, NoLoading, SameRows DEF Fail, CoverageInv
<1>5. ASSUME load.pc = "request", NEW p \in SUBSET Aligned(load.at, ChunkEnd), Receive(p)
      PROVE  CoverageInv'
  <2>1. Gap.end \in Int /\ load.at \in Int /\ MaxDays \in Int /\ load.at + MaxDays \in Int
    BY <1>2, <1>5, GapIs, LoadFields, HistoryAssumption DEF CoverageInv
  <2>2. ChunkEnd \in Int
    BY <2>1, MinOfTwo DEF ChunkEnd
  <2>3. Normalize(p, now) \in SUBSET Int
    <3>1. Aligned(load.at, ChunkEnd) \subseteq Int
      BY <2>1, <2>2 DEF Aligned
    <3> QED
      BY <3>1 DEF Normalize
  <2> DEFINE got == load.got \cup Normalize(p, now)
             pc == IF ChunkEnd < Gap.end THEN "fetch" ELSE "store"
  <2>4. load' = [load EXCEPT !.got = got, !.at = ChunkEnd, !.pc = pc]
    BY <1>2, <1>5 DEF Receive, Loads
  <2>5. got \in SUBSET Int /\ pc \in {"fetch", "store"}
    BY <1>2, <2>3, LoadFields
  <2> HIDE DEF got, pc
  <2>6. load' \in Loads /\ load'.gaps = load.gaps /\ load'.start = load.start /\ load'.pc = pc
    BY <1>2, <2>2, <2>4, <2>5 DEF Loads
  <2>7. Loading'
    BY <1>5, <2>5, <2>6 DEF CoverageInv, Loading
  <2> QED
    BY <1>1, <2>7, SameRows DEF CoverageInv
<1> QED
  BY <1>3, <1>4, <1>5

\* So does storing the candles of an answer.
LEMMA StoreCovers ==
    ASSUME CoverageInv, Store
    PROVE  CoverageInv'
<1>1. load \in Loads /\ load.pc = "store" /\ load.got \in SUBSET Int
  BY LoadFields DEF CoverageInv, Loading, Store
<1>2. InGap \in SUBSET Int
  BY <1>1 DEF InGap
<1>3. load' = [load EXCEPT !.pc = "record", !.got = InGap] /\ InGap \subseteq bars'
  BY DEF Store
<1>4. load' \in Loads /\ load'.gaps = load.gaps /\ load'.start = load.start /\ load'.pc = "record" /\ load'.got = InGap
  BY <1>1, <1>2, <1>3 DEF Loads
<1>5. Loading'
  BY <1>1, <1>3, <1>4 DEF CoverageInv, Loading
<1>6. ranges' = ranges /\ bars \subseteq bars' /\ cal' = cal
  BY DEF Store
<1> QED
  BY <1>5, <1>6, SameRows DEF CoverageInv

\* So does recording what they verify.
LEMMA RecordCovers ==
    ASSUME ClockInv, CoverageInv, Record
    PROVE  CoverageInv'
<1> DEFINE new == VerifiedCoverage(load.got, Gap.start, Gap.end, now)
           S == ranges \cup {r \in new : r.start < r.end}
<1>1. load \in Loads /\ load.pc = "record" /\ load.got \subseteq bars
      /\ Gap \in load.gaps /\ Gap.start \in Int /\ Gap.end \in Int
  BY GapIs DEF CoverageInv, Loading, Record
<1>2. new \in SUBSET Intervals /\ IsFiniteSet(new) /\ \A r \in new : Has(r, load.got)
  BY <1>1, Verified, CalendarsAssumption DEF ClockInv
<1>3. ranges' = MergeIntervals(S) /\ bars' = bars /\ cal' = cal
  BY DEF Record, Recorded
<1> HIDE DEF new
<1>4. /\ S \in SUBSET Intervals /\ \A i \in S : i.start < i.end
      /\ \A i \in S : Has(i, bars)
  <2>1. \A r \in new : Has(r, bars)
    BY <1>1, <1>2 DEF Has
  <2> QED
    BY <1>2, <2>1 DEF CoverageInv, Ranged, Complete
<1>5. IsFiniteSet(S)
  <2>1. IsFiniteSet({r \in new : r.start < r.end})
    BY <1>2, FS_Subset
  <2> QED
    BY <2>1, FS_Union DEF CoverageInv, Ranged
<1> HIDE DEF S
<1>6. Ranged'
  BY <1>3, <1>4, <1>5, MergeHolds DEF Ranged
<1>7. Complete'
  <2> SUFFICES ASSUME NEW r \in MergeIntervals(S), NEW t \in Aligned(r.start, r.end), IsOpen(cal, t)
               PROVE  t \in bars
    BY <1>3 DEF Complete, Has, Aligned
  <2>1. r.start \in Int /\ r.end \in Int
    BY <1>4, <1>5, MergeHolds, Fields
  <2>2. t \in Int /\ r.start <= t /\ t < r.end /\ t % BarLen = 0
    BY <2>1 DEF Aligned
  <2>3. PICK i \in S : i.start <= t /\ t < i.end
    BY <1>4, <1>5, <2>2, MergeHolds DEF Held
  <2>4. t \in Aligned(i.start, i.end)
    <3>1. i.start \in Int /\ i.end \in Int
      BY <1>4, Fields
    <3> QED
      BY <2>2, <2>3, <3>1 DEF Aligned
  <2> QED
    BY <1>4, <2>4 DEF Has
<1>8. Loading'
  <2>1. load.gaps \ {Gap} \in SUBSET Intervals /\ \A g \in load.gaps \ {Gap} : load.start <= g.start
    BY <1>1, LoadFields DEF CoverageInv, Loading
  <2>2. load' = Onward(load, load.gaps \ {Gap})
    BY DEF Record
  <2> QED
    BY <1>1, <2>1, <2>2, OnwardIs
<1> QED
  BY <1>6, <1>7, <1>8 DEF CoverageInv

\* So does every step.
LEMMA StepCovers ==
    ClockInv /\ CoverageInv /\ [ScannerNext]_<<historyVars, watchVars, scanVars>> => CoverageInv'
<1> SUFFICES ASSUME ClockInv, CoverageInv, [ScannerNext]_<<historyVars, watchVars, scanVars>> PROVE CoverageInv'
  OBVIOUS
<1>1. CASE UNCHANGED <<cal, bars, ranges, load>>
  BY <1>1, SameRows DEF CoverageInv, Loading
<1>2. CASE HistoryStep
  <2>1. ASSUME NEW len \in LoadLens, StartLoad(len) PROVE CoverageInv'
    BY <2>1, StartCovers
  <2>2. CASE LoaderStep
    BY <2>2, FetchCovers, StoreCovers, RecordCovers DEF LoaderStep
  <2>3. ASSUME NEW c \in Callers, OtherRequest(c) \/ Thread(c) PROVE CoverageInv'
    BY <1>1, <2>3 DEF OtherRequest, Thread, cacheVars
  <2>4. CASE Time
    BY <1>1, <2>4 DEF Time
  <2> QED
    BY <1>2, <2>1, <2>2, <2>3, <2>4 DEF HistoryStep
<1>3. CASE Restart
  <2>1. Loading'
    BY <1>3, NoLoading DEF Restart
  <2> QED
    BY <1>3, <2>1, SameRows DEF Restart, CoverageInv
<1> QED
  BY <1>1, <1>2, <1>3, Steps DEF Housekeep, historyVars, cacheVars

\* Nothing is covered at the start.
LEMMA StartCoverage == ScannerInit => CoverageInv
<1> SUFFICES ASSUME ScannerInit PROVE CoverageInv
  OBVIOUS
<1>1. bars = {} /\ ranges = {} /\ load = NoLoad
  BY DEF ScannerInit, Init, HistoryInit
<1>2. Ranged /\ Complete
  BY <1>1, FS_EmptySet DEF Ranged, Complete
<1>3. Loading
  BY <1>1 DEF Loading, NoLoad, Loads
<1> QED
  BY <1>2, <1>3 DEF CoverageInv

\* Every bar that the calendar expects inside a coverage row is in the candles table, for
\* every calendar, bar length and chunk, whatever the broker left out and wherever a load
\* was cut short: the next start of the program may rely on the row.
THEOREM CoverageHolds == ScannerSpec => []CoverageIsStored
<1>1. CoverageInv => CoverageIsStored
  BY CompleteIs DEF CoverageInv
<1> QED
  BY <1>1, StartClock, StepClocks, StartCoverage, StepCovers, PTL DEF ScannerSpec
=============================================================================
