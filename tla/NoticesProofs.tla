---------------------------- MODULE NoticesProofs -----------------------------
(* What the channel does to the updates it holds and to the pace of its sends.   *)
EXTENDS Notices, Basics

Messages == [batch : BOOLEAN, n : Nat, announces : Nat, age : Nat]

-----------------------------------------------------------------------------
(* Counting updates *)

\* f counts the updates of the first messages of q.
CountsUp(f, q) == f[0] = 0 /\ \A i \in 1..Len(q) : f[i] = f[i-1] + q[i].n + q[i].announces

\* The running count of a queue's updates exists, and Updates is its last value.
LEMMA Counted ==
    ASSUME NEW q \in Seq(Messages)
    PROVE  \E f \in [0..Len(q) -> Nat] : CountsUp(f, q) /\ Updates(q) = f[Len(q)]
<1> DEFINE step == [i \in 1..Len(q) |-> [sum \in Nat |-> sum + q[i].n + q[i].announces]]
<1> DEFINE Counts(g) ==
        g = [i \in 0..Len(q) |-> IF i = 0 THEN 0 ELSE g[i-1] + q[i].n + q[i].announces]
<1>1. Len(q) \in Nat /\ \A i \in 1..Len(q) : q[i] \in Messages
  OBVIOUS
<1>2. step \in [1..Len(q) -> [Nat -> Nat]]
  BY <1>1 DEF Messages
<1>3. PICK f \in [0..Len(q) -> Nat] : Takes(f, Len(q), 0, step)
  <2> HIDE DEF step
  <2> QED
    BY <1>1, <1>2, StepsExist
<1>4. CountsUp(f, q)
  <2> SUFFICES ASSUME NEW i \in 1..Len(q) PROVE f[i] = f[i-1] + q[i].n + q[i].announces
    BY <1>3 DEF CountsUp, Takes
  <2>1. i-1 \in 0..Len(q)
    BY <1>1
  <2>2. f[i-1] \in Nat
    BY <2>1
  <2> QED
    BY <1>3, <2>2 DEF Takes
<1>5. Counts(f)
  BY <1>1, <1>4 DEF CountsUp
<1> DEFINE g == CHOOSE h : Counts(h)
<1>6. Counts(g)
  BY <1>5
<1>7. Updates(q) = g[Len(q)]
  BY DEF Updates
<1> HIDE DEF g, step
<1>8. CountsUp(g, q)
  BY <1>1, <1>6 DEF CountsUp
<1> DEFINE Same == {i \in 0..Len(q) : g[i] = f[i]}
<1>9. 0 \in Same /\ Climbs(Same, 0, Len(q))
  <2>1. ASSUME NEW i \in 0..(Len(q) - 1), g[i] = f[i] PROVE g[i+1] = f[i+1]
    <3>1. i+1 \in 1..Len(q) /\ (i+1)-1 = i
      BY <1>1
    <3> QED
      BY <1>4, <1>8, <2>1, <3>1 DEF CountsUp
  <2> QED
    BY <1>1, <1>4, <1>8, <2>1 DEF CountsUp, Climbs
<1>10. \A i \in 0..Len(q) : i \in Same
  <2> HIDE DEF Same
  <2> QED
    BY <1>1, <1>9, Climb
<1>11. g[Len(q)] = f[Len(q)]
  BY <1>1, <1>10
<1> QED
  BY <1>4, <1>7, <1>11

\* Whoever counts them gets the same number.
LEMMA CountIs ==
    ASSUME NEW q \in Seq(Messages), NEW f, CountsUp(f, q)
    PROVE  Updates(q) = f[Len(q)] /\ Updates(q) \in Nat
<1>1. PICK g \in [0..Len(q) -> Nat] : CountsUp(g, q) /\ Updates(q) = g[Len(q)]
  BY Counted
<1> DEFINE Same == {i \in 0..Len(q) : g[i] = f[i]}
<1>2. Len(q) \in Nat
  OBVIOUS
<1>3. 0 \in Same /\ Climbs(Same, 0, Len(q))
  <2>1. ASSUME NEW i \in 0..(Len(q) - 1), g[i] = f[i] PROVE g[i+1] = f[i+1]
    <3>1. i+1 \in 1..Len(q) /\ (i+1)-1 = i
      BY <1>2
    <3> QED
      BY <1>1, <2>1, <3>1 DEF CountsUp
  <2> QED
    BY <1>1, <1>2, <2>1 DEF CountsUp, Climbs
<1>4. \A i \in 0..Len(q) : i \in Same
  <2> HIDE DEF Same
  <2> QED
    BY <1>2, <1>3, Climb
<1> QED
  BY <1>1, <1>2, <1>4

\* An empty queue holds none; one more message adds its own.
LEMMA CountAppend ==
    /\ Updates(<<>>) = 0
    /\ \A q \in Seq(Messages), m \in Messages :
            Updates(Append(q, m)) = Updates(q) + m.n + m.announces
<1>1. Updates(<<>>) = 0
  <2>1. CountsUp([i \in {0} |-> 0], <<>>) /\ <<>> \in Seq(Messages) /\ Len(<<>>) = 0
    BY DEF CountsUp
  <2> QED
    BY <2>1, CountIs
<1>2. ASSUME NEW q \in Seq(Messages), NEW m \in Messages
      PROVE  Updates(Append(q, m)) = Updates(q) + m.n + m.announces
  <2>1. PICK f \in [0..Len(q) -> Nat] : CountsUp(f, q) /\ Updates(q) = f[Len(q)]
    BY Counted
  <2> DEFINE r == Append(q, m)
             n == Len(q)
             g == [i \in 0..(n+1) |-> IF i <= n THEN f[i] ELSE f[n] + m.n + m.announces]
  <2>2. r \in Seq(Messages) /\ Len(r) = n+1 /\ n \in Nat /\ r[n+1] = m
        /\ \A i \in 1..n : r[i] = q[i]
    OBVIOUS
  <2>3. g[0] = 0
    BY <2>1, <2>2 DEF CountsUp
  <2>4. ASSUME NEW i \in 1..(n+1) PROVE g[i] = g[i-1] + r[i].n + r[i].announces
    <3>1. CASE i = n+1
      <4>1. g[n+1] = f[n] + m.n + m.announces /\ g[n] = f[n] /\ (n+1)-1 = n
        BY <2>2
      <4> QED
        BY <2>2, <3>1, <4>1
    <3>2. CASE i \in 1..n
      <4>1. g[i] = f[i] /\ g[i-1] = f[i-1]
        BY <2>2, <3>2
      <4> QED
        BY <2>1, <2>2, <3>2, <4>1 DEF CountsUp
    <3> QED
      BY <2>2, <3>1, <3>2
  <2>5. g[n+1] = f[n] + m.n + m.announces
    BY <2>2
  <2> HIDE DEF g, r
  <2>6. CountsUp(g, r)
    BY <2>2, <2>3, <2>4 DEF CountsUp
  <2>7. Updates(r) = g[n+1]
    BY <2>2, <2>6, CountIs
  <2> QED
    BY <2>1, <2>5, <2>7 DEF r
<1> QED
  BY <1>1, <1>2

\* Two queues one after the other hold what both hold.
LEMMA CountConcat ==
    ASSUME NEW q \in Seq(Messages), NEW r \in Seq(Messages)
    PROVE  q \o r \in Seq(Messages) /\ Updates(q \o r) = Updates(q) + Updates(r)
<1> DEFINE Same == {i \in 0..Len(r) : Updates(q \o Begin(r, i)) = Updates(q) + Updates(Begin(r, i))}
<1>1. Len(r) \in Nat
  OBVIOUS
<1>2. 0 \in Same
  <2>1. Begin(r, 0) = <<>> /\ q \o Begin(r, 0) = q
    BY Begins
  <2>2. Updates(q) \in Nat
    BY Counted, CountIs
  <2>3. Updates(q \o Begin(r, 0)) = Updates(q) + Updates(Begin(r, 0))
    <3>1. Updates(Begin(r, 0)) = 0
      BY <2>1, CountAppend
    <3>2. Updates(q \o Begin(r, 0)) = Updates(q)
      BY <2>1
    <3> QED
      BY <2>2, <3>1, <3>2
  <2> QED
    BY <1>1, <2>3
<1>3. ASSUME NEW i \in 0..(Len(r) - 1), i \in Same PROVE i + 1 \in Same
  <2> DEFINE s == Begin(r, i)
             m == r[i+1]
  <2>1. s \in Seq(Messages) /\ m \in Messages /\ Begin(r, i+1) = Append(s, m)
    BY <1>1, Begins, SMTT(20)
  <2> HIDE DEF s, m
  <2>2. q \o Append(s, m) = Append(q \o s, m) /\ q \o s \in Seq(Messages)
    BY <2>1, ConcatAppend
  <2>3. Updates(s) \in Nat /\ Updates(q) \in Nat /\ Updates(q \o s) \in Nat
    BY <2>1, <2>2, Counted, CountIs
  <2>4. Updates(Append(s, m)) = Updates(s) + m.n + m.announces
    BY <2>1, CountAppend
  <2>5. Updates(q \o Append(s, m)) = Updates(q \o s) + m.n + m.announces
    BY <2>1, <2>2, CountAppend
  <2>6. Updates(q \o s) = Updates(q) + Updates(s) /\ i+1 \in 0..Len(r)
    BY <1>1, <1>3 DEF s
  <2>7. m.n \in Nat /\ m.announces \in Nat
    BY <2>1 DEF Messages
  <2>8. Updates(q \o Append(s, m)) = Updates(q) + Updates(Append(s, m))
    BY <2>3, <2>4, <2>5, <2>6, <2>7
  <2> QED
    BY <2>1, <2>6, <2>8
<1>4. \A i \in 0..Len(r) : i \in Same
  <2>1. Climbs(Same, 0, Len(r))
    BY <1>3 DEF Climbs
  <2> HIDE DEF Same
  <2> QED
    BY <1>1, <1>2, <2>1, Climb
<1>5. Begin(r, Len(r)) = r /\ q \o r \in Seq(Messages)
  BY Begins
<1>6. Len(r) \in Same
  <2> HIDE DEF Same
  <2> QED
    BY <1>1, <1>4
<1> QED
  BY <1>5, <1>6

\* What messages have to do with updates is their counts.
LEMMA CountSame ==
    ASSUME NEW q \in Seq(Messages), NEW r \in Seq(Messages), Len(q) = Len(r),
           \A i \in 1..Len(q) : r[i].n = q[i].n /\ r[i].announces = q[i].announces
    PROVE  Updates(r) = Updates(q)
<1>1. PICK f \in [0..Len(q) -> Nat] : CountsUp(f, q) /\ Updates(q) = f[Len(q)]
  BY Counted
<1>2. CountsUp(f, r)
  BY <1>1 DEF CountsUp
<1> QED
  BY <1>1, <1>2, CountIs

\* The first message and the rest.
LEMMA CountHead ==
    ASSUME NEW q \in Seq(Messages), q # <<>>
    PROVE  /\ <<Head(q)>> \in Seq(Messages) /\ Tail(q) \in Seq(Messages)
           /\ Updates(q) = Updates(<<Head(q)>>) + Updates(Tail(q))
<1>1. <<Head(q)>> \in Seq(Messages) /\ Tail(q) \in Seq(Messages) /\ q = <<Head(q)>> \o Tail(q)
  OBVIOUS
<1> QED
  BY <1>1, CountConcat

\* The first messages and the rest.
LEMMA CountCut ==
    ASSUME NEW q \in Seq(Messages), NEW a \in 0..Len(q)
    PROVE  /\ SubSeq(q, 1, a) \in Seq(Messages) /\ SubSeq(q, a+1, Len(q)) \in Seq(Messages)
           /\ Updates(q) = Updates(SubSeq(q, 1, a)) + Updates(SubSeq(q, a+1, Len(q)))
<1>1. /\ Begin(q, a) \in Seq(Messages) /\ SubSeq(q, a+1, Len(q)) \in Seq(Messages)
      /\ q = Begin(q, a) \o SubSeq(q, a+1, Len(q))
  BY Begins, Halves
<1>2. Updates(q) = Updates(Begin(q, a)) + Updates(SubSeq(q, a+1, Len(q)))
  BY <1>1, CountConcat
<1> QED
  BY <1>1, <1>2 DEF Begin

\* A last message that announces x more.
LEMMA CountAnnounced ==
    ASSUME NEW q \in Seq(Messages), q # <<>>, NEW x \in Nat
    PROVE  LET r == [q EXCEPT ![Len(q)].announces = @ + x]
           IN  r \in Seq(Messages) /\ Len(r) = Len(q) /\ Updates(r) = Updates(q) + x
<1> DEFINE n == Len(q)
           r == [q EXCEPT ![n].announces = @ + x]
           front == SubSeq(q, 1, n-1)
<1>1. n \in Nat \ {0} /\ \A i \in 1..n : q[i] \in Messages
  OBVIOUS
<1>2. q[n].announces \in Nat /\ q[n].n \in Nat
  BY <1>1 DEF Messages
<1>3. [q[n] EXCEPT !.announces = @ + x] \in Messages
  <2>1. q[n] \in Messages /\ q[n].announces + x \in Nat
    BY <1>1, <1>2
  <2> QED
    BY <2>1 DEF Messages
<1>4. r \in Seq(Messages) /\ Len(r) = n /\ r[n] = [q[n] EXCEPT !.announces = @ + x]
      /\ \A i \in 1..(n-1) : r[i] = q[i]
  BY <1>1, <1>3
<1>5. r[n] \in Messages /\ r[n].n = q[n].n /\ r[n].announces = q[n].announces + x
  BY <1>1, <1>2, <1>3, <1>4 DEF Messages
<1> HIDE DEF r
<1>6. front \in Seq(Messages) /\ q = Append(front, q[n]) /\ q[n] \in Messages
  BY <1>1
<1>7. SubSeq(r, 1, n-1) = front
  BY <1>1, <1>4
<1>8. r = Append(front, r[n])
  BY <1>1, <1>4, <1>7
<1> HIDE DEF front
<1>9. Updates(q) = Updates(front) + q[n].n + q[n].announces
  BY <1>6, CountAppend
<1>10. Updates(r) = Updates(front) + r[n].n + r[n].announces
  BY <1>5, <1>6, <1>8, CountAppend
<1>11. Updates(front) \in Nat
  BY <1>6, Counted, CountIs
<1>12. Updates(r) = Updates(q) + x
  BY <1>2, <1>5, <1>9, <1>10, <1>11
<1> QED
  BY <1>4, <1>12 DEF r

-----------------------------------------------------------------------------
(* What due() makes of the queue *)

\* f collects the messages of q that wait for a batch, or those that do not.
Collects(f, merged, q) ==
    /\ f[0] = <<>>
    /\ \A i \in 1..Len(q) : f[i] = IF q[i].batch = merged THEN Append(f[i-1], q[i]) ELSE f[i-1]

\* The fold over the queue ends, and is its last value.
LEMMA Collected ==
    ASSUME NEW q \in Seq(Messages), NEW merged
    PROVE  \E f \in [0..Len(q) -> Seq(Messages)] : Collects(f, merged, q) /\ Those(merged, q) = f[Len(q)]
<1> DEFINE S == Seq(Messages)
           step == [i \in 1..Len(q) |-> [s \in S |-> IF q[i].batch = merged THEN Append(s, q[i]) ELSE s]]
           Made(g) == g = [i \in 0..Len(q) |->
                              IF i = 0 THEN <<>>
                              ELSE IF q[i].batch = merged THEN Append(g[i-1], q[i]) ELSE g[i-1]]
<1>1. Len(q) \in Nat /\ \A i \in 1..Len(q) : q[i] \in Messages
  OBVIOUS
<1>2. <<>> \in S /\ \A s \in S, m \in Messages : Append(s, m) \in S
  OBVIOUS
<1> HIDE DEF S
<1>3. step \in [1..Len(q) -> [S -> S]]
  BY <1>1, <1>2
<1>4. PICK f \in [0..Len(q) -> S] : Takes(f, Len(q), <<>>, step)
  <2> HIDE DEF step
  <2> QED
    BY <1>1, <1>2, <1>3, StepsExist
<1>5. Collects(f, merged, q)
  <2> SUFFICES ASSUME NEW i \in 1..Len(q)
               PROVE  f[i] = IF q[i].batch = merged THEN Append(f[i-1], q[i]) ELSE f[i-1]
    BY <1>4 DEF Collects, Takes
  <2>1. i-1 \in 0..Len(q)
    BY <1>1
  <2>2. f[i-1] \in S
    BY <2>1
  <2> QED
    BY <1>4, <2>2 DEF Takes
<1>6. Made(f)
  <2>1. ASSUME NEW i \in 0..Len(q)
        PROVE  f[i] = IF i = 0 THEN <<>> ELSE IF q[i].batch = merged THEN Append(f[i-1], q[i]) ELSE f[i-1]
    <3>1. CASE i = 0
      BY <1>5, <3>1 DEF Collects
    <3>2. CASE i # 0
      <4>1. i \in 1..Len(q)
        BY <1>1, <3>2
      <4> QED
        BY <1>5, <3>2, <4>1 DEF Collects
    <3> QED
      BY <3>1, <3>2
  <2>2. f = [i \in 0..Len(q) |-> f[i]]
    OBVIOUS
  <2> HIDE DEF step
  <2> QED
    BY <2>1, <2>2
<1> DEFINE g == CHOOSE h : Made(h)
<1>7. Made(g)
  BY <1>6
<1>8. Those(merged, q) = g[Len(q)]
  BY DEF Those
<1> HIDE DEF g, step
<1>9. Collects(g, merged, q)
  <2>1. g[0] = <<>>
    BY <1>1, <1>7
  <2>2. ASSUME NEW i \in 1..Len(q)
        PROVE  g[i] = IF q[i].batch = merged THEN Append(g[i-1], q[i]) ELSE g[i-1]
    <3>1. i \in 0..Len(q) /\ i # 0
      BY <1>1
    <3> QED
      BY <1>7, <3>1
  <2> QED
    BY <2>1, <2>2 DEF Collects
<1> DEFINE Typed == {i \in 0..Len(q) : g[i] \in S}
<1>10. 0 \in Typed /\ Climbs(Typed, 0, Len(q))
  <2>1. ASSUME NEW i \in 0..(Len(q) - 1), g[i] \in S PROVE g[i+1] \in S
    <3>1. i+1 \in 1..Len(q) /\ (i+1)-1 = i
      BY <1>1
    <3>2. g[i+1] = IF q[i+1].batch = merged THEN Append(g[i], q[i+1]) ELSE g[i]
      BY <1>9, <3>1 DEF Collects
    <3> QED
      BY <1>1, <1>2, <2>1, <3>1, <3>2
  <2> QED
    BY <1>1, <1>2, <1>9, <2>1 DEF Collects, Climbs
<1>11. \A i \in 0..Len(q) : i \in Typed
  <2> HIDE DEF Typed
  <2> QED
    BY <1>1, <1>10, Climb
<1>12. g \in [0..Len(q) -> S]
  <2>1. \A i \in 0..Len(q) : g[i] \in S
    BY <1>11
  <2> HIDE DEF Typed
  <2>2. g = [i \in 0..Len(q) |-> g[i]]
    BY <1>7
  <2> QED
    BY <2>1, <2>2
<1> QED
  BY <1>8, <1>9, <1>12 DEF S

\* Sorting the queue into what is sent one by one and what is merged loses nothing.
LEMMA CountThose ==
    ASSUME NEW q \in Seq(Messages)
    PROVE  /\ Those(FALSE, q) \in Seq(Messages) /\ Those(TRUE, q) \in Seq(Messages)
           /\ Updates(q) = Updates(Those(FALSE, q)) + Updates(Those(TRUE, q))
<1>1. PICK c \in [0..Len(q) -> Nat] : CountsUp(c, q) /\ Updates(q) = c[Len(q)]
  BY Counted
<1>2. PICK f \in [0..Len(q) -> Seq(Messages)] : Collects(f, FALSE, q) /\ Those(FALSE, q) = f[Len(q)]
  BY Collected
<1>3. PICK g \in [0..Len(q) -> Seq(Messages)] : Collects(g, TRUE, q) /\ Those(TRUE, q) = g[Len(q)]
  BY Collected
<1> DEFINE Same == {i \in 0..Len(q) : c[i] = Updates(f[i]) + Updates(g[i])}
<1>4. Len(q) \in Nat
  OBVIOUS
<1>5. 0 \in Same
  <2>1. f[0] = <<>> /\ g[0] = <<>> /\ c[0] = 0
    BY <1>1, <1>2, <1>3 DEF CountsUp, Collects
  <2>2. Updates(f[0]) = 0 /\ Updates(g[0]) = 0
    BY <2>1, CountAppend
  <2> QED
    BY <1>4, <2>1, <2>2
<1>6. ASSUME NEW i \in 0..(Len(q) - 1), i \in Same PROVE i + 1 \in Same
  <2> DEFINE s == f[i]
             t == g[i]
             m == q[i+1]
             F == f[i+1]
             G == g[i+1]
  <2>1. i+1 \in 1..Len(q) /\ (i+1)-1 = i /\ i \in 0..Len(q) /\ i+1 \in 0..Len(q)
    BY <1>4
  <2>2. m \in Messages /\ s \in Seq(Messages) /\ t \in Seq(Messages)
    BY <2>1
  <2>3. F = IF m.batch = FALSE THEN Append(s, m) ELSE s
    BY <1>2, <2>1 DEF Collects
  <2>4. G = IF m.batch = TRUE THEN Append(t, m) ELSE t
    BY <1>3, <2>1 DEF Collects
  <2>5. c[i+1] = c[i] + m.n + m.announces
    BY <1>1, <2>1 DEF CountsUp
  <2>6. c[i] = Updates(s) + Updates(t)
    BY <1>6
  <2>11. i+1 \in Same <=> c[i+1] = Updates(F) + Updates(G)
    BY <2>1
  <2> HIDE DEF s, t, m, F, G
  <2>7. Updates(s) \in Nat /\ Updates(t) \in Nat /\ m.n \in Nat /\ m.announces \in Nat
    BY <2>2, Counted, CountIs DEF Messages
  <2>8. CASE m.batch = FALSE
    <3>1. F = Append(s, m) /\ G = t
      BY <2>3, <2>4, <2>8
    <3>2. Updates(F) = Updates(s) + m.n + m.announces
      BY <2>2, <3>1, CountAppend
    <3> QED
      BY <2>5, <2>6, <2>7, <2>11, <3>1, <3>2
  <2>9. CASE m.batch = TRUE
    <3>1. F = s /\ G = Append(t, m)
      BY <2>3, <2>4, <2>9
    <3>2. Updates(G) = Updates(t) + m.n + m.announces
      BY <2>2, <3>1, CountAppend
    <3> QED
      BY <2>5, <2>6, <2>7, <2>11, <3>1, <3>2
  <2>10. m.batch = FALSE \/ m.batch = TRUE
    BY <2>2 DEF Messages
  <2> QED
    BY <2>8, <2>9, <2>10
<1>7. \A i \in 0..Len(q) : i \in Same
  <2>1. Climbs(Same, 0, Len(q))
    BY <1>6 DEF Climbs
  <2> HIDE DEF Same
  <2> QED
    BY <1>4, <1>5, <2>1, Climb
<1>8. Len(q) \in Same
  <2> HIDE DEF Same
  <2> QED
    BY <1>4, <1>7
<1>9. f[Len(q)] \in Seq(Messages) /\ g[Len(q)] \in Seq(Messages)
  BY <1>4
<1> QED
  BY <1>1, <1>2, <1>3, <1>8, <1>9

\* What leaves the queue and what stays in it is all of it.
LEMMA CountOut ==
    ASSUME queue \in Seq(Messages)
    PROVE  /\ Out \in Seq(Messages) /\ Held \in Seq(Messages)
           /\ Updates(queue) = Updates(Out) + Updates(Held)
<1> DEFINE S == Singles
           B == Batch
           M == Message(FALSE, Updates(Batch), 0)
<1>1. S \in Seq(Messages) /\ B \in Seq(Messages) /\ Updates(queue) = Updates(S) + Updates(B)
  BY CountThose DEF Singles, Batch
<1>2. Updates(S) \in Nat /\ Updates(B) \in Nat
  BY <1>1, Counted, CountIs
<1>3. M \in Messages /\ M.n = Updates(B) /\ M.announces = 0
  BY <1>2 DEF Message, Messages
<1>4. /\ Out = S \o IF ~Ripe THEN <<>> ELSE IF Len(B) = 1 THEN B ELSE <<M>>
      /\ Held = IF Ripe THEN <<>> ELSE B
  BY DEF Out, Held
<1> HIDE DEF S, B, M
<1>5. <<>> \in Seq(Messages) /\ Updates(<<>>) = 0
  BY CountAppend
<1>6. CASE ~Ripe
  <2>1. Out = S
    BY <1>1, <1>4, <1>6, ConcatAppend
  <2>2. Held = B
    BY <1>4, <1>6
  <2> QED
    BY <1>1, <2>1, <2>2
<1>7. CASE Ripe /\ Len(B) = 1
  <2>1. Out = S \o B /\ Held = <<>>
    BY <1>4, <1>7
  <2> QED
    BY <1>1, <1>2, <1>5, <2>1, CountConcat
<1>8. CASE Ripe /\ Len(B) # 1
  <2>1. Out = S \o <<M>> /\ Held = <<>>
    BY <1>4, <1>8
  <2>2. <<M>> = Append(<<>>, M) /\ <<M>> \in Seq(Messages)
    BY <1>3
  <2>3. Updates(Append(<<>>, M)) = Updates(<<>>) + M.n + M.announces
    BY <1>3, <1>5, CountAppend
  <2>4. Updates(<<M>>) = Updates(B)
    BY <1>2, <1>3, <1>5, <2>2, <2>3
  <2>5. Out \in Seq(Messages) /\ Updates(Out) = Updates(S) + Updates(<<M>>)
    BY <1>1, <2>1, <2>2, CountConcat
  <2>6. Held \in Seq(Messages) /\ Updates(Held) = 0
    BY <1>5, <2>1
  <2> QED
    BY <1>1, <1>2, <2>4, <2>5, <2>6
<1> QED
  BY <1>6, <1>7, <1>8

-----------------------------------------------------------------------------
(* Nothing vanishes *)

\* The channel holds messages, and all the updates it was given.
Holding == queue \in Seq(Messages) /\ sending \in Seq(Messages) /\ NothingVanishes

\* Whatever the channel sends, holds back or cuts down to its allowance.
LEMMA DueHolds ==
    ASSUME Holding, Due
    PROVE  Holding'
<1>1. /\ Out \in Seq(Messages) /\ Held \in Seq(Messages)
      /\ Updates(queue) = Updates(Out) + Updates(Held)
  BY CountOut DEF Holding
<1>2. untold = Updates(Out) + Updates(Held) /\ untold' = untold
  <2>1. sending = <<>> /\ Updates(queue) \in Nat
    BY <1>1, Counted, CountIs DEF Due, Holding
  <2>2. Updates(sending) = 0
    BY <2>1, CountAppend
  <2> QED
    BY <1>1, <2>1, <2>2 DEF Due, Holding, NothingVanishes
<1>3. Updates(Out) \in Nat /\ Updates(Held) \in Nat
  BY <1>1, Counted, CountIs
<1>4. CASE sending' = Out /\ queue' = Held
  BY <1>1, <1>2, <1>3, <1>4 DEF Holding, NothingVanishes
<1>5. CASE /\ Len(Out) > Allowance /\ Allowance > 0 /\ queue' = Held
           /\ sending' = [SubSeq(Out, 1, Allowance) EXCEPT
                              ![Allowance].announces = @ + Updates(SubSeq(Out, Allowance + 1, Len(Out)))]
  <2> DEFINE a == Allowance
             cut == SubSeq(Out, 1, a)
             rest == SubSeq(Out, a + 1, Len(Out))
  <2>1. a \in Nat /\ a > 0 /\ a < Len(Out) /\ Len(Out) \in Nat
    BY <1>1, <1>5, NoticesAssumption DEF Allowance
  <2>2. a \in 0..Len(Out)
    BY <2>1
  <2>6. Len(cut) = a
    BY <1>1, <2>1
  <2> HIDE DEF a
  <2>3. cut \in Seq(Messages) /\ rest \in Seq(Messages) /\ Updates(Out) = Updates(cut) + Updates(rest)
    BY <1>1, <2>2, CountCut
  <2>7. sending' = [cut EXCEPT ![a].announces = @ + Updates(rest)]
    BY <1>5 DEF a
  <2> HIDE DEF cut, rest
  <2>4. Updates(rest) \in Nat /\ Updates(cut) \in Nat
    BY <2>3, Counted, CountIs
  <2>8. cut # <<>>
    BY <2>1, <2>6
  <2>9. sending' = [cut EXCEPT ![Len(cut)].announces = @ + Updates(rest)]
    BY <2>6, <2>7
  <2>5. sending' \in Seq(Messages) /\ Updates(sending') = Updates(cut) + Updates(rest)
    BY <2>3, <2>4, <2>8, <2>9, CountAnnounced
  <2> QED
    <3>1. queue' \in Seq(Messages) /\ Updates(queue') = Updates(Held)
      BY <1>1, <1>5
    <3>2. untold' = Updates(queue') + Updates(sending')
      BY <1>2, <1>3, <2>3, <2>4, <2>5, <3>1
    <3> QED
      BY <2>5, <3>1, <3>2 DEF Holding, NothingVanishes
<1>6. CASE queue' = Out \o Held /\ UNCHANGED sending
  <2>1. queue' \in Seq(Messages) /\ Updates(queue') = Updates(Out) + Updates(Held)
    BY <1>1, <1>6, CountConcat
  <2>2. sending' = <<>> /\ sending' \in Seq(Messages)
    BY <1>6 DEF Due
  <2>3. Updates(sending') = 0
    BY <2>2, CountAppend
  <2> QED
    BY <1>2, <1>3, <2>1, <2>2, <2>3 DEF Holding, NothingVanishes
<1> QED
  BY <1>4, <1>5, <1>6 DEF Due

\* Time passes, a message is sent, the flush loop breaks.
LEMMA FlowHolds ==
    ASSUME Holding, Tick \/ Send \/ SendBreaks
    PROVE  Holding'
<1>1. CASE Tick
  <2> DEFINE Aged(m) == [m EXCEPT !.age = IF @ < WindowLen THEN @ + 1 ELSE @]
  <2>1. \A m \in Messages : Aged(m) \in Messages /\ Aged(m).n = m.n /\ Aged(m).announces = m.announces
    <3> SUFFICES ASSUME NEW m \in Messages
                 PROVE  Aged(m) \in Messages /\ Aged(m).n = m.n /\ Aged(m).announces = m.announces
      OBVIOUS
    <3>1. m.age \in Nat /\ (IF m.age < WindowLen THEN m.age + 1 ELSE m.age) \in Nat
      BY DEF Messages
    <3> QED
      BY <3>1 DEF Messages
  <2>2. queue' = [i \in DOMAIN queue |-> Aged(queue[i])] /\ queue \in Seq(Messages)
    BY <1>1 DEF Tick, Holding
  <2>3. \A i \in 1..Len(queue) : queue[i] \in Messages
    BY <2>2
  <2> HIDE DEF Aged
  <2>4. queue' \in Seq(Messages) /\ Len(queue') = Len(queue)
    BY <2>1, <2>2, <2>3
  <2>5. \A i \in 1..Len(queue) : queue'[i].n = queue[i].n /\ queue'[i].announces = queue[i].announces
    BY <2>1, <2>2, <2>3
  <2>6. Updates(queue') = Updates(queue)
    BY <2>2, <2>4, <2>5, CountSame
  <2> QED
    BY <1>1, <2>4, <2>6 DEF Tick, Holding, NothingVanishes
<1>2. CASE Send
  <2>1. sending \in Seq(Messages) /\ sending # <<>>
    BY <1>2 DEF Send, Holding
  <2>2. /\ <<Head(sending)>> \in Seq(Messages) /\ Tail(sending) \in Seq(Messages)
        /\ Updates(sending) = Updates(<<Head(sending)>>) + Updates(Tail(sending))
    BY <2>1, CountHead
  <2>3. Updates(<<Head(sending)>>) \in Nat /\ Updates(Tail(sending)) \in Nat /\ Updates(queue) \in Nat
    BY <2>2, Counted, CountIs DEF Holding
  <2> QED
    BY <1>2, <2>2, <2>3 DEF Send, Holding, NothingVanishes
<1>3. CASE SendBreaks
  <2>1. Updates(sending) \in Nat /\ Updates(queue) \in Nat
    BY Counted, CountIs DEF Holding
  <2>2. Updates(sending') = 0 /\ sending' \in Seq(Messages)
    BY <1>3, CountAppend DEF SendBreaks
  <2> QED
    BY <1>3, <2>1, <2>2 DEF SendBreaks, Holding, NothingVanishes
<1> QED
  BY <1>1, <1>2, <1>3

\* The deduplicating bus: what it remembers, of any keys and severities.
Bus(Keys, Sevs)    == UNION {[D -> [sev : Sevs, age : Nat]] : D \in SUBSET Keys}
Events(Keys, Sevs) == [key : Keys \cup {NoKey}, sev : Sevs, batch : BOOLEAN]

\* Every update that passes the bus is queued and counted.
LEMMA TellHolds ==
    ASSUME NEW Keys, NEW Sevs, Holding, last \in Bus(Keys, Sevs),
           NEW events \in Seq(Events(Keys, Sevs)), Tell(events)
    PROVE  Holding' /\ last' \in Bus(Keys, Sevs)
<1> DEFINE S == {w \in [last : Bus(Keys, Sevs), queue : Seq(Messages), untold : Nat] :
                    w.untold = Updates(w.queue) + Updates(sending)}
           start == [last |-> last, queue |-> queue, untold |-> untold]
           step == [i \in 1..Len(events) |-> [w \in S |-> Publish(w, events[i])]]
           Made(g) == g = [i \in 0..Len(events) |-> IF i = 0 THEN start ELSE Publish(g[i-1], events[i])]
<1>1. Len(events) \in Nat /\ \A i \in 1..Len(events) : events[i] \in Events(Keys, Sevs)
  OBVIOUS
<1>2. Updates(queue) \in Nat /\ Updates(sending) \in Nat
  BY Counted, CountIs DEF Holding
<1>3. start \in S
  BY <1>2 DEF Holding, NothingVanishes
<1>4. ASSUME NEW w \in S, NEW e \in Events(Keys, Sevs) PROVE Publish(w, e) \in S
  <2>1. w.last \in Bus(Keys, Sevs) /\ w.queue \in Seq(Messages) /\ w.untold \in Nat
        /\ w.untold = Updates(w.queue) + Updates(sending)
    OBVIOUS
  <2>2. Updates(w.queue) \in Nat
    BY <2>1, Counted, CountIs
  <2>3. Message(e.batch, 1, 0) \in Messages /\ Message(e.batch, 1, 0).n = 1
        /\ Message(e.batch, 1, 0).announces = 0
    BY DEF Message, Messages, Events
  <2> DEFINE L == [k \in DOMAIN w.last \cup ({e.key} \ {NoKey}) |->
                        IF k = e.key THEN [sev |-> e.sev, age |-> 0] ELSE w.last[k]]
             Q == Append(w.queue, Message(e.batch, 1, 0))
  <2>4. L \in Bus(Keys, Sevs)
    <3>1. PICK D \in SUBSET Keys : w.last \in [D -> [sev : Sevs, age : Nat]]
      BY <2>1 DEF Bus
    <3> DEFINE E == D \cup ({e.key} \ {NoKey})
    <3>2. E \in SUBSET Keys
      BY DEF Events
    <3>3. L \in [E -> [sev : Sevs, age : Nat]]
      BY <3>1 DEF Events
    <3> QED
      BY <3>2, <3>3 DEF Bus
  <2>5. Q \in Seq(Messages) /\ Updates(Q) = Updates(w.queue) + 1
    <3>1. Updates(Q) = Updates(w.queue) + Message(e.batch, 1, 0).n + Message(e.batch, 1, 0).announces
      BY <2>1, <2>3, CountAppend
    <3> QED
      BY <2>1, <2>2, <2>3, <3>1
  <2>6. CASE ShouldPublish(w.last, e)
    <3>1. Publish(w, e) = [last |-> L, queue |-> Q, untold |-> w.untold + 1]
      BY <2>6 DEF Publish
    <3> HIDE DEF L, Q
    <3>2. w.untold + 1 = Updates(Q) + Updates(sending) /\ w.untold + 1 \in Nat
      BY <1>2, <2>1, <2>2, <2>5
    <3> QED
      BY <2>4, <2>5, <3>1, <3>2
  <2>7. CASE ~ShouldPublish(w.last, e)
    BY <2>7 DEF Publish
  <2> QED
    BY <2>6, <2>7
<1> HIDE DEF S, start
<1>5. step \in [1..Len(events) -> [S -> S]]
  BY <1>1, <1>4
<1>6. PICK f \in [0..Len(events) -> S] : Takes(f, Len(events), start, step)
  <2> HIDE DEF step
  <2> QED
    BY <1>1, <1>3, <1>5, StepsExist
<1>7. Made(f)
  <2>1. f[0] = start
    BY <1>6 DEF Takes
  <2>2. ASSUME NEW i \in 1..Len(events) PROVE f[i] = Publish(f[i-1], events[i])
    <3>1. i-1 \in 0..Len(events) /\ f[i] = step[i][f[i-1]]
      BY <1>1, <1>6 DEF Takes
    <3>2. f[i-1] \in S
      BY <3>1
    <3> QED
      BY <3>1, <3>2
  <2>3. f = [i \in 0..Len(events) |-> f[i]]
    OBVIOUS
  <2>4. \A i \in 0..Len(events) : f[i] = IF i = 0 THEN start ELSE Publish(f[i-1], events[i])
    BY <1>1, <2>1, <2>2
  <2> QED
    BY <2>3, <2>4
<1> DEFINE g == CHOOSE h : Made(h)
<1>8. Made(g)
  BY <1>7
<1>9. LET w == g[Len(events)]
      IN  /\ last' = w.last /\ queue' = w.queue /\ untold' = w.untold
          /\ UNCHANGED <<stamps, sending, sends>>
  BY DEF Tell, start
<1> HIDE DEF g, step
<1> DEFINE Typed == {i \in 0..Len(events) : g[i] \in S}
<1>10. 0 \in Typed /\ Climbs(Typed, 0, Len(events))
  <2>1. ASSUME NEW i \in 0..(Len(events) - 1), g[i] \in S PROVE g[i+1] \in S
    <3>1. i+1 \in 1..Len(events) /\ (i+1)-1 = i
      BY <1>1
    <3>2. g[i+1] = Publish(g[i], events[i+1])
      BY <1>1, <1>8, <3>1
    <3> QED
      BY <1>1, <1>4, <2>1, <3>1, <3>2
  <2>2. g[0] = start
    BY <1>1, <1>8
  <2> QED
    BY <1>1, <1>3, <2>1, <2>2 DEF Climbs
<1>11. \A i \in 0..Len(events) : i \in Typed
  <2> HIDE DEF Typed
  <2> QED
    BY <1>1, <1>10, Climb
<1>12. g[Len(events)] \in S
  BY <1>1, <1>11
<1> QED
  BY <1>9, <1>12 DEF S, Holding, NothingVanishes

\* Its ages grow with time.
LEMMA BusAges ==
    ASSUME NEW Keys, NEW Sevs, last \in Bus(Keys, Sevs), Tick
    PROVE  last' \in Bus(Keys, Sevs)
<1>1. PICK D \in SUBSET Keys : last \in [D -> [sev : Sevs, age : Nat]]
  BY DEF Bus
<1>2. ASSUME NEW m \in [sev : Sevs, age : Nat]
      PROVE  [m EXCEPT !.age = IF @ < ReminderLen THEN @ + 1 ELSE @] \in [sev : Sevs, age : Nat]
  <2>1. (IF m.age < ReminderLen THEN m.age + 1 ELSE m.age) \in Nat
    OBVIOUS
  <2> QED
    BY <2>1
<1>3. last' \in [D -> [sev : Sevs, age : Nat]]
  BY <1>1, <1>2 DEF Tick
<1> QED
  BY <1>3 DEF Bus

-----------------------------------------------------------------------------
(* The pace of the sends *)

\* Ages of what happened one after the other.
Aging(ages) == ages \in Seq(Nat) /\ \A i, j \in 1..Len(ages) : i <= j => ages[j] <= ages[i]

\* Of every send that is younger than a stamp, and what is yet to be sent, there are no
\* more than the stamps after it and one minute's allowance.
Paced ==
    \A k \in 1..Len(stamps), j \in 1..Len(sends) :
        sends[j] < stamps[k] => Len(sends) - j + 1 + Len(sending) <= Len(stamps) - k + PerMinute

PaceInv ==
    /\ Aging(stamps) /\ Aging(sends) /\ sending \in Seq(Messages)
    /\ Len(stamps) <= PerMinute /\ Len(sending) <= PerMinute
    /\ Len(sends) + Len(sending) <= Len(stamps) + PerMinute
    /\ Paced

\* A minute passes some of the oldest by, and only those.
LEMMA OlderDrops ==
    ASSUME NEW ages, Aging(ages)
    PROVE  \E d \in 0..Len(ages) :
               /\ Aging(Older(ages)) /\ Len(Older(ages)) = Len(ages) - d
               /\ \A i \in 1..(Len(ages) - d) : Older(ages)[i] = ages[i+d] + 1
               /\ \A i \in 1..Len(ages) : ages[i] + 1 >= MinuteLen <=> i <= d
<1> DEFINE n == Len(ages)
           d == Cardinality(Expired(ages))
           grown == [i \in DOMAIN ages |-> ages[i] + 1]
<1>1. ages \in Seq(Nat) /\ n \in Nat /\ DOMAIN ages = 1..n /\ MinuteLen \in Nat
  BY NoticesAssumption DEF Aging
<1>2. \A i \in 1..n : ages[i] \in Nat
  BY <1>1
<1>3. Expired(ages) \in SUBSET (1..n) /\ \A i \in Expired(ages) : \A j \in 1..i : j \in Expired(ages)
  BY <1>1 DEF Expired
<1>4. d \in 0..n /\ Expired(ages) = 1..d
  <2> HIDE DEF n
  <2> QED
    BY <1>1, <1>3, PrefixCount
<1>5. ASSUME NEW i \in 1..n PROVE ages[i] + 1 >= MinuteLen <=> i <= d
  <2>1. CASE i <= d
    <3>1. i \in Expired(ages)
      BY <1>4, <2>1
    <3> QED
      BY <1>1, <2>1, <3>1 DEF Expired
  <2>2. CASE i > d
    <3>1. d+1 \in 1..n /\ d+1 <= i /\ d+1 \notin Expired(ages)
      BY <1>1, <1>4, <2>2
    <3>2. PICK j \in 1..(d+1) : ~(ages[j] + 1 >= MinuteLen)
      BY <1>1, <3>1 DEF Expired
    <3>3. j = d+1
      <4>1. CASE j \in 1..d
        <5>1. j \in Expired(ages)
          BY <1>4, <4>1
        <5> QED
          BY <1>4, <3>2, <5>1 DEF Expired
      <4> QED
        BY <1>4, <4>1
    <3>4. ages[i] <= ages[d+1]
      BY <3>1 DEF Aging
    <3>5. ages[i] \in Nat /\ ages[d+1] \in Nat /\ ~(ages[d+1] + 1 >= MinuteLen)
      BY <1>2, <3>1, <3>2, <3>3
    <3>6. ~(ages[i] + 1 >= MinuteLen) /\ ~(i <= d)
      BY <1>1, <1>4, <2>2, <3>4, <3>5, SMTT(20)
    <3> QED
      BY <3>6
  <2>3. i <= d \/ i > d
    BY <1>4
  <2> QED
    BY <2>1, <2>2, <2>3
<1>6. grown \in Seq(Nat) /\ Len(grown) = n /\ \A i \in 1..n : grown[i] = ages[i] + 1
  BY <1>1, <1>2
<1>7. Older(ages) = SubSeq(grown, d+1, Len(grown))
  BY <1>6 DEF Older
<1> HIDE DEF grown, d, n
<1>8. /\ Older(ages) \in Seq(Nat) /\ Len(Older(ages)) = n - d
      /\ \A i \in 1..(n - d) : Older(ages)[i] = grown[i+d]
  <2>1. d \in 0..Len(grown)
    BY <1>4, <1>6
  <2> QED
    BY <1>6, <1>7, <2>1, Follows
<1>9. \A i \in 1..(n - d) : Older(ages)[i] = ages[i+d] + 1 /\ i+d \in 1..n
  BY <1>1, <1>4, <1>6, <1>8
<1>10. Aging(Older(ages))
  <2> SUFFICES ASSUME NEW i \in 1..(n - d), NEW j \in 1..(n - d), i <= j
               PROVE  Older(ages)[j] <= Older(ages)[i]
    BY <1>8 DEF Aging
  <2>1. i+d \in 1..n /\ j+d \in 1..n /\ i+d <= j+d
    BY <1>1, <1>4, <1>9
  <2>2. ages[j+d] <= ages[i+d] /\ ages[j+d] \in Nat /\ ages[i+d] \in Nat
    BY <1>2, <2>1 DEF Aging, n
  <2> QED
    BY <1>9, <2>2
<1> QED
  BY <1>4, <1>5, <1>8, <1>9, <1>10 DEF n

\* The invariant says what it is for.
LEMMA PaceBounds == PaceInv => SendsArePaced
<1> SUFFICES ASSUME PaceInv PROVE SendsArePaced
  OBVIOUS
<1>1. PerMinute \in Nat /\ Len(stamps) <= PerMinute /\ Len(sends) + Len(sending) <= Len(stamps) + PerMinute
  BY NoticesAssumption DEF PaceInv
<1>2. Len(stamps) \in Nat /\ Len(sends) \in Nat /\ Len(sending) \in Nat
  BY DEF PaceInv, Aging
<1> QED
  BY <1>1, <1>2 DEF SendsArePaced

\* What the minute takes from both ages leaves the balance.
LEMMA TickPaces ==
    ASSUME PaceInv, Tick
    PROVE  PaceInv'
<1> DEFINE N == Len(stamps)
           L == Len(sends)
           P == Len(sending)
<1>1. PICK a \in 0..N :
          /\ Aging(stamps') /\ Len(stamps') = N - a
          /\ \A i \in 1..(N - a) : stamps'[i] = stamps[i+a] + 1
          /\ \A i \in 1..N : stamps[i] + 1 >= MinuteLen <=> i <= a
  BY OlderDrops DEF Tick, PaceInv
<1>2. PICK b \in 0..L :
          /\ Aging(sends') /\ Len(sends') = L - b
          /\ \A j \in 1..(L - b) : sends'[j] = sends[j+b] + 1
          /\ \A j \in 1..L : sends[j] + 1 >= MinuteLen <=> j <= b
  BY OlderDrops DEF Tick, PaceInv
<1>3. /\ N \in Nat /\ L \in Nat /\ P \in Nat /\ a \in Nat /\ b \in Nat /\ MinuteLen \in Nat /\ PerMinute \in Nat
      /\ N <= PerMinute /\ P <= PerMinute /\ L + P <= N + PerMinute
      /\ \A i \in 1..N : stamps[i] \in Nat
      /\ \A j \in 1..L : sends[j] \in Nat
  BY NoticesAssumption DEF PaceInv, Aging
<1>4. \A k \in 1..N, j \in 1..L : sends[j] < stamps[k] => L - j + 1 + P <= N - k + PerMinute
  BY DEF PaceInv, Paced
<1>5. sending' = sending
  BY DEF Tick
<1> HIDE DEF N, L, P
<1>6. (L - b) + P <= (N - a) + PerMinute
  <2>1. CASE a = 0
    BY <1>2, <1>3, <2>1
  <2>2. CASE b = L
    BY <1>1, <1>3, <2>2
  <2>3. CASE a # 0 /\ b # L
    <3>1. a \in 1..N /\ b+1 \in 1..L
      BY <1>1, <1>2, <1>3, <2>3
    <3>2. sends[b+1] < stamps[a]
      <4>1. stamps[a] + 1 >= MinuteLen /\ ~(sends[b+1] + 1 >= MinuteLen)
        BY <1>1, <1>2, <1>3, <3>1
      <4> QED
        BY <1>3, <3>1, <4>1
    <3>3. L - (b+1) + 1 + P <= N - a + PerMinute
      BY <1>4, <3>1, <3>2
    <3> QED
      BY <1>3, <3>3
  <2> QED
    BY <2>1, <2>2, <2>3
<1>7. ASSUME NEW k \in 1..(N - a), NEW j \in 1..(L - b), sends'[j] < stamps'[k]
      PROVE  (L - b) - j + 1 + P <= (N - a) - k + PerMinute
  <2>1. k+a \in 1..N /\ j+b \in 1..L
    BY <1>1, <1>2, <1>3
  <2>2. sends[j+b] < stamps[k+a]
    BY <1>1, <1>2, <1>3, <1>7, <2>1, SMTT(20)
  <2>3. L - (j+b) + 1 + P <= N - (k+a) + PerMinute
    BY <1>4, <2>1, <2>2
  <2> QED
    BY <1>3, <2>3
<1>8. Paced'
  BY <1>1, <1>2, <1>5, <1>7 DEF Paced, P
<1>9. Len(stamps') = N - a /\ Len(sends') = L - b /\ Len(sending') = P /\ N - a <= PerMinute
  BY <1>1, <1>2, <1>3, <1>5 DEF P
<1>10. sending' \in Seq(Messages)
  BY <1>5 DEF PaceInv
<1> QED
  BY <1>1, <1>2, <1>3, <1>6, <1>8, <1>9, <1>10 DEF PaceInv

\* A flush takes no more than the minute still allows.
LEMMA DuePaces ==
    ASSUME PaceInv, Holding, Due
    PROVE  PaceInv'
<1> DEFINE N == Len(stamps)
           L == Len(sends)
<1>1. /\ N \in Nat /\ L \in Nat /\ PerMinute \in Nat /\ N <= PerMinute /\ L <= N + PerMinute
      /\ \A i \in 1..N : stamps[i] \in Nat
      /\ \A j \in 1..L : sends[j] \in Nat
  <2>1. Len(sending) = 0
    BY DEF Due
  <2> QED
    BY <2>1, NoticesAssumption DEF PaceInv, Aging
<1>2. Holding' /\ Out \in Seq(Messages) /\ sends' = sends
  BY DueHolds, CountOut DEF Due, Holding
<1>3. \/ UNCHANGED <<sending, stamps>>
      \/ \E n \in Nat : N + n <= PerMinute /\ Len(sending') = n /\ Stamp(n)
  <2>1. Allowance \in Nat /\ N + Allowance <= PerMinute
    BY <1>1 DEF Allowance
  <2>2. Len(Out) \in Nat
    BY <1>2
  <2>3. CASE Len(Out) <= Allowance /\ sending' = Out /\ Stamp(Len(Out))
    BY <1>1, <2>1, <2>2, <2>3
  <2>4. CASE /\ Len(Out) > Allowance /\ Stamp(Allowance)
             /\ sending' = [SubSeq(Out, 1, Allowance) EXCEPT
                                ![Allowance].announces = @ + Updates(SubSeq(Out, Allowance + 1, Len(Out)))]
    <3>1. Allowance \in 0..Len(Out)
      BY <2>1, <2>2, <2>4
    <3>2. Begin(Out, Allowance) \in Seq(Messages) /\ Len(Begin(Out, Allowance)) = Allowance
      BY <1>2, <3>1, Begins
    <3>3. Len(sending') = Allowance
      BY <2>4, <3>2 DEF Begin
    <3> QED
      BY <1>1, <2>1, <2>4, <3>3
  <2> QED
    BY <2>3, <2>4 DEF Due
<1>4. CASE UNCHANGED <<sending, stamps>>
  BY <1>2, <1>4 DEF PaceInv, Paced
<1>5. ASSUME NEW n \in Nat, N + n <= PerMinute, Len(sending') = n, Stamp(n) PROVE PaceInv'
  <2> DEFINE zeros == [i \in 1..n |-> 0]
  <2>1. zeros \in Seq(Nat) /\ Len(zeros) = n /\ \A i \in 1..n : zeros[i] = 0
    OBVIOUS
  <2>2. stamps' = stamps \o zeros /\ stamps \in Seq(Nat)
    BY <1>5 DEF Stamp, PaceInv, Aging
  <2> HIDE DEF zeros
  <2>3. /\ stamps' \in Seq(Nat) /\ Len(stamps') = N + n
        /\ \A i \in 1..(N + n) : stamps'[i] = IF i <= N THEN stamps[i] ELSE zeros[i - N]
    BY <2>1, <2>2, ConcatProperties
  <2>4. /\ \A i \in 1..N : stamps'[i] = stamps[i]
        /\ \A i \in (N+1)..(N+n) : stamps'[i] = 0
    <3>1. \A i \in (N+1)..(N+n) : i - N \in 1..n /\ ~(i <= N) /\ i \in 1..(N+n)
      BY <1>1
    <3>2. \A i \in 1..N : i <= N /\ i \in 1..(N+n)
      BY <1>1
    <3> QED
      BY <2>1, <2>3, <3>1, <3>2
  <2>5. Aging(stamps')
    <3> SUFFICES ASSUME NEW i \in 1..(N+n), NEW j \in 1..(N+n), i <= j PROVE stamps'[j] <= stamps'[i]
      BY <2>3 DEF Aging
    <3>1. CASE j <= N
      <4>1. i \in 1..N /\ j \in 1..N
        BY <1>1, <3>1
      <4> QED
        BY <2>4, <4>1 DEF PaceInv, Aging
    <3>2. CASE j > N
      <4>1. stamps'[j] = 0 /\ stamps'[i] \in Nat
        BY <1>1, <2>3, <2>4, <3>2, SMTT(20)
      <4> QED
        BY <4>1
    <3>3. j <= N \/ j > N
      BY <1>1
    <3> QED
      BY <3>1, <3>2, <3>3
  <2>6. Paced'
    <3> SUFFICES ASSUME NEW k \in 1..(N+n), NEW j \in 1..L, sends[j] < stamps'[k]
                 PROVE  L - j + 1 + n <= (N + n) - k + PerMinute
      BY <1>2, <1>5, <2>3 DEF Paced
    <3>1. CASE k <= N
      <4>1. k \in 1..N /\ stamps'[k] = stamps[k] /\ Len(sending) = 0
        BY <1>1, <2>4, <3>1 DEF Due
      <4>2. L - j + 1 + 0 <= N - k + PerMinute
        BY <4>1 DEF PaceInv, Paced
      <4> QED
        BY <1>1, <4>2
    <3>2. CASE k > N
      <4>1. stamps'[k] = 0 /\ sends[j] \in Nat
        BY <1>1, <2>4, <3>2
      <4> QED
        BY <4>1
    <3>3. k <= N \/ k > N
      BY <1>1
    <3> QED
      BY <3>1, <3>2, <3>3
  <2>7. Len(sends') = L /\ Aging(sends') /\ sending' \in Seq(Messages)
    BY <1>2 DEF PaceInv, Holding
  <2>8. Len(stamps') <= PerMinute /\ Len(sending') <= PerMinute
        /\ L + Len(sending') <= Len(stamps') + PerMinute
    BY <1>1, <1>5, <2>3
  <2> QED
    BY <2>5, <2>6, <2>7, <2>8 DEF PaceInv
<1> QED
  BY <1>3, <1>4, <1>5

\* A send moves one message from what is to be sent to what was; a broken loop sends less.
LEMMA SendPaces ==
    ASSUME PaceInv, Send \/ SendBreaks
    PROVE  PaceInv'
<1> DEFINE N == Len(stamps)
           L == Len(sends)
           P == Len(sending)
<1>1. /\ N \in Nat /\ L \in Nat /\ P \in Nat /\ PerMinute \in Nat
      /\ N <= PerMinute /\ P <= PerMinute /\ L + P <= N + PerMinute
      /\ sends \in Seq(Nat)
      /\ \A j \in 1..L : sends[j] \in Nat
  BY NoticesAssumption DEF PaceInv, Aging
<1>2. \A k \in 1..N, j \in 1..L : sends[j] < stamps[k] => L - j + 1 + P <= N - k + PerMinute
  BY DEF PaceInv, Paced
<1>3. stamps' = stamps
  BY DEF Send, SendBreaks
<1>4. CASE Send
  <2>1. sending' \in Seq(Messages) /\ Len(sending') = P - 1 /\ P # 0
    BY <1>4 DEF Send, PaceInv
  <2>2. sends' \in Seq(Nat) /\ Len(sends') = L + 1 /\ sends'[L+1] = 0
        /\ \A j \in 1..L : sends'[j] = sends[j]
    BY <1>1, <1>4 DEF Send
  <2> HIDE DEF N, L, P
  <2>3. Aging(sends')
    <3> SUFFICES ASSUME NEW i \in 1..(L+1), NEW j \in 1..(L+1), i <= j PROVE sends'[j] <= sends'[i]
      BY <2>2 DEF Aging
    <3>1. CASE j \in 1..L
      <4>1. i \in 1..L
        BY <1>1, <3>1
      <4> QED
        BY <2>2, <3>1, <4>1 DEF PaceInv, Aging, L
    <3>2. CASE j = L+1
      <4>1. sends'[i] \in Nat
        BY <1>1, <2>2
      <4> QED
        BY <2>2, <3>2, <4>1
    <3>3. j \in 1..L \/ j = L+1
      BY <1>1
    <3> QED
      BY <3>1, <3>2, <3>3
  <2>4. ASSUME NEW k \in 1..N, NEW j \in 1..(L+1), sends'[j] < stamps[k]
        PROVE  (L+1) - j + 1 + (P-1) <= N - k + PerMinute
    <3>1. CASE j \in 1..L
      <4>1. L - j + 1 + P <= N - k + PerMinute
        BY <1>2, <2>2, <2>4, <3>1
      <4> QED
        BY <1>1, <4>1
    <3>2. CASE j = L+1
      BY <1>1, <3>2
    <3>3. j \in 1..L \/ j = L+1
      BY <1>1
    <3> QED
      BY <3>1, <3>2, <3>3
  <2>5. Paced'
    BY <1>3, <2>1, <2>2, <2>4 DEF Paced, N
  <2>6. Len(stamps') = N /\ (L+1) + (P-1) <= N + PerMinute /\ P-1 <= PerMinute
    BY <1>1, <1>3 DEF N
  <2>7. Aging(stamps')
    BY <1>3 DEF PaceInv
  <2> QED
    BY <1>1, <2>1, <2>2, <2>3, <2>5, <2>6, <2>7 DEF PaceInv
<1>5. CASE SendBreaks
  <2>1. sending' = <<>> /\ Len(sending') = 0 /\ sending' \in Seq(Messages) /\ sends' = sends
    BY <1>5 DEF SendBreaks
  <2>2. Paced'
    <3> SUFFICES ASSUME NEW k \in 1..N, NEW j \in 1..L, sends[j] < stamps[k]
                 PROVE  L - j + 1 + 0 <= N - k + PerMinute
      BY <1>3, <2>1 DEF Paced
    <3>1. L - j + 1 + P <= N - k + PerMinute
      BY <1>2
    <3> HIDE DEF N, L, P
    <3> QED
      BY <1>1, <3>1
  <2>3. L + 0 <= N + PerMinute /\ 0 <= PerMinute
    <3> HIDE DEF N, L, P
    <3> QED
      BY <1>1
  <2> QED
    BY <1>3, <2>1, <2>2, <2>3 DEF PaceInv
<1> QED
  BY <1>4, <1>5
=============================================================================
