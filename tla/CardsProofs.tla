------------------------------ MODULE CardsProofs ------------------------------
(* Proofs about the lifecycle of setups and their Discord cards (Setups, Cards):   *)
(* the history of a setup explains its state, a replay changes nothing, a setup    *)
(* has one card, and that card is current.                                         *)
EXTENDS Cards, Basics, FunctionTheorems

-----------------------------------------------------------------------------
(* What is in the tables and in the observer's memory *)

Shape == [close : Int, touched : BOOLEAN, found : 0..2]
Event == [bar : Bars, to : States]

Marketed == market \in Seq(Shape) /\ Len(market) <= Len(Shapes)

Tabled ==
    /\ DOMAIN rows \subseteq Origins /\ IsFiniteSet(DOMAIN rows)
    /\ rows \in [DOMAIN rows -> Rows] /\ events \in [DOMAIN rows -> Seq(Event)]

\* The fields of the observer's memory.
Memory(o) ==
    o = [last |-> o.last, warmTo |-> o.warmTo, phase |-> o.phase, left |-> o.left, shown |-> o.shown,
         writes |-> o.writes, published |-> o.published]

Observing ==
    /\ Memory(obs) /\ (~up => obs = Fresh) /\ stored \in Nat
    /\ obs.last \in Nat /\ obs.last <= Len(market) /\ obs.warmTo \in Nat
    /\ obs.phase \in {"idle", "lifecycle", "create"}
    /\ obs.phase # "idle" => obs.last # 0
    /\ obs.phase = "idle" => obs.left = {}
    /\ obs.phase = "lifecycle" => obs.left \subseteq DOMAIN rows
    /\ obs.phase = "create" => \A o \in obs.left : o \in Origins /\ o.bar = obs.last

\* The transactions a transition or a new setup is made of.
Insert(o, row) == [kind |-> "insert", setup |-> o, row |-> row]
Move(o, row)   == [kind |-> "state", setup |-> o, row |-> row]
Tell(o, to)    == [kind |-> "event", setup |-> o, to |-> to]

\* The bar's event of o into that state is not in the table.
Untold(o, to) == \A i \in DOMAIN events[o] : events[o][i] # [bar |-> obs.last, to |-> to]

\* What is left to write ends with the event of the state the row has then.
Inserting(o, row) ==
    /\ obs.writes = <<Insert(o, row), Tell(o, "WATCH")>>
    /\ o \in Origins /\ o \notin DOMAIN rows /\ o.bar = obs.last /\ row \in Rows
    /\ row.state = "WATCH" /\ row.created = obs.last /\ row.updated = obs.last

Telling(o, to) ==
    /\ obs.writes = <<Tell(o, to)>>
    /\ o \in DOMAIN rows /\ to \in States
    /\ rows[o].state = to /\ rows[o].updated = obs.last /\ Untold(o, to)

NewRow(o, row) ==
    /\ row \in Rows /\ row.updated = obs.last
    /\ row.created = rows[o].created /\ rows[o].updated <= obs.last

Moving(o, row) ==
    /\ obs.writes = <<Move(o, row), Tell(o, row.state)>>
    /\ o \in DOMAIN rows /\ NewRow(o, row) /\ Untold(o, row.state)

TellingFirst(o, to, row) ==
    /\ obs.writes = <<Tell(o, to), Move(o, row), Tell(o, row.state)>>
    /\ o \in DOMAIN rows /\ NewRow(o, row) /\ Untold(o, row.state) /\ to \in States /\ to # row.state
    /\ rows[o].updated = obs.last

MovingTwice(o, to, row) ==
    /\ obs.writes = <<Move(o, row), Tell(o, to), Move(o, row), Tell(o, row.state)>>
    /\ o \in DOMAIN rows /\ NewRow(o, row) /\ Untold(o, row.state) /\ to \in States /\ to # row.state

Writing ==
    \/ obs.writes = << >>
    \/ /\ obs.phase # "idle"
       /\ \/ \E o, row : Inserting(o, row) \/ Moving(o, row)
          \/ \E o, to : Telling(o, to)
          \/ \E o, to, row : TellingFirst(o, to, row) \/ MovingTwice(o, to, row)

\* An event is no later than the last change of its setup.
Told == \A o \in DOMAIN rows : \A i \in DOMAIN events[o] : events[o][i].bar <= rows[o].updated

\* The setup that is being written.
Current == IF obs.writes = << >> THEN {} ELSE {Head(obs.writes).setup}

Explained == crashes \in Nat /\ IsFiniteSet(Unrecorded) /\ Cardinality(Unrecorded \ Current) <= crashes

SetupsInv == Marketed /\ Tabled /\ Observing /\ Writing /\ Told /\ Explained

-----------------------------------------------------------------------------
(* The lifecycle *)

\* The bars that have closed are the first ones of the run.
LEMMA MarketIs ==
    ASSUME Marketed
    PROVE  /\ Len(market) \in Nat /\ DOMAIN market = 1..Len(market) /\ Bars = 1..Len(Shapes) /\ Len(Shapes) \in Nat
           /\ \A b \in 1..Len(market) : market[b] \in Shape /\ b \in Bars
           /\ \A b \in 1..Len(market) : market[b].close \in Int
<1>1. Shapes \in Seq(SUBSET Shape)
  BY ShapesAssumption DEF Shape
<1>2. Bars = 1..Len(Shapes) /\ Len(Shapes) \in Nat
  BY <1>1 DEF Bars
<1>3. market \in Seq(Shape) /\ Len(market) <= Len(Shapes)
  BY DEF Marketed
<1>4. Len(market) \in Nat /\ DOMAIN market = 1..Len(market) /\ \A b \in 1..Len(market) : market[b] \in Shape
  BY <1>3
<1>5. \A b \in 1..Len(market) : b \in Bars
  BY <1>2, <1>3, <1>4
<1>6. \A s \in Shape : s.close \in Int
  BY DEF Shape
<1> QED
  BY <1>2, <1>4, <1>5, <1>6

\* The fields of a setup's row.
LEMMA RowFields ==
    ASSUME NEW s \in Rows
    PROVE  /\ s.state \in States \ {"OBSERVING"} /\ s.created \in Bars /\ s.updated \in Bars
           /\ s.ctx \in Ctx /\ s.ctx.age \in Nat /\ s.ctx.beyond \in Nat /\ s.ctx.bars \in Nat /\ s.ctx.extreme \in Int
BY DEF Rows, Ctx

\* A lifecycle rule leads to a state of a stored setup.
LEMMA Advances ==
    ASSUME NEW s \in Rows, NEW bar \in Shape, NEW ctx
    PROVE  Advance(s, bar, ctx) \in States \ {"OBSERVING"}
<1>1. s.state \in States \ {"OBSERVING"}
  BY RowFields
<1> QED
  BY <1>1 DEF Advance, States

\* The context of a setup keeps its type.
LEMMA Counts ==
    ASSUME NEW s \in Rows, NEW bar \in Shape, NEW to
    PROVE  Count(s, bar, to) \in Ctx
<1>1. s.ctx.age \in Nat /\ s.ctx.beyond \in Nat /\ s.ctx.bars \in Nat /\ s.ctx.extreme \in Int /\ bar.close \in Int
  BY RowFields DEF Shape
<1>2. /\ s.ctx.age + 1 \in Nat
      /\ s.ctx.beyond + (IF bar.close > 0 THEN 1 ELSE 0) \in Nat
      /\ (IF to = "CONTINUATION" /\ s.state = "PULLBACK" THEN 0
          ELSE s.ctx.bars + (IF s.state = "CONTINUATION" THEN 1 ELSE 0)) \in Nat
      /\ (IF bar.close > 0 /\ bar.close > s.ctx.extreme THEN bar.close ELSE s.ctx.extreme) \in Int
  BY <1>1
<1> QED
  BY <1>2 DEF Count, Ctx

\* Two-step sequences of writes, written out.
LEMMA TwoOf ==
    ASSUME NEW S, NEW a \in S, NEW b \in S
    PROVE  <<a>> \o <<b>> = <<a, b>> /\ << >> \o <<b>> = <<b>> /\ <<a>> \o << >> = <<a>>
<1>1. <<a>> \in Seq(S) /\ <<b>> \in Seq(S) /\ Len(<<a>>) = 1 /\ Len(<<b>>) = 1
  OBVIOUS
<1>2. <<a>> \o <<b>> \in Seq(S) /\ Len(<<a>> \o <<b>>) = 2 /\ (<<a>> \o <<b>>)[1] = a /\ (<<a>> \o <<b>>)[2] = b
  BY <1>1
<1>3. <<a, b>> \in Seq(S) /\ Len(<<a, b>>) = 2 /\ <<a, b>>[1] = a /\ <<a, b>>[2] = b
  OBVIOUS
<1>4. \A i \in 1..2 : i = 1 \/ i = 2
  OBVIOUS
<1>5. <<a>> \o <<b>> = <<a, b>>
  BY <1>2, <1>3, <1>4, SeqEqual
<1>6. << >> \o <<b>> = <<b>> /\ <<a>> \o << >> = <<a>>
  BY <1>1
<1> QED
  BY <1>5, <1>6

\* A bar takes a setup through no state, or one, or one and then its end.
LEMMA Evaluated ==
    ASSUME Marketed, NEW s \in Rows, NEW b \in 1..Len(market)
    PROVE  LET r == Evaluate(s, b) IN
           \/ r.path = << >>
           \/ /\ s.updated < b /\ s.state \notin Terminal
              /\ r.row \in Rows /\ r.row.updated = b /\ r.row.created = s.created
              /\ \/ r.path = <<r.row.state>>
                 \/ \E to \in States : to # r.row.state /\ r.path = <<to, r.row.state>>
<1> DEFINE bar == market[b]
           to == Advance(s, bar, Count(s, bar, s.state))
           ctx == Count(s, bar, to)
           aged == to \notin Terminal /\ ctx.age >= MaxAgeBars
           r == Evaluate(s, b)
<1>1. bar \in Shape /\ b \in Bars /\ s.updated \in Int /\ b \in Int
  BY MarketIs, RowFields
<1>2. to \in States \ {"OBSERVING"}
  BY <1>1, Advances
<1>3. ctx \in Ctx
  BY <1>1, Counts
<1>4. CASE s.state \in Terminal \/ b <= s.updated
  BY <1>4 DEF Evaluate
<1>5. CASE ~(s.state \in Terminal \/ b <= s.updated) /\ bar.close < Invalidation
  <2>1. r = [path |-> <<"INVALIDATED">>,
             row |-> [s EXCEPT !.state = "INVALIDATED", !.updated = b, !.ctx.age = @ + 1]]
    BY <1>5 DEF Evaluate
  <2>2. r.path = <<"INVALIDATED">> /\ r.row = [s EXCEPT !.state = "INVALIDATED", !.updated = b, !.ctx.age = @ + 1]
    BY <2>1
  <2>3. [s.ctx EXCEPT !.age = @ + 1] \in Ctx
    BY RowFields DEF Ctx
  <2>4. "INVALIDATED" \in States \ {"OBSERVING"}
    BY DEF States
  <2>5. r.row \in Rows /\ r.row.updated = b /\ r.row.created = s.created /\ r.row.state = "INVALIDATED"
    BY <1>1, <2>2, <2>3, <2>4 DEF Rows
  <2> QED
    BY <1>1, <1>5, <2>2, <2>5
<1>6. CASE ~(s.state \in Terminal \/ b <= s.updated) /\ ~(bar.close < Invalidation)
  <2>1. /\ r.path = (IF to # s.state THEN <<to>> ELSE << >>) \o (IF aged THEN <<"COMPLETED">> ELSE << >>)
        /\ r.row = [s EXCEPT !.state = IF aged THEN "COMPLETED" ELSE to, !.updated = b, !.ctx = ctx]
    BY <1>6 DEF Evaluate
  <2> DEFINE end == IF aged THEN "COMPLETED" ELSE to
  <2>2. end \in States \ {"OBSERVING"}
    BY <1>2 DEF States
  <2>3. aged => to # "COMPLETED"
    BY DEF Terminal
  <2> HIDE DEF to, ctx, bar, r
  <2>4. r.row \in Rows /\ r.row.updated = b /\ r.row.created = s.created /\ r.row.state = end
    BY <1>1, <1>3, <2>1, <2>2 DEF Rows
  <2>5. \/ r.path = << >>
        \/ r.path = <<end>>
        \/ r.path = <<to, end>> /\ to # end
    <3>1. CASE ~aged
      <4>1. r.path = (IF to # s.state THEN <<to>> ELSE << >>) \o << >>
        BY <2>1, <3>1
      <4>2. <<to>> \o << >> = <<to>> /\ << >> \o << >> = << >>
        BY <1>2
      <4>3. r.path = <<to>> \/ r.path = << >>
        BY <4>1, <4>2
      <4> QED
        BY <3>1, <4>3
    <3>2. CASE aged
      <4>1. r.path = (IF to # s.state THEN <<to>> ELSE << >>) \o <<"COMPLETED">>
        BY <2>1, <3>2
      <4>2. <<to>> \o <<"COMPLETED">> = <<to, "COMPLETED">> /\ << >> \o <<"COMPLETED">> = <<"COMPLETED">>
        BY <1>2, TwoOf, "COMPLETED" \in States DEF States
      <4>3. r.path = <<to, "COMPLETED">> \/ r.path = <<"COMPLETED">>
        BY <4>1, <4>2
      <4> QED
        BY <2>3, <3>2, <4>3
    <3> QED
      BY <3>1, <3>2
  <2>6. \/ r.path = << >>
        \/ r.path = <<r.row.state>>
        \/ r.path = <<to, r.row.state>> /\ to # r.row.state
    BY <2>4, <2>5
  <2> QED
    BY <1>1, <1>2, <1>6, <2>4, <2>6 DEF r
<1> QED
  BY <1>4, <1>5, <1>6

-----------------------------------------------------------------------------
(* The tables explain themselves *)

\* Taking out at most one element lowers a cardinality by at most one.
LEMMA LessOne ==
    ASSUME NEW S, IsFiniteSet(S), NEW T, \E o : T \subseteq {o}
    PROVE  Cardinality(S) <= Cardinality(S \ T) + 1
<1>1. PICK o : T \subseteq {o}
  OBVIOUS
<1>2. IsFiniteSet(S \ T) /\ Cardinality(S \ T) \in Nat /\ Cardinality(S) \in Nat
  BY FS_CardinalityType, FS_Subset
<1>3. CASE S \ T = S
  BY <1>2, <1>3
<1>4. CASE S \ T # S
  <2>1. o \in S /\ S \ T = S \ {o}
    BY <1>1, <1>4
  <2> QED
    BY <1>2, <2>1, FS_RemoveElement
<1> QED
  BY <1>3, <1>4

\* Steps that leave the tables alone keep what is said of them.
LEMMA TablesKept ==
    ASSUME SetupsInv, UNCHANGED <<market, rows, events>>
    PROVE  Marketed' /\ Tabled' /\ Told' /\ Unrecorded' = Unrecorded
BY DEF SetupsInv, Marketed, Tabled, Told, Unrecorded

\* A step between two bars, or between two setups of a bar, which writes nothing.
LEMMA NothingWritten ==
    ASSUME SetupsInv, obs.writes = << >>, obs'.writes = << >>, Observing',
           UNCHANGED <<market, rows, events, crashes>>
    PROVE  SetupsInv'
<1>1. Marketed' /\ Tabled' /\ Told' /\ Unrecorded' = Unrecorded
  BY TablesKept
<1>2. Current = {} /\ Current' = {}
  BY DEF Current
<1>3. Explained'
  BY <1>1, <1>2 DEF SetupsInv, Explained
<1>4. Writing'
  BY DEF Writing
<1> QED
  BY <1>1, <1>3, <1>4 DEF SetupsInv

\* An idle observer has nothing left to write.
LEMMA IdleWrites ==
    ASSUME SetupsInv, obs.phase = "idle"
    PROVE  obs.writes = << >> /\ obs.left = {}
BY DEF SetupsInv, Writing, Observing

\* Taking a bar keeps the invariant of setups.
LEMMA TakeBarKeeps ==
    ASSUME SetupsInv, TakeBar
    PROVE  SetupsInv'
<1> DEFINE b == obs.last + 1
<1>1. /\ up /\ obs.phase = "idle" /\ obs.last < Len(market)
      /\ obs' = [obs EXCEPT !.last = b, !.phase = "lifecycle", !.left = OpenFor(b), !.shown = OpenFor(b)]
      /\ stored' = (IF b > stored THEN b ELSE stored)
      /\ UNCHANGED <<up, market, rows, events, crashes>>
  BY DEF TakeBar
<1>2. Memory(obs) /\ obs.last \in Nat /\ obs.warmTo \in Nat /\ stored \in Nat
  BY DEF SetupsInv, Observing
<1>3. obs' = [last |-> b, warmTo |-> obs.warmTo, phase |-> "lifecycle", left |-> OpenFor(b), shown |-> OpenFor(b),
              writes |-> obs.writes, published |-> obs.published]
  BY <1>1, <1>2 DEF Memory
<1>4. obs.writes = << >>
  BY <1>1, IdleWrites
<1>5. OpenFor(b) \subseteq DOMAIN rows
  BY DEF OpenFor, Open
<1>6. b \in Nat /\ b # 0 /\ b <= Len(market)
  BY <1>1, <1>2, MarketIs DEF SetupsInv
<1>7. Memory(obs)'
  BY <1>3 DEF Memory
<1>8. Observing'
  BY <1>1, <1>2, <1>3, <1>5, <1>6, <1>7 DEF Observing
<1> QED
  BY <1>1, <1>3, <1>4, <1>8, NothingWritten

\* So does the end of the evaluation.
LEMMA LookForNewKeeps ==
    ASSUME SetupsInv, LookForNew
    PROVE  SetupsInv'
<1>1. /\ up /\ obs.phase = "lifecycle" /\ obs.writes = << >>
      /\ obs' = [obs EXCEPT !.phase = "create", !.left = Anew(obs.last)]
      /\ UNCHANGED <<up, market, rows, events, stored, crashes>>
  BY DEF LookForNew
<1>2. Observing
  BY DEF SetupsInv
<1>3. obs' = [last |-> obs.last, warmTo |-> obs.warmTo, phase |-> "create", left |-> Anew(obs.last),
              shown |-> obs.shown, writes |-> obs.writes, published |-> obs.published]
  BY <1>1, <1>2 DEF Observing, Memory
<1>4. \A o \in Anew(obs.last) : o \in Origins /\ o.bar = obs.last
  BY DEF Anew
<1>5. Memory(obs)'
  BY <1>3 DEF Memory
<1>6. Observing'
  BY <1>1, <1>2, <1>3, <1>4, <1>5 DEF Observing
<1> QED
  BY <1>1, <1>3, <1>6, NothingWritten

\* So does the end of the bar.
LEMMA FinishBarKeeps ==
    ASSUME SetupsInv, NEW S, FinishBar(S)
    PROVE  SetupsInv'
<1>1. /\ up /\ obs.phase = "create" /\ obs.writes = << >> /\ obs.left = {}
      /\ obs' = [obs EXCEPT !.phase = "idle", !.shown = {}, !.published = Published(S)]
      /\ UNCHANGED <<up, market, rows, events, stored, crashes>>
  BY DEF FinishBar
<1>2. Observing
  BY DEF SetupsInv
<1>3. obs' = [last |-> obs.last, warmTo |-> obs.warmTo, phase |-> "idle", left |-> obs.left,
              shown |-> {}, writes |-> obs.writes, published |-> Published(S)]
  BY <1>1, <1>2 DEF Observing, Memory
<1>4. Memory(obs)'
  BY <1>3 DEF Memory
<1>5. Observing'
  BY <1>1, <1>2, <1>3, <1>4 DEF Observing
<1> QED
  BY <1>1, <1>3, <1>5, NothingWritten

\* So does a bar of a higher timeframe.
LEMMA HigherBarKeeps ==
    ASSUME SetupsInv, NEW S, HigherBar(S)
    PROVE  SetupsInv'
<1>1. /\ up /\ obs.phase = "idle"
      /\ obs' = [obs EXCEPT !.published = Published(S)]
      /\ UNCHANGED <<up, market, rows, events, stored, crashes>>
  BY DEF HigherBar, Live
<1>2. Observing
  BY DEF SetupsInv
<1>3. obs' = [last |-> obs.last, warmTo |-> obs.warmTo, phase |-> obs.phase, left |-> obs.left,
              shown |-> obs.shown, writes |-> obs.writes, published |-> Published(S)]
  BY <1>1, <1>2 DEF Observing, Memory
<1>4. Memory(obs)'
  BY <1>3 DEF Memory
<1>5. Observing'
  BY <1>1, <1>2, <1>3, <1>4 DEF Observing
<1> QED
  BY <1>1, <1>3, <1>5, NothingWritten, IdleWrites

\* So does a restart, which replays with an empty memory.
LEMMA RestartKeeps ==
    ASSUME SetupsInv, Restart
    PROVE  SetupsInv'
<1>1. PICK w \in stored..Len(market) : obs' = [obs EXCEPT !.warmTo = w]
  BY DEF Restart
<1>2. ~up /\ up' /\ UNCHANGED <<market, rows, events, stored, crashes>>
  BY DEF Restart
<1>3. obs = Fresh
  BY <1>2 DEF SetupsInv, Observing
<1>4. obs' = [Fresh EXCEPT !.warmTo = w]
  BY <1>1, <1>3
<1>5. obs' = [last |-> 0, warmTo |-> w, phase |-> "idle", left |-> {}, shown |-> {},
              writes |-> << >>, published |-> << >>]
  BY <1>4 DEF Fresh
<1>6. Memory(obs)'
  BY <1>5 DEF Memory
<1>7. Len(market) \in Nat /\ stored \in Nat
  BY MarketIs DEF SetupsInv, Observing
<1>8. Observing'
  BY <1>2, <1>5, <1>6, <1>7 DEF Observing
<1>9. obs.writes = << >>
  BY <1>3 DEF Fresh
<1> QED
  BY <1>2, <1>5, <1>8, <1>9, NothingWritten

\* So does the close of a bar, in the market.
LEMMA BarClosesKeeps ==
    ASSUME SetupsInv, BarCloses
    PROVE  SetupsInv'
<1>1. PICK shape \in Shapes[Len(market) + 1] : market' = Append(market, shape)
  BY DEF BarCloses
<1>2. Len(market) < Len(Shapes) /\ obs.phase = "idle" /\ UNCHANGED <<up, rows, events, stored, obs, crashes>>
  BY DEF BarCloses
<1>3. Shapes \in Seq(SUBSET Shape) /\ market \in Seq(Shape) /\ Len(market) \in Nat /\ Len(Shapes) \in Nat
  BY MarketIs, ShapesAssumption DEF SetupsInv, Marketed, Shape
<1>4. shape \in Shape
  BY <1>1, <1>2, <1>3
<1>5. market' \in Seq(Shape) /\ Len(market') = Len(market) + 1
  BY <1>1, <1>3, <1>4
<1>6. Marketed'
  BY <1>2, <1>3, <1>5 DEF Marketed
<1>7. Tabled' /\ Told' /\ Explained' /\ Writing'
  <2>1. Tabled'
    BY <1>2 DEF SetupsInv, Tabled
  <2>2. Told'
    BY <1>2 DEF SetupsInv, Told
  <2>3. Explained'
    BY <1>2 DEF SetupsInv, Explained, Unrecorded, Current
  <2>4. obs.writes = << >>
    BY <1>2, IdleWrites
  <2>5. Writing'
    BY <1>2, <2>4 DEF Writing
  <2> QED
    BY <2>1, <2>2, <2>3, <2>5
<1>8. Observing'
  <2>1. Observing
    BY DEF SetupsInv
  <2>2. Memory(obs)'
    BY <1>2, <2>1 DEF Observing, Memory
  <2>3. obs.last <= Len(market')
    BY <1>3, <1>5, <2>1 DEF Observing
  <2>4. Fresh' = Fresh
    BY DEF Fresh
  <2> QED
    BY <1>2, <2>1, <2>2, <2>3, <2>4 DEF Observing
<1> QED
  BY <1>6, <1>7, <1>8 DEF SetupsInv

\* So does a crash: it leaves at most one more setup without its event.
LEMMA CrashKeeps ==
    ASSUME SetupsInv, Crash
    PROVE  SetupsInv'
<1>1. obs' = Fresh /\ crashes' = crashes + 1 /\ UNCHANGED <<market, rows, events, stored>>
  BY DEF Crash
<1>2. Marketed' /\ Tabled' /\ Told' /\ Unrecorded' = Unrecorded
  BY <1>1, TablesKept
<1>3. obs' = [last |-> 0, warmTo |-> 0, phase |-> "idle", left |-> {}, shown |-> {},
              writes |-> << >>, published |-> << >>]
  BY <1>1 DEF Fresh
<1>4. Writing' /\ Current' = {}
  BY <1>3 DEF Writing, Current
<1>5. Observing'
  <2>1. Memory(obs)'
    BY <1>3 DEF Memory
  <2>2. Fresh' = Fresh
    BY DEF Fresh
  <2>3. Len(market') \in Nat
    BY <1>2, MarketIs, <1>1 DEF SetupsInv
  <2>4. stored' \in Nat
    BY <1>1 DEF SetupsInv, Observing
  <2> QED
    BY <1>1, <1>3, <2>1, <2>2, <2>3, <2>4 DEF Observing
<1>6. Explained'
  <2>1. crashes \in Nat /\ IsFiniteSet(Unrecorded) /\ Cardinality(Unrecorded \ Current) <= crashes
    BY DEF SetupsInv, Explained
  <2>2. \E o : Current \subseteq {o}
    BY DEF Current
  <2>3. Cardinality(Unrecorded) <= Cardinality(Unrecorded \ Current) + 1
    BY <2>1, <2>2, LessOne
  <2>4. Cardinality(Unrecorded \ Current) \in Nat /\ Cardinality(Unrecorded) \in Nat
    BY <2>1, FS_CardinalityType, FS_Subset
  <2>5. Unrecorded' \ Current' = Unrecorded
    BY <1>2, <1>4
  <2> QED
    BY <1>1, <1>2, <2>1, <2>3, <2>4, <2>5 DEF Explained
<1> QED
  BY <1>2, <1>4, <1>5, <1>6 DEF SetupsInv

\* The transactions of a path, as EvaluateOne lays them out, one after the other.
Laid(o, r) == [i \in 1..(2 * Len(r.path)) |->
                  IF i % 2 = 1 THEN Move(o, r.row) ELSE Tell(o, r.path[i \div 2])]

\* The writes of a transition of no, one or two steps.
LEMMA LaidOut ==
    ASSUME NEW o, NEW r
    PROVE  /\ r.path = << >> => Laid(o, r) = << >>
           /\ \A s \in States : r.path = <<s>> => Laid(o, r) = <<Move(o, r.row), Tell(o, s)>>
           /\ \A s, t \in States : r.path = <<s, t>> =>
                 Laid(o, r) = <<Move(o, r.row), Tell(o, s), Move(o, r.row), Tell(o, t)>>
<1> DEFINE move == Move(o, r.row)
           step(i) == IF i % 2 = 1 THEN move ELSE Tell(o, r.path[i \div 2])
<1>1. Laid(o, r) = [i \in 1..(2 * Len(r.path)) |-> step(i)]
  BY DEF Laid
<1>2. 1 % 2 = 1 /\ 2 % 2 = 0 /\ 3 % 2 = 1 /\ 4 % 2 = 0 /\ 2 \div 2 = 1 /\ 4 \div 2 = 2
  OBVIOUS
<1>3. step(1) = move /\ step(2) = Tell(o, r.path[1]) /\ step(3) = move /\ step(4) = Tell(o, r.path[2])
  BY <1>2
<1> HIDE DEF step, move
<1>4. ASSUME r.path = << >>
      PROVE  Laid(o, r) = << >>
  <2>1. 1..(2 * Len(r.path)) = {}
    BY <1>4
  <2>2. Laid(o, r) = [i \in {} |-> step(i)]
    BY <1>1, <2>1
  <2>3. Laid(o, r) \in Seq({}) /\ Len(Laid(o, r)) = 0
    BY <2>2
  <2> QED
    BY <2>3
<1>5. ASSUME NEW s \in States, r.path = <<s>>
      PROVE  Laid(o, r) = <<move, Tell(o, s)>>
  <2>1. 2 * Len(r.path) = 2 /\ r.path[1] = s
    BY <1>5
  <2>2. Laid(o, r) = [i \in 1..2 |-> step(i)]
    BY <1>1, <2>1
  <2>3. step(2) = Tell(o, s)
    BY <1>3, <2>1
  <2>4. [i \in 1..2 |-> step(i)] = <<step(1), step(2)>>
    OBVIOUS
  <2> QED
    BY <1>3, <2>2, <2>3, <2>4
<1>6. ASSUME NEW s \in States, NEW t \in States, r.path = <<s, t>>
      PROVE  Laid(o, r) = <<move, Tell(o, s), move, Tell(o, t)>>
  <2>1. 2 * Len(r.path) = 4 /\ r.path[1] = s /\ r.path[2] = t
    BY <1>6
  <2>2. Laid(o, r) = [i \in 1..4 |-> step(i)]
    BY <1>1, <2>1
  <2>3. step(2) = Tell(o, s) /\ step(4) = Tell(o, t)
    BY <1>3, <2>1
  <2>4. [i \in 1..4 |-> step(i)] = <<step(1), step(2), step(3), step(4)>>
    OBVIOUS
  <2> QED
    BY <1>3, <2>2, <2>3, <2>4
<1> QED
  BY <1>4, <1>5, <1>6 DEF move

\* Setups are worked on in the order of their detection.
LEMMA FirstIs ==
    ASSUME Marketed, NEW S \in SUBSET Origins, S # {}
    PROVE  First(S) \in S
<1> DEFINE key(o) == 2 * o.bar + o.n
           Keys == {key(o) : o \in S}
<1>1. \A o \in S : o.bar \in Nat /\ o.n \in 1..2 /\ key(o) \in Nat
  BY MarketIs DEF Origins
<1>2. Keys \in SUBSET Nat /\ Keys # {}
  BY <1>1
<1>3. PICK m \in Keys : \A n \in Keys : m <= n
  BY <1>2, LeastOf
<1>4. PICK o \in S : m = key(o)
  OBVIOUS
<1>5. ASSUME NEW p \in S
      PROVE  o.bar < p.bar \/ (o.bar = p.bar /\ o.n <= p.n)
  <2>1. key(o) <= key(p)
    BY <1>3, <1>4
  <2> QED
    BY <1>1, <2>1
<1>6. \E x \in S : \A p \in S : x.bar < p.bar \/ (x.bar = p.bar /\ x.n <= p.n)
  BY <1>5
<1> QED
  BY <1>6 DEF First

\* The row and the events of a stored setup.
LEMMA RowOf ==
    ASSUME SetupsInv, NEW o \in DOMAIN rows
    PROVE  rows[o] \in Rows /\ events[o] \in Seq(Event) /\ o \in DOMAIN events /\ o \in Origins
BY DEF SetupsInv, Tabled

\* An event is not later than the last change of its setup.
LEMMA EventIs ==
    ASSUME SetupsInv, NEW o \in DOMAIN rows, NEW i \in DOMAIN events[o]
    PROVE  events[o][i] \in Event /\ events[o][i].bar \in Int /\ events[o][i].bar <= rows[o].updated
<1>1. events[o] \in Seq(Event)
  BY RowOf
<1>2. events[o][i] \in Event
  BY <1>1
<1>3. events[o][i].bar \in Bars
  BY <1>2 DEF Event
<1>4. Bars \subseteq Int
  BY MarketIs DEF SetupsInv
<1>5. events[o][i].bar <= rows[o].updated
  BY DEF SetupsInv, Told
<1> QED
  BY <1>2, <1>3, <1>4, <1>5

\* Evaluating a setup writes nothing, or the transitions of one path, ending in the row's state.
LEMMA Evaluating ==
    ASSUME SetupsInv, EvaluateOne
    PROVE  \E o, r :
              /\ o \in obs.left /\ o \in DOMAIN rows /\ r = Evaluate(rows[o], obs.last) /\ obs.last \in 1..Len(market)
              /\ obs' = [last |-> obs.last, warmTo |-> obs.warmTo, phase |-> "lifecycle", left |-> obs.left \ {o},
                         shown |-> obs.shown, writes |-> Laid(o, r), published |-> obs.published]
              /\ \/ r.path = << >>
                 \/ /\ rows[o].updated < obs.last
                    /\ r.row \in Rows /\ r.row.updated = obs.last /\ r.row.created = rows[o].created
                    /\ \/ r.path = <<r.row.state>>
                       \/ \E to \in States : to # r.row.state /\ r.path = <<to, r.row.state>>
<1>1. /\ up /\ obs.phase = "lifecycle" /\ obs.writes = << >> /\ obs.left # {}
      /\ UNCHANGED <<up, market, rows, events, stored, crashes>>
  BY DEF EvaluateOne
<1>2. Observing /\ Marketed
  BY DEF SetupsInv
<1>3. obs.left \subseteq DOMAIN rows /\ obs.left \subseteq Origins
  BY <1>1, <1>2 DEF SetupsInv, Observing, Tabled
<1>4. PICK o \in obs.left : o = First(obs.left)
  BY <1>1, <1>2, <1>3, FirstIs
<1>5. PICK r : r = Evaluate(rows[o], obs.last)
  OBVIOUS
<1>6. obs' = [obs EXCEPT !.left = @ \ {o}, !.writes = Laid(o, r)]
  BY <1>4, <1>5 DEF EvaluateOne, Laid, Move, Tell
<1>7. obs' = [last |-> obs.last, warmTo |-> obs.warmTo, phase |-> "lifecycle", left |-> obs.left \ {o},
              shown |-> obs.shown, writes |-> Laid(o, r), published |-> obs.published]
  BY <1>1, <1>2, <1>6 DEF Observing, Memory
<1>8. o \in DOMAIN rows
  BY <1>3
<1>9. rows[o] \in Rows /\ o \in DOMAIN events
  BY <1>8, RowOf
<1>10. obs.last \in 1..Len(market) /\ obs.last \in Nat
  BY <1>1, <1>2, MarketIs DEF Observing
<1>11. r.path = << >> \/
       /\ rows[o].updated < obs.last
       /\ r.row \in Rows /\ r.row.updated = obs.last /\ r.row.created = rows[o].created
       /\ \/ r.path = <<r.row.state>>
          \/ \E to \in States : to # r.row.state /\ r.path = <<to, r.row.state>>
  BY <1>2, <1>9, <1>10, <1>5, Evaluated
<1> QED
  BY <1>5, <1>7, <1>8, <1>10, <1>11

\* Evaluating a setup lays out writes of one of the known forms.
LEMMA EvaluateOneKeeps ==
    ASSUME SetupsInv, EvaluateOne
    PROVE  SetupsInv'
<1>1. /\ up /\ obs.phase = "lifecycle" /\ obs.writes = << >> /\ obs.left # {}
      /\ UNCHANGED <<up, market, rows, events, stored, crashes>>
  BY DEF EvaluateOne
<1>2. Observing /\ Marketed
  BY DEF SetupsInv
<1>3. obs.left \subseteq DOMAIN rows /\ obs.left \subseteq Origins
  BY <1>1, <1>2 DEF SetupsInv, Observing, Tabled
<1>4. PICK o, r :
         /\ o \in obs.left /\ o \in DOMAIN rows /\ r = Evaluate(rows[o], obs.last) /\ obs.last \in 1..Len(market)
         /\ obs' = [last |-> obs.last, warmTo |-> obs.warmTo, phase |-> "lifecycle", left |-> obs.left \ {o},
                    shown |-> obs.shown, writes |-> Laid(o, r), published |-> obs.published]
         /\ \/ r.path = << >>
            \/ /\ rows[o].updated < obs.last
               /\ r.row \in Rows /\ r.row.updated = obs.last /\ r.row.created = rows[o].created
               /\ \/ r.path = <<r.row.state>>
                  \/ \E to \in States : to # r.row.state /\ r.path = <<to, r.row.state>>
  BY Evaluating
<1>5. rows[o] \in Rows /\ o \in DOMAIN events /\ obs.last \in Nat
  BY <1>2, <1>4, RowOf DEF Observing
<1>6. Memory(obs)'
  BY <1>4 DEF Memory
<1>7. Observing'
  BY <1>1, <1>2, <1>3, <1>4, <1>6 DEF Observing
<1>8. Marketed' /\ Tabled' /\ Told' /\ Unrecorded' = Unrecorded
  BY <1>1, TablesKept
<1>9. Writing' /\ Current' \subseteq {o}
  <2>1. CASE r.path = << >>
    <3>1. obs'.writes = << >>
      BY <1>4, <2>1, LaidOut
    <3> QED
      BY <3>1 DEF Writing, Current
  <2>2. CASE r.path # << >>
    <3>1. rows[o].updated < obs.last /\ rows[o].updated \in Int /\ r.row.state \in States
      BY <1>5, <1>4, <2>2, RowFields, MarketIs, <1>2
    <3>2. NewRow(o, r.row)'
      <4>1. rows[o].updated <= obs.last
        BY <1>5, <3>1
      <4>2. rows' = rows /\ obs'.last = obs.last
        BY <1>1, <1>4
      <4>3. NewRow(o, r.row)
        BY <1>4, <2>2, <4>1 DEF NewRow
      <4> QED
        BY <4>2, <4>3 DEF NewRow
    <3>3. \A i \in DOMAIN events[o] : events[o][i].bar < obs.last
      <4>1. \A i \in DOMAIN events[o] : events[o][i].bar \in Int /\ events[o][i].bar <= rows[o].updated
        BY <1>4, EventIs
      <4> QED
        BY <1>5, <3>1, <4>1
    <3>4. \A to : Untold(o, to)'
      <4>1. events' = events /\ obs'.last = obs.last
        BY <1>1, <1>4
      <4>2. \A to : Untold(o, to)
        BY <1>5, <3>3 DEF Untold
      <4> QED
        BY <4>1, <4>2 DEF Untold
    <3>5. CASE r.path = <<r.row.state>>
      <4>1. obs'.writes = <<Move(o, r.row), Tell(o, r.row.state)>>
        BY <1>4, <3>1, <3>5, LaidOut
      <4>2. Moving(o, r.row)'
        <5>1. o \in DOMAIN rows'
          BY <1>1, <1>4
        <5>2. Untold(o, r.row.state)'
          BY <3>4
        <5> QED
          BY <3>2, <4>1, <5>1, <5>2 DEF Moving
      <4>3. Head(obs'.writes).setup = o
        BY <4>1 DEF Move
      <4> QED
        BY <1>4, <4>2, <4>3 DEF Writing, Current
    <3>6. CASE \E to \in States : to # r.row.state /\ r.path = <<to, r.row.state>>
      <4>1. PICK to \in States : to # r.row.state /\ r.path = <<to, r.row.state>>
        BY <3>6
      <4>2. obs'.writes = <<Move(o, r.row), Tell(o, to), Move(o, r.row), Tell(o, r.row.state)>>
        BY <1>4, <3>1, <4>1, LaidOut
      <4>3. MovingTwice(o, to, r.row)'
        <5>1. o \in DOMAIN rows'
          BY <1>1, <1>4
        <5>2. Untold(o, r.row.state)'
          BY <3>4
        <5> QED
          BY <3>2, <4>1, <4>2, <5>1, <5>2 DEF MovingTwice
      <4>4. Head(obs'.writes).setup = o
        BY <4>2 DEF Move
      <4> QED
        BY <1>4, <4>3, <4>4 DEF Writing, Current
    <3> QED
      BY <1>4, <2>2, <3>5, <3>6
  <2> QED
    BY <2>1, <2>2
<1>10. Explained'
  <2>1. crashes \in Nat /\ IsFiniteSet(Unrecorded) /\ Cardinality(Unrecorded) <= crashes
    BY <1>1 DEF SetupsInv, Explained, Current
  <2>2. Cardinality(Unrecorded \ Current') <= Cardinality(Unrecorded) /\ Cardinality(Unrecorded \ Current') \in Nat
        /\ Cardinality(Unrecorded) \in Nat
    BY <2>1, FS_Subset, FS_CardinalityType
  <2> QED
    BY <1>1, <1>8, <2>1, <2>2 DEF Explained
<1> QED
  BY <1>7, <1>8, <1>9, <1>10 DEF SetupsInv

\* What a function holds after a key is put.
LEMMA PutIs ==
    ASSUME NEW f, NEW k, NEW v
    PROVE  /\ DOMAIN Put(f, k, v) = DOMAIN f \union {k}
           /\ Put(f, k, v)[k] = v
           /\ \A x \in DOMAIN f : x # k => Put(f, k, v)[x] = f[x]
           /\ \A T : f \in [DOMAIN f -> T] /\ v \in T => Put(f, k, v) \in [DOMAIN f \union {k} -> T]
BY DEF Put

\* Creating a setup lays out its row and its first event.
LEMMA CreateOneKeeps ==
    ASSUME SetupsInv, CreateOne
    PROVE  SetupsInv'
<1>1. /\ up /\ obs.phase = "create" /\ obs.writes = << >> /\ obs.left # {}
      /\ UNCHANGED <<up, market, rows, events, stored, crashes>>
  BY DEF CreateOne
<1>2. Observing /\ Marketed
  BY DEF SetupsInv
<1>3. \A o \in obs.left : o \in Origins /\ o.bar = obs.last
  BY <1>1, <1>2 DEF Observing
<1>4. PICK o \in obs.left : o = First(obs.left)
  BY <1>1, <1>2, <1>3, FirstIs
<1>5. PICK writes : writes = IF o \notin DOMAIN rows THEN <<Insert(o, Created(obs.last)), Tell(o, "WATCH")>> ELSE << >>
  OBVIOUS
<1>6. PICK shown : obs' = [obs EXCEPT !.left = @ \ {o}, !.shown = shown, !.writes = writes]
  BY <1>4, <1>5 DEF CreateOne, Insert, Tell
<1>7. obs' = [last |-> obs.last, warmTo |-> obs.warmTo, phase |-> "create", left |-> obs.left \ {o},
              shown |-> shown, writes |-> writes, published |-> obs.published]
  BY <1>1, <1>2, <1>6 DEF Observing, Memory
<1>8. Memory(obs)'
  BY <1>7 DEF Memory
<1>9. Observing'
  BY <1>1, <1>2, <1>3, <1>7, <1>8 DEF Observing
<1>10. Marketed' /\ Tabled' /\ Told' /\ Unrecorded' = Unrecorded
  BY <1>1, TablesKept
<1>11. Writing'
  <2>1. CASE o \in DOMAIN rows
    <3>1. obs'.writes = << >>
      BY <1>5, <1>7, <2>1
    <3> QED
      BY <3>1 DEF Writing
  <2>2. CASE o \notin DOMAIN rows
    <3>1. PICK row : row = Created(obs.last)
      OBVIOUS
    <3>2. obs.last \in 1..Len(market) /\ obs.last \in Bars /\ market[obs.last].close \in Int
      BY <1>1, <1>2, MarketIs DEF Observing
    <3>3. "WATCH" \in States \ {"OBSERVING"}
      BY DEF States
    <3>4. [age |-> 0, beyond |-> IF market[obs.last].close > 0 THEN 1 ELSE 0, bars |-> 0,
           extreme |-> market[obs.last].close] \in Ctx
      BY <3>2 DEF Ctx
    <3>5. row \in Rows /\ row.state = "WATCH" /\ row.created = obs.last /\ row.updated = obs.last
      BY <3>1, <3>2, <3>3, <3>4 DEF Created, Rows
    <3>6. obs'.writes = <<Insert(o, row), Tell(o, "WATCH")>> /\ obs'.last = obs.last /\ rows' = rows
      BY <1>1, <1>5, <1>7, <2>2, <3>1
    <3>7. Inserting(o, row)'
      BY <1>3, <2>2, <3>5, <3>6 DEF Inserting
    <3> QED
      BY <1>7, <3>7 DEF Writing
  <2> QED
    BY <2>1, <2>2
<1>12. Explained'
  <2>1. crashes \in Nat /\ IsFiniteSet(Unrecorded) /\ Cardinality(Unrecorded) <= crashes
    BY <1>1 DEF SetupsInv, Explained, Current
  <2>2. Cardinality(Unrecorded \ Current') <= Cardinality(Unrecorded) /\ Cardinality(Unrecorded \ Current') \in Nat
        /\ Cardinality(Unrecorded) \in Nat
    BY <2>1, FS_Subset, FS_CardinalityType
  <2> QED
    BY <1>1, <1>10, <2>1, <2>2 DEF Explained
<1> QED
  BY <1>9, <1>10, <1>11, <1>12 DEF SetupsInv

-----------------------------------------------------------------------------
(* Transactions *)

\* A transaction is the first of the writes left, and the rest stay.
LEMMA Committing ==
    ASSUME SetupsInv, Commit
    PROVE  /\ obs.writes # << >> /\ UNCHANGED <<up, market, stored, crashes, finished>>
           /\ obs' = [last |-> obs.last, warmTo |-> obs.warmTo, phase |-> obs.phase, left |-> obs.left,
                      shown |-> obs.shown, writes |-> Tail(obs.writes), published |-> obs.published]
           /\ DOMAIN rows \subseteq DOMAIN rows' => Observing'
<1>1. /\ up /\ obs.writes # << >> /\ UNCHANGED <<up, market, stored, crashes, finished>>
      /\ obs' = [obs EXCEPT !.writes = Tail(@)]
  BY DEF Commit
<1>2. Observing
  BY DEF SetupsInv
<1>3. obs' = [last |-> obs.last, warmTo |-> obs.warmTo, phase |-> obs.phase, left |-> obs.left,
              shown |-> obs.shown, writes |-> Tail(obs.writes), published |-> obs.published]
  BY <1>1, <1>2 DEF Observing, Memory
<1>4. Memory(obs)'
  BY <1>3 DEF Memory
<1>5. DOMAIN rows \subseteq DOMAIN rows' => Observing'
  BY <1>1, <1>2, <1>3, <1>4 DEF Observing
<1> QED
  BY <1>1, <1>3, <1>5

\* Writing one setup leaves the others explained, and itself if its last event is told.
LEMMA OthersExplained ==
    ASSUME SetupsInv, NEW o, Current = {o}, crashes' = crashes,
           \A x \in DOMAIN rows' : x # o => x \in DOMAIN rows /\ rows'[x] = rows[x] /\ events'[x] = events[x],
           Current' = {o} \/ o \notin Unrecorded'
    PROVE  Explained'
<1>1. crashes \in Nat /\ IsFiniteSet(Unrecorded) /\ Cardinality(Unrecorded \ {o}) <= crashes
  BY DEF SetupsInv, Explained
<1>2. \A x \in Unrecorded' : x # o => x \in Unrecorded
  BY DEF Unrecorded
<1>3. Unrecorded' \subseteq Unrecorded \union {o} /\ Unrecorded' \ Current' \subseteq Unrecorded \ {o}
  BY <1>2
<1>4. IsFiniteSet(Unrecorded \union {o}) /\ IsFiniteSet(Unrecorded \ {o})
  BY <1>1, FS_AddElement, FS_RemoveElement
<1>5. IsFiniteSet(Unrecorded')
  BY <1>3, <1>4, FS_Subset
<1>6. /\ Cardinality(Unrecorded' \ Current') <= Cardinality(Unrecorded \ {o})
      /\ Cardinality(Unrecorded' \ Current') \in Nat /\ Cardinality(Unrecorded \ {o}) \in Nat
  BY <1>3, <1>4, FS_Subset, FS_CardinalityType
<1> QED
  BY <1>1, <1>5, <1>6 DEF Explained

\* update_state: the row takes its new state, and its event is still to be told.
LEMMA Moved ==
    ASSUME SetupsInv, NEW o \in DOMAIN rows, NEW row, NewRow(o, row),
           rows' = [rows EXCEPT ![o] = row], UNCHANGED events
    PROVE  /\ Tabled' /\ Told' /\ DOMAIN rows' = DOMAIN rows /\ rows'[o] = row
           /\ \A x \in DOMAIN rows' : x # o => x \in DOMAIN rows /\ rows'[x] = rows[x] /\ events'[x] = events[x]
<1>1. Tabled
  BY DEF SetupsInv
<1>2. row \in Rows /\ row.updated = obs.last /\ rows[o].updated <= obs.last
  BY DEF NewRow
<1>3. rows' \in [DOMAIN rows -> Rows] /\ DOMAIN rows' = DOMAIN rows /\ rows'[o] = row
      /\ \A x \in DOMAIN rows : x # o => rows'[x] = rows[x]
  BY <1>1, <1>2 DEF Tabled
<1>4. Tabled'
  BY <1>1, <1>3 DEF Tabled
<1>5. Told'
  <2>1. SUFFICES ASSUME NEW x \in DOMAIN rows, NEW i \in DOMAIN events[x]
                 PROVE  events[x][i].bar <= rows'[x].updated
    BY <1>3 DEF Told
  <2>2. events[x][i].bar <= rows[x].updated /\ events[x][i].bar \in Int
    BY EventIs
  <2>3. rows[x].updated \in Int /\ obs.last \in Int
    BY RowOf, RowFields, MarketIs DEF SetupsInv, Observing
  <2>4. CASE x = o
    BY <1>2, <1>3, <2>2, <2>3, <2>4
  <2>5. CASE x # o
    BY <1>3, <2>2, <2>5
  <2> QED
    BY <2>4, <2>5
<1> QED
  BY <1>3, <1>4, <1>5

\* add_event on the bar the row was last changed: the event is the last of the setup, unless the
\* bar has one of that state already.
LEMMA AddedEvent ==
    ASSUME SetupsInv, NEW o \in DOMAIN rows, NEW to \in States, rows[o].updated = obs.last, obs.phase # "idle",
           events' = AddEvent(o, [bar |-> obs.last, to |-> to]), UNCHANGED rows
    PROVE  /\ Tabled' /\ Told'
           /\ \A x \in DOMAIN rows' : x # o => x \in DOMAIN rows /\ rows'[x] = rows[x] /\ events'[x] = events[x]
           /\ Untold(o, to) => events'[o] # << >> /\ events'[o][Len(events'[o])].to = to
           /\ \A t : t # to /\ Untold(o, t) => \A i \in DOMAIN events'[o] : events'[o][i] # [bar |-> obs.last, to |-> t]
<1> DEFINE e == [bar |-> obs.last, to |-> to]
<1>1. Tabled /\ Marketed /\ Observing
  BY DEF SetupsInv
<1>2. obs.last \in Bars /\ obs.last \in Nat
  BY <1>1, MarketIs DEF Observing
<1>3. e \in Event
  BY <1>2 DEF Event
<1>4. events[o] \in Seq(Event)
  BY RowOf
<1>5. CASE events' = events
  <2>1. Tabled' /\ Told'
    BY <1>1, <1>5 DEF SetupsInv, Tabled, Told
  <2>2. ~Untold(o, to)
    <3>1. SUFFICES ASSUME Untold(o, to) PROVE FALSE
      OBVIOUS
    <3>2. events' = [events EXCEPT ![o] = Append(@, e)]
      BY <3>1 DEF Untold, AddEvent
    <3>3. events'[o] = Append(events[o], e) /\ events'[o] = events[o]
      BY <1>1, <1>5, <3>2 DEF Tabled
    <3> QED
      BY <1>3, <1>4, <3>3
  <2>3. \A t : Untold(o, t) => \A i \in DOMAIN events'[o] : events'[o][i] # [bar |-> obs.last, to |-> t]
    BY <1>5 DEF Untold
  <2> QED
    BY <1>5, <2>1, <2>2, <2>3
<1>6. CASE events' = [events EXCEPT ![o] = Append(@, e)]
  <2>1. events' \in [DOMAIN rows -> Seq(Event)] /\ events'[o] = Append(events[o], e)
        /\ \A x \in DOMAIN rows : x # o => events'[x] = events[x]
    <3>1. Append(events[o], e) \in Seq(Event)
      BY <1>3, <1>4
    <3> QED
      BY <1>1, <1>6, <3>1 DEF Tabled
  <2>2. Tabled'
    BY <1>1, <2>1 DEF Tabled
  <2>3. /\ Len(events'[o]) = Len(events[o]) + 1 /\ Len(events[o]) \in Nat /\ events'[o][Len(events[o]) + 1] = e
        /\ DOMAIN events[o] = 1..Len(events[o]) /\ DOMAIN events'[o] = 1..(Len(events[o]) + 1)
        /\ \A i \in 1..Len(events[o]) : events'[o][i] = events[o][i]
    BY <1>3, <1>4, <2>1
  <2>4. \A i \in DOMAIN events'[o] : i \in DOMAIN events[o] \/ i = Len(events[o]) + 1
    BY <2>3
  <2>5. Told'
    <3>1. SUFFICES ASSUME NEW x \in DOMAIN rows, NEW i \in DOMAIN events'[x]
                   PROVE  events'[x][i].bar <= rows[x].updated
      BY DEF Told
    <3>2. CASE x = o
      <4>1. CASE i \in DOMAIN events[o]
        BY <2>3, <3>2, <4>1, EventIs
      <4>2. CASE i = Len(events[o]) + 1
        BY <1>2, <2>3, <3>2, <4>2
      <4> QED
        BY <2>4, <3>2, <4>1, <4>2
    <3>3. CASE x # o
      BY <2>1, <3>3, EventIs
    <3> QED
      BY <3>2, <3>3
  <2>6. events'[o] # << >> /\ events'[o][Len(events'[o])].to = to
    BY <2>3
  <2>7. ASSUME NEW t, t # to, Untold(o, t)
        PROVE  \A i \in DOMAIN events'[o] : events'[o][i] # [bar |-> obs.last, to |-> t]
    <3>1. e # [bar |-> obs.last, to |-> t]
      BY <2>7
    <3>2. \A i \in DOMAIN events[o] : events[o][i] # [bar |-> obs.last, to |-> t]
      BY <2>7 DEF Untold
    <3> QED
      BY <2>3, <2>4, <3>1, <3>2
  <2> QED
    BY <2>1, <2>2, <2>5, <2>6, <2>7
<1> QED
  BY <1>5, <1>6 DEF AddEvent

\* The first transaction of each kind of writes, and what is left of them.
LEMMA HeadInsert ==
    ASSUME SetupsInv, Commit, NEW o, NEW row, Inserting(o, row)
    PROVE  SetupsInv'
<1>1. /\ UNCHANGED <<up, market, stored, crashes>> /\ obs'.last = obs.last /\ obs'.phase = obs.phase
      /\ obs'.writes = Tail(obs.writes) /\ (DOMAIN rows \subseteq DOMAIN rows' => Observing')
  BY Committing
<1>2. obs.writes = <<Insert(o, row), Tell(o, "WATCH")>> /\ obs.writes # << >> /\ obs.phase # "idle"
  <2>1. obs.writes = <<Insert(o, row), Tell(o, "WATCH")>> /\ obs.writes # << >>
    BY Committing DEF Inserting
  <2> QED
    BY <2>1, IdleWrites
<1>3. Head(obs.writes) = Insert(o, row) /\ Tail(obs.writes) = <<Tell(o, "WATCH")>>
  BY <1>2
<1>4. rows' = Put(rows, o, row) /\ events' = Put(events, o, << >>)
  BY <1>3 DEF Commit, Insert
<1>5. /\ o \in Origins /\ o \notin DOMAIN rows /\ row \in Rows
      /\ row.state = "WATCH" /\ row.updated = obs.last
  BY DEF Inserting
<1>6. Tabled /\ Marketed /\ rows \in [DOMAIN rows -> Rows] /\ events \in [DOMAIN rows -> Seq(Event)]
  BY DEF SetupsInv, Tabled
<1>7. /\ rows' \in [DOMAIN rows \union {o} -> Rows] /\ rows'[o] = row
      /\ \A x \in DOMAIN rows : x # o => rows'[x] = rows[x]
  <2>1. /\ rows'[o] = row
        /\ \A x \in DOMAIN rows : x # o => rows'[x] = rows[x]
    BY <1>4 DEF Put
  <2>2. rows' \in [DOMAIN rows \union {o} -> Rows]
    BY <1>4, <1>5, <1>6, PutIs
  <2> QED
    BY <2>1, <2>2
<1>8. /\ events' \in [DOMAIN rows \union {o} -> Seq(Event)] /\ events'[o] = << >>
      /\ \A x \in DOMAIN rows : x # o => events'[x] = events[x]
  <2>1. << >> \in Seq(Event)
    OBVIOUS
  <2>2. /\ events'[o] = << >>
        /\ \A x \in DOMAIN rows : x # o => events'[x] = events[x]
    BY <1>4, <1>6 DEF Put
  <2>3. events' \in [DOMAIN rows \union {o} -> Seq(Event)]
    BY <1>4, <1>6, <2>1, PutIs
  <2> QED
    BY <2>2, <2>3
<1>9. DOMAIN rows' = DOMAIN rows \union {o}
  BY <1>7
<1>10. Tabled'
  <2>1. IsFiniteSet(DOMAIN rows \union {o})
    BY <1>6, FS_AddElement DEF Tabled
  <2> QED
    BY <1>5, <1>6, <1>7, <1>8, <1>9, <2>1 DEF Tabled
<1>11. Told'
  <2>1. SUFFICES ASSUME NEW x \in DOMAIN rows', NEW i \in DOMAIN events'[x]
                 PROVE  events'[x][i].bar <= rows'[x].updated
    BY DEF Told
  <2>2. x # o
    BY <1>8
  <2>3. x \in DOMAIN rows /\ rows'[x] = rows[x] /\ events'[x] = events[x]
    BY <1>7, <1>8, <1>9, <2>2
  <2> QED
    BY <2>3, EventIs
<1>12. Telling(o, "WATCH")'
  <2>1. "WATCH" \in States
    BY DEF States
  <2>2. Untold(o, "WATCH")'
    BY <1>8 DEF Untold
  <2> QED
    BY <1>1, <1>3, <1>5, <1>7, <1>9, <2>1, <2>2 DEF Telling
<1>13. Writing'
  BY <1>1, <1>2, <1>12 DEF Writing
<1>14. Current = {o} /\ Current' = {o}
  BY <1>1, <1>2, <1>3 DEF Current, Insert, Tell
<1>15. Explained'
  BY <1>1, <1>7, <1>8, <1>9, <1>14, OthersExplained
<1> QED
  BY <1>1, <1>6, <1>9, <1>10, <1>11, <1>13, <1>15 DEF SetupsInv, Marketed

\* A row that is written is the one being changed, and no other.
LEMMA HeadMove ==
    ASSUME SetupsInv, Commit, NEW o, NEW row, NewRow(o, row), o \in DOMAIN rows,
           obs.writes # << >>, Head(obs.writes) = Move(o, row)
    PROVE  /\ rows' = [rows EXCEPT ![o] = row] /\ events' = events
           /\ Tabled' /\ Told' /\ DOMAIN rows' = DOMAIN rows /\ rows'[o] = row /\ Current = {o}
           /\ \A x \in DOMAIN rows' : x # o => x \in DOMAIN rows /\ rows'[x] = rows[x] /\ events'[x] = events[x]
<1>1. rows' = [rows EXCEPT ![o] = row] /\ events' = events
  BY DEF Commit, Move
<1>2. Current = {o}
  BY DEF Current, Move
<1> QED
  BY <1>1, <1>2, Moved

\* An event that is written is about the setup being changed.
LEMMA HeadTell ==
    ASSUME SetupsInv, Commit, NEW o, NEW to, Head(obs.writes) = Tell(o, to), obs.writes # << >>
    PROVE  /\ events' = AddEvent(o, [bar |-> obs.last, to |-> to]) /\ rows' = rows
           /\ Current = {o}
BY DEF Commit, Tell, Current

\* The last row of a transition, its event still to come, keeps the invariant.
LEMMA MovingKeeps ==
    ASSUME SetupsInv, Commit, NEW o, NEW row, Moving(o, row)
    PROVE  SetupsInv'
<1>1. /\ UNCHANGED <<up, market, stored, crashes>> /\ obs'.last = obs.last /\ obs'.phase = obs.phase
      /\ obs'.writes = Tail(obs.writes) /\ (DOMAIN rows \subseteq DOMAIN rows' => Observing')
  BY Committing
<1>2. /\ obs.writes = <<Move(o, row), Tell(o, row.state)>>
      /\ o \in DOMAIN rows /\ NewRow(o, row) /\ Untold(o, row.state)
  BY DEF Moving
<1>3. obs.writes # << >> /\ obs.phase # "idle"
  BY Committing, IdleWrites
<1>4. Head(obs.writes) = Move(o, row) /\ obs'.writes = <<Tell(o, row.state)>>
  BY <1>1, <1>2
<1>5. /\ rows' = [rows EXCEPT ![o] = row] /\ events' = events
      /\ Tabled' /\ Told' /\ DOMAIN rows' = DOMAIN rows /\ rows'[o] = row /\ Current = {o}
      /\ \A x \in DOMAIN rows' : x # o => x \in DOMAIN rows /\ rows'[x] = rows[x] /\ events'[x] = events[x]
  BY <1>2, <1>3, <1>4, HeadMove
<1>6. Current' = {o}
  BY <1>4 DEF Current, Tell
<1>7. Telling(o, row.state)'
  <2>1. row.state \in States /\ row.updated = obs.last
    BY <1>2, RowFields DEF NewRow
  <2>2. Untold(o, row.state)'
    BY <1>1, <1>2, <1>5 DEF Untold
  <2> QED
    BY <1>1, <1>2, <1>4, <1>5, <2>1, <2>2 DEF Telling
<1>8. Writing'
  BY <1>1, <1>3, <1>7 DEF Writing
<1>9. Explained'
  BY <1>1, <1>5, <1>6, OthersExplained
<1> QED
  BY <1>1, <1>5, <1>8, <1>9 DEF SetupsInv, Marketed

\* So does the event that ends a transition.
LEMMA TellingKeeps ==
    ASSUME SetupsInv, Commit, NEW o, NEW to, Telling(o, to)
    PROVE  SetupsInv'
<1>1. /\ UNCHANGED <<up, market, stored, crashes>> /\ obs'.last = obs.last /\ obs'.phase = obs.phase
      /\ obs'.writes = Tail(obs.writes) /\ (DOMAIN rows \subseteq DOMAIN rows' => Observing')
  BY Committing
<1>2. /\ obs.writes = <<Tell(o, to)>> /\ o \in DOMAIN rows /\ to \in States
      /\ rows[o].state = to /\ rows[o].updated = obs.last /\ Untold(o, to)
  BY DEF Telling
<1>3. obs.writes # << >> /\ obs.phase # "idle"
  BY Committing, IdleWrites
<1>4. Head(obs.writes) = Tell(o, to) /\ obs'.writes = << >>
  BY <1>1, <1>2
<1>5. events' = AddEvent(o, [bar |-> obs.last, to |-> to]) /\ rows' = rows /\ Current = {o}
  BY <1>3, <1>4, HeadTell
<1>6. /\ Tabled' /\ Told' /\ events'[o] # << >> /\ events'[o][Len(events'[o])].to = to
      /\ \A x \in DOMAIN rows' : x # o => x \in DOMAIN rows /\ rows'[x] = rows[x] /\ events'[x] = events[x]
  BY <1>2, <1>3, <1>5, AddedEvent
<1>7. Writing'
  BY <1>4 DEF Writing
<1>8. o \notin Unrecorded'
  BY <1>2, <1>5, <1>6 DEF Unrecorded
<1>9. Explained'
  BY <1>1, <1>5, <1>6, <1>8, OthersExplained
<1> QED
  BY <1>1, <1>5, <1>6, <1>7, <1>9 DEF SetupsInv, Marketed

\* So does the first event of a transition of two steps.
LEMMA TellingFirstKeeps ==
    ASSUME SetupsInv, Commit, NEW o, NEW to, NEW row, TellingFirst(o, to, row)
    PROVE  SetupsInv'
<1>1. /\ UNCHANGED <<up, market, stored, crashes>> /\ obs'.last = obs.last /\ obs'.phase = obs.phase
      /\ obs'.writes = Tail(obs.writes) /\ (DOMAIN rows \subseteq DOMAIN rows' => Observing')
  BY Committing
<1>2. /\ obs.writes = <<Tell(o, to), Move(o, row), Tell(o, row.state)>> /\ o \in DOMAIN rows /\ to \in States
      /\ NewRow(o, row) /\ to # row.state /\ rows[o].updated = obs.last /\ Untold(o, row.state)
  BY DEF TellingFirst
<1>3. obs.writes # << >> /\ obs.phase # "idle"
  BY Committing, IdleWrites
<1>4. Head(obs.writes) = Tell(o, to) /\ obs'.writes = <<Move(o, row), Tell(o, row.state)>>
  BY <1>1, <1>2
<1>5. events' = AddEvent(o, [bar |-> obs.last, to |-> to]) /\ rows' = rows /\ Current = {o}
  BY <1>3, <1>4, HeadTell
<1>6. /\ Tabled' /\ Told'
      /\ \A i \in DOMAIN events'[o] : events'[o][i] # [bar |-> obs.last, to |-> row.state]
      /\ \A x \in DOMAIN rows' : x # o => x \in DOMAIN rows /\ rows'[x] = rows[x] /\ events'[x] = events[x]
  BY <1>2, <1>3, <1>5, AddedEvent
<1>7. Moving(o, row)'
  <2>1. NewRow(o, row)'
    BY <1>1, <1>2, <1>5 DEF NewRow
  <2>2. Untold(o, row.state)'
    BY <1>1, <1>6 DEF Untold
  <2> QED
    BY <1>2, <1>4, <1>5, <2>1, <2>2 DEF Moving
<1>8. Writing'
  BY <1>1, <1>3, <1>7 DEF Writing
<1>9. Current' = {o}
  BY <1>4 DEF Current, Move
<1>10. Explained'
  BY <1>1, <1>5, <1>6, <1>9, OthersExplained
<1> QED
  BY <1>1, <1>5, <1>6, <1>8, <1>10 DEF SetupsInv, Marketed

\* So does the first row of a transition of two steps.
LEMMA MovingTwiceKeeps ==
    ASSUME SetupsInv, Commit, NEW o, NEW to, NEW row, MovingTwice(o, to, row)
    PROVE  SetupsInv'
<1>1. /\ UNCHANGED <<up, market, stored, crashes>> /\ obs'.last = obs.last /\ obs'.phase = obs.phase
      /\ obs'.writes = Tail(obs.writes) /\ (DOMAIN rows \subseteq DOMAIN rows' => Observing')
  BY Committing
<1>2. /\ obs.writes = <<Move(o, row), Tell(o, to), Move(o, row), Tell(o, row.state)>>
      /\ o \in DOMAIN rows /\ NewRow(o, row) /\ Untold(o, row.state) /\ to \in States /\ to # row.state
  BY DEF MovingTwice
<1>3. obs.writes # << >> /\ obs.phase # "idle"
  BY Committing, IdleWrites
<1>4. Head(obs.writes) = Move(o, row) /\ obs'.writes = <<Tell(o, to), Move(o, row), Tell(o, row.state)>>
  BY <1>1, <1>2
<1>5. /\ rows' = [rows EXCEPT ![o] = row] /\ events' = events
      /\ Tabled' /\ Told' /\ DOMAIN rows' = DOMAIN rows /\ rows'[o] = row /\ Current = {o}
      /\ \A x \in DOMAIN rows' : x # o => x \in DOMAIN rows /\ rows'[x] = rows[x] /\ events'[x] = events[x]
  BY <1>2, <1>3, <1>4, HeadMove
<1>6. Current' = {o}
  BY <1>4 DEF Current, Tell
<1>7. TellingFirst(o, to, row)'
  <2>1. row.updated = obs.last /\ row \in Rows /\ obs.last \in Nat
    BY <1>2 DEF NewRow, SetupsInv, Observing
  <2>2. NewRow(o, row)'
    BY <1>1, <1>2, <1>5, <2>1 DEF NewRow
  <2>3. Untold(o, row.state)'
    BY <1>1, <1>2, <1>5 DEF Untold
  <2> QED
    BY <1>1, <1>2, <1>4, <1>5, <2>1, <2>2, <2>3 DEF TellingFirst
<1>8. Writing'
  BY <1>1, <1>3, <1>7 DEF Writing
<1>9. Explained'
  BY <1>1, <1>5, <1>6, OthersExplained
<1> QED
  BY <1>1, <1>5, <1>8, <1>9 DEF SetupsInv, Marketed

\* So does any transaction.
LEMMA CommitKeeps ==
    ASSUME SetupsInv, Commit
    PROVE  SetupsInv'
<1>1. obs.writes # << >> /\ Writing
  BY Committing DEF SetupsInv
<1> QED
  BY <1>1, HeadInsert, MovingKeeps, TellingKeeps, TellingFirstKeeps, MovingTwiceKeeps DEF Writing

-----------------------------------------------------------------------------
(* The history of a setup explains its state *)

\* The invariant of setups holds at the start.
LEMMA SetupsStart ==
    ASSUME SetupInit
    PROVE  SetupsInv
<1>1. /\ up = TRUE /\ market = << >> /\ rows = << >> /\ events = << >> /\ stored = 0
      /\ obs = Fresh /\ crashes = 0
  BY DEF SetupInit
<1>2. Len(Shapes) \in Nat
  BY ShapesAssumption
<1>3. Marketed
  BY <1>1, <1>2 DEF Marketed
<1>4. DOMAIN rows = {} /\ rows = [x \in {} |-> x] /\ events = [x \in {} |-> x]
  BY <1>1
<1>5. Tabled /\ Told /\ Unrecorded = {}
  BY <1>4, FS_EmptySet DEF Tabled, Told, Unrecorded
<1>6. obs = [last |-> 0, warmTo |-> 0, phase |-> "idle", left |-> {}, shown |-> {},
             writes |-> << >>, published |-> << >>]
  BY <1>1 DEF Fresh
<1>7. Observing
  <2>1. Memory(obs)
    BY <1>6 DEF Memory
  <2>2. Len(market) = 0
    BY <1>1
  <2> QED
    BY <1>1, <1>6, <2>1, <2>2 DEF Observing
<1>8. Writing /\ Current = {}
  BY <1>6 DEF Writing, Current
<1>9. Explained
  BY <1>1, <1>5, <1>8, FS_EmptySet DEF Explained
<1> QED
  BY <1>3, <1>5, <1>7, <1>8, <1>9 DEF SetupsInv

\* What the setups see of a step of the system.
LEMMA SetupSteps ==
    ASSUME [Next]_vars
    PROVE  \/ TakeBar \/ EvaluateOne \/ LookForNew \/ CreateOne \/ Commit
           \/ \E S : FinishBar(S) \/ HigherBar(S)
           \/ BarCloses \/ Crash \/ Restart \/ UNCHANGED setupVars
<1>1. CASE Observe
  BY <1>1 DEF Observe, ObserverNext
<1>2. CASE Publish
  BY <1>2 DEF Publish
<1>3. CASE \E S \in SUBSET DOMAIN pending : Due(S)
  BY <1>3 DEF Due
<1>4. CASE \E o \in DOMAIN batch : Post(o) \/ Patch(o) \/ NotFound(o)
  BY <1>4 DEF Post, Patch, NotFound
<1>5. CASE \E s \in sending : Record(s)
  BY <1>5 DEF Record
<1>6. CASE \E S \in (SUBSET DOMAIN batch) \ {{}} : SendFails(S)
  BY <1>6 DEF SendFails
<1>7. CASE \E m \in DOMAIN cards : DeleteCard(m)
  BY <1>7 DEF DeleteCard
<1>8. CASE Die
  BY <1>8 DEF Die
<1>9. CASE BarCloses \/ Restart
  BY <1>9
<1>10. CASE UNCHANGED vars
  BY <1>10 DEF vars
<1> QED
  BY <1>1, <1>2, <1>3, <1>4, <1>5, <1>6, <1>7, <1>8, <1>9, <1>10 DEF Next

\* It holds where nothing of the setups changes.
LEMMA SetupsStutter ==
    ASSUME SetupsInv, UNCHANGED setupVars
    PROVE  SetupsInv'
<1>1. UNCHANGED <<up, market, rows, events, stored, obs, crashes>>
  BY DEF setupVars
<1>2. Marketed' /\ Tabled' /\ Told' /\ Unrecorded' = Unrecorded
  BY <1>1, TablesKept
<1>3. Current' = Current /\ Explained'
  BY <1>1, <1>2 DEF SetupsInv, Explained, Current
<1>4. Observing'
  BY <1>1 DEF SetupsInv, Observing, Memory, Fresh
<1>5. Writing'
  <2>1. \A o, row : Inserting(o, row) => Inserting(o, row)'
    BY <1>1 DEF Inserting
  <2>2. \A o, row : NewRow(o, row) => NewRow(o, row)'
    BY <1>1 DEF NewRow
  <2>3. \A o, to : Untold(o, to) => Untold(o, to)'
    BY <1>1 DEF Untold
  <2>4. \A o, row : Moving(o, row) => Moving(o, row)'
    BY <1>1, <2>2, <2>3 DEF Moving
  <2>5. \A o, to : Telling(o, to) => Telling(o, to)'
    BY <1>1, <2>3 DEF Telling
  <2>6. \A o, to, row : TellingFirst(o, to, row) => TellingFirst(o, to, row)'
    BY <1>1, <2>2, <2>3 DEF TellingFirst
  <2>7. \A o, to, row : MovingTwice(o, to, row) => MovingTwice(o, to, row)'
    BY <1>1, <2>2, <2>3 DEF MovingTwice
  <2> QED
    BY <1>1, <2>1, <2>4, <2>5, <2>6, <2>7 DEF SetupsInv, Writing
<1> QED
  BY <1>2, <1>3, <1>4, <1>5 DEF SetupsInv

\* Every step of the whole keeps it.
LEMMA SetupsStep ==
    ASSUME SetupsInv, [Next]_vars
    PROVE  SetupsInv'
BY SetupSteps, TakeBarKeeps, EvaluateOneKeeps, LookForNewKeeps, CreateOneKeeps, CommitKeeps, FinishBarKeeps,
   HigherBarKeeps, BarClosesKeeps, CrashKeeps, RestartKeeps, SetupsStutter

\* It holds always.
LEMMA SetupsAlways == Spec => []SetupsInv
<1>1. Init => SetupsInv
  BY SetupsStart DEF Init
<1>2. SetupsInv /\ [Next]_vars => SetupsInv'
  BY SetupsStep
<1> QED
  BY <1>1, <1>2, PTL DEF Spec

\* "setup_events per transition" (README): apart from the one setup that is being written, at most
\* one per crash is in a state its last event does not say.
THEOREM HistoryExplains == Spec => []EventsMatchRows
<1>1. SetupsInv => EventsMatchRows
  <2> SUFFICES ASSUME SetupsInv
               PROVE  EventsMatchRows
    OBVIOUS
  <2>1. crashes \in Nat /\ IsFiniteSet(Unrecorded) /\ Cardinality(Unrecorded \ Current) <= crashes
    BY DEF SetupsInv, Explained
  <2>2. Cardinality(Unrecorded \ Current) \in Nat /\ Cardinality(Unrecorded) \in Nat
    BY <2>1, FS_CardinalityType, FS_Subset
  <2>3. CASE obs.writes = << >>
    <3>1. Unrecorded \ Current = Unrecorded
      BY <2>3 DEF Current
    <3>2. Cardinality(Unrecorded) <= crashes
      BY <2>1, <3>1
    <3> QED
      BY <2>1, <2>3, <3>2 DEF EventsMatchRows
  <2>4. CASE obs.writes # << >>
    <3>1. \E o : Current \subseteq {o}
      BY DEF Current
    <3>2. Cardinality(Unrecorded) <= Cardinality(Unrecorded \ Current) + 1
      BY <2>1, <3>1, LessOne
    <3> QED
      BY <2>1, <2>2, <2>4, <3>2 DEF EventsMatchRows
  <2> QED
    BY <2>3, <2>4
<1> QED
  BY <1>1, SetupsAlways, PTL

-----------------------------------------------------------------------------
(* A replay changes nothing *)

\* Bar b takes setup o nowhere (any more).
Quiet(o, b) == Evaluate(rows[o], b).path = << >>

\* How far the observer is: at most one bar past all those it was ever finished with.
Reached ==
    /\ finished \in Nat /\ finished <= Len(market)
    /\ obs.last <= finished + 1 /\ (obs.phase = "idle" => obs.last <= finished)

\* The bars done with take no setup anywhere, and what they detected is in the table, or another
\* setup stands for it.
Settled == \A o \in DOMAIN rows : \A b \in 1..finished : Quiet(o, b)
Kept == \A b \in 1..finished : Anew(b) \subseteq DOMAIN rows

\* Nothing is written for a bar that is analysed again.
Again ==
    obs.phase # "idle" /\ obs.last <= finished =>
        obs.writes = << >> /\ (obs.phase = "create" => obs.left \subseteq DOMAIN rows)

\* What was done of a bar that is new, is done as for those before.
Forward ==
    obs.phase # "idle" /\ obs.last = finished + 1 =>
        /\ \A o \in DOMAIN rows : o \in Current \/ (obs.phase = "lifecycle" /\ o \in obs.left) \/ Quiet(o, obs.last)
        /\ obs.phase = "create" => Anew(obs.last) \subseteq DOMAIN rows \union obs.left \union Current

ReplayInv == Reached /\ Settled /\ Kept /\ Again /\ Forward

\* Whether a bar leaves a setup alone depends on that row and bar.
LEMMA QuietKept ==
    ASSUME NEW o, NEW b, rows'[o] = rows[o], market'[b] = market[b]
    PROVE  Quiet(o, b)' <=> Quiet(o, b)
BY DEF Quiet, Evaluate

\* A bar leaves an ended setup alone, and one that was changed on that bar or later.
LEMMA DoneIsQuiet ==
    ASSUME SetupsInv, NEW o \in DOMAIN rows, NEW b \in Int,
           rows[o].state \in Terminal \/ b <= rows[o].updated
    PROVE  Quiet(o, b)
BY DEF Quiet, Evaluate

\* Whether a bar makes a setup depends on the table and that bar.
LEMMA AnewKept ==
    ASSUME NEW b, rows' = rows, market'[b] = market[b]
    PROVE  Anew(b)' = Anew(b)
BY DEF Anew, OpenAt

\* Steps that leave the tables and the market alone.
LEMMA DoneKept ==
    ASSUME ReplayInv, UNCHANGED <<market, rows, finished>>
    PROVE  /\ Settled' /\ Kept'
           /\ \A b : Anew(b)' = Anew(b)
           /\ \A o, b : Quiet(o, b)' <=> Quiet(o, b)
<1>1. \A b : Anew(b)' = Anew(b)
  BY AnewKept
<1>2. \A o, b : Quiet(o, b)' <=> Quiet(o, b)
  BY QuietKept
<1> QED
  BY <1>1, <1>2 DEF ReplayInv, Settled, Kept

\* The observer is in the bars, at most one past those it finished.
LEMMA LastIs ==
    ASSUME SetupsInv, ReplayInv
    PROVE  /\ obs.last \in Nat /\ finished \in Nat /\ Len(market) \in Nat
           /\ obs.last <= Len(market) /\ finished <= Len(market) /\ obs.last <= finished + 1
           /\ obs.phase # "idle" => obs.last >= 1
BY MarketIs DEF SetupsInv, Observing, ReplayInv, Reached

\* Taking a bar, seen before or new, keeps the invariant of replay.
LEMMA TakeBarReplays ==
    ASSUME SetupsInv, ReplayInv, TakeBar
    PROVE  ReplayInv'
<1> DEFINE b == obs.last + 1
<1>1. /\ obs.phase = "idle" /\ UNCHANGED <<market, rows, finished>>
      /\ obs' = [obs EXCEPT !.last = b, !.phase = "lifecycle", !.left = OpenFor(b), !.shown = OpenFor(b)]
  BY DEF TakeBar
<1>2. /\ obs'.last = b /\ obs'.phase = "lifecycle" /\ obs'.left = OpenFor(b) /\ obs'.writes = obs.writes
  BY <1>1 DEF SetupsInv, Observing, Memory
<1>3. obs.writes = << >> /\ obs.last <= finished /\ obs.last \in Nat /\ finished \in Nat
  BY <1>1, IdleWrites, LastIs DEF ReplayInv, Reached
<1>4. Settled' /\ Kept' /\ \A o, c : Quiet(o, c)' <=> Quiet(o, c)
  BY <1>1, DoneKept
<1>5. Reached'
  BY <1>1, <1>2, <1>3, LastIs DEF ReplayInv, Reached
<1>6. Again'
  BY <1>2, <1>3 DEF Again
<1>7. \A o \in DOMAIN rows : o \in OpenFor(b) \/ Quiet(o, b)
  <2>1. SUFFICES ASSUME NEW o \in DOMAIN rows, o \notin OpenFor(b)
                 PROVE  Quiet(o, b)
    OBVIOUS
  <2>2. rows[o].updated \in Int
    BY RowOf, RowFields, MarketIs DEF SetupsInv
  <2>3. rows[o].state \in Terminal \/ b <= rows[o].updated
    BY <1>3, <2>1, <2>2 DEF OpenFor, Open
  <2> QED
    BY <1>3, <2>3, DoneIsQuiet
<1>8. Forward'
  BY <1>1, <1>2, <1>4, <1>7 DEF Forward
<1> QED
  BY <1>4, <1>5, <1>6, <1>8 DEF ReplayInv

\* So does evaluating a setup.
LEMMA EvaluateOneReplays ==
    ASSUME SetupsInv, ReplayInv, EvaluateOne
    PROVE  ReplayInv'
<1>1. /\ obs.phase = "lifecycle" /\ obs.writes = << >> /\ UNCHANGED <<market, rows, finished>>
  BY DEF EvaluateOne
<1>2. PICK o, r :
         /\ o \in obs.left /\ o \in DOMAIN rows /\ r = Evaluate(rows[o], obs.last) /\ obs.last \in 1..Len(market)
         /\ obs' = [last |-> obs.last, warmTo |-> obs.warmTo, phase |-> "lifecycle", left |-> obs.left \ {o},
                    shown |-> obs.shown, writes |-> Laid(o, r), published |-> obs.published]
         /\ \/ r.path = << >>
            \/ r.row.state \in States /\ r.path = <<r.row.state>>
            \/ r.row.state \in States /\ \E to \in States : r.path = <<to, r.row.state>>
  <2>1. \A row \in Rows : row.state \in States
    BY DEF Rows
  <2> QED
    BY <2>1, Evaluating
<1>3. Settled' /\ Kept' /\ \A x, c : Quiet(x, c)' <=> Quiet(x, c)
  BY <1>1, DoneKept
<1>4. Reached'
  BY <1>1, <1>2 DEF ReplayInv, Reached
<1>5. Quiet(o, obs.last) <=> r.path = << >>
  BY <1>2 DEF Quiet
<1>6. r.path = << >> => obs'.writes = << >>
  BY <1>2, LaidOut
<1>7. r.path # << >> => o \in Current'
  <2>1. SUFFICES ASSUME r.path # << >>
                 PROVE  obs'.writes # << >> /\ Head(obs'.writes).setup = o
    BY DEF Current
  <2>2. CASE r.row.state \in States /\ r.path = <<r.row.state>>
    <3>1. obs'.writes = <<Move(o, r.row), Tell(o, r.row.state)>>
      BY <1>2, <2>2, LaidOut
    <3> QED
      BY <3>1 DEF Move
  <2>3. CASE r.row.state \in States /\ \E to \in States : r.path = <<to, r.row.state>>
    <3>1. PICK to \in States : r.path = <<to, r.row.state>>
      BY <2>3
    <3>2. obs'.writes = <<Move(o, r.row), Tell(o, to), Move(o, r.row), Tell(o, r.row.state)>>
      BY <1>2, <2>3, <3>1, LaidOut
    <3> QED
      BY <3>2 DEF Move
  <2> QED
    BY <1>2, <2>1, <2>2, <2>3
<1>8. Again'
  <2>1. SUFFICES ASSUME obs.last <= finished
                 PROVE  obs'.writes = << >>
    BY <1>1, <1>2 DEF Again
  <2>2. Quiet(o, obs.last)
    BY <1>2, <2>1, LastIs DEF ReplayInv, Settled
  <2> QED
    BY <1>5, <1>6, <2>2
<1>9. Forward'
  <2>1. SUFFICES ASSUME obs.last = finished + 1, NEW x \in DOMAIN rows
                 PROVE  x \in Current' \/ x \in obs.left \ {o} \/ Quiet(x, obs.last)
    BY <1>1, <1>2, <1>3 DEF Forward
  <2>2. CASE x = o
    BY <1>5, <1>7, <2>2
  <2>3. CASE x # o
    <3>1. x \in obs.left \/ Quiet(x, obs.last)
      BY <1>1, <2>1 DEF ReplayInv, Forward, Current
    <3> QED
      BY <2>3, <3>1
  <2> QED
    BY <2>2, <2>3
<1> QED
  BY <1>3, <1>4, <1>8, <1>9 DEF ReplayInv

\* So does looking for new ones.
LEMMA LookForNewReplays ==
    ASSUME SetupsInv, ReplayInv, LookForNew
    PROVE  ReplayInv'
<1>1. /\ obs.phase = "lifecycle" /\ obs.writes = << >> /\ obs.left = {} /\ UNCHANGED <<market, rows, finished>>
      /\ obs' = [obs EXCEPT !.phase = "create", !.left = Anew(obs.last)]
  BY DEF LookForNew
<1>2. /\ obs'.last = obs.last /\ obs'.phase = "create" /\ obs'.left = Anew(obs.last) /\ obs'.writes = << >>
  BY <1>1 DEF SetupsInv, Observing, Memory
<1>3. Settled' /\ Kept' /\ (\A c : Anew(c)' = Anew(c)) /\ (\A x, c : Quiet(x, c)' <=> Quiet(x, c))
  BY <1>1, DoneKept
<1>4. Reached'
  BY <1>1, <1>2 DEF ReplayInv, Reached
<1>5. obs.last <= finished => Anew(obs.last) \subseteq DOMAIN rows
  BY <1>1, LastIs DEF ReplayInv, Kept
<1>6. Again'
  BY <1>1, <1>2, <1>5 DEF Again
<1>7. Forward'
  <2>1. obs.last = finished + 1 => \A o \in DOMAIN rows : Quiet(o, obs.last)
    BY <1>1 DEF ReplayInv, Forward, Current
  <2>2. Anew(obs.last)' = Anew(obs.last)
    BY <1>1, <1>2, <1>3 DEF Anew, OpenAt
  <2> QED
    BY <1>1, <1>2, <1>3, <2>1, <2>2 DEF Forward
<1> QED
  BY <1>3, <1>4, <1>6, <1>7 DEF ReplayInv

\* So does creating one, which only a new bar does.
LEMMA CreateOneReplays ==
    ASSUME SetupsInv, ReplayInv, CreateOne
    PROVE  ReplayInv'
<1>1. /\ obs.phase = "create" /\ obs.writes = << >> /\ obs.left # {} /\ UNCHANGED <<market, rows, finished>>
  BY DEF CreateOne
<1>2. obs.left \subseteq Origins
  BY <1>1 DEF SetupsInv, Observing
<1>3. PICK o \in obs.left : o = First(obs.left)
  BY <1>1, <1>2, FirstIs DEF SetupsInv
<1>4. /\ obs'.last = obs.last /\ obs'.phase = "create" /\ obs'.left = obs.left \ {o}
      /\ obs'.writes = IF o \notin DOMAIN rows THEN <<Insert(o, Created(obs.last)), Tell(o, "WATCH")>> ELSE << >>
  BY <1>1, <1>3 DEF CreateOne, SetupsInv, Observing, Memory, Insert, Tell
<1>5. Settled' /\ Kept' /\ (\A c : Anew(c)' = Anew(c)) /\ (\A x, c : Quiet(x, c)' <=> Quiet(x, c))
  BY <1>1, DoneKept
<1>6. Reached'
  BY <1>1, <1>4 DEF ReplayInv, Reached
<1>7. Again'
  <2>1. obs.last <= finished => obs.left \subseteq DOMAIN rows
    BY <1>1 DEF ReplayInv, Again
  <2> QED
    BY <1>1, <1>4, <2>1 DEF Again
<1>8. o \notin DOMAIN rows => o \in Current'
  <2>1. SUFFICES ASSUME o \notin DOMAIN rows
                 PROVE  obs'.writes # << >> /\ Head(obs'.writes).setup = o
    BY DEF Current
  <2>2. obs'.writes = <<Insert(o, Created(obs.last)), Tell(o, "WATCH")>>
    BY <1>4, <2>1
  <2> QED
    BY <2>2 DEF Insert
<1>9. Forward'
  <2>1. SUFFICES ASSUME obs.last = finished + 1
                 PROVE  /\ \A x \in DOMAIN rows : Quiet(x, obs.last)
                        /\ Anew(obs.last) \subseteq DOMAIN rows \union (obs.left \ {o}) \union Current'
    <3>1. Anew(obs.last)' = Anew(obs.last)
      BY <1>1, <1>4 DEF Anew, OpenAt
    <3> QED
      BY <1>1, <1>4, <1>5, <3>1 DEF Forward
  <2>2. /\ \A x \in DOMAIN rows : Quiet(x, obs.last)
        /\ Anew(obs.last) \subseteq DOMAIN rows \union obs.left
    BY <1>1, <2>1 DEF ReplayInv, Forward, Current
  <2> QED
    BY <1>8, <2>2
<1> QED
  BY <1>5, <1>6, <1>7, <1>9 DEF ReplayInv

\* A transaction is about one setup, which was last changed on the present bar when it is done.
LEMMA OneIsWritten ==
    ASSUME SetupsInv, Commit
    PROVE  \E o : /\ Current = {o} /\ o \in DOMAIN rows' /\ DOMAIN rows' = DOMAIN rows \union {o}
                  /\ \A x \in DOMAIN rows : x # o => rows'[x] = rows[x]
                  /\ rows'[o].updated = obs.last
                  /\ o \in DOMAIN rows => rows'[o].created = rows[o].created
<1>1. obs.writes # << >> /\ Writing
  BY Committing DEF SetupsInv
<1>2. ASSUME NEW o, NEW row, Inserting(o, row)
      PROVE  /\ Current = {o} /\ o \in DOMAIN rows' /\ DOMAIN rows' = DOMAIN rows \union {o}
             /\ \A x \in DOMAIN rows : x # o => rows'[x] = rows[x]
             /\ rows'[o].updated = obs.last /\ (o \in DOMAIN rows => rows'[o].created = rows[o].created)
  <2>1. /\ obs.writes = <<Insert(o, row), Tell(o, "WATCH")>> /\ o \notin DOMAIN rows
        /\ row.updated = obs.last
    BY <1>2 DEF Inserting
  <2>2. Head(obs.writes) = Insert(o, row)
    BY <2>1
  <2>3. Current = {o} /\ rows' = Put(rows, o, row)
    BY <1>1, <2>2 DEF Current, Insert, Commit
  <2>4. DOMAIN rows' = DOMAIN rows \union {o} /\ rows'[o] = row
        /\ \A x \in DOMAIN rows : x # o => rows'[x] = rows[x]
    BY <2>3 DEF Put
  <2> QED
    BY <2>1, <2>3, <2>4
<1>3. ASSUME NEW o, NEW row, Head(obs.writes) = Move(o, row), o \in DOMAIN rows, NewRow(o, row)
      PROVE  /\ Current = {o} /\ o \in DOMAIN rows' /\ DOMAIN rows' = DOMAIN rows \union {o}
             /\ \A x \in DOMAIN rows : x # o => rows'[x] = rows[x]
             /\ rows'[o].updated = obs.last /\ (o \in DOMAIN rows => rows'[o].created = rows[o].created)
  <2>1. /\ DOMAIN rows' = DOMAIN rows /\ rows'[o] = row /\ Current = {o}
        /\ \A x \in DOMAIN rows' : x # o => x \in DOMAIN rows /\ rows'[x] = rows[x] /\ events'[x] = events[x]
    BY <1>1, <1>3, HeadMove
  <2>2. row.updated = obs.last /\ row.created = rows[o].created
    BY <1>3 DEF NewRow
  <2> QED
    BY <1>3, <2>1, <2>2
<1>4. ASSUME NEW o, NEW to, Head(obs.writes) = Tell(o, to), o \in DOMAIN rows, rows[o].updated = obs.last
      PROVE  /\ Current = {o} /\ o \in DOMAIN rows' /\ DOMAIN rows' = DOMAIN rows \union {o}
             /\ \A x \in DOMAIN rows : x # o => rows'[x] = rows[x]
             /\ rows'[o].updated = obs.last /\ (o \in DOMAIN rows => rows'[o].created = rows[o].created)
  <2>1. rows' = rows /\ Current = {o}
    BY <1>1, <1>4, HeadTell
  <2> QED
    BY <1>4, <2>1
<1>5. \A o, row : Moving(o, row) => Head(obs.writes) = Move(o, row) /\ o \in DOMAIN rows /\ NewRow(o, row)
  BY DEF Moving
<1>6. \A o, to, row : MovingTwice(o, to, row) => Head(obs.writes) = Move(o, row) /\ o \in DOMAIN rows /\ NewRow(o, row)
  BY DEF MovingTwice
<1>7. \A o, to : Telling(o, to) => Head(obs.writes) = Tell(o, to) /\ o \in DOMAIN rows /\ rows[o].updated = obs.last
  BY DEF Telling
<1>8. \A o, to, row : TellingFirst(o, to, row) =>
                          Head(obs.writes) = Tell(o, to) /\ o \in DOMAIN rows /\ rows[o].updated = obs.last
  BY DEF TellingFirst
<1>9. \/ \E o, row : Inserting(o, row)
      \/ \E o, row : Head(obs.writes) = Move(o, row) /\ o \in DOMAIN rows /\ NewRow(o, row)
      \/ \E o, to : Head(obs.writes) = Tell(o, to) /\ o \in DOMAIN rows /\ rows[o].updated = obs.last
  <2>1. \/ \E o, row : Inserting(o, row) \/ Moving(o, row)
        \/ \E o, to : Telling(o, to)
        \/ \E o, to, row : TellingFirst(o, to, row) \/ MovingTwice(o, to, row)
    BY <1>1 DEF Writing
  <2> QED
    BY <1>5, <1>6, <1>7, <1>8, <2>1
<1> QED
  BY <1>2, <1>3, <1>4, <1>9

\* So does a transaction.
LEMMA CommitReplays ==
    ASSUME SetupsInv, ReplayInv, Commit
    PROVE  ReplayInv'
<1>1. /\ obs.writes # << >> /\ market' = market /\ finished' = finished
      /\ obs'.last = obs.last /\ obs'.phase = obs.phase /\ obs'.left = obs.left
  BY Committing
<1>2. obs.phase # "idle" /\ obs.last = finished + 1
  BY <1>1, IdleWrites, LastIs DEF ReplayInv, Again
<1>3. PICK o : /\ Current = {o} /\ o \in DOMAIN rows' /\ DOMAIN rows' = DOMAIN rows \union {o}
               /\ \A x \in DOMAIN rows : x # o => rows'[x] = rows[x]
               /\ rows'[o].updated = obs.last
               /\ o \in DOMAIN rows => rows'[o].created = rows[o].created
  BY OneIsWritten
<1>4. SetupsInv'
  BY CommitKeeps
<1>5. obs.last \in Nat /\ finished \in Nat /\ Len(market) \in Nat
  BY LastIs
<1>6. \A b \in 1..obs.last : Quiet(o, b)'
  BY <1>3, <1>5 DEF Quiet, Evaluate
<1>7. \A x \in DOMAIN rows : \A b \in 1..obs.last : x # o /\ Quiet(x, b) => Quiet(x, b)'
  BY <1>1, <1>3, QuietKept
<1>8. Settled'
  <2>1. SUFFICES ASSUME NEW x \in DOMAIN rows', NEW b \in 1..finished
                 PROVE  Quiet(x, b)'
    BY <1>1 DEF Settled
  <2>2. b \in 1..obs.last
    BY <1>2, <1>5
  <2>3. CASE x = o
    BY <1>6, <2>2, <2>3
  <2>4. CASE x # o
    BY <1>3, <1>7, <2>2, <2>4 DEF ReplayInv, Settled
  <2> QED
    BY <2>3, <2>4
\* Setups open at a bar stay open at it, whatever becomes of them on a later one.
<1>9. \A b \in 1..obs.last : Anew(b)' \subseteq Anew(b)
  <2>1. SUFFICES ASSUME NEW b \in 1..obs.last, NEW x \in OpenAt(b)
                 PROVE  x \in OpenAt(b)'
    BY <1>1 DEF Anew
  <2>2. x \in DOMAIN rows /\ rows[x].created <= b /\ (rows[x].state \notin Terminal \/ rows[x].updated >= b)
    BY DEF OpenAt
  <2>3. CASE x = o
    <3>1. rows'[o].updated >= b
      BY <1>3, <1>5
    <3> QED
      BY <1>3, <2>2, <2>3, <3>1 DEF OpenAt
  <2>4. CASE x # o
    BY <1>3, <2>2, <2>4 DEF OpenAt
  <2> QED
    BY <2>3, <2>4
<1>10. Kept'
  <2>1. SUFFICES ASSUME NEW b \in 1..finished
                 PROVE  Anew(b)' \subseteq DOMAIN rows'
    BY <1>1 DEF Kept
  <2>2. b \in 1..obs.last
    BY <1>2, <1>5
  <2> QED
    BY <1>3, <1>9, <2>2 DEF ReplayInv, Kept
<1>11. Reached'
  BY <1>1 DEF ReplayInv, Reached
<1>12. Again'
  BY <1>1, <1>2, <1>5 DEF Again
<1>13. Forward'
  <2>1. \A x \in DOMAIN rows' : x \in Current' \/ (obs.phase = "lifecycle" /\ x \in obs.left) \/ Quiet(x, obs.last)'
    <3>1. SUFFICES ASSUME NEW x \in DOMAIN rows'
                   PROVE  (obs.phase = "lifecycle" /\ x \in obs.left) \/ Quiet(x, obs.last)'
      OBVIOUS
    <3>2. obs.last \in 1..obs.last
      BY <1>2, <1>5
    <3>3. PICK b : b = obs.last
      OBVIOUS
    <3>4. Quiet(x, b)' <=> Quiet(x, obs.last)'
      BY <1>1, <3>3 DEF Quiet
    <3>5. CASE x = o
      BY <1>6, <3>2, <3>3, <3>4, <3>5
    <3>6. CASE x # o
      <4>1. x \in DOMAIN rows
        BY <1>3, <3>6
      <4>2. (obs.phase = "lifecycle" /\ x \in obs.left) \/ Quiet(x, b)
        BY <1>2, <1>3, <3>3, <3>6, <4>1 DEF ReplayInv, Forward
      <4> QED
        BY <1>7, <3>2, <3>3, <3>4, <3>6, <4>1, <4>2
    <3> QED
      BY <3>5, <3>6
  <2>2. obs.phase = "create" => Anew(obs.last)' \subseteq DOMAIN rows' \union obs.left
    <3>1. PICK b : b = obs.last
      OBVIOUS
    <3>2. Anew(b)' = Anew(obs.last)' /\ b \in 1..obs.last
      BY <1>1, <1>2, <1>5, <3>1 DEF Anew, OpenAt
    <3>3. obs.phase = "create" => Anew(b) \subseteq DOMAIN rows \union obs.left \union {o}
      BY <1>2, <1>3, <3>1 DEF ReplayInv, Forward
    <3> QED
      BY <1>3, <1>9, <3>2, <3>3
  <2> QED
    BY <1>1, <2>1, <2>2 DEF Forward
<1> QED
  BY <1>8, <1>10, <1>11, <1>12, <1>13 DEF ReplayInv

\* Between two bars nothing is under way.
LEMMA IdleReplays ==
    ASSUME ReplayInv, obs'.phase = "idle", Reached', Settled', Kept'
    PROVE  ReplayInv'
BY DEF ReplayInv, Again, Forward

\* So does the end of a bar, which settles it.
LEMMA FinishBarReplays ==
    ASSUME SetupsInv, ReplayInv, NEW S, FinishBar(S)
    PROVE  ReplayInv'
<1>1. /\ obs.phase = "create" /\ obs.writes = << >> /\ obs.left = {} /\ UNCHANGED <<market, rows>>
      /\ obs' = [obs EXCEPT !.phase = "idle", !.shown = {}, !.published = Published(S)]
      /\ finished' = IF obs.last > finished THEN obs.last ELSE finished
  BY DEF FinishBar
<1>2. obs'.phase = "idle" /\ obs'.last = obs.last
  BY <1>1 DEF SetupsInv, Observing, Memory
<1>3. /\ obs.last \in Nat /\ finished \in Nat /\ Len(market) \in Nat /\ obs.last <= finished + 1
      /\ obs.last <= Len(market) /\ finished <= Len(market)
  BY LastIs
<1>4. Reached'
  BY <1>1, <1>2, <1>3 DEF Reached
<1>5. /\ \A b : Anew(b)' = Anew(b)
      /\ \A o, b : Quiet(o, b)' <=> Quiet(o, b)
  BY <1>1, AnewKept, QuietKept
<1>6. ASSUME NEW b \in 1..finished'
      PROVE  b \in 1..finished \/ (b = obs.last /\ obs.last = finished + 1)
  BY <1>1, <1>3
<1>7. obs.last = finished + 1 => /\ \A o \in DOMAIN rows : Quiet(o, obs.last)
                                 /\ Anew(obs.last) \subseteq DOMAIN rows
  BY <1>1 DEF ReplayInv, Forward, Current
<1>8. Settled'
  BY <1>1, <1>5, <1>6, <1>7 DEF ReplayInv, Settled
<1>9. Kept'
  BY <1>1, <1>5, <1>6, <1>7 DEF ReplayInv, Kept
<1> QED
  BY <1>2, <1>4, <1>8, <1>9, IdleReplays

\* So does a bar of a higher timeframe.
LEMMA HigherBarReplays ==
    ASSUME SetupsInv, ReplayInv, NEW S, HigherBar(S)
    PROVE  ReplayInv'
<1>1. /\ obs.phase = "idle" /\ UNCHANGED <<market, rows, finished>>
      /\ obs' = [obs EXCEPT !.published = Published(S)]
  BY DEF HigherBar, Live
<1>2. obs'.phase = "idle" /\ obs'.last = obs.last
  BY <1>1 DEF SetupsInv, Observing, Memory
<1>3. Settled' /\ Kept'
  BY <1>1, DoneKept
<1>4. Reached'
  BY <1>1, <1>2 DEF ReplayInv, Reached
<1> QED
  BY <1>2, <1>3, <1>4, IdleReplays

\* So do a crash and a restart: the tables stay.
LEMMA CrashReplays ==
    ASSUME SetupsInv, ReplayInv, Crash \/ Restart
    PROVE  ReplayInv'
<1>1. UNCHANGED <<market, rows, finished>>
  BY DEF Crash, Restart
<1>2. obs'.phase = "idle" /\ obs'.last = 0
  <2>1. CASE Crash
    BY <2>1 DEF Crash, Fresh
  <2>2. CASE Restart
    <3>1. obs = Fresh
      BY <2>2 DEF SetupsInv, Observing, Restart
    <3>2. PICK w \in stored..Len(market) : obs' = [obs EXCEPT !.warmTo = w]
      BY <2>2 DEF Restart
    <3> QED
      BY <3>1, <3>2 DEF Fresh
  <2> QED
    BY <2>1, <2>2
<1>3. Settled' /\ Kept'
  BY <1>1, DoneKept
<1>4. Reached'
  BY <1>1, <1>2 DEF ReplayInv, Reached
<1> QED
  BY <1>2, <1>3, <1>4, IdleReplays

\* So does the close of a bar.
LEMMA BarClosesReplays ==
    ASSUME SetupsInv, ReplayInv, BarCloses
    PROVE  ReplayInv'
<1>1. PICK shape \in Shapes[Len(market) + 1] : market' = Append(market, shape)
  BY DEF BarCloses
<1>2. Len(market) < Len(Shapes) /\ obs.phase = "idle" /\ UNCHANGED <<rows, obs, finished>>
  BY DEF BarCloses
<1>3. market \in Seq(Shape) /\ shape \in Shape
  <2>1. Shapes \in Seq(SUBSET Shape) /\ market \in Seq(Shape) /\ Len(market) \in Nat /\ Len(Shapes) \in Nat
    BY MarketIs, ShapesAssumption DEF SetupsInv, Marketed, Shape
  <2> QED
    BY <1>1, <1>2, <2>1
<1>4. Len(market') = Len(market) + 1 /\ \A b \in 1..Len(market) : market'[b] = market[b]
  BY <1>1, <1>3
<1>5. finished \in Nat /\ Len(market) \in Nat /\ finished <= Len(market)
  BY LastIs
<1>6. \A b \in 1..finished : market'[b] = market[b]
  BY <1>4, <1>5
<1>7. \A b \in 1..finished : Anew(b)' = Anew(b)
  BY <1>2, <1>6, AnewKept
<1>8. \A o : \A b \in 1..finished : Quiet(o, b)' <=> Quiet(o, b)
  BY <1>2, <1>6, QuietKept
<1>9. Settled' /\ Kept'
  BY <1>2, <1>7, <1>8 DEF ReplayInv, Settled, Kept
<1>10. Reached'
  BY <1>2, <1>4, <1>5 DEF ReplayInv, Reached
<1> QED
  BY <1>2, <1>9, <1>10, IdleReplays

\* So does what does not touch the setups.
LEMMA StutterReplays ==
    ASSUME ReplayInv, UNCHANGED setupVars
    PROVE  ReplayInv'
<1>1. UNCHANGED <<market, rows, obs, finished>>
  BY DEF setupVars
<1>2. Settled' /\ Kept' /\ (\A c : Anew(c)' = Anew(c)) /\ (\A x, c : Quiet(x, c)' <=> Quiet(x, c))
  BY <1>1, DoneKept
<1>3. Reached' /\ Again' /\ Current' = Current
  BY <1>1 DEF ReplayInv, Reached, Again, Current
<1>4. Forward'
  <2>1. Anew(obs.last)' = Anew(obs.last)
    BY <1>1 DEF Anew, OpenAt
  <2>2. \A x : Quiet(x, obs.last)' <=> Quiet(x, obs.last)
    BY <1>1 DEF Quiet, Evaluate
  <2> QED
    BY <1>1, <1>3, <2>1, <2>2 DEF ReplayInv, Forward
<1> QED
  BY <1>2, <1>3, <1>4 DEF ReplayInv

\* Every step of the whole keeps the invariant of replay.
LEMMA ReplayStep ==
    ASSUME SetupsInv, ReplayInv, [Next]_vars
    PROVE  ReplayInv'
BY SetupSteps, TakeBarReplays, EvaluateOneReplays, LookForNewReplays, CreateOneReplays, CommitReplays,
   FinishBarReplays, HigherBarReplays, CrashReplays, BarClosesReplays, StutterReplays

\* It holds at the start.
LEMMA ReplayStart ==
    ASSUME SetupInit
    PROVE  ReplayInv
<1>1. market = << >> /\ rows = << >> /\ obs = Fresh /\ finished = 0
  BY DEF SetupInit
<1>2. obs.last = 0 /\ obs.phase = "idle" /\ Len(market) = 0
  BY <1>1 DEF Fresh
<1>3. \A b \in 1..finished : FALSE
  BY <1>1
<1> QED
  BY <1>1, <1>2, <1>3 DEF ReplayInv, Reached, Settled, Kept, Again, Forward

\* Only a transaction touches the tables, and there is none on a bar that was finished before.
LEMMA ReplayWritesNothing ==
    ASSUME SetupsInv, ReplayInv, [Next]_vars, obs.phase # "idle", obs.last <= finished
    PROVE  UNCHANGED <<rows, events>>
<1>1. ~Commit
  BY Committing DEF ReplayInv, Again
<1>2. TakeBar \/ EvaluateOne \/ LookForNew \/ CreateOne => UNCHANGED <<rows, events>>
  BY DEF TakeBar, EvaluateOne, LookForNew, CreateOne
<1>3. \A S : FinishBar(S) \/ HigherBar(S) => UNCHANGED <<rows, events>>
  BY DEF FinishBar, HigherBar
<1>4. BarCloses \/ Crash \/ Restart \/ UNCHANGED setupVars => UNCHANGED <<rows, events>>
  BY DEF BarCloses, Crash, Restart, setupVars
<1> QED
  BY <1>1, <1>2, <1>3, <1>4, SetupSteps

\* "Replaying the same history into the same SQLite file changes nothing" (README): on a bar that
\* on_closed_candle has once returned from, no step of the observer writes a setup or an event,
\* however often it crashed and whatever happened to the setups on later bars.
THEOREM ReplayIsIdempotent == Spec => ReplayChangesNothing
<1>1. Init => SetupsInv /\ ReplayInv
  BY SetupsStart, ReplayStart DEF Init
<1>2. SetupsInv /\ ReplayInv /\ [Next]_vars => (SetupsInv /\ ReplayInv)'
  BY SetupsStep, ReplayStep
<1>3. SetupsInv /\ ReplayInv /\ [Next]_vars =>
         [obs.phase # "idle" /\ obs.last <= finished => UNCHANGED <<rows, events>>]_setupVars
  BY ReplayWritesNothing
<1> QED
  BY <1>1, <1>2, <1>3, PTL DEF Spec, ReplayChangesNothing

-----------------------------------------------------------------------------
(* One card each *)

Views == [state : States, event : Nat]
Card == [setup : Origins, view : Views, deleted : BOOLEAN]

\* Views by setup, of setups in the table.
Viewed(f) == DOMAIN f \subseteq DOMAIN rows /\ f \in [DOMAIN f -> Views]

Posted == cards \in Seq(Card) /\ \A m \in DOMAIN cards : cards[m].setup \in DOMAIN rows

\* A reference is to a card of its setup.
Referred ==
    /\ DOMAIN refs \subseteq DOMAIN rows
    /\ \A o \in DOMAIN refs : refs[o].message \in DOMAIN cards /\ cards[refs[o].message].setup = o

\* What is sent is the view of a setup in the batch, to the card of the setup if it has one.
Sent ==
    /\ \A s \in sending : /\ s.setup \in DOMAIN batch /\ s.message \in DOMAIN cards
                          /\ cards[s.message].setup = s.setup
                          /\ s.setup \in DOMAIN refs => refs[s.setup].message = s.message
    /\ \A s, t \in sending : s = t

\* The standing cards the tables will never know of: neither referred to nor about to be.
Known(m) == \/ \E s \in sending : s.message = m
            \/ cards[m].setup \in DOMAIN refs /\ refs[cards[m].setup].message = m
Orphans == {m \in Standing : ~Known(m)}

Orphaned == crashes \in Nat /\ IsFiniteSet(Orphans) /\ Cardinality(Orphans) <= crashes

CardsInv == Viewed(pending) /\ Viewed(rendered) /\ Viewed(batch) /\ Posted /\ Referred /\ Sent /\ Orphaned

\* What is published of a stored setup is a view.
LEMMA ViewIs ==
    ASSUME SetupsInv, NEW o \in DOMAIN rows
    PROVE  View(o) \in Views
<1>1. rows[o].state \in States
  BY RowOf, RowFields
<1>2. Len(events[o]) \in Nat
  BY RowOf
<1> QED
  BY <1>1, <1>2 DEF View, Views

\* What is left of a function on a part of its domain.
LEMMA RestrictIs ==
    ASSUME NEW f, NEW S \in SUBSET DOMAIN f
    PROVE  /\ DOMAIN Restrict(f, S) = S
           /\ \A x \in S : Restrict(f, S)[x] = f[x]
           /\ Viewed(f) => Viewed(Restrict(f, S))
BY DEF Restrict, Viewed

\* Fewer orphans are no more than the crashes either.
LEMMA FewerOrphans ==
    ASSUME Orphaned, Orphans' \subseteq Orphans, crashes' = crashes
    PROVE  Orphaned'
<1>1. IsFiniteSet(Orphans') /\ Cardinality(Orphans') <= Cardinality(Orphans)
      /\ Cardinality(Orphans') \in Nat /\ Cardinality(Orphans) \in Nat
  BY FS_Subset, FS_CardinalityType DEF Orphaned
<1> QED
  BY <1>1 DEF Orphaned

\* Steps of the observer, which only grow the table of setups.
LEMMA RowsGrow ==
    ASSUME SetupsInv, [Next]_vars
    PROVE  DOMAIN rows \subseteq DOMAIN rows'
<1>1. CASE Commit
  BY <1>1, OneIsWritten
<1>2. CASE TakeBar \/ EvaluateOne \/ LookForNew \/ CreateOne
  BY <1>2 DEF TakeBar, EvaluateOne, LookForNew, CreateOne
<1>3. \A S : FinishBar(S) \/ HigherBar(S) => rows' = rows
  BY DEF FinishBar, HigherBar
<1>4. BarCloses \/ Crash \/ Restart \/ UNCHANGED setupVars => rows' = rows
  BY DEF BarCloses, Crash, Restart, setupVars
<1> QED
  BY <1>1, <1>2, <1>3, <1>4, SetupSteps

\* The channel and the references stay: so do the orphans.
LEMMA ChannelKept ==
    ASSUME CardsInv, UNCHANGED <<refs, cards, sending, crashes>>, DOMAIN rows \subseteq DOMAIN rows'
    PROVE  Posted' /\ Referred' /\ Orphaned' /\ (DOMAIN batch \subseteq DOMAIN batch' => Sent')
<1>1. Posted' /\ Referred'
  BY DEF CardsInv, Posted, Referred
<1>2. Orphans' = Orphans
  BY DEF Orphans, Known, Standing
<1>3. Orphaned'
  BY <1>2, FewerOrphans DEF CardsInv
<1>4. DOMAIN batch \subseteq DOMAIN batch' => Sent'
  BY DEF CardsInv, Sent
<1> QED
  BY <1>1, <1>3, <1>4

\* Steps of the setups keep the invariant of cards.
LEMMA CardsStutter ==
    ASSUME CardsInv, UNCHANGED cardVars, crashes' = crashes, DOMAIN rows \subseteq DOMAIN rows'
    PROVE  CardsInv'
<1>1. Posted' /\ Referred' /\ Orphaned' /\ Sent'
  BY ChannelKept DEF cardVars
<1>2. Viewed(pending)' /\ Viewed(rendered)' /\ Viewed(batch)'
  BY DEF cardVars, CardsInv, Viewed
<1> QED
  BY <1>1, <1>2 DEF CardsInv

\* So does publishing a view.
LEMMA PublishKeeps ==
    ASSUME SetupsInv, CardsInv, Publish
    PROVE  CardsInv'
<1>1. PICK S \in SUBSET DOMAIN rows : (FinishBar(S) \/ HigherBar(S)) /\ pending' = Offer(S)
  BY DEF Publish
<1>2. UNCHANGED <<rendered, batch, sending, refs, cards, rows, crashes>>
  BY <1>1 DEF Publish, FinishBar, HigherBar
<1>3. Posted' /\ Referred' /\ Orphaned' /\ Sent'
  BY <1>2, ChannelKept
<1>4. Viewed(rendered)' /\ Viewed(batch)'
  BY <1>2 DEF CardsInv, Viewed
<1>5. Viewed(pending)'
  <2>1. \A o \in DOMAIN pending \union S : (IF o \in S THEN View(o) ELSE pending[o]) \in Views
    BY ViewIs DEF CardsInv, Viewed
  <2>2. DOMAIN pending \subseteq DOMAIN rows
    BY DEF CardsInv, Viewed
  <2> QED
    BY <1>1, <1>2, <2>1, <2>2 DEF Offer, Viewed
<1> QED
  BY <1>3, <1>4, <1>5 DEF CardsInv

\* So does taking views to send.
LEMMA DueKeeps ==
    ASSUME CardsInv, NEW S \in SUBSET DOMAIN pending, Due(S)
    PROVE  CardsInv'
<1>1. /\ batch = << >> /\ UNCHANGED <<setupVars, rendered, sending, refs, cards>>
      /\ pending' = Restrict(pending, DOMAIN pending \ S)
      /\ batch' = Restrict(pending, {o \in S : ~Showing(o, pending[o])})
  BY DEF Due
<1>2. UNCHANGED <<rows, crashes>>
  BY <1>1 DEF setupVars
<1>3. DOMAIN batch = {}
  BY <1>1
<1>4. Posted' /\ Referred' /\ Orphaned' /\ Sent'
  BY <1>1, <1>2, <1>3, ChannelKept
<1>5. Viewed(Restrict(pending, DOMAIN pending \ S)) /\ Viewed(Restrict(pending, {o \in S : ~Showing(o, pending[o])}))
  BY RestrictIs DEF CardsInv
<1>6. Viewed(pending)' /\ Viewed(batch)' /\ Viewed(rendered)'
  BY <1>1, <1>2, <1>5 DEF CardsInv, Viewed
<1> QED
  BY <1>4, <1>6 DEF CardsInv

\* So does a new card, which is in hand until it is recorded.
LEMMA PostKeeps ==
    ASSUME SetupsInv, CardsInv, NEW o \in DOMAIN batch, Post(o)
    PROVE  CardsInv'
<1>1. /\ sending = {} /\ o \notin DOMAIN refs
      /\ cards' = Append(cards, [setup |-> o, view |-> batch[o], deleted |-> FALSE])
      /\ sending' = {[setup |-> o, message |-> Len(cards')]}
      /\ UNCHANGED <<rows, crashes, pending, rendered, batch, refs>>
  BY DEF Post, setupVars
<1>2. Viewed(pending)' /\ Viewed(rendered)' /\ Viewed(batch)'
  BY <1>1 DEF CardsInv, Viewed
<1>3. PICK card : card = [setup |-> o, view |-> batch[o], deleted |-> FALSE]
  OBVIOUS
<1>4. cards \in Seq(Card) /\ (\A m \in DOMAIN cards : cards[m].setup \in DOMAIN rows)
  BY DEF CardsInv, Posted
<1>5. o \in DOMAIN rows /\ o \in Origins /\ batch[o] \in Views
  BY RowOf DEF CardsInv, Viewed
<1>6. card \in Card /\ card.setup = o
  BY <1>3, <1>5 DEF Card
<1>7. /\ cards' \in Seq(Card) /\ Len(cards') = Len(cards) + 1 /\ cards'[Len(cards) + 1] = card
      /\ DOMAIN cards = 1..Len(cards) /\ DOMAIN cards' = 1..(Len(cards) + 1) /\ Len(cards) \in Nat
      /\ \A m \in 1..Len(cards) : cards'[m] = cards[m]
  BY <1>1, <1>3, <1>4, <1>6
<1>8. \A m \in DOMAIN cards' : m \in DOMAIN cards \/ m = Len(cards) + 1
  BY <1>7
<1>9. Posted'
  BY <1>1, <1>4, <1>5, <1>6, <1>7, <1>8 DEF Posted
<1>10. Referred'
  BY <1>1, <1>7 DEF CardsInv, Referred
<1>11. Sent'
  BY <1>1, <1>6, <1>7 DEF Sent
<1>12. Orphans' \subseteq Orphans
  <2>1. SUFFICES ASSUME NEW m \in Orphans'
                 PROVE  m \in Orphans
    OBVIOUS
  <2>2. m \in DOMAIN cards' /\ ~cards'[m].deleted /\ ~Known(m)'
    BY DEF Orphans, Standing
  <2>3. m # Len(cards) + 1
    BY <1>1, <1>7, <2>2 DEF Known
  <2>4. m \in DOMAIN cards /\ cards'[m] = cards[m]
    BY <1>7, <1>8, <2>2, <2>3
  <2>5. ~Known(m)
    BY <1>1, <2>2, <2>4 DEF Known
  <2> QED
    BY <2>2, <2>4, <2>5 DEF Orphans, Standing
<1>13. Orphaned'
  BY <1>1, <1>12, FewerOrphans DEF CardsInv
<1> QED
  BY <1>2, <1>9, <1>10, <1>11, <1>13 DEF CardsInv

\* A step that changes a card, but neither whose it is nor, unless it goes, whether it stands.
LEMMA CardChanged ==
    ASSUME CardsInv, NEW m \in DOMAIN cards, NEW card \in Card,
           cards' = [cards EXCEPT ![m] = card], card.setup = cards[m].setup, ~card.deleted => ~cards[m].deleted,
           UNCHANGED <<rows, refs>>,
           \A s \in sending : s \in sending'
    PROVE  Posted' /\ Referred' /\ Orphans' \subseteq Orphans /\ DOMAIN cards' = DOMAIN cards
           /\ \A x \in DOMAIN cards : cards'[x].setup = cards[x].setup
<1>1. cards \in Seq(Card) /\ (\A x \in DOMAIN cards : cards[x].setup \in DOMAIN rows)
  BY DEF CardsInv, Posted
<1>2. /\ cards' \in Seq(Card) /\ DOMAIN cards' = DOMAIN cards /\ cards'[m] = card
      /\ \A x \in DOMAIN cards : x # m => cards'[x] = cards[x]
  BY <1>1
<1>3. \A x \in DOMAIN cards : cards'[x].setup = cards[x].setup /\ (~cards'[x].deleted => ~cards[x].deleted)
  <2>1. SUFFICES ASSUME NEW x \in DOMAIN cards
                 PROVE  cards'[x].setup = cards[x].setup /\ (~cards'[x].deleted => ~cards[x].deleted)
    OBVIOUS
  <2>2. CASE x = m
    BY <1>2, <2>2
  <2>3. CASE x # m
    BY <1>2, <2>3
  <2> QED
    BY <2>2, <2>3
<1>4. Posted'
  BY <1>1, <1>2, <1>3 DEF Posted
<1>5. Referred'
  BY <1>2, <1>3 DEF CardsInv, Referred
<1>6. Orphans' \subseteq Orphans
  <2>1. SUFFICES ASSUME NEW x \in Orphans'
                 PROVE  x \in Orphans
    OBVIOUS
  <2>2. x \in DOMAIN cards /\ ~cards'[x].deleted /\ ~Known(x)'
    BY <1>2 DEF Orphans, Standing
  <2>3. ~Known(x)
    BY <1>3, <2>2 DEF Known
  <2> QED
    BY <1>3, <2>2, <2>3 DEF Orphans, Standing
<1> QED
  BY <1>2, <1>3, <1>4, <1>5, <1>6

\* The fields of a card.
LEMMA CardFields ==
    ASSUME CardsInv, NEW m \in DOMAIN cards
    PROVE  /\ cards[m] \in Card /\ cards[m].deleted \in BOOLEAN
           /\ cards[m] = [setup |-> cards[m].setup, view |-> cards[m].view, deleted |-> cards[m].deleted]
<1>1. cards[m] \in Card
  BY DEF CardsInv, Posted
<1> QED
  BY <1>1 DEF Card

\* An edit keeps the invariant of cards, of a card that is there.
LEMMA PatchKeeps ==
    ASSUME CardsInv, NEW o \in DOMAIN batch, Patch(o)
    PROVE  CardsInv'
<1>1. /\ sending = {} /\ o \in DOMAIN refs /\ ~cards[refs[o].message].deleted
      /\ cards' = [cards EXCEPT ![refs[o].message].view = batch[o]]
      /\ sending' = {[setup |-> o, message |-> refs[o].message]}
      /\ UNCHANGED <<rows, crashes, pending, rendered, batch, refs>>
  BY DEF Patch, setupVars
<1>2. Viewed(pending)' /\ Viewed(rendered)' /\ Viewed(batch)'
  BY <1>1 DEF CardsInv, Viewed
<1>3. PICK m : m = refs[o].message
  OBVIOUS
<1>4. m \in DOMAIN cards /\ cards[m].setup = o
  BY <1>1, <1>3 DEF CardsInv, Referred
<1>5. batch[o] \in Views
  BY DEF CardsInv, Viewed
<1>6. PICK card : card = [cards[m] EXCEPT !.view = batch[o]]
  OBVIOUS
<1>7. card \in Card /\ card.setup = cards[m].setup /\ card.deleted = cards[m].deleted
  BY <1>4, <1>5, <1>6, CardFields DEF Card
<1>8. cards' = [cards EXCEPT ![m] = card]
  BY <1>1, <1>3, <1>6
<1>9. /\ Posted' /\ Referred' /\ Orphans' \subseteq Orphans /\ DOMAIN cards' = DOMAIN cards
      /\ \A x \in DOMAIN cards : cards'[x].setup = cards[x].setup
  BY <1>1, <1>4, <1>7, <1>8, CardChanged
<1>10. Orphaned'
  BY <1>1, <1>9, FewerOrphans DEF CardsInv
<1>11. Sent'
  BY <1>1, <1>3, <1>4, <1>9 DEF Sent
<1> QED
  BY <1>2, <1>9, <1>10, <1>11 DEF CardsInv

\* So does a card that is deleted in Discord.
LEMMA DeleteCardKeeps ==
    ASSUME CardsInv, NEW m \in DOMAIN cards, DeleteCard(m)
    PROVE  CardsInv'
<1>1. /\ cards' = [cards EXCEPT ![m].deleted = TRUE]
      /\ UNCHANGED <<rows, crashes, pending, rendered, batch, sending, refs>>
  BY DEF DeleteCard, setupVars
<1>2. Viewed(pending)' /\ Viewed(rendered)' /\ Viewed(batch)'
  BY <1>1 DEF CardsInv, Viewed
<1>3. PICK card : card = [cards[m] EXCEPT !.deleted = TRUE]
  OBVIOUS
<1>4. card \in Card /\ card.setup = cards[m].setup /\ card.deleted
  BY <1>3, CardFields DEF Card
<1>5. cards' = [cards EXCEPT ![m] = card]
  BY <1>1, <1>3
<1>6. /\ Posted' /\ Referred' /\ Orphans' \subseteq Orphans /\ DOMAIN cards' = DOMAIN cards
      /\ \A x \in DOMAIN cards : cards'[x].setup = cards[x].setup
  BY <1>1, <1>4, <1>5, CardChanged
<1>7. Orphaned'
  BY <1>1, <1>6, FewerOrphans DEF CardsInv
<1>8. Sent'
  BY <1>1, <1>6 DEF CardsInv, Sent
<1> QED
  BY <1>2, <1>6, <1>7, <1>8 DEF CardsInv

\* The reference that is forgotten was to a card that no longer stands.
LEMMA NotFoundKeeps ==
    ASSUME CardsInv, NEW o \in DOMAIN batch, NotFound(o)
    PROVE  CardsInv'
<1>1. /\ sending = {} /\ o \in DOMAIN refs /\ cards[refs[o].message].deleted
      /\ refs' = Restrict(refs, DOMAIN refs \ {o})
      /\ rendered' = Restrict(rendered, DOMAIN rendered \ {o})
      /\ batch' = Restrict(batch, DOMAIN batch \ {o})
      /\ UNCHANGED <<rows, crashes, pending, sending, cards>>
  BY DEF NotFound, setupVars
<1>2. Viewed(Restrict(rendered, DOMAIN rendered \ {o})) /\ Viewed(Restrict(batch, DOMAIN batch \ {o}))
  BY RestrictIs DEF CardsInv
<1>3. Viewed(pending)' /\ Viewed(rendered)' /\ Viewed(batch)'
  BY <1>1, <1>2 DEF CardsInv, Viewed
<1>4. DOMAIN refs' = DOMAIN refs \ {o} /\ \A x \in DOMAIN refs \ {o} : refs'[x] = refs[x]
  BY <1>1, RestrictIs
<1>5. Posted' /\ Referred' /\ Sent'
  <2>1. Posted'
    BY <1>1 DEF CardsInv, Posted
  <2>2. Referred'
    BY <1>1, <1>4 DEF CardsInv, Referred
  <2>3. Sent'
    BY <1>1 DEF Sent
  <2> QED
    BY <2>1, <2>2, <2>3
<1>6. Orphans' \subseteq Orphans
  <2>1. SUFFICES ASSUME NEW m \in Orphans'
                 PROVE  m \in Orphans
    OBVIOUS
  <2>2. m \in DOMAIN cards /\ ~cards[m].deleted /\ ~Known(m)'
    BY <1>1 DEF Orphans, Standing
  <2>3. ~Known(m)
    <3>1. CASE cards[m].setup = o
      BY <1>1, <2>2, <3>1 DEF Known
    <3>2. CASE cards[m].setup # o
      BY <1>1, <1>4, <2>2, <3>2 DEF Known
    <3> QED
      BY <3>1, <3>2
  <2> QED
    BY <2>2, <2>3 DEF Orphans, Standing
<1>7. Orphaned'
  BY <1>1, <1>6, FewerOrphans DEF CardsInv
<1> QED
  BY <1>3, <1>5, <1>7 DEF CardsInv

\* The card that was sent is now the one referred to.
LEMMA RecordKeeps ==
    ASSUME CardsInv, NEW s \in sending, Record(s)
    PROVE  CardsInv'
<1> DEFINE o == s.setup
<1>1. /\ refs' = Put(refs, s.setup, [message |-> s.message, view |-> batch[s.setup]])
      /\ rendered' = Put(rendered, s.setup, batch[s.setup])
      /\ batch' = Restrict(batch, DOMAIN batch \ {s.setup})
      /\ sending' = {} /\ UNCHANGED <<rows, crashes, pending, cards>>
  BY DEF Record, Ref, setupVars
<1>2. /\ s.setup \in DOMAIN batch /\ s.message \in DOMAIN cards /\ cards[s.message].setup = s.setup
      /\ s.setup \in DOMAIN refs => refs[s.setup].message = s.message
      /\ \A t \in sending : t = s
  BY DEF CardsInv, Sent
<1>3. batch[s.setup] \in Views /\ s.setup \in DOMAIN rows
  BY <1>2 DEF CardsInv, Viewed
<1>4. Viewed(pending)' /\ Viewed(rendered)' /\ Viewed(batch)'
  <2>1. Viewed(Restrict(batch, DOMAIN batch \ {s.setup}))
    BY RestrictIs DEF CardsInv
  <2>2. /\ DOMAIN rendered' = DOMAIN rendered \union {s.setup}
        /\ rendered' \in [DOMAIN rendered \union {s.setup} -> Views]
    <3>1. rendered \in [DOMAIN rendered -> Views]
      BY DEF CardsInv, Viewed
    <3>2. rendered' \in [DOMAIN rendered \union {s.setup} -> Views]
      BY <1>1, <1>3, <3>1, PutIs
    <3> QED
      BY <3>2
  <2> QED
    BY <1>1, <1>3, <2>1, <2>2 DEF CardsInv, Viewed
<1>5. /\ DOMAIN refs' = DOMAIN refs \union {s.setup} /\ refs'[s.setup].message = s.message
      /\ \A x \in DOMAIN refs : x # s.setup => refs'[x] = refs[x]
  BY <1>1 DEF Put
<1>6. Posted' /\ Sent'
  BY <1>1 DEF CardsInv, Posted, Sent
<1>7. Referred'
  BY <1>1, <1>2, <1>3, <1>5 DEF CardsInv, Referred
<1>8. Orphans' \subseteq Orphans
  <2>1. SUFFICES ASSUME NEW m \in Orphans'
                 PROVE  m \in Orphans
    OBVIOUS
  <2>2. m \in DOMAIN cards /\ ~cards[m].deleted /\ ~Known(m)'
    BY <1>1 DEF Orphans, Standing
  <2>3. ~Known(m)
    <3>1. CASE cards[m].setup = s.setup
      <4>1. m # s.message
        BY <1>1, <1>5, <2>2, <3>1 DEF Known
      <4> QED
        BY <1>2, <3>1, <4>1 DEF Known
    <3>2. CASE cards[m].setup # s.setup
      BY <1>1, <1>2, <1>5, <2>2, <3>2 DEF Known
    <3> QED
      BY <3>1, <3>2
  <2> QED
    BY <2>2, <2>3 DEF Orphans, Standing
<1>9. Orphaned'
  BY <1>1, <1>8, FewerOrphans DEF CardsInv
<1> QED
  BY <1>4, <1>6, <1>7, <1>9 DEF CardsInv

\* So does a failed send.
LEMMA SendFailsKeeps ==
    ASSUME CardsInv, NEW S \in SUBSET DOMAIN batch, SendFails(S)
    PROVE  CardsInv'
<1>1. /\ sending = {} /\ batch' = Restrict(batch, DOMAIN batch \ S)
      /\ UNCHANGED <<rows, crashes, pending, rendered, sending, refs, cards>>
  BY DEF SendFails, setupVars
<1>2. Viewed(Restrict(batch, DOMAIN batch \ S))
  BY RestrictIs DEF CardsInv
<1>3. Viewed(pending)' /\ Viewed(rendered)' /\ Viewed(batch)'
  BY <1>1, <1>2 DEF CardsInv, Viewed
<1>4. Posted' /\ Referred' /\ Orphaned'
  BY <1>1, ChannelKept
<1>5. Sent'
  BY <1>1 DEF Sent
<1> QED
  BY <1>3, <1>4, <1>5 DEF CardsInv

\* The card that was on its way may be a new orphan.
LEMMA DieKeeps ==
    ASSUME CardsInv, Die
    PROVE  CardsInv'
<1>1. /\ pending' = << >> /\ rendered' = << >> /\ batch' = << >> /\ sending' = {}
      /\ crashes' = crashes + 1 /\ UNCHANGED <<rows, refs, cards>>
  BY DEF Die, Crash
<1>2. \A f : f = << >> => DOMAIN f \subseteq DOMAIN rows /\ f \in [DOMAIN f -> Views]
  OBVIOUS
<1>3. Viewed(pending)' /\ Viewed(rendered)' /\ Viewed(batch)'
  BY <1>1, <1>2 DEF Viewed
<1>4. Posted' /\ Referred' /\ Sent'
  BY <1>1 DEF CardsInv, Posted, Referred, Sent
<1>5. PICK m : \A x \in Orphans' : x \in Orphans \/ x = m
  <2>1. CASE sending = {}
    <3>1. \A x : Known(x)' <=> Known(x)
      BY <1>1, <2>1 DEF Known
    <3>2. \A x \in Orphans' : x \in Orphans
      BY <1>1, <3>1 DEF Orphans, Standing
    <3> QED
      BY <3>2
  <2>2. CASE sending # {}
    <3>1. PICK s \in sending : \A t \in sending : t = s
      BY <2>2 DEF CardsInv, Sent
    <3>2. \A x : x # s.message => (Known(x)' <=> Known(x))
      BY <1>1, <3>1 DEF Known
    <3>3. \A x \in Orphans' : x \in Orphans \/ x = s.message
      BY <1>1, <3>2 DEF Orphans, Standing
    <3> QED
      BY <3>3
  <2> QED
    BY <2>1, <2>2
<1>6. Orphaned'
  <2>1. crashes \in Nat /\ IsFiniteSet(Orphans) /\ Cardinality(Orphans) <= crashes
    BY DEF CardsInv, Orphaned
  <2>2. IsFiniteSet(Orphans \union {m}) /\ Cardinality(Orphans \union {m}) <= Cardinality(Orphans) + 1
        /\ Cardinality(Orphans) \in Nat
    BY <2>1, FS_AddElement, FS_CardinalityType
  <2>3. Orphans' \subseteq Orphans \union {m}
    BY <1>5
  <2>4. IsFiniteSet(Orphans') /\ Cardinality(Orphans') <= Cardinality(Orphans \union {m})
        /\ Cardinality(Orphans') \in Nat /\ Cardinality(Orphans \union {m}) \in Nat
    BY <2>2, <2>3, FS_Subset, FS_CardinalityType
  <2> QED
    BY <1>1, <2>1, <2>2, <2>4 DEF Orphaned
<1> QED
  BY <1>3, <1>4, <1>6 DEF CardsInv

\* The invariant of cards holds at the start.
LEMMA CardsStart ==
    ASSUME Init
    PROVE  CardsInv
<1>1. /\ pending = << >> /\ rendered = << >> /\ batch = << >> /\ sending = {}
      /\ refs = << >> /\ cards = << >> /\ crashes = 0
  BY DEF Init, SetupInit
<1>2. \A f : f = << >> => DOMAIN f = {} /\ f \in [DOMAIN f -> Views]
  OBVIOUS
<1>3. Viewed(pending) /\ Viewed(rendered) /\ Viewed(batch)
  BY <1>1, <1>2 DEF Viewed
<1>4. DOMAIN cards = {} /\ DOMAIN refs = {} /\ cards \in Seq(Card)
  BY <1>1
<1>5. Posted /\ Referred /\ Sent /\ Orphans = {}
  BY <1>1, <1>4 DEF Posted, Referred, Sent, Orphans, Standing
<1>6. Orphaned
  BY <1>1, <1>5, FS_EmptySet DEF Orphaned
<1> QED
  BY <1>3, <1>5, <1>6 DEF CardsInv

\* Every step of the whole keeps it.
LEMMA CardsStep ==
    ASSUME SetupsInv, CardsInv, [Next]_vars
    PROVE  CardsInv'
<1>1. DOMAIN rows \subseteq DOMAIN rows'
  BY RowsGrow
<1>2. CASE Observe
  <2>1. UNCHANGED cardVars /\ crashes' = crashes
    BY <1>2 DEF Observe, ObserverNext, TakeBar, EvaluateOne, LookForNew, CreateOne, Commit
  <2> QED
    BY <1>1, <2>1, CardsStutter
<1>3. CASE Publish
  BY <1>3, PublishKeeps
<1>4. CASE (BarCloses \/ Restart) /\ UNCHANGED cardVars
  <2>1. crashes' = crashes
    BY <1>4 DEF BarCloses, Restart
  <2> QED
    BY <1>1, <1>4, <2>1, CardsStutter
<1>5. CASE \E S \in SUBSET DOMAIN pending : Due(S)
  BY <1>5, DueKeeps
<1>6. CASE \E o \in DOMAIN batch : Post(o) \/ Patch(o) \/ NotFound(o)
  BY <1>6, PostKeeps, PatchKeeps, NotFoundKeeps
<1>7. CASE \E s \in sending : Record(s)
  BY <1>7, RecordKeeps
<1>8. CASE \E S \in (SUBSET DOMAIN batch) \ {{}} : SendFails(S)
  BY <1>8, SendFailsKeeps
<1>9. CASE \E m \in DOMAIN cards : DeleteCard(m)
  BY <1>9, DeleteCardKeeps
<1>10. CASE Die
  BY <1>10, DieKeeps
<1>11. CASE UNCHANGED vars
  <2>1. UNCHANGED cardVars /\ crashes' = crashes
    BY <1>11 DEF vars, setupVars
  <2> QED
    BY <1>1, <2>1, CardsStutter
<1> QED
  BY <1>2, <1>3, <1>4, <1>5, <1>6, <1>7, <1>8, <1>9, <1>10, <1>11 DEF Next

\* Of the standing cards of a setup, the tables know one.
LEMMA KnownIsOne ==
    ASSUME CardsInv, NEW m \in DOMAIN cards, NEW n \in DOMAIN cards, Known(m), Known(n),
           cards[m].setup = cards[n].setup
    PROVE  m = n
BY DEF CardsInv, Sent, Known

\* "Cards are created once per setup" (README "Discord card"): a setup has one standing card, but
\* for one per crash between a send and its record, whatever is sent, lost or deleted meanwhile.
THEOREM CardsAreOnePerSetup == Spec => []OneCardEach
<1>1. Init => SetupsInv /\ CardsInv
  BY SetupsStart, CardsStart DEF Init
<1>2. SetupsInv /\ CardsInv /\ [Next]_vars => (SetupsInv /\ CardsInv)'
  BY SetupsStep, CardsStep
<1>3. CardsInv => OneCardEach
  <2> SUFFICES ASSUME CardsInv
               PROVE  OneCardEach
    OBVIOUS
  <2> DEFINE Of == [m \in DOMAIN cards |-> cards[m].setup]
             Owners == {Of[m] : m \in Standing}
             One == Standing \ Orphans
             f == [m \in One |-> cards[m].setup]
  <2>1. IsFiniteSet(DOMAIN cards) /\ Standing \subseteq DOMAIN cards
    <3>1. DOMAIN cards = 1..Len(cards) /\ Len(cards) \in Nat
      BY DEF CardsInv, Posted
    <3> QED
      BY <3>1, FS_Interval DEF Standing
  <2>2. IsFiniteSet(Standing)
    BY <2>1, FS_Subset
  <2>3. IsFiniteSet(Owners)
    BY <2>2, FiniteImage
  <2>4. Owners = {cards[m].setup : m \in Standing}
    BY <2>1
  <2>5. f \in Injection(One, Owners)
    <3>1. \A m \in One : m \in DOMAIN cards /\ Known(m) /\ cards[m].setup \in Owners
      BY <2>1 DEF Orphans
    <3>2. f \in [One -> Owners]
      BY <3>1
    <3>3. \A m, n \in One : f[m] = f[n] => m = n
      BY <3>1, KnownIsOne
    <3> QED
      BY <3>2, <3>3, Fun_IsInj
  <2>6. Cardinality(One) <= Cardinality(Owners)
    BY <2>3, <2>5, FS_Injection
  <2>7. /\ crashes \in Nat /\ IsFiniteSet(Orphans) /\ Cardinality(Orphans) <= crashes
        /\ Orphans \subseteq Standing
    BY DEF CardsInv, Orphaned, Orphans
  <2>8. Cardinality(One) = Cardinality(Standing) - Cardinality(Orphans)
    <3>1. Standing \cap Orphans = Orphans
      BY <2>7
    <3> QED
      BY <2>2, <3>1, FS_Difference
  <2>9. /\ Cardinality(Standing) \in Nat /\ Cardinality(Orphans) \in Nat /\ Cardinality(Owners) \in Nat
    BY <2>2, <2>3, <2>7, FS_CardinalityType
  <2>10. Cardinality(Standing) <= Cardinality(Owners) + crashes
    BY <2>6, <2>7, <2>8, <2>9
  <2> QED
    BY <2>4, <2>10 DEF OneCardEach
<1> QED
  BY <1>1, <1>2, <1>3, PTL DEF Spec
-----------------------------------------------------------------------------
(* The cards of open setups are current, as long as there was no more than one crash *)

\* How far the tables are: no setup was changed after the last bar stored, and the observer has
\* reached that bar, or will in its replay.
Followed ==
    /\ obs.last <= stored /\ \A o \in DOMAIN rows : rows[o].updated <= stored
    /\ up => stored <= obs.last \/ stored <= obs.warmTo

\* On a live bar every open setup is among those that are to be shown, the one being written too.
Showable ==
    /\ obs.phase = "lifecycle" => obs.left \subseteq obs.shown
    /\ obs.phase # "idle" /\ obs.last > obs.warmTo => Open \union Current \subseteq obs.shown

\* Once a view was published, those of the open setups are what was published last.
Announced ==
    obs.published # << >> =>
        IF obs.phase = "idle"
        THEN obs.last >= obs.warmTo /\ \A o \in Open : o \in DOMAIN obs.published /\ obs.published[o] = View(o)
        ELSE obs.last > obs.warmTo

WatchInv == Followed /\ Showable /\ Announced

\* The view that o had after one of its events.
After(o, v) == v.event \in 1..Len(events[o]) /\ v.state = events[o][v.event].to

\* Before a crash every view under way, and every one recorded, is that after one of the events.
Recorded ==
    crashes = 0 =>
        /\ \A o \in DOMAIN pending : After(o, pending[o])
        /\ \A o \in DOMAIN batch : After(o, batch[o])
        /\ \A o \in DOMAIN refs : After(o, refs[o].view)

\* What the card of a setup shows, and whether it is being sent.
OnCard(o) == cards[refs[o].message].view
Sending(o) == \E s \in sending : s.setup = o

\* The views of a setup get later on the way back from its card to its row.
Later ==
    /\ \A o \in DOMAIN pending : pending[o].event <= Len(events[o])
    /\ \A o \in DOMAIN batch : /\ batch[o].event <= Len(events[o])
                               /\ o \in DOMAIN pending => batch[o].event <= pending[o].event
    /\ \A o \in DOMAIN refs :
          /\ refs[o].view \in Views /\ refs[o].view.event <= OnCard(o).event
          /\ OnCard(o).event <= Len(events[o])
          /\ o \in DOMAIN pending => OnCard(o).event <= pending[o].event
          /\ o \in DOMAIN batch => OnCard(o).event <= batch[o].event

\* A card shows what was recorded of it, or what is being sent, or, from before a crash, what is
\* later than was recorded.
Records ==
    /\ \A s \in sending : cards[s.message].view = batch[s.setup]
    /\ \A o \in DOMAIN refs : Sending(o) \/ OnCard(o) = refs[o].view \/ refs[o].view.event < OnCard(o).event
    /\ \A o \in DOMAIN rendered : /\ o \in DOMAIN refs /\ refs[o].view = rendered[o]
                                  /\ Sending(o) \/ OnCard(o) = rendered[o]

\* A card that was deleted is missed.
Gone ==
    /\ \A o \in DOMAIN refs \ missed : ~cards[refs[o].message].deleted
    /\ \A s \in sending : cards[s.message].deleted => s.setup \in missed

\* What was published last of a setup waits, or is to be sent, or is on its card.
Delivering ==
    \A o \in DOMAIN obs.published :
        /\ o \in DOMAIN pending => pending[o] = obs.published[o]
        /\ o \in DOMAIN batch \ DOMAIN pending => batch[o] = obs.published[o]
        /\ o \notin DOMAIN pending \union DOMAIN batch \union missed =>
              o \in DOMAIN refs /\ OnCard(o) = obs.published[o]

CurrentInv == Recorded /\ Later /\ Records /\ Gone /\ Delivering

\* Steps of the observer on one bar, which write nothing.
LEMMA WatchGoesOn ==
    ASSUME WatchInv, obs.phase # "idle", obs'.phase # "idle", UNCHANGED <<up, rows, stored>>,
           obs'.last = obs.last, obs'.warmTo = obs.warmTo, obs'.published = obs.published,
           obs.shown \subseteq obs'.shown, Current' \subseteq obs'.shown,
           obs'.phase = "lifecycle" => obs'.left \subseteq obs'.shown
    PROVE  WatchInv'
<1>1. Followed'
  BY DEF WatchInv, Followed
<1>2. Open' = Open
  BY DEF Open
<1>3. Showable'
  BY <1>2 DEF WatchInv, Showable
<1>4. Announced'
  BY DEF WatchInv, Announced
<1> QED
  BY <1>1, <1>3, <1>4 DEF WatchInv

\* When bars are live again, every open setup is one that was changed before the next of them.
LEMMA OpenIsSeen ==
    ASSUME SetupsInv, WatchInv, up, NEW b \in Int, obs.last <= b, obs.warmTo <= b
    PROVE  OpenFor(b) = Open
<1>1. stored \in Int /\ obs.last \in Int /\ obs.warmTo \in Int
  BY DEF SetupsInv, Observing
<1>2. stored <= b
  BY <1>1 DEF WatchInv, Followed
<1>3. \A o \in DOMAIN rows : rows[o].updated <= stored /\ rows[o].updated \in Int
  BY RowOf, RowFields, MarketIs DEF WatchInv, Followed, SetupsInv
<1>4. \A o \in DOMAIN rows : rows[o].updated <= b
  BY <1>1, <1>2, <1>3
<1> QED
  BY <1>4 DEF OpenFor, Open

\* Taking a bar keeps what is known of the setups to show.
LEMMA TakeBarWatches ==
    ASSUME SetupsInv, WatchInv, TakeBar
    PROVE  WatchInv'
<1> DEFINE b == obs.last + 1
<1>1. /\ up /\ obs.phase = "idle"
      /\ obs' = [obs EXCEPT !.last = b, !.phase = "lifecycle", !.left = OpenFor(b), !.shown = OpenFor(b)]
      /\ stored' = (IF b > stored THEN b ELSE stored) /\ UNCHANGED <<up, rows, events>>
  BY DEF TakeBar
<1>2. Memory(obs) /\ obs.last \in Nat /\ obs.warmTo \in Nat /\ stored \in Nat
  BY DEF SetupsInv, Observing
<1>3. obs' = [last |-> b, warmTo |-> obs.warmTo, phase |-> "lifecycle", left |-> OpenFor(b), shown |-> OpenFor(b),
              writes |-> obs.writes, published |-> obs.published]
  BY <1>1, <1>2 DEF Memory
<1>4. b \in Int /\ obs.last <= b /\ stored <= stored' /\ b <= stored' /\ stored' \in Nat
      /\ (stored' = b \/ stored' = stored)
  BY <1>1, <1>2
<1>5. Followed'
  <2>1. \A o \in DOMAIN rows : rows[o].updated <= stored /\ rows[o].updated \in Int
    BY RowOf, RowFields, MarketIs DEF WatchInv, Followed, SetupsInv
  <2>2. \A o \in DOMAIN rows : rows[o].updated <= stored'
    BY <1>2, <1>4, <2>1
  <2>3. stored <= obs.last \/ stored <= obs.warmTo
    BY <1>1 DEF WatchInv, Followed
  <2>4. stored' <= b \/ stored' <= obs.warmTo
    BY <1>2, <1>4, <2>3
  <2> QED
    BY <1>1, <1>3, <1>4, <2>2, <2>4 DEF Followed
<1>6. Showable'
  <2>1. Open' = Open /\ Current' = {}
    BY <1>1, <1>3, IdleWrites DEF Open, Current
  <2>2. b > obs.warmTo => OpenFor(b) = Open
    BY <1>1, <1>2, <1>4, OpenIsSeen
  <2> QED
    BY <1>3, <2>1, <2>2 DEF Showable
<1>7. Announced'
  <2>1. obs.published # << >> => obs.last >= obs.warmTo
    BY <1>1 DEF WatchInv, Announced
  <2>2. obs.published # << >> => b > obs.warmTo
    BY <1>2, <2>1
  <2> QED
    BY <1>3, <2>2 DEF Announced
<1> QED
  BY <1>5, <1>6, <1>7 DEF WatchInv

\* So does the evaluation of a setup.
LEMMA EvaluateOneWatches ==
    ASSUME SetupsInv, WatchInv, EvaluateOne
    PROVE  WatchInv'
<1>1. obs.phase = "lifecycle" /\ UNCHANGED <<up, rows, stored>>
  BY DEF EvaluateOne
<1>2. PICK o, r :
         /\ o \in obs.left
         /\ obs' = [last |-> obs.last, warmTo |-> obs.warmTo, phase |-> "lifecycle", left |-> obs.left \ {o},
                    shown |-> obs.shown, writes |-> Laid(o, r), published |-> obs.published]
         /\ \/ r.path = << >>
            \/ /\ r.row \in Rows
               /\ r.path = <<r.row.state>> \/ \E to \in States : r.path = <<to, r.row.state>>
  BY Evaluating
<1>3. Current' \subseteq {o}
  <2>1. obs'.writes = Laid(o, r)
    BY <1>2
  <2>2. \/ Laid(o, r) = << >>
        \/ Laid(o, r) = <<Move(o, r.row), Tell(o, r.row.state)>>
        \/ \E to : Laid(o, r) = <<Move(o, r.row), Tell(o, to), Move(o, r.row), Tell(o, r.row.state)>>
    <3>1. r.row \in Rows => r.row.state \in States
      BY RowFields
    <3> QED
      BY <1>2, <3>1, LaidOut
  <2>3. Laid(o, r) # << >> => Head(Laid(o, r)) = Move(o, r.row)
    BY <2>2
  <2> QED
    BY <2>1, <2>3 DEF Current, Move
<1>4. obs.left \subseteq obs.shown
  BY <1>1 DEF WatchInv, Showable
<1> QED
  BY <1>1, <1>2, <1>3, <1>4, WatchGoesOn

\* So does the end of the evaluation.
LEMMA LookForNewWatches ==
    ASSUME SetupsInv, WatchInv, LookForNew
    PROVE  WatchInv'
<1>1. /\ obs.phase = "lifecycle" /\ obs.writes = << >>
      /\ obs' = [obs EXCEPT !.phase = "create", !.left = Anew(obs.last)]
      /\ UNCHANGED <<up, rows, stored>>
  BY DEF LookForNew
<1>2. Memory(obs)
  BY DEF SetupsInv, Observing
<1>3. obs' = [last |-> obs.last, warmTo |-> obs.warmTo, phase |-> "create", left |-> Anew(obs.last),
              shown |-> obs.shown, writes |-> obs.writes, published |-> obs.published]
  BY <1>1, <1>2 DEF Memory
<1>4. Current' = {}
  BY <1>1, <1>3 DEF Current
<1> QED
  BY <1>1, <1>3, <1>4, WatchGoesOn

\* So does a new setup, which is to be shown.
LEMMA CreateOneWatches ==
    ASSUME SetupsInv, WatchInv, CreateOne
    PROVE  WatchInv'
<1>1. obs.phase = "create" /\ UNCHANGED <<up, rows, stored>>
  BY DEF CreateOne
<1>2. Memory(obs)
  BY DEF SetupsInv, Observing
<1>3. PICK o, shown, writes :
         /\ obs' = [obs EXCEPT !.left = @ \ {o}, !.shown = shown, !.writes = writes]
         /\ shown = IF o \notin DOMAIN rows \/ o \in Open THEN obs.shown \union {o} ELSE obs.shown
         /\ writes = IF o \notin DOMAIN rows THEN <<Insert(o, Created(obs.last)), Tell(o, "WATCH")>> ELSE << >>
  BY DEF CreateOne, Insert, Tell
<1>4. obs' = [last |-> obs.last, warmTo |-> obs.warmTo, phase |-> "create", left |-> obs.left \ {o},
              shown |-> shown, writes |-> writes, published |-> obs.published]
  BY <1>1, <1>2, <1>3 DEF Memory
<1>5. obs.shown \subseteq shown
  BY <1>3
<1>6. Current' \subseteq shown
  <2>1. CASE o \in DOMAIN rows
    BY <1>3, <1>4, <2>1 DEF Current
  <2>2. CASE o \notin DOMAIN rows
    <3>1. o \in shown /\ writes = <<Insert(o, Created(obs.last)), Tell(o, "WATCH")>>
      BY <1>3, <2>2
    <3>2. Head(writes) = Insert(o, Created(obs.last))
      BY <3>1
    <3> QED
      BY <1>4, <3>1, <3>2 DEF Current, Insert
  <2> QED
    BY <2>1, <2>2
<1> QED
  BY <1>1, <1>4, <1>5, <1>6, WatchGoesOn
\* Within a transition the setup that is written stays the same.
LEMMA CurrentStays ==
    ASSUME SetupsInv, Commit
    PROVE  Current' \subseteq Current
<1>1. obs.writes # << >> /\ obs'.writes = Tail(obs.writes) /\ Writing
  BY Committing DEF SetupsInv
<1>2. \A o, row : Inserting(o, row) => obs.writes = <<Insert(o, row), Tell(o, "WATCH")>>
  BY DEF Inserting
<1>3. \A o, row : Moving(o, row) => obs.writes = <<Move(o, row), Tell(o, row.state)>>
  BY DEF Moving
<1>4. \A o, to : Telling(o, to) => obs.writes = <<Tell(o, to)>>
  BY DEF Telling
<1>5. \A o, to, row : TellingFirst(o, to, row) => obs.writes = <<Tell(o, to), Move(o, row), Tell(o, row.state)>>
  BY DEF TellingFirst
<1>6. \A o, to, row : MovingTwice(o, to, row) =>
                          obs.writes = <<Move(o, row), Tell(o, to), Move(o, row), Tell(o, row.state)>>
  BY DEF MovingTwice
<1>7. \/ \E a : obs.writes = <<a>>
      \/ \E a, b : obs.writes = <<a, b>> /\ b.setup = a.setup
      \/ \E a, b, c : obs.writes = <<a, b, c>> /\ b.setup = a.setup
      \/ \E a, b, c, d : obs.writes = <<a, b, c, d>> /\ b.setup = a.setup
  <2>1. \A o, row, to : Insert(o, row).setup = o /\ Move(o, row).setup = o /\ Tell(o, to).setup = o
    BY DEF Insert, Move, Tell
  <2>2. CASE \E o, row : Inserting(o, row)
    BY <1>2, <2>1, <2>2
  <2>3. CASE \E o, row : Moving(o, row)
    BY <1>3, <2>1, <2>3
  <2>4. CASE \E o, to : Telling(o, to)
    BY <1>4, <2>4
  <2>5. CASE \E o, to, row : TellingFirst(o, to, row)
    BY <1>5, <2>1, <2>5
  <2>6. CASE \E o, to, row : MovingTwice(o, to, row)
    BY <1>6, <2>1, <2>6
  <2> QED
    BY <1>1, <2>2, <2>3, <2>4, <2>5, <2>6 DEF Writing
<1>8. ASSUME NEW a, obs.writes = <<a>>
      PROVE  Current' = {}
  <2>1. Tail(obs.writes) = << >>
    BY <1>8
  <2> QED
    BY <1>1, <2>1 DEF Current
<1>9. ASSUME NEW a, NEW b, Head(obs.writes) = a, Tail(obs.writes) # << >>, Head(Tail(obs.writes)) = b, b.setup = a.setup
      PROVE  Current' = Current
  BY <1>1, <1>9 DEF Current
<1>10. \A a, b : obs.writes = <<a, b>> =>
                   Head(obs.writes) = a /\ Tail(obs.writes) # << >> /\ Head(Tail(obs.writes)) = b
  OBVIOUS
<1>11. \A a, b, c : obs.writes = <<a, b, c>> =>
                   Head(obs.writes) = a /\ Tail(obs.writes) # << >> /\ Head(Tail(obs.writes)) = b
  OBVIOUS
<1>12. \A a, b, c, d : obs.writes = <<a, b, c, d>> =>
                   Head(obs.writes) = a /\ Tail(obs.writes) # << >> /\ Head(Tail(obs.writes)) = b
  OBVIOUS
<1> QED
  BY <1>7, <1>8, <1>9, <1>10, <1>11, <1>12

\* So does a transaction, about a setup to show on the present bar.
LEMMA CommitWatches ==
    ASSUME SetupsInv, WatchInv, Commit
    PROVE  WatchInv'
<1>1. /\ obs.writes # << >> /\ UNCHANGED <<up, stored>>
      /\ obs' = [last |-> obs.last, warmTo |-> obs.warmTo, phase |-> obs.phase, left |-> obs.left,
                 shown |-> obs.shown, writes |-> Tail(obs.writes), published |-> obs.published]
  BY Committing
<1>2. obs.phase # "idle"
  BY <1>1, IdleWrites
<1>3. PICK o : /\ Current = {o} /\ DOMAIN rows' = DOMAIN rows \union {o}
               /\ \A x \in DOMAIN rows : x # o => rows'[x] = rows[x]
               /\ rows'[o].updated = obs.last
  BY OneIsWritten
<1>4. Open' \subseteq Open \union {o} /\ Current' \subseteq {o}
  BY <1>3, CurrentStays DEF Open
<1>5. Followed'
  BY <1>1, <1>3 DEF WatchInv, Followed
<1>6. Showable'
  BY <1>1, <1>2, <1>3, <1>4 DEF WatchInv, Showable
<1>7. Announced'
  BY <1>1, <1>2 DEF WatchInv, Announced
<1> QED
  BY <1>5, <1>6, <1>7 DEF WatchInv

\* What is published covers the setups that were looked at.
LEMMA PublishedIs ==
    ASSUME NEW T, NEW o \in T
    PROVE  o \in DOMAIN Published(Changed(T)) /\ Published(Changed(T))[o] = View(o)
BY DEF Published, Changed

\* Steps that leave the tables alone, and what is open.
LEMMA FollowedStays ==
    ASSUME Followed, UNCHANGED <<up, rows, stored>>, obs'.last = obs.last, obs'.warmTo = obs.warmTo
    PROVE  Followed' /\ Open' = Open
BY DEF Followed, Open

\* The end of a bar publishes the view of every open setup, unless the bar is replayed.
LEMMA FinishBarWatches ==
    ASSUME SetupsInv, WatchInv, NEW S, FinishBar(S)
    PROVE  WatchInv'
<1>1. /\ obs.phase = "create" /\ UNCHANGED <<up, rows, events, stored>>
      /\ S = IF obs.last > obs.warmTo THEN Changed(obs.shown) ELSE {}
      /\ obs' = [obs EXCEPT !.phase = "idle", !.shown = {}, !.published = Published(S)]
  BY DEF FinishBar
<1>2. Memory(obs) /\ obs.last \in Nat /\ obs.warmTo \in Nat
  BY DEF SetupsInv, Observing
<1>3. obs' = [last |-> obs.last, warmTo |-> obs.warmTo, phase |-> "idle", left |-> obs.left,
              shown |-> {}, writes |-> obs.writes, published |-> Published(S)]
  BY <1>1, <1>2 DEF Memory
<1>4. Followed' /\ Open' = Open
  BY <1>1, <1>3, FollowedStays DEF WatchInv
<1>5. Showable'
  BY <1>3 DEF Showable
<1>6. \A o : View(o)' = View(o)
  BY <1>1 DEF View
<1>7. CASE obs.last > obs.warmTo
  <2>1. Open \subseteq obs.shown
    BY <1>1, <1>7 DEF WatchInv, Showable
  <2>2. \A o \in Open : o \in DOMAIN Published(S) /\ Published(S)[o] = View(o)
    BY <1>1, <1>7, <2>1, PublishedIs
  <2>3. Announced'
    BY <1>2, <1>3, <1>4, <1>6, <1>7, <2>2 DEF Announced
  <2> QED
    BY <1>4, <1>5, <2>3 DEF WatchInv
<1>8. CASE ~(obs.last > obs.warmTo)
  <2>1. obs.published = << >> /\ S = {}
    BY <1>1, <1>8 DEF WatchInv, Announced
  <2>2. DOMAIN obs.published \union S = {}
    BY <2>1
  <2>3. Published(S) = [x \in {} |-> x]
    BY <2>2 DEF Published
  <2>4. Published(S) = << >>
    BY <2>3
  <2>5. Announced'
    BY <1>3, <2>4 DEF Announced
  <2> QED
    BY <1>4, <1>5, <2>5 DEF WatchInv
<1> QED
  BY <1>7, <1>8

\* A bar of a higher timeframe publishes the view of every open setup too.
LEMMA HigherBarWatches ==
    ASSUME SetupsInv, WatchInv, NEW S, HigherBar(S)
    PROVE  WatchInv'
<1>1. /\ up /\ obs.phase = "idle" /\ obs.last >= obs.warmTo /\ UNCHANGED <<up, rows, events, stored>>
      /\ S = Changed(OpenFor(obs.last))
      /\ obs' = [obs EXCEPT !.published = Published(S)]
  BY DEF HigherBar, Live
<1>2. Memory(obs) /\ obs.last \in Nat /\ obs.warmTo \in Nat
  BY DEF SetupsInv, Observing
<1>3. obs' = [last |-> obs.last, warmTo |-> obs.warmTo, phase |-> obs.phase, left |-> obs.left,
              shown |-> obs.shown, writes |-> obs.writes, published |-> Published(S)]
  BY <1>1, <1>2 DEF Memory
<1>4. Followed' /\ Open' = Open
  BY <1>1, <1>3, FollowedStays DEF WatchInv
<1>5. Showable'
  BY <1>1, <1>3 DEF Showable
<1>6. \A o : View(o)' = View(o)
  BY <1>1 DEF View
<1>7. OpenFor(obs.last) = Open
  <2>1. PICK b : b = obs.last
    OBVIOUS
  <2>2. OpenFor(b) = Open
    BY <1>1, <1>2, <2>1, OpenIsSeen
  <2> QED
    BY <2>1, <2>2
<1>8. \A o \in Open : o \in DOMAIN Published(S) /\ Published(S)[o] = View(o)
  BY <1>1, <1>7, PublishedIs
<1>9. Announced'
  BY <1>1, <1>3, <1>4, <1>6, <1>8 DEF Announced
<1> QED
  BY <1>4, <1>5, <1>9 DEF WatchInv

\* An observer that starts has published nothing, and replays what is stored.
LEMMA RestartWatches ==
    ASSUME SetupsInv, WatchInv, Restart
    PROVE  WatchInv'
<1>1. PICK w \in stored..Len(market) : obs' = [obs EXCEPT !.warmTo = w]
  BY DEF Restart
<1>2. ~up /\ UNCHANGED <<rows, stored>>
  BY DEF Restart
<1>3. obs = Fresh /\ stored \in Nat
  BY <1>2 DEF SetupsInv, Observing
<1>4. obs'.last = 0 /\ obs'.warmTo = w /\ obs'.phase = "idle" /\ obs'.published = << >>
  BY <1>1, <1>3 DEF Fresh
<1>5. stored <= w
  BY <1>3, MarketIs DEF SetupsInv
<1>6. Followed'
  BY <1>2, <1>3, <1>4, <1>5 DEF WatchInv, Followed
<1> QED
  BY <1>4, <1>6 DEF WatchInv, Showable, Announced

\* One that dies has forgotten what it published.
LEMMA CrashWatches ==
    ASSUME SetupsInv, WatchInv, Crash
    PROVE  WatchInv'
<1>1. up' = FALSE /\ obs' = Fresh /\ UNCHANGED <<rows, stored>>
  BY DEF Crash
<1>2. stored \in Nat
  BY DEF SetupsInv, Observing
<1>3. obs'.last = 0 /\ obs'.phase = "idle" /\ obs'.published = << >>
  BY <1>1 DEF Fresh
<1>4. Followed'
  BY <1>1, <1>2, <1>3 DEF WatchInv, Followed
<1> QED
  BY <1>3, <1>4 DEF WatchInv, Showable, Announced

\* Every step keeps what is known of the setups to show.
LEMMA WatchStep ==
    ASSUME SetupsInv, WatchInv, [Next]_vars
    PROVE  WatchInv'
<1>1. BarCloses \/ UNCHANGED setupVars => UNCHANGED <<up, rows, events, stored, obs>>
  BY DEF BarCloses, setupVars
<1>2. ASSUME UNCHANGED <<up, rows, events, stored, obs>>
      PROVE  WatchInv'
  <2>1. Followed' /\ Open' = Open
    BY <1>2, FollowedStays DEF WatchInv
  <2>2. Current' = Current /\ \A o : View(o)' = View(o)
    BY <1>2 DEF Current, View
  <2> QED
    BY <1>2, <2>1, <2>2 DEF WatchInv, Showable, Announced
<1> QED
  BY <1>1, <1>2, SetupSteps, TakeBarWatches, EvaluateOneWatches, LookForNewWatches, CreateOneWatches, CommitWatches,
     FinishBarWatches, HigherBarWatches, RestartWatches, CrashWatches

\* It is so at the start.
LEMMA WatchStart ==
    ASSUME SetupInit
    PROVE  WatchInv
<1>1. DOMAIN rows = {} /\ stored = 0 /\ obs = Fresh
  BY DEF SetupInit
<1> QED
  BY <1>1 DEF WatchInv, Followed, Showable, Announced, Fresh

\* Events of a setup are added to, never changed.
LEMMA EventsGrow ==
    ASSUME SetupsInv, [Next]_vars, NEW o \in DOMAIN rows
    PROVE  /\ Len(events[o]) \in Nat /\ Len(events'[o]) \in Nat /\ Len(events[o]) <= Len(events'[o])
           /\ \A i \in 1..Len(events[o]) : events'[o][i] = events[o][i]
<1>1. events[o] \in Seq(Event) /\ Len(events[o]) \in Nat
  BY RowOf
<1>2. CASE events'[o] = events[o]
  BY <1>1, <1>2
<1>3. ASSUME NEW e, events'[o] = Append(events[o], e)
      PROVE  /\ Len(events'[o]) = Len(events[o]) + 1
             /\ \A i \in 1..Len(events[o]) : events'[o][i] = events[o][i]
  BY <1>1, <1>3
<1>4. CASE Commit
  <2>1. obs.writes # << >> /\ Writing
    BY <1>4, Committing DEF SetupsInv
  <2>2. ASSUME NEW x, NEW row, Inserting(x, row)
        PROVE  events'[o] = events[o]
    <3>1. obs.writes = <<Insert(x, row), Tell(x, "WATCH")>> /\ x # o
      BY <2>2 DEF Inserting
    <3>2. Head(obs.writes) = Insert(x, row)
      BY <3>1
    <3>3. events' = Put(events, x, << >>)
      BY <1>4, <3>2 DEF Commit, Insert
    <3>4. o \in DOMAIN events
      BY RowOf
    <3> QED
      BY <3>1, <3>3, <3>4 DEF Put
  <2>3. ASSUME NEW x, NEW row, Head(obs.writes) = Move(x, row)
        PROVE  events'[o] = events[o]
    BY <1>4, <2>3 DEF Commit, Move
  <2>4. ASSUME NEW x, NEW to, Head(obs.writes) = Tell(x, to)
        PROVE  events'[o] = events[o] \/ \E e : events'[o] = Append(events[o], e)
    <3>1. events' = AddEvent(x, [bar |-> obs.last, to |-> to])
      BY <1>4, <2>4 DEF Commit, Tell
    <3>2. o \in DOMAIN events
      BY RowOf
    <3> QED
      BY <3>1, <3>2 DEF AddEvent
  <2>5. \/ \E x, row : Inserting(x, row)
        \/ \E x, row : Head(obs.writes) = Move(x, row)
        \/ \E x, to : Head(obs.writes) = Tell(x, to)
    <3>1. \A x, row : Moving(x, row) => Head(obs.writes) = Move(x, row)
      BY DEF Moving
    <3>2. \A x, to, row : MovingTwice(x, to, row) => Head(obs.writes) = Move(x, row)
      BY DEF MovingTwice
    <3>3. \A x, to : Telling(x, to) => Head(obs.writes) = Tell(x, to)
      BY DEF Telling
    <3>4. \A x, to, row : TellingFirst(x, to, row) => Head(obs.writes) = Tell(x, to)
      BY DEF TellingFirst
    <3> QED
      BY <2>1, <3>1, <3>2, <3>3, <3>4 DEF Writing
  <2>6. events'[o] = events[o] \/ \E e : events'[o] = Append(events[o], e)
    BY <2>2, <2>3, <2>4, <2>5
  <2> QED
    BY <1>1, <1>2, <1>3, <2>6
<1>5. CASE TakeBar \/ EvaluateOne \/ LookForNew \/ CreateOne
  BY <1>2, <1>5 DEF TakeBar, EvaluateOne, LookForNew, CreateOne
<1>6. \A S : FinishBar(S) \/ HigherBar(S) => events' = events
  BY DEF FinishBar, HigherBar
<1>7. BarCloses \/ Crash \/ Restart \/ UNCHANGED setupVars => events' = events
  BY DEF BarCloses, Crash, Restart, setupVars
<1> QED
  BY <1>2, <1>4, <1>5, <1>6, <1>7, SetupSteps

\* The fields of views, and of what a card shows.
LEMMA ViewFields ==
    ASSUME SetupsInv, CardsInv
    PROVE  /\ \A o \in DOMAIN pending : pending[o] \in Views /\ pending[o].event \in Nat /\ o \in DOMAIN rows
           /\ \A o \in DOMAIN batch : batch[o] \in Views /\ batch[o].event \in Nat /\ o \in DOMAIN rows
           /\ \A o \in DOMAIN rendered : rendered[o] \in Views /\ rendered[o].event \in Nat /\ o \in DOMAIN rows
           /\ \A o \in DOMAIN refs : /\ OnCard(o) \in Views /\ OnCard(o).event \in Nat /\ o \in DOMAIN rows
                                     /\ refs[o].message \in DOMAIN cards /\ cards[refs[o].message].setup = o
           /\ \A o \in DOMAIN rows : Len(events[o]) \in Nat
<1>1. \A v \in Views : v.event \in Nat
  BY DEF Views
<1>2. \A c \in Card : c.view \in Views
  BY DEF Card
<1>3. \A o \in DOMAIN refs : o \in DOMAIN rows /\ refs[o].message \in DOMAIN cards /\ cards[refs[o].message].setup = o
  BY DEF CardsInv, Referred
<1>4. \A o \in DOMAIN refs : OnCard(o) \in Views
  BY <1>2, <1>3, CardFields DEF OnCard
<1>5. \A o \in DOMAIN rows : Len(events[o]) \in Nat
  BY RowOf
<1> QED
  BY <1>1, <1>3, <1>4, <1>5 DEF CardsInv, Viewed

\* Two views after the same event are the same.
LEMMA SameView ==
    ASSUME NEW o, NEW v \in Views, NEW w \in Views, After(o, v), After(o, w), v.event = w.event
    PROVE  v = w
BY DEF Views, After

\* Views stay on their way while the tables grow and nothing is published.
LEMMA ViewsStay ==
    ASSUME SetupsInv, CardsInv, CurrentInv, [Next]_vars, UNCHANGED cardVars, crashes' = crashes,
           obs'.published = obs.published \/ obs'.published = << >>
    PROVE  CurrentInv'
<1>1. /\ pending' = pending /\ rendered' = rendered /\ batch' = batch /\ sending' = sending /\ refs' = refs
      /\ cards' = cards /\ missed' = missed
  BY DEF cardVars
<1>2. \A o \in DOMAIN rows : \A v : After(o, v) => After(o, v)'
  BY EventsGrow DEF After
<1>3. \A o \in DOMAIN rows : \A n \in Nat : n <= Len(events[o]) => n <= Len(events'[o])
  BY EventsGrow
<1>4. \A o : OnCard(o)' = OnCard(o) /\ Sending(o)' = Sending(o)
  BY <1>1 DEF OnCard, Sending
<1>5. Recorded'
  BY <1>1, <1>2, ViewFields DEF CurrentInv, Recorded
<1>6. Later'
  <2>1. \A o \in DOMAIN pending : pending[o].event <= Len(events'[o])
    BY <1>3, ViewFields DEF CurrentInv, Later
  <2>2. \A o \in DOMAIN batch : batch[o].event <= Len(events'[o])
    BY <1>3, ViewFields DEF CurrentInv, Later
  <2>3. \A o \in DOMAIN refs : OnCard(o).event <= Len(events'[o])
    BY <1>3, ViewFields DEF CurrentInv, Later
  <2> QED
    BY <1>1, <1>4, <2>1, <2>2, <2>3 DEF CurrentInv, Later
<1>7. Records' /\ Gone'
  BY <1>1, <1>4 DEF CurrentInv, Records, Gone
<1>8. Delivering'
  <2>1. \A o \in DOMAIN obs'.published : o \in DOMAIN obs.published /\ obs'.published[o] = obs.published[o]
    OBVIOUS
  <2> QED
    BY <1>1, <1>4, <2>1 DEF CurrentInv, Delivering
<1> QED
  BY <1>5, <1>6, <1>7, <1>8 DEF CurrentInv

\* Publishing a view makes it the one that waits; before a crash, it is that after the last event.
LEMMA PublishDelivers ==
    ASSUME SetupsInv, CardsInv, CurrentInv, Publish
    PROVE  CurrentInv'
<1>1. PICK S \in SUBSET DOMAIN rows : (FinishBar(S) \/ HigherBar(S)) /\ pending' = Offer(S)
  BY DEF Publish
<1>2. UNCHANGED <<rendered, batch, sending, refs, cards, missed, rows, events, crashes>>
  BY <1>1 DEF Publish, FinishBar, HigherBar
<1>3. obs.writes = << >>
  BY <1>1, IdleWrites DEF FinishBar, HigherBar, Live
<1>4. obs'.published = Published(S)
  <2>1. Memory(obs)
    BY DEF SetupsInv, Observing
  <2> QED
    BY <1>1, <2>1 DEF FinishBar, HigherBar, Memory
<1>5. /\ DOMAIN pending' = DOMAIN pending \union S
      /\ \A o \in S : pending'[o] = View(o)
      /\ \A o \in DOMAIN pending \ S : pending'[o] = pending[o]
  BY <1>1 DEF Offer
<1>6. \A o : OnCard(o)' = OnCard(o) /\ Sending(o)' = Sending(o)
  BY <1>2 DEF OnCard, Sending
<1>7. \A o \in S : View(o).event = Len(events[o]) /\ View(o).event \in Nat
  BY ViewFields DEF View
<1>8. crashes = 0 => \A o \in S : After(o, View(o))
  <2>1. SUFFICES ASSUME crashes = 0, NEW o \in S
                 PROVE  After(o, View(o))
    OBVIOUS
  <2>2. Unrecorded \ Current = Unrecorded
    BY <1>3 DEF Current
  <2>3. IsFiniteSet(Unrecorded) /\ Cardinality(Unrecorded) <= 0
    BY <2>1, <2>2 DEF SetupsInv, Explained
  <2>4. Unrecorded = {}
    <3>1. Cardinality(Unrecorded) \in Nat
      BY <2>3, FS_CardinalityType
    <3>2. Cardinality(Unrecorded) = 0
      BY <2>3, <3>1
    <3> QED
      BY <2>3, <3>2, FS_EmptySet
  <2>5. events[o] # << >> /\ events[o][Len(events[o])].to = rows[o].state
    BY <2>4 DEF Unrecorded
  <2>6. Len(events[o]) \in 1..Len(events[o])
    BY <2>5, RowOf
  <2> QED
    BY <2>5, <2>6 DEF After, View
<1>9. \A o, v : After(o, v)' <=> After(o, v)
  BY <1>2 DEF After
<1>10. Recorded'
  <2>1. crashes = 0 => \A o \in DOMAIN pending' : After(o, pending'[o])
    BY <1>5, <1>8 DEF CurrentInv, Recorded
  <2> QED
    BY <1>2, <1>9, <2>1 DEF CurrentInv, Recorded
<1>11. Later'
  <2>1. \A o \in DOMAIN pending' : pending'[o].event <= Len(events[o])
    BY <1>5, <1>7 DEF CurrentInv, Later
  <2>2. \A o \in DOMAIN batch : o \in DOMAIN pending' => batch[o].event <= pending'[o].event
    BY <1>5, <1>7 DEF CurrentInv, Later
  <2>3. \A o \in DOMAIN refs : o \in DOMAIN pending' => OnCard(o).event <= pending'[o].event
    BY <1>5, <1>7 DEF CurrentInv, Later
  <2> QED
    BY <1>2, <1>6, <2>1, <2>2, <2>3 DEF CurrentInv, Later
<1>12. Records' /\ Gone'
  BY <1>2, <1>6 DEF CurrentInv, Records, Gone
<1>13. Delivering'
  <2>1. SUFFICES ASSUME NEW o \in DOMAIN Published(S)
                 PROVE  /\ o \in DOMAIN pending' => pending'[o] = Published(S)[o]
                        /\ o \in DOMAIN batch \ DOMAIN pending' => batch[o] = Published(S)[o]
                        /\ o \notin DOMAIN pending' \union DOMAIN batch \union missed =>
                              o \in DOMAIN refs /\ OnCard(o) = Published(S)[o]
    BY <1>2, <1>4, <1>6 DEF Delivering
  <2>2. CASE o \in S
    BY <1>5, <2>2 DEF Published
  <2>3. CASE o \notin S
    <3>1. o \in DOMAIN obs.published /\ Published(S)[o] = obs.published[o]
      BY <2>3 DEF Published
    <3> QED
      BY <1>5, <2>3, <3>1 DEF CurrentInv, Delivering
  <2> QED
    BY <2>2, <2>3
<1> QED
  BY <1>10, <1>11, <1>12, <1>13 DEF CurrentInv

\* A send under way is of a setup in the batch.
LEMMA NothingSent ==
    ASSUME CardsInv, sending = {} \/ DOMAIN batch = {}
    PROVE  sending = {} /\ \A o : ~Sending(o)
BY DEF CardsInv, Sent, Sending

\* A view that is skipped is what the card shows: what was recorded is no earlier than what waits,
\* and the card is no later.
LEMMA DueDelivers ==
    ASSUME SetupsInv, CardsInv, CurrentInv, NEW S \in SUBSET DOMAIN pending, Due(S)
    PROVE  CurrentInv'
<1> DEFINE New == {o \in S : ~Showing(o, pending[o])}
<1>1. /\ batch = << >> /\ UNCHANGED <<setupVars, rendered, sending, refs, cards, missed>>
      /\ pending' = Restrict(pending, DOMAIN pending \ S)
      /\ batch' = Restrict(pending, New)
  BY DEF Due
<1>2. DOMAIN batch = {} /\ UNCHANGED <<rows, events, crashes, obs>>
  BY <1>1 DEF setupVars
<1>3. /\ DOMAIN pending' = DOMAIN pending \ S /\ \A o \in DOMAIN pending' : pending'[o] = pending[o]
      /\ DOMAIN batch' = New /\ \A o \in DOMAIN batch' : batch'[o] = pending[o]
  <2>1. New \in SUBSET DOMAIN pending /\ (DOMAIN pending \ S) \in SUBSET DOMAIN pending
    OBVIOUS
  <2> HIDE DEF New
  <2> QED
    BY <1>1, <2>1, RestrictIs
<1>4. New \subseteq S
  OBVIOUS
<1>5. sending = {} /\ \A o : ~Sending(o)
  BY <1>2, NothingSent
<1>6. \A o : OnCard(o)' = OnCard(o) /\ Sending(o)' = Sending(o)
  BY <1>1 DEF OnCard, Sending
<1>7. \A o, v : After(o, v)' <=> After(o, v)
  BY <1>2 DEF After
<1> HIDE DEF New
<1>8. Recorded'
  BY <1>1, <1>2, <1>3, <1>4, <1>7 DEF CurrentInv, Recorded
<1>9. Later'
  BY <1>1, <1>2, <1>3, <1>4, <1>6 DEF CurrentInv, Later
<1>10. Records' /\ Gone'
  BY <1>1, <1>5, <1>6 DEF CurrentInv, Records, Gone
<1>11. ASSUME NEW o \in S, o \notin New
       PROVE  o \in DOMAIN refs /\ OnCard(o) = pending[o]
  <2>1. Showing(o, pending[o])
    BY <1>11 DEF New
  <2>2. CASE o \in DOMAIN rendered
    BY <1>5, <2>1, <2>2 DEF Showing, CurrentInv, Records
  <2>3. CASE o \notin DOMAIN rendered
    <3>1. o \in DOMAIN refs /\ refs[o].view = pending[o]
      BY <2>1, <2>3 DEF Showing
    <3>2. OnCard(o) = refs[o].view \/ refs[o].view.event < OnCard(o).event
      BY <1>5, <3>1 DEF CurrentInv, Records
    <3>3. OnCard(o).event <= pending[o].event /\ OnCard(o).event \in Nat /\ pending[o].event \in Nat
      BY <3>1, ViewFields DEF CurrentInv, Later
    <3> QED
      BY <3>1, <3>2, <3>3
  <2> QED
    BY <2>2, <2>3
<1>12. Delivering'
  <2>1. SUFFICES ASSUME NEW o \in DOMAIN obs.published
                 PROVE  /\ o \in DOMAIN pending' => pending'[o] = obs.published[o]
                        /\ o \in DOMAIN batch' \ DOMAIN pending' => batch'[o] = obs.published[o]
                        /\ o \notin DOMAIN pending' \union DOMAIN batch' \union missed =>
                              o \in DOMAIN refs /\ OnCard(o) = obs.published[o]
    BY <1>1, <1>2, <1>6 DEF Delivering
  <2>2. o \in DOMAIN pending => pending[o] = obs.published[o]
    BY DEF CurrentInv, Delivering
  <2>3. CASE o \in S
    BY <1>3, <1>4, <1>11, <2>2, <2>3
  <2>4. CASE o \notin S
    BY <1>2, <1>3, <1>4, <2>2, <2>4 DEF CurrentInv, Delivering
  <2> QED
    BY <2>3, <2>4
<1> QED
  BY <1>8, <1>9, <1>10, <1>12 DEF CurrentInv

\* A card that is posted shows the view that is sent.
LEMMA PostDelivers ==
    ASSUME SetupsInv, CardsInv, CurrentInv, NEW o \in DOMAIN batch, Post(o)
    PROVE  CurrentInv'
<1>1. /\ sending = {} /\ o \notin DOMAIN refs
      /\ cards' = Append(cards, [setup |-> o, view |-> batch[o], deleted |-> FALSE])
      /\ sending' = {[setup |-> o, message |-> Len(cards')]}
      /\ UNCHANGED <<rows, events, crashes, obs, pending, rendered, batch, refs, missed>>
  BY DEF Post, setupVars
<1>2. PICK card : card = [setup |-> o, view |-> batch[o], deleted |-> FALSE]
  OBVIOUS
<1>3. o \in Origins /\ batch[o] \in Views
  BY ViewFields, RowOf
<1>4. card \in Card
  BY <1>2, <1>3 DEF Card
<1>5. cards \in Seq(Card) /\ cards' = Append(cards, card)
  BY <1>1, <1>2 DEF CardsInv, Posted
<1>6. /\ \A n \in DOMAIN cards : cards'[n] = cards[n]
      /\ cards'[Len(cards')] = card
  BY <1>4, <1>5
<1>7. \A x \in DOMAIN refs : OnCard(x)' = OnCard(x) /\ cards'[refs'[x].message] = cards[refs[x].message]
  BY <1>1, <1>6, ViewFields DEF OnCard
<1>8. \A x : ~Sending(x) /\ (Sending(x)' => x = o)
  BY <1>1 DEF Sending
<1>9. \A s \in sending' : s.setup = o /\ cards'[s.message] = card
  BY <1>1, <1>6
<1>10. \A x, v : After(x, v)' <=> After(x, v)
  BY <1>1 DEF After
<1>11. Recorded'
  BY <1>1, <1>10 DEF CurrentInv, Recorded
<1>12. Later'
  BY <1>1, <1>7 DEF CurrentInv, Later
<1>13. Records'
  <2>1. \A s \in sending' : cards'[s.message].view = batch[s.setup]
    BY <1>2, <1>9
  <2>2. \A x \in DOMAIN refs : OnCard(x)' = refs[x].view \/ refs[x].view.event < OnCard(x)'.event
    BY <1>7, <1>8 DEF CurrentInv, Records
  <2>3. \A x \in DOMAIN rendered : x \in DOMAIN refs /\ refs[x].view = rendered[x] /\ OnCard(x)' = rendered[x]
    BY <1>7, <1>8 DEF CurrentInv, Records
  <2> QED
    BY <1>1, <2>1, <2>2, <2>3 DEF Records
<1>14. Gone'
  <2>1. \A x \in DOMAIN refs \ missed : ~cards'[refs'[x].message].deleted
    BY <1>7 DEF CurrentInv, Gone
  <2>2. \A s \in sending' : ~cards'[s.message].deleted
    BY <1>2, <1>9
  <2> QED
    BY <1>1, <2>1, <2>2 DEF Gone
<1>15. Delivering'
  BY <1>1, <1>7 DEF CurrentInv, Delivering
<1> QED
  BY <1>11, <1>12, <1>13, <1>14, <1>15 DEF CurrentInv

\* So does one that is edited; it is no earlier than what it showed.
LEMMA PatchDelivers ==
    ASSUME SetupsInv, CardsInv, CurrentInv, NEW o \in DOMAIN batch, Patch(o)
    PROVE  CurrentInv'
<1>1. /\ sending = {} /\ o \in DOMAIN refs /\ ~cards[refs[o].message].deleted
      /\ cards' = [cards EXCEPT ![refs[o].message].view = batch[o]]
      /\ sending' = {[setup |-> o, message |-> refs[o].message]}
      /\ UNCHANGED <<rows, events, crashes, obs, pending, rendered, batch, refs, missed>>
  BY DEF Patch, setupVars
<1>2. PICK m : m = refs[o].message
  OBVIOUS
<1>3. m \in DOMAIN cards /\ cards[m].setup = o
  BY <1>1, <1>2, ViewFields
<1>4. PICK card : card = [cards[m] EXCEPT !.view = batch[o]]
  OBVIOUS
<1>5. card.view = batch[o] /\ card.deleted = cards[m].deleted
  BY <1>3, <1>4, CardFields
<1>6. cards' = [cards EXCEPT ![m] = card] /\ cards \in Seq(Card)
  BY <1>1, <1>2, <1>4 DEF CardsInv, Posted
<1>7. cards'[m] = card /\ \A n \in DOMAIN cards : n # m => cards'[n] = cards[n]
  BY <1>3, <1>6
<1>8. \A x \in DOMAIN refs : x # o => OnCard(x)' = OnCard(x) /\ cards'[refs'[x].message] = cards[refs[x].message]
  BY <1>1, <1>3, <1>7, ViewFields DEF OnCard
<1>9. OnCard(o)' = batch[o] /\ ~cards'[refs'[o].message].deleted
  BY <1>1, <1>2, <1>5, <1>7 DEF OnCard
<1>10. \A x : ~Sending(x) /\ (Sending(x)' <=> x = o)
  BY <1>1 DEF Sending
<1>11. \A s \in sending' : s.setup = o /\ cards'[s.message] = card
  BY <1>1, <1>2, <1>7
<1>12. \A x, v : After(x, v)' <=> After(x, v)
  BY <1>1 DEF After
<1>13. Recorded'
  BY <1>1, <1>12 DEF CurrentInv, Recorded
<1>14. Later'
  <2>1. refs[o].view.event <= batch[o].event
    <3>1. /\ refs[o].view \in Views /\ refs[o].view.event <= OnCard(o).event /\ OnCard(o).event <= batch[o].event
      BY <1>1 DEF CurrentInv, Later
    <3>2. refs[o].view.event \in Nat /\ OnCard(o).event \in Nat /\ batch[o].event \in Nat
      BY <1>1, <3>1, ViewFields DEF Views
    <3> QED
      BY <3>1, <3>2
  <2>2. SUFFICES ASSUME NEW x \in DOMAIN refs
                 PROVE  /\ refs[x].view \in Views /\ refs[x].view.event <= OnCard(x)'.event
                        /\ OnCard(x)'.event <= Len(events[x])
                        /\ x \in DOMAIN pending => OnCard(x)'.event <= pending[x].event
                        /\ x \in DOMAIN batch => OnCard(x)'.event <= batch[x].event
    BY <1>1 DEF CurrentInv, Later
  <2>3. CASE x = o
    BY <1>9, <2>1, <2>3, ViewFields DEF CurrentInv, Later
  <2>4. CASE x # o
    BY <1>8, <2>4 DEF CurrentInv, Later
  <2> QED
    BY <2>3, <2>4
<1>15. Records'
  <2>1. \A s \in sending' : cards'[s.message].view = batch[s.setup]
    BY <1>5, <1>11
  <2>2. \A x \in DOMAIN refs : Sending(x)' \/ OnCard(x)' = refs[x].view \/ refs[x].view.event < OnCard(x)'.event
    BY <1>8, <1>10 DEF CurrentInv, Records
  <2>3. \A x \in DOMAIN rendered : /\ x \in DOMAIN refs /\ refs[x].view = rendered[x]
                                   /\ Sending(x)' \/ OnCard(x)' = rendered[x]
    BY <1>8, <1>10 DEF CurrentInv, Records
  <2> QED
    BY <1>1, <2>1, <2>2, <2>3 DEF Records
<1>16. Gone'
  <2>1. \A x \in DOMAIN refs \ missed : ~cards'[refs'[x].message].deleted
    BY <1>8, <1>9 DEF CurrentInv, Gone
  <2>2. \A s \in sending' : ~cards'[s.message].deleted
    BY <1>1, <1>2, <1>5, <1>11
  <2> QED
    BY <1>1, <2>1, <2>2 DEF Gone
<1>17. Delivering'
  <2>1. SUFFICES ASSUME NEW x \in DOMAIN obs.published, x \notin DOMAIN pending \union DOMAIN batch \union missed
                 PROVE  x \in DOMAIN refs /\ OnCard(x)' = obs.published[x]
    BY <1>1 DEF CurrentInv, Delivering
  <2>2. x # o
    BY <2>1
  <2> QED
    BY <1>8, <2>1, <2>2 DEF CurrentInv, Delivering
<1> QED
  BY <1>13, <1>14, <1>15, <1>16, <1>17 DEF CurrentInv

\* A card that is gone is missed, and its view with it.
LEMMA NotFoundDelivers ==
    ASSUME SetupsInv, CardsInv, CurrentInv, NEW o \in DOMAIN batch, NotFound(o)
    PROVE  CurrentInv'
<1>1. /\ sending = {} /\ o \in DOMAIN refs
      /\ refs' = Restrict(refs, DOMAIN refs \ {o})
      /\ rendered' = Restrict(rendered, DOMAIN rendered \ {o})
      /\ batch' = Restrict(batch, DOMAIN batch \ {o})
      /\ missed' = missed \union {o}
      /\ UNCHANGED <<rows, events, crashes, obs, pending, sending, cards>>
  BY DEF NotFound, setupVars
<1>2. /\ DOMAIN refs' = DOMAIN refs \ {o} /\ \A x \in DOMAIN refs' : refs'[x] = refs[x]
      /\ DOMAIN rendered' = DOMAIN rendered \ {o} /\ \A x \in DOMAIN rendered' : rendered'[x] = rendered[x]
      /\ DOMAIN batch' = DOMAIN batch \ {o} /\ \A x \in DOMAIN batch' : batch'[x] = batch[x]
  BY <1>1, RestrictIs
<1>3. \A x \in DOMAIN refs' : OnCard(x)' = OnCard(x)
  BY <1>1, <1>2 DEF OnCard
<1>4. \A x : ~Sending(x)
  BY <1>1 DEF Sending
<1>5. \A x, v : After(x, v)' <=> After(x, v)
  BY <1>1 DEF After
<1>6. Recorded'
  BY <1>1, <1>2, <1>5 DEF CurrentInv, Recorded
<1>7. Later'
  BY <1>1, <1>2, <1>3 DEF CurrentInv, Later
<1>8. Records' /\ Gone'
  <2>1. \A x \in DOMAIN refs' : OnCard(x)' = refs'[x].view \/ refs'[x].view.event < OnCard(x)'.event
    BY <1>2, <1>3, <1>4 DEF CurrentInv, Records
  <2>2. \A x \in DOMAIN rendered' : x \in DOMAIN refs' /\ refs'[x].view = rendered'[x] /\ OnCard(x)' = rendered'[x]
    BY <1>2, <1>3, <1>4 DEF CurrentInv, Records
  <2>3. \A x \in DOMAIN refs' \ missed' : ~cards[refs'[x].message].deleted
    BY <1>1, <1>2 DEF CurrentInv, Gone
  <2> QED
    BY <1>1, <2>1, <2>2, <2>3 DEF Records, Gone
<1>9. Delivering'
  BY <1>1, <1>2, <1>3 DEF CurrentInv, Delivering
<1> QED
  BY <1>6, <1>7, <1>8, <1>9 DEF CurrentInv

\* What is recorded is what was sent, and what the card shows.
LEMMA RecordDelivers ==
    ASSUME SetupsInv, CardsInv, CurrentInv, NEW s \in sending, Record(s)
    PROVE  CurrentInv'
<1>1. PICK o : o = s.setup
  OBVIOUS
<1>2. /\ refs' = Put(refs, o, [message |-> s.message, view |-> batch[o]])
      /\ rendered' = Put(rendered, o, batch[o])
      /\ batch' = Restrict(batch, DOMAIN batch \ {o})
      /\ sending' = {} /\ missed' = (IF cards[s.message].deleted THEN missed ELSE missed \ {o})
      /\ UNCHANGED <<rows, events, crashes, obs, pending, cards>>
  BY <1>1 DEF Record, Ref, setupVars
<1>3. o \in DOMAIN batch /\ \A t \in sending : t = s
  BY <1>1 DEF CardsInv, Sent
<1>4. cards[s.message].view = batch[o]
  BY <1>1 DEF CurrentInv, Records
<1>5. /\ DOMAIN refs' = DOMAIN refs \union {o} /\ refs'[o] = [message |-> s.message, view |-> batch[o]]
      /\ \A x \in DOMAIN refs : x # o => refs'[x] = refs[x]
  BY <1>2 DEF Put
<1>6. /\ DOMAIN rendered' = DOMAIN rendered \union {o} /\ rendered'[o] = batch[o]
      /\ \A x \in DOMAIN rendered : x # o => rendered'[x] = rendered[x]
  BY <1>2 DEF Put
<1>7. DOMAIN batch' = DOMAIN batch \ {o} /\ \A x \in DOMAIN batch' : batch'[x] = batch[x]
  BY <1>2, RestrictIs
<1>8. refs'[o].view = batch[o] /\ refs'[o].message = s.message /\ OnCard(o)' = batch[o]
  BY <1>2, <1>4, <1>5 DEF OnCard
<1>9. \A x \in DOMAIN refs : x # o => OnCard(x)' = OnCard(x)
  BY <1>2, <1>5 DEF OnCard
<1>10. \A x : x # o => ~Sending(x)
  BY <1>1, <1>3 DEF Sending
<1>11. \A x, v : After(x, v)' <=> After(x, v)
  BY <1>2 DEF After
<1>12. Recorded'
  <2>1. crashes = 0 => \A x \in DOMAIN refs' : After(x, refs'[x].view)
    BY <1>3, <1>5, <1>8 DEF CurrentInv, Recorded
  <2>2. crashes = 0 => \A x \in DOMAIN batch' : After(x, batch'[x])
    BY <1>7 DEF CurrentInv, Recorded
  <2> QED
    BY <1>2, <1>11, <2>1, <2>2 DEF CurrentInv, Recorded
<1>13. Later'
  <2>1. SUFFICES ASSUME NEW x \in DOMAIN refs'
                 PROVE  /\ refs'[x].view \in Views /\ refs'[x].view.event <= OnCard(x)'.event
                        /\ OnCard(x)'.event <= Len(events[x])
                        /\ x \in DOMAIN pending => OnCard(x)'.event <= pending[x].event
                        /\ x \in DOMAIN batch' => OnCard(x)'.event <= batch'[x].event
    BY <1>2, <1>7 DEF CurrentInv, Later
  <2>2. CASE x = o
    BY <1>3, <1>7, <1>8, <2>2, ViewFields DEF CurrentInv, Later
  <2>3. CASE x # o
    BY <1>5, <1>7, <1>9, <2>3 DEF CurrentInv, Later
  <2> QED
    BY <2>2, <2>3
<1>14. Records'
  <2>1. \A x \in DOMAIN refs' : OnCard(x)' = refs'[x].view \/ refs'[x].view.event < OnCard(x)'.event
    BY <1>5, <1>8, <1>9, <1>10 DEF CurrentInv, Records
  <2>2. \A x \in DOMAIN rendered' : x \in DOMAIN refs' /\ refs'[x].view = rendered'[x] /\ OnCard(x)' = rendered'[x]
    BY <1>5, <1>6, <1>8, <1>9, <1>10 DEF CurrentInv, Records
  <2> QED
    BY <1>2, <2>1, <2>2 DEF Records
<1>15. Gone'
  <2>1. SUFFICES ASSUME NEW x \in DOMAIN refs' \ missed'
                 PROVE  ~cards[refs'[x].message].deleted
    BY <1>2 DEF Gone
  <2>2. CASE x = o
    BY <1>1, <1>2, <1>8, <2>2 DEF CurrentInv, Gone
  <2>3. CASE x # o
    BY <1>2, <1>5, <2>3 DEF CurrentInv, Gone
  <2> QED
    BY <2>2, <2>3
<1>16. Delivering'
  <2>1. SUFFICES ASSUME NEW x \in DOMAIN obs.published
                 PROVE  /\ x \in DOMAIN pending => pending[x] = obs.published[x]
                        /\ x \in DOMAIN batch' \ DOMAIN pending => batch'[x] = obs.published[x]
                        /\ x \notin DOMAIN pending \union DOMAIN batch' \union missed' =>
                              x \in DOMAIN refs' /\ OnCard(x)' = obs.published[x]
    BY <1>2 DEF Delivering
  <2>2. CASE x = o
    BY <1>3, <1>5, <1>7, <1>8, <2>2 DEF CurrentInv, Delivering
  <2>3. CASE x # o
    BY <1>2, <1>5, <1>7, <1>9, <2>3 DEF CurrentInv, Delivering
  <2> QED
    BY <2>2, <2>3
<1> QED
  BY <1>12, <1>13, <1>14, <1>15, <1>16 DEF CurrentInv

\* The setups of a failed send are missed.
LEMMA SendFailsDelivers ==
    ASSUME CardsInv, CurrentInv, NEW S \in SUBSET DOMAIN batch, SendFails(S)
    PROVE  CurrentInv'
<1>1. /\ batch' = Restrict(batch, DOMAIN batch \ S) /\ missed' = missed \union S /\ sending = {}
      /\ UNCHANGED <<rows, events, crashes, obs, pending, rendered, sending, refs, cards>>
  BY DEF SendFails, setupVars
<1>2. DOMAIN batch' = DOMAIN batch \ S /\ \A x \in DOMAIN batch' : batch'[x] = batch[x]
  BY <1>1, RestrictIs
<1>3. \A x : OnCard(x)' = OnCard(x) /\ Sending(x)' = Sending(x)
  BY <1>1 DEF OnCard, Sending
<1>4. \A x, v : After(x, v)' <=> After(x, v)
  BY <1>1 DEF After
<1>5. Recorded'
  BY <1>1, <1>2, <1>4 DEF CurrentInv, Recorded
<1>6. Later'
  BY <1>1, <1>2, <1>3 DEF CurrentInv, Later
<1>7. Records' /\ Gone'
  BY <1>1, <1>3 DEF CurrentInv, Records, Gone
<1>8. Delivering'
  BY <1>1, <1>2, <1>3 DEF CurrentInv, Delivering
<1> QED
  BY <1>5, <1>6, <1>7, <1>8 DEF CurrentInv

\* So is the setup whose card is deleted.
LEMMA DeleteCardDelivers ==
    ASSUME SetupsInv, CardsInv, CurrentInv, NEW m \in DOMAIN cards, DeleteCard(m)
    PROVE  CurrentInv'
<1>1. /\ cards' = [cards EXCEPT ![m].deleted = TRUE] /\ missed' = missed \union {cards[m].setup}
      /\ UNCHANGED <<rows, events, crashes, obs, pending, rendered, batch, sending, refs>>
  BY DEF DeleteCard, setupVars
<1>2. PICK card : card = [cards[m] EXCEPT !.deleted = TRUE]
  OBVIOUS
<1>3. card.view = cards[m].view
  BY <1>2, CardFields
<1>4. cards' = [cards EXCEPT ![m] = card] /\ cards \in Seq(Card)
  BY <1>1, <1>2 DEF CardsInv, Posted
<1>5. cards'[m] = card /\ \A n \in DOMAIN cards : n # m => cards'[n] = cards[n]
  BY <1>4
<1>6. \A n \in DOMAIN cards : cards'[n].view = cards[n].view
  BY <1>3, <1>5
<1>7. \A x \in DOMAIN refs : OnCard(x)' = OnCard(x)
  BY <1>1, <1>6, ViewFields DEF OnCard
<1>8. \A x : Sending(x)' = Sending(x)
  BY <1>1 DEF Sending
<1>9. \A x, v : After(x, v)' <=> After(x, v)
  BY <1>1 DEF After
<1>10. Recorded'
  BY <1>1, <1>9 DEF CurrentInv, Recorded
<1>11. Later'
  BY <1>1, <1>7 DEF CurrentInv, Later
<1>12. \A s \in sending : s.message \in DOMAIN cards /\ cards[s.message].setup = s.setup
  BY DEF CardsInv, Sent
<1>13. Records'
  <2>1. \A s \in sending : cards'[s.message].view = batch[s.setup]
    BY <1>6, <1>12 DEF CurrentInv, Records
  <2> QED
    BY <1>1, <1>7, <1>8, <2>1 DEF CurrentInv, Records
<1>14. Gone'
  <2>1. \A x \in DOMAIN refs \ missed' : ~cards'[refs[x].message].deleted
    BY <1>1, <1>5, ViewFields DEF CurrentInv, Gone
  <2>2. \A s \in sending : cards'[s.message].deleted => s.setup \in missed'
    BY <1>1, <1>5, <1>12 DEF CurrentInv, Gone
  <2> QED
    BY <1>1, <2>1, <2>2 DEF Gone
<1>15. Delivering'
  BY <1>1, <1>7 DEF CurrentInv, Delivering
<1> QED
  BY <1>10, <1>11, <1>13, <1>14, <1>15 DEF CurrentInv

\* A crash, the first, leaves a card as recorded or as sent after that, and then later: two views
\* after the same event are the same.
LEMMA DieDelivers ==
    ASSUME crashes' <= 1, SetupsInv, CardsInv, CurrentInv, Die
    PROVE  CurrentInv'
<1>1. /\ pending' = << >> /\ rendered' = << >> /\ batch' = << >> /\ sending' = {}
      /\ crashes' = crashes + 1 /\ obs' = Fresh
      /\ UNCHANGED <<rows, events, refs, cards, missed>>
  BY DEF Die, Crash
<1>2. crashes = 0 /\ crashes' # 0
  BY <1>1 DEF SetupsInv, Explained
<1>3. DOMAIN pending' = {} /\ DOMAIN rendered' = {} /\ DOMAIN batch' = {} /\ DOMAIN obs'.published = {}
  BY <1>1 DEF Fresh
<1>4. \A x : OnCard(x)' = OnCard(x)
  BY <1>1 DEF OnCard
<1>5. Recorded'
  BY <1>2 DEF Recorded
<1>6. Later'
  BY <1>1, <1>3, <1>4 DEF CurrentInv, Later
<1>7. ASSUME NEW o \in DOMAIN refs
      PROVE  OnCard(o) = refs[o].view \/ refs[o].view.event < OnCard(o).event
  <2>1. CASE Sending(o)
    <3>1. PICK s \in sending : s.setup = o
      BY <2>1 DEF Sending
    <3>2. o \in DOMAIN batch /\ refs[o].message = s.message
      BY <3>1 DEF CardsInv, Sent
    <3>3. OnCard(o) = batch[o]
      BY <3>1, <3>2 DEF OnCard, CurrentInv, Records
    <3>4. After(o, batch[o]) /\ After(o, refs[o].view)
      BY <1>2, <3>2 DEF CurrentInv, Recorded
    <3>5. refs[o].view \in Views /\ refs[o].view.event <= OnCard(o).event
      BY DEF CurrentInv, Later
    <3>6. OnCard(o) \in Views /\ OnCard(o).event \in Nat /\ refs[o].view.event \in Nat
      BY <3>5, ViewFields DEF Views
    <3>7. refs[o].view.event = OnCard(o).event => OnCard(o) = refs[o].view
      BY <3>3, <3>4, <3>5, <3>6, SameView
    <3> QED
      BY <3>5, <3>6, <3>7
  <2>2. CASE ~Sending(o)
    BY <2>2 DEF CurrentInv, Records
  <2> QED
    BY <2>1, <2>2
<1>8. Records'
  BY <1>1, <1>3, <1>4, <1>7 DEF Records
<1>9. Gone'
  BY <1>1 DEF CurrentInv, Gone
<1>10. Delivering'
  BY <1>3 DEF Delivering
<1> QED
  BY <1>5, <1>6, <1>8, <1>9, <1>10 DEF CurrentInv

\* Every step keeps the views on their way.
LEMMA CurrentStep ==
    ASSUME crashes' <= 1, SetupsInv, CardsInv, CurrentInv, [Next]_vars
    PROVE  CurrentInv'
<1>1. CASE Observe
  <2>1. UNCHANGED cardVars /\ ObserverNext
    BY <1>1 DEF Observe
  <2>2. Memory(obs)
    BY DEF SetupsInv, Observing
  <2>3. crashes' = crashes /\ obs'.published = obs.published
    <3>1. CASE TakeBar
      BY <2>2, <3>1 DEF TakeBar, Memory
    <3>2. CASE EvaluateOne
      BY <2>2, <3>2 DEF EvaluateOne, Memory
    <3>3. CASE LookForNew
      BY <2>2, <3>3 DEF LookForNew, Memory
    <3>4. CASE CreateOne
      BY <2>2, <3>4 DEF CreateOne, Memory
    <3>5. CASE Commit
      BY <3>5, Committing
    <3> QED
      BY <2>1, <3>1, <3>2, <3>3, <3>4, <3>5 DEF ObserverNext
  <2> QED
    BY <2>1, <2>3, ViewsStay
<1>2. CASE Publish
  BY <1>2, PublishDelivers
<1>3. CASE BarCloses /\ UNCHANGED cardVars
  <2>1. crashes' = crashes /\ obs' = obs
    BY <1>3 DEF BarCloses
  <2> QED
    BY <1>3, <2>1, ViewsStay
<1>4. CASE Restart /\ UNCHANGED cardVars
  <2>1. crashes' = crashes /\ ~up /\ \E w : obs' = [obs EXCEPT !.warmTo = w]
    BY <1>4 DEF Restart
  <2>2. obs = Fresh
    BY <2>1 DEF SetupsInv, Observing
  <2>3. obs'.published = << >>
    BY <2>1, <2>2 DEF Fresh
  <2> QED
    BY <1>4, <2>1, <2>3, ViewsStay
<1>5. CASE \E S \in SUBSET DOMAIN pending : Due(S)
  BY <1>5, DueDelivers
<1>6. CASE \E o \in DOMAIN batch : Post(o) \/ Patch(o) \/ NotFound(o)
  BY <1>6, PostDelivers, PatchDelivers, NotFoundDelivers
<1>7. CASE \E s \in sending : Record(s)
  BY <1>7, RecordDelivers
<1>8. CASE \E S \in (SUBSET DOMAIN batch) \ {{}} : SendFails(S)
  BY <1>8, SendFailsDelivers
<1>9. CASE \E m \in DOMAIN cards : DeleteCard(m)
  BY <1>9, DeleteCardDelivers
<1>10. CASE Die
  BY <1>10, DieDelivers
<1>11. CASE UNCHANGED vars
  <2>1. UNCHANGED cardVars /\ crashes' = crashes /\ obs' = obs
    BY <1>11 DEF vars, setupVars
  <2> QED
    BY <2>1, ViewsStay
<1> QED
  BY <1>1, <1>2, <1>3, <1>4, <1>5, <1>6, <1>7, <1>8, <1>9, <1>10, <1>11 DEF Next

\* At the start there is no view.
LEMMA CurrentStart ==
    ASSUME Init
    PROVE  CurrentInv
<1>1. /\ DOMAIN pending = {} /\ DOMAIN rendered = {} /\ DOMAIN batch = {} /\ sending = {}
      /\ DOMAIN refs = {} /\ DOMAIN obs.published = {}
  BY DEF Init, SetupInit, Fresh
<1> QED
  BY <1>1 DEF CurrentInv, Recorded, Later, Records, Gone, Delivering

\* The number of crashes does not go back.
LEMMA CrashesGrow ==
    ASSUME SetupsInv, [Next]_vars
    PROVE  crashes <= crashes'
<1>1. crashes \in Nat
  BY DEF SetupsInv, Explained
<1>2. Crash => crashes' = crashes + 1
  BY DEF Crash
<1>3. TakeBar \/ EvaluateOne \/ LookForNew \/ CreateOne \/ Commit => crashes' = crashes
  BY DEF TakeBar, EvaluateOne, LookForNew, CreateOne, Commit
<1>4. \A S : FinishBar(S) \/ HigherBar(S) => crashes' = crashes
  BY DEF FinishBar, HigherBar
<1>5. BarCloses \/ Restart \/ UNCHANGED setupVars => crashes' = crashes
  BY DEF BarCloses, Restart, setupVars
<1> QED
  BY <1>1, <1>2, <1>3, <1>4, <1>5, SetupSteps

\* Once the queue is empty, the card of every open setup shows its state and last event, whatever
\* was coalesced, replaced or skipped as unchanged, and wherever the process crashed, as long as it
\* did so once at most; only a card that was lost or deleted on the way is behind.
THEOREM CardsCatchUp == Spec => [](crashes <= 1 => OpenCardsCurrent)
<1> DEFINE Inv == SetupsInv /\ CardsInv /\ WatchInv /\ (crashes <= 1 => CurrentInv)
<1>1. Init => Inv
  BY SetupsStart, CardsStart, WatchStart, CurrentStart DEF Init
<1>2. Inv /\ [Next]_vars => Inv'
  <2> SUFFICES ASSUME Inv, [Next]_vars
               PROVE  Inv'
    OBVIOUS
  <2>1. SetupsInv' /\ CardsInv' /\ WatchInv'
    BY SetupsStep, CardsStep, WatchStep
  <2>2. crashes <= crashes' /\ crashes \in Nat /\ crashes' \in Nat
    BY <2>1, CrashesGrow DEF SetupsInv, Explained
  <2>3. crashes' <= 1 => CurrentInv'
    BY <2>2, CurrentStep
  <2> QED
    BY <2>1, <2>3
<1>3. Inv => (crashes <= 1 => OpenCardsCurrent)
  <2> SUFFICES ASSUME Inv, crashes <= 1, AllSent, obs.published # << >>, NEW o \in Open, o \notin missed
               PROVE  ShownBy(o)
    BY DEF OpenCardsCurrent
  <2>1. obs.phase = "idle" /\ DOMAIN pending = {} /\ DOMAIN batch = {}
    BY DEF AllSent
  <2>2. o \in DOMAIN obs.published /\ obs.published[o] = View(o)
    BY <2>1 DEF WatchInv, Announced
  <2>3. o \in DOMAIN refs /\ OnCard(o) = View(o)
    BY <2>1, <2>2 DEF CurrentInv, Delivering
  <2>4. ~cards[refs[o].message].deleted
    BY <2>3 DEF CurrentInv, Gone
  <2> QED
    BY <2>3, <2>4 DEF ShownBy, OnCard
<1> QED
  BY <1>1, <1>2, <1>3, PTL DEF Spec
=============================================================================
