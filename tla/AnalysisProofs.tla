---------------------------- MODULE AnalysisProofs ----------------------------
(* Proofs about the observer's analysis (Analysis), for every configuration,      *)
(* calendar and sequence of bars.                                                 *)
EXTENDS Analysis, Basics

-----------------------------------------------------------------------------
(* What is in the table of candles and in the observer's memory *)

Candle == [bar : Int, closes : Int, open : Int, high : Int, low : Int, close : Int]
Lists == Seq([slot : Int, shapes : SUBSET Shapes])
Course == [bars : Lists, crashes : Nat, higher : Nat, fails : Nat,
           warm : Nat \ {0}]

\* The fields of the observer's memory.
Memory(o) ==
    o = [from |-> o.from, done |-> o.done, pc |-> o.pc, date |-> o.date,
         ind |-> o.ind, structure |-> o.structure, ema |-> o.ema, rsi |-> o.rsi,
         breakout |-> o.breakout, sessions |-> o.sessions, reads |-> o.reads, present |-> o.present,
         found |-> o.found, pending |-> o.pending, left |-> o.left, settled |-> o.settled, barsFinal |-> o.barsFinal,
         sessionSeen |-> o.sessionSeen, said |-> o.said, unsteady |-> o.unsteady]

\* The candles are those of the path, in the order of their slots, a slot long.
Fed ==
    /\ path \in Course
    /\ \A i, j \in DOMAIN path.bars : i < j => path.bars[i].slot < path.bars[j].slot
    /\ market \in Seq(Candle) /\ Len(market) <= Len(path.bars)
    /\ \A i \in DOMAIN market : market[i].bar = path.bars[i].slot /\ market[i].closes = market[i].bar + 1

Remembering ==
    /\ Memory(obs)
    /\ obs.from \in Nat \ {0} /\ obs.done \in Nat /\ obs.from <= obs.done + 1 /\ obs.done <= Len(market)
    /\ obs.pc \in {"idle", "freeze", "settle", "mark"}

StateInv == Fed /\ Remembering

\* A process that starts remembers nothing, and begins at its first bar.
LEMMA FreshMemory ==
    ASSUME NEW from
    PROVE  /\ Memory(Fresh(from)) /\ Fresh(from).from = from /\ Fresh(from).done = from - 1
           /\ Fresh(from).pc = "idle" /\ Fresh(from).left = {} /\ Fresh(from).settled = {}
           /\ Fresh(from).barsFinal = {} /\ Fresh(from).sessionSeen = {}
           /\ Fresh(from).reads = [t \in Timeframes |-> "UNAVAILABLE"]
           /\ Fresh(from).sessions = [k \in {} |-> None]
BY DEF Fresh, Memory

\* on_closed_candle hands one bar on to the outcome service.
LEMMA TakeKeeps ==
    ASSUME Memory(obs), TakeBar
    PROVE  /\ Memory(obs') /\ obs'.from = obs.from /\ obs'.done = obs.done + 1 /\ obs'.pc = "freeze"
           /\ obs'.left = obs.left /\ obs'.settled = obs.settled /\ obs'.barsFinal = obs.barsFinal
           /\ obs'.sessionSeen = obs.sessionSeen
           /\ UNCHANGED <<path, market, outcomes>>
BY DEF TakeBar, Memory

\* Freezing the snapshots changes no read and no running session.
LEMMA FreezeKeeps ==
    ASSUME Memory(obs), Freeze
    PROVE  Memory(obs') /\ obs'.from = obs.from /\ obs'.done = obs.done /\ obs'.pc = "settle"
           /\ obs'.reads = obs.reads /\ obs'.sessions = obs.sessions
BY DEF Freeze, Memory

\* Nor does visiting one snapshot of update_pending.
LEMMA SettleKeeps ==
    ASSUME Memory(obs), NEW snap, Settle(snap)
    PROVE  Memory(obs') /\ obs'.from = obs.from /\ obs'.done = obs.done /\ obs'.pc \in {"settle", "mark"}
           /\ obs'.reads = obs.reads /\ obs'.sessions = obs.sessions
<1>1. PICK skip, done, bars :
          obs' = IF skip THEN [obs EXCEPT !.left = @ \ {snap}]
                 ELSE [obs EXCEPT !.pc = IF done THEN "mark" ELSE "settle",
                                  !.left = IF done THEN @ ELSE @ \ {snap},
                                  !.settled = IF done THEN {snap} ELSE {},
                                  !.barsFinal = IF bars THEN @ \cup {snap} ELSE @,
                                  !.sessionSeen = @ \cup {snap}]
  BY Zenon DEF Settle
<1>2. obs.pc = "settle"
  BY DEF Settle
<1> QED
  BY <1>1, <1>2 DEF Memory

\* Nor does its marker.
LEMMA MarkKeeps ==
    ASSUME Memory(obs), Mark
    PROVE  Memory(obs') /\ obs'.from = obs.from /\ obs'.done = obs.done /\ obs'.pc = "settle"
           /\ obs'.reads = obs.reads /\ obs'.sessions = obs.sessions
BY DEF Mark, Memory

\* Nor does the end of the pass.
LEMMA FinishKeeps ==
    ASSUME Memory(obs), Finish
    PROVE  Memory(obs') /\ obs'.from = obs.from /\ obs'.done = obs.done /\ obs'.pc = "idle"
           /\ obs'.reads = obs.reads /\ obs'.sessions = obs.sessions
           /\ obs'.left = obs.left /\ obs'.settled = obs.settled /\ obs'.barsFinal = obs.barsFinal
           /\ obs'.pending = obs.pending
BY DEF Finish, Memory

\* A bar of a higher timeframe changes the reads only.
LEMMA HigherKeeps ==
    ASSUME Memory(obs), NEW t, NEW b, HigherBar(t, b)
    PROVE  Memory(obs') /\ obs'.from = obs.from /\ obs'.done = obs.done /\ obs'.pc = obs.pc
           /\ obs'.sessions = obs.sessions
           /\ obs'.left = obs.left /\ obs'.settled = obs.settled /\ obs'.barsFinal = obs.barsFinal
           /\ obs'.pending = obs.pending
BY DEF HigherBar, Memory

-----------------------------------------------------------------------------
(* The calendar's days *)

Day(x) ==
    /\ x = [open |-> x.open, reason |-> x.reason, start |-> x.start, end |-> x.end]
    /\ x.start \in Int /\ x.end \in Int

\* The greatest of a finite set of integers is one of them and at least each.
LEMMA GreatestIs ==
    ASSUME NEW S \in SUBSET Int, IsFiniteSet(S), S # {}
    PROVE  Cal!Max(S) \in S /\ \A n \in S : n <= Cal!Max(S)
<1>1. \E m \in S : \A n \in S : n <= m
  BY FiniteGreatest
<1>2. \E m \in S : \A n \in S : m >= n
  <2>1. \A m, n \in S : n <= m => m >= n
    OBVIOUS
  <2> QED
    BY <1>1, <2>1
<1>3. Cal!Max(S) \in S /\ \A n \in S : Cal!Max(S) >= n
  BY <1>2 DEF Cal!Max
<1> QED
  BY <1>3

\* The calendar's usual hours are times of day.
LEMMA UsualHours ==
    ASSUME NEW d \in Int
    PROVE  /\ Cal!DefaultTimes(Calendar) \in Cal!TimesOfDay /\ Cal!SessionTimes(Calendar, d) \in Cal!TimesOfDay
           /\ Cal!RegularEnd(Calendar, d) \in Nat
<1> USE CalendarAssumption
<1>1. Cal!DefaultTimes(Calendar) \in Cal!TimesOfDay
  <2>1. CASE DOMAIN Calendar.session = {}
    BY <2>1 DEF Cal!DefaultTimes, Cal!IsCalendar
  <2>2. CASE DOMAIN Calendar.session # {}
    <3> DEFINE Y == DOMAIN Calendar.session
    <3>1. IsFiniteSet(Y)
      BY DEF Cal!IsCalendar, Cal!IsFiniteSet, IsFiniteSet
    <3>2. Y \in SUBSET Int /\ Y # {}
      BY <2>2 DEF Cal!IsCalendar
    <3>3. Cal!Max(Y) \in Y
      BY <3>1, <3>2, GreatestIs
    <3> QED
      BY <2>2, <3>3 DEF Cal!DefaultTimes, Cal!IsCalendar
  <2> QED
    BY <2>1, <2>2
<1>2. Cal!SessionTimes(Calendar, d) \in Cal!TimesOfDay
  BY <1>1 DEF Cal!SessionTimes, Cal!IsCalendar
<1>3. Cal!SessionTimes(Calendar, d).end \in Nat
  BY <1>2 DEF Cal!TimesOfDay
<1>4. Cal!RegularEnd(Calendar, d) \in Nat
  <2> DEFINE P == {p \in Calendar.close : p.from <= d /\ d <= p.to}
  <2>1. CASE P = {}
    BY <1>3, <2>1 DEF Cal!RegularEnd, Cal!SeasonEnd
  <2>2. CASE P # {}
    <3>1. (CHOOSE p \in P : TRUE) \in P
      BY <2>2
    <3>2. (CHOOSE p \in P : TRUE).end \in Nat
      BY <3>1 DEF Cal!IsCalendar
    <3> QED
      BY <2>2, <3>2 DEF Cal!RegularEnd, Cal!SeasonEnd
  <2> QED
    BY <2>1, <2>2
<1> QED
  BY <1>1, <1>2, <1>4

\* A closed day and a trading day are days.
LEMMA MakesDay ==
    ASSUME NEW reason, NEW usual, usual.start \in Int, NEW start \in Int, NEW end \in Int
    PROVE  Day(Cal!Closed(reason, usual, end)) /\ Day(Cal!Trades(reason, start, end))
BY DEF Day, Cal!Closed, Cal!Trades

\* Whatever the files say of a date, it is a day.
LEMMA ResolvesDay ==
    ASSUME NEW d \in Int
    PROVE  Day(Cal!ResolveDay(Calendar, d))
<1> DEFINE usual == Cal!SessionTimes(Calendar, d)
           end == Cal!RegularEnd(Calendar, d)
<1>1. usual.start \in Int /\ usual.evening \in Int /\ end \in Int
  BY UsualHours DEF Cal!TimesOfDay
<1> HIDE DEF usual, end
<1>2. \A reason : Day(Cal!Closed(reason, usual, end))
  BY <1>1, MakesDay
<1>3. \A reason : \A a, b \in Int : Day(Cal!Trades(reason, a, b))
  BY <1>1, MakesDay
<1>4. ASSUME d \in DOMAIN Calendar.override PROVE Day(Cal!Overridden(Calendar.override[d], usual, end))
  <2> DEFINE o == Calendar.override[d]
             a == IF o.start = None THEN usual.start ELSE o.start
             b == IF o.end = None THEN end ELSE o.end
  <2>1. {o.start, o.end} \subseteq Nat \cup {None}
    BY <1>4, CalendarAssumption DEF Cal!IsCalendar
  <2>2. a \in Int /\ b \in Int
    BY <1>1, <2>1
  <2>3. Cal!Overridden(o, usual, end) = IF o.closed THEN Cal!Closed("CLOSED_BY_OVERRIDE", usual, end)
                                        ELSE Cal!Trades("OPEN", a, b)
    BY DEF Cal!Overridden
  <2> HIDE DEF a, b, o
  <2>4. Day(Cal!Overridden(o, usual, end))
    BY <1>2, <1>3, <2>2, <2>3
  <2> QED
    BY <2>4 DEF o
<1>5. ASSUME d \in DOMAIN Calendar.holiday PROVE Day(Cal!Holiday(Calendar.holiday[d], usual, end))
  <2>1. Calendar.holiday[d] \in {"full", "morning", "evening"}
    BY <1>5, CalendarAssumption DEF Cal!IsCalendar
  <2> QED
    BY <1>1, <1>2, <1>3, <2>1 DEF Cal!Holiday
<1>6. ASSUME d \in DOMAIN Calendar.special
      PROVE  Day(Cal!Trades("OPEN", Calendar.special[d].start, Calendar.special[d].end))
  <2>1. Calendar.special[d].start \in Int /\ Calendar.special[d].end \in Int
    BY <1>6, CalendarAssumption DEF Cal!IsCalendar
  <2> QED
    BY <1>3, <2>1
<1>7. Day(Cal!Trades("OPEN", usual.start, end))
  BY <1>1, <1>3
<1>8. Day(Cal!Resolved(Calendar, d, usual, end))
  BY <1>2, <1>4, <1>5, <1>6, <1>7 DEF Cal!Resolved
<1> QED
  BY <1>8 DEF Cal!ResolveDay, usual, end

\* So is its span in slots.
LEMMA SpansDay ==
    ASSUME NEW d \in Int
    PROVE  Day(Cal!TradingDaySpan(Calendar, d))
<1> DEFINE day == Cal!ResolveDay(Calendar, d)
<1>1. Day(day) /\ d * DayLen \in Int /\ DayLen \in Int
  BY ResolvesDay, CalendarAssumption
<1> HIDE DEF day
<1>2. Cal!Instant(d, day.start) \in Int
      /\ Cal!Instant(d, day.end) + (IF day.end <= day.start THEN DayLen ELSE 0) \in Int
  BY <1>1 DEF Day, Cal!Instant
<1>3. day = [open |-> day.open, reason |-> day.reason, start |-> day.start, end |-> day.end]
  BY <1>1 DEF Day
<1> DEFINE a == Cal!Instant(d, day.start)
           b == Cal!Instant(d, day.end) + (IF day.end <= day.start THEN DayLen ELSE 0)
<1>4. Cal!Spanned(day, d) = [day EXCEPT !.start = a, !.end = b] /\ a \in Int /\ b \in Int
  BY <1>2 DEF Cal!Spanned
<1> HIDE DEF a, b
<1>5. Cal!Spanned(day, d) = [open |-> day.open, reason |-> day.reason, start |-> a, end |-> b]
  BY <1>3, <1>4
<1>6. Day(Cal!Spanned(day, d))
  BY <1>4, <1>5 DEF Day
<1> QED
  BY <1>6 DEF Cal!TradingDaySpan, day

\* Every slot has a trading date, and that date a span.
LEMMA DatesOf ==
    ASSUME NEW t \in Int
    PROVE  Cal!TradingDate(Calendar, t) \in Int /\ Day(Cal!SpanAt(Calendar, t))
<1>1. DayLen \in Nat /\ DayLen # 0
  BY CalendarAssumption
<1>2. Cal!DateOf(t) \in Int
  BY <1>1 DEF Cal!DateOf
<1>3. Cal!TradingDate(Calendar, t) \in Int
  BY <1>2 DEF Cal!TradingDate, Cal!Belongs
<1> QED
  BY <1>3, SpansDay DEF Cal!SpanAt

\* A candle of one slot closes with the slot, also the last one of a day.
LEMMA SlotCloses ==
    ASSUME NEW t \in Int
    PROVE  Cal!EffectiveClose(Calendar, t, 1) = t + 1
<1> DEFINE day == Cal!SpanAt(Calendar, t)
<1>1. day.start \in Int /\ day.end \in Int
  BY DatesOf DEF Day
<1> HIDE DEF day
<1>2. Cal!ClosesBy(day, t, t + 1) = t + 1
  BY <1>1 DEF Cal!ClosesBy, Cal!Within
<1> QED
  BY <1>2 DEF Cal!EffectiveClose, day

-----------------------------------------------------------------------------
(* The table of candles *)

\* A bar that closes is appended in the order of the slots, and nothing else happens.
LEMMA BarFeeds ==
    ASSUME StateInv, BarCloses
    PROVE  /\ Fed' /\ market' \in Seq(Candle) /\ Len(market') = Len(market) + 1
           /\ \A i \in DOMAIN market : market'[i] = market[i]
           /\ obs.pc = "idle" /\ obs.done = Len(market)
           /\ UNCHANGED <<path, obs, tables, outcomes>>
<1>1. PICK shape \in path.bars[Len(market) + 1].shapes :
          market' = Append(market, [bar |-> path.bars[Len(market) + 1].slot,
                                    closes |-> Cal!EffectiveClose(Calendar, path.bars[Len(market) + 1].slot, 1),
                                    open |-> shape.open, high |-> shape.high, low |-> shape.low,
                                    close |-> shape.close])
  BY DEF BarCloses
<1> DEFINE next == path.bars[Len(market) + 1]
           c == [bar |-> next.slot, closes |-> next.slot + 1, open |-> shape.open, high |-> shape.high,
                 low |-> shape.low, close |-> shape.close]
<1>2. market \in Seq(Candle) /\ Len(market) \in Nat /\ Len(market) < Len(path.bars)
      /\ path.bars \in Seq([slot : Int, shapes : SUBSET Shapes])
  BY DEF StateInv, Fed, BarCloses, Course, Lists
<1>3. next \in [slot : Int, shapes : SUBSET Shapes]
  <2> DEFINE S == [slot : Int, shapes : SUBSET Shapes]
  <2>1. path.bars \in Seq(S) /\ Len(market) + 1 \in 1..Len(path.bars)
    BY <1>2
  <2> HIDE DEF S
  <2>2. path.bars[Len(market) + 1] \in S
    BY <2>1
  <2> QED
    BY <2>2 DEF S
<1>4. shape \in Shapes /\ next.slot \in Int
  BY <1>1, <1>3
<1>5. c \in Candle
  BY <1>4 DEF Candle, Shapes
<1>6. market' = Append(market, c)
  BY <1>1, <1>4, SlotCloses
<1>7. c.bar = path.bars[Len(market) + 1].slot /\ c.closes = c.bar + 1
  OBVIOUS
<1>8. UNCHANGED <<path, obs, tables, outcomes>>
  BY DEF BarCloses
<1> HIDE DEF c
<1>9. /\ market' \in Seq(Candle) /\ Len(market') = Len(market) + 1
      /\ \A i \in DOMAIN market : market'[i] = market[i]
      /\ market'[Len(market) + 1] = c
  BY <1>2, <1>5, <1>6
<1>10. \A i \in DOMAIN market' : i \in DOMAIN market \/ i = Len(market) + 1
  BY <1>2, <1>9
<1>11. \A i \in DOMAIN market' : market'[i].bar = path.bars[i].slot /\ market'[i].closes = market'[i].bar + 1
  BY <1>7, <1>9, <1>10 DEF StateInv, Fed
<1>12. Fed'
  BY <1>2, <1>8, <1>9, <1>11 DEF StateInv, Fed
<1> QED
  BY <1>8, <1>9, <1>12 DEF BarCloses

\* Later places in the table are later slots.
LEMMA InOrder ==
    ASSUME Fed
    PROVE  /\ Len(market) \in Nat /\ DOMAIN market = 1..Len(market)
           /\ \A i \in DOMAIN market : market[i] \in Candle /\ market[i].bar \in Int
           /\ \A i, j \in DOMAIN market : i < j => market[i].bar < market[j].bar
<1>1. DOMAIN market = 1..Len(market) /\ DOMAIN path.bars = 1..Len(path.bars) /\ Len(market) <= Len(path.bars)
      /\ Len(market) \in Nat /\ Len(path.bars) \in Nat
  BY DEF Fed, Course, Lists
<1>2. DOMAIN market \subseteq DOMAIN path.bars
  BY <1>1
<1>3. \A i \in DOMAIN market : market[i] \in Candle
  BY DEF Fed
<1> QED
  BY <1>1, <1>2, <1>3 DEF Fed, Candle

\* The types hold at the start.
LEMMA StartState == Init => StateInv
<1> SUFFICES ASSUME Init PROVE StateInv
  OBVIOUS
<1>1. path \in Course /\ \A i, j \in DOMAIN path.bars : i < j => path.bars[i].slot < path.bars[j].slot
  BY PathsAssumption DEF Init, Course, Lists
<1>2. market = <<>> /\ market \in Seq(Candle) /\ Len(market) = 0 /\ Len(path.bars) \in Nat
  BY <1>1 DEF Init, Course, Lists
<1>3. Fed
  BY <1>1, <1>2 DEF Fed
<1>4. Remembering
  BY <1>2, FreshMemory DEF Init, Remembering
<1> QED
  BY <1>3, <1>4 DEF StateInv

\* A step that takes something off the bounds leaves the bars.
LEMMA BoundsKept ==
    ASSUME path \in Course
    PROVE  /\ path.crashes > 0 => [path EXCEPT !.crashes = @ - 1] \in Course
           /\ path.higher > 0 => [path EXCEPT !.higher = @ - 1] \in Course
           /\ path.fails > 0 => [path EXCEPT !.fails = @ - 1] \in Course
           /\ [path EXCEPT !.crashes = @ - 1].bars = path.bars
           /\ [path EXCEPT !.higher = @ - 1].bars = path.bars
           /\ [path EXCEPT !.fails = @ - 1].bars = path.bars
BY DEF Course

\* A new process starts inside the bars there are, or with none.
LEMMA RestartKeeps ==
    ASSUME StateInv, Restart
    PROVE  StateInv' /\ obs' = Fresh(obs'.from) /\ obs'.done <= Len(market)
           /\ (Len(market) # 0 => obs'.done < Len(market)) /\ obs'.done = obs'.from - 1
           /\ UNCHANGED <<market, tables, outcomes>>
<1> DEFINE from == Larger(1, Len(market) - path.warm + 1)
<1>1. path.warm \in Nat \ {0} /\ Len(market) \in Nat
  BY DEF StateInv, Fed, Course
<1>2. from \in Nat \ {0} /\ from - 1 <= Len(market) /\ (Len(market) # 0 => from - 1 < Len(market))
  BY <1>1 DEF Larger
<1>3. obs' = Fresh(from) /\ UNCHANGED <<market, tables, outcomes>>
  BY DEF Restart
<1>4. path' \in Course /\ path'.bars = path.bars
  BY BoundsKept DEF Restart, StateInv, Fed
<1> HIDE DEF from
<1>5. Fed'
  BY <1>3, <1>4 DEF StateInv, Fed
<1>6. Memory(Fresh(from)) /\ Fresh(from).from = from /\ Fresh(from).done = from - 1 /\ Fresh(from).pc = "idle"
  BY FreshMemory
<1>7. Remembering'
  BY <1>1, <1>2, <1>3, <1>6 DEF Remembering
<1> QED
  BY <1>2, <1>3, <1>5, <1>6, <1>7 DEF StateInv

\* Every step keeps the types.
LEMMA StepState == StateInv /\ [Next]_vars => StateInv'
<1> SUFFICES ASSUME StateInv, [Next]_vars PROVE StateInv'
  OBVIOUS
<1>1. CASE BarCloses
  <2>1. Fed' /\ Len(market') = Len(market) + 1 /\ obs' = obs /\ Len(market) \in Nat
    BY <1>1, BarFeeds DEF StateInv, Fed
  <2> QED
    BY <2>1 DEF StateInv, Remembering
<1>2. CASE TakeBar
  <2>1. obs.done + 1 <= Len(market)
    BY <1>2 DEF TakeBar
  <2> QED
    BY <1>2, <2>1, TakeKeeps DEF StateInv, Remembering, Fed
<1>3. CASE Freeze
  BY <1>3, FreezeKeeps DEF StateInv, Remembering, Fed, Freeze
<1>4. CASE Mark
  BY <1>4, MarkKeeps DEF StateInv, Remembering, Fed, Mark
<1>5. CASE Finish
  BY <1>5, FinishKeeps DEF StateInv, Remembering, Fed, Finish
<1>6. CASE Restart
  BY <1>6, RestartKeeps
<1>7. ASSUME NEW snap \in outcomes.snaps, Settle(snap) PROVE StateInv'
  <2>1. UNCHANGED <<path, market>>
    BY <1>7 DEF Settle
  <2> QED
    BY <1>7, <2>1, SettleKeeps DEF StateInv, Remembering, Fed
<1>8. ASSUME NEW snap \in outcomes.snaps, SetupFails(snap) PROVE StateInv'
  <2>1. path' \in Course /\ path'.bars = path.bars
    BY <1>8, BoundsKept DEF SetupFails, StateInv, Fed
  <2> QED
    BY <1>8, <2>1 DEF SetupFails, StateInv, Remembering, Fed
<1>9. ASSUME NEW t \in Higher, NEW b \in HigherBars, HigherBar(t, b) PROVE StateInv'
  <2>1. path' \in Course /\ path'.bars = path.bars
    BY <1>9, BoundsKept DEF HigherBar, StateInv, Fed
  <2> QED
    BY <1>9, <2>1, HigherKeeps DEF HigherBar, StateInv, Remembering, Fed
<1>10. CASE UNCHANGED vars
  BY <1>10 DEF vars, StateInv, Remembering, Fed
<1> QED
  BY <1>1, <1>2, <1>3, <1>4, <1>5, <1>6, <1>7, <1>8, <1>9, <1>10 DEF Next
-----------------------------------------------------------------------------
(* Clearance *)

\* What a timeframe may read.
ReadValues == Directional \cup {"SIDEWAYS", "UNAVAILABLE"}
Read == obs.reads \in [Timeframes -> ReadValues]

\* A classification is one of the three reads.
LEMMA ClassifyReads ==
    ASSUME NEW row, NEW context
    PROVE  Classify(row, context) \in ReadValues
BY DEF Classify, ReadValues

\* Every step keeps the reads among the three values.
LEMMA StepReads == StateInv /\ Read /\ [Next]_vars => Read'
<1> SUFFICES ASSUME StateInv, Read, [Next]_vars PROVE Read'
  OBVIOUS
<1>1. Memory(obs)
  BY DEF StateInv, Remembering
<1>2. ASSUME NEW t \in Timeframes, NEW v \in ReadValues, obs'.reads = [obs.reads EXCEPT ![t] = v] PROVE Read'
  BY <1>2 DEF Read
<1>3. CASE TakeBar
  <2>1. PICK row, context : obs'.reads = [obs.reads EXCEPT ![Primary] = Classify(row, context)]
    BY <1>1, <1>3 DEF TakeBar, Memory
  <2> QED
    BY <1>2, <2>1, ClassifyReads DEF Timeframes
<1>4. ASSUME NEW t \in Higher, NEW b \in HigherBars, HigherBar(t, b) PROVE Read'
  <2>1. obs'.reads = [obs.reads EXCEPT ![t] = Classify(b.row, b.context)]
    BY <1>1, <1>4 DEF HigherBar, Memory
  <2> QED
    BY <1>2, <2>1, ClassifyReads DEF Timeframes
<1>5. CASE Restart
  <2>1. obs'.reads = [t \in Timeframes |-> "UNAVAILABLE"]
    BY <1>5, FreshMemory DEF Restart
  <2> QED
    BY <2>1 DEF Read, ReadValues
<1>6. CASE Freeze \/ Mark \/ Finish \/ \E snap \in outcomes.snaps : Settle(snap)
  BY <1>1, <1>6, FreezeKeeps, MarkKeeps, FinishKeeps, SettleKeeps DEF Read
<1>7. CASE BarCloses \/ UNCHANGED vars \/ \E snap \in outcomes.snaps : SetupFails(snap)
  BY <1>7 DEF BarCloses, vars, SetupFails, Read
<1> QED
  BY <1>3, <1>4, <1>5, <1>6, <1>7 DEF Next

\* Timeframes that are aligned with a direction do not contest it.
LEMMA AlignedReads ==
    ASSUME NEW reads \in [Timeframes -> ReadValues], NEW d \in Directional, Assess(reads, d) = "ALIGNED"
    PROVE  (\A t \in Timeframes : reads[t] # Opposite(d)) /\ ~EarlyReversal(reads, d)
<1> DEFINE all == {reads[t] : t \in Timeframes} \cap Directional
           higher == {reads[t] : t \in Higher} \cap Directional
<1>1. d \in all /\ ~(Cardinality(all) > 1) /\ higher # {}
  BY DEF Assess
<1>2. Opposite(d) \in Directional /\ Opposite(d) # d
  BY DEF Opposite, Directional
<1>3. Opposite(d) \notin all
  <2>1. CASE Opposite(d) \in all
    <3>1. all = {d} \cup {Opposite(d)}
      BY <1>1, <1>2, <2>1 DEF Directional
    <3>2. IsFiniteSet({d}) /\ Cardinality({d}) = 1 /\ Opposite(d) \notin {d}
      BY <1>2, FS_Singleton
    <3>3. Cardinality({d} \cup {Opposite(d)}) = 2
      BY <3>2, FS_AddElement
    <3>4. Cardinality(all) = 2
      BY <3>1, <3>3
    <3> QED
      BY <1>1, <3>4
  <2> QED
    BY <2>1
<1>4. d \in higher
  <2>1. PICK x \in higher : TRUE
    BY <1>1
  <2>2. x \in all
    BY DEF Timeframes
  <2> QED
    BY <1>3, <2>1, <2>2 DEF Directional, Opposite
<1> QED
  BY <1>2, <1>3, <1>4 DEF EarlyReversal

\* What a clearance rests on: aligned timeframes, no risk state, and no flag but two.
LEMMA ClearedIs ==
    ASSUME NEW view, NEW d \in Directional, NEW s, Cleared(view, d, s)
    PROVE  /\ s # "FAKEOUT_RISK" /\ view.present = d /\ Assess(view.reads, d) = "ALIGNED"
           /\ \A n : FakeoutFlags(view, d, s, n) \subseteq {"STRUCTURE UNCONFIRMED", "BREAKOUT FAILED"}
<1>1. s # "FAKEOUT_RISK" /\ view.present = d /\ Assess(view.reads, d) = "ALIGNED"
  BY DEF Cleared, Blockers
<1>2. d # Opposite(d)
  BY DEF Opposite, Directional
<1> QED
  BY <1>1, <1>2 DEF FakeoutFlags

\* For any timeframes and whatever their bars show, a setup is cleared only when no read opposes
\* it: what one timeframe says while another is silent, or says the contrary, clears nothing.
THEOREM ClearancesAreUncontested == Spec => []ClearedIsUncontested
<1>1. Init => Read
  BY FreshMemory DEF Init, Read, ReadValues
<1>2. Read => ClearedIsUncontested
  <2> SUFFICES ASSUME Read, NEW d \in Directional, NEW s \in States, Cleared(View, d, s)
               PROVE  /\ \A t \in Timeframes : obs.reads[t] # Opposite(d)
                      /\ ~EarlyReversal(obs.reads, d)
                      /\ \A n \in {0, 1} : FakeoutFlags(View, d, s, n) \subseteq {"STRUCTURE UNCONFIRMED", "BREAKOUT FAILED"}
                      /\ \A x \in States : ~Cleared(View, Opposite(d), x)
    BY DEF ClearedIsUncontested
  <2>1. View.reads = obs.reads
    BY DEF View
  <2>2. \A t \in Timeframes : obs.reads[t] # Opposite(d)
    BY <2>1, ClearedIs, AlignedReads DEF Read
  <2>3. ~EarlyReversal(obs.reads, d)
    BY <2>1, ClearedIs, AlignedReads DEF Read
  <2>4. Opposite(d) \in Directional /\ Opposite(d) # d
    BY DEF Opposite, Directional
  <2>5. \A x \in States : ~Cleared(View, Opposite(d), x)
    <3> SUFFICES ASSUME NEW x \in States, Cleared(View, Opposite(d), x) PROVE FALSE
      OBVIOUS
    <3>1. View.present = Opposite(d)
      BY <2>4, ClearedIs
    <3>2. View.present = d
      BY ClearedIs
    <3> QED
      BY <2>4, <3>1, <3>2
  <2> QED
    BY <2>2, <2>3, <2>5, ClearedIs
<1> QED
  BY <1>1, <1>2, StartState, StepState, StepReads, PTL DEF Spec
-----------------------------------------------------------------------------
(* The running sessions *)

Spanning(i, d) == Cal!WindowSpan(Calendar, Calendar.windows[i], d)

\* The fields of a named session in the configuration.
LEMMA WindowTypes ==
    ASSUME NEW i \in DOMAIN Calendar.windows
    PROVE  /\ i \in Nat /\ Calendar.windows[i].start \in 0..DayLen-1 /\ Calendar.windows[i].end \in 0..DayLen-1
           /\ Calendar.windows[i].group \in Groups
           /\ DayLen \in Nat /\ DayLen # 0
<1> DEFINE W == [name : STRING, group : Groups, start : 0..DayLen - 1, end : 0..DayLen - 1]
<1>1. Calendar.windows \in Seq(W)
  BY CalendarAssumption
<1> HIDE DEF W
<1>2. Calendar.windows[i] \in W /\ i \in Nat
  BY <1>1
<1> QED
  BY <1>2, CalendarAssumption DEF W

\* The greater and the smaller of two integers.
LEMMA OfTwo ==
    ASSUME NEW a \in Int, NEW b \in Int
    PROVE  Cal!Max({a, b}) \in {a, b} /\ Cal!Min({a, b}) \in {a, b} /\ Cal!Min({a, b}) <= a
<1>1. \E m \in {a, b} : \A n \in {a, b} : m >= n
  OBVIOUS
<1>2. \E m \in {a, b} : \A n \in {a, b} : m <= n
  OBVIOUS
<1>3. Cal!Max({a, b}) \in {a, b}
  BY <1>1 DEF Cal!Max
<1>4. Cal!Min({a, b}) \in {a, b} /\ \A n \in {a, b} : Cal!Min({a, b}) <= n
  BY <1>2 DEF Cal!Min
<1> QED
  BY <1>3, <1>4

\* A session's span, however it is cut, is inside its window.
LEMMA SpanInWindow ==
    ASSUME NEW i \in DOMAIN Calendar.windows, NEW d \in Int
    PROVE  /\ Spanning(i, d).name = Calendar.windows[i].name /\ Spanning(i, d).date = d
           /\ Spanning(i, d).start \in Int /\ Spanning(i, d).end \in Int
           /\ \A t \in Int : Spanning(i, d).start <= t /\ t < Spanning(i, d).end =>
                 d * DayLen + Calendar.windows[i].start <= t /\ t < d * DayLen + EndOf(Calendar.windows[i])
<1> DEFINE w == Calendar.windows[i]
           day == Cal!TradingDaySpan(Calendar, d)
           start == d * DayLen + w.start
           end == d * DayLen + w.end + (IF w.end <= w.start THEN DayLen ELSE 0)
           cut == IF day.open THEN Cal!Min({end, day.end}) ELSE end
<1>1. w.start \in Int /\ w.end \in Int /\ DayLen \in Int /\ day.end \in Int /\ d * DayLen \in Int
  BY WindowTypes, SpansDay DEF Day
<1>2. start \in Int /\ end \in Int /\ end = d * DayLen + EndOf(w)
  BY <1>1 DEF EndOf
<1>3. Spanning(i, d) = [name |-> w.name, date |-> d, start |-> start, end |-> Cal!Max({start, cut})]
  BY DEF Spanning, Cal!WindowSpan, Cal!WindowOn, Cal!Instant
<1> HIDE DEF w, day, start, end
<1>4. cut \in Int /\ cut <= end
  BY <1>1, <1>2, OfTwo
<1> HIDE DEF cut
<1>5. Cal!Max({start, cut}) \in {start, cut}
  BY <1>2, <1>4, OfTwo
<1>6. start = d * DayLen + w.start
  BY DEF start
<1> DEFINE last == Cal!Max({start, cut})
<1>7. last \in {start, cut} /\ Spanning(i, d).end = last /\ Spanning(i, d).start = start
  BY <1>3, <1>5
<1> HIDE DEF last
<1>8. \A t \in Int : start <= t /\ t < last => t < end
  BY <1>2, <1>4, <1>7
<1> QED
  BY <1>2, <1>3, <1>4, <1>6, <1>7, <1>8 DEF w

\* A multiple of a day's length within two days is a day back, none or a day on.
LEMMA DaysApart ==
    ASSUME NEW n \in Int, NEW len \in Nat \ {0}, 0 - 2 * len < n * len, n * len < 2 * len
    PROVE  n \in {-1, 0, 1} /\ n * len \in {0 - len, 0, len}
<1>1. n < 2
  <2>1. CASE n >= 2
    <3>1. (n - 2) * len >= 0 /\ n * len = (n - 2) * len + 2 * len
      BY <2>1
    <3> QED
      BY <3>1
  <2> QED
    BY <2>1
<1>2. n > -2
  <2>1. CASE n <= -2
    <3>1. (0 - 2 - n) * len >= 0 /\ n * len = 0 - 2 * len - (0 - 2 - n) * len
      BY <2>1
    <3> QED
      BY <3>1
  <2> QED
    BY <2>1
<1> QED
  BY <1>1, <1>2

\* At any moment there is one session of a group.
LEMMA OneSession ==
    ASSUME WindowsApart, NEW i \in DOMAIN Calendar.windows, NEW j \in DOMAIN Calendar.windows,
           Calendar.windows[i].group = Calendar.windows[j].group, NEW d \in Int, NEW e \in Int, NEW t \in Int,
           Spanning(i, d).start <= t, t < Spanning(i, d).end,
           Spanning(j, e).start <= t, t < Spanning(j, e).end
    PROVE  i = j /\ d = e
<1> DEFINE v == Calendar.windows[i]
           w == Calendar.windows[j]
           a == d * DayLen
           b == e * DayLen
<1>1. /\ v.start \in 0..DayLen-1 /\ v.end \in 0..DayLen-1 /\ w.start \in 0..DayLen-1 /\ w.end \in 0..DayLen-1
      /\ DayLen \in Nat /\ DayLen # 0 /\ a \in Int /\ b \in Int
  BY WindowTypes
<1>2. a + v.start <= t /\ t < a + EndOf(v) /\ b + w.start <= t /\ t < b + EndOf(w)
  BY SpanInWindow
<1>3. EndOf(v) \in Int /\ EndOf(w) \in Int /\ EndOf(v) < 2 * DayLen /\ EndOf(w) < 2 * DayLen
      /\ EndOf(v) <= v.start + DayLen /\ EndOf(w) <= w.start + DayLen
  BY <1>1 DEF EndOf
<1>4. a - b < 2 * DayLen /\ b - a < 2 * DayLen
  BY <1>1, <1>2, <1>3
<1>5. (e - d) * DayLen = b - a /\ e - d \in Int
  BY <1>1
<1> HIDE DEF a, b
<1>6. e - d \in {-1, 0, 1} /\ b - a \in {0 - DayLen, 0, DayLen}
  BY <1>1, <1>4, <1>5, DaysApart
<1>7. i = j
  <2>1. CASE i # j
    <3>1. EndOf(v) <= w.start + (b - a) \/ EndOf(w) + (b - a) <= v.start
      BY <1>6, <2>1 DEF WindowsApart
    <3> QED
      BY <1>1, <1>2, <1>3, <3>1
  <2> QED
    BY <2>1
<1>8. b = a
  BY <1>1, <1>2, <1>3, <1>6, <1>7
<1>9. d = e
  <2>1. CASE e - d = 1
    BY <1>1, <1>5, <1>8, <2>1
  <2>2. CASE e - d = -1
    BY <1>1, <1>5, <1>8, <2>2
  <2> QED
    BY <1>6, <2>1, <2>2
<1> QED
  BY <1>7, <1>9

\* session_for answers with a session of the group that is running.
LEMMA SessionForIs ==
    ASSUME NEW t \in Int, NEW g \in Groups, Cal!SessionFor(Calendar, t, g) # None
    PROVE  \E i \in DOMAIN Calendar.windows, d \in Int :
               /\ Cal!SessionFor(Calendar, t, g) = Spanning(i, d) /\ Calendar.windows[i].group = g
               /\ Spanning(i, d).start <= t /\ t < Spanning(i, d).end
<1> DEFINE date == Cal!TradingDate(Calendar, t)
           Hits(d) == {i \in DOMAIN Calendar.windows :
                          Calendar.windows[i].group = g /\ Spanning(i, d).start <= t /\ t < Spanning(i, d).end}
<1>1. date \in Int /\ date - 1 \in Int
  BY DatesOf
<1>2. ASSUME NEW d \in Int, NEW otherwise
      PROVE  Cal!Containing(Cal!Spans(Calendar, d, g), t, otherwise) =
                 IF Hits(d) = {} THEN otherwise ELSE Spanning(Cal!Min(Hits(d)), d)
  <2> DEFINE spans == Cal!Spans(Calendar, d, g)
  <2>1. spans = [i \in {j \in DOMAIN Calendar.windows : Calendar.windows[j].group = g} |-> Spanning(i, d)]
    BY DEF Cal!Spans, Spanning
  <2> HIDE DEF spans
  <2>2. {i \in DOMAIN spans : spans[i].start <= t /\ t < spans[i].end} = Hits(d)
    BY <2>1
  <2>3. Cal!Containing(spans, t, otherwise) = IF Hits(d) = {} THEN otherwise ELSE spans[Cal!Min(Hits(d))]
    BY <2>2 DEF Cal!Containing, Cal!FirstWith
  <2>4. Hits(d) # {} => Cal!Min(Hits(d)) \in Hits(d)
    <3>1. Hits(d) \in SUBSET Nat
      BY WindowTypes
    <3> HIDE DEF Hits
    <3>2. Hits(d) # {} => \E m \in Hits(d) : \A n \in Hits(d) : m <= n
      BY <3>1, LeastOf
    <3> QED
      BY <3>2 DEF Cal!Min
  <2>5. Hits(d) # {} => spans[Cal!Min(Hits(d))] = Spanning(Cal!Min(Hits(d)), d)
    BY <2>1, <2>4
  <2> QED
    BY <2>3, <2>5 DEF spans
<1>3. ASSUME NEW d \in Int PROVE Hits(d) # {} => Cal!Min(Hits(d)) \in Hits(d)
  <2>1. Hits(d) \in SUBSET Nat
    BY WindowTypes
  <2> HIDE DEF Hits
  <2>2. Hits(d) # {} => \E m \in Hits(d) : \A n \in Hits(d) : m <= n
    BY <2>1, LeastOf
  <2> QED
    BY <2>2 DEF Cal!Min
<1>4. Cal!SessionFor(Calendar, t, g) =
          IF Hits(date) # {} THEN Spanning(Cal!Min(Hits(date)), date)
          ELSE IF Hits(date - 1) # {} THEN Spanning(Cal!Min(Hits(date - 1)), date - 1) ELSE None
  <2> HIDE DEF Hits
  <2> QED
    BY <1>1, <1>2 DEF Cal!SessionFor, Cal!SessionOn
<1>5. CASE Hits(date) # {}
  BY <1>1, <1>3, <1>4, <1>5
<1>6. CASE Hits(date) = {} /\ Hits(date - 1) # {}
  BY <1>1, <1>3, <1>4, <1>6
<1> QED
  BY <1>4, <1>5, <1>6

\* The fields of a session's row, and what it is the row of.
SessionRow(r) ==
    r = [group |-> r.group, start |-> r.start, end |-> r.end, open |-> r.open, high |-> r.high,
         low |-> r.low, close |-> r.close, trend |-> r.trend, current |-> r.current]

RowOf(k, r, i, d) ==
    /\ k = [date |-> d, name |-> Calendar.windows[i].name] /\ r.group = Calendar.windows[i].group
    /\ r.start = Spanning(i, d).start /\ r.end = Spanning(i, d).end

\* A row as the bar c leaves it: of a session that has begun, and current only if it goes on.
Tracks(k, r, c) ==
    /\ SessionRow(r)
    /\ \E i \in DOMAIN Calendar.windows, d \in Int : RowOf(k, r, i, d)
    /\ r.start <= c.bar /\ (r.current => c.closes < r.end)

Tracking ==
    IF obs.done >= obs.from
    THEN \A k \in DOMAIN obs.sessions : Tracks(k, obs.sessions[k], market[obs.done])
    ELSE DOMAIN obs.sessions = {}

\* The ends of sessions are compared as numbers.
LEMMA RowTimes ==
    ASSUME NEW k, NEW r, NEW i \in DOMAIN Calendar.windows, NEW d \in Int, RowOf(k, r, i, d)
    PROVE  r.start \in Int /\ r.end \in Int
BY SpanInWindow DEF RowOf

\* A row stays right at a later bar once the stale ones are marked.
LEMMA ClosedTracks ==
    ASSUME NEW b \in Candle, NEW c \in Candle, b.bar < c.bar, NEW k, NEW r, Tracks(k, r, b)
    PROVE  Tracks(k, [r EXCEPT !.current = @ /\ ~Stale(r, c)], c)
<1> DEFINE new == [r EXCEPT !.current = @ /\ ~Stale(r, c)]
<1>1. PICK i \in DOMAIN Calendar.windows, d \in Int : RowOf(k, r, i, d)
  BY DEF Tracks
<1>2. r.start \in Int /\ r.end \in Int
  BY <1>1, RowTimes
<1>3. SessionRow(r) /\ r.start <= b.bar /\ b.bar \in Int /\ c.bar \in Int /\ c.closes \in Int
  BY DEF Tracks, Candle
<1>4. SessionRow(new) /\ new.start = r.start /\ new.end = r.end /\ new.group = r.group
      /\ new.current = (r.current /\ ~Stale(r, c))
  BY <1>3 DEF SessionRow
<1> HIDE DEF new
<1>5. RowOf(k, new, i, d)
  BY <1>1, <1>4 DEF RowOf
<1>6. new.current => ~Stale(r, c)
  BY <1>4
<1>7. ~Stale(r, c) => c.closes < r.end
  BY <1>2, <1>3 DEF Stale
<1>8. new.current => c.closes < new.end
  BY <1>4, <1>6, <1>7
<1>9. Tracks(k, new, c)
  BY <1>2, <1>3, <1>4, <1>5, <1>8 DEF Tracks
<1> QED
  BY <1>9 DEF new

Priced(x, r, high, low, close) == x = [r EXCEPT !.high = high, !.low = low, !.close = close]
Judged(x, r, trend, goes) == x = [r EXCEPT !.trend = trend, !.current = goes]

\* Prices do not move a session's row.
LEMMA RowPriced ==
    ASSUME NEW r, SessionRow(r), NEW high, NEW low, NEW close, NEW x, Priced(x, r, high, low, close)
    PROVE  SessionRow(x) /\ x.start = r.start /\ x.end = r.end /\ x.group = r.group
<1>1. r = [group |-> r.group, start |-> r.start, end |-> r.end, open |-> r.open, high |-> r.high,
           low |-> r.low, close |-> r.close, trend |-> r.trend, current |-> r.current]
  BY DEF SessionRow
<1>2. x = [group |-> r.group, start |-> r.start, end |-> r.end, open |-> r.open, high |-> high,
           low |-> low, close |-> close, trend |-> r.trend, current |-> r.current]
  BY <1>1 DEF Priced
<1> QED
  BY <1>2 DEF SessionRow

\* Nor does its trend.
LEMMA RowJudged ==
    ASSUME NEW r, SessionRow(r), NEW trend, NEW goes, NEW x, Judged(x, r, trend, goes)
    PROVE  SessionRow(x) /\ x.start = r.start /\ x.end = r.end /\ x.group = r.group /\ x.current = goes
<1>1. r = [group |-> r.group, start |-> r.start, end |-> r.end, open |-> r.open, high |-> r.high,
           low |-> r.low, close |-> r.close, trend |-> r.trend, current |-> r.current]
  BY DEF SessionRow
<1>2. x = [group |-> r.group, start |-> r.start, end |-> r.end, open |-> r.open, high |-> r.high,
           low |-> r.low, close |-> r.close, trend |-> trend, current |-> goes]
  BY <1>1 DEF Judged
<1> QED
  BY <1>2 DEF SessionRow

\* A bar inside a session leaves a right row for it.
LEMMA JoinedTracks ==
    ASSUME NEW c \in Candle, NEW row, NEW g \in Groups, NEW span, NEW rows,
           NEW i \in DOMAIN Calendar.windows, NEW d \in Int, span = Spanning(i, d), Calendar.windows[i].group = g,
           span.start <= c.bar, NEW k, k = [date |-> span.date, name |-> span.name],
           k \in DOMAIN rows => Tracks(k, rows[k], c)
    PROVE  Tracks(k, Joined(rows, k, span, g, c, row), c)
<1> DEFINE old == IF k \in DOMAIN rows THEN rows[k]
                  ELSE [group |-> g, start |-> span.start, end |-> span.end, open |-> c.open,
                        high |-> c.high, low |-> c.low, close |-> c.close, trend |-> "UNAVAILABLE", current |-> TRUE]
           high == Larger(old.high, c.high)
           low == Min({old.low, c.low})
           mid == [old EXCEPT !.high = high, !.low = low, !.close = c.close]
           trend == SessionTrend(mid, row)
           goes == ~Stale(mid, c)
           new == [mid EXCEPT !.trend = trend, !.current = goes]
<1>1. k = [date |-> d, name |-> Calendar.windows[i].name]
  BY SpanInWindow
<1>2. SessionRow(old) /\ old.start <= c.bar /\ \E j \in DOMAIN Calendar.windows, e \in Int : RowOf(k, old, j, e)
  <2>1. CASE k \in DOMAIN rows
    BY <2>1 DEF Tracks
  <2>2. CASE k \notin DOMAIN rows
    BY <1>1, <2>2 DEF RowOf, SessionRow
  <2> QED
    BY <2>1, <2>2
<1> HIDE DEF old
<1>3. PICK j \in DOMAIN Calendar.windows, e \in Int : RowOf(k, old, j, e)
  BY <1>2
<1>0. Joined(rows, k, span, g, c, row) = new
  BY DEF Joined, old
<1> HIDE DEF high, low
<1>4. SessionRow(mid) /\ mid.start = old.start /\ mid.end = old.end /\ mid.group = old.group
  <2>1. Priced(mid, old, high, low, c.close)
    BY DEF Priced
  <2> HIDE DEF mid
  <2> QED
    BY <1>2, <2>1, RowPriced
<1> HIDE DEF mid, trend, goes
<1>5. SessionRow(new) /\ new.start = old.start /\ new.end = old.end /\ new.group = old.group
      /\ new.current = goes
  <2>1. Judged(new, mid, trend, goes)
    BY DEF Judged
  <2> HIDE DEF new
  <2> QED
    BY <1>4, <2>1, RowJudged
<1> HIDE DEF new
<1>6. RowOf(k, new, j, e)
  BY <1>3, <1>5 DEF RowOf
<1>7. old.end \in Int /\ c.closes \in Int
  BY <1>3, RowTimes DEF Candle
<1>8. goes => c.closes < mid.end
  BY <1>4, <1>7 DEF Stale, goes
<1>9. new.current => c.closes < new.end
  BY <1>4, <1>5, <1>8
<1>10. Tracks(k, new, c)
  BY <1>2, <1>5, <1>6, <1>9 DEF Tracks
<1> QED
  BY <1>0, <1>10

\* The rows after a bar are those of the sessions it joined, and those closed or gone on without it.
Closed(rows, c) == [x \in DOMAIN rows |-> [rows[x] EXCEPT !.current = @ /\ ~Stale(rows[x], c)]]

\* Each row is of a session that holds the bar, or was there before.
LEMMA TrackedRows ==
    ASSUME NEW span, NEW rows, NEW c, NEW row, NEW k \in DOMAIN TrackedIn(span, rows, c, row)
    PROVE  \/ \E g \in Groups :
                  /\ span[g] # None /\ k = [date |-> span[g].date, name |-> span[g].name]
                  /\ TrackedIn(span, rows, c, row)[k] = Joined(Closed(rows, c), k, span[g], g, c, row)
           \/ k \in DOMAIN rows /\ TrackedIn(span, rows, c, row)[k] = Closed(rows, c)[k]
<1> DEFINE closed == Closed(rows, c)
           On(g)   == [date |-> span[g].date, name |-> span[g].name]
           in      == {g \in Groups : span[g] # None}
           Value(x) == IF \E g \in in : On(g) = x
                       THEN LET g == CHOOSE h \in in : On(h) = x IN Joined(closed, x, span[g], g, c, row)
                       ELSE closed[x]
           all     == [x \in DOMAIN rows \cup {On(g) : g \in in} |-> Value(x)]
           Newer(x) == {j \in DOMAIN all : j.date > x.date \/
                           (j.date = x.date /\ Config.rank[j.name] > Config.rank[x.name])}
           kept    == {x \in DOMAIN all : Cardinality(Newer(x)) < Config.sessionRows}
<1>1. TrackedIn(span, rows, c, row) = [x \in kept |-> all[x]]
  BY DEF TrackedIn, Closed
<1> HIDE DEF kept, closed
<1>2. k \in kept /\ TrackedIn(span, rows, c, row)[k] = all[k]
  BY <1>1
<1>3. k \in DOMAIN rows \cup {On(g) : g \in in} /\ all[k] = Value(k)
  BY <1>2 DEF kept
<1>4. CASE \E g \in in : On(g) = k
  <2> DEFINE g == CHOOSE h \in in : On(h) = k
  <2>1. g \in in /\ On(g) = k
    BY <1>4
  <2>2. Value(k) = Joined(closed, k, span[g], g, c, row)
    BY <1>4
  <2> HIDE DEF g
  <2>3. g \in Groups /\ span[g] # None /\ k = [date |-> span[g].date, name |-> span[g].name]
    BY <2>1
  <2> QED
    BY <1>2, <1>3, <2>2, <2>3 DEF closed
<1>5. CASE ~\E g \in in : On(g) = k
  <2>1. k \in DOMAIN rows /\ Value(k) = closed[k]
    BY <1>3, <1>5
  <2> QED
    BY <1>2, <1>3, <2>1 DEF closed
<1> QED
  BY <1>4, <1>5

\* A bar leaves the rows of sessions right.
LEMMA TakeTracks ==
    ASSUME StateInv, Tracking, TakeBar
    PROVE  Tracking'
<1> DEFINE n == obs.done + 1
           c == market[n]
           span == [g \in Groups |-> Cal!SessionFor(Calendar, c.bar, g)]
<1>1. Memory(obs) /\ Fed
  BY DEF StateInv, Remembering
<1>2. PICK row : obs'.sessions = TrackedIn(span, obs.sessions, c, row)
  BY <1>1 DEF TakeBar, Memory, Tracked
<1>3. obs'.done = n /\ obs'.from = obs.from /\ market' = market
  BY <1>1, TakeKeeps
<1>4. n \in DOMAIN market /\ c \in Candle /\ c.bar \in Int /\ obs'.done >= obs'.from
      /\ (obs.done >= obs.from => obs.done \in DOMAIN market /\ market[obs.done] \in Candle
                                  /\ market[obs.done].bar < c.bar)
  <2>0. obs.done \in Nat /\ obs.from \in Nat \ {0} /\ obs.from <= obs.done + 1 /\ Len(market) \in Nat
    BY <1>1, InOrder DEF StateInv, Remembering
  <2>1. n \in 1..Len(market) /\ obs.done \in Nat /\ obs.from \in Nat \ {0} /\ obs.from <= n
    <3>1. n <= Len(market)
      BY DEF TakeBar
    <3> QED
      BY <2>0, <3>1
  <2>2. obs.done >= obs.from => obs.done \in 1..Len(market) /\ obs.done < n
    BY <2>1
  <2> QED
    BY <1>1, <1>3, <2>1, <2>2, InOrder
<1> DEFINE closed == Closed(obs.sessions, c)
<1>5. ASSUME NEW k \in DOMAIN obs.sessions PROVE Tracks(k, closed[k], c)
  <2>1. obs.done >= obs.from
    BY DEF Tracking
  <2>2. Tracks(k, obs.sessions[k], market[obs.done])
    BY <2>1 DEF Tracking
  <2> HIDE DEF c, n
  <2>3. Tracks(k, [obs.sessions[k] EXCEPT !.current = @ /\ ~Stale(obs.sessions[k], c)], c)
    BY <1>4, <2>1, <2>2, ClosedTracks
  <2> QED
    BY <2>3 DEF Closed
<1>6. DOMAIN closed = DOMAIN obs.sessions
  BY DEF Closed
<1>7. ASSUME NEW k \in DOMAIN obs'.sessions PROVE Tracks(k, obs'.sessions[k], c)
  <2>1. \/ \E g \in Groups : /\ span[g] # None /\ k = [date |-> span[g].date, name |-> span[g].name]
                             /\ obs'.sessions[k] = Joined(closed, k, span[g], g, c, row)
        \/ k \in DOMAIN obs.sessions /\ obs'.sessions[k] = closed[k]
    <3> HIDE DEF c, span
    <3> QED
      BY <1>2, TrackedRows
  <2>2. CASE k \in DOMAIN obs.sessions /\ obs'.sessions[k] = closed[k]
    BY <1>5, <2>2
  <2>3. ASSUME NEW g \in Groups, span[g] # None, k = [date |-> span[g].date, name |-> span[g].name],
               obs'.sessions[k] = Joined(closed, k, span[g], g, c, row)
        PROVE  Tracks(k, obs'.sessions[k], c)
    <3>1. PICK i \in DOMAIN Calendar.windows, d \in Int :
               span[g] = Spanning(i, d) /\ Calendar.windows[i].group = g /\ Spanning(i, d).start <= c.bar
      BY <1>4, <2>3, SessionForIs
    <3>2. k \in DOMAIN closed => Tracks(k, closed[k], c)
      BY <1>5, <1>6
    <3> HIDE DEF closed, span, c
    <3>3. Tracks(k, Joined(closed, k, span[g], g, c, row), c)
      BY <1>4, <2>3, <3>1, <3>2, JoinedTracks
    <3> QED
      BY <2>3, <3>3
  <2> QED
    BY <2>1, <2>2, <2>3
<1>8. market'[obs'.done] = c
  BY <1>3
<1> QED
  BY <1>4, <1>7, <1>8 DEF Tracking

\* So does every step.
LEMMA StepTracks == StateInv /\ Tracking /\ [Next]_vars => Tracking'
<1> SUFFICES ASSUME StateInv, Tracking, [Next]_vars PROVE Tracking'
  OBVIOUS
<1>1. Memory(obs) /\ obs.done \in Nat /\ obs.from \in Nat \ {0}
  BY DEF StateInv, Remembering
<1>2. CASE TakeBar
  BY <1>2, TakeTracks
<1>3. CASE BarCloses
  <2>1. obs' = obs /\ (obs.done >= obs.from => obs.done \in DOMAIN market)
    BY <1>1, <1>3, InOrder, BarFeeds DEF StateInv, Remembering
  <2>2. \A i \in DOMAIN market : market'[i] = market[i]
    BY <1>3, BarFeeds
  <2> QED
    BY <2>1, <2>2 DEF Tracking
<1>4. CASE Restart
  <2>1. obs'.sessions = [k \in {} |-> None] /\ obs'.done = obs'.from - 1 /\ obs'.from \in Nat
    BY <1>4, RestartKeeps, FreshMemory DEF StateInv, Remembering
  <2> QED
    BY <2>1 DEF Tracking
<1>5. CASE Freeze \/ Mark \/ Finish \/ (\E snap \in outcomes.snaps : Settle(snap))
           \/ \E t \in Higher, b \in HigherBars : HigherBar(t, b)
  <2>1. obs'.done = obs.done /\ obs'.from = obs.from /\ obs'.sessions = obs.sessions
    BY <1>1, <1>5, FreezeKeeps, MarkKeeps, FinishKeeps, SettleKeeps, HigherKeeps
  <2>2. market' = market
    BY <1>5 DEF Freeze, Mark, Finish, Settle, HigherBar
  <2> QED
    BY <2>1, <2>2 DEF Tracking
<1>6. CASE UNCHANGED vars \/ \E snap \in outcomes.snaps : SetupFails(snap)
  BY <1>6 DEF vars, SetupFails, Tracking
<1> QED
  BY <1>2, <1>3, <1>4, <1>5, <1>6 DEF Next

\* Two current rows of a group would be two sessions of one moment.
LEMMA TrackedOnce ==
    ASSUME WindowsApart, NEW c \in Candle, c.closes = c.bar + 1, NEW j, NEW q, NEW k, NEW r,
           Tracks(j, q, c), Tracks(k, r, c), q.current, r.current, q.group = r.group
    PROVE  j = k
<1>1. PICK i \in DOMAIN Calendar.windows, d \in Int : RowOf(j, q, i, d)
  BY DEF Tracks
<1>2. PICK h \in DOMAIN Calendar.windows, e \in Int : RowOf(k, r, h, e)
  BY DEF Tracks
<1>3. q.start \in Int /\ q.end \in Int /\ r.start \in Int /\ r.end \in Int
  BY <1>1, <1>2, RowTimes
<1>4. c.bar \in Int /\ c.closes \in Int
  BY DEF Candle
<1>5. q.start <= c.bar /\ c.closes < q.end /\ r.start <= c.bar /\ c.closes < r.end
  BY DEF Tracks
<1>6. c.bar < q.end /\ c.bar < r.end
  BY <1>3, <1>4, <1>5
<1>7. Calendar.windows[i].group = Calendar.windows[h].group
      /\ Spanning(i, d).start <= c.bar /\ c.bar < Spanning(i, d).end
      /\ Spanning(h, e).start <= c.bar /\ c.bar < Spanning(h, e).end
  BY <1>1, <1>2, <1>5, <1>6 DEF RowOf
<1>8. i = h /\ d = e
  BY <1>4, <1>7, OneSession
<1> QED
  BY <1>1, <1>2, <1>8 DEF RowOf

\* Where the named sessions of a group do not overlap: however bars are missing, a session that
\* ended is not shown as running, and one of a group is, also at a turn of the day and after a
\* restart.
THEOREM EndedSessionsAreOver == ASSUME WindowsApart PROVE Spec => []CompletedIsNotCurrent
<1>1. Init => Tracking
  BY FreshMemory DEF Init, Tracking
<1>2. StateInv /\ Tracking => CompletedIsNotCurrent
  <2> SUFFICES ASSUME StateInv, Tracking, obs.done >= obs.from, NEW k \in DOMAIN obs.sessions,
                      obs.sessions[k].current
               PROVE  /\ market[obs.done].closes < obs.sessions[k].end
                      /\ \A j \in DOMAIN obs.sessions \ {k} :
                            obs.sessions[j].current => obs.sessions[j].group # obs.sessions[k].group
    BY DEF CompletedIsNotCurrent
  <2>1. obs.done \in DOMAIN market /\ market[obs.done] \in Candle
    BY InOrder DEF StateInv, Remembering
  <2>2. market[obs.done].closes = market[obs.done].bar + 1
    BY <2>1 DEF StateInv, Fed
  <2>3. \A j \in DOMAIN obs.sessions : Tracks(j, obs.sessions[j], market[obs.done])
    BY DEF Tracking
  <2>4. market[obs.done].closes < obs.sessions[k].end
    BY <2>3 DEF Tracks
  <2>5. \A j \in DOMAIN obs.sessions : obs.sessions[j].current /\ obs.sessions[j].group = obs.sessions[k].group => j = k
    BY <2>1, <2>2, <2>3, TrackedOnce
  <2> QED
    BY <2>4, <2>5
<1> QED
  BY <1>1, <1>2, StartState, StepState, StepTracks, PTL DEF Spec
-----------------------------------------------------------------------------
(* The bars a horizon looks at *)

Sorted(s) == \A i, j \in DOMAIN s : i < j => s[i].bar < s[j].bar

\* How many of the candles are not after a bar.
Passed(s, bar) == Cardinality({i \in DOMAIN s : s[i].bar <= bar})

\* The slots of a sequence of bars are integers.
LEMMA BarsAre ==
    ASSUME NEW s \in Seq(Candle)
    PROVE  \A i \in DOMAIN s : s[i].bar \in Int /\ s[i].closes \in Int
<1>1. \A i \in DOMAIN s : s[i] \in Candle
  OBVIOUS
<1> QED
  BY <1>1 DEF Candle

\* The bars passed at a slot are those that open at or before it.
LEMMA PassedIs ==
    ASSUME NEW s \in Seq(Candle), Sorted(s), NEW bar \in Int
    PROVE  /\ Passed(s, bar) \in 0..Len(s) /\ Len(s) \in Nat
           /\ \A i \in DOMAIN s : i <= Passed(s, bar) <=> s[i].bar <= bar
<1> DEFINE S == {i \in DOMAIN s : s[i].bar <= bar}
<1>1. DOMAIN s = 1..Len(s) /\ Len(s) \in Nat /\ S \in SUBSET (1..Len(s))
  OBVIOUS
<1>2. \A i \in DOMAIN s : s[i].bar \in Int
  BY BarsAre
<1>3. ASSUME NEW i \in S, NEW j \in 1..i PROVE j \in S
  <2>1. j \in DOMAIN s /\ i \in DOMAIN s /\ s[i].bar <= bar /\ (j = i \/ j < i)
    BY <1>1
  <2> QED
    BY <1>2, <2>1 DEF Sorted
<1> HIDE DEF S
<1>4. Cardinality(S) \in 0..Len(s) /\ S = 1..Cardinality(S)
  BY <1>1, <1>3, PrefixCount
<1>5. Passed(s, bar) = Cardinality(S)
  BY DEF Passed, S
<1>6. \A i \in DOMAIN s : i \in S <=> s[i].bar <= bar
  BY DEF S
<1>7. \A i \in DOMAIN s : i \in S <=> i <= Cardinality(S)
  BY <1>1, <1>4
<1> QED
  BY <1>1, <1>4, <1>5, <1>6, <1>7

\* The bars after a slot are the others, in order.
LEMMA AfterIs ==
    ASSUME NEW s \in Seq(Candle), Sorted(s), NEW bar \in Int
    PROVE  /\ After(s, bar) \in Seq(Candle) /\ Len(After(s, bar)) = Len(s) - Passed(s, bar)
           /\ \A i \in 1..Len(s) - Passed(s, bar) : After(s, bar)[i] = s[i + Passed(s, bar)]
           /\ Sorted(After(s, bar))
<1> DEFINE p == Passed(s, bar)
<1>1. p \in 0..Len(s) /\ Len(s) \in Nat
  BY PassedIs
<1>2. After(s, bar) = SubSeq(s, p + 1, Len(s))
  BY DEF After, Passed
<1> HIDE DEF p
<1>3. /\ After(s, bar) \in Seq(Candle) /\ Len(After(s, bar)) = Len(s) - p
      /\ \A i \in 1..Len(s) - p : After(s, bar)[i] = s[i + p]
  BY <1>1, <1>2, Follows
<1>4. Sorted(After(s, bar))
  <2> SUFFICES ASSUME NEW i \in DOMAIN After(s, bar), NEW j \in DOMAIN After(s, bar), i < j
               PROVE  After(s, bar)[i].bar < After(s, bar)[j].bar
    BY DEF Sorted
  <2>1. i \in 1..Len(s) - p /\ j \in 1..Len(s) - p
    BY <1>3
  <2>2. i + p \in DOMAIN s /\ j + p \in DOMAIN s /\ i + p < j + p
    BY <1>1, <2>1
  <2> QED
    BY <1>3, <2>1, <2>2 DEF Sorted
<1> QED
  BY <1>3, <1>4 DEF p

\* The bars until an end are those that open before it.
LEMMA UntilIs ==
    ASSUME NEW s \in Seq(Candle), Sorted(s), NEW end \in Int
    PROVE  /\ Len(Until(s, end)) = Passed(s, end - 1)
           /\ \A i \in 1..Passed(s, end - 1) : Until(s, end)[i] = s[i]
<1>1. \A i \in DOMAIN s : s[i].bar < end <=> s[i].bar <= end - 1
  BY BarsAre
<1>2. {i \in DOMAIN s : s[i].bar < end} = {i \in DOMAIN s : s[i].bar <= end - 1}
  BY <1>1
<1> DEFINE q == Passed(s, end - 1)
<1>3. Until(s, end) = SubSeq(s, 1, q)
  BY <1>2 DEF Until, Passed
<1>4. q \in 0..Len(s) /\ Len(s) \in Nat
  BY PassedIs, SMTT(20)
<1> HIDE DEF q
<1>5. Len(Until(s, end)) = q /\ \A i \in 1..q : Until(s, end)[i] = s[i]
  BY <1>3, <1>4
<1> QED
  BY <1>5 DEF q

\* How many candles after the snapshot's a horizon takes.
Taken(snap, h) ==
    LET rest == Len(market) - Passed(market, snap.bar)
    IN  IF h = Session THEN Passed(After(market, snap.bar), SpanOf(snap).end - 1)
        ELSE IF rest < h THEN rest ELSE h

\* w is the n candles of the table after the first p.
Copies(w, p, n) ==
    n \in Nat /\ p \in Nat /\ p + n <= Len(market) /\ Len(w) = n /\ \A i \in 1..n : w[i] = market[i + p]

\* The candles of a window are the next ones of the table.
LEMMA WindowIs ==
    ASSUME market \in Seq(Candle), Sorted(market), NEW snap, snap.bar \in Int, NEW h \in Nat, NEW over,
           SpanOf(snap).end \in Int
    PROVE  Copies(Window(snap, market, h, SpanOf(snap).end, over).candles, Passed(market, snap.bar), Taken(snap, h))
<1> DEFINE p == Passed(market, snap.bar)
           end == SpanOf(snap).end
           future == After(market, snap.bar)
           rest == Len(market) - p
           w == Window(snap, market, h, end, over).candles
<1>1. p \in 0..Len(market) /\ Len(market) \in Nat
  BY PassedIs
<1>2. future \in Seq(Candle) /\ Len(future) = rest /\ Sorted(future) /\ \A i \in 1..rest : future[i] = market[i + p]
  BY AfterIs
<1>3. CASE h = Session
  <2> DEFINE q == Passed(future, end - 1)
  <2>1. w = Until(future, end)
    BY <1>3 DEF Window
  <2>0. end \in Int /\ end - 1 \in Int
    OBVIOUS
  <2> HIDE DEF future, end
  <2>2. q \in 0..Len(future)
    BY <1>2, <2>0, PassedIs
  <2>7. Len(Until(future, end)) = q /\ \A i \in 1..q : Until(future, end)[i] = future[i]
    BY <1>2, <2>0, UntilIs
  <2> HIDE DEF w
  <2>3. Len(w) = q /\ \A i \in 1..q : w[i] = future[i]
    BY <2>1, <2>7
  <2>4. Taken(snap, h) = q
    BY <1>3 DEF Taken, future, end
  <2> HIDE DEF w, p, q
  <2>5. ASSUME NEW i \in 1..q PROVE w[i] = market[i + p]
    <3>1. i \in 1..rest
      BY <1>1, <1>2, <2>2
    <3>2. w[i] = future[i] /\ future[i] = market[i + p]
      BY <1>2, <2>3, <3>1
    <3> QED
      BY <3>2
  <2>6. q \in Nat /\ p + q <= Len(market) /\ p \in Nat
    BY <1>1, <1>2, <2>2
  <2> QED
    BY <2>3, <2>4, <2>5, <2>6 DEF p, w, end, Copies
<1>4. CASE h # Session
  <2> DEFINE n == IF rest < h THEN rest ELSE h
  <2>1. w = SubSeq(future, 1, n)
    BY <1>2, <1>4 DEF Window, FirstFew
  <2>2. Taken(snap, h) = n
    BY <1>4 DEF Taken
  <2> HIDE DEF future, w, p
  <2>3. n \in 0..Len(future) /\ n \in Nat /\ p + n <= Len(market) /\ p \in Nat
    BY <1>1, <1>2
  <2> HIDE DEF n
  <2>4. Len(w) = n /\ \A i \in 1..n : w[i] = future[i]
    BY <1>2, <2>1, <2>3
  <2>5. ASSUME NEW i \in 1..n PROVE w[i] = market[i + p]
    <3>1. i \in 1..rest
      BY <1>1, <1>2, <2>3
    <3>2. w[i] = future[i] /\ future[i] = market[i + p]
      BY <1>2, <2>4, <3>1
    <3> QED
      BY <3>2
  <2> QED
    BY <2>2, <2>3, <2>4, <2>5 DEF p, w, Copies
<1> QED
  BY <1>3, <1>4

\* There are n integers from p + 1 to p + n.
LEMMA Counted ==
    ASSUME NEW p \in Nat, NEW n \in Nat
    PROVE  Cardinality(p + 1 .. p + n) = n
<1>1. PICK a \in Int, b \in Int : a = p + 1 /\ b = p + n
  OBVIOUS
<1>2. Cardinality(a .. b) = IF a > b THEN 0 ELSE b - a + 1
  BY FS_Interval
<1> QED
  BY <1>1, <1>2

\* What a whole horizon is, is what a window takes.
LEMMA WholeIs ==
    ASSUME market \in Seq(Candle), Sorted(market), NEW snap, snap.bar \in Int, NEW h \in Nat, SpanOf(snap).end \in Int
    PROVE  Whole(snap, h) = Passed(market, snap.bar) + 1 .. Passed(market, snap.bar) + Taken(snap, h)
<1> DEFINE p == Passed(market, snap.bar)
           later == {i \in DOMAIN market : market[i].bar > snap.bar}
           end == SpanOf(snap).end
           future == After(market, snap.bar)
           rest == Len(market) - p
<1>0. /\ p \in 0..Len(market) /\ Len(market) \in Nat
      /\ \A i \in DOMAIN market : i <= p <=> market[i].bar <= snap.bar
  BY PassedIs
<1>1. /\ p \in 0..Len(market) /\ Len(market) \in Nat /\ DOMAIN market = 1..Len(market)
      /\ \A i \in DOMAIN market : i <= p <=> market[i].bar <= snap.bar
  BY <1>0
<1>2. \A i \in DOMAIN market : market[i].bar \in Int
  BY BarsAre
<1>3. later = p + 1 .. Len(market)
  <2>1. \A i \in DOMAIN market : market[i].bar > snap.bar <=> p < i
    BY <1>1, <1>2
  <2> HIDE DEF p
  <2>2. \A i : i \in later <=> i \in 1..Len(market) /\ p < i
    BY <1>1, <2>1
  <2> HIDE DEF later
  <2>3. \A i : i \in p + 1 .. Len(market) <=> i \in 1..Len(market) /\ p < i
    BY <1>1
  <2> QED
    BY <2>2, <2>3
<1>4. CASE h = Session
  <2>1. future \in Seq(Candle) /\ Len(future) = rest /\ Sorted(future) /\ \A i \in 1..rest : future[i] = market[i + p]
    BY AfterIs
  <2>0. end \in Int /\ end - 1 \in Int
    OBVIOUS
  <2> DEFINE q == Passed(future, end - 1)
  <2> HIDE DEF future, end
  <2>2. q \in 0..Len(future) /\ \A i \in DOMAIN future : i <= q <=> future[i].bar <= end - 1
    BY <2>0, <2>1, PassedIs
  <2>3. Taken(snap, h) = q
    BY <1>4 DEF Taken, future, end
  <2>4. Whole(snap, h) = {i \in later : market[i].bar < end}
    BY <1>4 DEF Whole, end
  <2> HIDE DEF p, q, later
  <2>5. ASSUME NEW i \in p + 1 .. Len(market)
        PROVE  market[i].bar < end <=> i <= p + q
    <3>1. i - p \in 1..rest /\ i - p \in DOMAIN future /\ (i - p) + p = i /\ i \in DOMAIN market
      BY <1>1, <2>1
    <3>2. future[i - p] = market[i]
      BY <2>1, <3>1
    <3>3. i - p <= q <=> market[i].bar <= end - 1
      BY <2>2, <3>1, <3>2
    <3>4. market[i].bar \in Int
      BY <1>2, <3>1
    <3> QED
      BY <1>1, <2>0, <2>1, <2>2, <3>3, <3>4
  <2>6. q \in Nat /\ p + q <= Len(market)
    BY <1>1, <2>1, <2>2
  <2>7. \A i : i \in p + 1 .. p + q <=> i \in p + 1 .. Len(market) /\ i <= p + q
    BY <1>1, <2>6
  <2>8. \A i : i \in Whole(snap, h) <=> i \in p + 1 .. Len(market) /\ i <= p + q
    BY <1>3, <2>4, <2>5
  <2>9. Whole(snap, h) = p + 1 .. p + q
    BY <2>7, <2>8
  <2> QED
    BY <2>3, <2>9 DEF p
<1>5. CASE h # Session
  <2> DEFINE n == IF rest < h THEN rest ELSE h
  <2>1. Taken(snap, h) = n
    BY <1>5 DEF Taken
  <2>2. Whole(snap, h) = {i \in later : Cardinality({j \in later : j <= i}) <= h}
    BY <1>5 DEF Whole
  <2> HIDE DEF p, later
  <2>3. ASSUME NEW i \in p + 1 .. Len(market)
        PROVE  Cardinality({j \in later : j <= i}) = i - p
    <3>1. {j \in later : j <= i} = p + 1 .. i
      BY <1>1, <1>3
    <3>2. p \in Nat /\ i - p \in Nat /\ p + (i - p) = i
      BY <1>1
    <3>3. Cardinality(p + 1 .. p + (i - p)) = i - p
      BY <3>2, Counted
    <3> QED
      BY <3>1, <3>2, <3>3
  <2>4. \A i : i \in Whole(snap, h) <=> i \in p + 1 .. Len(market) /\ i - p <= h
    BY <1>3, <2>2, <2>3
  <2>5. \A i : i \in p + 1 .. p + n <=> i \in p + 1 .. Len(market) /\ i - p <= h
    BY <1>1
  <2> HIDE DEF n
  <2>6. Whole(snap, h) = p + 1 .. p + n
    BY <2>4, <2>5
  <2> QED
    BY <2>1, <2>6 DEF p
<1> QED
  BY <1>4, <1>5

\* So an observation says how many bars the whole horizon has, and which is the last.
LEMMA ObservedIs ==
    ASSUME market \in Seq(Candle), Sorted(market), NEW snap, snap.bar \in Int, NEW h \in Nat, NEW over,
           SpanOf(snap).end \in Int,
           Window(snap, market, h, SpanOf(snap).end, over).candles # <<>>
    PROVE  LET w == Window(snap, market, h, SpanOf(snap).end, over).candles
           IN  Len(w) = Cardinality(Whole(snap, h)) /\ Last(w).bar = market[Max(Whole(snap, h))].bar
<1> DEFINE p == Passed(market, snap.bar)
           n == Taken(snap, h)
           w == Window(snap, market, h, SpanOf(snap).end, over).candles
<1>0. Copies(w, p, n)
  BY WindowIs
<1>1. n \in Nat /\ p \in Nat /\ p + n <= Len(market) /\ Len(w) = n /\ \A i \in 1..n : w[i] = market[i + p]
  BY <1>0 DEF Copies
<1>2. Whole(snap, h) = p + 1 .. p + n
  BY WholeIs
<1>3. w # <<>>
  OBVIOUS
<1> HIDE DEF p, n, w
<1>4. n # 0
  BY <1>1, <1>3
<1>5. Cardinality(Whole(snap, h)) = n
  BY <1>1, <1>2, Counted
<1>6. Max(Whole(snap, h)) = p + n
  <2>1. p + n \in Whole(snap, h) /\ \A i \in Whole(snap, h) : p + n >= i /\ i \in Int
    BY <1>1, <1>2, <1>4
  <2> HIDE DEF Whole
  <2>2. \A m \in Whole(snap, h) : (\A i \in Whole(snap, h) : m >= i) => m = p + n
    BY <1>1, <2>1
  <2> QED
    BY <2>1, <2>2 DEF Max
<1>7. Last(w) = market[p + n]
  BY <1>1, <1>4 DEF Last
<1> QED
  BY <1>1, <1>5, <1>6, <1>7 DEF w

-----------------------------------------------------------------------------
(* The table of outcomes *)

Later(snap) == {i \in DOMAIN market : market[i].bar > snap.bar}

\* All the bars a horizon asks for are in the table; more of them change nothing.
Complete(snap, h) ==
    IF h = Session THEN \E i \in DOMAIN market : market[i].closes >= SpanOf(snap).end
    ELSE Cardinality(Later(snap)) >= h

Frozen(rows, k) == k \in DOMAIN rows /\ rows[k].final

IsWhole(row, snap, h) ==
    /\ Complete(snap, h) /\ Max(Whole(snap, h)) \in DOMAIN market
    /\ row.bars = Cardinality(Whole(snap, h)) /\ row.last = market[Max(Whole(snap, h))].bar

\* Snapshots are of candles in the table, rows are of snapshots, final ones of whole horizons.
RowsExact ==
    /\ outcomes = [snaps |-> outcomes.snaps, rows |-> outcomes.rows, marked |-> outcomes.marked,
                   lost |-> outcomes.lost]
    /\ \A snap \in outcomes.snaps : \E i \in DOMAIN market : market[i].bar = snap.bar
    /\ \A k \in DOMAIN outcomes.rows : \E snap \in outcomes.snaps, h \in Horizons : k = <<snap, h>>
    /\ \A snap \in outcomes.snaps, h \in Horizons :
          Frozen(outcomes.rows, <<snap, h>>) => IsWhole(outcomes.rows[<<snap, h>>], snap, h)

\* What is remembered as final, or closed, is final in the table.
ClosedWhole ==
    /\ obs.left \subseteq outcomes.snaps
    /\ \A snap \in obs.barsFinal : \A h \in Config.horizons : Frozen(outcomes.rows, <<snap, h>>)
    /\ \A snap \in obs.settled \cup outcomes.marked : \A h \in Horizons : Frozen(outcomes.rows, <<snap, h>>)

Waits(snap) ==
    \/ \E h \in Horizons : ~Ended(snap, h)
    \/ ~\E i \in DOMAIN market : snap.bar < market[i].bar /\ market[i].bar < SpanOf(snap).end

\* Such a snapshot, or one that a page of older ones kept out of the last pass.
Excused(snap) == Waits(snap) \/ Behind(snap, obs.pending)

\* What stays open after the last candle waits for bars, or was kept out of the pass.
NoneForgotten ==
    /\ obs.pc # "idle" => obs.done \in DOMAIN market
    /\ obs.pc = "idle" => obs.left = {}
    /\ obs.pc # "freeze" /\ obs.done = Len(market) =>
          \A snap \in outcomes.snaps \ (outcomes.marked \cup obs.left) : Excused(snap)

Accounted == RowsExact /\ ClosedWhole /\ NoneForgotten

\* The candles table is in order, each bar a slot long.
LEMMA FedSorts ==
    ASSUME Fed
    PROVE  market \in Seq(Candle) /\ Sorted(market) /\ Len(market) \in Nat /\ DOMAIN market = 1..Len(market)
           /\ \A i \in DOMAIN market : market[i].bar \in Int /\ market[i].closes = market[i].bar + 1
BY InOrder DEF Fed, Sorted

\* The session of a snapshot has an end.
LEMMA SpanEnds ==
    ASSUME NEW snap, snap.bar \in Int
    PROVE  SpanOf(snap).end \in Int
<1>1. Cal!TradingDate(Calendar, snap.bar) \in Int
  BY DatesOf
<1> QED
  BY <1>1, SpansDay DEF SpanOf, Day

\* The horizons are numbers of bars, and the session's.
LEMMA HorizonTypes == Session \in Horizons /\ Session \notin Config.horizons /\ Horizons \subseteq Nat
                      /\ Horizons = Config.horizons \cup {Session} /\ \A h \in Config.horizons : h \in Nat /\ h >= 1
BY HorizonsAssumption DEF Horizons, Session

\* The later candles are the end of the table.
LEMMA LaterIs ==
    ASSUME Fed, NEW snap, snap.bar \in Int
    PROVE  LET p == Passed(market, snap.bar)
           IN  /\ p \in Nat /\ p <= Len(market) /\ Later(snap) = p + 1 .. Len(market)
               /\ Cardinality(Later(snap)) = Len(market) - p
               /\ Len(After(market, snap.bar)) = Len(market) - p
<1> DEFINE p == Passed(market, snap.bar)
<1>0. market \in Seq(Candle) /\ Sorted(market) /\ Len(market) \in Nat /\ DOMAIN market = 1..Len(market)
      /\ \A i \in DOMAIN market : market[i].bar \in Int
  BY FedSorts
<1>1. p \in 0..Len(market) /\ \A i \in DOMAIN market : i <= p <=> market[i].bar <= snap.bar
  BY <1>0, PassedIs
<1>2. Len(After(market, snap.bar)) = Len(market) - p
  BY <1>0, AfterIs
<1> HIDE DEF p
<1>3. Later(snap) = p + 1 .. Len(market)
  <2>1. \A i \in DOMAIN market : market[i].bar > snap.bar <=> p < i
    BY <1>0, <1>1
  <2>2. \A i : i \in Later(snap) <=> i \in 1..Len(market) /\ p < i
    BY <1>0, <1>1, <2>1 DEF Later
  <2>3. \A i : i \in p + 1 .. Len(market) <=> i \in 1..Len(market) /\ p < i
    BY <1>0, <1>1
  <2> QED
    BY <2>2, <2>3
<1>4. Cardinality(Later(snap)) = Len(market) - p
  <2>1. p \in Nat /\ Len(market) - p \in Nat /\ p + (Len(market) - p) = Len(market)
    BY <1>0, <1>1
  <2>2. Cardinality(p + 1 .. p + (Len(market) - p)) = Len(market) - p
    BY <2>1, Counted
  <2> QED
    BY <1>3, <2>1, <2>2
<1> QED
  BY <1>0, <1>1, <1>2, <1>3, <1>4 DEF p

\* The whole of a horizon that is complete is not longer with the next candle.
LEMMA WholeStays ==
    ASSUME StateInv, BarCloses, NEW snap, NEW h \in Horizons, \E i \in DOMAIN market : market[i].bar = snap.bar,
           Complete(snap, h)
    PROVE  Complete(snap, h)' /\ Whole(snap, h)' = Whole(snap, h) /\ Whole(snap, h) \subseteq DOMAIN market
<1> DEFINE n == Len(market)
           end == SpanOf(snap).end
           p == Passed(market, snap.bar)
<1>1. Fed /\ Fed' /\ Len(market') = n + 1 /\ \A i \in DOMAIN market : market'[i] = market[i]
  BY BarFeeds DEF StateInv
<1>2. n \in Nat /\ DOMAIN market = 1..n /\ \A i \in DOMAIN market : market[i].bar \in Int /\ market[i].closes = market[i].bar + 1
  BY <1>1, FedSorts
<1>3. DOMAIN market' = 1..n+1 /\ market'[n+1].bar \in Int /\ \A i \in DOMAIN market : market'[n+1].bar > market[i].bar
  <2>1. market' \in Seq(Candle) /\ DOMAIN market' = 1..n+1 /\ n + 1 \in DOMAIN market'
    BY <1>1, <1>2 DEF Fed
  <2>2. \A i \in DOMAIN market' : market'[i].bar \in Int
    BY <2>1, BarsAre
  <2>3. \A i \in DOMAIN market' : market'[i].bar = path'.bars[i].slot
    BY <1>1 DEF Fed
  <2>4. path' \in Course /\ \A i, j \in DOMAIN path'.bars : i < j => path'.bars[i].slot < path'.bars[j].slot
    BY <1>1 DEF Fed
  <2>5. DOMAIN market' \subseteq DOMAIN path'.bars
    BY <1>1, <1>2, <2>1, <2>4 DEF Fed, Course, Lists
  <2>6. \A i \in DOMAIN market : i \in DOMAIN market' /\ i < n + 1
    BY <1>2, <2>1
  <2>7. \A i \in DOMAIN market : market'[i].bar < market'[n+1].bar
    BY <2>1, <2>3, <2>4, <2>5, <2>6
  <2>8. \A i \in DOMAIN market : market[i].bar \in Int /\ market[i].bar < market'[n+1].bar
    BY <1>1, <1>2, <2>7
  <2> QED
    BY <2>1, <2>2, <2>8
<1>4. snap.bar \in Int /\ market'[n+1].bar > snap.bar
  BY <1>2, <1>3
<1>5. end \in Int
  BY <1>4, SpanEnds
<1>6. p \in Nat /\ p <= n /\ Later(snap) = p + 1 .. n /\ Cardinality(Later(snap)) = n - p
  BY <1>1, <1>4, LaterIs
<1> HIDE DEF p, n, end
<1>7. Later(snap)' = Later(snap) \cup {n + 1}
  <2>1. \A i : i \in DOMAIN market' <=> i \in DOMAIN market \/ i = n + 1
    BY <1>2, <1>3
  <2> QED
    BY <1>1, <1>4, <2>1 DEF Later
<1>8. Later(snap)' = p + 1 .. p + (n + 1 - p) /\ n + 1 - p \in Nat
  <2>1. n + 1 - p \in Nat /\ p + (n + 1 - p) = n + 1
    BY <1>2, <1>6
  <2>2. \A i : i \in p + 1 .. n + 1 <=> i \in p + 1 .. n \/ i = n + 1
    BY <1>2, <1>6
  <2>3. Later(snap)' = p + 1 .. n + 1
    BY <1>6, <1>7, <2>2
  <2> QED
    BY <2>1, <2>3
<1>9. Cardinality(Later(snap)') = n + 1 - p
  BY <1>6, <1>8, Counted
<1>10. Whole(snap, h) \subseteq DOMAIN market
  <2>1. Whole(snap, h) \subseteq Later(snap)
    BY DEF Whole, Later
  <2> QED
    BY <2>1 DEF Later
<1>11. CASE h = Session
  <2>1. PICK i \in DOMAIN market : market[i].closes >= end
    BY <1>11 DEF Complete, end
  <2>2. market'[i].closes >= end /\ i \in DOMAIN market' /\ market'[n+1].bar >= end
    BY <1>1, <1>2, <1>3, <1>5, <2>1
  <2>3. Complete(snap, h)'
    BY <1>11, <2>2 DEF Complete, end
  <2>4. Whole(snap, h) = {j \in Later(snap) : market[j].bar < end}
    BY <1>11 DEF Whole, Later, end
  <2>5. Whole(snap, h)' = {j \in Later(snap)' : market'[j].bar < end}
    BY <1>11 DEF Whole, Later, end
  <2>6. \A j \in Later(snap) : market'[j] = market[j]
    BY <1>1 DEF Later
  <2>7. ~(market'[n+1].bar < end)
    BY <1>3, <1>5, <2>2
  <2>8. Whole(snap, h)' = Whole(snap, h)
    BY <1>7, <2>4, <2>5, <2>6, <2>7
  <2> QED
    BY <1>10, <2>3, <2>8
<1>12. CASE h # Session
  <2>1. h \in Nat /\ n - p >= h
    BY <1>6, <1>12, HorizonTypes DEF Complete
  <2>2. Complete(snap, h)'
    BY <1>2, <1>6, <1>9, <1>12, <2>1 DEF Complete
  <2>3. Whole(snap, h) = {j \in Later(snap) : Cardinality({x \in Later(snap) : x <= j}) <= h}
    BY <1>12 DEF Whole, Later
  <2>4. Whole(snap, h)' = {j \in Later(snap)' : Cardinality({x \in Later(snap)' : x <= j}) <= h}
    BY <1>12 DEF Whole, Later
  <2>5. ASSUME NEW j \in Later(snap) PROVE {x \in Later(snap)' : x <= j} = {x \in Later(snap) : x <= j}
    <3>1. ~(n + 1 <= j)
      BY <1>2, <1>6
    <3> QED
      BY <1>7, <3>1
  <2>6. {x \in Later(snap)' : x <= n + 1} = Later(snap)'
    BY <1>2, <1>6, <1>7
  <2>7. ~(Cardinality({x \in Later(snap)' : x <= n + 1}) <= h)
    <3>1. Cardinality({x \in Later(snap)' : x <= n + 1}) = n + 1 - p
      BY <1>9, <2>6
    <3>2. ~(n + 1 - p <= h)
      BY <1>2, <1>6, <2>1
    <3> QED
      BY <3>1, <3>2
  <2>8. Whole(snap, h)' = Whole(snap, h)
    BY <1>7, <2>3, <2>4, <2>5, <2>7
  <2> QED
    BY <1>10, <2>2, <2>8
<1> QED
  BY <1>11, <1>12

\* What a window says of itself.
LEMMA WindowMeans ==
    ASSUME Fed, obs.done \in DOMAIN market, NEW snap, snap.bar \in Int, NEW h \in Horizons
    PROVE  LET over == market[obs.done].closes >= SpanOf(snap).end
               w == Window(snap, market, h, SpanOf(snap).end, over)
           IN  /\ w.final => Complete(snap, h)
               /\ ~w.final => ~Ended(snap, h)
               /\ w.candles = <<>> => IF h = Session THEN Whole(snap, h) = {} ELSE Later(snap) = {}
               /\ w.candles # <<>> => Max(Whole(snap, h)) \in DOMAIN market
<1> DEFINE p == Passed(market, snap.bar)
           end == SpanOf(snap).end
           over == market[obs.done].closes >= end
           w == Window(snap, market, h, end, over)
           future == After(market, snap.bar)
           inside == Until(future, end)
<1>1. market \in Seq(Candle) /\ Sorted(market) /\ Len(market) \in Nat /\ DOMAIN market = 1..Len(market)
      /\ \A i \in DOMAIN market : market[i].bar \in Int /\ market[i].closes = market[i].bar + 1
  BY FedSorts
<1>2. p \in Nat /\ p <= Len(market) /\ Later(snap) = p + 1 .. Len(market) /\ Cardinality(Later(snap)) = Len(market) - p
      /\ Len(future) = Len(market) - p
  BY LaterIs
<1>3. end \in Int /\ h \in Nat
  BY SpanEnds, HorizonTypes
<1>4. /\ Taken(snap, h) \in Nat /\ p + Taken(snap, h) <= Len(market)
      /\ Len(w.candles) = Taken(snap, h) /\ \A i \in 1..Taken(snap, h) : w.candles[i] = market[i + p]
  <2>1. Copies(w.candles, p, Taken(snap, h))
    BY <1>1, <1>3, WindowIs
  <2> QED
    BY <2>1 DEF Copies
<1>5. Whole(snap, h) = p + 1 .. p + Taken(snap, h)
  BY <1>1, <1>3, WholeIs
<1>6. w.candles = <<>> => Taken(snap, h) = 0
  BY <1>4
<1>7. w.candles # <<>> => Max(Whole(snap, h)) \in DOMAIN market
  <2>1. w.candles # <<>> => Taken(snap, h) # 0
    BY <1>4
  <2> HIDE DEF w, p
  <2> SUFFICES ASSUME Taken(snap, h) # 0 PROVE Max(Whole(snap, h)) \in DOMAIN market
    BY <2>1
  <2>2. p + Taken(snap, h) \in Whole(snap, h) /\ \A i \in Whole(snap, h) : p + Taken(snap, h) >= i
    BY <1>2, <1>4, <1>5
  <2>3. Max(Whole(snap, h)) \in Whole(snap, h)
    BY <2>2 DEF Max
  <2> QED
    BY <1>1, <1>2, <1>4, <1>5, <2>3
<1>8. CASE h = Session
  <2>1. future \in Seq(Candle) /\ Sorted(future) /\ \A i \in 1..Len(market) - p : future[i] = market[i + p]
    BY <1>1, AfterIs
  <2> DEFINE q == Passed(future, end - 1)
  <2>2. end - 1 \in Int
    BY <1>3
  <2> HIDE DEF future, end
  <2>3. Len(inside) = q /\ \A i \in 1..q : inside[i] = future[i]
    BY <1>3, <2>1, UntilIs
  <2>4. q \in 0..Len(future) /\ \A i \in DOMAIN future : i <= q <=> future[i].bar <= end - 1
    BY <2>1, <2>2, PassedIs
  <2>5. w.final = (over \/ Len(inside) < Len(future) \/ (inside # <<>> /\ Last(inside).closes >= end))
    BY <1>8 DEF Window, future
  <2>6. over => Complete(snap, h)
    BY <1>8 DEF Complete, end
  <2> HIDE DEF p, q
  <2>7. ASSUME Len(inside) < Len(future) PROVE Complete(snap, h)
    <3>1. q + 1 \in DOMAIN future /\ ~(q + 1 <= q) /\ q + 1 \in 1..Len(market) - p /\ q + 1 + p \in DOMAIN market
      BY <1>1, <1>2, <2>1, <2>3, <2>4, <2>7
    <3>2. ~(future[q + 1].bar <= end - 1) /\ future[q + 1] = market[q + 1 + p]
      BY <2>1, <2>4, <3>1
    <3>3. market[q + 1 + p].closes >= end
      BY <1>1, <1>3, <3>1, <3>2
    <3> QED
      BY <1>8, <3>1, <3>3 DEF Complete, end
  <2>8. ASSUME inside # <<>>, Last(inside).closes >= end PROVE Complete(snap, h)
    <3> HIDE DEF inside
    <3>1. q # 0
      BY <2>3, <2>8
    <3>2. q \in 1..q /\ q \in 1..Len(market) - p /\ q + p \in DOMAIN market
      BY <1>1, <1>2, <2>4, <3>1
    <3>3. Last(inside) = market[q + p]
      BY <2>1, <2>3, <3>2 DEF Last
    <3> QED
      BY <1>8, <2>8, <3>2, <3>3 DEF Complete, end
  <2>9. w.final => Complete(snap, h)
    BY <2>5, <2>6, <2>7, <2>8
  <2>10. ~w.final => ~Ended(snap, h)
    BY <1>8, <2>5 DEF Ended, end
  <2>11. w.candles = <<>> => Whole(snap, h) = {}
    BY <1>2, <1>4, <1>5, <1>6
  <2> QED
    BY <1>7, <1>8, <2>9, <2>10, <2>11 DEF end
<1>9. CASE h # Session
  <2>1. w.final = (Len(future) >= h)
    BY <1>9 DEF Window
  <2>2. Complete(snap, h) <=> Cardinality(Later(snap)) >= h
    BY <1>9 DEF Complete
  <2>3. Ended(snap, h) <=> Cardinality(Later(snap)) >= h
    BY <1>9 DEF Ended, Later
  <2>4. Taken(snap, h) = 0 => Later(snap) = {}
    <3>1. h >= 1 /\ Taken(snap, h) = IF Len(market) - p < h THEN Len(market) - p ELSE h
      BY <1>9, HorizonTypes DEF Taken
    <3> HIDE DEF p
    <3>2. Taken(snap, h) = 0 => p = Len(market)
      <4>1. ASSUME NEW n \in Int, NEW x \in Int, NEW y \in Int, x <= n, y >= 1, (IF n - x < y THEN n - x ELSE y) = 0
            PROVE  x = n
        BY <4>1
      <4>2. p \in Int /\ Len(market) \in Int /\ h \in Int
        BY <1>1, <1>2, <1>3
      <4> QED
        BY <1>2, <3>1, <4>1, <4>2
    <3>3. p = Len(market) => p + 1 .. Len(market) = {}
      BY <1>1
    <3> QED
      BY <1>2, <3>2, <3>3
  <2> QED
    BY <1>2, <1>6, <1>7, <1>9, <2>1, <2>2, <2>3, <2>4
<1> QED
  BY <1>8, <1>9

-----------------------------------------------------------------------------
(* The tables through the steps *)

\* An upsert freezes final rows: it changes none, and adds those that are final now.
LEMMA Upserts ==
    ASSUME NEW rows, NEW snap, NEW seen, \A k \in DOMAIN rows : \E s, h : k = <<s, h>>,
           NEW new, new = Upserted(rows, snap, seen)
    PROVE  /\ DOMAIN new = DOMAIN rows \cup {<<snap, h>> : h \in DOMAIN seen}
           /\ \A k : Frozen(rows, k) => Frozen(new, k) /\ new[k] = rows[k]
           /\ \A k : Frozen(new, k) =>
                 Frozen(rows, k) \/ \E h \in DOMAIN seen : k = <<snap, h>> /\ new[k] = seen[h] /\ seen[h].final
           /\ \A h \in DOMAIN seen : seen[h].final => Frozen(new, <<snap, h>>)
<1> DEFINE Fresher(k) == k[1] = snap /\ k[2] \in DOMAIN seen /\ ~Frozen(rows, k)
<1>1. new = [k \in DOMAIN rows \cup {<<snap, h>> : h \in DOMAIN seen} |-> IF Fresher(k) THEN seen[k[2]] ELSE rows[k]]
  BY DEF Upserted, Frozen
<1>2. DOMAIN new = DOMAIN rows \cup {<<snap, h>> : h \in DOMAIN seen}
  BY <1>1
<1>3. ASSUME NEW k, Frozen(rows, k) PROVE Frozen(new, k) /\ new[k] = rows[k]
  <2>1. k \in DOMAIN rows /\ k \in DOMAIN new /\ ~Fresher(k) /\ rows[k].final
    BY <1>2, <1>3 DEF Frozen
  <2>2. new[k] = rows[k]
    BY <1>1, <1>2, <2>1
  <2> QED
    BY <2>1, <2>2 DEF Frozen
<1>4. ASSUME NEW k, Frozen(new, k)
      PROVE  Frozen(rows, k) \/ \E h \in DOMAIN seen : k = <<snap, h>> /\ new[k] = seen[h] /\ seen[h].final
  <2>1. k \in DOMAIN new /\ new[k].final
    BY <1>4 DEF Frozen
  <2>2. CASE Fresher(k)
    <3>1. new[k] = seen[k[2]]
      BY <1>1, <1>2, <2>1, <2>2
    <3>2. k = <<snap, k[2]>>
      <4>1. CASE k \in DOMAIN rows
        <5>1. PICK s, h : k = <<s, h>>
          BY <4>1
        <5> QED
          BY <2>2, <5>1
      <4>2. CASE k \notin DOMAIN rows
        BY <1>2, <2>1, <4>2
      <4> QED
        BY <4>1, <4>2
    <3> QED
      BY <2>1, <2>2, <3>1, <3>2
  <2>3. CASE ~Fresher(k)
    <3>1. new[k] = rows[k]
      BY <1>1, <1>2, <2>1, <2>3
    <3>2. k \in DOMAIN rows
      <4>1. CASE k \notin DOMAIN rows
        <5>1. PICK h \in DOMAIN seen : k = <<snap, h>>
          BY <1>2, <2>1, <4>1
        <5>2. k[1] = snap /\ k[2] \in DOMAIN seen /\ ~Frozen(rows, k)
          BY <4>1, <5>1 DEF Frozen
        <5> QED
          BY <2>3, <5>2
      <4> QED
        BY <4>1
    <3> QED
      BY <2>1, <3>1, <3>2 DEF Frozen
  <2> QED
    BY <2>2, <2>3
<1>5. ASSUME NEW h \in DOMAIN seen, seen[h].final PROVE Frozen(new, <<snap, h>>)
  <2> DEFINE k == <<snap, h>>
  <2>1. k \in DOMAIN new /\ k[1] = snap /\ k[2] = h
    BY <1>2
  <2> HIDE DEF k
  <2>2. CASE Frozen(rows, k)
    BY <1>3, <2>2 DEF k
  <2>3. CASE ~Frozen(rows, k)
    <3>1. new[k] = seen[h]
      BY <1>1, <1>2, <2>1, <2>3
    <3> QED
      BY <1>5, <2>1, <3>1 DEF Frozen, k
  <2> QED
    BY <2>2, <2>3 DEF k
<1> QED
  BY <1>2, <1>3, <1>4, <1>5

\* The parts of Settle, by name.
DayOver(snap) == market[obs.done].closes >= SpanOf(snap).end
Asked(snap) ==
    (IF snap \in obs.barsFinal THEN {} ELSE Config.horizons)
        \cup (IF DayOver(snap) \/ ~(snap \in obs.sessionSeen) THEN {Session} ELSE {})
Seen(snap) == Observe(snap, market, Asked(snap), SpanOf(snap).end, DayOver(snap), snap \in outcomes.lost)
BarsDone(snap) ==
    snap \in obs.barsFinal \/ \A h \in Config.horizons : h \in DOMAIN Seen(snap) /\ Seen(snap)[h].final
AllDone(snap) == BarsDone(snap) /\ Session \in DOMAIN Seen(snap) /\ Seen(snap)[Session].final
Skips(snap) ==
    (snap \in obs.barsFinal /\ snap \in obs.sessionSeen /\ ~DayOver(snap))
        \/ ~\E i \in DOMAIN market : market[i].bar > snap.bar

\* A visit either skips a snapshot that is settled or writes what the bars show, and is done when
\* all of it is final.
LEMMA SettleIs ==
    ASSUME Memory(obs), RowsExact, NEW snap, Settle(snap)
    PROVE  /\ obs.pc = "settle" /\ market' = market /\ obs'.done = obs.done /\ obs'.pending = obs.pending
           /\ outcomes' = [snaps |-> outcomes.snaps, rows |-> outcomes'.rows, marked |-> outcomes.marked,
                           lost |-> outcomes.lost]
           /\ \/ /\ Skips(snap) /\ outcomes' = outcomes /\ obs'.pc = "settle" /\ obs'.left = obs.left \ {snap}
                 /\ obs'.settled = obs.settled /\ obs'.barsFinal = obs.barsFinal
              \/ /\ outcomes'.rows = Upserted(outcomes.rows, snap, Seen(snap))
                 /\ AllDone(snap) => obs'.pc = "mark" /\ obs'.left = obs.left /\ obs'.settled = {snap}
                 /\ ~AllDone(snap) => obs'.pc = "settle" /\ obs'.left = obs.left \ {snap} /\ obs'.settled = {}
                 /\ obs'.barsFinal = IF BarsDone(snap) THEN obs.barsFinal \cup {snap} ELSE obs.barsFinal
<1>1. /\ obs.pc = "settle" /\ market' = market
      /\ IF Skips(snap) THEN obs' = [obs EXCEPT !.left = @ \ {snap}] /\ outcomes' = outcomes
         ELSE /\ outcomes' = [outcomes EXCEPT !.rows = Upserted(outcomes.rows, snap, Seen(snap))]
              /\ obs' = [obs EXCEPT !.pc = IF AllDone(snap) THEN "mark" ELSE "settle",
                                    !.left = IF AllDone(snap) THEN @ ELSE @ \ {snap},
                                    !.settled = IF AllDone(snap) THEN {snap} ELSE {},
                                    !.barsFinal = IF BarsDone(snap) THEN @ \cup {snap} ELSE @,
                                    !.sessionSeen = @ \cup {snap}]
  BY Zenon DEF Settle, DayOver, Asked, Seen, BarsDone, AllDone, Skips
<1>2. CASE Skips(snap)
  BY <1>1, <1>2 DEF Memory, RowsExact
<1>3. CASE ~Skips(snap)
  <2>1. outcomes' = [outcomes EXCEPT !.rows = Upserted(outcomes.rows, snap, Seen(snap))]
    BY <1>1, <1>3
  <2>2. outcomes'.rows = Upserted(outcomes.rows, snap, Seen(snap))
        /\ outcomes' = [snaps |-> outcomes.snaps, rows |-> outcomes'.rows, marked |-> outcomes.marked,
                        lost |-> outcomes.lost]
    BY <2>1 DEF RowsExact
  <2>3. obs' = [obs EXCEPT !.pc = IF AllDone(snap) THEN "mark" ELSE "settle",
                           !.left = IF AllDone(snap) THEN @ ELSE @ \ {snap},
                           !.settled = IF AllDone(snap) THEN {snap} ELSE {},
                           !.barsFinal = IF BarsDone(snap) THEN @ \cup {snap} ELSE @,
                           !.sessionSeen = @ \cup {snap}]
    BY <1>1, <1>3
  <2>4. /\ obs'.done = obs.done /\ obs'.pending = obs.pending
        /\ obs'.pc = IF AllDone(snap) THEN "mark" ELSE "settle"
        /\ obs'.left = IF AllDone(snap) THEN obs.left ELSE obs.left \ {snap}
        /\ obs'.settled = IF AllDone(snap) THEN {snap} ELSE {}
        /\ obs'.barsFinal = IF BarsDone(snap) THEN obs.barsFinal \cup {snap} ELSE obs.barsFinal
    BY <2>3 DEF Memory
  <2> QED
    BY <1>1, <2>2, <2>4
<1> QED
  BY <1>2, <1>3

\* What Settle sees of a snapshot.
LEMMA SeenIs ==
    ASSUME Fed, obs.done \in DOMAIN market, NEW snap, snap.bar \in Int
    PROVE  /\ \A h \in DOMAIN Seen(snap) : h \in Horizons /\ (Seen(snap)[h].final => IsWhole(Seen(snap)[h], snap, h))
           /\ AllDone(snap) \/ Skips(snap) \/ Waits(snap)
           /\ Skips(snap) => Waits(snap)
<1> DEFINE end == SpanOf(snap).end
           over == market[obs.done].closes >= end
           W(h) == Window(snap, market, h, end, over)
<1>1. market \in Seq(Candle) /\ Sorted(market) /\ \A i \in DOMAIN market : market[i].bar \in Int
  BY FedSorts
<1>2. end \in Int
  BY SpanEnds
<1>3. Asked(snap) \subseteq Horizons
  BY HorizonTypes DEF Asked
<1>4. ASSUME NEW h \in Horizons
      PROVE  /\ W(h).final => Complete(snap, h)
             /\ ~W(h).final => ~Ended(snap, h)
             /\ W(h).candles = <<>> => IF h = Session THEN Whole(snap, h) = {} ELSE Later(snap) = {}
             /\ W(h).candles # <<>> => /\ Max(Whole(snap, h)) \in DOMAIN market
                                       /\ Len(W(h).candles) = Cardinality(Whole(snap, h))
                                       /\ Last(W(h).candles).bar = market[Max(Whole(snap, h))].bar
  <2>1. h \in Nat
    BY HorizonTypes
  <2>2. /\ W(h).final => Complete(snap, h)
        /\ ~W(h).final => ~Ended(snap, h)
        /\ W(h).candles = <<>> => IF h = Session THEN Whole(snap, h) = {} ELSE Later(snap) = {}
        /\ W(h).candles # <<>> => Max(Whole(snap, h)) \in DOMAIN market
    BY WindowMeans
  <2>3. W(h).candles # <<>> => /\ Len(W(h).candles) = Cardinality(Whole(snap, h))
                               /\ Last(W(h).candles).bar = market[Max(Whole(snap, h))].bar
    BY <1>1, <1>2, <2>1, ObservedIs
  <2> QED
    BY <2>2, <2>3
<1>5. /\ DOMAIN Seen(snap) = {h \in Asked(snap) : W(h).candles # <<>>}
      /\ \A h \in DOMAIN Seen(snap) :
            Seen(snap)[h] = Observation(snap, market, h, end, over, snap \in outcomes.lost)
  BY DEF Seen, Observe, DayOver
<1>6. \A h \in DOMAIN Seen(snap) : /\ Seen(snap)[h].bars = Len(W(h).candles)
                                   /\ Seen(snap)[h].last = Last(W(h).candles).bar
                                   /\ Seen(snap)[h].final = W(h).final
  <2> SUFFICES ASSUME NEW h \in DOMAIN Seen(snap)
               PROVE  /\ Seen(snap)[h].bars = Len(W(h).candles)
                      /\ Seen(snap)[h].last = Last(W(h).candles).bar
                      /\ Seen(snap)[h].final = W(h).final
    OBVIOUS
  <2> DEFINE o == Observation(snap, market, h, end, over, snap \in outcomes.lost)
  <2>1. o.bars = Len(W(h).candles) /\ o.last = Last(W(h).candles).bar
    BY DEF Observation
  <2>2. o.final = W(h).final
    BY DEF Observation
  <2>3. Seen(snap)[h] = o
    BY <1>5
  <2> HIDE DEF o, W
  <2> QED
    BY <2>1, <2>2, <2>3
<1> HIDE DEF W, end, over
<1>7. ASSUME NEW h \in DOMAIN Seen(snap)
      PROVE  h \in Horizons /\ (Seen(snap)[h].final => IsWhole(Seen(snap)[h], snap, h))
  BY <1>3, <1>4, <1>5, <1>6 DEF IsWhole
<1>8. ~DayOver(snap) => Waits(snap)
  <2>1. ~DayOver(snap) => ~Ended(snap, Session)
    BY DEF DayOver, Ended
  <2> QED
    BY <2>1, HorizonTypes DEF Waits
<1>9. Later(snap) = {} => Waits(snap)
  BY <1>1 DEF Later, Waits
<1>10. Skips(snap) => Waits(snap)
  BY <1>8, <1>9 DEF Skips, Later
<1>11. ASSUME ~AllDone(snap), ~Skips(snap) PROVE Waits(snap)
  <2>1. CASE ~BarsDone(snap)
    <3>1. PICK h \in Config.horizons : snap \notin obs.barsFinal /\ ~(h \in DOMAIN Seen(snap) /\ Seen(snap)[h].final)
      BY <2>1 DEF BarsDone
    <3>2. h \in Asked(snap) /\ h \in Horizons /\ h # Session
      BY <3>1, HorizonTypes DEF Asked
    <3>3. CASE h \notin DOMAIN Seen(snap)
      BY <1>4, <1>5, <1>9, <3>2, <3>3
    <3>4. CASE h \in DOMAIN Seen(snap)
      BY <1>4, <1>6, <3>1, <3>2, <3>4 DEF Waits
    <3> QED
      BY <3>3, <3>4
  <2>2. CASE Session \notin DOMAIN Seen(snap)
    <3>1. CASE Session \notin Asked(snap)
      BY <1>8, <3>1 DEF Asked
    <3>2. CASE Session \in Asked(snap)
      <4>1. Whole(snap, Session) = {}
        BY <1>4, <1>5, <2>2, <3>2, HorizonTypes
      <4>2. ~\E i \in DOMAIN market : market[i].bar > snap.bar /\ market[i].bar < SpanOf(snap).end
        BY <4>1 DEF Whole
      <4> QED
        BY <1>1, <4>2 DEF Waits
    <3> QED
      BY <3>1, <3>2
  <2>3. CASE Session \in DOMAIN Seen(snap) /\ ~Seen(snap)[Session].final
    BY <1>4, <1>6, <2>3, HorizonTypes DEF Waits
  <2> QED
    BY <1>11, <2>1, <2>2, <2>3 DEF AllDone
<1> QED
  BY <1>7, <1>10, <1>11

\* What a horizon takes depends on the table only.
LEMMA SameWhole ==
    ASSUME market' = market, NEW snap, NEW h
    PROVE  Whole(snap, h)' = Whole(snap, h) /\ (Complete(snap, h)' <=> Complete(snap, h))
<1>1. Whole(snap, h)' = Whole(snap, h)
  BY DEF Whole
<1>2. Later(snap)' = Later(snap)
  BY DEF Later
<1>3. Complete(snap, h)' <=> Complete(snap, h)
  BY <1>2 DEF Complete
<1> QED
  BY <1>1, <1>3

\* So does whether a snapshot waits for bars, for one position of the process.
LEMMA SameWaits ==
    ASSUME market' = market, obs'.done = obs.done, NEW snap
    PROVE  Waits(snap)' <=> Waits(snap)
<1>1. \A h : Ended(snap, h)' <=> Ended(snap, h)
  BY DEF Ended
<1> QED
  BY <1>1 DEF Waits

LEMMA SameExcused ==
    ASSUME market' = market, obs'.done = obs.done, obs'.pending = obs.pending, NEW snap
    PROVE  Excused(snap)' <=> Excused(snap)
<1>1. Waits(snap)' <=> Waits(snap)
  BY SameWaits
<1>2. Behind(snap, obs.pending)' <=> Behind(snap, obs.pending)
  OBVIOUS
<1> QED
  BY <1>1, <1>2 DEF Excused

\* Snapshots may be added where the rows stay.
LEMMA RowsStay ==
    ASSUME RowsExact, market' = market, outcomes'.rows = outcomes.rows, outcomes.snaps \subseteq outcomes'.snaps,
           \A snap \in outcomes'.snaps : \E i \in DOMAIN market : market[i].bar = snap.bar,
           outcomes' = [snaps |-> outcomes'.snaps, rows |-> outcomes'.rows, marked |-> outcomes'.marked,
                        lost |-> outcomes'.lost]
    PROVE  RowsExact'
<1>1. \A k \in DOMAIN outcomes'.rows : \E snap \in outcomes'.snaps, h \in Horizons : k = <<snap, h>>
  BY DEF RowsExact
<1>2. ASSUME NEW snap \in outcomes'.snaps, NEW h \in Horizons, Frozen(outcomes.rows, <<snap, h>>)
      PROVE  IsWhole(outcomes.rows[<<snap, h>>], snap, h)
  <2>1. PICK s \in outcomes.snaps, g \in Horizons : <<snap, h>> = <<s, g>>
    BY <1>2 DEF RowsExact, Frozen
  <2>2. snap \in outcomes.snaps
    BY <2>1
  <2> QED
    BY <1>2, <2>2 DEF RowsExact
<1>3. \A snap \in outcomes'.snaps, h \in Horizons :
         Frozen(outcomes.rows, <<snap, h>>)' => IsWhole(outcomes.rows[<<snap, h>>], snap, h)'
  <2> SUFFICES ASSUME NEW snap \in outcomes'.snaps, NEW h \in Horizons, Frozen(outcomes.rows, <<snap, h>>)'
               PROVE  IsWhole(outcomes.rows[<<snap, h>>], snap, h)'
    OBVIOUS
  <2>1. Frozen(outcomes.rows, <<snap, h>>)
    BY DEF Frozen
  <2>2. IsWhole(outcomes.rows[<<snap, h>>], snap, h)
    BY <1>2, <2>1
  <2> QED
    BY <2>2, SameWhole DEF IsWhole
<1> QED
  BY <1>1, <1>3 DEF RowsExact

\* A new bar keeps the outcomes accounted for.
LEMMA BarAccounts ==
    ASSUME StateInv, Accounted, BarCloses
    PROVE  Accounted'
<1>1. /\ Len(market') = Len(market) + 1 /\ \A i \in DOMAIN market : market'[i] = market[i]
      /\ obs.pc = "idle" /\ obs.done = Len(market) /\ UNCHANGED <<obs, outcomes>> /\ Fed /\ Fed'
  BY BarFeeds DEF StateInv
<1>2. DOMAIN market \subseteq DOMAIN market' /\ Len(market) \in Nat
  <2>1. market \in Seq(Candle) /\ market' \in Seq(Candle)
    BY <1>1 DEF Fed
  <2> QED
    BY <1>1, <2>1
<1>3. RowsExact'
  <2>1. \A snap \in outcomes.snaps : \E i \in DOMAIN market' : market'[i].bar = snap.bar
    BY <1>1, <1>2 DEF Accounted, RowsExact
  <2>2. ASSUME NEW snap \in outcomes.snaps, NEW h \in Horizons, Frozen(outcomes.rows, <<snap, h>>)
        PROVE  IsWhole(outcomes.rows[<<snap, h>>], snap, h)'
    <3>1. IsWhole(outcomes.rows[<<snap, h>>], snap, h) /\ \E i \in DOMAIN market : market[i].bar = snap.bar
      BY <2>2 DEF Accounted, RowsExact
    <3>2. Complete(snap, h)' /\ Whole(snap, h)' = Whole(snap, h)
      BY <3>1, WholeStays DEF IsWhole
    <3> QED
      BY <1>1, <1>2, <3>1, <3>2 DEF IsWhole
  <2>3. \A snap \in outcomes'.snaps, h \in Horizons :
           Frozen(outcomes.rows, <<snap, h>>)' => IsWhole(outcomes.rows[<<snap, h>>], snap, h)'
    BY <1>1, <2>2 DEF Frozen
  <2> QED
    BY <1>1, <2>1, <2>3 DEF Accounted, RowsExact
<1>4. ClosedWhole'
  BY <1>1 DEF Accounted, ClosedWhole, Frozen
<1>5. NoneForgotten'
  BY <1>1, <1>2 DEF Accounted, NoneForgotten
<1> QED
  BY <1>3, <1>4, <1>5 DEF Accounted

\* So does taking it.
LEMMA TakeAccounts ==
    ASSUME StateInv, Accounted, TakeBar
    PROVE  Accounted'
<1>1. /\ obs'.done = obs.done + 1 /\ obs'.pc = "freeze" /\ obs'.left = obs.left /\ obs'.settled = obs.settled
      /\ obs'.barsFinal = obs.barsFinal /\ market' = market /\ outcomes' = outcomes
  BY TakeKeeps DEF StateInv, Remembering
<1>2. obs'.done \in DOMAIN market'
  <2>1. obs.done + 1 <= Len(market)
    BY DEF TakeBar
  <2>2. DOMAIN market = 1..Len(market) /\ obs.done \in Nat /\ Len(market) \in Nat
    BY FedSorts DEF StateInv, Remembering
  <2> QED
    BY <1>1, <2>1, <2>2
<1>3. RowsExact'
  BY <1>1, RowsStay DEF Accounted, RowsExact
<1>4. ClosedWhole'
  BY <1>1 DEF Accounted, ClosedWhole, Frozen
<1>5. NoneForgotten'
  BY <1>1, <1>2 DEF NoneForgotten
<1> QED
  BY <1>3, <1>4, <1>5 DEF Accounted

\* So do new snapshots.
LEMMA FreezeAccounts ==
    ASSUME StateInv, Accounted, Freeze
    PROVE  Accounted'
<1> DEFINE all == WithSnaps(market[obs.done], tables.indicators[obs.done], obs.found)
           open == all \ outcomes.marked
<1>1. /\ obs.pc = "freeze" /\ market' = market /\ outcomes' = [outcomes EXCEPT !.snaps = all]
      /\ obs' = [obs EXCEPT !.pc = "settle", !.found = {}, !.pending = open,
                            !.left = {snap \in open : ~Behind(snap, open)}]
  BY DEF Freeze
<1>2. outcomes.snaps \subseteq all /\ \A snap \in all : snap \in outcomes.snaps \/ snap.bar = market[obs.done].bar
  BY DEF WithSnaps, Snap
<1> HIDE DEF all
<1>3. outcomes' = [snaps |-> all, rows |-> outcomes.rows, marked |-> outcomes.marked, lost |-> outcomes.lost]
  BY <1>1 DEF Accounted, RowsExact
<1>4. /\ obs'.pc = "settle" /\ obs'.pending = open /\ obs'.left = {snap \in open : ~Behind(snap, open)}
      /\ obs'.settled = obs.settled
      /\ obs'.barsFinal = obs.barsFinal /\ obs'.done = obs.done
  BY <1>1 DEF StateInv, Remembering, Memory
<1>5. obs.done \in DOMAIN market
  BY <1>1 DEF Accounted, NoneForgotten
<1>6. RowsExact'
  BY <1>1, <1>2, <1>3, <1>5, RowsStay DEF Accounted, RowsExact
<1>7. ClosedWhole'
  BY <1>3, <1>4 DEF Accounted, ClosedWhole, Frozen
<1>8. NoneForgotten'
  <2>1. ASSUME NEW snap \in outcomes'.snaps \ (outcomes'.marked \cup obs'.left) PROVE Excused(snap)'
    <3>1. snap \in open /\ Behind(snap, open)
      BY <1>3, <1>4, <2>1
    <3> QED
      BY <1>4, <3>1 DEF Excused
  <2> QED
    BY <1>1, <1>4, <1>5, <2>1 DEF NoneForgotten
<1> QED
  BY <1>6, <1>7, <1>8 DEF Accounted

\* So does the marker of a snapshot whose horizons are final.
LEMMA MarkAccounts ==
    ASSUME StateInv, Accounted, Mark
    PROVE  Accounted'
<1>1. /\ obs.pc = "mark" /\ market' = market /\ outcomes' = [outcomes EXCEPT !.marked = @ \cup obs.settled]
      /\ obs' = [obs EXCEPT !.pc = "settle", !.settled = {}, !.left = @ \ obs.settled,
                            !.barsFinal = @ \ obs.settled, !.sessionSeen = @ \ obs.settled]
  BY DEF Mark
<1>2. outcomes' = [snaps |-> outcomes.snaps, rows |-> outcomes.rows, marked |-> outcomes.marked \cup obs.settled,
                   lost |-> outcomes.lost]
  BY <1>1 DEF Accounted, RowsExact
<1>3. /\ obs'.pc = "settle" /\ obs'.left = obs.left \ obs.settled /\ obs'.settled = {}
      /\ obs'.barsFinal = obs.barsFinal \ obs.settled /\ obs'.done = obs.done
      /\ obs'.pending = obs.pending
  BY <1>1 DEF StateInv, Remembering, Memory
<1>4. RowsExact'
  BY <1>1, <1>2, RowsStay DEF Accounted, RowsExact
<1>5. ClosedWhole'
  BY <1>2, <1>3 DEF Accounted, ClosedWhole, Frozen
<1>6. NoneForgotten'
  <2>1. ASSUME obs.done = Len(market), NEW snap \in outcomes'.snaps \ (outcomes'.marked \cup obs'.left)
        PROVE  Excused(snap)'
    <3>1. snap \in outcomes.snaps \ (outcomes.marked \cup obs.left)
      BY <1>2, <1>3, <2>1
    <3>2. Excused(snap)
      BY <1>1, <2>1, <3>1 DEF Accounted, NoneForgotten
    <3> QED
      BY <1>1, <1>3, <3>2, SameExcused
  <2> QED
    BY <1>1, <1>3, <2>1 DEF Accounted, NoneForgotten
<1> QED
  BY <1>4, <1>5, <1>6 DEF Accounted

\* So does a visit, which leaves out nothing that could be settled.
LEMMA SettleAccounts ==
    ASSUME StateInv, Accounted, NEW snap \in outcomes.snaps, Settle(snap)
    PROVE  Accounted'
<1>0. Memory(obs) /\ Fed /\ RowsExact
  BY DEF StateInv, Remembering, Accounted
<1>1. /\ obs.pc = "settle" /\ market' = market /\ obs'.done = obs.done /\ obs'.pending = obs.pending
      /\ outcomes' = [snaps |-> outcomes.snaps, rows |-> outcomes'.rows, marked |-> outcomes.marked,
                      lost |-> outcomes.lost]
  BY <1>0, SettleIs
<1>2. obs.done \in DOMAIN market /\ snap.bar \in Int
  <2>1. obs.done \in DOMAIN market /\ \E i \in DOMAIN market : market[i].bar = snap.bar
    BY <1>1 DEF Accounted, NoneForgotten, RowsExact
  <2> QED
    BY <1>0, <2>1, FedSorts
<1>3. outcomes'.snaps = outcomes.snaps /\ outcomes'.marked = outcomes.marked
  BY <1>1
<1>4. ASSUME obs'.left = obs.left \ {snap}, Waits(snap), obs'.pc = "settle" PROVE NoneForgotten'
  <2>1. ASSUME obs.done = Len(market), NEW s \in outcomes'.snaps \ (outcomes'.marked \cup obs'.left)
        PROVE  Excused(s)'
    <3>1. s = snap \/ s \in outcomes.snaps \ (outcomes.marked \cup obs.left)
      BY <1>3, <1>4, <2>1
    <3>2. Excused(s)
      BY <1>1, <1>4, <2>1, <3>1 DEF Accounted, NoneForgotten, Excused
    <3> QED
      BY <1>1, <3>2, SameExcused
  <2> QED
    BY <1>1, <1>2, <1>4, <2>1 DEF NoneForgotten
<1>5. CASE Skips(snap) /\ outcomes' = outcomes /\ obs'.pc = "settle" /\ obs'.left = obs.left \ {snap}
           /\ obs'.settled = obs.settled /\ obs'.barsFinal = obs.barsFinal
  <2>1. RowsExact'
    BY <1>1, <1>5, RowsStay DEF Accounted, RowsExact
  <2>2. ClosedWhole'
    BY <1>5 DEF Accounted, ClosedWhole, Frozen
  <2>3. NoneForgotten'
    BY <1>0, <1>2, <1>4, <1>5, SeenIs
  <2> QED
    BY <2>1, <2>2, <2>3 DEF Accounted
<1>6. CASE /\ outcomes'.rows = Upserted(outcomes.rows, snap, Seen(snap))
           /\ AllDone(snap) => obs'.pc = "mark" /\ obs'.left = obs.left /\ obs'.settled = {snap}
           /\ ~AllDone(snap) => obs'.pc = "settle" /\ obs'.left = obs.left \ {snap} /\ obs'.settled = {}
           /\ obs'.barsFinal = IF BarsDone(snap) THEN obs.barsFinal \cup {snap} ELSE obs.barsFinal
  <2> DEFINE rows == outcomes.rows
             new == outcomes'.rows
  <2>1. /\ DOMAIN new = DOMAIN rows \cup {<<snap, h>> : h \in DOMAIN Seen(snap)}
        /\ \A k : Frozen(rows, k) => Frozen(new, k) /\ new[k] = rows[k]
        /\ \A k : Frozen(new, k) =>
              Frozen(rows, k) \/ \E h \in DOMAIN Seen(snap) : k = <<snap, h>> /\ new[k] = Seen(snap)[h] /\ Seen(snap)[h].final
        /\ \A h \in DOMAIN Seen(snap) : Seen(snap)[h].final => Frozen(new, <<snap, h>>)
    <3>1. \A k \in DOMAIN rows : \E s, h : k = <<s, h>>
      BY <1>0 DEF RowsExact
    <3>2. new = Upserted(rows, snap, Seen(snap))
      BY <1>6
    <3> HIDE DEF rows, new
    <3> QED
      BY <3>1, <3>2, Upserts
  <2>2. /\ \A h \in DOMAIN Seen(snap) : h \in Horizons /\ (Seen(snap)[h].final => IsWhole(Seen(snap)[h], snap, h))
        /\ AllDone(snap) \/ Waits(snap)
    BY <1>0, <1>2, SeenIs
  <2> HIDE DEF rows, new
  <2>3. RowsExact'
    <3>1. \A k \in DOMAIN new : \E s \in outcomes.snaps, h \in Horizons : k = <<s, h>>
      BY <1>0, <2>1, <2>2 DEF RowsExact, rows
    <3>2. ASSUME NEW s \in outcomes.snaps, NEW h \in Horizons, Frozen(new, <<s, h>>)
          PROVE  IsWhole(new[<<s, h>>], s, h)
      <4>1. CASE Frozen(rows, <<s, h>>)
        BY <1>0, <2>1, <4>1 DEF RowsExact, rows
      <4>2. CASE ~Frozen(rows, <<s, h>>)
        <5>1. PICK g \in DOMAIN Seen(snap) : <<s, h>> = <<snap, g>> /\ new[<<s, h>>] = Seen(snap)[g] /\ Seen(snap)[g].final
          BY <2>1, <3>2, <4>2
        <5>2. s = snap /\ h = g
          BY <5>1
        <5>3. IsWhole(Seen(snap)[g], snap, g)
          BY <2>2, <5>1
        <5> QED
          BY <5>1, <5>2, <5>3
      <4> QED
        BY <4>1, <4>2
    <3>3. ASSUME NEW s \in outcomes.snaps, NEW h \in Horizons, Frozen(new, <<s, h>>)
          PROVE  IsWhole(outcomes.rows[<<s, h>>], s, h)'
      BY <1>1, <3>2, <3>3, SameWhole DEF IsWhole, new
    <3>4. \A s \in outcomes'.snaps, h \in Horizons :
             Frozen(outcomes.rows, <<s, h>>)' => IsWhole(outcomes.rows[<<s, h>>], s, h)'
      BY <1>3, <3>3 DEF Frozen, new
    <3>5. /\ outcomes' = [snaps |-> outcomes'.snaps, rows |-> outcomes'.rows, marked |-> outcomes'.marked,
                          lost |-> outcomes'.lost]
          /\ \A s \in outcomes'.snaps : \E i \in DOMAIN market' : market'[i].bar = s.bar
      BY <1>0, <1>1 DEF RowsExact
    <3> QED
      BY <1>3, <3>1, <3>4, <3>5 DEF RowsExact, new
  <2>4. \A k : Frozen(outcomes.rows, k) => Frozen(new, k)
    BY <2>1 DEF rows
  <2>5. BarsDone(snap) => \A h \in Config.horizons : Frozen(new, <<snap, h>>)
    BY <2>1, <2>4 DEF BarsDone, Accounted, ClosedWhole
  <2>6. AllDone(snap) => \A h \in Horizons : Frozen(new, <<snap, h>>)
    BY <2>1, <2>5, HorizonTypes DEF AllDone
  <2>7. ClosedWhole'
    <3>1. obs'.left \subseteq outcomes'.snaps
      BY <1>3, <1>6 DEF Accounted, ClosedWhole
    <3>2. \A s \in obs'.barsFinal : \A h \in Config.horizons : Frozen(new, <<s, h>>)
      <4>1. \A s \in obs.barsFinal : \A h \in Config.horizons : Frozen(new, <<s, h>>)
        BY <2>4 DEF Accounted, ClosedWhole
      <4>2. \A s \in obs'.barsFinal : s \in obs.barsFinal \/ (s = snap /\ BarsDone(snap))
        BY <1>6
      <4> QED
        BY <2>5, <4>1, <4>2
    <3>3. \A s \in obs'.settled \cup outcomes'.marked : \A h \in Horizons : Frozen(new, <<s, h>>)
      BY <1>3, <1>6, <2>4, <2>6 DEF Accounted, ClosedWhole
    <3> QED
      BY <3>1, <3>2, <3>3 DEF ClosedWhole, new, Frozen
  <2>8. NoneForgotten'
    <3>1. CASE ~AllDone(snap)
      BY <1>4, <1>6, <2>2, <3>1
    <3>2. CASE AllDone(snap)
      <4>1. obs'.pc = "mark" /\ obs'.left = obs.left
        BY <1>6, <3>2
      <4>2. ASSUME obs.done = Len(market), NEW s \in outcomes'.snaps \ (outcomes'.marked \cup obs'.left)
            PROVE  Excused(s)'
        BY <1>1, <1>3, <4>1, <4>2, SameExcused DEF Accounted, NoneForgotten
      <4> QED
        BY <1>1, <1>2, <4>1, <4>2 DEF NoneForgotten
    <3> QED
      BY <3>1, <3>2
  <2> QED
    BY <2>3, <2>7, <2>8 DEF Accounted
<1> QED
  BY <1>0, <1>5, <1>6, SettleIs

\* So does a restart, which visits all open snapshots again.
LEMMA RestartAccounts ==
    ASSUME StateInv, Accounted, Restart
    PROVE  Accounted'
<1>1. /\ market' = market /\ outcomes' = outcomes /\ (Len(market) # 0 => obs'.done < Len(market))
      /\ obs' = Fresh(obs'.from)
  BY RestartKeeps
<1>2. obs'.pc = "idle" /\ obs'.left = {} /\ obs'.settled = {} /\ obs'.barsFinal = {}
  <2> DEFINE from == obs'.from
  <2>1. obs' = Fresh(from)
    BY <1>1
  <2> HIDE DEF from
  <2> QED
    BY <2>1, FreshMemory
<1>3. RowsExact'
  BY <1>1, RowsStay DEF Accounted, RowsExact
<1>4. ClosedWhole'
  BY <1>1, <1>2 DEF Accounted, ClosedWhole, Frozen
<1>5. NoneForgotten'
  <2>1. Len(market) = 0 => outcomes.snaps = {}
    <3>1. DOMAIN market = 1..Len(market)
      BY FedSorts DEF StateInv
    <3>2. Len(market) = 0 => DOMAIN market = {}
      BY <3>1
    <3> QED
      BY <3>2 DEF Accounted, RowsExact
  <2>2. Len(market) # 0 => obs'.done # Len(market)
    <3>1. obs'.done \in Int /\ Len(market) \in Int
      BY <1>1, RestartKeeps DEF StateInv, Remembering
    <3> QED
      BY <1>1, <3>1
  <2> QED
    BY <1>1, <1>2, <2>1, <2>2 DEF NoneForgotten
<1> QED
  BY <1>3, <1>4, <1>5 DEF Accounted

\* Steps that leave the candles, the rows and what the observer has still to settle alone.
Aside ==
    /\ market' = market /\ obs'.done = obs.done /\ obs'.pending = obs.pending
    /\ obs'.pc = obs.pc \/ (obs'.pc = "idle" /\ obs.pc = "settle" /\ obs.left = {})
    /\ obs'.left = obs.left /\ obs'.settled = obs.settled /\ obs'.barsFinal = obs.barsFinal
    /\ outcomes' = [snaps |-> outcomes.snaps, rows |-> outcomes.rows, marked |-> outcomes.marked,
                    lost |-> outcomes'.lost]

\* So does what does not touch the outcomes.
LEMMA AsideAccounts ==
    ASSUME Accounted, Aside
    PROVE  Accounted'
<1>0. outcomes'.snaps = outcomes.snaps /\ outcomes'.rows = outcomes.rows /\ outcomes'.marked = outcomes.marked
  BY DEF Aside
<1>1. RowsExact'
  BY <1>0, RowsStay DEF Accounted, RowsExact, Aside
<1>2. ClosedWhole'
  BY <1>0 DEF Accounted, ClosedWhole, Frozen, Aside
<1>3. NoneForgotten'
  BY <1>0, SameExcused DEF Accounted, NoneForgotten, Aside
<1> QED
  BY <1>1, <1>2, <1>3 DEF Accounted

\* So does every step.
LEMMA StepAccounts == StateInv /\ Accounted /\ [Next]_vars => Accounted'
<1> SUFFICES ASSUME StateInv, Accounted, [Next]_vars PROVE Accounted'
  OBVIOUS
<1>0. Memory(obs) /\ outcomes = [snaps |-> outcomes.snaps, rows |-> outcomes.rows, marked |-> outcomes.marked,
                                 lost |-> outcomes.lost]
  BY DEF StateInv, Remembering, Accounted, RowsExact
<1>1. CASE Finish
  <2>1. market' = market /\ outcomes' = outcomes /\ obs.pc = "settle" /\ obs.left = {}
    BY <1>1 DEF Finish
  <2>2. /\ obs'.done = obs.done /\ obs'.pending = obs.pending /\ obs'.pc = "idle" /\ obs'.left = obs.left /\ obs'.settled = obs.settled
        /\ obs'.barsFinal = obs.barsFinal
    BY <1>0, <1>1, FinishKeeps
  <2> QED
    BY <1>0, <2>1, <2>2, AsideAccounts DEF Aside
<1>2. ASSUME NEW t, NEW b, HigherBar(t, b) PROVE Accounted'
  <2>1. market' = market /\ outcomes' = outcomes
    BY <1>2 DEF HigherBar
  <2>2. /\ obs'.done = obs.done /\ obs'.pending = obs.pending /\ obs'.pc = obs.pc /\ obs'.left = obs.left /\ obs'.settled = obs.settled
        /\ obs'.barsFinal = obs.barsFinal
    BY <1>0, <1>2, HigherKeeps
  <2> QED
    BY <1>0, <2>1, <2>2, AsideAccounts DEF Aside
<1>3. ASSUME NEW snap, SetupFails(snap) PROVE Accounted'
  <2>1. market' = market /\ obs' = obs /\ outcomes' = [outcomes EXCEPT !.lost = @ \cup {snap}]
    BY <1>3 DEF SetupFails
  <2>2. outcomes' = [snaps |-> outcomes.snaps, rows |-> outcomes.rows, marked |-> outcomes.marked,
                     lost |-> outcomes.lost \cup {snap}]
    BY <1>0, <2>1
  <2> QED
    BY <2>1, <2>2, AsideAccounts DEF Aside
<1>4. CASE UNCHANGED vars
  BY <1>0, <1>4, AsideAccounts DEF vars, Aside
<1> QED
  BY <1>1, <1>2, <1>3, <1>4, BarAccounts, TakeAccounts, FreezeAccounts, MarkAccounts, SettleAccounts,
     RestartAccounts DEF Next

\* Through crashes between the writes and replays from the middle, for any bars, calendar and
\* horizons: a final outcome is over the whole of its horizon, a closed snapshot has nothing but
\* final outcomes, and what is left open waits for bars, is of the last bar of its day, or was
\* kept out of the last pass by a page of older ones.
THEOREM OutcomesAreWhole == Spec => []FinalIsWhole
<1>1. Init => Accounted
  <2> SUFFICES ASSUME Init PROVE Accounted
    OBVIOUS
  <2>1. /\ obs = Fresh(1) /\ outcomes = [snaps |-> {}, rows |-> NoRows, marked |-> {}, lost |-> {}]
    BY DEF Init
  <2>2. obs.pc = "idle" /\ obs.left = {} /\ obs.settled = {} /\ obs.barsFinal = {}
    BY <2>1, FreshMemory
  <2>3. outcomes.snaps = {} /\ outcomes.marked = {} /\ DOMAIN outcomes.rows = {}
    BY <2>1 DEF NoRows
  <2>4. RowsExact
    BY <2>1, <2>3 DEF RowsExact
  <2> QED
    BY <2>2, <2>3, <2>4 DEF Accounted, ClosedWhole, NoneForgotten
<1>2. Accounted => FinalIsWhole
  <2> SUFFICES ASSUME Accounted PROVE FinalIsWhole
    OBVIOUS
  <2>1. ASSUME NEW k \in DOMAIN outcomes.rows, outcomes.rows[k].final
        PROVE  /\ outcomes.rows[k].bars = Cardinality(Whole(k[1], k[2]))
               /\ outcomes.rows[k].last = market[Max(Whole(k[1], k[2]))].bar
    <3>1. PICK snap \in outcomes.snaps, h \in Horizons : k = <<snap, h>>
      BY DEF Accounted, RowsExact
    <3>2. Frozen(outcomes.rows, <<snap, h>>)
      BY <2>1, <3>1 DEF Frozen
    <3>3. IsWhole(outcomes.rows[<<snap, h>>], snap, h)
      BY <3>2 DEF Accounted, RowsExact
    <3>4. k[1] = snap /\ k[2] = h
      BY <3>1
    <3> QED
      BY <3>1, <3>3, <3>4 DEF IsWhole
  <2>2. \A snap \in outcomes.marked : \A h \in Horizons :
           <<snap, h>> \in DOMAIN outcomes.rows /\ outcomes.rows[<<snap, h>>].final
    BY DEF Accounted, ClosedWhole, Frozen
  <2>3. obs.pc = "idle" /\ obs.done = Len(market) => \A snap \in outcomes.snaps \ outcomes.marked : Excused(snap)
    BY DEF Accounted, NoneForgotten
  <2> QED
    BY <2>1, <2>2, <2>3 DEF FinalIsWhole, Excused, Waits
<1> QED
  BY <1>1, <1>2, StartState, StepState, StepAccounts, PTL DEF Spec

-----------------------------------------------------------------------------
(* Swings *)

Labels == {"SH", "SL", "EH", "EL", "HH", "LH", "HL", "LL"}
Pivots(kind) == [kind : {kind}, price : Int, bar : Int, at : Int, label : Labels]

Least(a, b) == IF a <= b THEN a ELSE b

Width == 2 * Config.strength + 1

\* In a table m and a process that was fed its places from f to n, the window holds the last
\* bars, as many as a swing takes.
Windowed(w, m, f, n) ==
    /\ w \in Seq(Candle) /\ Len(w) = Least(Width, n + 1 - f)
    /\ \A i \in 1..Len(w) : w[i] = m[n - Len(w) + i]

\* The places in a row of numbers that are above the strength ones before and not below those after.
Peaks(v, a, b) ==
    {i \in a + Config.strength .. b - Config.strength :
        \A j \in 1..Config.strength : v[i] > v[i - j] /\ v[i + j] <= v[i]}

Tops(m)    == [i \in DOMAIN m |-> m[i].high]
Bottoms(m) == [i \in DOMAIN m |-> 0 - m[i].low]

Slots(m, S) == {m[i].bar : i \in S}
Bars(pivots) == {p.bar : p \in pivots}
Rows(pivots, kind) == {p \in pivots : p.kind = kind}

\* The structure is a record with the swings of those bars.
Structures(s, m, f, n) ==
    /\ s = [window |-> s.window, highs |-> s.highs, lows |-> s.lows, context |-> s.context]
    /\ Windowed(s.window, m, f, n)
    /\ s.highs \in Seq(Pivots("HIGH")) /\ s.lows \in Seq(Pivots("LOW"))
    /\ Bars(ToSet(s.highs)) = Slots(m, Peaks(Tops(m), f, n))
    /\ Bars(ToSet(s.lows)) = Slots(m, Peaks(Bottoms(m), f, n))

\* The bars some process was fed are the first ones, all of the table but perhaps the last;
\* a process starts before the swings that the next one may complete.
Feeding(o, len, top) ==
    /\ top \in Nat /\ len - 1 <= top /\ top <= len /\ o.done <= top
    /\ o.from = 1 \/ o.from + 2 * Config.strength <= top + 1

Charted(pivots, m, top) ==
    /\ pivots = Rows(pivots, "HIGH") \cup Rows(pivots, "LOW")
    /\ Bars(Rows(pivots, "HIGH")) = Slots(m, Peaks(Tops(m), 1, top))
    /\ Bars(Rows(pivots, "LOW")) = Slots(m, Peaks(Bottoms(m), 1, top))

SwingsKnown ==
    /\ path.warm > 2 * Config.strength
    /\ Structures(obs.structure, market, obs.from, obs.done)
    /\ \E top \in Nat : /\ DOMAIN tables.indicators = 1..top
                        /\ Feeding(obs, Len(market), top) /\ Charted(tables.pivots, market, top)

\* The window of a swing is its bar and as many on either side.
LEMMA StrengthIs == Config.strength \in Nat \ {0} /\ Width \in Nat /\ Width = 2 * Config.strength + 1
BY ConfigAssumption DEF Width

\* A label is one of the labels of a swing.
LEMMA LabelIs ==
    ASSUME NEW kind \in {"HIGH", "LOW"}, NEW price, NEW last, NEW atr
    PROVE  Label(kind, price, last, atr) \in Labels
BY DEF Label, Labels

\* The window after one more bar.
Pushed(w, c) == IF Len(Append(w, c)) > Width THEN Tail(Append(w, c)) ELSE Append(w, c)

\* v is w with c at its end: without the first of its k bars, or with all of them.
Slid(v, w, c, k) ==
    v \in Seq(Candle) /\ Len(v) = k /\ \A i \in 1..k : v[i] = IF i = k THEN c ELSE w[i + 1]
Longer(v, w, c, k) ==
    v \in Seq(Candle) /\ Len(v) = k + 1 /\ \A i \in 1..k + 1 : v[i] = IF i = k + 1 THEN c ELSE w[i]

\* A bar pushed to a window makes it longer, or makes it slide when it is full.
LEMMA PushIs ==
    ASSUME NEW w \in Seq(Candle), NEW c \in Candle, NEW k \in Nat, k = Len(w)
    PROVE  IF k + 1 > Width THEN Slid(Pushed(w, c), w, c, k) ELSE Longer(Pushed(w, c), w, c, k)
<1>1. /\ Append(w, c) \in Seq(Candle) /\ Len(Append(w, c)) = k + 1
      /\ \A i \in 1..k + 1 : Append(w, c)[i] = IF i = k + 1 THEN c ELSE w[i]
  OBVIOUS
<1>2. Width \in Nat
  BY StrengthIs
<1>3. CASE k + 1 > Width
  <2>1. Pushed(w, c) = Tail(Append(w, c))
    BY <1>1, <1>3 DEF Pushed
  <2> DEFINE all == Append(w, c)
  <2>2. all \in Seq(Candle) /\ Len(all) = k + 1
    BY <1>1
  <2>3. \A i \in 1..k : all[i + 1] = IF i = k THEN c ELSE w[i + 1]
    BY <1>1
  <2> HIDE DEF all
  <2>4. all # <<>>
    BY <2>2
  <2>5. Tail(all) \in Seq(Candle) /\ Len(Tail(all)) = k /\ \A i \in 1..k : Tail(all)[i] = all[i + 1]
    BY <2>2, <2>4
  <2>6. Pushed(w, c) = Tail(all)
    BY <2>1 DEF all
  <2> QED
    BY <1>2, <1>3, <2>3, <2>5, <2>6 DEF Slid
<1>4. CASE k + 1 <= Width
  <2>1. Pushed(w, c) = Append(w, c)
    BY <1>1, <1>2, <1>4 DEF Pushed
  <2> QED
    BY <1>1, <1>2, <1>4, <2>1 DEF Longer
<1> QED
  BY <1>2, <1>3, <1>4

\* The window holds the last bars that were fed, after a bar too.
LEMMA WindowTakes ==
    ASSUME StateInv, obs.done < Len(market), NEW w, Windowed(w, market, obs.from, obs.done)
    PROVE  Windowed(Pushed(w, market[obs.done + 1]), market, obs.from, obs.done + 1)
<1>1. PICK n \in Nat, f \in Nat, k \in Nat : n = obs.done /\ f = obs.from /\ k = Len(w) /\ f <= n + 1 /\ f > 0
  BY DEF StateInv, Remembering, Windowed
<1>2. PICK c \in Candle : c = market[n + 1]
  BY <1>1, InOrder DEF StateInv
<1>3. PICK v : v = Pushed(w, c)
  OBVIOUS
<1>4. Width \in Nat /\ Width > 0
  BY StrengthIs
<1>5. w \in Seq(Candle) /\ \A i \in 1..k : w[i] = market[n - k + i]
  BY <1>1 DEF Windowed
<1>8. k = Least(Width, n + 1 - f)
  BY <1>1 DEF Windowed
<1>9. n \in Nat /\ f \in Nat /\ k \in Nat /\ f <= n + 1 /\ f > 0
  BY <1>1
<1>10. k = Len(w)
  BY <1>1
<1>11. w \in Seq(Candle)
  BY <1>5
<1>12. obs.from = f
  BY <1>1
<1>13. obs.done = n
  BY <1>1
<1>6. CASE k + 1 > Width
  <2>1. v \in Seq(Candle) /\ Len(v) = k /\ \A i \in 1..k : v[i] = IF i = k THEN c ELSE w[i + 1]
    <3>1. Slid(Pushed(w, c), w, c, k)
      BY <1>4, <1>9, <1>10, <1>11, <1>6, PushIs
    <3>2. Slid(v, w, c, k)
      BY <1>3, <3>1
    <3> QED
      BY <3>2 DEF Slid
  <2>2. k = Least(Width, n + 2 - f)
    BY <1>4, <1>6, <1>8, <1>9 DEF Least
  <2>3. \A i \in 1..k : v[i] = market[n + 1 - k + i]
    <3> SUFFICES ASSUME NEW i \in 1..k PROVE v[i] = market[n + 1 - k + i]
      OBVIOUS
    <3>1. CASE i = k
      <4>1. n + 1 - k + i = n + 1
        BY <3>1
      <4> QED
        BY <1>2, <2>1, <3>1, <4>1
    <3>2. CASE i # k
      <4>1. i + 1 \in 1..k /\ n - k + (i + 1) = n + 1 - k + i
        BY <3>2
      <4> QED
        BY <1>5, <2>1, <3>2, <4>1
    <3> QED
      BY <3>1, <3>2
  <2>4. v = Pushed(w, market[obs.done + 1]) /\ obs.done + 1 = n + 1 /\ n + 2 - f = obs.done + 1 + 1 - obs.from
    <3>1. v = Pushed(w, market[obs.done + 1])
      BY <1>2, <1>3, <1>13
    <3>2. n + 2 - f = n + 1 + 1 - f
      BY <1>9
    <3> QED
      BY <1>12, <1>13, <3>1, <3>2
  <2> QED
    BY <2>1, <2>2, <2>3, <2>4 DEF Windowed
<1>7. CASE k + 1 <= Width
  <2>1. v \in Seq(Candle) /\ Len(v) = k + 1 /\ \A i \in 1..k + 1 : v[i] = IF i = k + 1 THEN c ELSE w[i]
    <3>1. Longer(Pushed(w, c), w, c, k)
      BY <1>4, <1>9, <1>10, <1>11, <1>7, PushIs
    <3>2. Longer(v, w, c, k)
      BY <1>3, <3>1
    <3> QED
      BY <3>2 DEF Longer
  <2>2. k + 1 = Least(Width, n + 2 - f)
    BY <1>4, <1>7, <1>8, <1>9 DEF Least
  <2>3. \A i \in 1..k + 1 : v[i] = market[n + 1 - (k + 1) + i]
    <3> SUFFICES ASSUME NEW i \in 1..k + 1 PROVE v[i] = market[n + 1 - (k + 1) + i]
      OBVIOUS
    <3>1. CASE i = k + 1
      <4>1. n + 1 - (k + 1) + i = n + 1
        BY <3>1
      <4> QED
        BY <1>2, <2>1, <3>1, <4>1
    <3>2. CASE i # k + 1
      <4>1. i \in 1..k /\ n + 1 - (k + 1) + i = n - k + i
        BY <3>2
      <4> QED
        BY <1>5, <2>1, <3>2, <4>1
    <3> QED
      BY <3>1, <3>2
  <2>4. v = Pushed(w, market[obs.done + 1]) /\ obs.done + 1 = n + 1 /\ n + 2 - f = obs.done + 1 + 1 - obs.from
    <3>1. v = Pushed(w, market[obs.done + 1])
      BY <1>2, <1>3, <1>13
    <3>2. n + 2 - f = n + 1 + 1 - f
      BY <1>9
    <3> QED
      BY <1>12, <1>13, <3>1, <3>2
  <2>5. PICK m \in Nat : m = k + 1
    BY <1>9
  <2>6. Len(v) = m /\ \A i \in 1..m : v[i] = market[n + 1 - m + i]
    BY <2>1, <2>3, <2>5
  <2>8. m = Least(Width, n + 1 + 1 - obs.from)
    <3>1. n + 1 + 1 - obs.from = n + 2 - f
      BY <1>9, <1>12
    <3>2. m = Least(Width, n + 2 - f)
      BY <2>2, <2>5
    <3> QED
      BY <3>1, <3>2
  <2>7. Windowed(v, market, obs.from, n + 1)
    <3>1. Len(v) = Least(Width, n + 1 + 1 - obs.from)
      BY <2>6, <2>8
    <3>2. \A i \in 1..Len(v) : v[i] = market[n + 1 - Len(v) + i]
      BY <2>6, Zenon
    <3> QED
      BY <2>1, <3>1, <3>2 DEF Windowed
  <2> QED
    BY <2>4, <2>7
<1> QED
  BY <1>4, <1>6, <1>7


\* The tops and bottoms of the bars are integers, by their places.
LEMMA Heights ==
    ASSUME Fed
    PROVE  /\ Tops(market) \in [1..Len(market) -> Int] /\ Bottoms(market) \in [1..Len(market) -> Int]
           /\ \A i \in 1..Len(market) : Tops(market)[i] = market[i].high /\ Bottoms(market)[i] = 0 - market[i].low
           /\ \A i \in 1..Len(market) : market[i].high \in Int /\ market[i].low \in Int
<1>1. DOMAIN market = 1..Len(market) /\ \A i \in DOMAIN market : market[i] \in Candle
  BY InOrder
<1>2. \A i \in DOMAIN market : market[i].high \in Int /\ market[i].low \in Int
  BY <1>1 DEF Candle
<1> QED
  BY <1>1, <1>2 DEF Tops, Bottoms

\* A bar is above another if its top is, below if its bottom is.
LEMMA HigherAndLower ==
    ASSUME Fed, NEW i \in 1..Len(market), NEW j \in 1..Len(market)
    PROVE  /\ Above(market[i], market[j]) <=> Tops(market)[i] > Tops(market)[j]
           /\ Below(market[i], market[j]) <=> Bottoms(market)[i] > Bottoms(market)[j]
<1>1. PICK a \in Int, b \in Int : a = market[i].high /\ b = market[j].high
  BY Heights
<1>2. PICK c \in Int, d \in Int : c = market[i].low /\ d = market[j].low
  BY Heights
<1>3. Tops(market)[i] = a /\ Tops(market)[j] = b /\ Bottoms(market)[i] = 0 - c /\ Bottoms(market)[j] = 0 - d
  BY <1>1, <1>2, Heights
<1>4. a > b <=> Tops(market)[i] > Tops(market)[j]
  BY <1>3
<1>5. c < d <=> Bottoms(market)[i] > Bottoms(market)[j]
  BY <1>3
<1> QED
  BY <1>1, <1>2, <1>4, <1>5 DEF Above, Below

\* Swing highs are the peaks of the tops, swing lows those of the bottoms.
LEMMA SwingsArePeaks ==
    ASSUME Fed, NEW a \in Nat \ {0}, NEW b \in Int, b <= Len(market)
    PROVE  /\ SwingBars(a, b, Above) = Peaks(Tops(market), a, b)
           /\ SwingBars(a, b, Below) = Peaks(Bottoms(market), a, b)
<1> DEFINE s == Config.strength
<1>1. s \in Nat /\ s > 0 /\ Len(market) \in Nat
  BY StrengthIs, InOrder
<1>2. ASSUME NEW i \in a + s .. b - s, NEW j \in 1..s
      PROVE  i \in 1..Len(market) /\ i - j \in 1..Len(market) /\ i + j \in 1..Len(market)
  BY <1>1
<1>3. ASSUME NEW i \in a + s .. b - s, NEW j \in 1..s
      PROVE  /\ Above(market[i], market[i - j]) <=> Tops(market)[i] > Tops(market)[i - j]
             /\ Above(market[i + j], market[i]) <=> ~(Tops(market)[i + j] <= Tops(market)[i])
             /\ Below(market[i], market[i - j]) <=> Bottoms(market)[i] > Bottoms(market)[i - j]
             /\ Below(market[i + j], market[i]) <=> ~(Bottoms(market)[i + j] <= Bottoms(market)[i])
  <2> DEFINE p == i - j
             q == i + j
  <2>1. i \in 1..Len(market) /\ p \in 1..Len(market) /\ q \in 1..Len(market)
    BY <1>2
  <2> HIDE DEF p, q
  <2>2. /\ Above(market[i], market[p]) <=> Tops(market)[i] > Tops(market)[p]
        /\ Above(market[q], market[i]) <=> Tops(market)[q] > Tops(market)[i]
        /\ Below(market[i], market[p]) <=> Bottoms(market)[i] > Bottoms(market)[p]
        /\ Below(market[q], market[i]) <=> Bottoms(market)[q] > Bottoms(market)[i]
    BY <2>1, HigherAndLower
  <2>3. Tops(market)[q] \in Int /\ Tops(market)[i] \in Int /\ Bottoms(market)[q] \in Int /\ Bottoms(market)[i] \in Int
    BY <2>1, Heights
  <2>4. (Tops(market)[q] > Tops(market)[i] <=> ~(Tops(market)[q] <= Tops(market)[i])) /\ (Bottoms(market)[q] > Bottoms(market)[i] <=> ~(Bottoms(market)[q] <= Bottoms(market)[i]))
    BY <2>3
  <2> QED
    BY <2>2, <2>4 DEF p, q
<1> QED
  BY <1>3 DEF SwingBars, Peaks

\* One more bar can add one peak only, the bar that now has its right side.
LEMMA PeaksGrow ==
    ASSUME NEW v, NEW a \in Int, NEW b \in Int
    PROVE  Peaks(v, a, b + 1) =
               Peaks(v, a, b) \cup {i \in {b + 1 - Config.strength} : i \in Peaks(v, a, b + 1)}
BY StrengthIs DEF Peaks

\* A shorter stretch has no other peaks, and all that keep their two sides.
LEMMA PeaksWithin ==
    ASSUME NEW v, NEW a \in Int, NEW b \in Int, NEW c \in Int, NEW d \in Int, a <= c, d <= b
    PROVE  /\ Peaks(v, c, d) \subseteq Peaks(v, a, b)
           /\ \A i \in Peaks(v, a, b) : c + Config.strength <= i /\ i <= d - Config.strength => i \in Peaks(v, c, d)
BY StrengthIs DEF Peaks

\* Peaks depend on the values of the stretch only.
LEMMA PeaksSame ==
    ASSUME NEW v, NEW u, NEW a \in Int, NEW b \in Int, \A i \in a..b : v[i] = u[i]
    PROVE  Peaks(v, a, b) = Peaks(u, a, b)
<1> DEFINE s == Config.strength
<1>1. s \in Nat
  BY StrengthIs
<1>2. ASSUME NEW i \in a + s .. b - s, NEW j \in 1..s
      PROVE  v[i] = u[i] /\ v[i - j] = u[i - j] /\ v[i + j] = u[i + j]
  BY <1>1
<1> QED
  BY <1>2 DEF Peaks

\* A peak has both its sides within the stretch.
LEMMA PeaksAre ==
    ASSUME NEW v, NEW a \in Int, NEW b \in Int
    PROVE  /\ Peaks(v, a, b) \subseteq a + Config.strength .. b - Config.strength
           /\ b < a => Peaks(v, a, b) = {}
BY StrengthIs DEF Peaks

\* The window holds the bars around k.
Surrounds(w, n, k) ==
    /\ k \in obs.from + Config.strength .. n - Config.strength /\ w[Config.strength + 1] = market[k]
    /\ \A j \in 1..Config.strength :
          /\ w[Config.strength + 1 - j] = market[k - j] /\ w[Config.strength + 1 + j] = market[k + j]
          /\ {k, k - j, k + j} \subseteq 1..Len(market)

\* Once it is full, they are those around the bar a strength ago.
LEMMA Around ==
    ASSUME StateInv, NEW n \in Nat, n <= Len(market), NEW w, Windowed(w, market, obs.from, n), Len(w) = Width,
           NEW k \in Int, k = n - Config.strength
    PROVE  Surrounds(w, n, k)
<1>1. PICK s \in Nat, f \in Nat : s = Config.strength /\ f = obs.from
  BY StrengthIs DEF StateInv, Remembering
<1>9. s \in Nat /\ f \in Nat /\ k = n - s
  BY <1>1
<1>10. f > 0
  BY <1>1 DEF StateInv, Remembering
<1>11. s > 0 /\ Width = 2 * s + 1
  BY <1>1, StrengthIs
<1>12. Len(market) \in Nat
  BY InOrder DEF StateInv
<1>2. f > 0 /\ s > 0 /\ Width = 2 * s + 1 /\ Len(market) \in Nat /\ s \in Nat /\ f \in Nat /\ k = n - s
  BY <1>9, <1>10, <1>11, <1>12
<1>3. Width = Least(Width, n + 1 - f)
  BY <1>1 DEF Windowed
<1>4. 2 * s + 1 <= n + 1 - f
  BY <1>1, <1>2, <1>3 DEF Least
<1>5. \A i \in 1..2 * s + 1 : w[i] = market[n - (2 * s + 1) + i]
  BY <1>2 DEF Windowed
<1>6. k \in f + s .. n - s
  BY <1>2, <1>4
<1>7. w[s + 1] = market[k]
  <2>1. s + 1 \in 1..2 * s + 1 /\ n - (2 * s + 1) + (s + 1) = k
    BY <1>2
  <2> QED
    BY <1>5, <2>1
<1>8. ASSUME NEW j \in 1..s
      PROVE  /\ w[s + 1 - j] = market[k - j] /\ w[s + 1 + j] = market[k + j]
             /\ {k, k - j, k + j} \subseteq 1..Len(market)
  <2>1. s + 1 - j \in 1..2 * s + 1 /\ n - (2 * s + 1) + (s + 1 - j) = k - j
    BY <1>2
  <2>2. s + 1 + j \in 1..2 * s + 1 /\ n - (2 * s + 1) + (s + 1 + j) = k + j
    BY <1>2
  <2>3. k \in 1..Len(market) /\ k - j \in 1..Len(market) /\ k + j \in 1..Len(market)
    BY <1>2, <1>6
  <2> QED
    BY <1>5, <2>1, <2>2, <2>3
<1> QED
  BY <1>1, <1>6, <1>7, <1>8 DEF Surrounds

\* The middle of the window is a swing exactly if its bar is a peak of what was fed.
LEMMA TurnIs ==
    ASSUME StateInv, NEW n \in Nat, n <= Len(market), NEW w, Windowed(w, market, obs.from, n), obs.from <= n + 1,
           NEW k \in Int, k = n - Config.strength
    PROVE  /\ IsHigh(w) <=> k \in Peaks(Tops(market), obs.from, n)
           /\ IsLow(w) <=> k \in Peaks(Bottoms(market), obs.from, n)
           /\ IsHigh(w) \/ IsLow(w) =>
                 /\ w[Config.strength + 1] = market[k] /\ k \in 1..Len(market)
                 /\ Last(w) = market[n] /\ n \in 1..Len(market)
<1>1. PICK s \in Nat, f \in Nat : s = Config.strength /\ f = obs.from
  BY StrengthIs DEF StateInv, Remembering
<1>9. s \in Nat /\ f \in Nat /\ k = n - s /\ f <= n + 1
  BY <1>1
<1>10. f > 0
  BY <1>1 DEF StateInv, Remembering
<1>11. s > 0 /\ Width = 2 * s + 1
  BY <1>1, StrengthIs
<1>12. Len(market) \in Nat
  BY InOrder DEF StateInv
<1>2. /\ f > 0 /\ s > 0 /\ Width = 2 * s + 1 /\ Len(market) \in Nat /\ s \in Nat /\ f \in Nat
      /\ k = n - s /\ f <= n + 1
  BY <1>9, <1>10, <1>11, <1>12
<1>3. CASE Len(w) # Width
  <2>1. ~IsHigh(w) /\ ~IsLow(w)
    BY <1>1, <1>2, <1>3 DEF IsHigh, IsLow
  <2>2. Len(w) = Least(Width, n + 1 - f)
    BY <1>1 DEF Windowed
  <2>3. n + 1 - f < 2 * s + 1
    BY <1>2, <1>3, <2>2 DEF Least
  <2>4. ~(k \in f + s .. n - s)
    BY <1>2, <2>3
  <2>5. k \notin Peaks(Tops(market), f, n) /\ k \notin Peaks(Bottoms(market), f, n)
    BY <1>1, <2>4, PeaksAre
  <2> QED
    BY <1>1, <2>1, <2>5
<1>4. CASE Len(w) = Width
  <2>0. Surrounds(w, n, k)
    BY <1>4, Around
  <2>1. /\ k \in f + s .. n - s /\ w[s + 1] = market[k]
        /\ \A j \in 1..s : /\ w[s + 1 - j] = market[k - j] /\ w[s + 1 + j] = market[k + j]
                           /\ {k, k - j, k + j} \subseteq 1..Len(market)
    BY <1>1, <2>0 DEF Surrounds
  <2>2. /\ k \in Peaks(Tops(market), f, n) <=> \A j \in 1..s : Tops(market)[k] > Tops(market)[k - j] /\ Tops(market)[k + j] <= Tops(market)[k]
        /\ k \in Peaks(Bottoms(market), f, n) <=>
              \A j \in 1..s : Bottoms(market)[k] > Bottoms(market)[k - j] /\ Bottoms(market)[k + j] <= Bottoms(market)[k]
    BY <1>1, <2>1 DEF Peaks
  <2>3. ASSUME NEW j \in 1..s
        PROVE  /\ Tops(market)[k] > Tops(market)[k - j] <=> w[s + 1].high > w[s + 1 - j].high
               /\ Tops(market)[k + j] <= Tops(market)[k] <=> w[s + 1].high >= w[s + 1 + j].high
               /\ Bottoms(market)[k] > Bottoms(market)[k - j] <=> w[s + 1].low < w[s + 1 - j].low
               /\ Bottoms(market)[k + j] <= Bottoms(market)[k] <=> w[s + 1].low <= w[s + 1 + j].low
    <3>1. PICK x \in 1..Len(market), y \in 1..Len(market) : x = k - j /\ y = k + j
      BY <2>1
    <3>2. k \in 1..Len(market)
      BY <2>1
    <3>3. PICK a \in Int, b \in Int, c \in Int : a = market[k].high /\ b = market[x].high /\ c = market[y].high
      BY <1>1, <3>1, <3>2, Heights DEF StateInv
    <3>4. PICK d \in Int, e \in Int, g \in Int : d = market[k].low /\ e = market[x].low /\ g = market[y].low
      BY <1>1, <3>1, <3>2, Heights DEF StateInv
    <3>5. /\ Tops(market)[k] = a /\ Tops(market)[k - j] = b /\ Tops(market)[k + j] = c
          /\ Bottoms(market)[k] = 0 - d /\ Bottoms(market)[k - j] = 0 - e /\ Bottoms(market)[k + j] = 0 - g
      BY <3>1, <3>2, <3>3, <3>4, Heights DEF StateInv
    <3>6. /\ w[s + 1].high = a /\ w[s + 1 - j].high = b /\ w[s + 1 + j].high = c
          /\ w[s + 1].low = d /\ w[s + 1 - j].low = e /\ w[s + 1 + j].low = g
      BY <2>1, <3>1, <3>3, <3>4
    <3>7. a \in Int /\ b \in Int /\ c \in Int /\ d \in Int /\ e \in Int /\ g \in Int
      BY <3>3, <3>4
    <3>8. Tops(market)[k] > Tops(market)[k - j] <=> w[s + 1].high > w[s + 1 - j].high
      BY <3>5, <3>6
    <3>9. Tops(market)[k + j] <= Tops(market)[k] <=> w[s + 1].high >= w[s + 1 + j].high
      BY <3>5, <3>6, <3>7
    <3>10. Bottoms(market)[k] > Bottoms(market)[k - j] <=> w[s + 1].low < w[s + 1 - j].low
      BY <3>5, <3>6, <3>7
    <3>11. Bottoms(market)[k + j] <= Bottoms(market)[k] <=> w[s + 1].low <= w[s + 1 + j].low
      BY <3>5, <3>6, <3>7
    <3> QED
      BY <3>8, <3>9, <3>10, <3>11
  <2>4. /\ \A i \in 1..s : s + 1 - i \in 1..s /\ i = s + 1 - (s + 1 - i)
        /\ \A i \in s + 2 .. 2 * s + 1 : i - s - 1 \in 1..s /\ i = s + 1 + (i - s - 1)
        /\ \A j \in 1..s : s + 1 - j \in 1..s /\ s + 1 + j \in s + 2 .. 2 * s + 1
    BY <1>2
  <2>5. /\ IsHigh(w) <=> /\ \A i \in 1..s : w[s + 1].high > w[i].high
                         /\ \A i \in s + 2 .. 2 * s + 1 : w[s + 1].high >= w[i].high
        /\ IsLow(w) <=> /\ \A i \in 1..s : w[s + 1].low < w[i].low
                        /\ \A i \in s + 2 .. 2 * s + 1 : w[s + 1].low <= w[i].low
    BY <1>1, <1>2, <1>4 DEF IsHigh, IsLow
  <2>6. /\ IsHigh(w) <=> \A j \in 1..s : w[s + 1].high > w[s + 1 - j].high /\ w[s + 1].high >= w[s + 1 + j].high
        /\ IsLow(w) <=> \A j \in 1..s : w[s + 1].low < w[s + 1 - j].low /\ w[s + 1].low <= w[s + 1 + j].low
    BY <2>4, <2>5
  <2>7. IsHigh(w) <=> k \in Peaks(Tops(market), f, n)
    BY <2>2, <2>3, <2>6
  <2>8. IsLow(w) <=> k \in Peaks(Bottoms(market), f, n)
    BY <2>2, <2>3, <2>6
  <2>9. 1 \in 1..s /\ k \in 1..Len(market)
    BY <1>2, <2>1
  <2>10. Last(w) = market[n] /\ n \in 1..Len(market)
    <3>1. Len(w) = 2 * s + 1 /\ 2 * s + 1 \in 1..2 * s + 1 /\ n - (2 * s + 1) + (2 * s + 1) = n
      BY <1>2, <1>4
    <3>2. w[2 * s + 1] = market[n]
      BY <3>1 DEF Windowed
    <3>3. n \in 1..Len(market)
      BY <1>2, <2>1
    <3> QED
      BY <3>1, <3>2, <3>3 DEF Last
  <2> QED
    BY <1>1, <2>1, <2>7, <2>8, <2>9, <2>10
<1> QED
  BY <1>3, <1>4

\* What a bar adds to the swings of a kind.
LEMMA BarsAdd ==
    ASSUME NEW S, NEW q \in Seq(S), NEW x \in S
    PROVE  /\ Append(q, x) \in Seq(S)
           /\ Bars(ToSet(Append(q, x))) = Bars(ToSet(q)) \cup {x.bar}
<1>1. /\ Append(q, x) \in Seq(S) /\ DOMAIN Append(q, x) = 1..Len(q) + 1 /\ DOMAIN q = 1..Len(q) /\ Len(q) \in Nat
      /\ Append(q, x)[Len(q) + 1] = x /\ \A i \in 1..Len(q) : Append(q, x)[i] = q[i]
  OBVIOUS
<1>0. PICK a : a = Append(q, x)
  OBVIOUS
<1>2. PICK l \in Nat : l = Len(q) /\ a = Append(q, x)
  BY <1>0, <1>1
<1>3. DOMAIN a = 1..l + 1 /\ DOMAIN q = 1..l /\ a[l + 1] = x /\ \A i \in 1..l : a[i] = q[i]
  BY <1>1, <1>2
<1>4. ToSet(a) = ToSet(q) \cup {x}
  <2>1. \A i \in 1..l + 1 : i = l + 1 \/ i \in 1..l
    BY <1>2
  <2>2. l + 1 \in 1..l + 1 /\ 1..l \subseteq 1..l + 1
    BY <1>2
  <2> QED
    BY <1>3, <2>1, <2>2 DEF ToSet
<1>5. Bars(ToSet(a)) = Bars(ToSet(q)) \cup {x.bar}
  BY <1>4 DEF Bars
<1> QED
  BY <1>1, <1>2, <1>5

\* The memory of swings after a bar.
LEMMA StructuredIs ==
    ASSUME NEW s, NEW c, NEW atr, NEW w, w = Pushed(s.window, c)
    PROVE  LET n == Structured(s, c, atr)
               mid == w[Config.strength + 1]
           IN  /\ n = [window |-> n.window, highs |-> n.highs, lows |-> n.lows, context |-> n.context]
               /\ n.window = w
               /\ n.highs = IF IsHigh(w) THEN Add(s.highs, "HIGH", mid.high, w, atr) ELSE s.highs
               /\ n.lows = IF IsLow(w) THEN Add(s.lows, "LOW", mid.low, w, atr) ELSE s.lows
<1> DEFINE mid == w[Config.strength + 1]
           h == IF IsHigh(w) THEN Add(s.highs, "HIGH", mid.high, w, atr) ELSE s.highs
           l == IF IsLow(w) THEN Add(s.lows, "LOW", mid.low, w, atr) ELSE s.lows
           new == [window |-> w, highs |-> h, lows |-> l, context |-> s.context]
<1>1. Structured(s, c, atr) = [new EXCEPT !.context = Context(new)]
  BY DEF Structured, Pushed, Width
<1> HIDE DEF h, l
<1>2. [new EXCEPT !.context = Context(new)] = [window |-> w, highs |-> h, lows |-> l, context |-> Context(new)]
  OBVIOUS
<1> HIDE DEF new
<1> QED
  BY <1>1, <1>2 DEF h, l

\* A swing that is found joins the list with its bar.
LEMMA AddIs ==
    ASSUME NEW kind \in {"HIGH", "LOW"}, NEW q \in Seq(Pivots(kind)), NEW w, NEW price \in Int, NEW atr,
           w[Config.strength + 1].bar \in Int, Last(w).bar \in Int
    PROVE  /\ Add(q, kind, price, w, atr) \in Seq(Pivots(kind))
           /\ Bars(ToSet(Add(q, kind, price, w, atr))) = Bars(ToSet(q)) \cup {w[Config.strength + 1].bar}
<1> DEFINE last == IF q = <<>> THEN None ELSE Last(q)
           bar == w[Config.strength + 1].bar
           at == Last(w).bar
           label == Label(kind, price, last, atr)
           x == [kind |-> kind, price |-> price, bar |-> bar, at |-> at, label |-> label]
<1>1. label \in Labels
  BY LabelIs
<1>2. Add(q, kind, price, w, atr) = Append(q, x)
  BY DEF Add
<1> HIDE DEF last, label, bar, at
<1>3. bar \in Int /\ at \in Int
  BY DEF bar, at
<1>4. x \in Pivots(kind) /\ x.bar = bar
  BY <1>1, <1>3 DEF Pivots
<1> HIDE DEF x
<1>5. Bars(ToSet(Append(q, x))) = Bars(ToSet(q)) \cup {x.bar} /\ Append(q, x) \in Seq(Pivots(kind))
  BY <1>4, BarsAdd
<1> QED
  BY <1>2, <1>4, <1>5 DEF bar

\* The slots of peaks grow by the slot of the new one.
LEMMA SlotsAdd ==
    ASSUME NEW v, NEW a \in Int, NEW b \in Int, NEW k, k = b + 1 - Config.strength
    PROVE  Slots(market, Peaks(v, a, b + 1)) =
               Slots(market, Peaks(v, a, b)) \cup (IF k \in Peaks(v, a, b + 1) THEN {market[k].bar} ELSE {})
BY PeaksGrow DEF Slots

\* A bar more is a swing more, or none, in memory as in the table.
LEMMA StructureTakes ==
    ASSUME StateInv, obs.done < Len(market), Structures(obs.structure, market, obs.from, obs.done), NEW atr
    PROVE  Structures(Structured(obs.structure, market[obs.done + 1], atr), market, obs.from, obs.done + 1)
<1>0. PICK c, w, s, t : /\ c = market[obs.done + 1] /\ s = obs.structure
                        /\ w = Pushed(s.window, c) /\ t = Structured(s, c, atr)
  OBVIOUS
<1>1. PICK n \in Nat : /\ n = obs.done + 1 /\ c = market[obs.done + 1] /\ s = obs.structure
                       /\ w = Pushed(s.window, c) /\ t = Structured(s, c, atr)
  BY <1>0 DEF StateInv, Remembering
<1>2. PICK f \in Nat : f = obs.from
  BY DEF StateInv, Remembering
<1>3. n \in Nat /\ n - 1 \in Nat /\ obs.done = n - 1 /\ n <= Len(market) /\ f <= n /\ f \in Nat /\ Len(market) \in Nat
  BY <1>1, <1>2, InOrder DEF StateInv, Remembering
<1>4. /\ t = [window |-> t.window, highs |-> t.highs, lows |-> t.lows, context |-> t.context]
      /\ t.window = w
      /\ t.highs = IF IsHigh(w) THEN Add(s.highs, "HIGH", w[Config.strength + 1].high, w, atr) ELSE s.highs
      /\ t.lows = IF IsLow(w) THEN Add(s.lows, "LOW", w[Config.strength + 1].low, w, atr) ELSE s.lows
  BY <1>1, StructuredIs
<1>5. /\ Windowed(s.window, market, f, n - 1)
      /\ s.highs \in Seq(Pivots("HIGH")) /\ s.lows \in Seq(Pivots("LOW"))
      /\ Bars(ToSet(s.highs)) = Slots(market, Peaks(Tops(market), f, n - 1))
      /\ Bars(ToSet(s.lows)) = Slots(market, Peaks(Bottoms(market), f, n - 1))
  BY <1>1, <1>2, <1>3 DEF Structures
<1>6. Windowed(w, market, f, n)
  <2>1. Windowed(s.window, market, obs.from, obs.done)
    BY <1>1 DEF Structures
  <2>2. Windowed(Pushed(s.window, market[obs.done + 1]), market, obs.from, obs.done + 1)
    BY <2>1, WindowTakes
  <2> QED
    BY <1>1, <1>2, <2>2
<1>7. PICK k \in Int : k = n - Config.strength
  BY <1>3, StrengthIs
<1>8. /\ IsHigh(w) <=> k \in Peaks(Tops(market), f, n)
      /\ IsLow(w) <=> k \in Peaks(Bottoms(market), f, n)
      /\ IsHigh(w) \/ IsLow(w) =>
            /\ w[Config.strength + 1] = market[k] /\ k \in 1..Len(market)
            /\ Last(w) = market[n] /\ n \in 1..Len(market)
  BY <1>2, <1>3, <1>6, <1>7, TurnIs
<1>9. \A i \in 1..Len(market) : market[i].bar \in Int /\ market[i].high \in Int /\ market[i].low \in Int
  BY Heights, InOrder DEF StateInv
<1>10. \A v : Slots(market, Peaks(v, f, n)) =
                 Slots(market, Peaks(v, f, n - 1)) \cup (IF k \in Peaks(v, f, n) THEN {market[k].bar} ELSE {})
  <2> SUFFICES ASSUME NEW v
               PROVE  Slots(market, Peaks(v, f, n)) =
                         Slots(market, Peaks(v, f, n - 1)) \cup (IF k \in Peaks(v, f, n) THEN {market[k].bar} ELSE {})
    OBVIOUS
  <2>1. PICK b \in Int : b = n - 1
    BY <1>3
  <2>2. n = b + 1 /\ k = b + 1 - Config.strength /\ f \in Int
    BY <1>3, <1>7, <2>1, StrengthIs
  <2>3. Slots(market, Peaks(v, f, b + 1)) =
           Slots(market, Peaks(v, f, b)) \cup (IF k \in Peaks(v, f, b + 1) THEN {market[k].bar} ELSE {})
    BY <2>2, SlotsAdd
  <2> QED
    BY <2>1, <2>2, <2>3
<1>11. t.highs \in Seq(Pivots("HIGH")) /\ Bars(ToSet(t.highs)) = Slots(market, Peaks(Tops(market), f, n))
  <2>1. CASE IsHigh(w)
    <3>1. w[Config.strength + 1].high \in Int /\ w[Config.strength + 1].bar = market[k].bar
          /\ w[Config.strength + 1].bar \in Int /\ Last(w).bar \in Int
      BY <1>8, <1>9, <2>1
    <3>3. t.highs = Add(s.highs, "HIGH", w[Config.strength + 1].high, w, atr)
      BY <1>4, <2>1
    <3>4. "HIGH" \in {"HIGH", "LOW"} /\ s.highs \in Seq(Pivots("HIGH"))
      BY <1>5
    <3>5. /\ t.highs \in Seq(Pivots("HIGH"))
          /\ Bars(ToSet(t.highs)) = Bars(ToSet(s.highs)) \cup {w[Config.strength + 1].bar}
      BY <3>1, <3>3, <3>4, AddIs
    <3>2. /\ t.highs \in Seq(Pivots("HIGH"))
          /\ Bars(ToSet(t.highs)) = Bars(ToSet(s.highs)) \cup {market[k].bar}
      BY <3>1, <3>5
    <3> QED
      BY <1>5, <1>8, <1>10, <2>1, <3>2
  <2>2. CASE ~IsHigh(w)
    BY <1>4, <1>5, <1>8, <1>10, <2>2
  <2> QED
    BY <2>1, <2>2
<1>12. t.lows \in Seq(Pivots("LOW")) /\ Bars(ToSet(t.lows)) = Slots(market, Peaks(Bottoms(market), f, n))
  <2>1. CASE IsLow(w)
    <3>1. w[Config.strength + 1].low \in Int /\ w[Config.strength + 1].bar = market[k].bar
          /\ w[Config.strength + 1].bar \in Int /\ Last(w).bar \in Int
      BY <1>8, <1>9, <2>1
    <3>3. t.lows = Add(s.lows, "LOW", w[Config.strength + 1].low, w, atr)
      BY <1>4, <2>1
    <3>4. "LOW" \in {"HIGH", "LOW"} /\ s.lows \in Seq(Pivots("LOW"))
      BY <1>5
    <3>5. /\ t.lows \in Seq(Pivots("LOW"))
          /\ Bars(ToSet(t.lows)) = Bars(ToSet(s.lows)) \cup {w[Config.strength + 1].bar}
      BY <3>1, <3>3, <3>4, AddIs
    <3>2. /\ t.lows \in Seq(Pivots("LOW"))
          /\ Bars(ToSet(t.lows)) = Bars(ToSet(s.lows)) \cup {market[k].bar}
      BY <3>1, <3>5
    <3> QED
      BY <1>5, <1>8, <1>10, <2>1, <3>2
  <2>2. CASE ~IsLow(w)
    BY <1>4, <1>5, <1>8, <1>10, <2>2
  <2> QED
    BY <2>1, <2>2
<1>13. Structures(t, market, f, n)
  BY <1>4, <1>6, <1>11, <1>12 DEF Structures
<1> QED
  BY <1>1, <1>2, <1>13

\* The swings the table has, with those of a process, are those of all bars that were fed.
LEMMA PeaksMeet ==
    ASSUME NEW v, NEW f \in Nat \ {0}, NEW n \in Nat, NEW top \in Nat, NEW up \in Nat, f <= n, n <= top + 1,
           f = 1 \/ f + 2 * Config.strength <= top + 1, n <= up, top <= up, up = n \/ up = top
    PROVE  Peaks(v, 1, top) \cup Peaks(v, f, n) = Peaks(v, 1, up)
<1>1. PICK s \in Nat : s = Config.strength
  BY StrengthIs
<1>2. f \in Int /\ n \in Int /\ top \in Int /\ up \in Int /\ 1 <= f /\ n <= up /\ top <= up /\ s \in Nat
  BY <1>1
<1>3. Peaks(v, 1, top) \subseteq Peaks(v, 1, up)
  BY <1>2, PeaksWithin
<1>4. Peaks(v, f, n) \subseteq Peaks(v, 1, up)
  BY <1>2, PeaksWithin
<1>5. ASSUME NEW i \in Peaks(v, 1, up) PROVE i \in Peaks(v, 1, top) \cup Peaks(v, f, n)
  <2>1. i \in Int /\ 1 + s <= i /\ i <= up - s
    BY <1>1, <1>2, PeaksAre
  <2>2. CASE i <= top - s
    BY <1>1, <1>2, <2>1, <2>2, PeaksWithin
  <2>3. CASE ~(i <= top - s)
    <3>1. n = up /\ i = n - s /\ n = top + 1
      BY <1>2, <2>1, <2>3
    <3>2. f + s <= i
      BY <1>1, <1>2, <2>1, <3>1
    <3> QED
      BY <1>1, <1>2, <2>1, <3>1, <3>2, PeaksWithin
  <2> QED
    BY <2>2, <2>3
<1> QED
  BY <1>3, <1>4, <1>5

\* A row that is there already stays, and stands for the pivot of its bar.
LEMMA RowsTake ==
    ASSUME NEW s, s.highs \in Seq(Pivots("HIGH")), s.lows \in Seq(Pivots("LOW")),
           tables.pivots = Rows(tables.pivots, "HIGH") \cup Rows(tables.pivots, "LOW")
    PROVE  LET new == WithPivots(s)
           IN  /\ new = Rows(new, "HIGH") \cup Rows(new, "LOW")
               /\ Bars(Rows(new, "HIGH")) = Bars(Rows(tables.pivots, "HIGH")) \cup Bars(ToSet(s.highs))
               /\ Bars(Rows(new, "LOW")) = Bars(Rows(tables.pivots, "LOW")) \cup Bars(ToSet(s.lows))
<1>1. PICK old, H, L, new : old = tables.pivots /\ H = ToSet(s.highs) /\ L = ToSet(s.lows) /\ new = WithPivots(s)
  OBVIOUS
<1>2. H \subseteq Pivots("HIGH") /\ L \subseteq Pivots("LOW")
  BY <1>1 DEF ToSet
<1>3. (\A p \in H : p.kind = "HIGH") /\ (\A p \in L : p.kind = "LOW")
  BY <1>2 DEF Pivots
<1>4. new = old \cup {p \in H \cup L : \A q \in old : <<q.kind, q.bar>> # <<p.kind, p.bar>>}
  BY <1>1 DEF WithPivots
<1>5. \A p \in old : p.kind = "HIGH" \/ p.kind = "LOW"
  BY <1>1 DEF Rows
<1>6. \A p \in new : p \in old \/ p \in H \/ p \in L
  BY <1>4
<1>7. old \subseteq new
  BY <1>4
<1>8. \A p \in H \cup L : p \in new \/ \E q \in old : q.kind = p.kind /\ q.bar = p.bar
  BY <1>4
<1>9. new = Rows(new, "HIGH") \cup Rows(new, "LOW")
  BY <1>3, <1>5, <1>6 DEF Rows
<1>10. Rows(new, "HIGH") \subseteq Rows(old, "HIGH") \cup H /\ Rows(old, "HIGH") \subseteq Rows(new, "HIGH")
  BY <1>3, <1>6, <1>7 DEF Rows
<1>11. Rows(new, "LOW") \subseteq Rows(old, "LOW") \cup L /\ Rows(old, "LOW") \subseteq Rows(new, "LOW")
  BY <1>3, <1>6, <1>7 DEF Rows
<1>12. \A p \in H : \E q \in Rows(new, "HIGH") : q.bar = p.bar
  BY <1>3, <1>7, <1>8 DEF Rows
<1>13. \A p \in L : \E q \in Rows(new, "LOW") : q.bar = p.bar
  BY <1>3, <1>7, <1>8 DEF Rows
<1>14. Bars(Rows(new, "HIGH")) = Bars(Rows(old, "HIGH")) \cup Bars(H)
  BY <1>10, <1>12 DEF Bars
<1>15. Bars(Rows(new, "LOW")) = Bars(Rows(old, "LOW")) \cup Bars(L)
  BY <1>11, <1>13 DEF Bars
<1> QED
  BY <1>1, <1>9, <1>14, <1>15

\* A bar that is taken leaves the table with all swings up to the latest bar ever fed.
LEMMA ChartTakes ==
    ASSUME StateInv, obs.done < Len(market), NEW s, NEW n \in Nat, n = obs.done + 1,
           Structures(s, market, obs.from, n),
           NEW top \in Nat, Feeding(obs, Len(market), top), Charted(tables.pivots, market, top),
           NEW up \in Nat, up = IF n > top THEN n ELSE top
    PROVE  Charted(WithPivots(s), market, up)
<1>1. PICK f \in Nat \ {0} : f = obs.from
  BY DEF StateInv, Remembering
<1>2. f <= n /\ n <= top + 1 /\ (f = 1 \/ f + 2 * Config.strength <= top + 1)
  BY <1>1 DEF StateInv, Remembering, Feeding
<1>3. \A v : Peaks(v, 1, top) \cup Peaks(v, f, n) = Peaks(v, 1, up)
  <2> SUFFICES ASSUME NEW v PROVE Peaks(v, 1, top) \cup Peaks(v, f, n) = Peaks(v, 1, up)
    OBVIOUS
  <2>1. n <= up /\ top <= up /\ (up = n \/ up = top)
    OBVIOUS
  <2>2. n \in Nat /\ top \in Nat /\ up \in Nat
    OBVIOUS
  <2>3. f \in Nat \ {0}
    BY <1>1
  <2> QED
    BY <1>2, <2>1, <2>2, <2>3, PeaksMeet
<1>4. \A v : Slots(market, Peaks(v, 1, top)) \cup Slots(market, Peaks(v, f, n)) = Slots(market, Peaks(v, 1, up))
  BY <1>3 DEF Slots
<1>5. PICK new : new = WithPivots(s)
  OBVIOUS
<1>6. /\ new = Rows(new, "HIGH") \cup Rows(new, "LOW")
      /\ Bars(Rows(new, "HIGH")) = Bars(Rows(tables.pivots, "HIGH")) \cup Bars(ToSet(s.highs))
      /\ Bars(Rows(new, "LOW")) = Bars(Rows(tables.pivots, "LOW")) \cup Bars(ToSet(s.lows))
  BY <1>5, RowsTake DEF Structures, Charted
<1>7. /\ Bars(ToSet(s.highs)) = Slots(market, Peaks(Tops(market), f, n))
      /\ Bars(ToSet(s.lows)) = Slots(market, Peaks(Bottoms(market), f, n))
  BY <1>1 DEF Structures
<1>8. Bars(Rows(new, "HIGH")) = Slots(market, Peaks(Tops(market), 1, up))
  BY <1>4, <1>6, <1>7 DEF Charted
<1>9. Bars(Rows(new, "LOW")) = Slots(market, Peaks(Bottoms(market), 1, up))
  BY <1>4, <1>6, <1>7 DEF Charted
<1> QED
  BY <1>5, <1>6, <1>8, <1>9 DEF Charted

\* Later bars leave the swings of the earlier ones.
LEMMA SlotsSame ==
    ASSUME Fed, NEW m \in Seq(Candle), Len(m) >= Len(market), \A i \in DOMAIN market : m[i] = market[i],
           NEW a \in Nat \ {0}, NEW b \in Int, b <= Len(market)
    PROVE  /\ Slots(m, Peaks(Tops(m), a, b)) = Slots(market, Peaks(Tops(market), a, b))
           /\ Slots(m, Peaks(Bottoms(m), a, b)) = Slots(market, Peaks(Bottoms(market), a, b))
<1>1. DOMAIN market = 1..Len(market) /\ Len(market) \in Nat
  BY InOrder
<1>2. DOMAIN m = 1..Len(m) /\ Len(m) \in Nat
  OBVIOUS
<1>3. \A i \in a..b : i \in DOMAIN market /\ i \in DOMAIN m
  BY <1>1, <1>2
<1>4. \A i \in a..b : Tops(m)[i] = Tops(market)[i] /\ Bottoms(m)[i] = Bottoms(market)[i]
  BY <1>3 DEF Tops, Bottoms
<1>5. /\ Peaks(Tops(m), a, b) = Peaks(Tops(market), a, b)
      /\ Peaks(Bottoms(m), a, b) = Peaks(Bottoms(market), a, b)
  BY <1>4, PeaksSame
<1>6. \A v : \A i \in Peaks(v, a, b) : m[i] = market[i]
  <2> SUFFICES ASSUME NEW v, NEW i \in Peaks(v, a, b) PROVE m[i] = market[i]
    OBVIOUS
  <2>1. i \in a + Config.strength .. b - Config.strength
    BY PeaksAre
  <2>2. i \in a..b
    BY <2>1, StrengthIs
  <2> QED
    BY <1>3, <2>2
<1> QED
  BY <1>5, <1>6 DEF Slots

\* Bars that are appended do not change what the process has seen.
LEMMA StructureStays ==
    ASSUME StateInv, NEW m \in Seq(Candle), Len(m) >= Len(market), \A i \in DOMAIN market : m[i] = market[i],
           NEW s, Structures(s, market, obs.from, obs.done)
    PROVE  Structures(s, m, obs.from, obs.done)
<1>1. PICK f \in Nat \ {0}, n \in Nat : f = obs.from /\ n = obs.done /\ f <= n + 1
  BY DEF StateInv, Remembering
<1>2. Fed /\ n <= Len(market) /\ n \in Int
  BY <1>1 DEF StateInv, Remembering
<1>3. /\ Slots(m, Peaks(Tops(m), f, n)) = Slots(market, Peaks(Tops(market), f, n))
      /\ Slots(m, Peaks(Bottoms(m), f, n)) = Slots(market, Peaks(Bottoms(market), f, n))
  BY <1>2, SlotsSame
<1>4. Windowed(s.window, m, f, n)
  <2>0. PICK w : w = s.window
    OBVIOUS
  <2>1. PICK k \in Nat : w = s.window /\ k = Len(w)
    BY <2>0 DEF Structures, Windowed
  <2>2. w \in Seq(Candle) /\ Len(w) = Least(Width, n + 1 - f) /\ \A i \in 1..Len(w) : w[i] = market[n - Len(w) + i]
    BY <1>1, <2>1 DEF Structures, Windowed
  <2>3. k <= n + 1 - f
    BY <1>1, <2>1, <2>2, StrengthIs DEF Least
  <2>4. DOMAIN market = 1..Len(market) /\ Len(market) \in Nat
    BY <1>2, InOrder
  <2>5. \A i \in 1..k : n - k + i \in DOMAIN market
    <3>1. f \in Nat /\ f > 0 /\ n \in Nat /\ n <= Len(market) /\ k \in Nat
      BY <1>1, <1>2
    <3>2. \A i \in 1..k : 1 <= n - k + i /\ n - k + i <= Len(market) /\ n - k + i \in Int
      BY <2>3, <2>4, <3>1
    <3> QED
      BY <2>4, <3>2
  <2>6. \A i \in 1..k : w[i] = market[n - k + i]
    BY <2>1, <2>2
  <2>7. \A i \in 1..k : w[i] = m[n - k + i]
    BY <2>5, <2>6
  <2>8. \A i \in 1..Len(w) : w[i] = m[n - Len(w) + i]
    BY <2>1, <2>7, Zenon
  <2> QED
    BY <2>1, <2>2, <2>8 DEF Windowed
<1> QED
  BY <1>1, <1>3, <1>4 DEF Structures

\* A process that starts knows no swing.
LEMMA NewStructures ==
    ASSUME NEW m, NEW f \in Nat \ {0}
    PROVE  Structures(NewStructure, m, f, f - 1)
<1> DEFINE s == NewStructure
<1>1. s = [window |-> s.window, highs |-> s.highs, lows |-> s.lows, context |-> s.context]
      /\ s.window = <<>> /\ s.highs = <<>> /\ s.lows = <<>>
  BY DEF NewStructure
<1> HIDE DEF s
<1>2. Windowed(<<>>, m, f, f - 1)
  <2>1. f - 1 + 1 - f = 0
    OBVIOUS
  <2>2. Least(Width, 0) = 0
    BY StrengthIs DEF Least
  <2>3. <<>> \in Seq(Candle) /\ Len(<<>>) = 0 /\ 1..0 = {}
    OBVIOUS
  <2>4. Len(<<>>) = Least(Width, f - 1 + 1 - f)
    BY <2>1, <2>2, <2>3
  <2> QED
    BY <2>3, <2>4 DEF Windowed
<1>3. \A v : Slots(m, Peaks(v, f, f - 1)) = {}
  <2>1. \A v : Peaks(v, f, f - 1) = {}
    BY PeaksAre
  <2> QED
    BY <2>1 DEF Slots
<1>4. Bars(ToSet(<<>>)) = {}
  BY DEF Bars, ToSet
<1>5. <<>> \in Seq(Pivots("HIGH")) /\ <<>> \in Seq(Pivots("LOW"))
  OBVIOUS
<1> QED
  BY <1>1, <1>2, <1>3, <1>4, <1>5 DEF Structures, s

\* Every step keeps the swings known.
LEMMA StepSwings == StateInv /\ SwingsKnown /\ [Next]_vars => SwingsKnown'
<1> SUFFICES ASSUME StateInv, SwingsKnown, [Next]_vars PROVE SwingsKnown'
  OBVIOUS
<1>0. PICK top \in Nat : /\ DOMAIN tables.indicators = 1..top
                         /\ Feeding(obs, Len(market), top) /\ Charted(tables.pivots, market, top)
  BY DEF SwingsKnown
<1>1. Len(market) \in Nat /\ obs.done \in Nat /\ obs.from \in Nat \ {0}
  BY InOrder DEF StateInv, Remembering
\* the steps that leave what swings are about
<1>2. ASSUME obs'.from = obs.from, obs'.done = obs.done, obs'.structure = obs.structure,
             path'.warm = path.warm, UNCHANGED <<market, tables>>
      PROVE  SwingsKnown'
  <2>1. Feeding(obs', Len(market), top)
    BY <1>0, <1>2 DEF Feeding
  <2>2. Structures(obs'.structure, market', obs'.from, obs'.done)
    BY <1>2 DEF SwingsKnown
  <2> QED
    BY <1>0, <1>2, <2>1, <2>2 DEF SwingsKnown
<1>3. CASE BarCloses
  <2>1. /\ market' \in Seq(Candle) /\ Len(market') = Len(market) + 1
        /\ \A i \in DOMAIN market : market'[i] = market[i]
        /\ obs.done = Len(market) /\ UNCHANGED <<path, obs, tables, outcomes>>
    BY <1>3, BarFeeds
  <2>2. PICK m \in Seq(Candle) : m = market'
    BY <2>1
  <2>3. Len(m) >= Len(market) /\ \A i \in DOMAIN market : m[i] = market[i]
    BY <1>1, <2>1, <2>2
  <2>4. Structures(obs.structure, m, obs.from, obs.done)
    BY <2>3, StructureStays DEF SwingsKnown
  <2>5. Feeding(obs, Len(m), top)
    BY <1>0, <1>1, <2>1, <2>2 DEF Feeding
  <2>6. Charted(tables.pivots, m, top)
    <3>1. top <= Len(market) /\ 1 \in Nat \ {0} /\ Fed /\ top \in Int
      BY <1>0 DEF Feeding, StateInv
    <3>2. /\ Slots(m, Peaks(Tops(m), 1, top)) = Slots(market, Peaks(Tops(market), 1, top))
          /\ Slots(m, Peaks(Bottoms(m), 1, top)) = Slots(market, Peaks(Bottoms(market), 1, top))
      BY <2>3, <3>1, SlotsSame
    <3> QED
      BY <1>0, <3>2 DEF Charted
  <2> QED
    BY <1>0, <2>1, <2>2, <2>4, <2>5, <2>6 DEF SwingsKnown
<1>4. CASE TakeBar
  <2>1. PICK n \in Nat : n = obs.done + 1
    BY <1>1
  <2>2. n <= Len(market) /\ obs.done < Len(market) /\ n \in Nat
    <3>1. obs.done + 1 <= Len(market)
      BY <1>4 DEF TakeBar
    <3> QED
      BY <1>1, <2>1, <3>1
  <2>3. PICK atr, row, s : /\ s = Structured(obs.structure, market[n], atr)
                           /\ obs'.structure = s /\ tables'.pivots = WithPivots(s)
                           /\ tables'.indicators = WithIndicators(n, row)
    BY <1>4, <2>1 DEF TakeBar, StateInv, Remembering, Memory
  <2>4. obs'.from = obs.from /\ obs'.done = n /\ UNCHANGED <<path, market>>
    BY <1>4, <2>1, TakeKeeps DEF StateInv, Remembering
  <2>5. Structures(s, market, obs.from, n)
    BY <2>1, <2>2, <2>3, StructureTakes DEF SwingsKnown
  <2>6. PICK up \in Nat : up = IF n > top THEN n ELSE top
    BY <2>2
  <2>7. Charted(WithPivots(s), market, up)
    BY <1>0, <2>1, <2>2, <2>5, <2>6, ChartTakes
  <2>8. Feeding(obs', Len(market), up)
    <3>1. /\ Len(market) - 1 <= top /\ top <= Len(market)
          /\ obs.from = 1 \/ obs.from + 2 * Config.strength <= top + 1
      BY <1>0 DEF Feeding
    <3>2. Len(market) - 1 <= up /\ up <= Len(market) /\ n <= up /\ top <= up
      BY <1>1, <2>2, <2>6, <3>1
    <3>3. obs.from = 1 \/ obs.from + 2 * Config.strength <= up + 1
      BY <1>1, <3>1, <3>2, StrengthIs
    <3> QED
      BY <2>4, <3>2, <3>3 DEF Feeding
  <2>9. DOMAIN tables'.indicators = 1..up
    <3>1. DOMAIN tables'.indicators = 1..top \cup {n}
      BY <1>0, <2>3 DEF WithIndicators
    <3>2. n <= top + 1 /\ n >= 1
      BY <1>0, <1>1, <2>1 DEF Feeding
    <3> QED
      BY <2>2, <2>6, <3>1, <3>2
  <2> QED
    BY <2>3, <2>4, <2>5, <2>7, <2>8, <2>9 DEF SwingsKnown
<1>5. CASE Restart
  <2>1. PICK f \in Nat \ {0} : f = Larger(1, Len(market) - path.warm + 1)
    <3>1. path.warm \in Nat
      BY DEF StateInv, Fed, Course
    <3> QED
      BY <1>1, <3>1 DEF Larger
  <2>2. obs' = Fresh(f) /\ UNCHANGED <<market, tables>> /\ path'.warm = path.warm
    BY <1>5, <2>1 DEF Restart, StateInv, Fed, Course
  <2>3. obs'.from = f /\ obs'.done = f - 1 /\ obs'.structure = NewStructure
    BY <2>2 DEF Fresh
  <2>4. Structures(NewStructure, market, f, f - 1)
    BY NewStructures
  <2>5. Feeding(obs', Len(market), top)
    <3>1. path.warm \in Nat /\ path.warm > 2 * Config.strength /\ Config.strength \in Nat /\ Config.strength > 0
      BY StrengthIs DEF StateInv, Fed, Course, SwingsKnown
    <3>2. Len(market) - 1 <= top /\ top <= Len(market)
      BY <1>0 DEF Feeding
    <3>3. f = 1 \/ f = Len(market) - path.warm + 1
      BY <2>1 DEF Larger
    <3>4. f - 1 <= top /\ (f = 1 \/ f + 2 * Config.strength <= top + 1)
      BY <1>1, <3>1, <3>2, <3>3
    <3> QED
      BY <2>3, <3>2, <3>4 DEF Feeding
  <2> QED
    BY <1>0, <2>2, <2>3, <2>4, <2>5 DEF SwingsKnown
<1>6. Memory(obs)
  BY DEF StateInv, Remembering
<1>7. CASE Freeze
  BY <1>2, <1>6, <1>7 DEF Freeze, Memory
<1>8. CASE Mark
  BY <1>2, <1>6, <1>8 DEF Mark, Memory
<1>9. CASE Finish
  BY <1>2, <1>6, <1>9 DEF Finish, Memory
<1>10. ASSUME NEW snap \in outcomes.snaps, Settle(snap) PROVE SwingsKnown'
  <2>1. obs'.from = obs.from /\ obs'.done = obs.done /\ obs'.structure = obs.structure
    <3>1. obs'.structure = obs.structure
      BY <1>6, <1>10 DEF Settle, Memory
    <3> QED
      BY <1>6, <1>10, <3>1, SettleKeeps
  <2> QED
    BY <1>2, <1>10, <2>1 DEF Settle
<1>11. ASSUME NEW snap \in outcomes.snaps, SetupFails(snap) PROVE SwingsKnown'
  <2>1. path'.warm = path.warm
    BY <1>11 DEF SetupFails, StateInv, Fed, Course
  <2> QED
    BY <1>2, <1>11, <2>1 DEF SetupFails
<1>12. ASSUME NEW t \in Higher, NEW b \in HigherBars, HigherBar(t, b) PROVE SwingsKnown'
  <2>1. path'.warm = path.warm
    BY <1>12 DEF HigherBar, StateInv, Fed, Course
  <2>2. obs'.from = obs.from /\ obs'.done = obs.done /\ obs'.structure = obs.structure
    BY <1>6, <1>12 DEF HigherBar, Memory
  <2> QED
    BY <1>2, <1>12, <2>1, <2>2 DEF HigherBar
<1>13. CASE UNCHANGED vars
  BY <1>2, <1>13 DEF vars
<1> QED
  BY <1>3, <1>4, <1>5, <1>7, <1>8, <1>9, <1>10, <1>11, <1>12, <1>13 DEF Next

\* Where the warm-up is longer than a swing's two sides, whatever bar a process started at: the
\* swings it knows are those of the bars it was fed, and those in the table are the swings of all
\* bars that any process was fed.
THEOREM SwingsAreExact == ASSUME WarmCovers PROVE Spec => []PivotsAreExact
<1>1. Init => SwingsKnown
  <2> SUFFICES ASSUME Init PROVE SwingsKnown
    OBVIOUS
  <2>1. path.warm > 2 * Config.strength
    BY WarmCovers DEF Init, WarmCovers
  <2>2. obs.structure = NewStructure /\ obs.from = 1 /\ obs.done = 0 /\ market = <<>>
    BY DEF Init, Fresh
  <2>3. Structures(NewStructure, market, 1, 1 - 1)
    BY NewStructures
  <2>4. tables.indicators = NoRows /\ tables.pivots = {} /\ DOMAIN NoRows = {} /\ 1..0 = {}
    BY DEF Init, NoRows
  <2>5. Feeding(obs, Len(market), 0)
    BY <2>2 DEF Feeding
  <2>6. Charted({}, market, 0)
    <3>1. Peaks(Tops(market), 1, 0) = {} /\ Peaks(Bottoms(market), 1, 0) = {}
      BY PeaksAre
    <3> QED
      BY <3>1 DEF Charted, Rows, Bars, Slots
  <2> QED
    BY <2>1, <2>2, <2>3, <2>4, <2>5, <2>6 DEF SwingsKnown
<1>2. StateInv /\ SwingsKnown => PivotsAreExact
  <2> SUFFICES ASSUME StateInv, SwingsKnown PROVE PivotsAreExact
    OBVIOUS
  <2>1. PICK top \in Nat : /\ DOMAIN tables.indicators = 1..top
                           /\ Feeding(obs, Len(market), top) /\ Charted(tables.pivots, market, top)
    BY DEF SwingsKnown
  <2>2. obs.from \in Nat \ {0} /\ obs.done \in Nat /\ obs.done <= Len(market) /\ Fed
    BY DEF StateInv, Remembering
  <2>3. top <= Len(market) /\ obs.done <= top
    BY <2>1 DEF Feeding
  <2>4. /\ SwingBars(obs.from, obs.done, Above) = Peaks(Tops(market), obs.from, obs.done)
        /\ SwingBars(obs.from, obs.done, Below) = Peaks(Bottoms(market), obs.from, obs.done)
    BY <2>2, SwingsArePeaks
  <2>5. /\ SwingBars(1, top, Above) = Peaks(Tops(market), 1, top)
        /\ SwingBars(1, top, Below) = Peaks(Bottoms(market), 1, top)
    BY <2>2, <2>3, SwingsArePeaks
  <2>6. Larger(obs.done, IF DOMAIN tables.indicators = {} THEN 0 ELSE Max(DOMAIN tables.indicators)) = top
    <3>1. CASE top = 0
      BY <2>1, <2>2, <2>3, <3>1 DEF Larger
    <3>2. CASE top # 0
      <4>1. top \in 1..top /\ \A i \in 1..top : top >= i
        BY <3>2
      <4>2. Max(1..top) \in 1..top /\ Max(1..top) >= top
        BY <4>1 DEF Max
      <4>3. Max(1..top) = top
        BY <4>2
      <4> QED
        BY <2>1, <2>2, <2>3, <4>1, <4>3, SMTT(20) DEF Larger
    <3> QED
      BY <3>1, <3>2
  <2>7. /\ Bars(ToSet(obs.structure.highs)) = Slots(market, SwingBars(obs.from, obs.done, Above))
        /\ Bars(ToSet(obs.structure.lows)) = Slots(market, SwingBars(obs.from, obs.done, Below))
    BY <2>4 DEF SwingsKnown, Structures
  <2>8. /\ Bars(Rows(tables.pivots, "HIGH")) = Slots(market, SwingBars(1, top, Above))
        /\ Bars(Rows(tables.pivots, "LOW")) = Slots(market, SwingBars(1, top, Below))
    BY <2>1, <2>5 DEF Charted
  <2> QED
    BY <2>6, <2>7, <2>8 DEF PivotsAreExact, Bars, Slots, Rows
<1> QED
  BY <1>1, <1>2, StartState, StepState, StepSwings, PTL DEF Spec
-----------------------------------------------------------------------------
(* What is said of a level *)

Words == {"BREAKOUT", "ACCEPTANCE", "RETEST", "FAILURE_INSIDE", "RECLAIM", "SECOND_FAILURE"}
Entries == [kind : Words, at : Int]
Stories == Seq(Entries)
Entry(kind, n) == [kind |-> kind, at |-> n]

\* The episode of entry j was opened by entry p, and j reads on from the entries between.
ReadsOn(S, j, p) ==
    /\ S[p].kind = "BREAKOUT" /\ \A i \in p + 1 .. j : S[i].kind # "BREAKOUT"
    /\ S[j].kind \in {"ACCEPTANCE", "RETEST", "FAILURE_INSIDE"} => \A i \in p .. j - 1 : S[i].kind # S[j].kind
    /\ S[j].kind = "ACCEPTANCE" =>
          S[j - 1].kind \in {"BREAKOUT", "RECLAIM"} /\ S[j].at = S[j - 1].at + Larger(Config.acceptance, 2) - 1
    /\ S[j].kind = "RETEST" => \E i \in p .. j - 1 : S[i].kind = "ACCEPTANCE"
    /\ S[j].kind = "RECLAIM" => S[j - 1].kind = "FAILURE_INSIDE"
    /\ S[j].kind = "SECOND_FAILURE" => \E i \in p .. j - 1 : S[i].kind = "RECLAIM"

Orderly(S) == \A j \in 1..Len(S) : \E p \in 1..j : ReadsOn(S, j, p)

\* Said since entry p.
Since(S, p, kind) == \E i \in p..Len(S) : S[i].kind = kind

\* The episode that entry p opened is as the entries since tell: w is whether the last of the n
\* closes was beyond the level.
Tells(S, p, ep, w, n) ==
    /\ S[p].kind = "BREAKOUT" /\ \A i \in p + 1 .. Len(S) : S[i].kind # "BREAKOUT"
    /\ ep.accepted <=> Since(S, p, "ACCEPTANCE")
    /\ ep.retested <=> Since(S, p, "RETEST")
    /\ ep.failures = 1 <=> Since(S, p, "FAILURE_INSIDE")
    /\ ~w => ep.failures = 1 /\ S[Len(S)].kind = "FAILURE_INSIDE"
    /\ w /\ ep.failures = 1 => Since(S, p, "RECLAIM")
    /\ w /\ ~ep.accepted =>
          /\ S[Len(S)].kind \in {"BREAKOUT", "RECLAIM"}
          /\ ep.beyond = n - S[Len(S)].at + 1 /\ ep.beyond \in 1 .. Larger(Config.acceptance, 2) - 1

Episodes == [beyond : Nat, accepted : BOOLEAN, failures : {0, 1}, active : BOOLEAN, retested : BOOLEAN]

\* What was said of a level is in order, and tells the episode it is in.
Told(S, ep, w, n) ==
    /\ S \in Stories /\ Orderly(S) /\ ep \in Episodes
    /\ IF ep.active THEN \E p \in 1..Len(S) : Tells(S, p, ep, w, n) ELSE ep = NewEpisode

AllTold ==
    /\ obs.breakout = [episodes |-> obs.breakout.episodes, prev |-> obs.breakout.prev]
    /\ DOMAIN obs.said = DOMAIN obs.breakout.episodes
    /\ \A lv \in DOMAIN obs.said : lv.kind \in BreakoutKinds
    /\ \A lv \in DOMAIN obs.said \ obs.unsteady :
          Told(obs.said[lv], obs.breakout.episodes[lv], Beyond(lv, obs.breakout.prev), obs.done)

\* How an entry reads is in the entries since its breakout.
LEMMA ReadsSame ==
    ASSUME NEW S, NEW T, NEW j \in Nat, NEW q \in 1..j, \A i \in q..j : T[i] = S[i], ReadsOn(S, j, q)
    PROVE  ReadsOn(T, j, q)
<1>1. q \in q..j /\ j \in q..j /\ q + 1 .. j \subseteq q..j /\ q .. j - 1 \subseteq q..j
  OBVIOUS
<1>2. S[q].kind = "BREAKOUT" /\ T[q] = S[q] /\ T[j] = S[j]
  BY <1>1 DEF ReadsOn
<1>3. S[j].kind # "BREAKOUT" => T[j - 1] = S[j - 1]
  <2>1. j # q => j - 1 \in q..j
    OBVIOUS
  <2> QED
    BY <1>2, <2>1
<1>4. \A i \in q + 1 .. j : T[i].kind # "BREAKOUT"
  BY <1>1 DEF ReadsOn
<1>5. T[j].kind \in {"ACCEPTANCE", "RETEST", "FAILURE_INSIDE"} => \A i \in q .. j - 1 : T[i].kind # T[j].kind
  BY <1>1, <1>2 DEF ReadsOn
<1>6. T[j].kind = "ACCEPTANCE" =>
          T[j - 1].kind \in {"BREAKOUT", "RECLAIM"} /\ T[j].at = T[j - 1].at + Larger(Config.acceptance, 2) - 1
  BY <1>2, <1>3 DEF ReadsOn
<1>7. T[j].kind = "RETEST" => \E i \in q .. j - 1 : T[i].kind = "ACCEPTANCE"
  BY <1>1, <1>2 DEF ReadsOn
<1>8. T[j].kind = "RECLAIM" => T[j - 1].kind = "FAILURE_INSIDE"
  BY <1>2, <1>3 DEF ReadsOn
<1>9. T[j].kind = "SECOND_FAILURE" => \E i \in q .. j - 1 : T[i].kind = "RECLAIM"
  BY <1>1, <1>2 DEF ReadsOn
<1> QED
  BY <1>2, <1>4, <1>5, <1>6, <1>7, <1>8, <1>9 DEF ReadsOn

\* One more entry leaves those before as they are, and reads on after them.
LEMMA StoryGrows ==
    ASSUME NEW S \in Stories, Orderly(S), NEW kind \in Words, NEW n \in Int,
           NEW p \in 1 .. Len(S) + 1, ReadsOn(Append(S, Entry(kind, n)), Len(S) + 1, p)
    PROVE  Append(S, Entry(kind, n)) \in Stories /\ Orderly(Append(S, Entry(kind, n)))
<1> DEFINE T == Append(S, Entry(kind, n))
<1>1. Len(S) \in Nat /\ T \in Stories /\ Len(T) = Len(S) + 1 /\ \A i \in 1..Len(S) : T[i] = S[i]
  <2>1. Entry(kind, n) \in Entries
    BY DEF Entry, Entries
  <2> QED
    BY <2>1 DEF Stories
<1> HIDE DEF T
<1>2. ASSUME NEW j \in 1..Len(S) PROVE \E q \in 1..j : ReadsOn(T, j, q)
  <2>1. PICK q \in 1..j : ReadsOn(S, j, q)
    BY DEF Orderly
  <2>2. \A i \in q..j : T[i] = S[i]
    BY <1>1
  <2> QED
    BY <2>1, <2>2, ReadsSame
<1>3. ReadsOn(T, Len(T), p) /\ p \in 1..Len(T)
  BY <1>1 DEF T
<1>4. Orderly(T)
  BY <1>1, <1>2, <1>3 DEF Orderly
<1> QED
  BY <1>1, <1>4 DEF T

\* The facts about one more entry that the visits need.
LEMMA OneMore ==
    ASSUME NEW S \in Stories, NEW kind \in Words, NEW n \in Int
    PROVE  LET T == Append(S, Entry(kind, n))
           IN  /\ Len(S) \in Nat /\ Len(T) = Len(S) + 1
               /\ T[Len(T)].kind = kind /\ T[Len(T)].at = n
               /\ \A i \in 1..Len(S) : T[i] = S[i] /\ S[i].at \in Int /\ S[i].kind \in Words
               /\ \A p \in 1..Len(S), k \in Words : Since(T, p, k) <=> (Since(S, p, k) \/ k = kind)
<1> DEFINE T == Append(S, Entry(kind, n))
<1>1. /\ Len(S) \in Nat /\ Len(T) = Len(S) + 1 /\ T[Len(S) + 1] = Entry(kind, n)
      /\ \A i \in 1..Len(S) : T[i] = S[i] /\ S[i].at \in Int /\ S[i].kind \in Words
  <2>1. Entry(kind, n) \in Entries
    BY DEF Entry, Entries
  <2>2. \A i \in 1..Len(S) : S[i] \in Entries
    BY DEF Stories
  <2>3. /\ Len(S) \in Nat /\ Len(T) = Len(S) + 1 /\ T[Len(S) + 1] = Entry(kind, n)
        /\ \A i \in 1..Len(S) : T[i] = S[i]
    BY <2>1 DEF Stories
  <2> QED
    BY <2>2, <2>3 DEF Entries
<1> HIDE DEF T
<1>2. T[Len(T)].kind = kind /\ T[Len(T)].at = n
  BY <1>1 DEF Entry
<1>3. ASSUME NEW p \in 1..Len(S), NEW k \in Words PROVE Since(T, p, k) <=> (Since(S, p, k) \/ k = kind)
  BY <1>1, <1>2 DEF Since
<1> QED
  BY <1>1, <1>2, <1>3 DEF T

\* The episode goes on with one more entry, and is as the entries tell.
LEMMA GoesOn ==
    ASSUME NEW S \in Stories, NEW ep, NEW p \in 1..Len(S), NEW n \in Nat, NEW w \in BOOLEAN, Tells(S, p, ep, w, n),
           NEW kind \in Words \ {"BREAKOUT"}, NEW f, NEW v \in BOOLEAN, Config.acceptance \in Nat,
           f.accepted <=> (ep.accepted \/ kind = "ACCEPTANCE"), f.retested <=> (ep.retested \/ kind = "RETEST"),
           f.failures = 1 <=> (ep.failures = 1 \/ kind = "FAILURE_INSIDE"),
           ~v => kind = "FAILURE_INSIDE",
           v /\ f.failures = 1 => (w /\ ep.failures = 1) \/ kind = "RECLAIM",
           v /\ ~f.accepted => kind = "RECLAIM" /\ f.beyond = 1
    PROVE  /\ Len(S) \in Nat /\ p \in 1..Len(Append(S, Entry(kind, n + 1)))
           /\ Tells(Append(S, Entry(kind, n + 1)), p, f, v, n + 1)
<1> DEFINE T == Append(S, Entry(kind, n + 1))
<1>1. /\ Len(S) \in Nat /\ Len(T) = Len(S) + 1 /\ T[Len(T)].kind = kind /\ T[Len(T)].at = n + 1
      /\ \A i \in 1..Len(S) : T[i] = S[i]
      /\ \A k \in Words : Since(T, p, k) <=> (Since(S, p, k) \/ k = kind)
  BY OneMore
<1> HIDE DEF T
<1>2. T[p].kind = "BREAKOUT" /\ \A i \in p + 1 .. Len(T) : T[i].kind # "BREAKOUT"
  BY <1>1, SMTT(20) DEF Tells
<1>3. /\ "ACCEPTANCE" \in Words /\ "RETEST" \in Words /\ "FAILURE_INSIDE" \in Words /\ "RECLAIM" \in Words
  BY DEF Words
<1>4. /\ f.accepted <=> Since(T, p, "ACCEPTANCE")
      /\ f.retested <=> Since(T, p, "RETEST")
      /\ f.failures = 1 <=> Since(T, p, "FAILURE_INSIDE")
      /\ v /\ f.failures = 1 => Since(T, p, "RECLAIM")
  BY <1>1, <1>3, Zenon DEF Tells
<1>5. ~v => f.failures = 1 /\ T[Len(T)].kind = "FAILURE_INSIDE"
  BY <1>1
<1>6. v /\ ~f.accepted =>
          /\ T[Len(T)].kind \in {"BREAKOUT", "RECLAIM"}
          /\ f.beyond = (n + 1) - T[Len(T)].at + 1 /\ f.beyond \in 1 .. Larger(Config.acceptance, 2) - 1
  BY <1>1 DEF Larger
<1>7. p \in 1..Len(T)
  BY <1>1
<1> QED
  BY <1>1, <1>2, <1>4, <1>5, <1>6, <1>7 DEF Tells, T

\* A close that crosses the level opens an episode or reclaims the one that failed.
LEMMA CrossedTells ==
    ASSUME NEW S, NEW ep, NEW n \in Nat, Told(S, ep, FALSE, n)
    PROVE  \E kind \in Words : /\ Crossed(ep).says = <<kind>>
                               /\ Told(Append(S, Entry(kind, n + 1)), Crossed(ep).ep, TRUE, n + 1)
<1>0. /\ S \in Stories /\ Orderly(S) /\ ep \in Episodes /\ Len(S) \in Nat
      /\ Config.acceptance \in Nat /\ Larger(Config.acceptance, 2) \in Nat /\ Larger(Config.acceptance, 2) >= 2
  BY ConfigAssumption DEF Told, Stories, Larger
<1>1. CASE ep.active
  <2> DEFINE T == Append(S, Entry("RECLAIM", n + 1))
             f == Crossed(ep).ep
  <2>1. PICK p \in 1..Len(S) : Tells(S, p, ep, FALSE, n)
    BY <1>1 DEF Told
  <2>2. ep.failures = 1 /\ S[Len(S)].kind = "FAILURE_INSIDE"
    BY <2>1 DEF Tells
  <2>3. Crossed(ep).says = <<"RECLAIM">> /\ f = [ep EXCEPT !.beyond = 1]
    BY <1>0, <1>1, <2>2 DEF Crossed, Episode
  <2>4. /\ Len(T) = Len(S) + 1 /\ T[Len(T)].kind = "RECLAIM" /\ T[Len(T)].at = n + 1
        /\ \A i \in 1..Len(S) : T[i] = S[i]
        /\ \A k \in Words : Since(T, p, k) <=> (Since(S, p, k) \/ k = "RECLAIM")
    BY <1>0, <2>1, OneMore DEF Words
  <2>5. f \in Episodes /\ f.active /\ f.accepted = ep.accepted /\ f.retested = ep.retested /\ f.failures = 1 /\ f.beyond = 1
    BY <1>0, <1>1, <2>2, <2>3 DEF Episodes
  <2> HIDE DEF f
  <2>6. T[p].kind = "BREAKOUT" /\ \A i \in p + 1 .. Len(T) : T[i].kind # "BREAKOUT"
    <3> HIDE DEF T
    <3> QED
      BY <1>0, <2>1, <2>4, SMTT(20) DEF Tells
  <2>7. ReadsOn(T, Len(S) + 1, p)
    <3> HIDE DEF T
    <3> QED
      BY <1>0, <2>1, <2>2, <2>4, <2>6 DEF ReadsOn
  <2>8. T \in Stories /\ Orderly(T)
    BY <1>0, <2>7, StoryGrows DEF Words
  <2> HIDE DEF T
  <2>9. "RECLAIM" \in Words \ {"BREAKOUT"}
    BY DEF Words
  <2>10. p \in 1..Len(T) /\ Tells(T, p, f, TRUE, n + 1)
    BY <1>0, <2>1, <2>2, <2>5, <2>9, GoesOn DEF T
  <2>11. Told(T, f, TRUE, n + 1)
    BY <2>5, <2>8, <2>10, Zenon DEF Told
  <2> QED
    BY <2>3, <2>9, <2>11 DEF T, f
<1>2. CASE ~ep.active
  <2> DEFINE T == Append(S, Entry("BREAKOUT", n + 1))
             p == Len(S) + 1
             f == Crossed(ep).ep
  <2>1. Crossed(ep).says = <<"BREAKOUT">> /\ f = [NewEpisode EXCEPT !.beyond = 1, !.active = TRUE]
    BY <1>2 DEF Crossed, Episode
  <2>2. f \in Episodes /\ f.active /\ ~f.accepted /\ ~f.retested /\ f.failures = 0 /\ f.beyond = 1
    <3> HIDE DEF f
    <3>1. f = [beyond |-> 1, accepted |-> FALSE, failures |-> 0, active |-> TRUE, retested |-> FALSE]
      BY <2>1 DEF NewEpisode
    <3> QED
      BY <3>1 DEF Episodes
  <2>3. Len(T) = Len(S) + 1 /\ T[Len(T)].kind = "BREAKOUT" /\ T[Len(T)].at = n + 1
    BY <1>0, OneMore DEF Words
  <2> HIDE DEF f
  <2>4. ReadsOn(T, Len(S) + 1, p)
    <3> HIDE DEF T
    <3> QED
      BY <1>0, <2>3 DEF ReadsOn
  <2>5. T \in Stories /\ Orderly(T)
    BY <1>0, <2>4, StoryGrows DEF Words
  <2> HIDE DEF T
  <2>6. Tells(T, p, f, TRUE, n + 1)
    <3>1. /\ ~Since(T, p, "ACCEPTANCE") /\ ~Since(T, p, "RETEST") /\ ~Since(T, p, "FAILURE_INSIDE")
          /\ T[p].kind = "BREAKOUT" /\ \A i \in p + 1 .. Len(T) : T[i].kind # "BREAKOUT"
      BY <1>0, <2>3 DEF Since
    <3>2. f.beyond = (n + 1) - T[Len(T)].at + 1 /\ f.beyond \in 1 .. Larger(Config.acceptance, 2) - 1
      BY <1>0, <2>2, <2>3
    <3>3. f.failures # 1
      BY <2>2
    <3> QED
      BY <2>2, <2>3, <3>1, <3>2, <3>3, Zenon DEF Tells
  <2>7. Told(T, f, TRUE, n + 1) /\ "BREAKOUT" \in Words
    <3>1. p \in 1..Len(T) /\ "BREAKOUT" \in Words
      BY <1>0, <2>3 DEF Words
    <3> QED
      BY <2>2, <2>5, <2>6, <3>1, Zenon DEF Told
  <2> QED
    BY <2>1, <2>7 DEF T, f
<1> QED
  BY <1>1, <1>2

\* One more close beyond the level is the one that completes the run, a retest, or nothing to tell.
LEMMA StaysTells ==
    ASSUME NEW S, NEW ep, NEW n \in Nat, Told(S, ep, TRUE, n), ep.active, NEW touched
    PROVE  \/ Stays(ep, touched).says = <<>> /\ Told(S, Stays(ep, touched).ep, TRUE, n + 1)
           \/ \E kind \in Words : /\ Stays(ep, touched).says = <<kind>>
                                  /\ Told(Append(S, Entry(kind, n + 1)), Stays(ep, touched).ep, TRUE, n + 1)
<1> DEFINE f == Stays(ep, touched).ep
           more == [ep EXCEPT !.beyond = @ + 1]
           acc == Larger(Config.acceptance, 2)
<1>0. /\ S \in Stories /\ Orderly(S) /\ ep \in Episodes /\ Len(S) \in Nat /\ Config.acceptance \in Nat \ {0}
      /\ acc \in Nat /\ acc >= 2 /\ (acc = 2 \/ acc = Config.acceptance) /\ Config.acceptance <= acc
  BY ConfigAssumption DEF Told, Stories, Larger
<1>1. PICK p \in 1..Len(S) : Tells(S, p, ep, TRUE, n)
  BY DEF Told
<1>2. /\ more \in Episodes /\ more.beyond = ep.beyond + 1 /\ more.active /\ more.accepted = ep.accepted
      /\ more.failures = ep.failures /\ more.retested = ep.retested
  BY <1>0 DEF Episodes
<1>3. ep.beyond \in Nat /\ S[Len(S)].at \in Int /\ p \in 1..Len(S)
  <2>1. Len(S) \in 1..Len(S)
    BY <1>0, <1>1
  <2>2. S[Len(S)] \in Entries
    BY <1>0, <2>1 DEF Stories
  <2>3. ep.beyond \in Nat
    BY <1>0 DEF Episodes
  <2> QED
    BY <1>1, <2>2, <2>3 DEF Entries
<1>4. CASE ~ep.accepted /\ more.beyond >= Config.acceptance
  <2> DEFINE T == Append(S, Entry("ACCEPTANCE", n + 1))
  <2>1. Stays(ep, touched).says = <<"ACCEPTANCE">> /\ f = [more EXCEPT !.accepted = TRUE]
    BY <1>4 DEF Stays, Episode
  <2>2. f \in Episodes /\ f.active /\ f.accepted /\ f.failures = ep.failures /\ f.retested = ep.retested
    BY <1>2, <2>1 DEF Episodes
  <2>3. /\ Len(T) = Len(S) + 1 /\ T[Len(T)].kind = "ACCEPTANCE" /\ T[Len(T)].at = n + 1
        /\ \A i \in 1..Len(S) : T[i] = S[i]
        /\ \A k \in Words : Since(T, p, k) <=> (Since(S, p, k) \/ k = "ACCEPTANCE")
    BY <1>0, <1>1, OneMore DEF Words
  <2> HIDE DEF f, T
  <2>4. /\ S[Len(S)].kind \in {"BREAKOUT", "RECLAIM"}
        /\ ep.beyond = n - S[Len(S)].at + 1 /\ ep.beyond >= 1 /\ ep.beyond <= acc - 1
    BY <1>0, <1>1, <1>3, <1>4 DEF Tells
  <2>5. n + 1 = S[Len(S)].at + acc - 1
    BY <1>0, <1>2, <1>3, <1>4, <2>4, SMTT(20)
  <2>6. T[p].kind = "BREAKOUT" /\ \A i \in p + 1 .. Len(T) : T[i].kind # "BREAKOUT"
    <3>1. S[p].kind = "BREAKOUT" /\ \A i \in p + 1 .. Len(S) : S[i].kind # "BREAKOUT"
      BY <1>1 DEF Tells
    <3>2. Len(S) \in Nat /\ Len(T) = Len(S) + 1 /\ p \in 1..Len(S)
      BY <1>0, <1>3, <2>3
    <3>3. \A i \in p + 1 .. Len(T) : i \in p + 1 .. Len(S) \/ i = Len(T)
      BY <3>2
    <3>4. T[p] = S[p] /\ \A i \in p + 1 .. Len(S) : T[i] = S[i]
      BY <2>3, <3>2
    <3> QED
      BY <2>3, <3>1, <3>3, <3>4
  <2>7. \A i \in p..Len(S) : S[i].kind # "ACCEPTANCE"
    BY <1>1, <1>4 DEF Tells, Since
  <2>8. ReadsOn(T, Len(S) + 1, p)
    <3> DEFINE j == Len(S) + 1
    <3>1. T[j].kind = "ACCEPTANCE" /\ T[j].at = n + 1 /\ T[j - 1] = S[Len(S)] /\ \A i \in p .. j - 1 : T[i] = S[i]
      BY <1>0, <1>3, <2>3
    <3>2. \A i \in p .. j - 1 : T[i].kind # "ACCEPTANCE"
      BY <1>0, <2>7, <3>1
    <3>3. T[j].at = T[j - 1].at + Larger(Config.acceptance, 2) - 1
      BY <2>5, <3>1
    <3>4. \A i \in p + 1 .. j : T[i].kind # "BREAKOUT"
      BY <2>3, <2>6
    <3> HIDE DEF j
    <3> QED
      BY <2>4, <2>6, <3>1, <3>2, <3>3, <3>4 DEF ReadsOn, j
  <2>9. T \in Stories /\ Orderly(T)
    BY <1>0, <2>8, StoryGrows DEF Words, T
  <2>10. "ACCEPTANCE" \in Words \ {"BREAKOUT"}
    BY DEF Words
  <2>11. p \in 1..Len(T) /\ Tells(T, p, f, TRUE, n + 1)
    BY <1>0, <1>1, <2>2, <2>10, GoesOn DEF T
  <2>12. Told(T, f, TRUE, n + 1)
    BY <2>2, <2>9, <2>11, Zenon DEF Told
  <2> QED
    BY <2>1, <2>10, <2>12 DEF T, f
<1>5. CASE ep.accepted /\ touched /\ ~ep.retested
  <2> DEFINE T == Append(S, Entry("RETEST", n + 1))
  <2>1. Stays(ep, touched).says = <<"RETEST">> /\ f = [more EXCEPT !.retested = TRUE]
    BY <1>5 DEF Stays, Episode
  <2>2. f \in Episodes /\ f.active /\ f.retested /\ f.accepted /\ f.failures = ep.failures
    BY <1>2, <1>5, <2>1 DEF Episodes
  <2>3. /\ Len(T) = Len(S) + 1 /\ T[Len(T)].kind = "RETEST" /\ T[Len(T)].at = n + 1
        /\ \A i \in 1..Len(S) : T[i] = S[i]
        /\ \A k \in Words : Since(T, p, k) <=> (Since(S, p, k) \/ k = "RETEST")
    BY <1>0, <1>1, OneMore DEF Words
  <2> HIDE DEF f, T
  <2>4. T[p].kind = "BREAKOUT" /\ \A i \in p + 1 .. Len(T) : T[i].kind # "BREAKOUT"
    BY <1>0, <1>1, <2>3 DEF Tells
  <2>5. /\ \A i \in p..Len(S) : S[i].kind # "RETEST"
        /\ \E i \in p..Len(S) : S[i].kind = "ACCEPTANCE"
    BY <1>1, <1>5 DEF Tells, Since
  <2>6. ReadsOn(T, Len(S) + 1, p)
    BY <1>0, <1>1, <2>3, <2>4, <2>5 DEF ReadsOn
  <2>7. T \in Stories /\ Orderly(T)
    BY <1>0, <2>6, StoryGrows DEF Words, T
  <2>8. "RETEST" \in Words \ {"BREAKOUT"}
    BY DEF Words
  <2>9. p \in 1..Len(T) /\ Tells(T, p, f, TRUE, n + 1)
    BY <1>0, <1>1, <1>5, <2>2, <2>8, GoesOn DEF T
  <2>10. Told(T, f, TRUE, n + 1)
    BY <2>2, <2>7, <2>9, Zenon DEF Told
  <2> QED
    BY <2>1, <2>8, <2>10 DEF T, f
<1>6. CASE ~(~ep.accepted /\ more.beyond >= Config.acceptance) /\ ~(ep.accepted /\ touched /\ ~ep.retested)
  <2>1. Stays(ep, touched).says = <<>> /\ f = more
    BY <1>6 DEF Stays, Episode
  <2> HIDE DEF f, more
  <2>2. ~ep.accepted => ep.beyond = n - S[Len(S)].at + 1 /\ ep.beyond >= 1
    BY <1>1 DEF Tells
  <2>3. ~f.accepted => f.beyond = (n + 1) - S[Len(S)].at + 1 /\ f.beyond \in 1 .. Larger(Config.acceptance, 2) - 1
    <3>1. f.beyond = ep.beyond + 1
      BY <1>2, <2>1
    <3>2. ~f.accepted => ~ep.accepted /\ ~(f.beyond >= Config.acceptance)
      BY <1>2, <1>6, <2>1
    <3>3. ASSUME ~f.accepted PROVE f.beyond = (n + 1) - S[Len(S)].at + 1 /\ f.beyond >= 1 /\ f.beyond < Config.acceptance
      <4> DEFINE at == S[Len(S)].at
      <4>1. at \in Int /\ ep.beyond \in Nat /\ ep.beyond = n - at + 1 /\ ep.beyond >= 1
        BY <1>3, <2>2, <3>2, <3>3
      <4>2. f.beyond = ep.beyond + 1 /\ ~(f.beyond >= Config.acceptance) /\ Config.acceptance \in Nat
        BY <1>0, <3>1, <3>2, <3>3
      <4> HIDE DEF at
      <4>3. f.beyond = (n + 1) - at + 1 /\ f.beyond >= 1 /\ f.beyond < Config.acceptance
        BY <4>1, <4>2
      <4> QED
        BY <4>3 DEF at
    <3> QED
      BY <1>0, <1>3, <3>1, <3>3
  <2>4. Tells(S, p, f, TRUE, n + 1)
    BY <1>1, <1>2, <2>1, <2>3, Zenon DEF Tells
  <2>5. Told(S, f, TRUE, n + 1)
    BY <1>0, <1>2, <1>3, <2>1, <2>4, Zenon DEF Told
  <2> QED
    BY <2>1, <2>5 DEF f
<1> QED
  BY <1>4, <1>5, <1>6

\* A close back inside fails the episode, and ends one that was reclaimed.
LEMMA ReturnedTells ==
    ASSUME NEW S, NEW ep, NEW n \in Nat, Told(S, ep, TRUE, n), ep.active
    PROVE  \E kind \in Words : /\ Returned(ep).says = <<kind>>
                               /\ Told(Append(S, Entry(kind, n + 1)), Returned(ep).ep, FALSE, n + 1)
<1> DEFINE f == Returned(ep).ep
<1>0. /\ S \in Stories /\ Orderly(S) /\ ep \in Episodes /\ Len(S) \in Nat /\ ep.failures \in {0, 1}
      /\ Config.acceptance \in Nat
  BY ConfigAssumption DEF Told, Stories, Episodes
<1>1. PICK p \in 1..Len(S) : Tells(S, p, ep, TRUE, n)
  BY DEF Told
<1>2. CASE ep.failures = 0
  <2> DEFINE T == Append(S, Entry("FAILURE_INSIDE", n + 1))
  <2>1. Returned(ep).says = <<"FAILURE_INSIDE">> /\ f = [ep EXCEPT !.failures = 1, !.beyond = 0]
    BY <1>2 DEF Returned, Episode
  <2>2. f \in Episodes /\ f.active /\ f.failures = 1 /\ f.accepted = ep.accepted /\ f.retested = ep.retested
    <3> HIDE DEF f
    <3> QED
      BY <1>0, <2>1 DEF Episodes
  <2>3. /\ Len(T) = Len(S) + 1 /\ T[Len(T)].kind = "FAILURE_INSIDE" /\ T[Len(T)].at = n + 1
        /\ \A i \in 1..Len(S) : T[i] = S[i]
        /\ \A k \in Words : Since(T, p, k) <=> (Since(S, p, k) \/ k = "FAILURE_INSIDE")
    BY <1>0, <1>1, OneMore DEF Words
  <2> HIDE DEF f, T
  <2>4. T[p].kind = "BREAKOUT" /\ \A i \in p + 1 .. Len(T) : T[i].kind # "BREAKOUT"
    BY <1>0, <1>1, <2>3 DEF Tells
  <2>5. \A i \in p..Len(S) : S[i].kind # "FAILURE_INSIDE"
    BY <1>1, <1>2 DEF Tells, Since
  <2>6. ReadsOn(T, Len(S) + 1, p)
    BY <1>0, <1>1, <2>3, <2>4, <2>5 DEF ReadsOn
  <2>7. T \in Stories /\ Orderly(T)
    BY <1>0, <2>6, StoryGrows DEF Words, T
  <2>8. "FAILURE_INSIDE" \in Words \ {"BREAKOUT"}
    BY DEF Words
  <2>9. p \in 1..Len(T) /\ Tells(T, p, f, FALSE, n + 1)
    BY <1>0, <1>1, <2>2, <2>8, GoesOn DEF T
  <2>10. Told(T, f, FALSE, n + 1)
    BY <2>2, <2>7, <2>9, Zenon DEF Told
  <2> QED
    BY <2>1, <2>8, <2>10 DEF T, f
<1>3. CASE ep.failures = 1
  <2> DEFINE T == Append(S, Entry("SECOND_FAILURE", n + 1))
  <2>1. Returned(ep).says = <<"SECOND_FAILURE">> /\ f = NewEpisode
    BY <1>3 DEF Returned, Episode
  <2>2. f \in Episodes /\ ~f.active
    BY <2>1 DEF Episodes, NewEpisode
  <2>3. /\ Len(T) = Len(S) + 1 /\ T[Len(T)].kind = "SECOND_FAILURE"
        /\ \A i \in 1..Len(S) : T[i] = S[i]
    BY <1>0, <1>1, OneMore DEF Words
  <2> HIDE DEF f, T
  <2>4. T[p].kind = "BREAKOUT" /\ \A i \in p + 1 .. Len(T) : T[i].kind # "BREAKOUT"
    BY <1>0, <1>1, <2>3 DEF Tells
  <2>5. \E i \in p..Len(S) : S[i].kind = "RECLAIM"
    BY <1>1, <1>3 DEF Tells, Since
  <2>6. ReadsOn(T, Len(S) + 1, p)
    BY <1>0, <1>1, <2>3, <2>4, <2>5 DEF ReadsOn
  <2>7. T \in Stories /\ Orderly(T)
    BY <1>0, <2>6, StoryGrows DEF Words, T
  <2>8. Told(T, f, FALSE, n + 1) /\ "SECOND_FAILURE" \in Words
    BY <2>1, <2>2, <2>7 DEF Told, Words
  <2> QED
    BY <2>1, <2>8 DEF T, f
<1> QED
  BY <1>0, <1>2, <1>3

\* One visit says at most one thing, and what was said still tells the episode.
LEMMA VisitTells ==
    ASSUME NEW S, NEW ep, NEW n \in Nat, NEW lv, NEW c, NEW prev, NEW atr, Told(S, ep, Beyond(lv, prev), n)
    PROVE  LET v == Visit(ep, lv, c, prev, atr)
           IN  /\ v.says \in Seq(Words)
               /\ Told(S \o [i \in DOMAIN v.says |-> Entry(v.says[i], n + 1)], v.ep, Beyond(lv, c.close), n + 1)
<1> DEFINE v == Visit(ep, lv, c, prev, atr)
           is == Beyond(lv, c.close)
           was == Beyond(lv, prev)
           touched == Touched(lv, c, atr)
           more == [i \in DOMAIN v.says |-> Entry(v.says[i], n + 1)]
<1>0. S \in Stories
  BY DEF Told
<1>1. (was => Told(S, ep, TRUE, n)) /\ (~was => Told(S, ep, FALSE, n))
  BY DEF Told, Tells
<1> SUFFICES v.says \in Seq(Words) /\ Told(S \o more, v.ep, is, n + 1)
  OBVIOUS
<1>2. /\ is /\ ~was => v = Crossed(ep)
      /\ is /\ was /\ ep.active => v = Stays(ep, touched)
      /\ ~is /\ was /\ ep.active => v = Returned(ep)
      /\ ~(is /\ ~was) /\ ~(was /\ ep.active) => v = Episode(ep, <<>>)
  BY DEF Visit
<1> HIDE DEF v, is, was, touched
<1>3. ASSUME v.says = <<>> PROVE v.says \in Seq(Words) /\ S \o more = S
  BY <1>0, <1>3 DEF Stories
<1>4. ASSUME NEW kind \in Words, v.says = <<kind>>
      PROVE  v.says \in Seq(Words) /\ S \o more = Append(S, Entry(kind, n + 1))
  <2>1. more = <<Entry(kind, n + 1)>>
    BY <1>4
  <2>2. Entry(kind, n + 1) \in Entries
    BY DEF Entry, Entries
  <2> QED
    BY <1>0, <1>4, <2>1, <2>2 DEF Stories
<1>5. ASSUME NEW T, NEW f, is, Told(T, f, TRUE, n + 1) PROVE Told(T, f, is, n + 1)
  BY <1>5 DEF Told, Tells
<1>6. ASSUME NEW T, NEW f, ~is, Told(T, f, FALSE, n + 1) PROVE Told(T, f, is, n + 1)
  BY <1>6 DEF Told, Tells
<1>7. CASE is /\ ~was
  <2>1. PICK kind \in Words : v.says = <<kind>> /\ Told(Append(S, Entry(kind, n + 1)), v.ep, TRUE, n + 1)
    BY <1>1, <1>2, <1>7, CrossedTells
  <2> QED
    BY <1>4, <1>5, <1>7, <2>1
<1>8. CASE is /\ was /\ ep.active
  <2>1. \/ v.says = <<>> /\ Told(S, v.ep, TRUE, n + 1)
        \/ \E kind \in Words : v.says = <<kind>> /\ Told(Append(S, Entry(kind, n + 1)), v.ep, TRUE, n + 1)
    BY <1>1, <1>2, <1>8, StaysTells
  <2> QED
    BY <1>3, <1>4, <1>5, <1>8, <2>1
<1>9. CASE ~is /\ was /\ ep.active
  <2>1. PICK kind \in Words : v.says = <<kind>> /\ Told(Append(S, Entry(kind, n + 1)), v.ep, FALSE, n + 1)
    BY <1>1, <1>2, <1>9, ReturnedTells
  <2> QED
    BY <1>4, <1>6, <1>9, <2>1
<1>10. CASE ~(is /\ ~was) /\ ~(was /\ ep.active)
  <2>1. v.says = <<>> /\ v.ep = ep
    BY <1>2, <1>10 DEF Episode
  <2>2. Told(S, ep, is, n + 1)
    <3>1. CASE ep.active
      <4>1. Told(S, ep, FALSE, n) /\ ~is
        BY <1>1, <1>10, <3>1
      <4>2. Told(S, ep, FALSE, n + 1)
        BY <3>1, <4>1 DEF Told, Tells
      <4> QED
        BY <1>6, <4>1, <4>2
    <3>2. CASE ~ep.active
      BY <3>2 DEF Told
    <3> QED
      BY <3>1, <3>2
  <2> QED
    BY <1>3, <2>1, <2>2
<1> QED
  BY <1>7, <1>8, <1>9, <1>10

\* A level listed once is visited once.
LEMMA VisitedOnce ==
    ASSUME NEW ep, NEW lv, NEW c, NEW prev, NEW atr, Visit(ep, lv, c, prev, atr).says \in Seq(Words)
    PROVE  /\ Visited(ep, lv, 1, c, prev, atr).ep = Visit(ep, lv, c, prev, atr).ep
           /\ Visited(ep, lv, 1, c, prev, atr).says = Visit(ep, lv, c, prev, atr).says
<1> DEFINE v(e) == Visit(e.ep, lv, c, prev, atr)
           Next1(e) == Episode(v(e).ep, e.says \o v(e).says)
           first == Episode(ep, <<>>)
           g == [i \in 0..1 |-> IF i = 0 THEN first ELSE Next1(first)]
           Is(f) == f = [i \in 0..1 |-> IF i = 0 THEN first ELSE Next1(f[i - 1])]
           after == CHOOSE f : Is(f)
<1>1. Visited(ep, lv, 1, c, prev, atr) = after[1]
  BY DEF Visited
<1>2. v(first) = Visit(ep, lv, c, prev, atr)
  BY DEF Episode
<1>3. Next1(first).ep = v(first).ep /\ Next1(first).says = v(first).says
  BY <1>2 DEF Episode
<1> HIDE DEF v, Next1, first
<1>4. Is(g)
  OBVIOUS
<1>5. Is(after)
  <2> HIDE DEF g, Is
  <2> QED
    BY <1>4
<1>6. after[0] = first
  <2> HIDE DEF after
  <2> QED
    BY <1>5
<1>7. after[1] = Next1(after[0])
  <2> HIDE DEF after
  <2> QED
    BY <1>5
<1> QED
  BY <1>1, <1>2, <1>3, <1>6, <1>7

\* A bar held against the levels, or not: what it says of the levels that are visited once at every
\* bar goes on with what was said.
LEMMA BreakoutTells ==
    ASSUME obs.done \in Nat, AllTold, NEW c, NEW row, NEW levels
    PROVE  LET brk  == Breakout(obs.breakout, c, row, levels)
               talk == Said(brk.state, brk.says, levels, Looks(obs.breakout, row))
           IN  /\ brk.state = [episodes |-> brk.state.episodes, prev |-> brk.state.prev]
               /\ DOMAIN talk.said = DOMAIN brk.state.episodes
               /\ \A lv \in DOMAIN talk.said : lv.kind \in BreakoutKinds
               /\ \A lv \in DOMAIN talk.said \ talk.unsteady :
                     Told(talk.said[lv], brk.state.episodes[lv], Beyond(lv, brk.state.prev), obs.done + 1)
<1> DEFINE b    == obs.breakout
           n    == obs.done
           brk  == Breakout(b, c, row, levels)
           talk == Said(brk.state, brk.says, levels, Looks(b, row))
           watched == {levels[i] : i \in {j \in DOMAIN levels : levels[j].kind \in BreakoutKinds}}
           Of(lv) == IF lv \in DOMAIN b.episodes THEN b.episodes[lv] ELSE NewEpisode
           Was(lv) == IF lv \in DOMAIN obs.said THEN obs.said[lv] ELSE <<>>
           seen(lv) == Visited(Of(lv), lv, Times(levels, lv), c, b.prev, row.atr)
<1>1. /\ DOMAIN talk.said = DOMAIN brk.state.episodes
      /\ talk.unsteady = obs.unsteady \cup {lv \in DOMAIN brk.state.episodes : ~Looks(b, row) \/ Times(levels, lv) # 1}
      /\ \A lv \in DOMAIN talk.said : talk.said[lv] = Was(lv) \o
            (IF lv \in DOMAIN brk.says THEN [i \in DOMAIN brk.says[lv] |-> Entry(brk.says[lv][i], n + 1)] ELSE <<>>)
  BY DEF Said, Entry
<1>2. b = [episodes |-> b.episodes, prev |-> b.prev] /\ DOMAIN obs.said = DOMAIN b.episodes
      /\ \A lv \in DOMAIN obs.said : lv.kind \in BreakoutKinds
  BY DEF AllTold
<1>3. CASE ~Looks(b, row)
  <2>1. brk.state = [episodes |-> b.episodes, prev |-> c.close]
    BY <1>2, <1>3 DEF Breakout
  <2>2. DOMAIN talk.said \ talk.unsteady = {}
    BY <1>1, <1>3
  <2> HIDE DEF brk, talk
  <2>3. /\ brk.state = [episodes |-> brk.state.episodes, prev |-> brk.state.prev]
        /\ DOMAIN talk.said = DOMAIN brk.state.episodes
        /\ \A lv \in DOMAIN talk.said : lv.kind \in BreakoutKinds
    BY <1>1, <1>2, <2>1
  <2> QED
    BY <2>2, <2>3 DEF brk, talk
<1>4. CASE Looks(b, row)
  <2>1. /\ brk.state = [episodes |-> [lv \in DOMAIN b.episodes \cup watched |->
                                         IF lv \in watched THEN seen(lv).ep ELSE b.episodes[lv]],
                        prev |-> c.close]
        /\ brk.says = [lv \in watched |-> seen(lv).says]
    BY <1>4 DEF Breakout
  <2>2. \A lv \in watched : lv.kind \in BreakoutKinds
    OBVIOUS
  <2>3. ASSUME NEW lv, lv.kind \in BreakoutKinds, Times(levels, lv) = 1 PROVE lv \in watched
    <3>1. {i \in DOMAIN levels : levels[i] = lv} # {}
      BY <2>3, FS_EmptySet DEF Times
    <3> QED
      BY <2>3, <3>1
  <2> HIDE DEF brk, talk, watched, seen
  <2>4. DOMAIN brk.state.episodes = DOMAIN b.episodes \cup watched /\ brk.state.prev = c.close
        /\ brk.state = [episodes |-> brk.state.episodes, prev |-> brk.state.prev]
    BY <2>1
  <2>5. ASSUME NEW lv \in DOMAIN talk.said \ talk.unsteady
        PROVE  Told(talk.said[lv], brk.state.episodes[lv], Beyond(lv, brk.state.prev), n + 1)
    <3>1. Times(levels, lv) = 1 /\ lv \notin obs.unsteady /\ lv \in DOMAIN brk.state.episodes
      BY <1>1, <2>5
    <3>2. lv \in watched
      BY <1>2, <2>2, <2>3, <2>4, <3>1
    <3>3. Told(Was(lv), Of(lv), Beyond(lv, b.prev), n)
      <4>1. CASE lv \in DOMAIN obs.said
        BY <1>2, <3>1, <4>1 DEF AllTold
      <4>2. CASE lv \notin DOMAIN obs.said
        <5>1. <<>> \in Stories /\ Len(<<>>) = 0 /\ 1..0 = {}
          BY DEF Stories
        <5>2. NewEpisode \in Episodes /\ ~NewEpisode.active
          BY DEF NewEpisode, Episodes
        <5>3. Orderly(<<>>)
          BY <5>1 DEF Orderly
        <5>4. Told(<<>>, NewEpisode, Beyond(lv, b.prev), n)
          BY <5>1, <5>2, <5>3, Zenon DEF Told
        <5> QED
          BY <1>2, <4>2, <5>4
      <4> QED
        BY <4>1, <4>2
    <3> DEFINE v == Visit(Of(lv), lv, c, b.prev, row.atr)
    <3> HIDE DEF Of, Was
    <3>4. /\ v.says \in Seq(Words)
          /\ Told(Was(lv) \o [i \in DOMAIN v.says |-> Entry(v.says[i], n + 1)], v.ep, Beyond(lv, c.close), n + 1)
      BY <3>3, VisitTells
    <3>5. seen(lv).ep = v.ep /\ seen(lv).says = v.says
      BY <3>1, <3>4, VisitedOnce DEF seen
    <3> HIDE DEF v
    <3>6. brk.state.episodes[lv] = v.ep /\ lv \in DOMAIN brk.says /\ brk.says[lv] = v.says
      BY <2>1, <3>2, <3>5
    <3>7. talk.said[lv] = Was(lv) \o [i \in DOMAIN v.says |-> Entry(v.says[i], n + 1)]
      BY <1>1, <2>5, <3>6
    <3> QED
      BY <2>4, <3>4, <3>6, <3>7
  <2>6. \A lv \in DOMAIN talk.said : lv.kind \in BreakoutKinds
    BY <1>1, <1>2, <2>2, <2>4
  <2> QED
    BY <1>1, <2>4, <2>5, <2>6 DEF brk, talk
<1> QED
  BY <1>3, <1>4

\* A process that starts has said nothing.
LEMMA FreshTold ==
    ASSUME NEW from, obs = Fresh(from)
    PROVE  AllTold
<1>1. obs.breakout = NewBreakout /\ DOMAIN obs.said = {}
  BY DEF Fresh
<1>2. obs.breakout = [episodes |-> [lv \in {} |-> NewEpisode], prev |-> None]
  BY <1>1 DEF NewBreakout
<1> QED
  BY <1>1, <1>2 DEF AllTold

\* Every step leaves what was said in order.
LEMMA StepTold == StateInv /\ AllTold /\ [Next]_vars => AllTold'
<1> SUFFICES ASSUME StateInv, AllTold, [Next]_vars PROVE AllTold'
  OBVIOUS
<1>1. Memory(obs) /\ obs.done \in Nat
  BY DEF StateInv, Remembering
<1> DEFINE Same == obs'.said = obs.said /\ obs'.unsteady = obs.unsteady /\ obs'.breakout = obs.breakout /\ obs'.done = obs.done
<1>2. Same => AllTold'
  BY DEF AllTold
<1>3. CASE TakeBar
  <2>1. PICK row, levels, c :
          LET brk  == Breakout(obs.breakout, c, row, levels)
              talk == Said(brk.state, brk.says, levels, Looks(obs.breakout, row))
          IN  /\ obs'.breakout = brk.state /\ obs'.said = talk.said /\ obs'.unsteady = talk.unsteady
              /\ obs'.done = obs.done + 1
    BY <1>1, <1>3, Zenon DEF TakeBar, Memory
  <2> DEFINE brk  == Breakout(obs.breakout, c, row, levels)
             talk == Said(brk.state, brk.says, levels, Looks(obs.breakout, row))
  <2>2. /\ brk.state = [episodes |-> brk.state.episodes, prev |-> brk.state.prev]
        /\ DOMAIN talk.said = DOMAIN brk.state.episodes
        /\ \A lv \in DOMAIN talk.said : lv.kind \in BreakoutKinds
        /\ \A lv \in DOMAIN talk.said \ talk.unsteady :
              Told(talk.said[lv], brk.state.episodes[lv], Beyond(lv, brk.state.prev), obs.done + 1)
    BY <1>1, BreakoutTells
  <2>3. obs'.breakout = brk.state /\ obs'.said = talk.said /\ obs'.unsteady = talk.unsteady /\ obs'.done = obs.done + 1
    BY <2>1
  <2> HIDE DEF brk, talk
  <2> QED
    BY <2>2, <2>3 DEF AllTold
<1>4. CASE Restart
  <2>1. obs' = Fresh(obs'.from)
    BY <1>4, RestartKeeps
  <2>2. PICK f : obs' = Fresh(f)
    BY <2>1
  <2>3. obs'.breakout = NewBreakout /\ DOMAIN obs'.said = {}
    BY <2>2 DEF Fresh
  <2>4. obs'.breakout = [episodes |-> [lv \in {} |-> NewEpisode], prev |-> None]
    BY <2>3 DEF NewBreakout
  <2> QED
    BY <2>3, <2>4 DEF AllTold
<1>5. CASE BarCloses \/ UNCHANGED vars
  BY <1>2, <1>5 DEF BarCloses, vars
<1>6. CASE Freeze \/ Mark \/ Finish
  <2>1. Same
    BY <1>1, <1>6 DEF Freeze, Mark, Finish, Memory
  <2> QED
    BY <1>2, <2>1
<1>7. ASSUME NEW snap \in outcomes.snaps, Settle(snap) \/ SetupFails(snap) PROVE AllTold'
  <2>1. Same
    BY <1>1, <1>7 DEF Settle, SetupFails, Memory
  <2> QED
    BY <1>2, <2>1
<1>8. ASSUME NEW t \in Higher, NEW b \in HigherBars, HigherBar(t, b) PROVE AllTold'
  <2>1. Same
    BY <1>1, <1>8 DEF HigherBar, Memory
  <2> QED
    BY <1>2, <2>1
<1> QED
  BY <1>3, <1>4, <1>5, <1>6, <1>7, <1>8 DEF Next

\* Whatever bars come, however few closes acceptance asks for, and through restarts: what is said of
\* a level that was visited once at every bar reads as the story of its episodes.
THEOREM EpisodesTellTheirStory == Spec => []EpisodesAreOrdered
<1>1. Init => AllTold
  <2> SUFFICES ASSUME Init PROVE AllTold
    OBVIOUS
  <2> QED
    BY FreshTold DEF Init
<1>2. AllTold => EpisodesAreOrdered
  <2> SUFFICES ASSUME AllTold, NEW k \in DOMAIN obs.said \ obs.unsteady, NEW j \in DOMAIN obs.said[k]
               PROVE  LET said == obs.said[k]
                          Before(i, kind) == {m \in Opened(said, i) .. i - 1 : said[m].kind = kind}
                      IN  /\ \E i \in 1..j : said[i].kind = "BREAKOUT"
                          /\ said[j].kind = "ACCEPTANCE" =>
                                /\ Before(j, "ACCEPTANCE") = {}
                                /\ said[j - 1].kind \in {"BREAKOUT", "RECLAIM"}
                                /\ said[j].at = said[j - 1].at + Larger(Config.acceptance, 2) - 1
                          /\ said[j].kind = "RETEST" => Before(j, "RETEST") = {} /\ Before(j, "ACCEPTANCE") # {}
                          /\ said[j].kind = "FAILURE_INSIDE" => Before(j, "FAILURE_INSIDE") = {}
                          /\ said[j].kind = "RECLAIM" => said[j - 1].kind = "FAILURE_INSIDE"
                          /\ said[j].kind = "SECOND_FAILURE" => Before(j, "RECLAIM") # {}
    BY Zenon DEF EpisodesAreOrdered
  <2> DEFINE S == obs.said[k]
  <2>1. S \in Stories /\ Orderly(S)
    BY DEF AllTold, Told
  <2>2. j \in 1..Len(S) /\ j \in Nat
    BY <2>1 DEF Stories
  <2> HIDE DEF S
  <2>3. PICK p \in 1..j : ReadsOn(S, j, p)
    BY <2>1, <2>2 DEF Orderly
  <2>4. Opened(S, j) = p
    <3> DEFINE O == {i \in 1..j : S[i].kind = "BREAKOUT"}
    <3>1. p \in O /\ \A i \in O : p >= i
      BY <2>2, <2>3 DEF ReadsOn
    <3>2. O \subseteq Int
      BY <2>2
    <3> HIDE DEF O
    <3>3. Max(O) \in O /\ \A i \in O : Max(O) >= i
      BY <3>1 DEF Max
    <3>4. PICK m : m = Max(O)
      OBVIOUS
    <3>5. m \in Int /\ p \in Int /\ p >= m /\ m >= p
      BY <3>1, <3>2, <3>3, <3>4
    <3>6. m = p
      BY <3>5
    <3> QED
      BY <3>4, <3>6 DEF Opened, O
  <2>5. /\ S[j].kind \in {"ACCEPTANCE", "RETEST", "FAILURE_INSIDE"} => {i \in p .. j - 1 : S[i].kind = S[j].kind} = {}
        /\ S[j].kind = "RETEST" => {i \in p .. j - 1 : S[i].kind = "ACCEPTANCE"} # {}
        /\ S[j].kind = "SECOND_FAILURE" => {i \in p .. j - 1 : S[i].kind = "RECLAIM"} # {}
        /\ \E i \in 1..j : S[i].kind = "BREAKOUT"
    BY <2>2, <2>3 DEF ReadsOn
  <2>6. /\ S[j].kind = "ACCEPTANCE" => /\ S[j - 1].kind \in {"BREAKOUT", "RECLAIM"}
                                       /\ S[j].at = S[j - 1].at + Larger(Config.acceptance, 2) - 1
        /\ S[j].kind = "RECLAIM" => S[j - 1].kind = "FAILURE_INSIDE"
    BY <2>3 DEF ReadsOn
  <2> QED
    BY <2>4, <2>5, <2>6 DEF S
<1> QED
  BY <1>1, <1>2, StartState, StepState, StepTold, PTL DEF Spec
=============================================================================
