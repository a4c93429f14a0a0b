------------------------------- MODULE Analysis -------------------------------
(* The observer of one contract (observer.py): what on_closed_candle derives    *)
(* from each closed primary candle, the tables it writes, and the outcomes that *)
(* outcomes/service.py settles bar by bar. A restarted observer replays the     *)
(* last warm-up bars, so it starts in the middle of what it had seen. Setups    *)
(* are the matter of Setups.tla: here a setup of any state may be open.         *)
EXTENDS Reads, Outcomes

CONSTANTS
    DayLen, YearLen, H4Len, HorizonDays,
    Calendar,
    Page,         \* how many open snapshots a pass of update_pending reads: 500 detections;
                  \* here those of one bar and direction count as one
    HigherBars,   \* what a higher timeframe's bar may show: [row, context]
    Paths         \* bounds of a behaviour: its bars (each an open slot and the candles it
                  \* may be), the crashes, higher bars, invalidated setups, warm-up bars

Cal == INSTANCE Sessions

Groups == {"global", "mcx"}

\* Bars come in the order of their slots; a warm-up is not empty (app.py:339).
Shapes == [open : Int, high : Int, low : Int, close : Int]
ASSUME PathsAssumption ==
    \A p \in Paths :
        /\ p \in [bars : Seq([slot : Int, shapes : SUBSET Shapes]), crashes : Nat, higher : Nat, fails : Nat,
                  warm : Nat \ {0}]
        /\ \A i, j \in DOMAIN p.bars : i < j => p.bars[i].slot < p.bars[j].slot
\* The validation of the named sessions: no name twice.
ASSUME CalendarAssumption ==
    /\ DayLen \in Nat \ {0} /\ None \notin Int /\ Cal!IsCalendar(Calendar)
    /\ Calendar.windows \in Seq([name : STRING, group : Groups, start : 0..DayLen - 1, end : 0..DayLen - 1])
    /\ \A i, j \in DOMAIN Calendar.windows : Calendar.windows[i].name = Calendar.windows[j].name => i = j
ASSUME PageAssumption == Page \in Nat \ {0}
ASSUME HorizonsAssumption == Config.horizons \subseteq Nat \ {0} /\ IsFiniteSet(Config.horizons)

VARIABLES
    path,         \* what is left of the bounds
    market,       \* the table candles
    obs,          \* the observer's memory; pending is history: what was open when the last
                  \* pass of update_pending read its page
    tables,       \* indicators, structure_pivots, market_day_frames, detections
    outcomes      \* feature_snapshots, outcome_observations and its markers, lost setups

vars == <<path, market, obs, tables, outcomes>>

-----------------------------------------------------------------------------
(* SessionTrendTracker: the OHLC of the running sessions, [date, name] -> row. *)

DateAt(c) == Cal!TradingDate(Calendar, c.bar)

SessionTrend(s, row) ==
    LET move == s.close - s.open
        Moved(m) == Config.minMove * row.atr <= 4 * m
    IN  IF ~Warmed(row) THEN "UNAVAILABLE"
        ELSE CASE Moved(move) /\ row.gap > 0 -> "BULLISH"
               [] Moved(0 - move) /\ row.gap < 0 -> "BEARISH"
               [] OTHER -> "SIDEWAYS"

\* Mutant of Stale: a session is over one slot after its end.
StaleLate(s, c) == c.closes > s.end
Stale(s, c) == c.closes >= s.end

Joined(rows, key, span, group, c, row) ==
    LET old == IF key \in DOMAIN rows THEN rows[key]
               ELSE [group |-> group, start |-> span.start, end |-> span.end, open |-> c.open,
                     high |-> c.high, low |-> c.low, close |-> c.close, trend |-> "UNAVAILABLE", current |-> TRUE]
        new == [old EXCEPT !.high = Larger(@, c.high), !.low = Min({@, c.low}), !.close = c.close]
    IN  [new EXCEPT !.trend = SessionTrend(new, row), !.current = ~Stale(new, c)]

\* The rows of the ended sessions are closed, c joins its session of each
\* group, and of the rows the last few dates' are kept.
TrackedIn(span, rows, c, row) ==
    LET closed == [k \in DOMAIN rows |-> [rows[k] EXCEPT !.current = @ /\ ~Stale(rows[k], c)]]
        On(g)   == [date |-> span[g].date, name |-> span[g].name]
        in      == {g \in Groups : span[g] # None}
        all     == [k \in DOMAIN rows \cup {On(g) : g \in in} |->
                       IF \E g \in in : On(g) = k
                       THEN LET g == CHOOSE h \in in : On(h) = k IN Joined(closed, k, span[g], g, c, row)
                       ELSE closed[k]]
        Newer(k) == {j \in DOMAIN all : j.date > k.date \/
                        (j.date = k.date /\ Config.rank[j.name] > Config.rank[k.name])}
        kept    == {k \in DOMAIN all : Cardinality(Newer(k)) < Config.sessionRows}
    IN  [k \in kept |-> all[k]]

Tracked(rows, c, row) == TrackedIn([g \in Groups |-> Cal!SessionFor(Calendar, c.bar, g)], rows, c, row)

\* current(): the session of a group that is shown as running.
Running(rows, group) ==
    LET on == {k \in DOMAIN rows : rows[k].current /\ rows[k].group = group}
    IN  IF on = {} THEN None
        ELSE rows[CHOOSE k \in on : \A j \in on : rows[j].start <= rows[k].start]

-----------------------------------------------------------------------------
(* DayFrameRepository: derived from the table candles, frozen once closed. *)

Refreshed(frames, date, c) ==
    LET span == Cal!TradingDaySpan(Calendar, date)
        day  == {i \in DOMAIN market : span.start <= market[i].bar /\ market[i].bar < span.end}
        new  == [high |-> Max({market[i].high : i \in day}), low |-> Min({market[i].low : i \in day}),
                 closed |-> c.closes >= span.end]
    IN  IF day = {} \/ (date \in DOMAIN frames /\ frames[date].closed) THEN frames
        ELSE [d \in DOMAIN frames \cup {date} |-> IF d = date THEN new ELSE frames[d]]

\* The day before is closed when a candle of another day comes.
Turned(frames, date) ==
    IF obs.date \in {None, date} \/ obs.date \notin DOMAIN frames THEN frames
    ELSE [frames EXCEPT ![obs.date].closed = TRUE]

PreviousDay(frames, date) ==
    LET days == {d \in DOMAIN frames : d < date /\ frames[d].closed}
    IN  IF days = {} THEN None ELSE frames[Max(days)]

-----------------------------------------------------------------------------
Fresh(from) ==
    [from |-> from, done |-> from - 1, pc |-> "idle", date |-> None,
     ind |-> NewIndicators, structure |-> NewStructure, ema |-> NewEma, rsi |-> NewRsi,
     breakout |-> NewBreakout, sessions |-> [k \in {} |-> None],
     reads |-> [t \in Timeframes |-> "UNAVAILABLE"], present |-> "UNAVAILABLE",
     found |-> {}, pending |-> {}, left |-> {}, settled |-> {}, barsFinal |-> {}, sessionSeen |-> {},
     said |-> [k \in {} |-> <<>>], unsteady |-> {}]

NoRows == [k \in {} |-> None]

Init ==
    /\ path \in Paths
    /\ market = <<>> /\ obs = Fresh(1)
    /\ tables = [indicators |-> NoRows, pivots |-> {}, frames |-> NoRows, detections |-> {}]
    /\ outcomes = [snaps |-> {}, rows |-> NoRows, marked |-> {}, lost |-> {}]

BarCloses ==
    /\ obs.pc = "idle" /\ obs.done = Len(market) /\ Len(market) < Len(path.bars)
    /\ LET next == path.bars[Len(market) + 1]
       IN  \E shape \in next.shapes :
             market' = Append(market, [bar |-> next.slot, closes |-> Cal!EffectiveClose(Calendar, next.slot, 1),
                                       open |-> shape.open, high |-> shape.high, low |-> shape.low,
                                       close |-> shape.close])
    /\ UNCHANGED <<path, obs, tables, outcomes>>

\* What was said of each level, and the levels that were not visited once a bar.
Said(b, says, levels, looks) ==
    [said |-> [lv \in DOMAIN b.episodes |->
                 (IF lv \in DOMAIN obs.said THEN obs.said[lv] ELSE <<>>)
                 \o (IF lv \in DOMAIN says THEN [i \in DOMAIN says[lv] |-> [kind |-> says[lv][i], at |-> obs.done + 1]]
                                           ELSE <<>>)],
     unsteady |-> obs.unsteady \cup {lv \in DOMAIN b.episodes : ~looks \/ Times(levels, lv) # 1}]

StructureDetection(s) ==
    IF s.context # obs.structure.context /\ s.context # "MIXED"
    THEN {Detected("STRUCTURE", s.context, s.context)} ELSE {}

-----------------------------------------------------------------------------
(* The rows a bar writes. A row that is there already stays as it is. *)

IndicatorRow(n, row) == IF n \in DOMAIN tables.indicators THEN tables.indicators[n] ELSE row

WithIndicators(n, row) ==
    [k \in DOMAIN tables.indicators \cup {n} |-> IF k = n THEN row ELSE tables.indicators[k]]

WithPivots(s) ==
    tables.pivots \cup {p \in ToSet(s.highs) \cup ToSet(s.lows) :
                           \A q \in tables.pivots : <<q.kind, q.bar>> # <<p.kind, p.bar>>}

WithDetections(bar, found) == tables.detections \cup {[bar |-> bar, is |-> d] : d \in found}

\* The levels a bar is held against: what the session and the day before showed.
Levels(s, frames, date, row) ==
    BuildLevels(s, PreviousDay(frames, date), Running(obs.sessions, "global"),
                IF row.atr = None THEN 0 ELSE Config.equalLevels * row.atr)

\* on_closed_candle for the next primary candle, up to the stored detections.
TakeBar ==
    LET n      == obs.done + 1
        c      == market[n]
        date   == DateAt(c)
        ind    == Indicate(obs.ind, c)
        mine   == Row(ind, obs.ind.rsi)
        row    == IndicatorRow(n, mine)
        s      == Structured(obs.structure, c, row.atr)
        turned == Turned(tables.frames, date)
        levels == Levels(s, turned, date, row)
        ema    == EmaStep(obs.ema, row)
        rsi    == RsiStep(obs.rsi, row)
        brk    == Breakout(obs.breakout, c, row, levels)
        talk   == Said(brk.state, brk.says, levels, Looks(obs.breakout, row))
        found  == ema.out \cup rsi.out \cup Wick(c, row) \cup Liquidity(obs.breakout.prev, c, row, levels)
                  \cup BreakoutDetections(brk.says) \cup StructureDetection(s)
    IN  /\ obs.pc = "idle" /\ n <= Len(market)
        /\ obs' = [obs EXCEPT !.done = n, !.pc = "freeze", !.date = date, !.ind = ind, !.structure = s,
                              !.ema = ema.state, !.rsi = rsi.state, !.breakout = brk.state,
                              !.sessions = Tracked(obs.sessions, c, row),
                              !.reads = [@ EXCEPT ![Primary] = Classify(mine, s.context)],
                              !.present = PresentTrend(SubSeq(market, obs.from, n), row, s.context),
                              !.found = found, !.said = talk.said, !.unsteady = talk.unsteady]
        /\ tables' = [indicators |-> WithIndicators(n, row), pivots |-> WithPivots(s),
                      frames |-> Refreshed(turned, date, c), detections |-> WithDetections(c.bar, found)]
        /\ UNCHANGED <<path, market, outcomes>>

Snap(c, row, direction) == [bar |-> c.bar, direction |-> direction, price |-> c.close, atr |-> row.atr]

\* A snapshot for each directional detection, one of a bar and direction like the other.
WithSnaps(c, row, found) ==
    outcomes.snaps \cup {Snap(c, row, d.direction) : d \in {x \in found : x.direction \in Directional}}

\* In the order of their ids.
Older(snap, other) ==
    snap.bar < other.bar
        \/ (snap.bar = other.bar /\ snap.direction = "BULLISH" /\ other.direction # "BULLISH")

Oldest(snaps) == CHOOSE s \in snaps : \A t \in snaps \ {s} : Older(s, t)

\* As many as a page holds come first.
Behind(snap, snaps) == Cardinality({s \in snaps : Older(s, snap)}) >= Page

\* freeze for each detection; update_pending then works through the oldest of what is not
\* marked final, a page of them.
Freeze ==
    LET all  == WithSnaps(market[obs.done], tables.indicators[obs.done], obs.found)
        open == all \ outcomes.marked
    IN  /\ obs.pc = "freeze"
        /\ outcomes' = [outcomes EXCEPT !.snaps = all]
        /\ obs' = [obs EXCEPT !.pc = "settle", !.found = {}, !.pending = open,
                              !.left = {snap \in open : ~Behind(snap, open)}]
        /\ UNCHANGED <<path, market, tables>>

SpanOf(snap) == Cal!TradingDaySpan(Calendar, Cal!TradingDate(Calendar, snap.bar))

\* update_pending for one snapshot, up to the marker.
Settle(snap) ==
    LET end    == SpanOf(snap).end
        over   == market[obs.done].closes >= end
        final  == snap \in obs.barsFinal
        seen   == snap \in obs.sessionSeen
        asked  == (IF final THEN {} ELSE Config.horizons) \cup (IF over \/ ~seen THEN {Session} ELSE {})
        later  == \E i \in DOMAIN market : market[i].bar > snap.bar
        seenObs == Observe(snap, market, asked, end, over, snap \in outcomes.lost)
        rows   == Upserted(outcomes.rows, snap, seenObs)
        bars   == final \/ \A h \in Config.horizons : h \in DOMAIN seenObs /\ seenObs[h].final
        done   == bars /\ Session \in DOMAIN seenObs /\ seenObs[Session].final
        skip   == (final /\ seen /\ ~over) \/ ~later
    IN  /\ obs.pc = "settle" /\ obs.left # {} /\ snap = Oldest(obs.left)
        /\ IF skip THEN obs' = [obs EXCEPT !.left = @ \ {snap}] /\ UNCHANGED outcomes
           ELSE /\ outcomes' = [outcomes EXCEPT !.rows = rows]
                /\ obs' = [obs EXCEPT !.pc = IF done THEN "mark" ELSE "settle",
                                      !.left = IF done THEN @ ELSE @ \ {snap},
                                      !.settled = IF done THEN {snap} ELSE {},
                                      !.barsFinal = IF bars THEN @ \cup {snap} ELSE @,
                                      !.sessionSeen = @ \cup {snap}]
        /\ UNCHANGED <<path, market, tables>>

Mark ==
    /\ obs.pc = "mark"
    /\ outcomes' = [outcomes EXCEPT !.marked = @ \cup obs.settled]
    /\ obs' = [obs EXCEPT !.pc = "settle", !.settled = {}, !.left = @ \ obs.settled,
                          !.barsFinal = @ \ obs.settled, !.sessionSeen = @ \ obs.settled]
    /\ UNCHANGED <<path, market, tables>>

Finish ==
    /\ obs.pc = "settle" /\ obs.left = {}
    /\ obs' = [obs EXCEPT !.pc = "idle"]
    /\ UNCHANGED <<path, market, tables, outcomes>>

HigherBar(t, b) ==
    /\ obs.pc = "idle" /\ path.higher > 0
    /\ path' = [path EXCEPT !.higher = @ - 1]
    /\ obs' = [obs EXCEPT !.reads[t] = Classify(b.row, b.context)]
    /\ UNCHANGED <<market, tables, outcomes>>

\* The setup behind a snapshot fails (Setups.tla says when).
SetupFails(snap) ==
    /\ obs.pc = "idle" /\ path.fails > 0 /\ snap \in outcomes.snaps
    /\ path' = [path EXCEPT !.fails = @ - 1]
    /\ outcomes' = [outcomes EXCEPT !.lost = @ \cup {snap}]
    /\ UNCHANGED <<market, obs, tables>>

Restart ==
    /\ path.crashes > 0
    /\ path' = [path EXCEPT !.crashes = @ - 1]
    /\ obs' = Fresh(Larger(1, Len(market) - path.warm + 1))
    /\ UNCHANGED <<market, tables, outcomes>>

Next ==
    \/ BarCloses \/ TakeBar \/ Freeze \/ Mark \/ Finish \/ Restart
    \/ \E snap \in outcomes.snaps : Settle(snap) \/ SetupFails(snap)
    \/ \E t \in Higher, b \in HigherBars : HigherBar(t, b)

Spec == Init /\ [][Next]_vars

-----------------------------------------------------------------------------
\* The swings of bars a to b by their definition: higher (lower) than the bars
\* before within the strength, not lower (higher) than those after.
SwingBars(a, b, Over(_, _)) ==
    {i \in a + Config.strength .. b - Config.strength :
        \A j \in 1..Config.strength :
            Over(market[i], market[i - j]) /\ ~Over(market[i + j], market[i])}

Above(c, d) == c.high > d.high
Below(c, d) == c.low < d.low

\* A warm-up is longer than the two sides of a swing (of 600 bars, two a side, in the
\* configuration; what is validated is that it has EMA_SLOW + 5, whatever SWING_STRENGTH is).
WarmCovers == \A p \in Paths : p.warm > 2 * Config.strength

(* The structure knows every swing of the bars it was fed, flat tops once,    *)
(* and none before the bars after it have closed; a replay that starts in the *)
(* middle neither invents one nor changes what the table says of another.     *)
PivotsAreExact ==
    LET Bars(pivots) == {p.bar : p \in pivots}
        Slots(S) == {market[i].bar : i \in S}
        Rows(kind) == {p \in tables.pivots : p.kind = kind}
        \* what any process has been fed
        top == Larger(obs.done, IF DOMAIN tables.indicators = {} THEN 0 ELSE Max(DOMAIN tables.indicators))
    IN  /\ Bars(ToSet(obs.structure.highs)) = Slots(SwingBars(obs.from, obs.done, Above))
        /\ Bars(ToSet(obs.structure.lows)) = Slots(SwingBars(obs.from, obs.done, Below))
        /\ Bars(Rows("HIGH")) = Slots(SwingBars(1, top, Above))
        /\ Bars(Rows("LOW")) = Slots(SwingBars(1, top, Below))

\* The last i below j where a level was broken anew.
Opened(said, j) == Max({i \in 1..j : said[i].kind = "BREAKOUT"})

(* What is said of a level reads as the story of its episodes: accepted at the *)
(* close that completes the run of closes beyond it, and once; retested after  *)
(* that, and once; reclaimed after a failure; a second failure only after a     *)
(* reclaim. (Levels visited once at every bar: see SecondAfterReclaim. A first   *)
(* close is never accepted, whatever acceptance_closes asks for.)               *)
EpisodesAreOrdered ==
    \A k \in DOMAIN obs.said \ obs.unsteady :
        LET said == obs.said[k]
            Before(j, kind) == {i \in Opened(said, j) .. j - 1 : said[i].kind = kind}
        IN  \A j \in DOMAIN said :
              /\ \E i \in 1..j : said[i].kind = "BREAKOUT"
              /\ said[j].kind = "ACCEPTANCE" =>
                    /\ Before(j, "ACCEPTANCE") = {}
                    /\ said[j - 1].kind \in {"BREAKOUT", "RECLAIM"}
                    /\ said[j].at = said[j - 1].at + Larger(Config.acceptance, 2) - 1
              /\ said[j].kind = "RETEST" => Before(j, "RETEST") = {} /\ Before(j, "ACCEPTANCE") # {}
              /\ said[j].kind = "FAILURE_INSIDE" => Before(j, "FAILURE_INSIDE") = {}
              /\ said[j].kind = "RECLAIM" => said[j - 1].kind = "FAILURE_INSIDE"
              /\ said[j].kind = "SECOND_FAILURE" => Before(j, "RECLAIM") # {}

(* tests/test_detection.py: a second failure comes after a reclaim. *)
SecondAfterReclaim ==
    \A k \in DOMAIN obs.said : \A j \in DOMAIN obs.said[k] :
        obs.said[k][j].kind = "SECOND_FAILURE" =>
            \E i \in 1..j - 1 : obs.said[k][i].kind = "RECLAIM"

\* What a clearance at this moment is decided on.
View == [row |-> tables.indicators[obs.done], present |-> obs.present, reads |-> obs.reads,
         context |-> obs.structure.context]

States == {"WATCH", "DEVELOPING", "CONFIRMED", "PULLBACK", "CONTINUATION", "FAKEOUT_RISK", "COMPLETED", "INVALIDATED"}

(* Whatever bars the timeframes show and in whatever order they come, at the    *)
(* close of a candle no setup is cleared while one timeframe's read opposes it,   *)
(* nor under a flag that calls it counter-trend, contested or a fakeout; and      *)
(* never both ways.                                                             *)
ClearedIsUncontested ==
    obs.pc = "freeze" =>
    \A d \in Directional, s \in States :
        Cleared(View, d, s) =>
            /\ \A t \in Timeframes : obs.reads[t] # Opposite(d)
            /\ ~EarlyReversal(obs.reads, d)
            /\ \A n \in {0, 1} : FakeoutFlags(View, d, s, n) \subseteq {"STRUCTURE UNCONFIRMED", "BREAKOUT FAILED"}
            /\ \A x \in States : ~Cleared(View, Opposite(d), x)

\* How long after its date's midnight a named session ends, before it is cut.
EndOf(w) == w.end + (IF w.end <= w.start THEN DayLen ELSE 0)

\* The named sessions of a group do not overlap, on one day or from one day into another
\* (config/sessions.yaml; the validation does not ask for it).
WindowsApart ==
    \A i, j \in DOMAIN Calendar.windows :
        LET v == Calendar.windows[i]
            w == Calendar.windows[j]
        IN  i # j /\ v.group = w.group =>
                \A shift \in {0 - DayLen, 0, DayLen} : EndOf(v) <= w.start + shift \/ EndOf(w) + shift <= v.start

(* A completed session is not shown as running, and of a group one is.  (Were   *)
(* two of a group to overlap, both would be shown, see WindowsApart.)          *)
CompletedIsNotCurrent ==
    obs.done >= obs.from =>
    \A k \in DOMAIN obs.sessions :
        obs.sessions[k].current =>
            /\ market[obs.done].closes < obs.sessions[k].end
            /\ \A j \in DOMAIN obs.sessions \ {k} :
                  obs.sessions[j].current => obs.sessions[j].group # obs.sessions[k].group

\* All the bars a horizon asks for are in the table.
Ended(snap, h) ==
    LET end == SpanOf(snap).end
    IN  IF h = Session THEN market[obs.done].closes >= end
        ELSE Cardinality({i \in DOMAIN market : market[i].bar > snap.bar}) >= h

\* The bars of an ended horizon: the next h, or those left of the day.
Whole(snap, h) ==
    LET later == {i \in DOMAIN market : market[i].bar > snap.bar}
    IN  IF h = Session THEN {i \in later : market[i].bar < SpanOf(snap).end}
        ELSE {i \in later : Cardinality({j \in later : j <= i}) <= h}

(* An outcome is final over the whole of its horizon and no more, through      *)
(* crashes between its writes and replays from the middle; a snapshot is       *)
(* closed when all its outcomes are final, and with the bar that ends them     *)
(* unless a page of older ones was open.                                       *)
(* (A snapshot of a day's last bar has no session: see README.)                *)
FinalIsWhole ==
    /\ \A k \in DOMAIN outcomes.rows :
          outcomes.rows[k].final =>
              /\ outcomes.rows[k].bars = Cardinality(Whole(k[1], k[2]))
              /\ outcomes.rows[k].last = market[Max(Whole(k[1], k[2]))].bar
    /\ \A snap \in outcomes.marked : \A h \in Horizons :
          <<snap, h>> \in DOMAIN outcomes.rows /\ outcomes.rows[<<snap, h>>].final
    /\ (obs.pc = "idle" /\ obs.done = Len(market)) =>
          \A snap \in outcomes.snaps \ outcomes.marked :
              \/ \E h \in Horizons : ~Ended(snap, h)
              \/ ~\E i \in DOMAIN market : snap.bar < market[i].bar /\ market[i].bar < SpanOf(snap).end
              \/ Behind(snap, obs.pending)

(* outcomes/service.py: the session horizon is finalised when the trading day  *)
(* closes.                                                                     *)
SessionEndsWithDay ==
    (obs.pc = "idle" /\ obs.done = Len(market)) =>
        \A snap \in outcomes.snaps :
            /\ Ended(snap, Session)
            /\ \E i \in DOMAIN market : snap.bar < market[i].bar /\ market[i].bar < SpanOf(snap).end
            => <<snap, Session>> \in DOMAIN outcomes.rows /\ outcomes.rows[<<snap, Session>>].final
=============================================================================
