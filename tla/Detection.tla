------------------------------ MODULE Detection ------------------------------
(* The detectors (detection/): each keeps a little of the bars before and      *)
(* says what the closed candle shows. A detection is [family, kind, direction] *)
(* of a bar; the table detections holds one row for each.                      *)
EXTENDS Structure

Detected(family, kind, direction) == [family |-> family, kind |-> kind, direction |-> direction]

Opposite(direction) == IF direction = "BULLISH" THEN "BEARISH" ELSE "BULLISH"
Toward(side) == IF side = "HIGH" THEN "BULLISH" ELSE "BEARISH"

-----------------------------------------------------------------------------
(* Levels: confirmed pivots, the previous day, the running session. *)

\* A level is known by its kind and price.
Level(kind, price) == [kind |-> kind, price |-> price]

\* Its side goes with its kind.
Side(lv) == IF lv.kind \in {"swing_high", "prev_day_high", "session_high", "equal_highs"} THEN "HIGH" ELSE "LOW"

Swings(pivots) ==
    SubSeq(pivots, Larger(1, Len(pivots) - Config.maxSwings + 1), Len(pivots))

AtPrices(pivots, kind) == [i \in DOMAIN pivots |-> Level(kind, pivots[i].price)]

\* Two consecutive swings within the tolerance.
Equals(pivots, kind, tol) ==
    LET Outer(a, b) == IF (a > b) = (kind = "equal_highs") THEN a ELSE b
        Near(i) == i > 1 /\ 4 * Dist(pivots[i].price, pivots[i - 1].price) <= tol
        near    == SelectSeq([i \in DOMAIN pivots |-> i], Near)
    IN  [n \in DOMAIN near |-> Level(kind, Outer(pivots[near[n]].price, pivots[near[n] - 1].price))]

\* A range is None or [high, low].
Bounds(range, high, low) ==
    IF range = None THEN <<>> ELSE <<Level(high, range.high), Level(low, range.low)>>

BuildLevels(structure, day, session, tol) ==
    LET highs == Swings(structure.highs)
        lows  == Swings(structure.lows)
    IN  AtPrices(highs, "swing_high") \o AtPrices(lows, "swing_low")
        \o Bounds(day, "prev_day_high", "prev_day_low") \o Bounds(session, "session_high", "session_low")
        \o Equals(highs, "equal_highs", tol) \o Equals(lows, "equal_lows", tol)

-----------------------------------------------------------------------------
(* Breakout, acceptance, retest and failure: an episode per level. *)

NewEpisode == [beyond |-> 0, accepted |-> FALSE, failures |-> 0, active |-> FALSE, retested |-> FALSE]
NewBreakout == [episodes |-> [lv \in {} |-> NewEpisode], prev |-> None]

BreakoutKinds == {"swing_high", "swing_low", "prev_day_high", "prev_day_low", "equal_highs", "equal_lows"}

Beyond(lv, price) == IF Side(lv) = "HIGH" THEN price > lv.price ELSE price < lv.price

Touched(lv, c, atr) ==
    IF Side(lv) = "HIGH" THEN Within(c.low - lv.price, Config.retest, atr)
                        ELSE Within(lv.price - c.high, Config.retest, atr)

\* An episode after a visit, and what was said of it: nothing or one thing.
Episode(ep, says) == [ep |-> ep, says |-> says]

Crossed(ep) ==
    IF ep.active /\ ep.failures > 0 THEN Episode([ep EXCEPT !.beyond = 1], <<"RECLAIM">>)
    ELSE Episode([NewEpisode EXCEPT !.beyond = 1, !.active = TRUE], <<"BREAKOUT">>)

\* Mutant of Stays: the count is compared before it is increased.
StaysLate(ep, touched) ==
    LET more == [ep EXCEPT !.beyond = @ + 1]
    IN  CASE ~ep.accepted /\ ep.beyond > Config.acceptance ->
                Episode([more EXCEPT !.accepted = TRUE], <<"ACCEPTANCE">>)
          [] ep.accepted /\ touched /\ ~ep.retested -> Episode([more EXCEPT !.retested = TRUE], <<"RETEST">>)
          [] OTHER -> Episode(more, <<>>)

Stays(ep, touched) ==
    LET more == [ep EXCEPT !.beyond = @ + 1]
    IN  CASE ~ep.accepted /\ more.beyond >= Config.acceptance ->
                Episode([more EXCEPT !.accepted = TRUE], <<"ACCEPTANCE">>)
          [] ep.accepted /\ touched /\ ~ep.retested -> Episode([more EXCEPT !.retested = TRUE], <<"RETEST">>)
          [] OTHER -> Episode(more, <<>>)

Returned(ep) ==
    IF ep.failures >= 1 THEN Episode(NewEpisode, <<"SECOND_FAILURE">>)
    ELSE Episode([ep EXCEPT !.failures = 1, !.beyond = 0], <<"FAILURE_INSIDE">>)

Visit(ep, lv, c, prev, atr) ==
    LET is == Beyond(lv, c.close)
        was == Beyond(lv, prev)
    IN  CASE is /\ ~was              -> Crossed(ep)
          [] is /\ was /\ ep.active  -> Stays(ep, Touched(lv, c, atr))
          [] ~is /\ was /\ ep.active -> Returned(ep)
          [] OTHER                   -> Episode(ep, <<>>)

Times(levels, lv) == Cardinality({i \in DOMAIN levels : levels[i] = lv})

\* A level listed n times is visited n times, and may have as much said of it.
Visited(ep, lv, n, c, prev, atr) ==
    LET after[i \in 0..n] ==
            IF i = 0 THEN Episode(ep, <<>>)
            ELSE LET v == Visit(after[i-1].ep, lv, c, prev, atr)
                 IN  Episode(v.ep, after[i-1].says \o v.says)
    IN  after[n]

\* Is the bar held against the levels at all?
Looks(b, row) == HasAtr(row) /\ b.prev # None

\* The visits of one level are those of no other; says holds what is said of each.
Breakout(b, c, row, levels) ==
    LET watched == {levels[i] : i \in {j \in DOMAIN levels : levels[j].kind \in BreakoutKinds}}
        Of(lv) == IF lv \in DOMAIN b.episodes THEN b.episodes[lv] ELSE NewEpisode
        seen   == [lv \in watched |-> Visited(Of(lv), lv, Times(levels, lv), c, b.prev, row.atr)]
    IN  IF ~Looks(b, row)
        THEN [state |-> [b EXCEPT !.prev = c.close], says |-> [lv \in {} |-> <<>>]]
        ELSE [state |-> [episodes |-> [lv \in DOMAIN b.episodes \cup watched |->
                                          IF lv \in watched THEN seen[lv].ep ELSE b.episodes[lv]],
                         prev |-> c.close],
              says |-> [lv \in watched |-> seen[lv].says]]

BreakoutDetections(says) ==
    {Detected("BREAKOUT", s[2], IF s[2] \in {"FAILURE_INSIDE", "SECOND_FAILURE"}
                                THEN Opposite(Toward(Side(s[1]))) ELSE Toward(Side(s[1]))) :
        s \in UNION {{lv} \X ToSet(says[lv]) : lv \in DOMAIN says}}

-----------------------------------------------------------------------------
(* Liquidity: reclaim before sweep before proximity, each level once. *)

LiquidityOf(lv, c, prev, atr) ==
    LET inside == ~Beyond(lv, c.close)
        wick   == Beyond(lv, IF Side(lv) = "HIGH" THEN c.high ELSE c.low)
        away   == Opposite(Toward(Side(lv)))
    IN  CASE inside /\ prev # None /\ Beyond(lv, prev) -> {Detected("LIQUIDITY", "RECLAIM", away)}
          [] inside /\ ~(prev # None /\ Beyond(lv, prev)) /\ wick -> {Detected("LIQUIDITY", "SWEEP", away)}
          [] inside /\ ~(prev # None /\ Beyond(lv, prev)) /\ ~wick /\ c.close # lv.price
                /\ Within(Dist(lv.price, c.close), Config.proximity, atr) ->
                {Detected("LIQUIDITY", "PROXIMITY", "NEUTRAL")}
          [] OTHER -> {}

Liquidity(prev, c, row, levels) ==
    IF ~HasAtr(row) THEN {} ELSE UNION {LiquidityOf(lv, c, prev, row.atr) : lv \in ToSet(levels)}

-----------------------------------------------------------------------------
(* EMA cross and approach, wick rejection, RSI crossings and turns. *)

NewEma == [prev |-> None, streak |-> 0, early |-> FALSE]

EmaStep(d, row) ==
    LET cross == (d.prev <= 0 /\ row.gap > 0) \/ (d.prev >= 0 /\ row.gap < 0)
        shrinks == Dist(row.gap, 0) < Dist(d.prev, 0)
        streak == IF shrinks THEN d.streak + 1 ELSE 0
        near == /\ HasAtr(row) /\ Within(Dist(row.gap, 0), Config.approach, row.atr)
                /\ shrinks /\ streak >= Config.shrinking /\ ~d.early
    IN  CASE row.gap = None -> [state |-> d, out |-> {}]
          [] row.gap # None /\ d.prev = None -> [state |-> [d EXCEPT !.prev = row.gap], out |-> {}]
          [] OTHER ->
             IF cross
             THEN [state |-> [NewEma EXCEPT !.prev = row.gap],
                   out |-> {IF row.gap > 0 THEN Detected("EMA", "BULL_CROSS", "BULLISH")
                                           ELSE Detected("EMA", "BEAR_CROSS", "BEARISH")}]
             ELSE [state |-> [prev |-> row.gap, streak |-> streak, early |-> (shrinks /\ d.early) \/ near],
                   out |-> IF ~near \/ row.gap = 0 THEN {}
                           ELSE {IF row.gap < 0 THEN Detected("EMA", "EARLY_BULLISH", "BULLISH")
                                                ELSE Detected("EMA", "EARLY_BEARISH", "BEARISH")}]

\* Shares of the range in tenths.
Wick(c, row) ==
    LET range == c.high - c.low
        top   == Larger(c.open, c.close)
        body  == Dist(c.open, c.close)
        Long(wick) == 10 * wick >= Config.minWick * range
    IN  IF ~HasAtr(row) \/ range <= 0 \/ 10 * range < Config.minRange * row.atr
           \/ 10 * body > Config.maxBody * range THEN {}
        ELSE (IF Long(c.high - top) THEN {Detected("WICK", "UPPER_REJECTION", "BEARISH")} ELSE {})
             \cup (IF Long(top - body - c.low) THEN {Detected("WICK", "LOWER_REJECTION", "BULLISH")} ELSE {})

\* Config.rsiLevels holds records [at, up, down]: a level and its two kinds.
NewRsi == [prev |-> None, turn |-> None]

RsiStep(d, row) ==
    LET crossed == IF d.prev = None THEN {} ELSE
            {x \in Config.rsiLevels \X BOOLEAN :
                IF x[2] THEN d.prev < x[1].at /\ x[1].at <= row.rsi ELSE d.prev > x[1].at /\ x[1].at >= row.rsi}
        moves == row.turn \in {"rising", "falling"}
        turned == moves /\ d.turn # None /\ d.turn # row.turn
    IN  IF row.rsi = None THEN [state |-> d, out |-> {}]
        ELSE [state |-> [prev |-> row.rsi, turn |-> IF moves THEN row.turn ELSE d.turn],
              out |-> {Detected("RSI", IF x[2] THEN x[1].up ELSE x[1].down, IF x[2] THEN "BULLISH" ELSE "BEARISH") : x \in crossed}
                      \cup (IF ~turned THEN {}
                            ELSE {IF row.turn = "rising" THEN Detected("RSI", "TURN_UP", "BULLISH")
                                                         ELSE Detected("RSI", "TURN_DOWN", "BEARISH")})]
=============================================================================
