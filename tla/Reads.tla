-------------------------------- MODULE Reads --------------------------------
(* How directional the market looks to the observer: the read of a timeframe   *)
(* and what the timeframes say together (mtf/context.py), the present trend    *)
(* (mtf/trend.py), and whether a setup is cleared (confirmation/policy.py,     *)
(* confirmation/fakeout.py). A read is "UNAVAILABLE" until indicators are warm. *)
EXTENDS Detection

CONSTANTS Higher    \* the timeframes above the primary one

Primary == "primary"
Timeframes == Higher \cup {Primary}
Directional == {"BULLISH", "BEARISH"}

\* The EMA relation and the RSI side of a row, "NEUTRAL" in between.
EmaSide(row) == CASE row.gap > 0 -> "BULLISH" [] row.gap < 0 -> "BEARISH" [] OTHER -> "NEUTRAL"
RsiSide(row) == CASE row.rsi > 50 -> "BULLISH" [] row.rsi < 50 -> "BEARISH" [] OTHER -> "NEUTRAL"

Classify(row, context) ==
    IF ~Warmed(row) THEN "UNAVAILABLE"
    ELSE IF EmaSide(row) = RsiSide(row) /\ EmaSide(row) \in Directional /\ context # Opposite(EmaSide(row))
    THEN EmaSide(row) ELSE "SIDEWAYS"

PresentTrend(candles, row, context) ==
    LET n    == Len(candles)
        move == candles[n].close - candles[n - Config.present].close
        Moved(m) == Config.minMove * row.atr <= 4 * m
    IN  CASE ~Warmed(row) \/ n <= Config.present -> "UNAVAILABLE"
          [] Warmed(row) /\ n > Config.present ->
                CASE row.gap > 0 /\ Moved(move) /\ context # "BEARISH" -> "BULLISH"
                  [] row.gap < 0 /\ Moved(0 - move) /\ context # "BULLISH" -> "BEARISH"
                  [] OTHER -> "SIDEWAYS"

-----------------------------------------------------------------------------
\* Mutant of Assess: one agreeing timeframe is enough.
AssessAny(reads, direction) ==
    LET higher == {reads[t] : t \in Higher} \cap Directional
    IN  CASE higher = {} -> "NO_CONTEXT"
          [] direction \in higher -> "ALIGNED"
          [] OTHER -> "AGAINST"

Assess(reads, direction) ==
    LET higher == {reads[t] : t \in Higher} \cap Directional
        all    == {reads[t] : t \in Timeframes} \cap Directional
    IN  CASE higher = {} -> "NO_CONTEXT"
          [] higher # {} /\ Cardinality(all) > 1 -> "CONFLICT"
          [] OTHER -> IF direction \in all THEN "ALIGNED" ELSE "AGAINST"

EarlyReversal(reads, direction) ==
    LET higher == {reads[t] : t \in Higher} \cap Directional
    IN  Cardinality(higher) = 1 /\ direction \notin higher /\ reads[Primary] = direction

-----------------------------------------------------------------------------
(* A view is what clearance looks at: [row, present, reads, context]. *)

Blockers(view, direction, state) ==
    LET aligned == Assess(view.reads, direction)
        Unless(ok, blocker) == IF ok THEN {} ELSE {blocker}
    IN  Unless(state \in {"CONFIRMED", "PULLBACK", "CONTINUATION"}, "lifecycle")
        \cup Unless(state # "FAKEOUT_RISK", "fakeout")
        \cup Unless(view.row.gap # None /\ EmaSide(view.row) = direction, "ema")
        \cup Unless(view.row.rsi # None /\ RsiSide(view.row) # Opposite(direction), "rsi")
        \cup Unless(view.present = direction, "present")
        \cup Unless(aligned = "ALIGNED", "mtf")
        \cup Unless(view.context # Opposite(direction), "structure")

Cleared(view, direction, state) == Blockers(view, direction, state) = {}

\* failures: how often the setup has closed back inside its anchor.
FakeoutFlags(view, direction, state, failures) ==
    LET If(is, flag) == IF is THEN {flag} ELSE {}
        aligned == Assess(view.reads, direction)
    IN  If(state = "FAKEOUT_RISK", "FAKEOUT_RISK ACTIVE")
        \cup If(view.present = Opposite(direction), "COUNTER-TREND")
        \cup If(aligned = "CONFLICT", "MTF CONFLICT") \cup If(aligned = "AGAINST", "MTF AGAINST")
        \cup If(view.context # direction, "STRUCTURE UNCONFIRMED")
        \cup If(failures > 0 /\ state # "FAKEOUT_RISK", "BREAKOUT FAILED")
=============================================================================
