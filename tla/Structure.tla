------------------------------ MODULE Structure ------------------------------
(* What the observer derives bar by bar from closed candles: the indicators   *)
(* (indicators/engine.py), in whole price units, and the swing structure       *)
(* (structure/engine.py). Config holds the analysis parameters; a share of the *)
(* ATR is counted in quarters. A candle is [bar, open, high, low, close].      *)
EXTENDS Integers, Sequences, FiniteSets, SequencesExt

CONSTANTS Config, None

ASSUME ConfigAssumption ==
    /\ {Config.fast, Config.slow, Config.rsi, Config.atr, Config.strength, Config.acceptance} \subseteq Nat \ {0}
    /\ Config.fast < Config.slow

Larger(a, b) == IF a >= b THEN a ELSE b
Dist(a, b) == IF a >= b THEN a - b ELSE b - a
Total(seq) == FoldLeft(LAMBDA a, b : a + b, 0, seq)

\* diff <= (quarters / 4) * atr
Within(diff, quarters, atr) == 4 * diff <= quarters * atr

-----------------------------------------------------------------------------
\* An average has no value until its seed is full.
Unseeded == [value |-> None, seed |-> <<>>]

Seeded(avg, x, n) ==
    LET seed == Append(avg.seed, x)
    IN  IF Len(seed) < n THEN [avg EXCEPT !.seed = seed]
        ELSE [value |-> Total(seed) \div n, seed |-> <<>>]

Ema(avg, price, n) ==
    IF avg.value = None THEN Seeded(avg, price, n)
    ELSE [avg EXCEPT !.value = @ + (2 * (price - @)) \div (n + 1)]

Wilder(avg, x, n) ==
    IF avg.value = None THEN Seeded(avg, x, n)
    ELSE [avg EXCEPT !.value = (@ * (n - 1) + x) \div n]

Rsi(gain, loss) ==
    IF gain = None THEN None
    ELSE IF loss = 0 THEN (IF gain > 0 THEN 100 ELSE 50)
    ELSE (100 * gain) \div (gain + loss)

TrueRange(c, prev) ==
    IF prev = None THEN c.high - c.low
    ELSE Larger(c.high - c.low, Larger(Dist(c.high, prev), Dist(c.low, prev)))

NewIndicators ==
    [fast |-> Unseeded, slow |-> Unseeded, gain |-> Unseeded, loss |-> Unseeded, atr |-> Unseeded,
     prev |-> None, rsi |-> None]

\* The engine after a candle; rsi is kept for the next bar's direction.
Indicate(e, c) ==
    LET gain == IF e.prev = None THEN e.gain ELSE Wilder(e.gain, Larger(c.close - e.prev, 0), Config.rsi)
        loss == IF e.prev = None THEN e.loss ELSE Wilder(e.loss, Larger(e.prev - c.close, 0), Config.rsi)
    IN  [fast |-> Ema(e.fast, c.close, Config.fast), slow |-> Ema(e.slow, c.close, Config.slow),
         gain |-> gain, loss |-> loss,
         atr  |-> Wilder(e.atr, TrueRange(c, e.prev), Config.atr),
         prev |-> c.close, rsi |-> Rsi(gain.value, loss.value)]

RsiDirection(rsi, prev) ==
    CASE rsi = None -> None
      [] rsi # None /\ (prev = None \/ Dist(rsi, prev) <= Config.flat) -> "flat"
      [] OTHER -> IF rsi > prev THEN "rising" ELSE "falling"

Row(e, prevRsi) ==
    [gap |-> IF None \in {e.fast.value, e.slow.value} THEN None ELSE e.fast.value - e.slow.value,
     rsi |-> e.rsi, turn |-> RsiDirection(e.rsi, prevRsi), atr |-> e.atr.value]

Warmed(row) == None \notin {row.gap, row.rsi, row.atr}
HasAtr(row) == row.atr # None /\ row.atr > 0

-----------------------------------------------------------------------------
\* The label of a pivot after the last one of its kind; no ATR, no tolerance.
Label(kind, price, last, atr) ==
    CASE last = None -> IF kind = "HIGH" THEN "SH" ELSE "SL"
      [] last # None /\ Within(Dist(price, last.price), Config.equal, IF atr = None THEN 0 ELSE atr) ->
            IF kind = "HIGH" THEN "EH" ELSE "EL"
      [] OTHER -> IF kind = "HIGH" THEN (IF price > last.price THEN "HH" ELSE "LH")
                  ELSE (IF price > last.price THEN "HL" ELSE "LL")

NewStructure == [window |-> <<>>, highs |-> <<>>, lows |-> <<>>, context |-> "MIXED"]

Earlier(p, q) == p.bar < q.bar \/ (p.bar = q.bar /\ p.kind = "HIGH" /\ q.kind = "LOW")
AllPivots(s) == SortSeq(s.highs \o s.lows, Earlier)

\* One opposing label among the recent ones is enough for no context.
Context(s) ==
    LET all    == AllPivots(s)
        recent == {i \in DOMAIN all : i > Len(all) - Config.lookback}
        Labelled(L) == Cardinality({i \in recent : all[i].label \in L})
        bull   == Labelled({"HH", "HL"})
        bear   == Labelled({"LH", "LL"})
    IN  CASE bull >= 2 /\ bear = 0 -> "BULLISH"
          [] bear >= 2 /\ bull = 0 -> "BEARISH"
          [] OTHER -> "MIXED"

\* Mutant of IsHigh: a flat top has no pivot.
IsHighStrict(w) ==
    LET s == Config.strength
    IN  Len(w) = 2 * s + 1 /\ \A i \in DOMAIN w \ {s + 1} : w[s + 1].high > w[i].high

IsHigh(w) ==
    LET s == Config.strength
    IN  /\ Len(w) = 2 * s + 1
        /\ \A i \in 1..s : w[s + 1].high > w[i].high
        /\ \A i \in s + 2 .. 2 * s + 1 : w[s + 1].high >= w[i].high

IsLow(w) ==
    LET s == Config.strength
    IN  /\ Len(w) = 2 * s + 1
        /\ \A i \in 1..s : w[s + 1].low < w[i].low
        /\ \A i \in s + 2 .. 2 * s + 1 : w[s + 1].low <= w[i].low

Add(pivots, kind, price, w, atr) ==
    Append(pivots, [kind |-> kind, price |-> price, bar |-> w[Config.strength + 1].bar, at |-> Last(w).bar,
                    label |-> Label(kind, price, IF pivots = <<>> THEN None ELSE Last(pivots), atr)])

Structured(s, c, atr) ==
    LET w == LET all == Append(s.window, c)
             IN  IF Len(all) > 2 * Config.strength + 1 THEN Tail(all) ELSE all
        mid == w[Config.strength + 1]
        new == [window  |-> w,
                highs   |-> IF IsHigh(w) THEN Add(s.highs, "HIGH", mid.high, w, atr) ELSE s.highs,
                lows    |-> IF IsLow(w) THEN Add(s.lows, "LOW", mid.low, w, atr) ELSE s.lows,
                context |-> s.context]
    IN  [new EXCEPT !.context = Context(new)]
=============================================================================
