------------------------------ MODULE MCAnalysis ------------------------------
(* Prices in sixteenths; a day of eight slots, its session from slot 1 to 7,  *)
(* the evening from 4. The averages are as short as they can be.              *)
EXTENDS Analysis, TLC

CONSTANTS M15, H1

MCConfig ==
    [fast |-> 1, slow |-> 3, rsi |-> 2, atr |-> 2, flat |-> 5, strength |-> 1, equal |-> 1, lookback |-> 4,
     maxSwings |-> 3, acceptance |-> 2, retest |-> 1, proximity |-> 1, approach |-> 4, shrinking |-> 1,
     minWick |-> 6, maxBody |-> 3, minRange |-> 8, equalLevels |-> 1, present |-> 2, minMove |-> 1,
     horizons |-> {2, 3}, sessionRows |-> 3,
     rsiLevels |-> {[at |-> 50, up |-> "CROSS_UP_50", down |-> "CROSS_DOWN_50"]},
     rank |-> [ASIA |-> 1, LONDON |-> 2, MORNING |-> 3, EVENING |-> 4]]

NoDates == [d \in {} |-> None]
Window4(name, group, s, e) == [name |-> name, group |-> group, start |-> s, end |-> e]

MCCalendar ==
    [session |-> (0 :> [start |-> 1, evening |-> 4, end |-> 7]), fallback |-> [start |-> 1, evening |-> 4, end |-> 7],
     weekend |-> TRUE, override |-> NoDates, off |-> {}, special |-> NoDates, pending |-> {}, holiday |-> NoDates,
     close |-> {},
     windows |-> << Window4("ASIA", "global", 1, 4), Window4("LONDON", "global", 4, 0),
                    Window4("MORNING", "mcx", 1, 4), Window4("EVENING", "mcx", 4, 7) >>]

ASSUME SessionsApart == WindowsApart
ASSUME WarmUpsCover == WarmCovers

Candle(o, h, l, c) == [open |-> 16 * o, high |-> 16 * h, low |-> 16 * l, close |-> 16 * c]

Low   == Candle(2, 2, 1, 1)
Mid   == Candle(1, 3, 1, 2)
High  == Candle(2, 5, 2, 4)
Spike == Candle(2, 5, 1, 2)
Top   == Candle(4, 6, 3, 5)
Over  == Candle(4, 7, 3, 6)

At(slot, shapes) == [slot |-> slot, shapes |-> shapes]
Path(bars, crashes, higher, fails, warm) ==
    [bars |-> bars, crashes |-> crashes, higher |-> higher, fails |-> fails, warm |-> warm]

Bars(slots, first, rest) ==
    [i \in DOMAIN slots |-> At(slots[i], IF i \in DOMAIN first THEN first[i] ELSE rest)]

\* Breakouts of a swing; crashes and replays of the last four bars over a day's
\* end and a missing bar; higher timeframes that come and go; and more snapshots over
\* three days than a page holds, so that some are left behind.
AllPaths ==
    { Path(Bars(<<1, 2, 3, 4, 5, 6, 9, 10, 11>>, <<{Low}, {Mid}, {Low}, {Mid, High}>>, {Low, Mid, High, Top}), 0, 0, 0, 5),
      Path(Bars(<<2, 3, 5, 6, 9, 10, 11>>, <<{Low}, {Spike}>>, {Low, High}), 1, 0, 0, 4),
      Path(Bars(<<2, 3, 4, 6, 9, 10>>, <<{Low}, {Spike}>>, {Low, High}), 0, 0, 1, 4),
      Path(Bars(<<1, 2, 3, 4, 5, 6>>, <<{Low}, {Mid}>>, {Low, High, Top}), 0, 2, 0, 5),
      Path(Bars(<<2, 3, 6, 9, 10, 11, 14, 17>>, <<{Low}, {Spike}>>, {Low, Spike}), 0, 0, 0, 4) }

TwinPaths == { Path(Bars(<<1, 2, 3, 4, 5, 6, 9, 10>>, <<{Low}, {Spike}, {Low}, {Spike}, {Low}>>, {Low, Over}), 0, 0, 0, 5) }

MCHigherBars ==
    {[row |-> [gap |-> g, rsi |-> 50 + g, atr |-> 1], context |-> x] : g \in {-1, 1}, x \in {"MIXED", "BULLISH"}}
=============================================================================
