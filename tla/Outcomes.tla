------------------------------- MODULE Outcomes -------------------------------
(* What became of a detection (outcomes/observation.py, labels.py): a snapshot *)
(* [bar, direction, price, atr] is looked at again over horizons of closed      *)
(* candles, a number of bars each; 0 is the session, the rest of the trading day. *)
(* A candle has its close time beside what Structure gives it.                  *)
EXTENDS Structure, FiniteSetsExt

Session == 0
Horizons == Config.horizons \cup {Session}

\* Of candles in the order of their bars: those after a bar, those before an end.
After(candles, bar) ==
    SubSeq(candles, Cardinality({i \in DOMAIN candles : candles[i].bar <= bar}) + 1, Len(candles))
Until(candles, end) == SubSeq(candles, 1, Cardinality({i \in DOMAIN candles : candles[i].bar < end}))

FirstFew(candles, n) == SubSeq(candles, 1, IF Len(candles) < n THEN Len(candles) ELSE n)

\* Mutant of Window: the snapshot's own candle is looked at.
WindowFromBar(snap, candles, horizon, end, over) ==
    LET future == After(candles, snap.bar - 1)
        inside == Until(future, end)
    IN  IF horizon # Session THEN [candles |-> FirstFew(future, horizon), final |-> Len(future) >= horizon]
        ELSE [candles |-> inside,
              final   |-> over \/ Len(inside) < Len(future) \/ (inside # <<>> /\ Last(inside).closes >= end)]

\* The candles after the snapshot that a horizon looks at, and whether they are
\* all there will be.
Window(snap, candles, horizon, end, over) ==
    LET future == After(candles, snap.bar)
        inside == Until(future, end)
    IN  IF horizon # Session THEN [candles |-> FirstFew(future, horizon), final |-> Len(future) >= horizon]
        ELSE [candles |-> inside,
              final   |-> over \/ Len(inside) < Len(future) \/ (inside # <<>> /\ Last(inside).closes >= end)]

\* Signed so that up is favourable.
Favour(snap, price) == IF snap.direction = "BULLISH" THEN price - snap.price ELSE snap.price - price
Best(snap, c)  == Favour(snap, IF snap.direction = "BULLISH" THEN c.high ELSE c.low)
Worst(snap, c) == Favour(snap, IF snap.direction = "BULLISH" THEN c.low ELSE c.high)

FirstOf(S) == IF S = {} THEN None ELSE Min(S)

\* Excursions are compared with the ATR in quarters; without one both are none.
Outcome(final, w, snap, invalidated) ==
    LET known == snap.atr # None /\ snap.atr > 0
        follow == FirstOf({i \in DOMAIN w : known /\ Favour(snap, w[i].close) >= snap.atr})
        stop   == FirstOf({i \in DOMAIN w : known /\ Favour(snap, w[i].close) <= 0 - snap.atr})
        mfe    == Max({0} \cup {Best(snap, w[i]) : i \in DOMAIN w})
        mae    == Max({0} \cup {0 - Worst(snap, w[i]) : i \in DOMAIN w})
        stoppedFirst == stop # None /\ (follow = None \/ stop < follow)
        small  == ~known \/ ( /\ 4 * Dist(Favour(snap, Last(w).close), 0) < snap.atr
                              /\ 2 * mfe < snap.atr /\ 2 * mae < snap.atr)
    IN  CASE ~final -> "pending"
          [] final /\ follow # None /\ ~stoppedFirst -> IF stop # None THEN "fakeout" ELSE "good_continuation"
          [] final /\ follow = None /\ invalidated -> "invalidated_setup"
          [] final /\ stoppedFirst /\ ~(follow = None /\ invalidated) ->
                IF known /\ 2 * mfe >= snap.atr THEN "fakeout" ELSE "wrong_direction"
          [] OTHER -> IF small THEN "no_follow_through" ELSE "ambiguous"

Observation(snap, candles, horizon, end, over, invalidated) ==
    LET w == Window(snap, candles, horizon, end, over)
    IN  [bars |-> Len(w.candles), last |-> Last(w.candles).bar, final |-> w.final,
         label |-> Outcome(w.final, w.candles, snap, invalidated)]

\* The horizons with nothing to look at have no observation.
Observe(snap, candles, horizons, end, over, invalidated) ==
    [h \in {x \in horizons : Window(snap, candles, x, end, over).candles # <<>>} |->
        Observation(snap, candles, h, end, over, invalidated)]

\* The table outcome_observations: a final row is frozen.
Upserted(rows, snap, obs) ==
    [k \in DOMAIN rows \cup {<<snap, h>> : h \in DOMAIN obs} |->
        IF k[1] = snap /\ k[2] \in DOMAIN obs /\ ~(k \in DOMAIN rows /\ rows[k].final)
        THEN obs[k[2]] ELSE rows[k]]
=============================================================================
