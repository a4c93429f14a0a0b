-------------------------------- MODULE Setups --------------------------------
(***************************************************************************)
(* SymbolObserver's handling of closed primary candles, as far as setups   *)
(* are concerned: the lifecycle of each open setup (SetupTracker), the     *)
(* creation of new ones from the candle's detections, and the two tables   *)
(* behind them, written one transaction at a time, with a crash possible   *)
(* between any two.  A restarted observer replays the stored candles from  *)
(* the first one, publishing nothing, before it takes live ones.           *)
(*                                                                         *)
(* A bar carries what the setups look at: its close relative to the one    *)
(* anchor price all setups here share (bullish; bearish is the mirror),    *)
(* whether its low touched the anchor, and how many detections, say at     *)
(* levels of equal price, it gave rise to.                                 *)
(***************************************************************************)
EXTENDS Integers, Sequences, FiniteSets

CONSTANTS
    Shapes,           \* bound: the bars that may happen, per bar: sets of [close, touched, found]
    Invalidation,     \* the invalidation price, below the anchor
    AcceptanceCloses, CompletionBars, MaxAgeBars,  \* LifecycleParams
    MaxCrashes        \* bound: crashes

ASSUME ShapesAssumption == Shapes \in Seq(SUBSET [close : Int, touched : BOOLEAN, found : 0..2])
ASSUME PricesAssumption == Invalidation \in Int /\ Invalidation < 0
ASSUME ParamsAssumption == {AcceptanceCloses, CompletionBars, MaxAgeBars} \subseteq Nat \ {0}
ASSUME BoundsAssumption == MaxCrashes \in Nat

VARIABLES
    up,        \* does the process run?
    market,    \* the closed bars so far
    rows,      \* table setups, by originating detection
    events,    \* table setup_events: per setup, in order of their ids
    stored,    \* table candles: the last bar in it
    obs,       \* the observer's memory, and where on_closed_candle is
    crashes,
    finished   \* history: the last bar on_closed_candle has ever returned from

setupVars == <<up, market, rows, events, stored, obs, crashes, finished>>

States == {"OBSERVING", "WATCH", "DEVELOPING", "CONFIRMED", "PULLBACK", "CONTINUATION",
           "FAKEOUT_RISK", "COMPLETED", "INVALIDATED"}
Terminal == {"COMPLETED", "INVALIDATED"}
Bars == DOMAIN Shapes
Origins == [bar : Bars, n : 1..2]

\* A table, or a dict, in which key k is entered with value v.
Put(table, k, v) == [x \in DOMAIN table \union {k} |-> IF x = k THEN v ELSE table[x]]

-----------------------------------------------------------------------------
(* SetupTracker.evaluate *)

\* The state the lifecycle rules pick for a setup that is not invalidated.
Advance(s, bar, ctx) ==
    LET beyond == bar.close > 0
        further == bar.close > s.ctx.extreme
    IN  IF ~beyond
        THEN IF s.state = "FAKEOUT_RISK" THEN "INVALIDATED" ELSE "FAKEOUT_RISK"
        ELSE CASE s.state = "WATCH" /\ ctx.beyond >= AcceptanceCloses -> "DEVELOPING"
               [] s.state = "DEVELOPING" /\ further                   -> "CONFIRMED"
               [] s.state = "CONFIRMED" /\ bar.touched                -> "PULLBACK"
               [] s.state = "PULLBACK" /\ further                     -> "CONTINUATION"
               [] s.state = "CONTINUATION" /\ ctx.bars >= CompletionBars -> "COMPLETED"
               [] s.state = "FAKEOUT_RISK"                            -> "CONFIRMED"
               [] OTHER                                               -> s.state

\* ctx after a bar that does not invalidate and leads to state to.
Count(s, bar, to) ==
    [age     |-> s.ctx.age + 1,
     beyond  |-> s.ctx.beyond + (IF bar.close > 0 THEN 1 ELSE 0),
     bars    |-> IF to = "CONTINUATION" /\ s.state = "PULLBACK" THEN 0
                 ELSE s.ctx.bars + (IF s.state = "CONTINUATION" THEN 1 ELSE 0),
     extreme |-> IF bar.close > 0 /\ bar.close > s.ctx.extreme THEN bar.close ELSE s.ctx.extreme]

\* The states a bar takes a setup through, in order, and the setup after them.
Evaluate(s, b) ==
    LET bar == market[b]
        to == Advance(s, bar, Count(s, bar, s.state))
        ctx == Count(s, bar, to)
        aged == to \notin Terminal /\ ctx.age >= MaxAgeBars
    IN  IF s.state \in Terminal \/ b <= s.updated
        THEN [path |-> << >>, row |-> s]
        ELSE IF bar.close < Invalidation
        THEN [path |-> <<"INVALIDATED">>,
              row |-> [s EXCEPT !.state = "INVALIDATED", !.updated = b, !.ctx.age = @ + 1]]
        ELSE [path |-> (IF to # s.state THEN <<to>> ELSE << >>) \o (IF aged THEN <<"COMPLETED">> ELSE << >>),
              row |-> [s EXCEPT !.state = IF aged THEN "COMPLETED" ELSE to, !.updated = b, !.ctx = ctx]]

\* create_setup, entered into the table in WATCH
Created(b) ==
    [state |-> "WATCH", created |-> b, updated |-> b,
     ctx |-> [age |-> 0, beyond |-> IF market[b].close > 0 THEN 1 ELSE 0, bars |-> 0,
              extreme |-> market[b].close]]

-----------------------------------------------------------------------------
(* SetupRepository.  closed_at is set exactly in the terminal states. *)

Open == {o \in DOMAIN rows : rows[o].state \notin Terminal}
OpenFor(b) == {o \in Open : rows[o].updated <= b}

\* Mutant of OpenAt: the setups open now.
OpenNow(b) == {o \in Open : rows[o].created <= b}

\* open_at: the setups that were open when bar b was analysed, also in a replay.
OpenAt(b) == {o \in DOMAIN rows : /\ rows[o].created <= b
                                  /\ rows[o].state \notin Terminal \/ rows[o].updated >= b}

\* Mutant of AddEvent: one event per setup and candle.
AddFirstEvent(o, e) ==
    IF \E i \in DOMAIN events[o] : events[o][i].bar = e.bar
    THEN events ELSE [events EXCEPT ![o] = Append(@, e)]

\* add_event, ignored if there is one for the setup, candle and target state
AddEvent(o, e) ==
    IF \E i \in DOMAIN events[o] : events[o][i] = e
    THEN events ELSE [events EXCEPT ![o] = Append(@, e)]

-----------------------------------------------------------------------------
(* The observer *)

Fresh == [last |-> 0, warmTo |-> 0, phase |-> "idle", left |-> {}, shown |-> {},
          writes |-> << >>, published |-> << >>]

Live == obs.phase = "idle" /\ obs.last >= obs.warmTo
First(S) == CHOOSE o \in S : \A p \in S : o.bar < p.bar \/ (o.bar = p.bar /\ o.n <= p.n)

SetupInit ==
    /\ up = TRUE /\ market = << >>
    /\ rows = << >> /\ events = << >> /\ stored = 0
    /\ obs = Fresh
    /\ crashes = 0 /\ finished = 0

\* A bar closes at the exchange, whether or not anyone is looking; the next one is later than
\* anything the observer does with it, or with the bars it replays.
BarCloses ==
    /\ Len(market) < Len(Shapes) /\ obs.phase = "idle"
    /\ up => obs.last = Len(market)
    /\ \E shape \in Shapes[Len(market) + 1] : market' = Append(market, shape)
    /\ UNCHANGED <<up, rows, events, stored, obs, crashes, finished>>

\* on_closed_candle for the next bar, from warm or from the pipeline: up to the lifecycle loop.
TakeBar ==
    /\ up /\ obs.phase = "idle" /\ obs.last < Len(market)
    /\ LET b == obs.last + 1
       IN  /\ obs' = [obs EXCEPT !.last = b, !.phase = "lifecycle",
                                 !.left = OpenFor(b), !.shown = OpenFor(b)]
           /\ stored' = IF b > stored THEN b ELSE stored
    /\ UNCHANGED <<up, market, rows, events, crashes, finished>>

\* One setup through the tracker; per transition, update_state and add_event are to follow.
\* Without a transition nothing is written, the counters in ctx included.
EvaluateOne ==
    /\ up /\ obs.phase = "lifecycle" /\ obs.writes = << >> /\ obs.left # {}
    /\ LET o == First(obs.left)
           r == Evaluate(rows[o], obs.last)
           event(i) == [kind |-> "event", setup |-> o, to |-> r.path[i]]
           state == [kind |-> "state", setup |-> o, row |-> r.row]
       IN  obs' = [obs EXCEPT !.left = @ \ {o},
                              !.writes = [i \in 1..(2 * Len(r.path)) |->
                                             IF i % 2 = 1 THEN state ELSE event(i \div 2)]]
    /\ UNCHANGED <<up, market, rows, events, stored, crashes, finished>>

\* The bar's detections that no other setup open at the bar stands for.
Anew(b) == {o \in Origins : /\ o.bar = b /\ o.n <= market[b].found
                            /\ OpenAt(b) \subseteq {o}}

LookForNew ==
    /\ up /\ obs.phase = "lifecycle" /\ obs.writes = << >> /\ obs.left = {}
    /\ obs' = [obs EXCEPT !.phase = "create", !.left = Anew(obs.last)]
    /\ UNCHANGED <<up, market, rows, events, stored, crashes, finished>>

\* insert_or_existing, and the first event of a setup it inserted
CreateOne ==
    /\ up /\ obs.phase = "create" /\ obs.writes = << >> /\ obs.left # {}
    /\ LET o == First(obs.left)
           new == o \notin DOMAIN rows
       IN  obs' = [obs EXCEPT
                     !.left = @ \ {o},
                     !.shown = IF new \/ o \in Open THEN @ \union {o} ELSE @,
                     !.writes = IF new THEN <<[kind |-> "insert", setup |-> o, row |-> Created(obs.last)],
                                              [kind |-> "event", setup |-> o, to |-> "WATCH"]>>
                                ELSE << >>]
    /\ UNCHANGED <<up, market, rows, events, stored, crashes, finished>>

\* One transaction.
Commit ==
    /\ up /\ obs.writes # << >>
    /\ LET w == Head(obs.writes)
       IN  \/ /\ w.kind = "insert"
              /\ rows' = Put(rows, w.setup, w.row)
              /\ events' = Put(events, w.setup, << >>)
           \/ /\ w.kind = "state"
              /\ rows' = [rows EXCEPT ![w.setup] = w.row]
              /\ UNCHANGED events
           \/ /\ w.kind = "event"
              /\ events' = AddEvent(w.setup, [bar |-> obs.last, to |-> w.to])
              /\ UNCHANGED rows
    /\ obs' = [obs EXCEPT !.writes = Tail(@)]
    /\ UNCHANGED <<up, market, stored, crashes, finished>>

\* What a card is about: SetupView.state_hash, of state and last event.
View(o) == [state |-> rows[o].state, event |-> Len(events[o])]

\* _clear_and_publish over setups S: a view goes to the sink if it differs from the last one.
Changed(S) == {o \in S : o \notin DOMAIN obs.published \/ obs.published[o] # View(o)}
Published(S) == [o \in DOMAIN obs.published \union S |->
                    IF o \in S THEN View(o) ELSE obs.published[o]]

\* The rest of on_closed_candle; offered are the setups whose view is published.
FinishBar(offered) ==
    /\ up /\ obs.phase = "create" /\ obs.writes = << >> /\ obs.left = {}
    /\ offered = IF obs.last > obs.warmTo THEN Changed(obs.shown) ELSE {}
    /\ obs' = [obs EXCEPT !.phase = "idle", !.shown = {}, !.published = Published(offered)]
    /\ finished' = IF obs.last > finished THEN obs.last ELSE finished
    /\ UNCHANGED <<up, market, rows, events, stored, crashes>>

\* _on_higher: a bar of a higher timeframe re-evaluates clearance and may publish.
HigherBar(offered) ==
    /\ up /\ Live /\ obs.last > 0
    /\ offered = Changed(OpenFor(obs.last)) /\ offered # {}
    /\ obs' = [obs EXCEPT !.published = Published(offered)]
    /\ UNCHANGED <<up, market, rows, events, stored, crashes, finished>>

Crash ==
    /\ up /\ crashes < MaxCrashes
    /\ up' = FALSE /\ crashes' = crashes + 1
    /\ obs' = Fresh
    /\ UNCHANGED <<market, rows, events, stored, finished>>

\* warm: the stored bars are replayed, and those the broker already has; later ones come live.
Restart ==
    /\ ~up /\ up' = TRUE
    /\ \E w \in stored..Len(market) : obs' = [obs EXCEPT !.warmTo = w]
    /\ UNCHANGED <<market, rows, events, stored, crashes, finished>>

ObserverNext ==
    \/ TakeBar
    \/ EvaluateOne
    \/ LookForNew
    \/ CreateOne
    \/ Commit

-----------------------------------------------------------------------------
(* Properties *)

Ctx == [age : Nat, beyond : Nat, bars : Nat, extreme : Int]
Rows == [state : States \ {"OBSERVING"}, created : Bars, updated : Bars, ctx : Ctx]

\* Types: events belong to rows, a stored setup is past OBSERVING, a dead process has no memory.
SetupTypeOK ==
    /\ up \in BOOLEAN /\ Len(market) <= Len(Shapes)
    /\ \A b \in DOMAIN market : market[b] \in Shapes[b]
    /\ DOMAIN rows \subseteq Origins /\ \A o \in DOMAIN rows : rows[o] \in Rows
    /\ DOMAIN events = DOMAIN rows
    /\ \A o \in DOMAIN events : events[o] \in Seq([bar : Bars, to : States])
    /\ stored \in 0..Len(market) /\ finished \in 0..Len(market) /\ crashes \in 0..MaxCrashes
    /\ obs.last \in 0..Len(market) /\ obs.warmTo \in 0..Len(market)
    /\ obs.phase \in {"idle", "lifecycle", "create"}
    /\ obs.left \subseteq Origins /\ obs.shown \subseteq Origins
    /\ DOMAIN obs.published \subseteq DOMAIN rows
    /\ ~up => obs = Fresh

\* README "Restart safety": "replaying the same history into the same SQLite file changes
\* nothing".  Analysing again a bar that was once analysed to its end leaves setups and events as
\* they are, wherever the process crashed since, and whatever was open, closed or created later.
ReplayChangesNothing ==
    [][obs.phase # "idle" /\ obs.last <= finished => UNCHANGED <<rows, events>>]_setupVars

\* A setup whose state is not what its last event says.
Unrecorded == {o \in DOMAIN rows : \/ events[o] = << >>
                                   \/ events[o][Len(events[o])].to # rows[o].state}

\* The history of a setup explains its state ("setup_events per transition", README): two
\* transitions on one bar both leave their event, and a crash leaves at most the one setup that
\* was being written without it.
EventsMatchRows == Cardinality(Unrecorded) <= crashes + (IF obs.writes = << >> THEN 0 ELSE 1)

\* The configured end of a setup (max_age_bars, config/analysis.yaml:29; tests/test_lifecycle.py:114
\* has it COMPLETED on the bar that makes it this old): none is open after that many bars.
AgeIsBounded ==
    obs.phase = "idle" => \A o \in Open : finished < rows[o].created + MaxAgeBars

\* The configured end of a continuation (completion_bars, tests/test_lifecycle.py:72).
ContinuationEnds ==
    obs.phase = "idle" => \A o \in Open : rows[o].state = "CONTINUATION"
                                          => finished < rows[o].updated + CompletionBars
=============================================================================
