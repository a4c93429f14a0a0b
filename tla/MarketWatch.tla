----------------------------- MODULE MarketWatch -----------------------------
(* The housekeeping loop's look at the calendar (app.py, _calendar_check and *)
(* _market_watch): what changed since the last look is told as events. A look *)
(* may come late, after several openings and closings have passed.            *)
EXTENDS HistoryCache

CONSTANTS
    SoonLen       \* slots before the close that count as approaching

ASSUME WatchAssumption == SoonLen \in Nat
ASSUME NoneIsNoMarket == None \notin MarketStates

VARIABLES
    market,       \* the market state last looked at, None before the first look
    told,         \* what the last market event said: open or closed, and which
    soon,         \* the closing times whose approach was told
    failed        \* the year without a calendar was found, and said once

watchVars == <<market, told, soon, failed>>

WatchInit ==
    /\ market = None /\ told = None
    /\ soon = {} /\ failed = FALSE

\* Mutant of Event: another reason between two closed looks is not told.
EventOfState(ms) ==
    IF market = None \/ (ms.state = market.state /\ ms.session = market.session) THEN told
    ELSE [state |-> ms.state, which |-> IF ms.state = "OPEN" THEN ms.session ELSE ms.reason]

\* _calendar_check, then _market_watch. Between two open looks only another
\* session is told, between two closed ones only another reason.
Event(ms) ==
    IF market = None THEN told
    ELSE IF ms.state # market.state \/ ms.session # market.session
            \/ (ms.state = "CLOSED" /\ ms.reason # market.reason)
    THEN [state |-> ms.state, which |-> IF ms.state = "OPEN" THEN ms.session ELSE ms.reason]
    ELSE told

Approaching(ms) ==
    IF ms.state = "OPEN" /\ now < ms.closes_at /\ ms.closes_at - now <= SoonLen
    THEN {[date |-> ms.date, closes_at |-> ms.closes_at]} ELSE {}

Housekeep ==
    LET ms == MarketState(cal, now)
    IN  /\ failed' = (failed \/ ~Covers(cal, TradingDate(cal, now)))
        /\ market' = ms
        /\ told' = Event(ms)
        /\ soon' = soon \cup Approaching(ms)
        /\ UNCHANGED historyVars

Init == HistoryInit /\ WatchInit

\* A restart forgets what was looked at.
Forget == market' = None /\ told' = None /\ soon' = {} /\ failed' = FALSE

Next ==
    \/ HistoryStep /\ UNCHANGED watchVars
    \/ Restart /\ Forget
    \/ bound.looks /\ Housekeep

Spec == Init /\ [][Next]_<<historyVars, watchVars>>

-----------------------------------------------------------------------------
\* The reference: the open slots as the union of the trading days' spans.
Trading(t) ==
    \E d \in {DateOf(t) - 1, DateOf(t)} :
        /\ IsTradingDay(cal, d)
        /\ TradingDaySpan(cal, d).start <= t /\ t < TradingDaySpan(cal, d).end

Far == 4 * DayLen

First(S) == IF S = {} THEN None ELSE Min(S)

(* Every answer of the calendar at any instant agrees with the set of open    *)
(* slots: the next open is the first of them, the next close the first slot   *)
(* after it that is not one, a bar closes where its slots stop being open,    *)
(* the H4 bars of a day neither overlap nor leave a hole, and no named        *)
(* session outlives a shortened day.                                          *)
CalendarAgrees ==
    market # None =>
    LET opens  == First({t \in now .. now + Far : Trading(t)})
        closes == IF opens = None THEN None
                  ELSE First({t \in opens .. opens + DayLen : ~Trading(t)})
        ms     == MarketState(cal, now)
        day    == TradingDate(cal, now)
        cuts   == H4Buckets(cal, day)
        named  == SessionFor(cal, now, "global")
    IN  /\ (ms.state = "OPEN") = Trading(now)
        /\ Covers(cal, day) => ms.next_open = opens /\ ms.next_close = closes
        /\ EffectiveClose(cal, now, BarLen) =
              IF Trading(now)
              THEN Min({t \in now + 1 .. now + BarLen : ~Trading(t)} \cup {now + BarLen})
              ELSE now + BarLen
        /\ Trading(now) =>
              /\ {b \in cuts : b.start <= now /\ now < b.end} = {H4Bucket(cal, now)}
              /\ UNION {b.start .. b.end - 1 : b \in cuts} =
                    {t \in (day - 1) * DayLen .. (day + 2) * DayLen : Trading(t) /\ TradingDate(cal, t) = day}
        /\ (named # None /\ IsTradingDay(cal, named.date)) =>
              named.start <= now /\ now < named.end /\ named.end <= TradingDaySpan(cal, named.date).end

(* However late the looks come, the last market event is about the state last *)
(* looked at: nobody is left believing in a session that is over.             *)
ToldWhatIs ==
    told # None =>
        told = [state |-> market.state,
                which |-> IF market.state = "OPEN" THEN market.session ELSE market.reason]
=============================================================================
