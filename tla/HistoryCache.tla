---------------------------- MODULE HistoryCache ----------------------------
(* Historical candles of one contract and timeframe: the download in chunks   *)
(* and the normalisation of what the broker returns (broker/dhan/             *)
(* historical.py), the candles table and the table of verified coverage       *)
(* (storage/repositories.py). One thread loads; others share the client.      *)
EXTENDS Sessions, HttpClient

CONSTANTS
    BarLen,       \* slots to a bar
    MaxDays,      \* slots to a request (max_days_per_request)
    LoadLens,     \* how far back a load may reach (warmup_window)
    Loader,       \* the caller that loads
    Calendars,    \* the calendar files there may be
    Scopes        \* bounds of a behaviour: its start, the slots that pass, and how
                  \* many loads, requests of other threads and crashes; whether the
                  \* market is watched in it

ASSUME HistoryAssumption ==
    /\ {BarLen, MaxDays} \subseteq Nat \ {0}
    /\ Scopes \subseteq [start : Nat, slots : Nat, loads : Nat, others : Nat, crashes : Nat, looks : BOOLEAN]
    /\ LoadLens \subseteq Nat
    /\ Loader \in Callers

ASSUME CalendarsAssumption == \A c \in Calendars : IsCalendar(c)

VARIABLES
    now,
    cal,
    bars,         \* open times in the candles table
    ranges,       \* rows of historical_cache_ranges: [start, end]
    load,         \* the load in progress
    bound         \* what is left of the behaviour's scope

cacheVars == <<now, cal, bars, ranges, load, bound>>
historyVars == <<cacheVars, httpVars>>

-----------------------------------------------------------------------------
\* Overlapping and touching intervals become one: it starts where nothing
\* reaches the slot before and ends where nothing holds the slot itself.
MergeIntervals(S) ==
    LET Held(t) == \E i \in S : i.start <= t /\ t < i.end
        starts  == {i.start : i \in {j \in S : ~Held(j.start - 1)}}
        ends    == {i.end : i \in {j \in S : ~Held(j.end)}}
    IN  {[start |-> a, end |-> Min({e \in ends : e > a})] : a \in starts}

\* The parts of [s, e) outside the verified coverage.
Uncovered(rows, s, e) ==
    LET held   == MergeIntervals(rows)
        starts == {a \in {s} \cup {r.end : r \in held} :
                      s <= a /\ a < e /\ ~\E r \in held : r.start <= a /\ a < r.end}
    IN  {[start |-> a, end |-> Min({e} \cup {b \in {r.start : r \in held} : a < b})] : a \in starts}

Recorded(rows, new) == MergeIntervals(rows \cup {r \in new : r.start < r.end})

-----------------------------------------------------------------------------
Aligned(s, e) == {t \in s .. e - 1 : t % BarLen = 0}

\* A bar is kept when it is closed: at its own end, or at the session's when
\* the session cuts the day's last bar short.
Normalize(payload, at) == {t \in payload : EffectiveClose(cal, t, BarLen) <= at}

\* Mutant of ReachesEnd: the last closed bar ends the range, though one still forms.
ReachesEndAtClosed(bar, potential, expected) == bar = Max(expected)

ReachesEnd(bar, potential, expected) == bar = Max(potential)

\* The intervals of a fetched range that its bars prove complete. A run of
\* expected bars that are all present covers them; it may stretch to the
\* range's own ends only where nothing else can be expected.
VerifiedCoverage(present, s, e, at) ==
    LET potential == {t \in Aligned(s, e) : IsOpen(cal, t)}
        expected  == {t \in potential : EffectiveClose(cal, t, BarLen) <= at}
        Run(a, b) == {t \in expected : a <= t /\ t <= b}
        Next(b)   == {t \in expected : t > b}
        Prev(a)   == {t \in expected : t < a}
        Maximal(a, b) ==
            /\ a <= b /\ Run(a, b) \subseteq present
            /\ Next(b) = {} \/ Min(Next(b)) \notin present
            /\ Prev(a) = {} \/ Max(Prev(a)) \notin present
        Covered(a, b) ==
            [start |-> IF Prev(a) = {} THEN s ELSE a,
             end   |-> IF ReachesEnd(b, potential, expected) THEN e ELSE b + BarLen]
    IN  IF potential = {} THEN {[start |-> s, end |-> e]}
        ELSE {Covered(p[1], p[2]) : p \in {q \in expected \X expected : Maximal(q[1], q[2])}}

-----------------------------------------------------------------------------
NoLoad == [pc |-> "idle", start |-> 0, end |-> 0, gaps |-> {}, at |-> 0, got |-> {}]

HistoryInit ==
    /\ HttpInit
    /\ bound \in Scopes /\ now = bound.start
    /\ cal \in Calendars
    /\ bars = {} /\ ranges = {} /\ load = NoLoad

Earliest(gaps) == CHOOSE g \in gaps : \A h \in gaps : g.start <= h.start

\* With no gap left the load returns what the table holds.
Onward(l, gaps) == [l EXCEPT !.gaps = gaps, !.got = {},
                             !.at = IF gaps = {} THEN 0 ELSE Earliest(gaps).start,
                             !.pc = IF gaps = {} THEN "idle" ELSE "fetch"]

\* The gap being filled: they are taken in order.
Gap == Earliest(load.gaps)

StartLoad(len) ==
    /\ load.pc = "idle" /\ bound.loads > 0
    /\ bound' = [bound EXCEPT !.loads = @ - 1]
    /\ load' = Onward([NoLoad EXCEPT !.start = now - len, !.end = now],
                      Uncovered(ranges, now - len, now))
    /\ UNCHANGED <<now, cal, bars, ranges, httpVars>>

ChunkEnd == Min({Gap.end, load.at + MaxDays})

Request ==
    /\ load.pc = "fetch"
    /\ Submit(Loader)
    /\ load' = [load EXCEPT !.pc = "request"]
    /\ UNCHANGED <<now, cal, bars, ranges, bound>>

\* The broker returns some of the chunk's bars, the forming one among them.
Receive(payload) ==
    /\ load.pc = "request" /\ req[Loader].pc = "ok"
    /\ Take(Loader)
    /\ load' = [load EXCEPT !.got = @ \cup Normalize(payload, now), !.at = ChunkEnd,
                            !.pc = IF ChunkEnd < Gap.end THEN "fetch" ELSE "store"]
    /\ UNCHANGED <<now, cal, bars, ranges, bound>>

\* The exception leaves load(): what the earlier gaps stored stays.
Fail ==
    /\ load.pc = "request" /\ req[Loader].pc = "error"
    /\ Take(Loader)
    /\ load' = NoLoad
    /\ UNCHANGED <<now, cal, bars, ranges, bound>>

InGap == {t \in load.got : Gap.start <= t /\ t < Gap.end}

Store ==
    /\ load.pc = "store"
    /\ bars' = bars \cup InGap
    /\ load' = [load EXCEPT !.pc = "record", !.got = InGap]
    /\ UNCHANGED <<now, cal, ranges, bound, httpVars>>

Record ==
    /\ load.pc = "record"
    /\ ranges' = Recorded(ranges, VerifiedCoverage(load.got, Gap.start, Gap.end, now))
    /\ load' = Onward(load, load.gaps \ {Gap})
    /\ UNCHANGED <<now, cal, bars, bound, httpVars>>

\* The process restarts: the tables remain.
Restart ==
    /\ bound.crashes > 0
    /\ bound' = [bound EXCEPT !.crashes = @ - 1]
    /\ load' = NoLoad
    /\ sec' = <<>> /\ min' = <<>> /\ admitted' = <<>>
    /\ req' = [t \in Callers |-> Idle]
    /\ UNCHANGED <<now, cal, bars, ranges>>

-----------------------------------------------------------------------------
OtherRequest(c) ==
    /\ c # Loader /\ bound.others > 0
    /\ Submit(c)
    /\ bound' = [bound EXCEPT !.others = @ - 1]
    /\ UNCHANGED <<now, cal, bars, ranges, load>>

Thread(c) ==
    /\ Acquire(c) \/ Wake(c) \/ Answer(c) \/ (c # Loader /\ Take(c))
    /\ UNCHANGED cacheVars

\* Slots and the limiter's ticks pass together, and ticks when no slot is left.
Time ==
    /\ Elapse
    /\ IF bound.slots > 0 THEN now' = now + 1 /\ bound' = [bound EXCEPT !.slots = @ - 1]
                          ELSE UNCHANGED <<now, bound>>
    /\ UNCHANGED <<cal, bars, ranges, load>>

LoaderStep ==
    \/ Request \/ Fail \/ Store \/ Record
    \/ load.pc = "request" /\ \E payload \in SUBSET Aligned(load.at, ChunkEnd) : Receive(payload)

HistoryStep ==
    \/ \E len \in LoadLens : StartLoad(len)
    \/ LoaderStep
    \/ \E c \in Callers : OtherRequest(c) \/ Thread(c)
    \/ Time

-----------------------------------------------------------------------------
(* A coverage row is a promise that the next start of the program relies on:  *)
(* every bar the calendar expects inside it is in the candles table. It holds *)
(* across partial answers, bars that close during a load, several chunks, and *)
(* a crash between the candles and their coverage.                            *)
CoverageIsStored ==
    \A r \in ranges : {t \in Aligned(r.start, r.end) : IsOpen(cal, t)} \subseteq bars
=============================================================================
