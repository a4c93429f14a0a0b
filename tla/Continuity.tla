------------------------------ MODULE Continuity ------------------------------
(***************************************************************************)
(* The application around one symbol's pipeline: unresolved minutes and    *)
(* gaps become continuity incidents (IncidentTracker, stored in SQLite),   *)
(* which the scheduler verifies and repairs by fetches that leave the      *)
(* event loop, and the symbol's health state says whether its data can be  *)
(* trusted.  Trading days end, the process crashes and restarts.           *)
(*                                                                         *)
(* Of an operation, what runs up to its await is one action and what runs  *)
(* after it another; every other callback may come in between.  A retry    *)
(* delay is the time an incident spends outside book.due.                  *)
(***************************************************************************)
EXTENDS CandlePipeline

CONSTANTS
    DayEnd,       \* the last minute of the first trading day; the second one follows
    MaxCrashes,   \* bound: crashes of the process
    MayBeQuiet    \* may housekeeping see a symbol without a tick for 90 seconds?

ASSUME DayAssumption == DayEnd \in Minutes /\ MaxCrashes \in Nat /\ MayBeQuiet \in BOOLEAN

VARIABLES
    up,        \* does the process run?
    book,      \* IncidentTracker and its table: incidents open in memory, those of them due,
               \* the stored rows, and how often each incident was ended (history, capped)
    health,    \* the symbol's SymbolHealth.state
    spawned,   \* coroutines created and not started
    attempt,   \* the verification in flight: whether there is one, its incidents, the minutes asked for
    repairing, \* the repair in flight: the places in pipe.gaps its loop has left, the first being fetched
    crashes

appVars == <<up, book, health, spawned, attempt, repairing, crashes>>
contVars == <<vars, appVars>>

-----------------------------------------------------------------------------
(* Incidents are named by the minute or the bucket they are about. *)

Keys == {Bar(tf, o) : tf \in Timeframes \union {M1}, o \in Minutes}
IsMinute(k) == k.tf = M1
MinuteKeys(S) == {Bar(M1, m) : m \in S}
GapKeys(p) == {GapAt(p, i) : i \in Unresolved(p)}

Day(m) == IF m <= DayEnd THEN 1 ELSE 2
Relevant(k) == Day(k.open) >= Day(now)

OpenOne(b, k) ==
    IF k \in b.open THEN b
    ELSE [b EXCEPT !.open = @ \union {k}, !.due = @ \union {k}, !.rows[k] = "OPEN"]
OpenAll(b, K) == [b EXCEPT !.open = @ \union K, !.due = @ \union (K \ b.open),
                           !.rows = [k \in Keys |-> IF k \in K THEN "OPEN" ELSE @[k]]]

\* resolve and abandon: an incident no longer open is left alone.
End(b, K, how) ==
    LET E == K \intersect b.open
    IN  [b EXCEPT !.open = @ \ E, !.due = @ \ E,
                  !.rows = [k \in Keys |-> IF k \in E THEN how ELSE @[k]],
                  !.ended = [k \in Keys |-> IF k \in E /\ @[k] < 2 THEN @[k] + 1 ELSE @[k]]]

\* Mutant of Failed: the incident is dropped from memory, its row stays open.
FailedDrops(b, K) == [b EXCEPT !.due = @ \ K, !.open = @ \ K]

\* attempt_failed: the next retry lies in the future.
Failed(b, K) == [b EXCEPT !.due = @ \ K]

-----------------------------------------------------------------------------
(* The world a callback works on: pipeline, book, health and spawned coroutines. *)

World == [pipe |-> pipe, book |-> book, health |-> health, spawned |-> spawned]

Becomes(w) ==
    /\ pipe' = w.pipe /\ book' = w.book /\ health' = w.health /\ spawned' = w.spawned
    /\ HasReturned(w.pipe)

Idle == [on |-> FALSE, incs |-> {}, asked |-> {}]

DueWork(b) ==
    {op \in {"verify"} : ~attempt.on /\ \E k \in b.due : IsMinute(k)}
        \union {op \in {"repair"} : repairing = {} /\ \E k \in b.due : ~IsMinute(k)}

\* Mutants of ContinuityTick: an abandoned minute stays pending, or nothing is abandoned.
TickKeepsMinute(w, recovers) ==
    LET b == End(w.book, {k \in w.book.open : ~Relevant(k)}, "ABANDONED")
    IN  [w EXCEPT !.book = b, !.spawned = @ \union (IF recovers THEN {} ELSE DueWork(b))]

TickNeverAbandons(w, recovers) ==
    [w EXCEPT !.spawned = @ \union (IF recovers THEN {} ELSE DueWork(w.book))]

\* _continuity_tick: incidents of a day that is over are abandoned, due ones retried.
ContinuityTick(w, recovers) ==
    LET over == {k \in w.book.open : ~Relevant(k)}
        b    == End(w.book, over, "ABANDONED")
    IN  [w EXCEPT !.book = b,
                  !.pipe.pending = {m \in @ : Bar(M1, m) \notin over},
                  !.spawned = @ \union (IF recovers THEN {} ELSE DueWork(b))]

\* The pipeline became q and called on_pending and on_gap on the way; look is the state
\* the reason of the pending minute calls for.
Notified(w, q, look, recovers) ==
    LET minutes == MinuteKeys(q.pending \ w.pipe.pending)
        gaps    == {GapAt(q, i) : i \in (Len(w.pipe.gaps) + 1)..Len(q.gaps)}
        state   == IF gaps # {} THEN "ERROR"
                   ELSE IF minutes # {} /\ w.health \in {"LIVE", "STALE"} THEN look
                   ELSE w.health
        told    == [pipe |-> q, book |-> OpenAll(w.book, minutes \union gaps), health |-> state,
                    spawned |-> w.spawned \union {op \in {"repair"} : gaps # {}}]
    IN  IF minutes = {} THEN told ELSE ContinuityTick(told, recovers)

\* _sync_incidents
Synced(w) ==
    LET gone == {k \in w.book.open : IF IsMinute(k)
                                     THEN k.open \in w.pipe.seen \ w.pipe.pending
                                     ELSE k \notin GapKeys(w.pipe)}
    IN  [w EXCEPT !.book = End(@, gone, "RESOLVED")]

CurrentPartial(p) == p.coverage = now + 1 /\ now \notin p.seen

\* Mutant of Settled: only gaps count against continuity.
SettledByGaps(w, recovered, aged) ==
    LET s == Synced(w)
        state == IF recovered /\ ~s.pipe.suspended
                 THEN IF CurrentPartial(s.pipe) THEN "RECOVERING_GAP"
                      ELSE IF s.pipe.stale THEN "STALE" ELSE "LIVE"
                 ELSE IF recovered THEN aged ELSE "ERROR"
    IN  [s EXCEPT !.health = state]

\* _settle_symbol_state; aged is what the age of the oldest incident calls for.
Settled(w, recovered, aged) ==
    LET s == Synced(w)
        p == s.pipe
        onlyCurrent == recovered /\ Unresolved(p) = {} /\ p.pending # {} /\ \A m \in p.pending : m >= now
        state == IF recovered /\ ContinuityOk(p)
                 THEN IF CurrentPartial(p) THEN "RECOVERING_GAP"
                      ELSE IF p.stale THEN "STALE" ELSE "LIVE"
                 ELSE IF onlyCurrent THEN "RECOVERING_GAP"
                 ELSE IF ~recovered THEN "ERROR"
                 ELSE IF s.book.open = {} THEN "RECOVERING_GAP" ELSE aged
    IN  [s EXCEPT !.health = state]

Looks == {"STALE", "RECOVERING_GAP"}
Ages  == {"RECOVERING_GAP", "DEGRADED", "ERROR"}

-----------------------------------------------------------------------------
CInit ==
    /\ Init
    /\ up = TRUE
    /\ book = [open |-> {}, due |-> {}, rows |-> [k \in Keys |-> "none"],
               ended |-> [k \in Keys |-> 0]]
    /\ health = "LIVE" /\ spawned = {}
    /\ attempt = Idle /\ repairing = {}
    /\ crashes = 0

unchangedApp == UNCHANGED <<up, attempt, repairing, crashes>>

\* Application._on_tick: the packet that ends a stall settles the symbol's state.
OnTick(look, aged) ==
    LET w == Notified(World, AddTick(pipe, now), look, FALSE) IN
    /\ up /\ ~Waits /\ pipe.coverage # None
    /\ ticked' = TRUE
    /\ IF Recovering
       THEN buffered' = buffered \union {now} /\ UNCHANGED <<pipe, book, health, spawned>>
       ELSE /\ Becomes(IF pipe.stale THEN Settled(w, TRUE, aged) ELSE w)
            /\ UNCHANGED buffered
    /\ unchangedApp /\ UNCHANGED <<now, passed, recoverDue, recovery, faults>>

OnStall ==
    /\ up /\ Stall
    /\ health' = IF health = "LIVE" THEN "STALE" ELSE health
    /\ unchangedApp /\ UNCHANGED <<book, spawned>>

OnDisconnect == up /\ Disconnect /\ UNCHANGED appVars

OnConnect == up /\ Connect /\ UNCHANGED appVars

MinuteEnds ==
    /\ IF up THEN EndMinute
       ELSE /\ now < LastMinute /\ now' = now + 1
            /\ UNCHANGED <<pipe, ticked, passed, recoverDue, recovery, buffered, faults>>
    /\ UNCHANGED appVars

\* One pass of _flush_loop.
Flushed(look) ==
    ContinuityTick(IF Recovering THEN World ELSE Notified(World, FlushAt(pipe), look, FALSE),
                   Recovering)

FlushLoop(look) ==
    /\ up /\ ~Waits
    /\ Becomes(Flushed(look))
    /\ passed' = TRUE
    /\ unchangedApp /\ UNCHANGED <<now, ticked, recoverDue, recovery, buffered, faults>>

\* _stale_check: connected, and no tick for 90 seconds
StaleCheck ==
    /\ up /\ MayBeQuiet /\ pipe.coverage # None /\ ~ticked /\ health = "LIVE"
    /\ health' = "STALE"
    /\ unchangedApp /\ UNCHANGED <<vars, book, spawned>>

\* The backoff of an incident has elapsed.
RetryComesDue(k) ==
    /\ up /\ k \in book.open \ book.due
    /\ book' = [book EXCEPT !.due = @ \union {k}]
    /\ unchangedApp /\ UNCHANGED <<vars, health, spawned>>

-----------------------------------------------------------------------------
(* verify(), around its await *)

VerifyStart(aged) ==
    LET w == [World EXCEPT !.spawned = @ \ {"verify"}] IN
    /\ up /\ "verify" \in spawned
    /\ \/ attempt.on /\ Becomes(w) /\ UNCHANGED attempt
       \/ /\ ~attempt.on /\ ClosedPending = {}
          /\ Becomes(Settled(w, TRUE, aged)) /\ UNCHANGED attempt
       \/ /\ ~attempt.on /\ ClosedPending # {}
          /\ Becomes(w)
          /\ attempt' = [on |-> TRUE, incs |-> {k \in book.open : IsMinute(k) /\ k.open < now},
                         asked |-> {m \in 0..(now - 1) : /\ \E c \in ClosedPending : c - 1 <= m
                                                         /\ \E c \in ClosedPending : m <= c + 1}]
    /\ UNCHANGED <<up, repairing, crashes, now, ticked, passed, recoverDue, recovery, buffered, faults>>

\* The answer holds the broker's bars of got; none of them when the fetch failed.
VerifyEnd(got, look, aged) ==
    LET w == Notified(World, Ascending(VerifyMinute, pipe, got), look, Recovering)
        b == Failed(End(w.book, MinuteKeys(got), "RESOLVED"),
                    attempt.incs \intersect MinuteKeys(w.pipe.pending))
    IN
    /\ up /\ attempt.on
    /\ got \subseteq attempt.asked
    /\ Becomes(Settled([w EXCEPT !.book = b], TRUE, aged))
    /\ attempt' = Idle
    /\ UNCHANGED <<up, repairing, crashes, now, ticked, passed, recoverDue, recovery, buffered, faults>>

-----------------------------------------------------------------------------
(* repair(): one await for each gap of its loop *)

RepairStart(aged) ==
    LET w == [World EXCEPT !.spawned = @ \ {"repair"}] IN
    /\ up /\ "repair" \in spawned
    /\ \/ repairing # {} /\ Becomes(w) /\ UNCHANGED repairing
       \/ /\ repairing = {} /\ Unresolved(pipe) = {}
          /\ Becomes(Settled(w, TRUE, aged)) /\ UNCHANGED repairing
       \/ /\ repairing = {} /\ Unresolved(pipe) # {}
          /\ Becomes([w EXCEPT !.book = OpenOne(@, Oldest)])
          /\ repairing' = Unresolved(pipe)
    /\ UNCHANGED <<up, attempt, crashes, now, ticked, passed, recoverDue, recovery, buffered, faults>>

\* The answer for the first gap of the loop: the broker's bar, none, or an exception.
RepairEnd(answer, look, aged) ==
    LET i     == FirstOf(repairing)
        k     == GapAt(pipe, i)
        late  == answer # "raised" /\ pipe.gaps[i].resolved
        fixed == answer = "bar" /\ ~pipe.gaps[i].resolved /\ k.tf \in Downloadable
        q     == IF fixed THEN Notified(World, Returned(Repair(pipe, k)), look, Recovering) ELSE World
        w     == [q EXCEPT !.book = IF late \/ fixed THEN End(@, {k}, "RESOLVED") ELSE Failed(@, {k})]
        rest  == repairing \ {i}
    IN
    /\ up /\ repairing # {}
    /\ IF (late \/ fixed) /\ rest # {}
       THEN repairing' = rest /\ Becomes([w EXCEPT !.book = OpenOne(@, GapAt(pipe, FirstOf(rest)))])
       ELSE repairing' = {} /\ Becomes(Settled(w, TRUE, aged))
    /\ UNCHANGED <<up, attempt, crashes, now, ticked, passed, recoverDue, recovery, buffered, faults>>

-----------------------------------------------------------------------------
(* recover(), around its await *)

RecoverStart(aged) ==
    /\ up /\ recoverDue
    /\ \/ BeginRecovery /\ health' = "RECOVERING_GAP" /\ UNCHANGED <<book, spawned>>
       \/ /\ SkipRecovery
          /\ IF Recovering THEN UNCHANGED <<book, health, spawned>>
             ELSE LET w == Settled(World, TRUE, aged)
                  IN  book' = w.book /\ health' = w.health /\ UNCHANGED spawned
    /\ unchangedApp

\* The minutes fetched are fed, those the broker did not return are pending, the buffered
\* ticks are replayed.
RecoverEnd(got, answer, look, aged) ==
    LET fed    == Ascending(RecoverMinute, pipe, got)
        marked == IF answer = "raised" THEN fed ELSE Ascending(MarkPending, fed, Window \ got)
        ok     == answer = "bars" /\ Window \ got \subseteq fed.seen
        w      == Notified(World, marked, look, TRUE)
        v      == Notified(w, Ascending(AddTick, w.pipe, buffered), look, FALSE)
    IN
    /\ up /\ Recovering
    /\ answer # "bars" => got = {}
    /\ Becomes(Settled(v, ok, aged))
    /\ recovery' = NoWindow /\ buffered' = {}
    /\ unchangedApp /\ UNCHANGED <<now, ticked, passed, recoverDue, faults>>

-----------------------------------------------------------------------------
(* The process *)

Crash ==
    /\ up /\ crashes < MaxCrashes
    /\ up' = FALSE /\ crashes' = crashes + 1
    /\ pipe' = NewPipe
    /\ book' = [book EXCEPT !.open = {}, !.due = {}]
    /\ health' = "WARMING" /\ spawned' = {} /\ attempt' = Idle /\ repairing' = {}
    /\ ticked' = FALSE /\ passed' = FALSE
    /\ recoverDue' = FALSE /\ recovery' = NoWindow /\ buffered' = {}
    /\ UNCHANGED <<now, faults>>

\* The bars of S, the earliest first.
Chronological(S) ==
    LET taken[n \in 0..Cardinality(S)] ==
            IF n = 0 THEN [left |-> S, bars |-> <<>>]
            ELSE LET t == taken[n-1]
                 IN  [left |-> t.left \ {Earliest(t.left)}, bars |-> Append(t.bars, Earliest(t.left))]
    IN  taken[Cardinality(S)].bars

\* Startup with history up to the primary bar h: incidents stored as open come back, the
\* minutes of a day that is over are abandoned.
Restart(h) ==
    LET stored == {k \in Keys : book.rows[k] = "OPEN"}
        over   == {k \in stored : IsMinute(k) /\ ~Relevant(k)}
        gaps   == Chronological({k \in stored : ~IsMinute(k)})
        end    == IF h = None THEN None ELSE h + Size[Primary] - 1
    IN
    /\ ~up /\ up' = TRUE
    /\ h # None => Bucket(Primary, h) = h /\ end < now
    /\ book' = End([book EXCEPT !.open = stored, !.due = stored], over, "ABANDONED")
    /\ pipe' = [NewPipe EXCEPT !.pending = {k.open : k \in {k \in stored \ over : IsMinute(k)}},
                               !.gaps = [i \in DOMAIN gaps |->
                                   [tf |-> gaps[i].tf, open |-> gaps[i].open, resolved |-> FALSE]],
                               !.suspended = gaps # <<>>,
                               !.lastM1 = end, !.lastClosed[Primary] = h, !.agg[Primary].emitted = h]
    /\ UNCHANGED <<now, ticked, passed, recoverDue, recovery, buffered, faults,
                   health, spawned, attempt, repairing, crashes>>

CNext ==
    \/ \E look \in Looks, aged \in Ages :
           \/ OnTick(look, aged)
           \/ \E got \in SUBSET ClosedPending : VerifyEnd(got, look, aged)
           \/ \E answer \in {"bar", "none", "raised"} : RepairEnd(answer, look, aged)
           \/ \E got \in SUBSET Window, answer \in {"bars", "error", "raised"} :
                  RecoverEnd(got, answer, look, aged)
    \/ \E aged \in Ages : VerifyStart(aged) \/ RepairStart(aged) \/ RecoverStart(aged)
    \/ \E look \in Looks : FlushLoop(look)
    \/ OnStall \/ OnDisconnect \/ OnConnect \/ MinuteEnds \/ StaleCheck
    \/ \E k \in Keys : RetryComesDue(k)
    \/ Crash
    \/ \E h \in Minutes \union {None} : Restart(h)

CSpec == CInit /\ [][CNext]_contVars

\* The clock runs, a crashed process is restarted, the flush loop passes every second, a
\* spawned recovery starts, and the feed reconnects.  The loop is fair for passes that
\* change something.  The market trades: minutes without a packet are bounded (MaxFaults).
PassDue == up /\ ~Waits /\ (~passed \/ \E look \in Looks : Flushed(look) # World)
TradeDue == up /\ ~Waits /\ pipe.coverage # None /\ ~ticked

Fairness ==
    /\ WF_contVars(MinuteEnds)
    /\ WF_contVars(Restart(None))
    /\ WF_contVars(OnConnect)
    /\ <>[]PassDue => []<><<\E look \in Looks : FlushLoop(look)>>_contVars
    /\ <>[]TradeDue => []<><<\E look \in Looks, aged \in Ages : OnTick(look, aged)>>_contVars
    /\ <>[]recoverDue => []<><<\E aged \in Ages : RecoverStart(aged)>>_contVars

FairCSpec == CSpec /\ Fairness

-----------------------------------------------------------------------------
(* Properties *)

\* Every field of the application keeps its type; what is due is open.
AppTypeOK ==
    /\ TypeOK
    /\ up \in BOOLEAN /\ crashes \in 0..MaxCrashes
    /\ book.open \subseteq Keys /\ book.due \subseteq book.open
    /\ book.rows \in [Keys -> {"none", "OPEN", "RESOLVED", "ABANDONED"}]
    /\ book.ended \in [Keys -> 0..2]
    /\ health \in {"WARMING", "LIVE", "RECOVERING_GAP", "STALE", "DEGRADED", "ERROR"}
    /\ spawned \subseteq {"verify", "repair"}
    /\ attempt.on \in BOOLEAN /\ attempt.incs \subseteq Keys /\ attempt.asked \subseteq Minutes
    /\ repairing \subseteq DOMAIN pipe.gaps

\* Every minute that waits for the broker has an open incident, so the scheduler retries
\* it: no order of callbacks, answers, day ends and restarts leaves one waiting in silence.
PendingIsTracked == up => MinuteKeys(pipe.pending) \subseteq book.open

\* The stored incidents and those in memory agree at every step of a running process, so
\* a crash at any moment forgets none.
StoredAsHeld == up => book.open = {k \in Keys : book.rows[k] = "OPEN"}

\* README: the symbol is LIVE only when continuity is verified.
LiveMeansContinuous == health = "LIVE" => ContinuityOk(pipe)

\* Incidents end RESOLVED or ABANDONED: one of a day that is over does not stay open.
IncidentsEnd == \A k \in Keys : Day(k.open) = 1 => (book.rows[k] = "OPEN" ~> book.rows[k] # "OPEN")

\* Incidents are never deleted, they end RESOLVED or ABANDONED: each of them once.
EndsOnce == \A k \in Keys : book.ended[k] < 2

\* Retries continue in every state: a gap that suspends delivery has an open incident.
SuspensionIsRetried == up => GapKeys(pipe) \subseteq book.open

\* Retries follow the backoff, without a busy loop: a gap is not asked for before its
\* incident is due again.
RetriesWait ==
    [][\A k \in book.open \ book.due :
           (repairing = {} /\ repairing' # {}) => GapAt(pipe', FirstOf(repairing')) # k]_contVars

\* STALE: connected, but no packet for too long.  With packets arriving on a healthy feed
\* and nothing left to verify, the symbol is not STALE.
StaleMeansQuiet ==
    (up /\ health = "STALE" /\ ContinuityOk(pipe) /\ ~pipe.stale /\ ~Recovering) => ~ticked
=============================================================================
