------------------------------ MODULE M1Builder ------------------------------
(***************************************************************************)
(* How one symbol's live minutes are built from ticks and when such a      *)
(* minute is trusted: M1CandleBuilder, the tick buffer of CandlePipeline,  *)
(* and the part of Application that feeds them (packets, feed status, the  *)
(* stall watchdog).  One asyncio thread runs all of it, so an action is a  *)
(* whole callback; only the replay of buffered ticks is a step per tick,   *)
(* with every other action disabled until it ends.                         *)
(*                                                                         *)
(* The clock counts instants, Slots to the minute; a minute is named by    *)
(* its opening instant.  Prices and volumes are left out.                  *)
(***************************************************************************)
EXTENDS Integers, Sequences

CONSTANTS
    Slots,           \* instants in a minute
    StallAfter,      \* feed_stall_seconds, in instants
    MaxTime,         \* bound: the clock stops here
    MaxBuffer,       \* bound: ticks buffered during one recovery
    MaxLag,          \* how far a packet's last-trade time may trail its arrival
    PromptLoop       \* does the flush loop complete a pass at every instant?

ASSUME SlotsAssumption == Slots \in Nat \ {0}
ASSUME BoundsAssumption ==
    /\ StallAfter \in Nat \ {0}
    /\ MaxTime \in Nat /\ MaxBuffer \in Nat /\ MaxLag \in Nat
    /\ PromptLoop \in BOOLEAN

VARIABLES
    now,          \* wall clock
    socket,       \* the feed's socket is up, as the program knows it
    flowing,      \* packets are in fact delivered (FALSE: frozen, unknown to the program)
    lastPacket,   \* Application._last_packet_at
    feedStalled,  \* Application._feed_stalled
    builder,      \* M1CandleBuilder's fields
    recoverDue,   \* recover_all was spawned and has not reached this symbol
    recovering,   \* CandlePipeline.recovering
    recoverEnd,   \* end of the window the recovery in flight asked for
    buffer,       \* CandlePipeline._tick_buffer (trade times)
    replay,       \* buffered ticks end_recovery has yet to replay
    admitted,     \* minutes closed TRUSTED: fed to aggregation
    queued,       \* minutes closed PARTIAL: queued for the broker
    broken,       \* history: minutes inside which the program was told of a loss
    backdated,    \* history: broken minutes put back under coverage by an older trade time
    interrupted   \* history: minutes inside which delivery really froze

feedVars == <<socket, flowing, lastPacket, feedStalled>>
recVars  == <<recoverDue, recovering, recoverEnd, buffer, replay>>
vars == <<now, feedVars, builder, recVars, admitted, queued, broken, backdated, interrupted>>

-----------------------------------------------------------------------------
(* Helpers *)

NoTime  == -1   \* None: before every instant, like the code's "is None or" tests
Instant == 0..MaxTime
Minutes == {m \in Instant : m % Slots = 0}

Floor(t) == t - (t % Slots)

Builder == [open : Minutes \union {NoTime}, trusted : BOOLEAN,
            lastEmitted : Minutes \union {NoTime},
            coverage : Instant \union {NoTime}, stale : BOOLEAN]

\* Python's None tests on _open_time
HasOpen(b) == b.open # NoTime

MinuteTrusted(b, m) == b.coverage # NoTime /\ ~b.stale /\ b.coverage <= m

LoseOpenBucket(b) == IF HasOpen(b) THEN [b EXCEPT !.trusted = FALSE] ELSE b

SetConnected(b, ts) ==
    LET c == [b EXCEPT !.coverage = ts, !.stale = FALSE]
    IN  IF HasOpen(c) /\ c.open < ts THEN LoseOpenBucket(c) ELSE c

\* Mutant of SetDisconnected: coverage ends, the open bucket keeps its trust.
SetDisconnectedKeepsBucket(b) == [b EXCEPT !.coverage = NoTime]
SetDisconnected(b) == LoseOpenBucket([b EXCEPT !.coverage = NoTime])

\* Mutant of SetStale: the flag is set, the open bucket keeps its trust.
SetStaleKeepsBucket(b) == [b EXCEPT !.stale = TRUE]
SetStale(b) == IF b.stale THEN b ELSE LoseOpenBucket([b EXCEPT !.stale = TRUE])

\* Mutant of MarkEmittedUntil: an older broker minute moves the watermark back.
MarkEmittedAnyway(b, m) == [b EXCEPT !.lastEmitted = m, !.open = IF b.open <= m THEN NoTime ELSE @]

MarkEmittedUntil(b, m) ==
    IF m <= b.lastEmitted THEN b
    ELSE [b EXCEPT !.lastEmitted = m, !.open = IF b.open <= m THEN NoTime ELSE @]

\* Mutant of Emit: the watermark stays behind.
EmitWithoutWatermark(b) == [b EXCEPT !.open = NoTime]

\* Closing the open minute: to aggregation when trusted, to the broker otherwise.
Admitted(b) == IF b.trusted THEN admitted \union {b.open} ELSE admitted
Queued(b)   == IF b.trusted THEN queued ELSE queued \union {b.open}
Emit(b)     == [b EXCEPT !.lastEmitted = b.open, !.open = NoTime]

\* The packet that ends a stall restarts coverage at its own trade time.
Resumed(b, ts) == IF b.stale THEN SetConnected(b, ts) ELSE b

\* A bucket opens with the trust its minute has at that moment; a tick of an older
\* minute than the open one is merged into the open bucket.
OpenAt(b, m) ==
    IF HasOpen(b) THEN b ELSE [b EXCEPT !.open = m, !.trusted = MinuteTrusted(b, m)]

ToldOfLoss == broken' = IF now = Floor(now) THEN broken ELSE broken \union {Floor(now)}

-----------------------------------------------------------------------------
Init ==
    /\ now = 0
    /\ socket = FALSE /\ flowing = TRUE /\ lastPacket = NoTime /\ feedStalled = FALSE
    /\ builder = [open |-> NoTime, trusted |-> FALSE, lastEmitted |-> NoTime,
                  coverage |-> NoTime, stale |-> FALSE]
    /\ recoverDue = FALSE /\ recovering = FALSE /\ recoverEnd = NoTime
    /\ buffer = <<>> /\ replay = <<>>
    /\ admitted = {} /\ queued = {} /\ broken = {} /\ backdated = {} /\ interrupted = {}

-----------------------------------------------------------------------------
(* Ticks.  AddTick is M1CandleBuilder.add_tick followed by _on_built. *)

IgnoreLate(b, m) ==
    /\ m <= b.lastEmitted
    /\ builder' = b
    /\ UNCHANGED <<admitted, queued>>

CloseAndOpen(b, m) ==
    /\ m > b.lastEmitted
    /\ HasOpen(b) /\ m > b.open
    /\ builder' = OpenAt(Emit(b), m)
    /\ admitted' = Admitted(b)
    /\ queued' = Queued(b)

Extend(b, m) ==
    /\ m > b.lastEmitted
    /\ ~(HasOpen(b) /\ m > b.open)
    /\ builder' = OpenAt(b, m)
    /\ UNCHANGED <<admitted, queued>>

AddTick(ts) ==
    LET b == Resumed(builder, ts) IN
    /\ IgnoreLate(b, Floor(ts)) \/ CloseAndOpen(b, Floor(ts)) \/ Extend(b, Floor(ts))
    /\ IF builder.stale
       THEN ToldOfLoss /\ backdated' = backdated \union {k \in broken' : ts <= k}
       ELSE UNCHANGED <<broken, backdated>>

\* Application._on_tick, this symbol, no recovery in flight.
LiveTick(ts) ==
    /\ replay = <<>> /\ ~recovering
    /\ socket /\ flowing
    /\ lastPacket' = now
    /\ AddTick(ts)
    /\ feedStalled' = (feedStalled /\ ~builder.stale)   \* _on_feed_resumed
    /\ UNCHANGED <<now, socket, flowing, recVars, interrupted>>

\* Application._on_tick while the pipeline recovers: the tick only waits.
BufferTick(ts) ==
    /\ replay = <<>> /\ recovering
    /\ socket /\ flowing
    /\ Len(buffer) < MaxBuffer
    /\ lastPacket' = now
    /\ buffer' = Append(buffer, ts)
    /\ UNCHANGED <<now, socket, flowing, feedStalled, builder, recoverDue, recovering,
                   recoverEnd, replay, admitted, queued, broken, backdated, interrupted>>

\* Application._on_tick for another symbol on the same feed.
OtherTick ==
    /\ replay = <<>>
    /\ socket /\ flowing
    /\ lastPacket' = now
    /\ feedStalled' = FALSE
    /\ UNCHANGED <<now, socket, flowing, builder, recVars, admitted, queued, broken, backdated,
                   interrupted>>

\* Mutant of FlushDue: the loop looks at connected symbols only.
FlushDueWhenConnected == ~recovering /\ socket /\ HasOpen(builder) /\ now >= builder.open + Slots

\* The flush loop closes the open minute once its end has passed.  The two seconds
\* of grace only delay the step.
FlushDue == ~recovering /\ HasOpen(builder) /\ now >= builder.open + Slots

Flush ==
    /\ replay = <<>> /\ FlushDue
    /\ builder' = Emit(builder)
    /\ admitted' = Admitted(builder)
    /\ queued' = Queued(builder)
    /\ UNCHANGED <<now, feedVars, recVars, broken, backdated, interrupted>>

-----------------------------------------------------------------------------
(* The feed's connection *)

Connect ==
    /\ replay = <<>> /\ ~socket
    /\ socket' = TRUE /\ flowing' = TRUE
    /\ lastPacket' = now /\ feedStalled' = FALSE
    /\ builder' = SetConnected(builder, now)
    /\ recoverDue' = TRUE
    /\ ToldOfLoss
    /\ UNCHANGED <<now, recovering, recoverEnd, buffer, replay, admitted, queued, backdated,
                   interrupted>>

Disconnect ==
    /\ replay = <<>> /\ socket
    /\ socket' = FALSE /\ flowing' = TRUE
    /\ builder' = SetDisconnected(builder)
    /\ ToldOfLoss
    /\ UNCHANGED <<now, lastPacket, feedStalled, recVars, admitted, queued, backdated, interrupted>>

\* Application._feed_watchdog
StallDue == socket /\ ~feedStalled /\ now - lastPacket >= StallAfter

Watchdog ==
    /\ replay = <<>> /\ StallDue
    /\ feedStalled' = TRUE
    /\ builder' = SetStale(builder)
    /\ ToldOfLoss
    /\ UNCHANGED <<now, socket, flowing, lastPacket, recVars, admitted, queued, backdated,
                   interrupted>>

\* The network: delivery freezes behind a live socket, and thaws.
Freeze ==
    /\ replay = <<>> /\ socket /\ flowing
    /\ flowing' = FALSE
    /\ UNCHANGED <<now, socket, lastPacket, feedStalled, builder, recVars, admitted, queued,
                   broken, backdated, interrupted>>

Thaw ==
    /\ replay = <<>> /\ socket /\ ~flowing
    /\ flowing' = TRUE
    /\ UNCHANGED <<now, socket, lastPacket, feedStalled, builder, recVars, admitted, queued,
                   broken, backdated, interrupted>>

-----------------------------------------------------------------------------
(* Reconnect recovery, as far as the builder sees it *)

BeginRecovery ==
    /\ replay = <<>> /\ recoverDue
    /\ recoverDue' = FALSE
    /\ ~recovering
    /\ recovering' = TRUE /\ recoverEnd' = Floor(now)
    /\ UNCHANGED <<now, feedVars, builder, buffer, replay, admitted, queued, broken, backdated,
                   interrupted>>

\* recover() finds a recovery in flight, or nothing to fetch
SkipRecovery ==
    /\ replay = <<>> /\ recoverDue
    /\ recoverDue' = FALSE
    /\ UNCHANGED <<now, feedVars, builder, recovering, recoverEnd, buffer, replay, admitted,
                   queued, broken, backdated, interrupted>>

\* The answer arrived: its last broker minute (if any) advances the builder, then the
\* buffered ticks are replayed.
EndRecovery(last) ==
    /\ recovering
    /\ last < recoverEnd
    /\ builder' = MarkEmittedUntil(builder, last)
    /\ recovering' = FALSE /\ recoverEnd' = NoTime
    /\ replay' = buffer /\ buffer' = <<>>
    /\ UNCHANGED <<now, feedVars, recoverDue, admitted, queued, broken, backdated, interrupted>>

ReplayTick ==
    /\ replay # <<>>
    /\ AddTick(Head(replay))
    /\ replay' = Tail(replay)
    /\ UNCHANGED <<now, feedVars, recoverDue, recovering, recoverEnd, buffer, interrupted>>

\* verify_m1: the broker's bar for a closed minute that was queued, silent, or missing
\* from a recovery
Verify(m) ==
    /\ replay = <<>>
    /\ m \notin admitted /\ m + Slots <= now
    /\ builder' = MarkEmittedUntil(builder, m)
    /\ UNCHANGED <<now, feedVars, recVars, admitted, queued, broken, backdated, interrupted>>

-----------------------------------------------------------------------------
ClockTick ==
    /\ replay = <<>> /\ now < MaxTime
    /\ PromptLoop => ~FlushDue /\ ~StallDue
    /\ now' = now + 1
    /\ interrupted' = IF socket /\ ~flowing THEN interrupted \union {Floor(now)} ELSE interrupted
    /\ UNCHANGED <<feedVars, builder, recVars, admitted, queued, broken, backdated>>

Packet(ts) == LiveTick(ts) \/ BufferTick(ts)

TradeTimes == {t \in Instant : now - MaxLag <= t /\ t <= now}

Next ==
    \/ \E ts \in TradeTimes : Packet(ts)
    \/ OtherTick \/ Flush
    \/ Connect \/ Disconnect \/ Watchdog \/ Freeze \/ Thaw
    \/ BeginRecovery \/ SkipRecovery \/ ReplayTick
    \/ \E last \in Minutes \union {NoTime} : EndRecovery(last)
    \/ \E m \in Minutes : Verify(m)
    \/ ClockTick

Spec == Init /\ [][Next]_vars

\* The clock runs (a replay takes no time, it only hides ClockTick from this model for
\* its length), a replay cannot stop half-way and a recovery's fetch returns (it has
\* timeouts and a last attempt).  The flush loop is supervised and runs every second for
\* ever; strong fairness, because a pass that meets a recovery in flight returns early
\* and the socket may drop and reconnect for ever, but not at every single pass.
Fairness ==
    /\ SF_vars(ClockTick) /\ SF_vars(Flush) /\ WF_vars(ReplayTick)
    /\ WF_vars(\E last \in Minutes \union {NoTime} : EndRecovery(last))

FairSpec == Spec /\ Fairness

-----------------------------------------------------------------------------
(* Properties *)

\* Every field keeps the type its Python annotation gives it: minutes are named by
\* their opening instant, trade times never lie in the future.
TypeOK ==
    /\ now \in Instant
    /\ socket \in BOOLEAN /\ flowing \in BOOLEAN /\ feedStalled \in BOOLEAN
    /\ lastPacket \in Instant \union {NoTime}
    /\ builder \in Builder
    /\ recoverDue \in BOOLEAN /\ recovering \in BOOLEAN
    /\ recoverEnd \in Minutes \union {NoTime}
    /\ buffer \in Seq(Instant) /\ replay \in Seq(Instant)
    /\ admitted \in SUBSET Minutes /\ queued \in SUBSET Minutes
    /\ broken \in SUBSET Minutes /\ backdated \in SUBSET Minutes
    /\ interrupted \in SUBSET Minutes

\* A minute inside which the program itself was told of a connect, a disconnect, a stall
\* or a resume is handed to aggregation as a trusted live bar for one reason only: the
\* packet that ended a stall carried a trade time at or before the minute, so coverage
\* restarted before the loss (a lagging packet, or one that waited in the recovery
\* buffer).  Every other order of callbacks, ticks, replays and flush passes keeps it out.
TrustedMinutesUnbroken == admitted \intersect broken \subseteq backdated

\* README: no minute with a loss inside it is trusted.  The excepted packets break this.
TrustedMinutesWhole == admitted \intersect broken = {}

\* A minute handed over (to aggregation or to the broker queue) is never open again, so
\* a late tick, a buffered tick or a broker bar cannot make the builder close it twice.
NeverReopened ==
    /\ builder.open \notin admitted \union queued
    /\ admitted \intersect queued = {}

\* While the watchdog has latched a stall and the silence lasts, the open minute is not
\* trusted.  A tick replayed from the recovery buffer ends the builder's stall and leaves
\* the latch set, which breaks this.
StallIsNeverMissed ==
    (socket /\ feedStalled /\ now - lastPacket >= StallAfter)
        => ~(HasOpen(builder) /\ builder.trusted)

\* README: a locally built minute never enters analysis when continuity was lost inside
\* it; here, when delivery really was frozen for some instant of the minute.
NoTrustAcrossFreeze == admitted \intersect interrupted = {}

\* An open minute whose end the clock can reach is closed: by the flush loop, a later
\* tick or a broker bar.
OpenMinuteCloses ==
    \A m \in Minutes : m + Slots <= MaxTime => (builder.open = m ~> builder.open # m)

Stream == INSTANCE MinuteStream
    WITH live <- admitted, toBroker <- queued, last <- builder.lastEmitted

\* The builder implements MinuteStream: minutes are decided at most once and in
\* chronological order, whatever late, buffered or broker data comes in between.
StreamOfMinutes == Stream!Spec
=============================================================================
