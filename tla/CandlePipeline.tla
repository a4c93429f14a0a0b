---------------------------- MODULE CandlePipeline ----------------------------
(***************************************************************************)
(* One symbol's CandlePipeline: closed minutes go to the primary timeframe  *)
(* (M5) and on to the higher ones through completeness-aware aggregators;   *)
(* incomplete buckets become gaps that suspend delivery, the broker's bars  *)
(* verify minutes and repair gaps, and a reconnect backfills what was       *)
(* missed.  All of it runs on one event loop, so an action is a whole       *)
(* callback, and the pipeline is one record the methods pass along.         *)
(*                                                                         *)
(* Time counts minutes, all of them in an open session; a bar is named by  *)
(* its timeframe and opening minute.  Prices and volumes are left out.      *)
(***************************************************************************)
EXTENDS Integers, Sequences, FiniteSets, TLC

CONSTANTS
    M1, Primary,      \* the minute and the primary timeframe
    Higher,           \* the timeframes above, shortest first (CandlePipeline.higher)
    Source, Size,     \* what each timeframe is built from, and its length in minutes
    Downloadable,     \* timeframes the broker serves (H4 is not one)
    LastMinute,       \* bound: the clock stops here
    MaxCalls,         \* bound: calls of one method on the others before it returns
    Kinds, MaxFaults, \* bound: which faults of the feed happen, and how many
    BrokerInOrder,    \* does the broker publish minutes in order?
    PromptLoop,       \* does the flush loop pass in every minute?
    RecoveryMayWait   \* may a recovery start after later ticks (another symbol's comes first)?

Timeframes == {Primary} \union {Higher[i] : i \in DOMAIN Higher}

ASSUME TimeframesAssumption ==
    /\ Higher \in Seq({Higher[i] : i \in DOMAIN Higher})
    /\ M1 \notin Timeframes /\ Source[Primary] = M1 /\ Size[M1] = 1
    /\ \A tf \in Timeframes : Size[tf] \in Nat \ {0}
    /\ \A i \in DOMAIN Higher : /\ Source[Higher[i]] \in Timeframes \ {Higher[i]}
                                /\ Size[Higher[i]] % Size[Source[Higher[i]]] = 0
    /\ \A i, j \in DOMAIN Higher : i < j => Size[Higher[i]] < Size[Higher[j]]
ASSUME BoundsAssumption == LastMinute \in Nat /\ MaxCalls \in Nat
ASSUME FaultsAssumption == Kinds \subseteq {"blip", "stall", "silent", "drop"} /\ MaxFaults \in Nat

VARIABLES
    now,         \* the minute in progress
    pipe,        \* the CandlePipeline object
    ticked,      \* did a packet arrive in this minute?
    passed,      \* did the flush loop pass in this minute?
    recoverDue,  \* recover_all was spawned and has not reached this symbol
    recovery,    \* the window of the recovery in flight, or NoWindow
    buffered,    \* CandlePipeline._tick_buffer: the minutes of its ticks
    faults       \* faults of the feed so far

vars == <<now, pipe, ticked, passed, recoverDue, recovery, buffered, faults>>

-----------------------------------------------------------------------------
None == -1
Minutes == 0..LastMinute
NoWindow == [from |-> None, to |-> None]
NoBucket == [open |-> None, have |-> {}]

Bar(tf, o) == [tf |-> tf, open |-> o]
Later(s, t) == IF s > t THEN s ELSE t

\* The earliest bar of S, the shortest of those that open together.
Earliest(S) ==
    CHOOSE b \in S : \A c \in S :
        b.open < c.open \/ (b.open = c.open /\ Size[b.tf] <= Size[c.tf])

\* Applies Op to p once for each minute of S, earliest first.
Ascending(Op(_, _), p, S) ==
    LET upTo[n \in 0..(LastMinute + 1)] ==
            IF n = 0 THEN p
            ELSE IF n - 1 \in S THEN Op(upTo[n-1], n - 1) ELSE upTo[n-1]
    IN  upTo[LastMinute + 1]

-----------------------------------------------------------------------------
(* TimeframeAggregator, with the timeframe it builds *)

Bucket(tf, t) == t - (t % Size[tf])
Expected(tf, o) == {t \in o..(o + Size[tf] - 1) : t % Size[Source[tf]] = 0}
\* Mutant of Complete: the last constituent decides.
CompleteByLast(tf, b) == b.open + Size[tf] - Size[Source[tf]] \in b.have
Complete(tf, b) == b.have = Expected(tf, b.open)
Result(tf, b) == [tf |-> tf, open |-> b.open, complete |-> Complete(tf, b)]

EmitBucket(a, tf) ==
    [a EXCEPT !.bucket = NoBucket, !.emitted = a.bucket.open,
              !.gapBuckets = IF Complete(tf, a.bucket) THEN @ ELSE @ \union {a.bucket}]

\* add: the aggregator afterwards and the 0..2 buckets the constituent closed.
Add(a, tf, t) ==
    LET o      == Bucket(tf, t)
        closes == a.bucket.open # None /\ o > a.bucket.open
        fresh  == IF closes THEN EmitBucket(a, tf) ELSE a
        b      == [open |-> o, have |-> fresh.bucket.have \union {t}]
        older  == IF closes THEN <<Result(tf, a.bucket)>> ELSE <<>>
        held   == [fresh EXCEPT !.bucket = b]
    IN  IF o <= a.emitted \/ (a.bucket.open # None /\ o < a.bucket.open)
        THEN [agg |-> a, results |-> <<>>]
        ELSE IF Complete(tf, b)
        THEN [agg |-> EmitBucket(held, tf), results |-> Append(older, Result(tf, b))]
        ELSE [agg |-> held, results |-> older]

\* try_complete_gap: the gap bucket that t completes, t included; or nothing.
LateBuckets(a, tf, t) ==
    {b \in a.gapBuckets : b.open = Bucket(tf, t) /\ t \in Expected(tf, b.open) \ b.have}
WithLate(a, tf, t) ==
    LET b == CHOOSE b \in LateBuckets(a, tf, t) : TRUE
        c == [b EXCEPT !.have = @ \union {t}]
    IN  [a EXCEPT !.gapBuckets = (@ \ {b}) \union (IF Complete(tf, c) THEN {} ELSE {c})]
CompletesLate(a, tf, t) ==
    \E b \in LateBuckets(a, tf, t) : b.have \union {t} = Expected(tf, b.open)

-----------------------------------------------------------------------------
(* Dispatch, gaps and repair.  A bar may complete a higher bucket, and a late one may *)
(* complete a bucket already closed as a gap, so these methods call each other.       *)
(* p.calls is what they have yet to call, the next call first.                        *)

Before(p, calls) == [p EXCEPT !.calls = calls \o @]

GapAt(p, i) == Bar(p.gaps[i].tf, p.gaps[i].open)
Unresolved(p) == {i \in DOMAIN p.gaps : ~p.gaps[i].resolved}
FirstOf(places) == CHOOSE i \in places : \A j \in places : i <= j
ContinuityOk(p) == ~p.suspended /\ Unresolved(p) = {} /\ p.pending = {}

\* The aggregators that still have to be offered a bar.
Offering(bar, to) == IF to = {} THEN <<>> ELSE <<[do |-> "offer", bar |-> bar, to |-> to]>>

\* Mutant of Dispatch: the primary watermark stands for every timeframe.
DispatchOneWatermark(p, bar) ==
    IF bar.open <= p.lastClosed[Primary] THEN p
    ELSE Before([p EXCEPT !.lastClosed[bar.tf] = bar.open, !.delivered = @ \union {bar}],
                Offering(bar, {tf \in Timeframes : Source[tf] = bar.tf}))

\* Never twice or backwards.
Dispatch(p, bar) ==
    IF bar.open <= p.lastClosed[bar.tf] THEN p
    ELSE Before([p EXCEPT !.lastClosed[bar.tf] = bar.open, !.delivered = @ \union {bar}],
                Offering(bar, {tf \in Timeframes : Source[tf] = bar.tf}))

FoundGap(p, r) ==
    [p EXCEPT !.gaps = Append(@, [tf |-> r.tf, open |-> r.open, resolved |-> FALSE]),
              !.suspended = TRUE]

\* Mutant of Handle: a complete bar found while suspended goes out at once.
HandleAtOnce(p, r) ==
    IF ~r.complete THEN FoundGap(p, r) ELSE Dispatch(p, Bar(r.tf, r.open))

Handle(p, r) ==
    IF ~r.complete THEN FoundGap(p, r)
    ELSE IF p.suspended THEN [p EXCEPT !.deferred = @ \union {Bar(r.tf, r.open)}]
    ELSE Dispatch(p, Bar(r.tf, r.open))

GapPlaces(p, bar) == {i \in Unresolved(p) : GapAt(p, i) = bar}

\* Mutant of Repair: the deferred bars go out ahead of the repaired one.
RepairDrainsFirst(p, bar) ==
    IF GapPlaces(p, bar) = {} THEN p
    ELSE Before([p EXCEPT !.gaps[FirstOf(GapPlaces(p, bar))].resolved = TRUE],
                <<[do |-> "resume"],
                  [do |-> "handle", result |-> [tf |-> bar.tf, open |-> bar.open, complete |-> TRUE]]>>)

Repair(p, bar) ==
    IF GapPlaces(p, bar) = {} THEN p
    ELSE Dispatch(Before([p EXCEPT !.gaps[FirstOf(GapPlaces(p, bar))].resolved = TRUE],
                         <<[do |-> "resume"]>>),
                  bar)

\* _drain_deferred: the loop works on the list and the gap it saw when it began.
Drain(p) ==
    LET waits(c) == Unresolved(p) # {} /\ c.open >= p.gaps[FirstOf(Unresolved(p))].open
        keep     == {c \in p.deferred : waits(c)}
    IN  Before(p, <<[do |-> "release", left |-> p.deferred \ keep, keep |-> keep]>>)

\* Mutants of Resume: delivery stays suspended, or resumes with gaps left.
ResumeNever(p) == Drain(p)
ResumeAnyway(p) == Drain([p EXCEPT !.suspended = FALSE])

\* The end of repair, once the repaired bar is dispatched.
Resume(p) == Drain([p EXCEPT !.suspended = @ /\ Unresolved(p) # {}])

\* The loop overwrites _deferred when it ends.
Release(p, left, keep) ==
    IF left = {} THEN [p EXCEPT !.deferred = keep]
    ELSE Dispatch(Before(p, <<[do |-> "release", left |-> left \ {Earliest(left)}, keep |-> keep]>>),
                  Earliest(left))

\* The aggregator of tf has taken a bar; without a result, the bar may be late.
TakenIn(p, tf, t, added) ==
    LET q    == [p EXCEPT !.agg[tf] = added.agg]
        late == [q EXCEPT !.agg[tf] = WithLate(@, tf, t)]
    IN  IF added.results # <<>>
        THEN Before(q, [i \in DOMAIN added.results |-> [do |-> "handle", result |-> added.results[i]]])
        ELSE IF LateBuckets(q.agg[tf], tf, t) = {} THEN q
        ELSE IF CompletesLate(q.agg[tf], tf, t) THEN Repair(late, Bar(tf, Bucket(tf, t)))
        ELSE late

\* A closed bar reaches the aggregator of tf.
OfferTo(p, tf, t) == TakenIn(p, tf, t, Add(p.agg[tf], tf, t))

Shortest(tfs) == CHOOSE tf \in tfs : \A u \in tfs : Size[tf] <= Size[u]

Offer(p, bar, to) ==
    OfferTo(Before(p, Offering(bar, to \ {Shortest(to)})), Shortest(to), bar.open)

MakeCall(p) ==
    LET c == Head(p.calls)
        q == [p EXCEPT !.calls = Tail(@)]
    IN  IF p.calls = <<>> THEN p
        ELSE CASE c.do = "offer"   -> Offer(q, c.bar, c.to)
               [] c.do = "handle"  -> Handle(q, c.result)
               [] c.do = "resume"  -> Resume(q)
               [] c.do = "release" -> Release(q, c.left, c.keep)

\* The first of the pipelines after 0, 1, ... calls that has no call left.
Settling(after) == after[CHOOSE n \in 0..MaxCalls : after[n].calls = <<>> \/ n = MaxCalls]

\* p once all the calls are made.
Returned(p) ==
    LET after[n \in 0..MaxCalls] == IF n = 0 THEN p ELSE MakeCall(after[n-1])
    IN  Settling(after)

\* Every call of p was made within the bound; TLC stops where one was not.
HasReturned(p) == Assert(p.calls = <<>>, "MaxCalls is too small") /\ p.calls = <<>>

-----------------------------------------------------------------------------
(* Minutes: M1CandleBuilder as far as the pipeline sees it, verification, silence *)

OnM1Closed(p, m) ==
    IF m \in p.seen THEN p
    ELSE Returned(OfferTo([p EXCEPT !.seen = @ \union {m}, !.lastM1 = Later(@, m)], Primary, m))

MarkPending(p, m) ==
    IF m \in p.seen THEN p ELSE [p EXCEPT !.pending = @ \union {m}]

\* _emit and _on_built
CloseOpen(p) ==
    LET q == [p EXCEPT !.emitted = p.open, !.open = None]
    IN  IF p.trusted THEN OnM1Closed(q, p.open) ELSE MarkPending(q, p.open)

\* Coverage that begins inside minute m first covers the minute after it.
SetConnected(p, m) == [p EXCEPT !.coverage = m + 1, !.stale = FALSE, !.trusted = FALSE]

MinuteTrusted(p, m) == p.coverage # None /\ ~p.stale /\ p.coverage <= m

\* The first tick of a minute opens it.
Fill(p, m) ==
    IF p.open # None THEN p
    ELSE [p EXCEPT !.open = m, !.trusted = MinuteTrusted(p, m)]

AddTick(p, m) ==
    LET r == IF p.stale THEN SetConnected(p, m) ELSE p
    IN  IF m <= r.emitted THEN r
        ELSE Fill(IF r.open # None /\ m > r.open THEN CloseOpen(r) ELSE r, m)

MarkEmittedUntil(p, m) ==
    IF m <= p.emitted THEN p
    ELSE [p EXCEPT !.emitted = m, !.open = IF @ <= m THEN None ELSE @]

\* Mutant of SilentMinutes: the minute after the last closed one is taken to be open.
SilentAfterNext(p) ==
    IF p.coverage = None THEN {}
    ELSE {m \in Later(p.coverage - 1, p.lastM1 + 2)..(now - 1) :
              m \notin p.seen \union p.pending \union {p.open}}

\* detect_silent_minutes: from the minute coverage began in, or after the last closed one.
SilentMinutes(p) ==
    IF p.coverage = None THEN {}
    ELSE {m \in Later(p.coverage - 1, p.lastM1 + 1)..(now - 1) :
              m \notin p.seen \union p.pending \union {p.open}}

\* Mutant of FlushAggregator: a bucket past its end is closed and nobody is told.
FlushAggregatorQuietly(p, tf) ==
    LET b == p.agg[tf].bucket
    IN  IF b.open = None \/ now < b.open + Size[tf] THEN p
        ELSE [p EXCEPT !.agg[tf] = EmitBucket(@, tf)]

FlushAggregator(p, tf) ==
    LET b == p.agg[tf].bucket
    IN  IF b.open = None \/ now < b.open + Size[tf] THEN p
        ELSE Returned(Handle([p EXCEPT !.agg[tf] = EmitBucket(@, tf)], Result(tf, b)))

\* The primary timeframe, then the higher ones.
FlushAggregators(p) ==
    LET after[i \in 0..Len(Higher)] ==
            IF i = 0 THEN FlushAggregator(p, Primary) ELSE FlushAggregator(after[i-1], Higher[i])
    IN  after[Len(Higher)]

FlushAt(p) ==
    LET closed == IF p.open # None /\ p.open < now THEN CloseOpen(p) ELSE p
    IN  FlushAggregators([closed EXCEPT !.pending = @ \union SilentMinutes(closed)])

\* verify_m1 and recover_m1, one broker bar each.
VerifyMinute(p, m) ==
    OnM1Closed(MarkEmittedUntil([p EXCEPT !.pending = @ \ {m}], m), m)

RecoverMinute(p, m) ==
    IF m \in p.seen THEN p
    ELSE VerifyMinute(IF p.open = m THEN [p EXCEPT !.open = None] ELSE p, m)

\* Mutant of RecoveryStart: what the open minute lacks is left to its ticks.
RecoverAfterOpen(p) == Later(p.open, p.lastM1) + 1

RecoveryStart(p) == IF p.open # None THEN p.open ELSE p.lastM1 + 1

-----------------------------------------------------------------------------
(* The feed *)

\* A pipeline without coverage or history.
NewPipe ==
    [open |-> None, trusted |-> FALSE, emitted |-> None, coverage |-> None, stale |-> FALSE,
     seen |-> {}, pending |-> {}, lastM1 |-> None,
     agg |-> [tf \in Timeframes |-> [bucket |-> NoBucket, emitted |-> None, gapBuckets |-> {}]],
     gaps |-> <<>>, suspended |-> FALSE, deferred |-> {}, calls |-> <<>>,
     lastClosed |-> [tf \in Timeframes |-> None], delivered |-> {}]

Init ==
    /\ now = 0
    /\ pipe = [NewPipe EXCEPT !.coverage = 0]
    /\ ticked = FALSE /\ passed = FALSE
    /\ recoverDue = FALSE /\ recovery = NoWindow /\ buffered = {}
    /\ faults = 0

Recovering == recovery # NoWindow
Waits == recoverDue /\ ~RecoveryMayWait

Fault(kind) == kind \in Kinds /\ faults < MaxFaults /\ faults' = faults + 1

Tick ==
    /\ ~Waits /\ pipe.coverage # None
    /\ ticked' = TRUE
    /\ IF Recovering
       THEN buffered' = buffered \union {now} /\ UNCHANGED pipe
       ELSE pipe' = AddTick(pipe, now) /\ HasReturned(pipe') /\ UNCHANGED buffered
    /\ UNCHANGED <<now, passed, recoverDue, recovery, faults>>

\* The watchdog: no packet for feed_stall_seconds, on any symbol.  A blip is a stall
\* that begins after a tick of the minute in progress and ends within that minute.
Stall ==
    /\ ~Waits /\ pipe.coverage # None /\ ~pipe.stale
    /\ \/ Fault("stall")
       \/ pipe.open = now /\ Fault("blip")
    /\ pipe' = [pipe EXCEPT !.stale = TRUE, !.trusted = FALSE]
    /\ UNCHANGED <<now, ticked, passed, recoverDue, recovery, buffered>>

Disconnect ==
    /\ ~Waits /\ pipe.coverage # None
    /\ Fault("drop")
    /\ pipe' = [pipe EXCEPT !.coverage = None, !.trusted = FALSE]
    /\ UNCHANGED <<now, ticked, passed, recoverDue, recovery, buffered>>

Connect ==
    /\ pipe.coverage = None
    /\ pipe' = SetConnected(pipe, now)
    /\ recoverDue' = TRUE
    /\ UNCHANGED <<now, ticked, passed, recovery, buffered, faults>>

\* A minute ends; without a packet of this symbol on a healthy feed it was silent.
EndMinute ==
    /\ ~Waits /\ now < LastMinute
    /\ PromptLoop => passed \/ Recovering
    /\ pipe.stale => "stall" \in Kinds
    /\ IF pipe.coverage # None /\ ~pipe.stale /\ ~ticked THEN Fault("silent") ELSE UNCHANGED faults
    /\ now' = now + 1
    /\ ticked' = FALSE /\ passed' = FALSE
    /\ UNCHANGED <<pipe, recoverDue, recovery, buffered>>

-----------------------------------------------------------------------------
(* The flush loop, verification, repair and recovery *)

FlushPass ==
    /\ ~Waits /\ ~Recovering
    /\ pipe' = FlushAt(pipe) /\ HasReturned(pipe')
    /\ passed' = TRUE
    /\ UNCHANGED <<now, ticked, recoverDue, recovery, buffered, faults>>

\* An answer that skips no minute asked for.
Prefix(got, asked) == BrokerInOrder => \A m \in got, k \in asked : k < m => k \in got

ClosedPending == {m \in pipe.pending : m < now}

\* The broker's answer holds bars for some of the closed pending minutes.
Verify(got) ==
    /\ got # {} /\ Prefix(got, ClosedPending)
    /\ pipe' = Ascending(VerifyMinute, pipe, got) /\ HasReturned(pipe')
    /\ UNCHANGED <<now, ticked, passed, recoverDue, recovery, buffered, faults>>

\* Application.repair works through the gaps in the order they were found and stops at
\* the first one the broker has no bar for.
Oldest == GapAt(pipe, FirstOf(Unresolved(pipe)))
Repairable == Unresolved(pipe) # {} /\ Oldest.tf \in Downloadable

RepairOldest ==
    /\ Repairable
    /\ pipe' = Returned(Repair(pipe, Oldest)) /\ HasReturned(pipe')
    /\ UNCHANGED <<now, ticked, passed, recoverDue, recovery, buffered, faults>>

BeginRecovery ==
    /\ recoverDue /\ recoverDue' = FALSE
    /\ ~Recovering /\ RecoveryStart(pipe) < now
    /\ recovery' = [from |-> RecoveryStart(pipe), to |-> now]
    /\ UNCHANGED <<now, pipe, ticked, passed, buffered, faults>>

\* A recovery is in flight already, or there is nothing to fetch.
SkipRecovery ==
    /\ recoverDue /\ recoverDue' = FALSE
    /\ Recovering \/ RecoveryStart(pipe) >= now
    /\ UNCHANGED <<now, pipe, ticked, passed, recovery, buffered, faults>>

Window == recovery.from..(recovery.to - 1)

\* The fetch returns with some of the window's minutes (none when it failed): they are
\* fed in order, the others wait for the broker, and the buffered ticks are replayed.
EndRecovery(got) ==
    LET fed    == Ascending(RecoverMinute, pipe, got)
        marked == Ascending(MarkPending, fed, Window \ got)
    IN
    /\ Recovering
    /\ Prefix(got, Window)
    /\ pipe' = Ascending(AddTick, marked, buffered) /\ HasReturned(pipe')
    /\ recovery' = NoWindow /\ buffered' = {}
    /\ UNCHANGED <<now, ticked, passed, recoverDue, faults>>

Next ==
    \/ Tick \/ Stall \/ Disconnect \/ Connect \/ EndMinute
    \/ FlushPass \/ RepairOldest
    \/ BeginRecovery \/ SkipRecovery
    \/ \E got \in SUBSET ClosedPending : Verify(got)
    \/ \E got \in SUBSET Window : EndRecovery(got)

Spec == Init /\ [][Next]_vars

-----------------------------------------------------------------------------
(* Properties *)

Bars == {Bar(tf, o) : tf \in Timeframes, o \in Minutes}
Gaps == {GapAt(pipe, i) : i \in DOMAIN pipe.gaps}
OpenGaps == {GapAt(pipe, i) : i \in Unresolved(pipe)}
Constituents(b) == {Bar(Source[b.tf], t) : t \in Expected(b.tf, b.open)}

\* Every attribute keeps the type its annotation gives it.
TypeOK ==
    LET Opt == Minutes \union {None} IN
    /\ now \in Minutes /\ faults \in 0..MaxFaults
    /\ ticked \in BOOLEAN /\ passed \in BOOLEAN /\ recoverDue \in BOOLEAN
    /\ recovery.from \in Opt /\ recovery.to \in Opt /\ buffered \subseteq Minutes
    /\ pipe.open \in Opt /\ pipe.emitted \in Opt /\ pipe.lastM1 \in Opt
    /\ pipe.coverage \in Opt \union {LastMinute + 1}
    /\ pipe.stale \in BOOLEAN /\ pipe.trusted \in BOOLEAN /\ pipe.suspended \in BOOLEAN
    /\ pipe.seen \subseteq Minutes /\ pipe.pending \subseteq Minutes
    /\ \A tf \in Timeframes :
          /\ pipe.lastClosed[tf] \in Opt /\ pipe.agg[tf].emitted \in Opt
          /\ pipe.agg[tf].bucket.open \in Opt
          /\ pipe.agg[tf].bucket.have \subseteq Minutes
    /\ Gaps \union pipe.deferred \union pipe.delivered \subseteq Bars

\* A delivered bar was built from bars that were themselves delivered (minutes that were
\* closed trusted or served by the broker), or is the broker's own bar for a gap.
DeliveredIsBacked ==
    \A b \in pipe.delivered :
        \/ \A c \in Constituents(b) : IF c.tf = M1 THEN c.open \in pipe.seen
                                                   ELSE c \in pipe.delivered
        \/ b \in Gaps \ OpenGaps

\* Delivery is suspended exactly while a gap is unresolved, so neither can outlive the other.
SuspendedByGaps == pipe.suspended <=> OpenGaps # {}

\* While a gap stays unresolved no later bar of its timeframe is delivered.
HeldBack ==
    [][\A g \in OpenGaps \intersect OpenGaps' :
           \A b \in pipe'.delivered \ pipe.delivered : b.tf = g.tf => b.open < g.open]_vars

\* A gap that is marked resolved delivers its bar: no bar is lost by its repair.
RepairDelivers == [][OpenGaps \ OpenGaps' \subseteq pipe'.delivered]_vars

\* A bar an aggregator completed is delivered or waits in the deferred list.
CompleteBarKept ==
    \A i \in DOMAIN Higher : \A o \in Minutes :
        LET b == Bar(Higher[i], o) IN
        (/\ Bucket(b.tf, o) = o /\ o <= pipe.agg[b.tf].emitted
         /\ Constituents(b) \subseteq pipe.delivered)
            => b \in pipe.delivered \union pipe.deferred \union OpenGaps

\* A primary bucket the stream has moved past is delivered, deferred or a recorded gap.
PassedBucketAccounted ==
    \A o \in Minutes :
        (/\ Bucket(Primary, o) = o
         /\ o < Later(pipe.agg[Primary].emitted, pipe.agg[Primary].bucket.open))
            => Bar(Primary, o) \in pipe.delivered \union pipe.deferred \union Gaps

\* A minute the pipeline has moved past was processed or waits for the broker.  Neither
\* silence detection nor a later recovery looks below the last closed minute, so one
\* forgotten here is forgotten for good, and nothing says so.
NoMinuteForgotten ==
    \A m \in Minutes : m < pipe.lastM1 => m \in pipe.seen \union pipe.pending \union {pipe.open}

\* The minutes the pipeline has in hand: processed, waiting for the broker, open, or with
\* their ticks waiting for a recovery to end.
Held == pipe.seen \union pipe.pending \union ({pipe.open} \ {None}) \union buffered

\* A minute of which a packet arrived comes into hand at once and never leaves it, whatever
\* drops, stalls, recoveries that start late, partial answers and late flush passes come
\* between: closing, skipping and recovering a minute never lose it on the way.
HeardIsHeld ==
    /\ [](ticked => now \in Held)
    /\ [][Held \subseteq Held']_vars

\* At rest: the clock has stopped, the broker has served every minute asked for, and the
\* flush loop, repair and recovery have nothing left to do.
AtRest ==
    /\ now = LastMinute /\ pipe.coverage # None /\ ~pipe.stale
    /\ ~recoverDue /\ ~Recovering /\ pipe.pending = {} /\ FlushAt(pipe) = pipe
    /\ ~Repairable

\* Once everything has been served, every bar that closed was delivered and the pipeline
\* is continuous again: no order of verification, repair, flush and new minutes wedges it.
CatchesUp ==
    AtRest =>
        /\ ContinuityOk(pipe) /\ pipe.deferred = {}
        /\ \A b \in Bars : (Bucket(b.tf, b.open) = b.open /\ b.open + Size[b.tf] <= LastMinute)
                               => b \in pipe.delivered

Stream == INSTANCE BarStream
    WITH delivered <- pipe.delivered, open <- OpenGaps, settled <- Gaps \ OpenGaps,
         owed <- pipe.pending, known <- pipe.seen

\* The pipeline implements BarStream, whatever the faults, the order of the broker's
\* answers and the lateness of the flush loop.
StreamOfBars == Stream!Spec
=============================================================================
