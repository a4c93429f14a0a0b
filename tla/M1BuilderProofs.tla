--------------------------- MODULE M1BuilderProofs ---------------------------
(***************************************************************************)
(* Theorems about M1Builder, for every minute length, stall delay, clock   *)
(* bound and buffer size.                                                  *)
(***************************************************************************)
EXTENDS M1Builder, TLAPS

-----------------------------------------------------------------------------
(* Flooring to the minute: floor_to(ts, 60) *)

\* A time lies in the minute it is floored to.
LEMMA FloorBounds ==
    ASSUME NEW t \in Nat
    PROVE  Floor(t) \in Nat /\ Floor(t) <= t /\ t < Floor(t) + Slots
BY SlotsAssumption DEF Floor

\* A natural number is its quotient by Slots times Slots, plus the remainder.
LEMMA Division ==
    ASSUME NEW t \in Nat
    PROVE  /\ t \div Slots \in Nat
           /\ t % Slots \in 0..(Slots - 1)
           /\ t = Slots * (t \div Slots) + (t % Slots)
BY SlotsAssumption

\* Different multiples of Slots lie at least Slots apart.
LEMMA MultiplesApart ==
    ASSUME NEW a \in Nat, NEW b \in Nat, a < b
    PROVE  Slots * a + Slots <= Slots * b
BY SlotsAssumption

\* Flooring keeps the order of times.
LEMMA FloorMonotone ==
    ASSUME NEW s \in Nat, NEW t \in Nat, s <= t
    PROVE  Floor(s) <= Floor(t)
<1> DEFINE q == s \div Slots
           r == t \div Slots
<1>1. q \in Nat /\ r \in Nat /\ Floor(s) = Slots * q /\ Floor(t) = Slots * r
  BY Division, SlotsAssumption DEF Floor
<1> HIDE DEF q, r
<1>2. CASE r < q
  BY <1>1, <1>2, MultiplesApart, FloorBounds, SlotsAssumption
<1>3. CASE q <= r
  BY <1>1, <1>3, MultiplesApart, SlotsAssumption
<1> QED
  BY <1>1, <1>2, <1>3

\* What flooring returns is the opening of a minute.
LEMMA FloorAligned ==
    ASSUME NEW t \in Nat
    PROVE  Floor(t) % Slots = 0
<1>1. ASSUME NEW k \in Nat PROVE (Slots * k) % Slots = 0
  <2> DEFINE d == (Slots * k) \div Slots
             x == (Slots * k) % Slots
  <2>1. Slots * k \in Nat
    BY SlotsAssumption
  <2>2. d \in Nat /\ x \in 0..(Slots - 1) /\ Slots * k = Slots * d + x
    BY Division, <2>1
  <2> HIDE DEF d, x
  <2>3. ~(d < k) /\ ~(k < d)
    BY <2>2, MultiplesApart, SlotsAssumption
  <2>4. x = 0
    BY <2>2, <2>3, SlotsAssumption
  <2> QED
    BY <2>4 DEF x
<1>2. t \div Slots \in Nat /\ Floor(t) = Slots * (t \div Slots)
  BY Division, SlotsAssumption DEF Floor
<1> QED
  BY <1>1, <1>2

\* So every instant of the model falls into one of its minutes.
LEMMA FloorMinute ==
    ASSUME NEW t \in Instant
    PROVE  Floor(t) \in Minutes
BY FloorBounds, FloorAligned, BoundsAssumption DEF Instant, Minutes

-----------------------------------------------------------------------------
(* Type correctness *)

\* The connection callbacks keep the builder's fields in their types.
LEMMA ConnectionTypes ==
    ASSUME NEW b \in Builder, NEW ts \in Instant
    PROVE  /\ SetConnected(b, ts) \in Builder /\ Resumed(b, ts) \in Builder
           /\ SetDisconnected(b) \in Builder /\ SetStale(b) \in Builder
BY DEF SetConnected, Resumed, SetDisconnected, SetStale, LoseOpenBucket, Builder

\* So do closing, opening and skipping a minute.
LEMMA BucketTypes ==
    ASSUME NEW b \in Builder, NEW m \in Minutes
    PROVE  /\ OpenAt(b, m) \in Builder /\ MarkEmittedUntil(b, m) \in Builder
           /\ HasOpen(b) => Emit(b) \in Builder /\ b.open \in Minutes
BY DEF OpenAt, MarkEmittedUntil, Emit, HasOpen, MinuteTrusted, Builder

\* A loss is recorded at a minute of the model.
LEMMA LossType ==
    ASSUME TypeOK, ToldOfLoss
    PROVE  broken' \in SUBSET Minutes
BY FloorMinute DEF TypeOK, ToldOfLoss

\* One tick, whichever of its three ways it goes.
LEMMA AddTickType ==
    ASSUME TypeOK, NEW ts \in Instant, AddTick(ts)
    PROVE  /\ builder' \in Builder
           /\ admitted' \in SUBSET Minutes /\ queued' \in SUBSET Minutes
           /\ broken' \in SUBSET Minutes /\ backdated' \in SUBSET Minutes
<1> DEFINE b == Resumed(builder, ts)
           m == Floor(ts)
<1>1. b \in Builder /\ m \in Minutes
  BY ConnectionTypes, FloorMinute DEF TypeOK
<1>2. broken' \in SUBSET Minutes /\ backdated' \in SUBSET Minutes
  BY LossType DEF AddTick, TypeOK
<1> HIDE DEF b, m
<1>3. IgnoreLate(b, m) \/ CloseAndOpen(b, m) \/ Extend(b, m)
  BY DEF AddTick, b, m
<1>4. CASE IgnoreLate(b, m)
  BY <1>1, <1>2, <1>4 DEF IgnoreLate, TypeOK
<1>5. CASE CloseAndOpen(b, m)
  <2>1. Emit(b) \in Builder /\ b.open \in Minutes
    BY <1>1, <1>5, BucketTypes DEF CloseAndOpen
  <2>2. OpenAt(Emit(b), m) \in Builder
    BY <1>1, <2>1, BucketTypes
  <2> QED
    BY <1>2, <1>5, <2>1, <2>2 DEF CloseAndOpen, Admitted, Queued, TypeOK
<1>6. CASE Extend(b, m)
  BY <1>1, <1>2, <1>6, BucketTypes DEF Extend, TypeOK
<1> QED
  BY <1>3, <1>4, <1>5, <1>6

\* A builder that has seen nothing is typed.
LEMMA InitType == Init => TypeOK
<1> SUFFICES ASSUME Init PROVE TypeOK
  OBVIOUS
<1>1. now \in Instant
  BY BoundsAssumption DEF Init, Instant
<1>2. builder \in Builder
  BY DEF Init, Builder
<1>3. buffer \in Seq(Instant) /\ replay \in Seq(Instant)
  BY DEF Init
<1> QED
  BY <1>1, <1>2, <1>3 DEF Init, TypeOK

\* Every action keeps the types, one case each.
LEMMA StepType == TypeOK /\ [Next]_vars => TypeOK'
<1> SUFFICES ASSUME TypeOK, [Next]_vars PROVE TypeOK'
  OBVIOUS
<1> USE DEF TypeOK
<1>1. ASSUME NEW ts \in TradeTimes, LiveTick(ts) PROVE TypeOK'
  <2>1. ts \in Instant
    BY DEF TradeTimes
  <2> QED
    BY <1>1, <2>1, AddTickType DEF LiveTick, recVars
<1>2. ASSUME NEW ts \in TradeTimes, BufferTick(ts) PROVE TypeOK'
  BY <1>2 DEF BufferTick, TradeTimes
<1>3. CASE OtherTick
  BY <1>3 DEF OtherTick, recVars
<1>4. CASE Flush
  <2>1. builder.open \in Minutes
    BY <1>4 DEF Flush, FlushDue, HasOpen, Builder
  <2>2. builder' \in Builder
    BY <1>4, <2>1 DEF Flush, Emit, Builder
  <2>3. admitted' \in SUBSET Minutes /\ queued' \in SUBSET Minutes
    BY <1>4, <2>1 DEF Flush, Admitted, Queued
  <2> QED
    BY <1>4, <2>2, <2>3 DEF Flush, feedVars, recVars
<1>5. CASE Connect
  <2>1. builder' \in Builder /\ broken' \in SUBSET Minutes
    BY <1>5, ConnectionTypes, LossType DEF Connect
  <2> QED
    BY <1>5, <2>1 DEF Connect
<1>6. CASE Disconnect
  BY <1>6, ConnectionTypes, LossType DEF Disconnect, recVars
<1>7. CASE Watchdog
  BY <1>7, ConnectionTypes, LossType DEF Watchdog, recVars
<1>8. CASE Freeze \/ Thaw
  BY <1>8 DEF Freeze, Thaw, recVars
<1>9. CASE BeginRecovery \/ SkipRecovery
  BY <1>9, FloorMinute DEF BeginRecovery, SkipRecovery, feedVars
<1>10. ASSUME NEW last \in Minutes \union {NoTime}, EndRecovery(last) PROVE TypeOK'
  <2>1. builder' \in Builder
    BY <1>10 DEF EndRecovery, MarkEmittedUntil, Builder
  <2>2. /\ buffer' \in Seq(Instant) /\ replay' \in Seq(Instant)
        /\ recovering' = FALSE /\ recoverEnd' = NoTime
        /\ UNCHANGED <<now, feedVars, recoverDue, admitted, queued, broken, backdated, interrupted>>
    BY <1>10 DEF EndRecovery
  <2> QED
    BY <2>1, <2>2 DEF feedVars
<1>11. CASE ReplayTick
  <2>1. Head(replay) \in Instant /\ Tail(replay) \in Seq(Instant)
    BY <1>11 DEF ReplayTick
  <2> QED
    BY <1>11, <2>1, AddTickType DEF ReplayTick, feedVars
<1>12. ASSUME NEW m \in Minutes, Verify(m) PROVE TypeOK'
  BY <1>12, BucketTypes DEF Verify, feedVars, recVars
<1>13. CASE ClockTick
  BY <1>13, FloorMinute, BoundsAssumption DEF ClockTick, feedVars, recVars, Instant
<1>14. CASE UNCHANGED vars
  BY <1>14 DEF vars, feedVars, recVars
<1> QED
  BY <1>1, <1>2, <1>3, <1>4, <1>5, <1>6, <1>7, <1>8, <1>9, <1>10, <1>11, <1>12, <1>13,
     <1>14 DEF Next, Packet

\* Whatever callbacks run in whatever order, every field keeps its type.
THEOREM TypeCorrect == Spec => []TypeOK
BY InitType, StepType, PTL DEF Spec

-----------------------------------------------------------------------------
(* A closed minute stays closed *)

\* What makes NeverReopened inductive: lastEmitted is a watermark.  Every minute handed
\* over lies at or below it, the open minute above it.
Watermark ==
    /\ builder.open # NoTime => builder.open > builder.lastEmitted
    /\ \A m \in admitted \union queued : m <= builder.lastEmitted
    /\ admitted \intersect queued = {}

\* An open minute above the watermark is none of those handed over.
LEMMA WatermarkNeverReopens == TypeOK /\ Watermark => NeverReopened
BY DEF TypeOK, Watermark, NeverReopened, Builder, Minutes, Instant, NoTime

\* Telling the builder of the connection moves neither the open minute nor the watermark.
LEMMA ConnectionKeepsBucket ==
    ASSUME NEW b \in Builder, NEW ts \in Instant,
           NEW c \in {SetConnected(b, ts), Resumed(b, ts), SetDisconnected(b), SetStale(b), b}
    PROVE  c.open = b.open /\ c.lastEmitted = b.lastEmitted
BY DEF SetConnected, Resumed, SetDisconnected, SetStale, LoseOpenBucket, Builder

\* One tick keeps the watermark.
LEMMA AddTickWatermark ==
    ASSUME TypeOK, Watermark, NEW ts \in Instant, AddTick(ts)
    PROVE  Watermark'
<1> DEFINE b == Resumed(builder, ts)
           m == Floor(ts)
<1>1. b \in Builder /\ m \in Minutes
  BY ConnectionTypes, FloorMinute DEF TypeOK
<1>2. b.open = builder.open /\ b.lastEmitted = builder.lastEmitted
  BY ConnectionKeepsBucket DEF TypeOK
<1> HIDE DEF b, m
<1>3. IgnoreLate(b, m) \/ CloseAndOpen(b, m) \/ Extend(b, m)
  BY DEF AddTick, b, m
<1>4. CASE IgnoreLate(b, m)
  BY <1>2, <1>4 DEF IgnoreLate, Watermark
<1>5. CASE CloseAndOpen(b, m)
  <2>1. builder'.open = m /\ builder'.lastEmitted = b.open
    BY <1>1, <1>5 DEF CloseAndOpen, OpenAt, Emit, HasOpen, Builder
  <2>2. /\ admitted' \union queued' = (admitted \union queued) \union {b.open}
        /\ admitted' \in {admitted, admitted \union {b.open}}
        /\ queued' \in {queued, queued \union {b.open}}
        /\ admitted' = admitted \/ queued' = queued
    BY <1>5 DEF CloseAndOpen, Admitted, Queued
  <2>3. /\ b.open # NoTime /\ m > b.open /\ b.open > b.lastEmitted
        /\ b.open \in Int /\ b.lastEmitted \in Int /\ m \in Int
        /\ \A k \in admitted \union queued : k \in Int /\ k <= b.lastEmitted
    BY <1>1, <1>2, <1>5
       DEF CloseAndOpen, HasOpen, Watermark, TypeOK, Builder, Minutes, Instant, NoTime
  <2>4. b.open \notin admitted \union queued
    BY <2>3
  <2> QED
    BY <2>1, <2>2, <2>3, <2>4 DEF Watermark
<1>6. CASE Extend(b, m)
  <2>1. builder'.lastEmitted = b.lastEmitted /\ builder'.open \in {m, b.open}
    BY <1>1, <1>6 DEF Extend, OpenAt, Builder
  <2> QED
    BY <1>2, <1>6, <2>1 DEF Extend, Watermark
<1> QED
  BY <1>3, <1>4, <1>5, <1>6

\* Skipping to a broker bar's minute keeps it.
LEMMA MarkEmittedWatermark ==
    ASSUME TypeOK, Watermark, NEW m \in Minutes \union {NoTime},
           builder' = MarkEmittedUntil(builder, m), UNCHANGED <<admitted, queued>>
    PROVE  Watermark'
<1>1. CASE m <= builder.lastEmitted
  BY <1>1 DEF MarkEmittedUntil, Watermark
<1>2. CASE ~(m <= builder.lastEmitted)
  <2>1. /\ builder'.lastEmitted = m
        /\ builder'.open = IF builder.open <= m THEN NoTime ELSE builder.open
    BY <1>2 DEF MarkEmittedUntil, TypeOK, Builder
  <2>2. m \in Int /\ builder.lastEmitted \in Int /\ builder.open \in Int
    BY DEF TypeOK, Builder, Minutes, Instant, NoTime
  <2>3. \A k \in admitted \union queued : k \in Int
    BY DEF TypeOK, Minutes, Instant
  <2>4. builder'.open # NoTime => builder'.open > builder'.lastEmitted
    BY <2>1, <2>2
  <2>5. \A k \in admitted \union queued : k <= builder'.lastEmitted
    BY <1>2, <2>1, <2>2, <2>3 DEF Watermark
  <2> QED
    BY <2>4, <2>5 DEF Watermark
<1> QED
  BY <1>1, <1>2

\* The flush loop keeps it.
LEMMA FlushWatermark ==
    ASSUME TypeOK, Watermark, Flush
    PROVE  Watermark'
<1>1. builder'.open = NoTime /\ builder'.lastEmitted = builder.open
  BY DEF Flush, Emit, TypeOK, Builder
<1>2. /\ admitted' \union queued' = (admitted \union queued) \union {builder.open}
      /\ admitted' \in {admitted, admitted \union {builder.open}}
      /\ queued' \in {queued, queued \union {builder.open}}
      /\ admitted' = admitted \/ queued' = queued
  BY DEF Flush, Admitted, Queued
<1>3. /\ builder.open > builder.lastEmitted
      /\ builder.open \in Int /\ builder.lastEmitted \in Int
      /\ \A k \in admitted \union queued : k \in Int /\ k <= builder.lastEmitted
  BY DEF Flush, FlushDue, HasOpen, Watermark, TypeOK, Builder, Minutes, Instant, NoTime
<1>4. builder.open \notin admitted \union queued
  BY <1>3
<1> QED
  BY <1>1, <1>2, <1>3, <1>4 DEF Watermark

\* Nothing has been emitted yet.
LEMMA InitWatermark == Init => Watermark
BY DEF Init, Watermark

\* No callback, in whatever order they run, breaks the watermark.
LEMMA StepWatermark == TypeOK /\ Watermark /\ [Next]_vars => Watermark'
<1> SUFFICES ASSUME TypeOK, Watermark, [Next]_vars PROVE Watermark'
  OBVIOUS
<1>1. ASSUME NEW ts \in TradeTimes, LiveTick(ts) PROVE Watermark'
  BY <1>1, AddTickWatermark DEF LiveTick, TradeTimes
<1>2. CASE Connect \/ Disconnect \/ Watchdog
  <2>1. builder'.open = builder.open /\ builder'.lastEmitted = builder.lastEmitted
    BY <1>2, ConnectionKeepsBucket DEF Connect, Disconnect, Watchdog, TypeOK
  <2>2. UNCHANGED <<admitted, queued>>
    BY <1>2 DEF Connect, Disconnect, Watchdog
  <2> QED
    BY <2>1, <2>2 DEF Watermark
<1>3. CASE ReplayTick
  <2>1. Head(replay) \in Instant /\ AddTick(Head(replay))
    BY <1>3 DEF ReplayTick, TypeOK
  <2> QED
    BY <2>1, AddTickWatermark
<1>4. ASSUME NEW last \in Minutes \union {NoTime}, EndRecovery(last) PROVE Watermark'
  BY <1>4, MarkEmittedWatermark DEF EndRecovery
<1>5. ASSUME NEW m \in Minutes, Verify(m) PROVE Watermark'
  BY <1>5, MarkEmittedWatermark DEF Verify
<1>6. ASSUME UNCHANGED <<builder, admitted, queued>> PROVE Watermark'
  BY <1>6 DEF Watermark
<1>7. ASSUME NEW ts \in TradeTimes, BufferTick(ts) PROVE Watermark'
  BY <1>6, <1>7 DEF BufferTick
<1>8. CASE OtherTick \/ Freeze \/ Thaw \/ BeginRecovery \/ SkipRecovery \/ ClockTick
  BY <1>6, <1>8 DEF OtherTick, Freeze, Thaw, BeginRecovery, SkipRecovery, ClockTick
<1>9. CASE UNCHANGED vars
  BY <1>6, <1>9 DEF vars
<1> QED
  BY <1>1, <1>2, <1>3, <1>4, <1>5, <1>7, <1>8, <1>9, FlushWatermark DEF Next, Packet

\* A minute handed to aggregation or to the broker queue is never open again and never
\* handed over twice, however ticks, flushes, recoveries and broker bars interleave.
THEOREM ClosedStaysClosed == Spec => []NeverReopened
<1>1. Init => TypeOK /\ Watermark
  BY InitType, InitWatermark
<1>2. TypeOK /\ Watermark /\ [Next]_vars => (TypeOK /\ Watermark)'
  BY StepType, StepWatermark
<1> QED
  BY <1>1, <1>2, WatermarkNeverReopens, PTL DEF Spec

-----------------------------------------------------------------------------
(* The builder implements MinuteStream *)

\* One tick decides the open minute or nothing.
LEMMA AddTickStream ==
    ASSUME TypeOK, Watermark, NEW ts \in Instant, AddTick(ts)
    PROVE  [Stream!Next]_(Stream!streamVars)
<1> DEFINE b == Resumed(builder, ts)
           m == Floor(ts)
<1>1. b \in Builder /\ m \in Minutes
  BY ConnectionTypes, FloorMinute DEF TypeOK
<1>2. b.open = builder.open /\ b.lastEmitted = builder.lastEmitted
  BY ConnectionKeepsBucket DEF TypeOK
<1> HIDE DEF b, m
<1>3. IgnoreLate(b, m) \/ CloseAndOpen(b, m) \/ Extend(b, m)
  BY DEF AddTick, b, m
<1>4. CASE IgnoreLate(b, m) \/ Extend(b, m)
  <2>1. builder'.lastEmitted = builder.lastEmitted
    BY <1>1, <1>2, <1>4 DEF IgnoreLate, Extend, OpenAt, Builder
  <2>2. UNCHANGED <<admitted, queued>>
    BY <1>4 DEF IgnoreLate, Extend
  <2> QED
    BY <2>1, <2>2 DEF Stream!streamVars
<1>5. CASE CloseAndOpen(b, m)
  <2>1. builder'.lastEmitted = b.open
    BY <1>1, <1>5 DEF CloseAndOpen, OpenAt, Emit, HasOpen, Builder
  <2>2. b.open \in Minutes /\ b.open > builder.lastEmitted
    BY <1>1, <1>2, <1>5 DEF CloseAndOpen, HasOpen, Watermark, Builder
  <2>3. \/ admitted' = admitted \union {b.open} /\ queued' = queued
        \/ queued' = queued \union {b.open} /\ admitted' = admitted
    BY <1>5 DEF CloseAndOpen, Admitted, Queued
  <2> QED
    BY <2>1, <2>2, <2>3
       DEF Stream!Next, Stream!HandOver, Stream!Question, Stream!Advance
<1> QED
  BY <1>3, <1>4, <1>5

\* The flush loop decides the open minute.
LEMMA FlushStream ==
    ASSUME TypeOK, Watermark, Flush
    PROVE  Stream!Next
<1>1. builder'.lastEmitted = builder.open
  BY DEF Flush, Emit, TypeOK, Builder
<1>2. builder.open \in Minutes /\ builder.open > builder.lastEmitted
  BY DEF Flush, FlushDue, HasOpen, Watermark, TypeOK, Builder
<1>3. \/ admitted' = admitted \union {builder.open} /\ queued' = queued
      \/ queued' = queued \union {builder.open} /\ admitted' = admitted
  BY DEF Flush, Admitted, Queued
<1> QED
  BY <1>1, <1>2, <1>3 DEF Stream!Next, Stream!HandOver, Stream!Question, Stream!Advance

\* A broker bar passes over its minute, unless the builder is past it already.
LEMMA MarkEmittedStream ==
    ASSUME TypeOK, NEW m \in Minutes \union {NoTime},
           builder' = MarkEmittedUntil(builder, m), UNCHANGED <<admitted, queued>>
    PROVE  [Stream!Next]_(Stream!streamVars)
<1>1. CASE m <= builder.lastEmitted
  BY <1>1 DEF MarkEmittedUntil, Stream!streamVars
<1>2. CASE ~(m <= builder.lastEmitted)
  <2>1. builder'.lastEmitted = m
    BY <1>2 DEF MarkEmittedUntil, TypeOK, Builder
  <2>2. m \in Minutes /\ m > builder.lastEmitted
    BY <1>2 DEF TypeOK, Builder, Minutes, Instant, NoTime
  <2> QED
    BY <2>1, <2>2 DEF Stream!Next, Stream!PassOver, Stream!Advance
<1> QED
  BY <1>1, <1>2

\* Every step of the builder is one of the stream's, or changes none of what it shows.
LEMMA StepStream ==
    ASSUME TypeOK, Watermark, [Next]_vars
    PROVE  [Stream!Next]_(Stream!streamVars)
<1>1. ASSUME NEW ts \in TradeTimes, LiveTick(ts) PROVE [Stream!Next]_(Stream!streamVars)
  BY <1>1, AddTickStream DEF LiveTick, TradeTimes
<1>2. CASE Connect \/ Disconnect \/ Watchdog
  <2>1. builder'.lastEmitted = builder.lastEmitted
    BY <1>2, ConnectionKeepsBucket DEF Connect, Disconnect, Watchdog, TypeOK
  <2>2. UNCHANGED <<admitted, queued>>
    BY <1>2 DEF Connect, Disconnect, Watchdog
  <2> QED
    BY <2>1, <2>2 DEF Stream!streamVars
<1>3. CASE ReplayTick
  <2>1. Head(replay) \in Instant /\ AddTick(Head(replay))
    BY <1>3 DEF ReplayTick, TypeOK
  <2> QED
    BY <2>1, AddTickStream
<1>4. ASSUME NEW l \in Minutes \union {NoTime}, EndRecovery(l)
      PROVE  [Stream!Next]_(Stream!streamVars)
  BY <1>4, MarkEmittedStream DEF EndRecovery
<1>5. ASSUME NEW m \in Minutes, Verify(m) PROVE [Stream!Next]_(Stream!streamVars)
  BY <1>5, MarkEmittedStream DEF Verify
<1>6. ASSUME UNCHANGED <<builder, admitted, queued>> PROVE [Stream!Next]_(Stream!streamVars)
  BY <1>6 DEF Stream!streamVars
<1>7. ASSUME NEW ts \in TradeTimes, BufferTick(ts) PROVE [Stream!Next]_(Stream!streamVars)
  BY <1>6, <1>7 DEF BufferTick
<1>8. CASE OtherTick \/ Freeze \/ Thaw \/ BeginRecovery \/ SkipRecovery \/ ClockTick
  BY <1>6, <1>8 DEF OtherTick, Freeze, Thaw, BeginRecovery, SkipRecovery, ClockTick
<1>9. CASE UNCHANGED vars
  BY <1>6, <1>9 DEF vars
<1> QED
  BY <1>1, <1>2, <1>3, <1>4, <1>5, <1>7, <1>8, <1>9, FlushStream DEF Next, Packet

\* The builder implements MinuteStream: live minutes leave it at most once and in
\* chronological order, to aggregation or to the broker queue.
THEOREM BuilderStreamsMinutes == Spec => StreamOfMinutes
<1>1. Init => TypeOK /\ Watermark /\ Stream!Init
  BY InitType, InitWatermark DEF Init, Stream!Init, NoTime
<1>2. TypeOK /\ Watermark /\ [Next]_vars => (TypeOK /\ Watermark)'
  BY StepType, StepWatermark
<1>3. TypeOK /\ Watermark /\ [Next]_vars => [Stream!Next]_(Stream!streamVars)
  BY StepStream
<1> QED
  BY <1>1, <1>2, <1>3, PTL DEF Spec, StreamOfMinutes, Stream!Spec

-----------------------------------------------------------------------------
(* Trust *)

\* What makes TrustedMinutesUnbroken inductive.  Coverage begins after every loss but
\* those a resume has backdated, an open minute is trusted only behind coverage, and
\* every minute handed over lies before the current one, out of reach of the next loss.
TrustInv ==
    /\ \A m \in broken : m < now
    /\ \A m \in admitted : m < Floor(now) /\ (m \in broken => m \in backdated)
    /\ builder.open # NoTime => builder.open <= Floor(now)
    /\ builder.coverage # NoTime /\ ~builder.stale
         => \A m \in broken : m < builder.coverage \/ m \in backdated
    /\ builder.open # NoTime /\ builder.trusted
         => ~builder.stale /\ (builder.open \in broken => builder.open \in backdated)

\* No tick that waits in the buffer or for its replay comes from the future.
WaitInv ==
    /\ \A i \in 1..Len(buffer) : buffer[i] <= now
    /\ \A i \in 1..Len(replay) : replay[i] <= now

\* TrustInv says of every handed over minute that a loss inside it was backdated.
LEMMA TrustIsUnbroken == TrustInv => TrustedMinutesUnbroken
BY DEF TrustInv, TrustedMinutesUnbroken

\* Times and minutes are numbers: the types the arithmetic below needs.
LEMMA Numbers ==
    ASSUME TypeOK
    PROVE  /\ now \in Nat /\ Floor(now) \in Nat /\ Floor(now) <= now /\ now < Floor(now) + Slots
           /\ builder.open \in Int /\ builder.lastEmitted \in Int /\ builder.coverage \in Int
           /\ builder.trusted \in BOOLEAN /\ builder.stale \in BOOLEAN
           /\ \A m \in admitted \union broken : m \in Nat
<1>1. now \in Nat
  BY BoundsAssumption DEF TypeOK, Instant
<1>2. \A m \in admitted \union broken : m \in Nat
  BY BoundsAssumption DEF TypeOK, Minutes, Instant
<1>3. builder.open \in Int /\ builder.lastEmitted \in Int /\ builder.coverage \in Int
  BY BoundsAssumption DEF TypeOK, Builder, Minutes, Instant, NoTime
<1>4. builder.trusted \in BOOLEAN /\ builder.stale \in BOOLEAN
  BY DEF TypeOK, Builder
<1> QED
  BY <1>1, <1>2, <1>3, <1>4, FloorBounds

\* A recorded loss lies before now, and spares the minutes already handed over.
LEMMA LossIsPast ==
    ASSUME TypeOK, TrustInv, ToldOfLoss
    PROVE  /\ \A m \in broken' : m < now
           /\ \A m \in admitted : m \in broken' => m \in backdated
BY Numbers DEF TrustInv, ToldOfLoss

\* Coverage that restarts now is past every loss, and whatever stays trusted is too.
LEMMA ConnectTrust ==
    ASSUME TypeOK, TrustInv, ToldOfLoss, UNCHANGED <<now, admitted, backdated>>,
           builder' = SetConnected(builder, now)
    PROVE  TrustInv'
<1>1. /\ builder'.open = builder.open /\ builder'.coverage = now /\ ~builder'.stale
      /\ builder'.open # NoTime /\ builder'.trusted => builder.open >= now
  BY Numbers DEF SetConnected, LoseOpenBucket, HasOpen, TypeOK, Builder
<1>2. builder'.open # NoTime /\ builder'.trusted => builder'.open \notin broken'
  BY <1>1, LossIsPast, Numbers
<1> QED
  BY <1>1, <1>2, LossIsPast, Numbers DEF TrustInv

\* A lost connection or a stall leaves nothing trusted open.
LEMMA LossTrust ==
    ASSUME TypeOK, TrustInv, ToldOfLoss, UNCHANGED <<now, admitted, backdated>>,
           builder' \in {SetDisconnected(builder), SetStale(builder)}
    PROVE  TrustInv'
<1>1. CASE builder' = SetDisconnected(builder)
  <2>1. builder'.open = builder.open /\ builder'.coverage = NoTime
    BY <1>1 DEF SetDisconnected, LoseOpenBucket, HasOpen, TypeOK, Builder
  <2>2. builder'.open # NoTime => ~builder'.trusted
    BY <1>1 DEF SetDisconnected, LoseOpenBucket, HasOpen, TypeOK, Builder
  <2> QED
    BY <2>1, <2>2, LossIsPast DEF TrustInv
<1>2. CASE builder' = SetStale(builder)
  <2>1. builder'.open = builder.open /\ builder'.stale
    BY <1>2 DEF SetStale, LoseOpenBucket, HasOpen, TypeOK, Builder
  <2>2. builder'.open # NoTime => ~builder'.trusted
    BY <1>2 DEF SetStale, LoseOpenBucket, HasOpen, TypeOK, Builder, TrustInv
  <2> QED
    BY <2>1, <2>2, LossIsPast DEF TrustInv
<1> QED
  BY <1>1, <1>2

\* One tick while the feed is not stale: nothing is learned, an open minute may be
\* handed over and the next one opens behind coverage.
LEMMA FreshTickTrust ==
    ASSUME TypeOK, TrustInv, NEW ts \in Instant, ts <= now, ~builder.stale,
           AddTick(ts), UNCHANGED now
    PROVE  TrustInv'
<1> DEFINE m == Floor(ts)
<1>1. /\ Resumed(builder, ts) = builder /\ broken' = broken /\ backdated' = backdated
  BY DEF Resumed, AddTick
<1>2. m \in Minutes /\ m \in Nat /\ m <= Floor(now)
  BY FloorMinute, FloorMonotone, FloorBounds, Numbers, BoundsAssumption DEF Instant
<1>3. IgnoreLate(builder, m) \/ CloseAndOpen(builder, m) \/ Extend(builder, m)
  BY <1>1 DEF AddTick
<1> HIDE DEF m
<1>4. CASE IgnoreLate(builder, m)
  BY <1>1, <1>4 DEF IgnoreLate, TrustInv
<1>5. CASE CloseAndOpen(builder, m)
  <2>1. /\ builder'.open = m /\ builder'.coverage = builder.coverage /\ ~builder'.stale
        /\ builder'.trusted => builder.coverage # NoTime /\ builder.coverage <= m
    BY <1>5 DEF CloseAndOpen, OpenAt, Emit, HasOpen, MinuteTrusted, TypeOK, Builder
  <2>2. builder'.trusted /\ m \in broken' => m \in backdated'
    BY <1>1, <1>2, <2>1, Numbers DEF TrustInv
  <2>3. \A k \in admitted' : k < Floor(now) /\ (k \in broken' => k \in backdated')
    <3>1. builder.open < Floor(now) /\ builder.open # NoTime
      BY <1>2, <1>5, Numbers DEF CloseAndOpen, HasOpen
    <3> QED
      BY <1>1, <1>5, <3>1 DEF CloseAndOpen, Admitted, TrustInv
  <2> QED
    BY <1>1, <1>2, <2>1, <2>2, <2>3 DEF TrustInv
<1>6. CASE Extend(builder, m)
  <2>1. /\ builder'.coverage = builder.coverage /\ ~builder'.stale /\ admitted' = admitted
        /\ \/ builder'.open = builder.open /\ builder'.trusted = builder.trusted
           \/ /\ builder'.open = m
              /\ builder'.trusted => builder.coverage # NoTime /\ builder.coverage <= m
    BY <1>6 DEF Extend, OpenAt, HasOpen, MinuteTrusted, TypeOK, Builder
  <2>2. builder'.open = m /\ builder'.trusted
          /\ builder.coverage # NoTime /\ builder.coverage <= m
          => (m \in broken' => m \in backdated')
    BY <1>1, <1>2, Numbers DEF TrustInv
  <2> QED
    BY <1>1, <1>2, <2>1, <2>2 DEF TrustInv
<1> QED
  BY <1>3, <1>4, <1>5, <1>6

\* The tick that ends a stall: coverage restarts at its trade time, and every broken
\* minute from there on is backdated.
LEMMA ResumingTickTrust ==
    ASSUME TypeOK, TrustInv, NEW ts \in Instant, ts <= now, builder.stale,
           AddTick(ts), UNCHANGED now
    PROVE  TrustInv'
<1> DEFINE b == Resumed(builder, ts)
           m == Floor(ts)
<1>1. /\ b \in Builder /\ b.open = builder.open /\ b.coverage = ts /\ ~b.stale
      /\ b.open # NoTime => ~b.trusted
  BY ConnectionTypes
     DEF Resumed, SetConnected, LoseOpenBucket, HasOpen, TypeOK, Builder, TrustInv
<1>2. ToldOfLoss /\ backdated' = backdated \union {k \in broken' : ts <= k}
  BY DEF AddTick
<1>3. m \in Minutes /\ m \in Nat /\ m <= Floor(now) /\ m # NoTime /\ ts \in Nat
  BY FloorMinute, FloorMonotone, FloorBounds, Numbers, BoundsAssumption DEF Instant, NoTime
<1>4. \A k \in broken' : k < ts \/ k \in backdated'
  <2>1. broken' \subseteq Minutes
    BY <1>2, LossType
  <2>2. \A k \in broken' : k \in Nat
    BY <2>1, BoundsAssumption DEF Minutes, Instant
  <2> QED
    BY <1>2, <1>3, <2>2
<1>5. \A k \in admitted : k < Floor(now) /\ (k \in broken' => k \in backdated')
  BY <1>2, LossIsPast DEF TrustInv
<1>6. ts <= m /\ m \in broken' => m \in backdated'
  BY <1>2
<1> HIDE DEF b, m
<1>7. IgnoreLate(b, m) \/ CloseAndOpen(b, m) \/ Extend(b, m)
  BY DEF AddTick, b, m
<1>8. CASE IgnoreLate(b, m)
  BY <1>1, <1>2, <1>4, <1>5, <1>8, LossIsPast DEF IgnoreLate, TrustInv
<1>9. CASE CloseAndOpen(b, m)
  <2>1. /\ builder'.open = m /\ builder'.coverage = ts /\ ~builder'.stale
        /\ builder'.trusted => ts <= m
    BY <1>1, <1>3, <1>9 DEF CloseAndOpen, OpenAt, Emit, HasOpen, MinuteTrusted, Builder
  <2>2. admitted' = admitted
    BY <1>1, <1>9 DEF CloseAndOpen, Admitted, HasOpen
  <2> QED
    BY <1>2, <1>3, <1>4, <1>5, <1>6, <2>1, <2>2, LossIsPast DEF TrustInv
<1>10. CASE Extend(b, m)
  <2>1. /\ builder'.coverage = ts /\ ~builder'.stale /\ admitted' = admitted
        /\ \/ builder'.open = builder.open /\ builder.open # NoTime /\ ~builder'.trusted
           \/ /\ builder'.open = m
              /\ builder'.trusted => ts <= m
    BY <1>1, <1>3, <1>10 DEF Extend, OpenAt, HasOpen, MinuteTrusted, Builder
  <2> QED
    BY <1>2, <1>3, <1>4, <1>5, <1>6, <2>1, LossIsPast DEF TrustInv
<1> QED
  BY <1>7, <1>8, <1>9, <1>10

\* A broker bar may retire the open minute, and changes no trust.
LEMMA MarkEmittedTrust ==
    ASSUME TypeOK, TrustInv, NEW m \in Minutes \union {NoTime},
           builder' = MarkEmittedUntil(builder, m),
           UNCHANGED <<now, admitted, broken, backdated>>
    PROVE  TrustInv'
<1>1. /\ builder'.open \in {builder.open, NoTime} /\ builder'.trusted = builder.trusted
      /\ builder'.coverage = builder.coverage /\ builder'.stale = builder.stale
  BY DEF MarkEmittedUntil, TypeOK, Builder
<1> QED
  BY <1>1 DEF TrustInv

\* The flush loop hands over a minute whose end has passed.
LEMMA FlushTrust ==
    ASSUME TypeOK, TrustInv, Flush
    PROVE  TrustInv'
<1>1. /\ builder'.open = NoTime /\ builder'.coverage = builder.coverage
      /\ builder'.stale = builder.stale /\ UNCHANGED <<now, broken, backdated>>
  BY DEF Flush, Emit, TypeOK, Builder
<1>2. builder.open < Floor(now) /\ builder.open # NoTime
  BY Numbers, SlotsAssumption DEF Flush, FlushDue, HasOpen
<1>3. \A m \in admitted' : m < Floor(now) /\ (m \in broken => m \in backdated)
  BY <1>2 DEF Flush, Admitted, TrustInv
<1> QED
  BY <1>1, <1>3 DEF TrustInv

\* Time moves every bound forward.
LEMMA ClockTrust ==
    ASSUME TypeOK, TrustInv, WaitInv, ClockTick
    PROVE  TrustInv' /\ WaitInv'
<1>1. now' = now + 1 /\ now' \in Nat /\ Floor(now) <= Floor(now') /\ Floor(now') \in Nat
  BY Numbers, FloorMonotone, FloorBounds, SMTT(20) DEF ClockTick
<1>2. UNCHANGED <<builder, admitted, broken, backdated, recVars>>
  BY DEF ClockTick
<1>3. TrustInv'
  BY <1>1, <1>2, Numbers DEF TrustInv
<1>4. \A i \in 1..Len(buffer) : buffer[i] \in Nat
  BY BoundsAssumption DEF TypeOK, Instant
<1>5. \A i \in 1..Len(replay) : replay[i] \in Nat
  BY BoundsAssumption DEF TypeOK, Instant
<1>6. WaitInv'
  BY <1>1, <1>2, <1>4, <1>5, Numbers, SMTT(20) DEF WaitInv, recVars
<1> QED
  BY <1>3, <1>6

\* No connection, no loss, no minute.
LEMMA InitTrust == Init => TrustInv /\ WaitInv
BY DEF Init, TrustInv, WaitInv

\* Every action but the clock leaves the waiting ticks in the past.
LEMMA StepWait == TypeOK /\ WaitInv /\ TrustInv /\ [Next]_vars => WaitInv'
<1> SUFFICES ASSUME TypeOK, WaitInv, TrustInv, [Next]_vars PROVE WaitInv'
  OBVIOUS
<1>1. ASSUME NEW ts \in TradeTimes, BufferTick(ts) PROVE WaitInv'
  <2>1. ts \in Instant /\ ts <= now
    BY DEF TradeTimes
  <2>2. buffer' = Append(buffer, ts) /\ buffer \in Seq(Instant)
    BY <1>1 DEF BufferTick, TypeOK
  <2>3. \A i \in 1..Len(buffer') : buffer'[i] <= now
    BY <2>1, <2>2 DEF WaitInv
  <2> QED
    BY <1>1, <2>3 DEF BufferTick, WaitInv
<1>2. ASSUME NEW last \in Minutes \union {NoTime}, EndRecovery(last) PROVE WaitInv'
  BY <1>2 DEF EndRecovery, WaitInv
<1>3. CASE ReplayTick
  <2>1. /\ UNCHANGED <<now, buffer>> /\ replay' = Tail(replay)
        /\ replay \in Seq(Instant) /\ replay # <<>>
    BY <1>3 DEF ReplayTick, TypeOK
  <2> QED
    BY <2>1 DEF WaitInv
<1>4. CASE ClockTick
  BY <1>4, ClockTrust
<1>5. ASSUME UNCHANGED <<now, buffer, replay>> PROVE WaitInv'
  BY <1>5 DEF WaitInv
<1>6. ASSUME NEW ts \in TradeTimes, LiveTick(ts) PROVE UNCHANGED <<now, buffer, replay>>
  BY <1>6 DEF LiveTick, recVars
<1>7. ASSUME NEW m \in Minutes, Verify(m) PROVE UNCHANGED <<now, buffer, replay>>
  BY <1>7 DEF Verify, recVars
<1>8. CASE OtherTick \/ Flush \/ Connect \/ Disconnect \/ Watchdog
  BY <1>5, <1>8 DEF OtherTick, Flush, Connect, Disconnect, Watchdog, recVars
<1>9. CASE Freeze \/ Thaw \/ BeginRecovery \/ SkipRecovery
  BY <1>5, <1>9 DEF Freeze, Thaw, BeginRecovery, SkipRecovery, recVars
<1>10. CASE UNCHANGED vars
  BY <1>5, <1>10 DEF vars, recVars
<1> QED
  BY <1>1, <1>2, <1>3, <1>4, <1>5, <1>6, <1>7, <1>8, <1>9, <1>10 DEF Next, Packet

\* Every action keeps the trust.
LEMMA StepTrust == TypeOK /\ TrustInv /\ WaitInv /\ [Next]_vars => TrustInv'
<1> SUFFICES ASSUME TypeOK, TrustInv, WaitInv, [Next]_vars PROVE TrustInv'
  OBVIOUS
<1>1. ASSUME NEW ts \in Instant, ts <= now, AddTick(ts), UNCHANGED now PROVE TrustInv'
  BY <1>1, FreshTickTrust, ResumingTickTrust
<1>2. ASSUME NEW ts \in TradeTimes, LiveTick(ts) PROVE TrustInv'
  BY <1>1, <1>2 DEF LiveTick, TradeTimes
<1>3. CASE ReplayTick
  <2>1. /\ Head(replay) \in Instant /\ Head(replay) <= now
        /\ AddTick(Head(replay)) /\ UNCHANGED now
    BY <1>3 DEF ReplayTick, TypeOK, WaitInv
  <2> QED
    BY <1>1, <2>1
<1>4. CASE Connect
  BY <1>4, ConnectTrust DEF Connect
<1>5. CASE Disconnect
  BY <1>5, LossTrust DEF Disconnect
<1>6. CASE Watchdog
  BY <1>6, LossTrust DEF Watchdog
<1>7. CASE Flush
  BY <1>7, FlushTrust
<1>8. ASSUME NEW last \in Minutes \union {NoTime}, EndRecovery(last) PROVE TrustInv'
  BY <1>8, MarkEmittedTrust DEF EndRecovery
<1>9. ASSUME NEW m \in Minutes, Verify(m) PROVE TrustInv'
  BY <1>9, MarkEmittedTrust DEF Verify
<1>10. CASE ClockTick
  BY <1>10, ClockTrust
<1>11. ASSUME UNCHANGED <<now, builder, admitted, broken, backdated>> PROVE TrustInv'
  BY <1>11 DEF TrustInv
<1>12. ASSUME NEW ts \in TradeTimes, BufferTick(ts) PROVE TrustInv'
  BY <1>11, <1>12 DEF BufferTick
<1>13. CASE OtherTick \/ Freeze \/ Thaw \/ BeginRecovery \/ SkipRecovery
  BY <1>11, <1>13 DEF OtherTick, Freeze, Thaw, BeginRecovery, SkipRecovery
<1>14. CASE UNCHANGED vars
  BY <1>11, <1>14 DEF vars
<1> QED
  BY <1>2, <1>3, <1>4, <1>5, <1>6, <1>7, <1>8, <1>9, <1>10, <1>12, <1>13, <1>14
     DEF Next, Packet

\* So it holds in every reachable state.
LEMMA TrustInductive == Spec => [](TrustInv /\ WaitInv)
<1>1. Init => TypeOK /\ TrustInv /\ WaitInv
  BY InitType, InitTrust
<1>2. TypeOK /\ TrustInv /\ WaitInv /\ [Next]_vars => (TypeOK /\ TrustInv /\ WaitInv)'
  BY StepType, StepTrust, StepWait
<1> QED
  BY <1>1, <1>2, PTL DEF Spec

\* Whatever packets lag, delivery freezes, recoveries and stalls overlap or flush passes
\* come late: a minute inside which the program was told of a connect, disconnect, stall
\* or resume reaches aggregation as a trusted live bar only when a packet that ended a
\* stall carried a trade time at or before that minute.
THEOREM TrustIsEarned == Spec => []TrustedMinutesUnbroken
BY TrustInductive, TrustIsUnbroken, PTL

=============================================================================
