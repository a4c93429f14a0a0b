--------------------------- MODULE ContinuityProofs ---------------------------
(* What every callback of the pipeline and of the application keeps, for any     *)
(* timeframes, faults, answers of the broker, days and crashes.  A method of the *)
(* pipeline is a number of calls, and what holds after it is what each call      *)
(* keeps while others wait.                                                      *)
EXTENDS Continuity, Basics

-----------------------------------------------------------------------------
(* Types *)

Opt == Minutes \union {None}
Buckets == [open : Opt, have : SUBSET Minutes]
Aggregators == [bucket : Buckets, emitted : Opt, gapBuckets : SUBSET Buckets]
Results == [tf : Timeframes, open : Minutes, complete : BOOLEAN]
GapRecords == [tf : Timeframes, open : Minutes, resolved : BOOLEAN]

OfferCalls == [do : {"offer"}, bar : Bars, to : (SUBSET Timeframes) \ {{}}]
HandleCalls == [do : {"handle"}, result : Results]
ResumeCalls == [do : {"resume"}]
ReleaseCalls == [do : {"release"}, left : SUBSET Bars, keep : SUBSET Bars]
CallRecords == OfferCalls \union HandleCalls \union ResumeCalls \union ReleaseCalls

Pipes ==
    [open : Opt, trusted : BOOLEAN, emitted : Opt,
     coverage : Opt \union {LastMinute + 1}, stale : BOOLEAN,
     seen : SUBSET Minutes, pending : SUBSET Minutes, lastM1 : Opt,
     agg : [Timeframes -> Aggregators],
     gaps : Seq(GapRecords), suspended : BOOLEAN, deferred : SUBSET Bars,
     calls : Seq(CallRecords),
     lastClosed : [Timeframes -> Opt], delivered : SUBSET Bars]

\* A bar has a timeframe and a minute, and is known by them.
LEMMA BarParts ==
    /\ \A b \in Bars : b.tf \in Timeframes /\ b.open \in Minutes /\ b = Bar(b.tf, b.open)
    /\ \A tf \in Timeframes, o \in Minutes : Bar(tf, o) \in Bars
BY DEF Bars, Bar

\* What a call is, by its name.
LEMMA CallForms ==
    \A c \in CallRecords :
        \/ c.do = "offer" /\ c.bar \in Bars /\ c.to \in SUBSET Timeframes /\ c.to # {}
        \/ c.do = "handle" /\ c.result \in Results
        \/ c.do = "resume"
        \/ c.do = "release" /\ c.left \in SUBSET Bars /\ c.keep \in SUBSET Bars
BY DEF CallRecords, OfferCalls, HandleCalls, ResumeCalls, ReleaseCalls

\* The calls the methods make.
LEMMA CallsMade ==
    /\ \A b \in Bars, to \in SUBSET Timeframes :
           to # {} => [do |-> "offer", bar |-> b, to |-> to] \in CallRecords
    /\ \A r \in Results : [do |-> "handle", result |-> r] \in CallRecords
    /\ [do |-> "resume"] \in CallRecords
    /\ \A left, keep \in SUBSET Bars : [do |-> "release", left |-> left, keep |-> keep] \in CallRecords
<1>1. \A b \in Bars, to \in SUBSET Timeframes : to # {} => [do |-> "offer", bar |-> b, to |-> to] \in OfferCalls
  BY DEF OfferCalls
<1>2. \A r \in Results : [do |-> "handle", result |-> r] \in HandleCalls
  BY DEF HandleCalls
<1>3. [do |-> "resume"] \in ResumeCalls
  BY DEF ResumeCalls
<1>4. \A left, keep \in SUBSET Bars : [do |-> "release", left |-> left, keep |-> keep] \in ReleaseCalls
  BY DEF ReleaseCalls
<1> QED
  BY <1>1, <1>2, <1>3, <1>4 DEF CallRecords

\* The least of some places is one of them.
LEMMA FirstIsOne ==
    ASSUME NEW S \in SUBSET Nat, S # {}
    PROVE  FirstOf(S) \in S /\ \A j \in S : FirstOf(S) <= j
BY LeastOf DEF FirstOf

\* The shortest of some timeframes is one of them.
LEMMA ShortestIsOne ==
    ASSUME NEW S \in SUBSET Timeframes, S # {}
    PROVE  Shortest(S) \in S
<1> DEFINE sizes == {Size[tf] : tf \in S}
<1>1. sizes \in SUBSET Nat /\ sizes # {}
  BY TimeframesAssumption
<1>2. PICK m \in sizes : \A n \in sizes : m <= n
  BY <1>1, LeastOf
<1>3. \E tf \in S : \A u \in S : Size[tf] <= Size[u]
  BY <1>2
<1> QED
  BY <1>3 DEF Shortest

\* The earliest of some bars is one of them.
LEMMA EarliestIsOne ==
    ASSUME NEW S \in SUBSET Bars, S # {}
    PROVE  Earliest(S) \in S
<1> DEFINE opens == {b.open : b \in S}
<1>1. opens \in SUBSET Nat /\ opens # {}
  BY BarParts, BoundsAssumption DEF Minutes
<1>2. PICK m \in opens : \A n \in opens : m <= n
  BY <1>1, LeastOf
<1> DEFINE sizes == {Size[b.tf] : b \in {c \in S : c.open = m}}
<1>3. sizes \in SUBSET Nat /\ sizes # {}
  BY <1>2, BarParts, TimeframesAssumption
<1>4. PICK s \in sizes : \A n \in sizes : s <= n
  BY <1>3, LeastOf
<1>5. PICK b \in S : b.open = m /\ Size[b.tf] = s
  BY <1>4
<1>6. ASSUME NEW c \in S PROVE b.open < c.open \/ (b.open = c.open /\ Size[b.tf] <= Size[c.tf])
  <2>1. m <= c.open /\ c.open \in Nat /\ m \in Nat
    BY <1>1, <1>2
  <2>2. c.open = m => s <= Size[c.tf]
    BY <1>4
  <2> QED
    BY <1>5, <2>1, <2>2
<1> QED
  BY <1>5, <1>6 DEF Earliest

\* The remainder of a division by s is below s, and no more than what was divided.
LEMMA Remainder ==
    ASSUME NEW s \in Nat \ {0}, NEW t \in Nat
    PROVE  t % s \in 0..t /\ t % s < s
<1>1. t \div s \in Nat /\ t % s \in 0..(s-1) /\ t = s * (t \div s) + (t % s)
  OBVIOUS
<1> DEFINE q == t \div s
           r == t % s
<1>2. q \in Nat /\ r \in 0..(s-1) /\ t = s * q + r
  BY <1>1
<1> HIDE DEF q, r
<1>3. s * q \in Nat
  BY <1>2
<1>4. r <= t /\ r < s /\ r \in Nat
  <2> DEFINE m == s * q
  <2>1. m \in Nat /\ t = m + r
    BY <1>2, <1>3
  <2> HIDE DEF m
  <2> QED
    BY <1>2, <2>1
<1> QED
  BY <1>4 DEF r

\* A bucket begins no later than the minutes it holds.
LEMMA BucketMinute ==
    ASSUME NEW tf \in Timeframes, NEW t \in Minutes
    PROVE  Bucket(tf, t) \in Minutes /\ Bucket(tf, t) <= t /\ t < Bucket(tf, t) + Size[tf]
<1>1. Size[tf] \in Nat \ {0} /\ t \in Nat /\ t <= LastMinute /\ LastMinute \in Nat
  BY TimeframesAssumption, BoundsAssumption DEF Minutes
<1>2. t % Size[tf] \in 0..t /\ t % Size[tf] < Size[tf]
  BY <1>1, Remainder
<1> QED
  BY <1>1, <1>2 DEF Bucket, Minutes

-----------------------------------------------------------------------------
(* The calls *)

\* q has some calls to make before those of p.
Stacked(p, q, s) == s \in Seq(CallRecords) /\ q.calls = s \o p.calls

SameMinutes(p, q) == q.seen = p.seen /\ q.pending = p.pending
SameGaps(p, q) == q.gaps = p.gaps /\ q.suspended = p.suspended

\* What waits on a stack of two parts is in one of them.
LEMMA StackParts ==
    ASSUME NEW S, NEW s \in Seq(S), NEW t \in Seq(S)
    PROVE  /\ s \o t \in Seq(S) /\ <<>> \o t = t
           /\ \A i \in DOMAIN (s \o t) :
                  \/ i \in DOMAIN s /\ (s \o t)[i] = s[i]
                  \/ i - Len(s) \in DOMAIN t /\ (s \o t)[i] = t[i - Len(s)]
           /\ \A j \in DOMAIN t : j + Len(s) \in DOMAIN (s \o t) /\ (s \o t)[j + Len(s)] = t[j]
OBVIOUS

\* Two parts of a stack are one.
LEMMA StackJoins ==
    ASSUME NEW s \in Seq(CallRecords), NEW t \in Seq(CallRecords), NEW u \in Seq(CallRecords)
    PROVE  s \o t \in Seq(CallRecords) /\ s \o (t \o u) = (s \o t) \o u
<1>1. (s \o t) \o u = s \o (t \o u)
  BY ConcatAssociative
<1>2. s \o t \in Seq(CallRecords)
  OBVIOUS
<1> QED
  BY <1>1, <1>2

\* And what waits once the first is taken off.
LEMMA StackRest ==
    ASSUME NEW S, NEW s \in Seq(S), s # <<>>
    PROVE  /\ Head(s) \in S /\ Head(s) = s[1] /\ Tail(s) \in Seq(S) /\ 1 \in DOMAIN s
           /\ \A i \in DOMAIN Tail(s) : i + 1 \in DOMAIN s /\ Tail(s)[i] = s[i+1]
           /\ \A i \in DOMAIN s : i = 1 \/ (i - 1 \in DOMAIN Tail(s) /\ Tail(s)[i-1] = s[i])
OBVIOUS

\* p has other calls to make.
LEMMA CallsChange ==
    ASSUME NEW p \in Pipes, NEW c \in Seq(CallRecords)
    PROVE  [p EXCEPT !.calls = c] \in Pipes
BY DEF Pipes

\* Calls put before those that wait.
LEMMA BeforeDoes ==
    ASSUME NEW p \in Pipes, NEW s \in Seq(CallRecords)
    PROVE  /\ Before(p, s) \in Pipes /\ Stacked(p, Before(p, s), s)
           /\ Before(p, s) = [p EXCEPT !.calls = s \o p.calls]
<1>1. p.calls \in Seq(CallRecords) /\ p = [p EXCEPT !.calls = p.calls]
  BY DEF Pipes
<1>2. s \o p.calls \in Seq(CallRecords)
  BY <1>1, StackParts
<1>3. Before(p, s) = [p EXCEPT !.calls = s \o p.calls]
  BY DEF Before
<1>4. Before(p, s) \in Pipes
  BY <1>2, <1>3, CallsChange
<1> QED
  BY <1>3, <1>4 DEF Stacked, Pipes

\* The calls of a bar that is offered.
LEMMA OfferingDoes ==
    ASSUME NEW b \in Bars, NEW to \in SUBSET Timeframes
    PROVE  /\ Offering(b, to) \in Seq(CallRecords)
           /\ \A i \in DOMAIN Offering(b, to) :
                  Offering(b, to)[i] = [do |-> "offer", bar |-> b, to |-> to]
<1>1. CASE to = {}
  BY <1>1 DEF Offering
<1>2. CASE to # {}
  <2> DEFINE c == [do |-> "offer", bar |-> b, to |-> to]
  <2>1. c \in CallRecords
    BY <1>2, CallsMade
  <2>2. Offering(b, to) = <<c>>
    BY <1>2 DEF Offering
  <2> HIDE DEF c
  <2> QED
    BY <2>1, <2>2 DEF c
<1> QED
  BY <1>1, <1>2

\* s offers a bar that is out to aggregators built from it.
Offers(s, bar, q) ==
    /\ s \in Seq(CallRecords)
    /\ \A i \in DOMAIN s : /\ s[i].do = "offer" /\ s[i].bar = bar /\ bar \in q.delivered
                           /\ \A tf \in s[i].to : Source[tf] = bar.tf

Dispatched(p, bar, q) ==
    /\ q \in Pipes /\ SameMinutes(p, q) /\ SameGaps(p, q)
    /\ q.agg = p.agg /\ q.deferred = p.deferred
    /\ q.delivered \in {p.delivered, p.delivered \union {bar}}
    /\ \E s : Offers(s, bar, q) /\ q.calls = s \o p.calls

\* The bar goes out, to be offered to the aggregators built from it, or is an old one.
LEMMA DispatchDoes ==
    ASSUME NEW p \in Pipes, NEW bar \in Bars
    PROVE  Dispatched(p, bar, Dispatch(p, bar))
<1> DEFINE q == Dispatch(p, bar)
           to == {tf \in Timeframes : Source[tf] = bar.tf}
           s == Offering(bar, to)
           d == [p EXCEPT !.lastClosed[bar.tf] = bar.open, !.delivered = @ \union {bar}]
<1>1. CASE bar.open <= p.lastClosed[bar.tf]
  <2>1. q = p
    BY <1>1 DEF Dispatch
  <2>2. <<>> \o p.calls = p.calls /\ Offers(<<>>, bar, p)
    BY StackParts DEF Pipes, Offers
  <2> HIDE DEF q
  <2>3. SameMinutes(p, q) /\ SameGaps(p, q)
    BY <2>1 DEF SameMinutes, SameGaps
  <2>4. \E t : Offers(t, bar, q) /\ q.calls = t \o p.calls
    BY <2>1, <2>2
  <2> QED
    BY <2>1, <2>3, <2>4 DEF q, Dispatched
<1>2. CASE ~(bar.open <= p.lastClosed[bar.tf])
  <2>1. d \in Pipes
    BY BarParts DEF Pipes, Opt
  <2>2. s \in Seq(CallRecords) /\ \A i \in DOMAIN s : s[i] = [do |-> "offer", bar |-> bar, to |-> to]
    BY OfferingDoes
  <2>3. q = Before(d, s)
    BY <1>2 DEF Dispatch
  <2>4. SameMinutes(p, d) /\ SameGaps(p, d) /\ d.agg = p.agg /\ d.deferred = p.deferred
        /\ d.calls = p.calls /\ d.delivered = p.delivered \union {bar}
    BY DEF SameMinutes, SameGaps, Pipes
  <2> HIDE DEF d, s, q
  <2>5. q \in Pipes /\ q = [d EXCEPT !.calls = s \o d.calls]
    BY <2>1, <2>2, <2>3, BeforeDoes
  <2>6. SameMinutes(p, q) /\ SameGaps(p, q) /\ q.agg = p.agg /\ q.deferred = p.deferred
        /\ q.delivered = p.delivered \union {bar} /\ q.calls = s \o p.calls
    BY <2>1, <2>4, <2>5 DEF SameMinutes, SameGaps, Pipes
  <2>7. Offers(s, bar, q)
    BY <2>2, <2>6 DEF Offers
  <2> QED
    BY <2>5, <2>6, <2>7 DEF Dispatched, q
<1> QED
  BY <1>1, <1>2

Handled(p, r, q) ==
    LET bar == Bar(r.tf, r.open) IN
    /\ q \in Pipes /\ SameMinutes(p, q) /\ q.agg = p.agg /\ bar \in Bars
    /\ ~r.complete => /\ q.gaps = Append(p.gaps, [tf |-> r.tf, open |-> r.open, resolved |-> FALSE])
                      /\ q.suspended = TRUE /\ q.calls = p.calls
                      /\ q.deferred = p.deferred /\ q.delivered = p.delivered
    /\ r.complete => /\ SameGaps(p, q)
                     /\ q.deferred \in {p.deferred, p.deferred \union {bar}}
                     /\ q.delivered \in {p.delivered, p.delivered \union {bar}}
    /\ \E s : Offers(s, bar, q) /\ q.calls = s \o p.calls

\* A closed bar that is complete goes out or is deferred, any other becomes a gap.
LEMMA HandleDoes ==
    ASSUME NEW p \in Pipes, NEW r \in Results
    PROVE  Handled(p, r, Handle(p, r))
<1> DEFINE q == Handle(p, r)
           bar == Bar(r.tf, r.open)
<1>0. <<>> \o p.calls = p.calls /\ r.tf \in Timeframes /\ r.open \in Minutes /\ bar \in Bars
      /\ Offers(<<>>, bar, q)
  BY StackParts, BarParts DEF Pipes, Results, Offers
<1>1. CASE ~r.complete
  <2> DEFINE g == [tf |-> r.tf, open |-> r.open, resolved |-> FALSE]
  <2>1. q = [p EXCEPT !.gaps = Append(p.gaps, g), !.suspended = TRUE]
    BY <1>1 DEF Handle, FoundGap
  <2>2. g \in GapRecords
    BY <1>0 DEF GapRecords
  <2> HIDE DEF g, q
  <2>3. Append(p.gaps, g) \in Seq(GapRecords)
    BY <2>2 DEF Pipes
  <2>4. q \in Pipes /\ q.gaps = Append(p.gaps, g) /\ q.suspended = TRUE /\ q.calls = p.calls
        /\ q.deferred = p.deferred /\ q.delivered = p.delivered /\ SameMinutes(p, q) /\ q.agg = p.agg
    BY <2>1, <2>3 DEF Pipes, SameMinutes
  <2> QED
    BY <1>0, <1>1, <2>4 DEF g, q, Handled
<1>2. CASE r.complete /\ p.suspended
  <2>1. q = [p EXCEPT !.deferred = p.deferred \union {bar}]
    BY <1>2 DEF Handle
  <2> HIDE DEF q, bar
  <2>2. q \in Pipes /\ SameGaps(p, q) /\ q.calls = p.calls /\ q.deferred = p.deferred \union {bar}
        /\ q.delivered = p.delivered /\ SameMinutes(p, q) /\ q.agg = p.agg
    BY <1>0, <2>1 DEF Pipes, SameMinutes, SameGaps
  <2> QED
    BY <1>0, <1>2, <2>2 DEF q, bar, Handled
<1>3. CASE r.complete /\ ~p.suspended
  <2>1. q = Dispatch(p, bar)
    BY <1>3 DEF Handle
  <2> HIDE DEF q, bar
  <2>2. Dispatched(p, bar, q)
    BY <1>0, <2>1, DispatchDoes
  <2> QED
    BY <1>0, <1>3, <2>2 DEF q, bar, Handled, Dispatched
<1> QED
  BY <1>1, <1>2, <1>3

RepairedAs(p, bar, q) ==
    /\ q \in Pipes /\ SameMinutes(p, q) /\ q.agg = p.agg /\ q.deferred = p.deferred
    /\ q.suspended = p.suspended
    /\ \/ q = p
       \/ \E i \in Unresolved(p) : \E s :
              /\ GapAt(p, i) = bar
              /\ q.gaps = [p.gaps EXCEPT ![i].resolved = TRUE]
              /\ q.delivered \in {p.delivered, p.delivered \union {bar}}
              /\ Offers(s, bar, q) /\ q.calls = s \o (<<[do |-> "resume"]>> \o p.calls)

\* A repair resolves one place that holds the gap, sends its bar out and resumes, or
\* there is none.
LEMMA RepairDoes ==
    ASSUME NEW p \in Pipes, NEW bar \in Bars
    PROVE  RepairedAs(p, bar, Repair(p, bar))
<1> DEFINE q == Repair(p, bar)
<1>1. CASE GapPlaces(p, bar) = {}
  BY <1>1 DEF Repair, SameMinutes, RepairedAs
<1>2. CASE GapPlaces(p, bar) # {}
  <2>1. PICK i \in Unresolved(p) : i = FirstOf(GapPlaces(p, bar)) /\ GapAt(p, i) = bar /\ i \in DOMAIN p.gaps
    <3>1. GapPlaces(p, bar) \in SUBSET Nat
      BY DEF GapPlaces, Unresolved, Pipes
    <3>2. FirstOf(GapPlaces(p, bar)) \in GapPlaces(p, bar)
      BY <1>2, <3>1, FirstIsOne
    <3> QED
      BY <3>2 DEF GapPlaces, Unresolved
  <2> DEFINE g == [p EXCEPT !.gaps[i].resolved = TRUE]
             b == Before(g, <<[do |-> "resume"]>>)
  <2>2. [p.gaps EXCEPT ![i].resolved = TRUE] \in Seq(GapRecords)
    <3>1. p.gaps \in Seq(GapRecords) /\ p.gaps[i] \in GapRecords
      BY <2>1 DEF Pipes
    <3>2. [p.gaps[i] EXCEPT !.resolved = TRUE] \in GapRecords
      BY <3>1 DEF GapRecords
    <3> QED
      BY <2>1, <3>1, <3>2
  <2>3. g = [p EXCEPT !.gaps = [p.gaps EXCEPT ![i].resolved = TRUE]]
    OBVIOUS
  <2>4. q = Dispatch(b, bar)
    BY <1>2, <2>1 DEF Repair
  <2> HIDE DEF g, b, q
  <2>5. g \in Pipes /\ g.gaps = [p.gaps EXCEPT ![i].resolved = TRUE] /\ g.calls = p.calls
        /\ g.agg = p.agg /\ g.deferred = p.deferred /\ g.suspended = p.suspended /\ g.delivered = p.delivered
        /\ SameMinutes(p, g)
    BY <2>2, <2>3 DEF Pipes, SameMinutes
  <2>6. <<[do |-> "resume"]>> \in Seq(CallRecords)
    BY CallsMade
  <2>7. b \in Pipes /\ b = [g EXCEPT !.calls = <<[do |-> "resume"]>> \o g.calls]
    BY <2>5, <2>6, BeforeDoes DEF b
  <2>8. b.calls = <<[do |-> "resume"]>> \o p.calls /\ b.gaps = g.gaps /\ b.agg = p.agg /\ b.deferred = p.deferred
        /\ b.suspended = p.suspended /\ b.delivered = p.delivered /\ SameMinutes(p, b)
    BY <2>5, <2>7 DEF Pipes, SameMinutes
  <2>9. Dispatched(b, bar, q)
    BY <2>1, <2>4, <2>7, BarParts, DispatchDoes
  <2>10. PICK s : Offers(s, bar, q) /\ q.calls = s \o b.calls
    BY <2>9 DEF Dispatched
  <2>11. q \in Pipes /\ SameMinutes(p, q) /\ q.agg = p.agg /\ q.deferred = p.deferred
         /\ q.suspended = p.suspended /\ q.gaps = [p.gaps EXCEPT ![i].resolved = TRUE]
         /\ q.delivered \in {p.delivered, p.delivered \union {bar}}
    BY <2>5, <2>8, <2>9 DEF SameMinutes, SameGaps, Dispatched
  <2>12. q.calls = s \o (<<[do |-> "resume"]>> \o p.calls)
    BY <2>8, <2>10
  <2> QED
    BY <2>1, <2>10, <2>11, <2>12 DEF q, RepairedAs
<1> QED
  BY <1>1, <1>2

ResumedAs(p, q) ==
    /\ q \in Pipes /\ SameMinutes(p, q) /\ q.agg = p.agg /\ q.gaps = p.gaps
    /\ q.suspended = (p.suspended /\ Unresolved(p) # {})
    /\ q.deferred = p.deferred /\ q.delivered = p.delivered
    /\ \E keep \in SUBSET p.deferred :
           q.calls = <<[do |-> "release", left |-> p.deferred \ keep, keep |-> keep]>> \o p.calls

\* Delivery resumes when no gap is left, and the deferred bars that need not wait are
\* released in turn.
LEMMA ResumeDoes ==
    ASSUME NEW p \in Pipes
    PROVE  ResumedAs(p, Resume(p))
<1> DEFINE q == Resume(p)
           f == [p EXCEPT !.suspended = @ /\ Unresolved(p) # {}]
           keep == {c \in f.deferred : Unresolved(f) # {} /\ c.open >= f.gaps[FirstOf(Unresolved(f))].open}
           c == [do |-> "release", left |-> f.deferred \ keep, keep |-> keep]
<1>1. q = Before(f, <<c>>)
  BY DEF Resume, Drain
<1>2. f \in Pipes /\ SameMinutes(p, f) /\ f.agg = p.agg /\ f.gaps = p.gaps /\ f.calls = p.calls
      /\ f.suspended = (p.suspended /\ Unresolved(p) # {})
      /\ f.deferred = p.deferred /\ f.delivered = p.delivered
  BY DEF Pipes, SameMinutes
<1>3. keep \in SUBSET f.deferred /\ f.deferred \in SUBSET Bars
  BY <1>2 DEF Pipes
<1> HIDE DEF f, keep, q
<1>4. <<c>> \in Seq(CallRecords)
  <2>1. c \in CallRecords
    BY <1>3, CallsMade
  <2> HIDE DEF c
  <2> QED
    BY <2>1
<1> HIDE DEF c
<1>5. q \in Pipes /\ q = [f EXCEPT !.calls = <<c>> \o f.calls]
  BY <1>1, <1>2, <1>4, BeforeDoes
<1>6. SameMinutes(p, q) /\ q.agg = p.agg /\ q.gaps = p.gaps
      /\ q.suspended = (p.suspended /\ Unresolved(p) # {})
      /\ q.deferred = p.deferred /\ q.delivered = p.delivered /\ q.calls = <<c>> \o p.calls
  BY <1>2, <1>5 DEF Pipes, SameMinutes
<1> QED
  BY <1>2, <1>3, <1>5, <1>6 DEF c, q, ResumedAs

ReleasedAs(p, left, keep, q) ==
    /\ q \in Pipes /\ SameMinutes(p, q) /\ q.agg = p.agg /\ SameGaps(p, q)
    /\ \/ q.deferred = keep /\ q.delivered = p.delivered /\ q.calls = p.calls
       \/ \E bar \in left : \E s :
              /\ q.deferred = p.deferred
              /\ q.delivered \in {p.delivered, p.delivered \union {bar}}
              /\ Offers(s, bar, q)
              /\ q.calls = s \o (<<[do |-> "release", left |-> left \ {bar}, keep |-> keep]>> \o p.calls)

\* A release sends the earliest bar out, and keeps the others when none is left.
LEMMA ReleaseDoes ==
    ASSUME NEW p \in Pipes, NEW left \in SUBSET Bars, NEW keep \in SUBSET Bars
    PROVE  ReleasedAs(p, left, keep, Release(p, left, keep))
<1> DEFINE q == Release(p, left, keep)
<1>1. CASE left = {}
  <2>1. q = [p EXCEPT !.deferred = keep]
    BY <1>1 DEF Release
  <2> QED
    BY <2>1 DEF Pipes, SameMinutes, SameGaps, ReleasedAs
<1>2. CASE left # {}
  <2>1. PICK bar \in left : bar = Earliest(left) /\ bar \in Bars
    BY <1>2, EarliestIsOne
  <2> DEFINE c == [do |-> "release", left |-> left \ {bar}, keep |-> keep]
             b == Before(p, <<c>>)
  <2>2. q = Dispatch(b, bar)
    BY <1>2, <2>1 DEF Release
  <2>3. <<c>> \in Seq(CallRecords)
    <3>1. c \in CallRecords
      BY CallsMade
    <3> HIDE DEF c
    <3> QED
      BY <3>1
  <2> HIDE DEF b, c, q
  <2>4. b \in Pipes /\ b = [p EXCEPT !.calls = <<c>> \o p.calls]
    BY <2>3, BeforeDoes DEF b
  <2>5. b.calls = <<c>> \o p.calls /\ SameGaps(p, b) /\ b.agg = p.agg /\ b.deferred = p.deferred
        /\ b.delivered = p.delivered /\ SameMinutes(p, b)
    BY <2>4 DEF Pipes, SameMinutes, SameGaps
  <2>6. Dispatched(b, bar, q)
    BY <2>1, <2>2, <2>4, DispatchDoes
  <2>7. PICK s : Offers(s, bar, q) /\ q.calls = s \o b.calls
    BY <2>6 DEF Dispatched
  <2>8. q.calls = s \o (<<c>> \o p.calls)
    BY <2>5, <2>7
  <2>9. q \in Pipes /\ SameMinutes(p, q) /\ SameGaps(p, q) /\ q.agg = p.agg /\ q.deferred = p.deferred
        /\ q.delivered \in {p.delivered, p.delivered \union {bar}}
    BY <2>5, <2>6 DEF SameMinutes, SameGaps, Dispatched
  <2> QED
    BY <2>1, <2>7, <2>8, <2>9 DEF c, q, ReleasedAs
<1> QED
  BY <1>1, <1>2

-----------------------------------------------------------------------------
(* What goes out *)

SameFeed(p, q) ==
    /\ q.open = p.open /\ q.trusted = p.trusted /\ q.emitted = p.emitted
    /\ q.coverage = p.coverage /\ q.stale = p.stale /\ q.lastM1 = p.lastM1

ServedPlaces(p) == {i \in DOMAIN p.gaps : p.gaps[i].resolved}

\* Delivery waits for a gap, and no call is about to resume it.
Awaits(p) == p.suspended /\ \A i \in DOMAIN p.calls : p.calls[i].do \in {"offer", "handle"}

\* The watermark of a timeframe is its latest bar, and has come up to its settled gaps.
Ordered(p) ==
    /\ \A b \in p.delivered : b.open <= p.lastClosed[b.tf]
    /\ \A tf \in Timeframes : p.lastClosed[tf] = None \/ Bar(tf, p.lastClosed[tf]) \in p.delivered
    /\ \A i \in ServedPlaces(p) : GapAt(p, i).open <= p.lastClosed[GapAt(p, i).tf]

\* What went out from p to q is later than what was out.
Continues(p, q) ==
    /\ ServedPlaces(p) \subseteq ServedPlaces(q)
    /\ \A tf \in Timeframes : p.lastClosed[tf] <= q.lastClosed[tf]
    /\ \A b \in q.delivered \ p.delivered : p.lastClosed[b.tf] < b.open
    /\ Ordered(p) => Ordered(q)

\* Nothing went out while delivery waits for a gap, unless one was settled.
HoldsOver(p, q) == Awaits(p) /\ ServedPlaces(q) = ServedPlaces(p) => Awaits(q) /\ q.delivered = p.delivered

Flows(p, q) == Continues(p, q) /\ HoldsOver(p, q)

\* What a sequence with one more element holds.
LEMMA Appended ==
    ASSUME NEW S, NEW s \in Seq(S), NEW e \in S
    PROVE  /\ Append(s, e) \in Seq(S) /\ Len(Append(s, e)) = Len(s) + 1
           /\ Append(s, e)[Len(s)+1] = e /\ \A i \in 1..Len(s) : Append(s, e)[i] = s[i]
OBVIOUS

\* The places of the gaps that are left, when one is resolved and when one is found.
LEMMA ResolvedPlaces ==
    ASSUME NEW p \in Pipes, NEW q \in Pipes, NEW i \in Unresolved(p),
           q.gaps = [p.gaps EXCEPT ![i].resolved = TRUE]
    PROVE  /\ DOMAIN q.gaps = DOMAIN p.gaps /\ Len(q.gaps) = Len(p.gaps)
           /\ \A j \in DOMAIN p.gaps : /\ GapAt(q, j) = GapAt(p, j)
                                       /\ (q.gaps[j].resolved <=> j = i \/ p.gaps[j].resolved)
           /\ Unresolved(q) = Unresolved(p) \ {i}
<1>1. p.gaps \in Seq(GapRecords) /\ i \in DOMAIN p.gaps /\ \A j \in DOMAIN p.gaps : p.gaps[j] \in GapRecords
  BY DEF Pipes, Unresolved
<1>2. DOMAIN q.gaps = DOMAIN p.gaps /\ Len(q.gaps) = Len(p.gaps)
  BY <1>1
<1>3. \A j \in DOMAIN p.gaps : q.gaps[j] = IF j = i THEN [p.gaps[i] EXCEPT !.resolved = TRUE] ELSE p.gaps[j]
  BY <1>1
<1>4. \A j \in DOMAIN p.gaps : /\ q.gaps[j].tf = p.gaps[j].tf /\ q.gaps[j].open = p.gaps[j].open
                               /\ (q.gaps[j].resolved <=> j = i \/ p.gaps[j].resolved)
  BY <1>1, <1>3 DEF GapRecords
<1> QED
  BY <1>2, <1>4 DEF Unresolved, GapAt

\* The unresolved gaps once one more is found.
LEMMA FoundPlaces ==
    ASSUME NEW p \in Pipes, NEW q \in Pipes, NEW g \in GapRecords, ~g.resolved,
           q.gaps = Append(p.gaps, g)
    PROVE  /\ DOMAIN q.gaps = DOMAIN p.gaps \union {Len(p.gaps) + 1} /\ Len(q.gaps) = Len(p.gaps) + 1
           /\ Len(p.gaps) + 1 \notin DOMAIN p.gaps
           /\ \A j \in DOMAIN p.gaps : q.gaps[j] = p.gaps[j] /\ GapAt(q, j) = GapAt(p, j)
           /\ q.gaps[Len(p.gaps)+1] = g
           /\ Unresolved(q) = Unresolved(p) \union {Len(p.gaps) + 1}
<1>1. p.gaps \in Seq(GapRecords)
  BY DEF Pipes
<1>2. Len(q.gaps) = Len(p.gaps) + 1 /\ \A j \in 1..Len(p.gaps) : q.gaps[j] = p.gaps[j]
  BY <1>1, Appended
<1>3. q.gaps[Len(p.gaps)+1] = g /\ q.gaps \in Seq(GapRecords)
  BY <1>1, Appended
<1>4. DOMAIN p.gaps = 1..Len(p.gaps) /\ DOMAIN q.gaps = 1..(Len(p.gaps) + 1) /\ Len(p.gaps) \in Nat
  BY <1>1, <1>2, <1>3
<1> QED
  BY <1>2, <1>3, <1>4 DEF Unresolved, GapAt

\* Watermarks are minutes, or none.
LEMMA MarksAre ==
    ASSUME NEW p \in Pipes
    PROVE  /\ \A tf \in Timeframes : p.lastClosed[tf] \in Int
           /\ \A b \in p.delivered : b \in Bars /\ b.tf \in Timeframes /\ b.open \in Int
           /\ \A i \in DOMAIN p.gaps : GapAt(p, i) \in Bars /\ GapAt(p, i).tf \in Timeframes
                                       /\ GapAt(p, i).open \in Int
<1>1. \A tf \in Timeframes : p.lastClosed[tf] \in Opt
  BY DEF Pipes
<1>2. \A b \in Bars : b.tf \in Timeframes /\ b.open \in Int
  BY BarParts DEF Minutes
<1>3. \A i \in DOMAIN p.gaps : p.gaps[i] \in GapRecords
  BY DEF Pipes
<1>4. \A i \in DOMAIN p.gaps : GapAt(p, i) \in Bars
  BY <1>3, BarParts DEF GapAt, GapRecords
<1>5. p.delivered \subseteq Bars
  BY DEF Pipes
<1>6. \A tf \in Timeframes : p.lastClosed[tf] \in Int
  BY <1>1 DEF Opt, Minutes, None
<1> QED
  BY <1>2, <1>4, <1>5, <1>6

\* Flowing is transitive.
LEMMA FlowsOn ==
    ASSUME NEW p \in Pipes, NEW q \in Pipes, NEW r \in Pipes, Flows(p, q), Flows(q, r)
    PROVE  Flows(p, r)
<1>1. ServedPlaces(p) \subseteq ServedPlaces(q) /\ ServedPlaces(q) \subseteq ServedPlaces(r)
  BY DEF Flows, Continues
<1>2. \A tf \in Timeframes : p.lastClosed[tf] <= q.lastClosed[tf] /\ q.lastClosed[tf] <= r.lastClosed[tf]
                             /\ p.lastClosed[tf] <= r.lastClosed[tf]
  BY MarksAre DEF Flows, Continues
<1>3. ASSUME NEW b \in r.delivered \ p.delivered PROVE p.lastClosed[b.tf] < b.open
  <2>1. b.tf \in Timeframes /\ b.open \in Int /\ p.lastClosed[b.tf] \in Int /\ q.lastClosed[b.tf] \in Int
    BY MarksAre
  <2>2. CASE b \in q.delivered
    BY <1>3, <2>2 DEF Flows, Continues
  <2>3. CASE b \notin q.delivered
    <3>1. q.lastClosed[b.tf] < b.open
      BY <1>3, <2>3 DEF Flows, Continues
    <3> QED
      BY <1>2, <2>1, <3>1
  <2> QED
    BY <2>2, <2>3
<1>4. HoldsOver(p, r)
  <2> SUFFICES ASSUME Awaits(p), ServedPlaces(r) = ServedPlaces(p) PROVE Awaits(r) /\ r.delivered = p.delivered
    BY DEF HoldsOver
  <2>1. ServedPlaces(q) = ServedPlaces(p) /\ ServedPlaces(r) = ServedPlaces(q)
    BY <1>1
  <2>2. Awaits(q) /\ q.delivered = p.delivered
    BY <2>1 DEF Flows, HoldsOver
  <2> QED
    BY <2>1, <2>2 DEF Flows, HoldsOver
<1>5. Ordered(p) => Ordered(r)
  BY DEF Flows, Continues
<1> QED
  BY <1>1, <1>2, <1>3, <1>4, <1>5 DEF Flows, Continues

\* Nothing went out and no gap was settled.
LEMMA StillFollows ==
    ASSUME NEW p \in Pipes, NEW q, q.lastClosed = p.lastClosed, q.delivered = p.delivered,
           ServedPlaces(q) = ServedPlaces(p), \A i \in ServedPlaces(p) : GapAt(q, i) = GapAt(p, i)
    PROVE  Continues(p, q)
<1>1. \A tf \in Timeframes : p.lastClosed[tf] <= q.lastClosed[tf]
  BY MarksAre
<1>2. Ordered(p) => Ordered(q)
  BY DEF Ordered
<1> QED
  BY <1>1, <1>2 DEF Continues

\* And delivery still waits, or the gaps did not change.
LEMMA StillFlows ==
    ASSUME NEW p \in Pipes, NEW q, q.lastClosed = p.lastClosed, q.delivered = p.delivered,
           ServedPlaces(q) = ServedPlaces(p), \A i \in ServedPlaces(p) : GapAt(q, i) = GapAt(p, i),
           Awaits(p) => Awaits(q)
    PROVE  Flows(p, q)
BY StillFollows DEF Flows, HoldsOver

\* The bar went out, or was an old one.
Sends(p, bar, q) ==
    /\ SameFeed(p, q) /\ bar.open <= q.lastClosed[bar.tf]
    /\ \/ q.lastClosed = p.lastClosed /\ q.delivered = p.delivered
       \/ /\ p.lastClosed[bar.tf] < bar.open
          /\ q.lastClosed = [p.lastClosed EXCEPT ![bar.tf] = bar.open]
          /\ q.delivered = p.delivered \union {bar}

\* What _dispatch sends.
LEMMA DispatchSends ==
    ASSUME NEW p \in Pipes, NEW bar \in Bars
    PROVE  Sends(p, bar, Dispatch(p, bar))
<1> DEFINE q == Dispatch(p, bar)
           s == Offering(bar, {tf \in Timeframes : Source[tf] = bar.tf})
           l == [p.lastClosed EXCEPT ![bar.tf] = bar.open]
           d == [p EXCEPT !.lastClosed = l, !.delivered = p.delivered \union {bar}]
<1>1. bar.tf \in Timeframes /\ bar.open \in Int /\ p.lastClosed[bar.tf] \in Int
  BY BarParts, MarksAre DEF Minutes
<1>2. CASE bar.open <= p.lastClosed[bar.tf]
  <2>1. q = p
    BY <1>2 DEF Dispatch
  <2> HIDE DEF q
  <2>2. Sends(p, bar, q)
    BY <1>2, <2>1 DEF Sends, SameFeed
  <2> QED
    BY <2>2 DEF q
<1>3. CASE ~(bar.open <= p.lastClosed[bar.tf])
  <2>1. q = Before(d, s)
    BY <1>3 DEF Dispatch
  <2>2. q = [d EXCEPT !.calls = s \o d.calls]
    BY <2>1 DEF Before
  <2>3. q.lastClosed = l /\ q.delivered = p.delivered \union {bar} /\ SameFeed(p, q)
    <3> HIDE DEF s, l
    <3> QED
      BY <2>2 DEF Pipes, SameFeed
  <2>4. l[bar.tf] = bar.open
    BY <1>1 DEF Pipes
  <2> HIDE DEF q
  <2>5. Sends(p, bar, q)
    BY <1>1, <1>3, <2>3, <2>4 DEF Sends
  <2> QED
    BY <2>5 DEF q
<1> QED
  BY <1>2, <1>3

\* A bar that goes out is the latest, and the gap it was may be settled.
LEMMA SendsFollows ==
    ASSUME NEW p \in Pipes, NEW q \in Pipes, NEW bar \in Bars, Sends(p, bar, q),
           ServedPlaces(p) \subseteq ServedPlaces(q), \A i \in ServedPlaces(p) : GapAt(q, i) = GapAt(p, i),
           \A i \in ServedPlaces(q) \ ServedPlaces(p) : GapAt(q, i) = bar
    PROVE  Continues(p, q)
<1>1. bar.tf \in Timeframes /\ bar.open \in Int /\ bar = Bar(bar.tf, bar.open)
  BY BarParts DEF Minutes
<1>2. p.lastClosed \in [Timeframes -> Opt]
  BY DEF Pipes
<1>3. \A tf \in Timeframes : p.lastClosed[tf] \in Int /\ q.lastClosed[tf] \in Int
  BY MarksAre
<1>4. \A tf \in Timeframes : tf = bar.tf \/ q.lastClosed[tf] = p.lastClosed[tf]
  BY <1>2 DEF Sends
<1>5. q.lastClosed[bar.tf] = p.lastClosed[bar.tf] \/ (q.lastClosed[bar.tf] = bar.open /\ p.lastClosed[bar.tf] < bar.open)
  BY <1>1, <1>2 DEF Sends
<1>6. \A tf \in Timeframes : p.lastClosed[tf] <= q.lastClosed[tf]
  BY <1>1, <1>3, <1>4, <1>5
<1>7. \A b \in q.delivered \ p.delivered : b = bar /\ p.lastClosed[b.tf] < b.open
  BY DEF Sends
<1>8. ASSUME Ordered(p) PROVE Ordered(q)
  <2>1. ASSUME NEW b \in q.delivered PROVE b.open <= q.lastClosed[b.tf]
    <3>1. b.tf \in Timeframes /\ b.open \in Int
      BY MarksAre
    <3>2. CASE b \in p.delivered
      <4>1. b.open <= p.lastClosed[b.tf]
        BY <1>8, <3>2 DEF Ordered
      <4> QED
        BY <1>3, <1>6, <3>1, <4>1
    <3>3. CASE b \notin p.delivered
      BY <1>7, <3>3 DEF Sends
    <3> QED
      BY <3>2, <3>3
  <2>2. ASSUME NEW tf \in Timeframes PROVE q.lastClosed[tf] = None \/ Bar(tf, q.lastClosed[tf]) \in q.delivered
    <3>1. p.lastClosed[tf] = None \/ Bar(tf, p.lastClosed[tf]) \in p.delivered
      BY <1>8 DEF Ordered
    <3>2. CASE q.lastClosed[tf] = p.lastClosed[tf]
      BY <3>1, <3>2 DEF Sends
    <3>3. CASE q.lastClosed[tf] # p.lastClosed[tf]
      <4>1. tf = bar.tf /\ q.lastClosed[tf] = bar.open
        BY <1>4, <1>5, <3>3
      <4>2. bar \in q.delivered
        BY <3>3 DEF Sends
      <4> QED
        BY <1>1, <4>1, <4>2
    <3> QED
      BY <3>2, <3>3
  <2>3. ASSUME NEW i \in ServedPlaces(q) PROVE GapAt(q, i).open <= q.lastClosed[GapAt(q, i).tf]
    <3>1. CASE i \in ServedPlaces(p)
      <4>1. GapAt(q, i) = GapAt(p, i) /\ GapAt(p, i).open <= p.lastClosed[GapAt(p, i).tf]
        BY <1>8, <3>1 DEF Ordered
      <4>2. GapAt(p, i).tf \in Timeframes /\ GapAt(p, i).open \in Int
        BY <3>1, MarksAre DEF ServedPlaces
      <4> QED
        BY <1>3, <1>6, <4>1, <4>2
    <3>2. CASE i \notin ServedPlaces(p)
      BY <3>2 DEF Sends
    <3> QED
      BY <3>1, <3>2
  <2> QED
    BY <2>1, <2>2, <2>3 DEF Ordered
<1> QED
  BY <1>6, <1>7, <1>8 DEF Continues

\* A method moves bars on and touches nothing of the feed.
Moves(p, q) == SameFeed(p, q) /\ Flows(p, q)

\* The calls that wait, with others of the two kinds that resume nothing before them.
LEMMA AwaitsOn ==
    ASSUME NEW p \in Pipes, NEW q, q.suspended = p.suspended,
           NEW s \in Seq(CallRecords), q.calls = s \o p.calls,
           \A i \in DOMAIN s : s[i].do \in {"offer", "handle"}
    PROVE  Awaits(p) => Awaits(q)
<1> SUFFICES ASSUME Awaits(p), NEW i \in DOMAIN q.calls PROVE q.calls[i].do \in {"offer", "handle"}
  BY DEF Awaits
<1>1. p.calls \in Seq(CallRecords)
  BY DEF Pipes
<1>2. \/ i \in DOMAIN s /\ q.calls[i] = s[i]
      \/ i - Len(s) \in DOMAIN p.calls /\ q.calls[i] = p.calls[i - Len(s)]
  BY <1>1, StackParts
<1> QED
  BY <1>2 DEF Awaits

\* A bar handed on is delivered only where delivery is not suspended.
LEMMA HandleMoves ==
    ASSUME NEW p \in Pipes, NEW r \in Results
    PROVE  Moves(p, Handle(p, r))
<1> DEFINE q == Handle(p, r)
           bar == Bar(r.tf, r.open)
<1>1. bar \in Bars /\ Handled(p, r, q)
  BY HandleDoes DEF Handled
<1>2. q \in Pipes
  BY <1>1 DEF Handled
<1>3. CASE ~r.complete
  <2> DEFINE g == [tf |-> r.tf, open |-> r.open, resolved |-> FALSE]
  <2>1. q = [p EXCEPT !.gaps = Append(p.gaps, g), !.suspended = TRUE]
    BY <1>3 DEF Handle, FoundGap
  <2>2. g \in GapRecords /\ ~g.resolved
    BY DEF GapRecords, Results
  <2> HIDE DEF g, q
  <2>3. q.gaps = Append(p.gaps, g) /\ q.suspended /\ q.calls = p.calls /\ q.lastClosed = p.lastClosed
        /\ q.delivered = p.delivered /\ SameFeed(p, q)
    BY <2>1 DEF Pipes, SameFeed
  <2>4. /\ DOMAIN q.gaps = DOMAIN p.gaps \union {Len(p.gaps) + 1} /\ Len(p.gaps) + 1 \notin DOMAIN p.gaps
        /\ \A j \in DOMAIN p.gaps : q.gaps[j] = p.gaps[j] /\ GapAt(q, j) = GapAt(p, j)
        /\ q.gaps[Len(p.gaps)+1] = g
    BY <1>2, <2>2, <2>3, FoundPlaces
  <2>5. ServedPlaces(q) = ServedPlaces(p) /\ \A i \in ServedPlaces(p) : GapAt(q, i) = GapAt(p, i)
    BY <2>2, <2>4 DEF ServedPlaces
  <2>6. Awaits(p) => Awaits(q)
    BY <2>3 DEF Awaits
  <2>7. Moves(p, q)
    BY <2>3, <2>5, <2>6, StillFlows DEF Moves
  <2> QED
    BY <2>7 DEF q
<1>4. CASE r.complete /\ p.suspended
  <2>1. q = [p EXCEPT !.deferred = p.deferred \union {bar}]
    BY <1>4 DEF Handle
  <2> HIDE DEF q, bar
  <2>2. /\ q.gaps = p.gaps /\ q.suspended = p.suspended /\ q.calls = p.calls
        /\ q.lastClosed = p.lastClosed /\ q.delivered = p.delivered /\ SameFeed(p, q)
    BY <2>1 DEF Pipes, SameFeed
  <2>3. ServedPlaces(q) = ServedPlaces(p) /\ (\A i \in ServedPlaces(p) : GapAt(q, i) = GapAt(p, i)) /\ (Awaits(p) => Awaits(q))
    BY <2>2 DEF ServedPlaces, GapAt, Awaits
  <2>4. Moves(p, q)
    BY <2>2, <2>3, StillFlows DEF Moves
  <2> QED
    BY <2>4 DEF q
<1>5. CASE r.complete /\ ~p.suspended
  <2>1. q = Dispatch(p, bar)
    BY <1>5 DEF Handle
  <2>2. q.gaps = p.gaps
    BY <1>1, <1>5 DEF Handled, SameGaps
  <2> HIDE DEF q, bar
  <2>3. Sends(p, bar, q)
    BY <1>1, <2>1, DispatchSends
  <2>4. ServedPlaces(q) = ServedPlaces(p) /\ \A i \in ServedPlaces(p) : GapAt(q, i) = GapAt(p, i)
    BY <2>2 DEF ServedPlaces, GapAt
  <2>5. Continues(p, q)
    BY <1>1, <1>2, <2>3, <2>4, SendsFollows
  <2>6. HoldsOver(p, q)
    BY <1>5 DEF HoldsOver, Awaits
  <2>7. Moves(p, q)
    BY <2>3, <2>5, <2>6 DEF Moves, Flows, Sends
  <2> QED
    BY <2>7 DEF q
<1> QED
  BY <1>3, <1>4, <1>5

\* A repair settles one place, and its bar goes out or is an old one.
LEMMA RepairMoves ==
    ASSUME NEW p \in Pipes, NEW bar \in Bars
    PROVE  Moves(p, Repair(p, bar))
<1> DEFINE q == Repair(p, bar)
<1>1. RepairedAs(p, bar, q)
  BY RepairDoes
<1>2. q \in Pipes
  BY <1>1 DEF RepairedAs
<1>3. CASE GapPlaces(p, bar) = {}
  <2>1. q = p
    BY <1>3 DEF Repair
  <2> HIDE DEF q
  <2>2. Moves(p, q)
    BY <2>1, StillFlows DEF Moves, SameFeed
  <2> QED
    BY <2>2 DEF q
<1>4. CASE GapPlaces(p, bar) # {}
  <2> DEFINE i == FirstOf(GapPlaces(p, bar))
             c == [do |-> "resume"]
             G == [p.gaps EXCEPT ![i].resolved = TRUE]
             b == [p EXCEPT !.gaps = G, !.calls = <<c>> \o p.calls]
  <2>1. i \in Unresolved(p) /\ GapAt(p, i) = bar /\ i \in DOMAIN p.gaps
    <3>1. GapPlaces(p, bar) \in SUBSET Nat
      BY DEF GapPlaces, Unresolved, Pipes
    <3>2. i \in GapPlaces(p, bar)
      BY <1>4, <3>1, FirstIsOne
    <3> QED
      BY <3>2 DEF GapPlaces, Unresolved
  <2> HIDE DEF i
  <2>2. q = Dispatch(b, bar)
    BY <1>4 DEF Repair, Before, i
  <2>3. p.gaps \in Seq(GapRecords) /\ p.gaps[i] \in GapRecords /\ p.calls \in Seq(CallRecords)
    BY <2>1 DEF Pipes
  <2>4. [p.gaps[i] EXCEPT !.resolved = TRUE] \in GapRecords
    BY <2>3 DEF GapRecords
  <2>5. G \in Seq(GapRecords)
    BY <2>1, <2>3, <2>4
  <2>6. <<c>> \o p.calls \in Seq(CallRecords)
    <3>1. c \in CallRecords
      BY CallsMade
    <3> HIDE DEF c
    <3> QED
      BY <2>3, <3>1
  <2> HIDE DEF c
  <2>7. b \in Pipes
    <3> HIDE DEF G
    <3> QED
      BY <2>5, <2>6 DEF Pipes
  <2>8. b.gaps = G /\ b.lastClosed = p.lastClosed /\ b.delivered = p.delivered /\ SameFeed(p, b)
    <3> HIDE DEF G
    <3> QED
      BY DEF Pipes, SameFeed
  <2> HIDE DEF b, q
  <2>9. Sends(b, bar, q)
    BY <2>2, <2>7, DispatchSends
  <2>10. Dispatched(b, bar, q)
    BY <2>2, <2>7, DispatchDoes
  <2>11. q.gaps = [p.gaps EXCEPT ![i].resolved = TRUE]
    BY <2>8, <2>10 DEF Dispatched, SameGaps
  <2>12. /\ DOMAIN q.gaps = DOMAIN p.gaps
         /\ \A j \in DOMAIN p.gaps : /\ GapAt(q, j) = GapAt(p, j)
                                      /\ (q.gaps[j].resolved <=> j = i \/ p.gaps[j].resolved)
    BY <1>2, <2>1, <2>11, ResolvedPlaces DEF q
  <2>13. ServedPlaces(q) = ServedPlaces(p) \union {i} /\ i \notin ServedPlaces(p)
    BY <2>1, <2>12 DEF ServedPlaces, Unresolved
  <2>14. Sends(p, bar, q)
    BY <2>8, <2>9 DEF Sends, SameFeed
  <2>15. \A j \in ServedPlaces(p) : GapAt(q, j) = GapAt(p, j)
    BY <2>12 DEF ServedPlaces
  <2>16. Continues(p, q)
    BY <1>2, <2>1, <2>12, <2>13, <2>14, <2>15, SendsFollows DEF q
  <2>17. Moves(p, q)
    BY <2>13, <2>14, <2>16 DEF Moves, Flows, HoldsOver, Sends
  <2> QED
    BY <2>17 DEF q
<1> QED
  BY <1>3, <1>4

-----------------------------------------------------------------------------
(* Aggregators *)

\* The bucket in progress begins after the last one that was closed.
Spaced(a) == a.bucket.open # None => a.emitted < a.bucket.open

\* A bucket is emitted, complete or as a gap bucket.
LEMMA EmitDoes ==
    ASSUME NEW a \in Aggregators, NEW tf
    PROVE  /\ EmitBucket(a, tf) \in Aggregators
           /\ EmitBucket(a, tf).bucket = NoBucket /\ EmitBucket(a, tf).emitted = a.bucket.open
<1>1. a.bucket \in Buckets /\ a.bucket.open \in Opt /\ NoBucket \in Buckets /\ a.gapBuckets \in SUBSET Buckets
  BY DEF Aggregators, Buckets, NoBucket, Opt
<1> DEFINE G == IF Complete(tf, a.bucket) THEN a.gapBuckets ELSE a.gapBuckets \union {a.bucket}
<1>2. G \in SUBSET Buckets
  BY <1>1
<1>3. EmitBucket(a, tf) = [a EXCEPT !.bucket = NoBucket, !.emitted = a.bucket.open, !.gapBuckets = G]
  BY DEF EmitBucket
<1> HIDE DEF G
<1> QED
  BY <1>1, <1>2, <1>3 DEF Aggregators

\* What the closed bucket is, if it has one.
LEMMA ResultForm ==
    ASSUME NEW tf \in Timeframes, NEW b \in Buckets, b.open # None
    PROVE  /\ Result(tf, b) \in Results /\ Result(tf, b).tf = tf /\ Result(tf, b).open = b.open
           /\ Result(tf, b).complete => Expected(tf, b.open) = b.have
<1>1. b.open \in Minutes /\ Complete(tf, b) \in BOOLEAN
  BY DEF Buckets, Opt, Complete
<1> QED
  BY <1>1 DEF Result, Results, Complete

\* Sequences of one and of two.
LEMMA OneOrTwo ==
    ASSUME NEW S, NEW x \in S, NEW y \in S
    PROVE  /\ Append(<<>>, x) = <<x>> /\ Append(<<x>>, y) = <<x, y>>
           /\ <<>> \in Seq(S) /\ <<x>> \in Seq(S) /\ <<x, y>> \in Seq(S)
           /\ DOMAIN <<x>> = {1} /\ <<x>>[1] = x
           /\ DOMAIN <<x, y>> = {1, 2} /\ <<x, y>>[1] = x /\ <<x, y>>[2] = y
<1>1. Append(<<>>, x) = <<x>>
  OBVIOUS
<1>2. Append(<<x>>, y) = <<x, y>>
  <2> DEFINE s == <<x>>
             t == Append(s, y)
             u == <<x, y>>
  <2>0. s \in Seq(S)
    OBVIOUS
  <2>1. Len(s) = 1 /\ s[1] = x
    OBVIOUS
  <2>2. u \in Seq(S) /\ Len(u) = 2 /\ u[1] = x /\ u[2] = y
    OBVIOUS
  <2> HIDE DEF s, u
  <2>3. t \in Seq(S) /\ Len(t) = 2 /\ t[1] = x /\ t[2] = y
    <3>1. /\ t \in Seq(S) /\ Len(t) = Len(s) + 1
          /\ t[Len(s)+1] = y /\ \A i \in 1..Len(s) : t[i] = s[i]
      BY <2>0, Appended
    <3> HIDE DEF t
    <3> QED
      BY <2>1, <3>1
  <2> HIDE DEF t
  <2>4. \A i \in 1..Len(t) : t[i] = u[i]
    BY <2>2, <2>3
  <2>5. t = u
    BY <2>2, <2>3, <2>4, SeqEqual
  <2> QED
    BY <2>5 DEF s, t, u
<1>3. <<>> \in Seq(S) /\ <<x>> \in Seq(S) /\ <<x, y>> \in Seq(S)
  OBVIOUS
<1>4. DOMAIN <<x>> = {1} /\ <<x>>[1] = x
  OBVIOUS
<1>5. DOMAIN <<x, y>> = {1, 2} /\ <<x, y>>[1] = x /\ <<x, y>>[2] = y
  OBVIOUS
<1> QED
  BY <1>1, <1>2, <1>3, <1>4, <1>5

\* The results s of a constituent t: made of what the bucket held and t, and, one after
\* the other, of buckets not closed before.
Closes(a, tf, t, b, s) ==
    /\ s \in Seq(Results)
    /\ \A i \in DOMAIN s :
           /\ s[i].tf = tf
           /\ s[i].complete => Expected(tf, s[i].open) \subseteq a.bucket.have \union {t}
           /\ Spaced(a) => a.emitted < s[i].open /\ s[i].open <= b.emitted
    /\ Spaced(a) => /\ a.emitted <= b.emitted
                    /\ \A i, j \in DOMAIN s : s[i].open = s[j].open => i = j
    /\ b \in Aggregators /\ b.bucket.have \subseteq a.bucket.have \union {t}
    /\ Spaced(a) => Spaced(b)

\* add keeps the aggregator's form and says which buckets it closed, complete ones being whole.
LEMMA AddDoes ==
    ASSUME NEW tf \in Timeframes, NEW a \in Aggregators, NEW t \in Minutes
    PROVE  Closes(a, tf, t, Add(a, tf, t).agg, Add(a, tf, t).results)
<1> DEFINE o      == Bucket(tf, t)
           closes == a.bucket.open # None /\ o > a.bucket.open
           fresh  == IF closes THEN EmitBucket(a, tf) ELSE a
           b      == [open |-> o, have |-> fresh.bucket.have \union {t}]
           older  == IF closes THEN <<Result(tf, a.bucket)>> ELSE <<>>
           held   == [fresh EXCEPT !.bucket = b]
           added  == Add(a, tf, t)
<1>1. /\ a.bucket \in Buckets /\ a.bucket.open \in Opt /\ a.bucket.have \in SUBSET Minutes
      /\ a.emitted \in Opt /\ o \in Minutes /\ None \in Int
      /\ \A m \in Opt : m \in Int /\ m >= None
      /\ \A m \in Minutes : m \in Int /\ m > None /\ m \in Opt
  BY BucketMinute, BoundsAssumption DEF Aggregators, Buckets, Opt, Minutes, None
<1>2. CASE o <= a.emitted \/ (a.bucket.open # None /\ o < a.bucket.open)
  <2>1. added = [agg |-> a, results |-> <<>>]
    BY <1>2 DEF Add
  <2>2. added.agg = a /\ added.results = <<>>
    BY <2>1
  <2> QED
    BY <1>1, <2>2 DEF Closes
<1>3. CASE ~(o <= a.emitted \/ (a.bucket.open # None /\ o < a.bucket.open))
  <2>1. added = IF Complete(tf, b) THEN [agg |-> EmitBucket(held, tf), results |-> Append(older, Result(tf, b))]
                                   ELSE [agg |-> held, results |-> older]
    BY <1>3 DEF Add
  <2> HIDE DEF o, added
  <2>2. /\ fresh \in Aggregators /\ fresh.bucket.have \subseteq a.bucket.have
        /\ fresh.emitted = IF closes THEN a.bucket.open ELSE a.emitted
    BY EmitDoes DEF NoBucket
  <2>3. b \in Buckets /\ b.open = o /\ b.have \subseteq a.bucket.have \union {t} /\ t \in b.have
    BY <1>1, <2>2 DEF Buckets
  <2>4. closes => /\ Result(tf, a.bucket) \in Results /\ Result(tf, a.bucket).tf = tf
                  /\ Result(tf, a.bucket).open = a.bucket.open
                  /\ Result(tf, a.bucket).complete => Expected(tf, a.bucket.open) = a.bucket.have
    BY <1>1, ResultForm
  <2>5. /\ Result(tf, b) \in Results /\ Result(tf, b).tf = tf /\ Result(tf, b).open = o
        /\ Result(tf, b).complete => Expected(tf, o) = b.have
    BY <1>1, <2>3, ResultForm
  <2> HIDE DEF fresh, b
  <2>6. held \in Aggregators /\ held.bucket = b /\ held.emitted = fresh.emitted
    BY <2>2, <2>3 DEF Aggregators
  <2> HIDE DEF held
  <2>7. /\ EmitBucket(held, tf) \in Aggregators /\ EmitBucket(held, tf).emitted = o
        /\ EmitBucket(held, tf).bucket = NoBucket
    BY <2>3, <2>6, EmitDoes
  <2>8. a.emitted < o
    BY <1>1, <1>3
  <2>9. closes \/ (~closes /\ (a.bucket.open = None \/ a.bucket.open = o))
    BY <1>1, <1>3
  <2>10. (closes => older = <<Result(tf, a.bucket)>>) /\ (~closes => older = <<>>)
    OBVIOUS
  <2> DEFINE first == Result(tf, a.bucket)
             last == Result(tf, b)
  <2>11. /\ added.agg \in Aggregators
         /\ Complete(tf, b) => added.agg.bucket = NoBucket /\ added.agg.emitted = o
         /\ ~Complete(tf, b) => added.agg.bucket = b /\ added.agg.emitted = fresh.emitted
    BY <2>1, <2>6, <2>7
  <2>12. /\ added.agg.bucket.have \subseteq a.bucket.have \union {t}
         /\ Spaced(a) => Spaced(added.agg) /\ a.emitted <= added.agg.emitted
    BY <1>1, <2>2, <2>3, <2>8, <2>9, <2>11 DEF Spaced, NoBucket
  <2>17. closes => a.bucket.open < o /\ a.bucket.open # None
    BY <1>1
  <2> DEFINE d == added.agg
             s == added.results
             Good(r) == /\ r \in Results /\ r.tf = tf
                        /\ r.complete => Expected(tf, r.open) \subseteq a.bucket.have \union {t}
                        /\ Spaced(a) => a.emitted < r.open /\ r.open <= d.emitted
  <2>18. Complete(tf, b) => Good(last)
    BY <1>1, <2>3, <2>5, <2>8, <2>11 DEF last
  <2> HIDE DEF closes, older, last
  <2>19. closes => Good(first) /\ first.open < o
    BY <1>1, <2>2, <2>4, <2>11, <2>17 DEF first, Spaced
  <2>20. Complete(tf, b) => last.open = o
    BY <2>5 DEF last
  <2> HIDE DEF first
  <2>13. CASE Complete(tf, b) /\ closes
    <3>1. older = <<first>> /\ s = Append(older, last)
      BY <2>1, <2>10, <2>13 DEF first, last
    <3>2. s = <<first, last>> /\ DOMAIN s = {1, 2} /\ s[1] = first /\ s[2] = last /\ s \in Seq(Results)
      BY <2>13, <2>18, <2>19, <3>1, OneOrTwo
    <3> HIDE DEF s, d
    <3>3. \A i \in DOMAIN s : Good(s[i])
      BY <2>13, <2>18, <2>19, <3>2
    <3>4. \A i, j \in DOMAIN s : s[i].open = s[j].open => i = j
      BY <1>1, <2>13, <2>19, <2>20, <3>2
    <3>5. Closes(a, tf, t, d, s)
      BY <2>11, <2>12, <3>2, <3>3, <3>4 DEF Closes, d
    <3> QED
      BY <3>5 DEF s, d, added
  <2>14. CASE Complete(tf, b) /\ ~closes
    <3>1. older = <<>> /\ s = Append(older, last)
      BY <2>1, <2>10, <2>14 DEF last
    <3>2. s = <<last>> /\ DOMAIN s = {1} /\ s[1] = last /\ s \in Seq(Results)
      BY <2>14, <2>18, <3>1, OneOrTwo
    <3> HIDE DEF s, d
    <3>3. \A i \in DOMAIN s : Good(s[i])
      BY <2>14, <2>18, <3>2
    <3>4. \A i, j \in DOMAIN s : s[i].open = s[j].open => i = j
      BY <3>2
    <3>5. Closes(a, tf, t, d, s)
      BY <2>11, <2>12, <3>2, <3>3, <3>4 DEF Closes, d
    <3> QED
      BY <3>5 DEF s, d, added
  <2>15. CASE ~Complete(tf, b) /\ closes
    <3>1. s = <<first>>
      BY <2>1, <2>10, <2>15 DEF first
    <3>2. DOMAIN s = {1} /\ s[1] = first /\ s \in Seq(Results)
      BY <2>15, <2>19, <3>1, OneOrTwo
    <3> HIDE DEF s, d
    <3>3. \A i \in DOMAIN s : Good(s[i])
      BY <2>15, <2>19, <3>2
    <3>4. \A i, j \in DOMAIN s : s[i].open = s[j].open => i = j
      BY <3>2
    <3>5. Closes(a, tf, t, d, s)
      BY <2>11, <2>12, <3>2, <3>3, <3>4 DEF Closes, d
    <3> QED
      BY <3>5 DEF s, d, added
  <2>16. CASE ~Complete(tf, b) /\ ~closes
    <3>1. s = <<>>
      BY <2>1, <2>10, <2>16
    <3>2. DOMAIN s = {} /\ s \in Seq(Results)
      BY <3>1
    <3> HIDE DEF s, d
    <3>3. Closes(a, tf, t, d, s)
      BY <2>11, <2>12, <3>2 DEF Closes, d
    <3> QED
      BY <3>3 DEF s, d, added
  <2> QED
    BY <2>13, <2>14, <2>15, <2>16
<1> QED
  BY <1>2, <1>3

\* try_complete_gap keeps the aggregator's form.
LEMMA LateDoes ==
    ASSUME NEW tf, NEW a \in Aggregators, NEW t \in Minutes, LateBuckets(a, tf, t) # {}
    PROVE  /\ WithLate(a, tf, t) \in Aggregators
           /\ WithLate(a, tf, t).bucket = a.bucket /\ WithLate(a, tf, t).emitted = a.emitted
<1> DEFINE b == CHOOSE b \in LateBuckets(a, tf, t) : TRUE
           c == [b EXCEPT !.have = @ \union {t}]
           G == (a.gapBuckets \ {b}) \union (IF Complete(tf, c) THEN {} ELSE {c})
<1>1. b \in a.gapBuckets /\ a.gapBuckets \in SUBSET Buckets
  BY DEF LateBuckets, Aggregators
<1>2. WithLate(a, tf, t) = [a EXCEPT !.gapBuckets = G]
  BY DEF WithLate
<1> HIDE DEF b
<1>3. c \in Buckets
  BY <1>1 DEF Buckets
<1> HIDE DEF c
<1>4. G \in SUBSET Buckets
  BY <1>1, <1>3
<1> HIDE DEF G
<1> QED
  BY <1>2, <1>4 DEF Aggregators

HandleEach(s) == [i \in DOMAIN s |-> [do |-> "handle", result |-> s[i]]]

\* The aggregator of tf took t in, and what it closed will be handled.
Fed(p, tf, t, b) ==
    \E a, s : /\ Closes(p.agg[tf], tf, t, a, s)
              /\ b = [p EXCEPT !.agg = [p.agg EXCEPT ![tf] = a], !.calls = HandleEach(s) \o p.calls]

\* The calls that hand results on.
LEMMA HandleEachForm ==
    ASSUME NEW s \in Seq(Results)
    PROVE  /\ HandleEach(s) \in Seq(CallRecords) /\ DOMAIN HandleEach(s) = DOMAIN s
           /\ \A i \in DOMAIN s : /\ HandleEach(s)[i] = [do |-> "handle", result |-> s[i]]
                                  /\ HandleEach(s)[i].do = "handle" /\ HandleEach(s)[i].result = s[i]
<1>1. \A i \in DOMAIN s : s[i] \in Results
  OBVIOUS
<1>2. \A r \in Results : [do |-> "handle", result |-> r] \in CallRecords
  BY CallsMade
<1>3. \A i \in DOMAIN s : HandleEach(s)[i] \in CallRecords
  BY <1>1, <1>2 DEF HandleEach
<1>4. DOMAIN s = 1..Len(s) /\ Len(s) \in Nat /\ HandleEach(s) = [i \in 1..Len(s) |-> HandleEach(s)[i]]
  BY DEF HandleEach
<1>5. HandleEach(s) \in Seq(CallRecords)
  BY <1>3, <1>4, IsASeq
<1> QED
  BY <1>1, <1>5 DEF HandleEach

\* A constituent fed to an aggregator leaves a pipeline.
LEMMA FedIsPipe ==
    ASSUME NEW p \in Pipes, NEW tf \in Timeframes, NEW t, NEW b, Fed(p, tf, t, b)
    PROVE  b \in Pipes
<1>1. PICK a, s : /\ Closes(p.agg[tf], tf, t, a, s)
                  /\ b = [p EXCEPT !.agg = [p.agg EXCEPT ![tf] = a], !.calls = HandleEach(s) \o p.calls]
  BY DEF Fed
<1>2. [p.agg EXCEPT ![tf] = a] \in [Timeframes -> Aggregators]
  BY <1>1 DEF Closes, Pipes
<1>3. HandleEach(s) \o p.calls \in Seq(CallRecords)
  BY <1>1, HandleEachForm, StackParts DEF Closes, Pipes
<1> QED
  BY <1>1, <1>2, <1>3 DEF Pipes

Offered(p, tf, t, q) ==
    /\ q \in Pipes
    /\ \E b : /\ Fed(p, tf, t, b)
              /\ q = b \/ \E bar \in Bars : RepairedAs(b, bar, q) /\ Moves(b, q)

\* A closed bar is taken in, and may repair the gap it is late for.
LEMMA OfferToDoes ==
    ASSUME NEW p \in Pipes, NEW tf \in Timeframes, NEW t \in Minutes
    PROVE  Offered(p, tf, t, OfferTo(p, tf, t))
<1> DEFINE added == Add(p.agg[tf], tf, t)
           g     == [p EXCEPT !.agg[tf] = added.agg]
           late  == [g EXCEPT !.agg[tf] = WithLate(@, tf, t)]
           q     == OfferTo(p, tf, t)
<1>1. p.agg[tf] \in Aggregators /\ p.agg \in [Timeframes -> Aggregators] /\ p.calls \in Seq(CallRecords)
  BY DEF Pipes
<1>2. Closes(p.agg[tf], tf, t, added.agg, added.results)
  BY <1>1, AddDoes
<1>3. q = IF added.results # <<>> THEN Before(g, HandleEach(added.results))
          ELSE IF LateBuckets(g.agg[tf], tf, t) = {} THEN g
          ELSE IF CompletesLate(g.agg[tf], tf, t) THEN Repair(late, Bar(tf, Bucket(tf, t)))
          ELSE late
  BY DEF OfferTo, TakenIn, HandleEach
<1>4. g.agg[tf] = added.agg /\ added.agg \in Aggregators /\ added.results \in Seq(Results)
  BY <1>1, <1>2 DEF Closes, Pipes
<1>5. Bar(tf, Bucket(tf, t)) \in Bars
  BY BarParts, BucketMinute
<1>6. g = [p EXCEPT !.agg = [p.agg EXCEPT ![tf] = added.agg]]
  OBVIOUS
<1>7. late = [p EXCEPT !.agg = [p.agg EXCEPT ![tf] = WithLate(added.agg, tf, t)]]
  BY <1>1, <1>4 DEF Pipes
<1> HIDE DEF added, g, late, q
<1>8. CASE added.results # <<>>
  <2>1. g \in Pipes /\ g.calls = p.calls
    BY <1>1, <1>4, <1>6 DEF Pipes
  <2>2. q = [g EXCEPT !.calls = HandleEach(added.results) \o p.calls]
    <3>1. HandleEach(added.results) \in Seq(CallRecords)
      BY <1>4, HandleEachForm
    <3>2. q = Before(g, HandleEach(added.results))
      BY <1>3, <1>8
    <3>3. Before(g, HandleEach(added.results)) = [g EXCEPT !.calls = HandleEach(added.results) \o g.calls]
      BY <2>1, <3>1, BeforeDoes
    <3> QED
      BY <2>1, <3>2, <3>3
  <2>3. q = [p EXCEPT !.agg = [p.agg EXCEPT ![tf] = added.agg], !.calls = HandleEach(added.results) \o p.calls]
    BY <1>6, <2>2 DEF Pipes
  <2>4. Fed(p, tf, t, q)
    BY <1>2, <2>3 DEF Fed
  <2>5. q \in Pipes
    BY <2>4, FedIsPipe
  <2> QED
    BY <2>4, <2>5 DEF Offered, q
<1>9. CASE added.results = <<>>
  <2>1. HandleEach(<<>>) \o p.calls = p.calls
    <3>1. HandleEach(<<>>) = <<>>
      BY DEF HandleEach
    <3> QED
      BY <1>1, <3>1
  <2>2. ASSUME NEW a, Closes(p.agg[tf], tf, t, a, <<>>), NEW b, b = [p EXCEPT !.agg = [p.agg EXCEPT ![tf] = a]]
        PROVE  Fed(p, tf, t, b)
    <3>1. b = [p EXCEPT !.agg = [p.agg EXCEPT ![tf] = a], !.calls = HandleEach(<<>>) \o p.calls]
      BY <2>1, <2>2 DEF Pipes
    <3> QED
      BY <2>2, <3>1 DEF Fed
  <2>3. Fed(p, tf, t, g)
    BY <1>2, <1>6, <1>9, <2>2
  <2>4. CASE q = g
    <3>1. g \in Pipes
      BY <2>3, FedIsPipe
    <3> QED
      BY <2>3, <2>4, <3>1 DEF Offered, q
  <2>5. CASE LateBuckets(added.agg, tf, t) # {}
    <3>1. /\ WithLate(added.agg, tf, t) \in Aggregators
          /\ WithLate(added.agg, tf, t).bucket = added.agg.bucket
          /\ WithLate(added.agg, tf, t).emitted = added.agg.emitted
      BY <1>4, <2>5, LateDoes
    <3>2. Closes(p.agg[tf], tf, t, WithLate(added.agg, tf, t), <<>>)
      BY <1>2, <1>9, <3>1 DEF Closes, Spaced
    <3>3. Fed(p, tf, t, late) /\ late \in Pipes
      BY <1>7, <2>2, <3>2, FedIsPipe
    <3>4. CASE q = late
      BY <3>3, <3>4 DEF Offered, q
    <3>5. CASE q = Repair(late, Bar(tf, Bucket(tf, t)))
      <4>1. RepairedAs(late, Bar(tf, Bucket(tf, t)), q) /\ Moves(late, q)
        BY <1>5, <3>3, <3>5, RepairDoes, RepairMoves
      <4>2. q \in Pipes
        BY <4>1 DEF RepairedAs
      <4> QED
        BY <1>5, <3>3, <4>1, <4>2 DEF Offered, q
    <3> QED
      BY <1>3, <1>4, <1>9, <2>4, <2>5, <3>4, <3>5
  <2> QED
    BY <1>3, <1>4, <1>9, <2>4, <2>5
<1> QED
  BY <1>8, <1>9

-----------------------------------------------------------------------------
(* What the methods keep: the gaps found, and why delivery is suspended *)

\* Delivery is suspended while a gap is left, and resumes when none is.
Suspends(p) ==
    /\ Unresolved(p) # {} => p.suspended
    /\ p.suspended /\ Unresolved(p) = {} => \E i \in DOMAIN p.calls : p.calls[i].do = "resume"

\* Gaps are added and resolved, and never change otherwise; what went out is out.
GapsFollow(p, q) ==
    /\ Len(p.gaps) <= Len(q.gaps)
    /\ \A i \in DOMAIN p.gaps : /\ GapAt(q, i) = GapAt(p, i)
                                /\ p.gaps[i].resolved => q.gaps[i].resolved
    /\ p.delivered \subseteq q.delivered

\* Gaps that did not change follow, and following is transitive.
LEMMA GapsFollowOn ==
    ASSUME NEW p \in Pipes, NEW q \in Pipes, NEW r \in Pipes
    PROVE  /\ SameGaps(p, q) /\ p.delivered \subseteq q.delivered => GapsFollow(p, q)
           /\ GapsFollow(p, q) /\ GapsFollow(q, r) => GapsFollow(p, r)
<1>1. p.gaps \in Seq(GapRecords) /\ q.gaps \in Seq(GapRecords) /\ r.gaps \in Seq(GapRecords)
  BY DEF Pipes
<1>2. Len(p.gaps) \in Nat /\ Len(q.gaps) \in Nat /\ Len(r.gaps) \in Nat
      /\ DOMAIN p.gaps = 1..Len(p.gaps) /\ DOMAIN q.gaps = 1..Len(q.gaps)
  BY <1>1
<1>3. SameGaps(p, q) /\ p.delivered \subseteq q.delivered => GapsFollow(p, q)
  BY <1>2 DEF SameGaps, GapsFollow, GapAt
<1>4. ASSUME GapsFollow(p, q), GapsFollow(q, r) PROVE GapsFollow(p, r)
  <2>1. DOMAIN p.gaps \subseteq DOMAIN q.gaps /\ Len(p.gaps) <= Len(r.gaps)
    BY <1>2, <1>4 DEF GapsFollow
  <2> QED
    BY <1>4, <2>1 DEF GapsFollow
<1> QED
  BY <1>3, <1>4

\* A repair, which resumes delivery in the end, keeps why delivery is suspended.
LEMMA RepairedKeeps ==
    ASSUME NEW p \in Pipes, NEW bar \in Bars, NEW q, RepairedAs(p, bar, q)
    PROVE  /\ SameMinutes(p, q) /\ GapsFollow(p, q)
           /\ Suspends(p) => Suspends(q)
<1>1. CASE q = p
  BY <1>1, GapsFollowOn DEF SameMinutes, SameGaps
<1>2. CASE \E i \in Unresolved(p) : \E s :
              /\ GapAt(p, i) = bar
              /\ q.gaps = [p.gaps EXCEPT ![i].resolved = TRUE]
              /\ q.delivered \in {p.delivered, p.delivered \union {bar}}
              /\ Offers(s, bar, q) /\ q.calls = s \o (<<[do |-> "resume"]>> \o p.calls)
  <2>1. PICK i \in Unresolved(p) : \E s :
              /\ GapAt(p, i) = bar
              /\ q.gaps = [p.gaps EXCEPT ![i].resolved = TRUE]
              /\ q.delivered \in {p.delivered, p.delivered \union {bar}}
              /\ Offers(s, bar, q) /\ q.calls = s \o (<<[do |-> "resume"]>> \o p.calls)
    BY <1>2
  <2>2. PICK s : Offers(s, bar, q) /\ q.calls = s \o (<<[do |-> "resume"]>> \o p.calls)
    BY <2>1
  <2>3. q \in Pipes /\ q.suspended = p.suspended /\ SameMinutes(p, q)
    BY DEF RepairedAs
  <2>4. GapsFollow(p, q)
    <3>1. Len(p.gaps) \in Nat
      BY DEF Pipes
    <3> QED
      BY <2>1, <2>3, <3>1, ResolvedPlaces DEF GapsFollow
  <2>5. \E j \in DOMAIN q.calls : q.calls[j].do = "resume"
    <3> DEFINE c == [do |-> "resume"]
    <3>1. c \in CallRecords /\ c.do = "resume"
      BY CallsMade
    <3> HIDE DEF c
    <3>2. <<c>> \in Seq(CallRecords) /\ p.calls \in Seq(CallRecords) /\ s \in Seq(CallRecords)
      BY <2>2, <3>1 DEF Pipes, Offers
    <3>3. 1 \in DOMAIN <<c>> /\ <<c>>[1] = c /\ Len(<<c>>) = 1
      BY <3>1
    <3>4. c \in {(<<c>> \o p.calls)[j] : j \in DOMAIN (<<c>> \o p.calls)} /\ <<c>> \o p.calls \in Seq(CallRecords)
      BY <3>2, <3>3
    <3>5. PICK j \in DOMAIN (<<c>> \o p.calls) : (<<c>> \o p.calls)[j] = c
      BY <3>4
    <3> DEFINE t == <<c>> \o p.calls
    <3>6. q.calls = s \o t
      BY <2>2 DEF c
    <3>7. t \in Seq(CallRecords) /\ j \in DOMAIN t /\ t[j] = c
      BY <3>4, <3>5
    <3> HIDE DEF t
    <3>8. j + Len(s) \in DOMAIN (s \o t) /\ (s \o t)[j + Len(s)] = t[j]
      BY <3>2, <3>7, StackParts
    <3> QED
      BY <3>1, <3>6, <3>7, <3>8
  <2>6. p.suspended /\ Suspends(p) => Suspends(q)
    BY <2>3, <2>5 DEF Suspends
  <2> QED
    BY <2>1, <2>3, <2>4, <2>6 DEF Suspends
<1> QED
  BY <1>1, <1>2 DEF RepairedAs

Resuming(s) == \E i \in DOMAIN s : s[i].do = "resume"

\* A call to resume that waits still waits behind more calls.
LEMMA StillResuming ==
    ASSUME NEW s \in Seq(CallRecords), NEW t \in Seq(CallRecords), Resuming(t)
    PROVE  Resuming(s \o t)
<1>1. PICK j \in DOMAIN t : t[j].do = "resume"
  BY DEF Resuming
<1>2. j + Len(s) \in DOMAIN (s \o t) /\ (s \o t)[j + Len(s)] = t[j]
  BY StackParts
<1> QED
  BY <1>1, <1>2 DEF Resuming

\* With other calls to make first, or one of another kind off the stack.
LEMMA SuspendsOn ==
    ASSUME NEW p \in Pipes, NEW q \in Pipes, SameGaps(p, q), Suspends(p)
    PROVE  /\ \A s \in Seq(CallRecords) : q.calls = s \o p.calls => Suspends(q)
           /\ (/\ p.calls # <<>> /\ q.calls = Tail(p.calls)
               /\ Head(p.calls).do # "resume") => Suspends(q)
<1>1. Unresolved(q) = Unresolved(p) /\ q.suspended = p.suspended /\ p.calls \in Seq(CallRecords)
  BY DEF SameGaps, Unresolved, Pipes
<1>2. p.suspended /\ Unresolved(p) = {} => Resuming(p.calls)
  BY DEF Suspends, Resuming
<1>3. ASSUME NEW s \in Seq(CallRecords), q.calls = s \o p.calls PROVE Suspends(q)
  <2>1. Resuming(p.calls) => Resuming(q.calls)
    BY <1>1, <1>3, StillResuming
  <2> QED
    BY <1>1, <1>2, <2>1 DEF Suspends, Resuming
<1>4. ASSUME p.calls # <<>>, q.calls = Tail(p.calls), Head(p.calls).do # "resume" PROVE Suspends(q)
  <2>1. Resuming(p.calls) => Resuming(q.calls)
    <3>1. ASSUME NEW i \in DOMAIN p.calls, p.calls[i].do = "resume" PROVE Resuming(q.calls)
      <4>1. Head(p.calls) = p.calls[1] /\ (i = 1 \/ (i - 1 \in DOMAIN Tail(p.calls) /\ Tail(p.calls)[i-1] = p.calls[i]))
        BY <1>1, <1>4, StackRest
      <4>2. i # 1
        BY <1>4, <3>1, <4>1
      <4> QED
        BY <1>4, <3>1, <4>1, <4>2 DEF Resuming
    <3> QED
      BY <3>1 DEF Resuming
  <2> QED
    BY <1>1, <1>2, <2>1 DEF Suspends, Resuming
<1> QED
  BY <1>3, <1>4

\* Feeding an aggregator changes neither the gaps nor what is delivered.
LEMMA FedChanges ==
    ASSUME NEW p \in Pipes, NEW tf \in Timeframes, NEW t, NEW b, Fed(p, tf, t, b)
    PROVE  /\ b \in Pipes /\ SameMinutes(p, b) /\ SameGaps(p, b)
           /\ b.deferred = p.deferred /\ b.delivered = p.delivered
           /\ \E a, s : /\ Closes(p.agg[tf], tf, t, a, s) /\ b.agg = [p.agg EXCEPT ![tf] = a]
                        /\ b.calls = HandleEach(s) \o p.calls
<1>1. PICK a, s : /\ Closes(p.agg[tf], tf, t, a, s)
                  /\ b = [p EXCEPT !.agg = [p.agg EXCEPT ![tf] = a], !.calls = HandleEach(s) \o p.calls]
  BY DEF Fed
<1>2. b \in Pipes
  BY FedIsPipe
<1>3. /\ SameMinutes(p, b) /\ SameGaps(p, b) /\ b.deferred = p.deferred /\ b.delivered = p.delivered
      /\ b.agg = [p.agg EXCEPT ![tf] = a] /\ b.calls = HandleEach(s) \o p.calls
  BY <1>1 DEF Pipes, SameMinutes, SameGaps
<1> QED
  BY <1>1, <1>2, <1>3

\* What a call does to minutes, gaps and their suspension.
Keeps(p, q) ==
    /\ q \in Pipes /\ SameMinutes(p, q) /\ GapsFollow(p, q)
    /\ Suspends(p) => Suspends(q)

\* What one step and the next keep, both keep.
LEMMA KeepsOn ==
    ASSUME NEW p \in Pipes, NEW q \in Pipes, NEW r
    PROVE  /\ Keeps(p, p)
           /\ Keeps(p, q) /\ Keeps(q, r) => Keeps(p, r)
<1>1. Keeps(p, p)
  BY GapsFollowOn DEF Keeps, SameMinutes, SameGaps
<1>2. ASSUME Keeps(p, q), Keeps(q, r) PROVE Keeps(p, r)
  <2>1. r \in Pipes
    BY <1>2 DEF Keeps
  <2> QED
    BY <1>2, <2>1, GapsFollowOn DEF Keeps, SameMinutes
<1> QED
  BY <1>1, <1>2

\* Offering a bar to an aggregator keeps it.
LEMMA OfferedKeeps ==
    ASSUME NEW p \in Pipes, NEW tf \in Timeframes, NEW t, NEW q, Offered(p, tf, t, q)
    PROVE  Keeps(p, q)
<1>1. PICK b : Fed(p, tf, t, b) /\ (q = b \/ \E bar \in Bars : RepairedAs(b, bar, q))
  BY DEF Offered
<1>2. b \in Pipes /\ SameMinutes(p, b) /\ SameGaps(p, b) /\ b.delivered = p.delivered
  BY <1>1, FedChanges
<1>3. \E s : Closes(p.agg[tf], tf, t, b.agg[tf], s) /\ b.calls = HandleEach(s) \o p.calls
  <2>1. PICK a, s : /\ Closes(p.agg[tf], tf, t, a, s)
                    /\ b = [p EXCEPT !.agg = [p.agg EXCEPT ![tf] = a], !.calls = HandleEach(s) \o p.calls]
    BY <1>1 DEF Fed
  <2> QED
    BY <2>1 DEF Pipes
<1>4. \E s \in Seq(CallRecords) : b.calls = s \o p.calls
  BY <1>3, HandleEachForm DEF Closes
<1>5. Keeps(p, b)
  BY <1>2, <1>4, SuspendsOn, GapsFollowOn DEF Keeps
<1>6. ASSUME NEW bar \in Bars, RepairedAs(b, bar, q) PROVE Keeps(b, q)
  BY <1>2, <1>6, RepairedKeeps DEF Keeps, RepairedAs
<1> QED
  BY <1>1, <1>2, <1>5, <1>6, KeepsOn

\* Handling a result keeps it, whether the result is delivered, deferred or a gap.
LEMMA HandledKeeps ==
    ASSUME NEW p \in Pipes, NEW r \in Results, NEW q, Handled(p, r, q)
    PROVE  Keeps(p, q)
<1>1. q \in Pipes /\ SameMinutes(p, q)
  BY DEF Handled
<1>2. PICK s : Offers(s, Bar(r.tf, r.open), q) /\ q.calls = s \o p.calls
  BY DEF Handled
<1>3. CASE r.complete
  <2>1. SameGaps(p, q) /\ p.delivered \subseteq q.delivered
    BY <1>3 DEF Handled
  <2> QED
    BY <1>1, <1>2, <2>1, SuspendsOn, GapsFollowOn DEF Keeps, Offers
<1>4. CASE ~r.complete
  <2> DEFINE g == [tf |-> r.tf, open |-> r.open, resolved |-> FALSE]
  <2>1. g \in GapRecords /\ ~g.resolved
    BY DEF GapRecords, Results
  <2>2. q.gaps = Append(p.gaps, g) /\ q.suspended /\ q.delivered = p.delivered
    BY <1>4 DEF Handled
  <2> HIDE DEF g
  <2>3. /\ DOMAIN q.gaps = DOMAIN p.gaps \union {Len(p.gaps) + 1} /\ Len(q.gaps) = Len(p.gaps) + 1
        /\ \A j \in DOMAIN p.gaps : q.gaps[j] = p.gaps[j] /\ GapAt(q, j) = GapAt(p, j)
        /\ Unresolved(q) = Unresolved(p) \union {Len(p.gaps) + 1}
    BY <1>1, <2>1, <2>2, FoundPlaces
  <2>4. Len(p.gaps) \in Nat
    BY DEF Pipes
  <2>5. GapsFollow(p, q)
    BY <2>2, <2>3, <2>4 DEF GapsFollow
  <2>6. Suspends(q)
    BY <2>2, <2>3 DEF Suspends
  <2> QED
    BY <1>1, <2>5, <2>6 DEF Keeps
<1> QED
  BY <1>3, <1>4

\* Releasing a deferred bar keeps it.
LEMMA ReleasedKeeps ==
    ASSUME NEW p \in Pipes, NEW left \in SUBSET Bars, NEW keep \in SUBSET Bars, NEW q,
           ReleasedAs(p, left, keep, q)
    PROVE  Keeps(p, q)
<1>1. q \in Pipes /\ SameMinutes(p, q) /\ SameGaps(p, q) /\ p.delivered \subseteq q.delivered
  BY DEF ReleasedAs
<1>2. \E s \in Seq(CallRecords) : q.calls = s \o p.calls
  <2>1. p.calls \in Seq(CallRecords)
    BY DEF Pipes
  <2>2. CASE q.calls = p.calls
    <3>1. <<>> \in Seq(CallRecords) /\ q.calls = <<>> \o p.calls
      BY <2>1, <2>2, StackParts
    <3> QED
      BY <3>1
  <2>3. ASSUME NEW bar \in left, NEW s, Offers(s, bar, q),
               q.calls = s \o (<<[do |-> "release", left |-> left \ {bar}, keep |-> keep]>> \o p.calls)
        PROVE  \E t \in Seq(CallRecords) : q.calls = t \o p.calls
    <3> DEFINE c == [do |-> "release", left |-> left \ {bar}, keep |-> keep]
    <3>1. c \in CallRecords
      BY CallsMade
    <3>2. q.calls = s \o (<<c>> \o p.calls) /\ s \in Seq(CallRecords)
      BY <2>3 DEF Offers
    <3> HIDE DEF c
    <3>3. <<c>> \in Seq(CallRecords)
      BY <3>1
    <3> DEFINE t == <<c>>
    <3> HIDE DEF t
    <3>4. s \in Seq(CallRecords)
      BY <3>2
    <3>5. t \in Seq(CallRecords)
      BY <3>3 DEF t
    <3>6. s \o (t \o p.calls) = (s \o t) \o p.calls /\ s \o t \in Seq(CallRecords)
      BY <2>1, <3>4, <3>5, StackJoins
    <3> QED
      BY <3>2, <3>6 DEF t
  <2> QED
    BY <2>2, <2>3 DEF ReleasedAs
<1> QED
  BY <1>1, <1>2, SuspendsOn, GapsFollowOn DEF Keeps

\* Resuming keeps it: delivery is no longer suspended exactly when no gap is left.
LEMMA ResumedKeeps ==
    ASSUME NEW p \in Pipes, NEW q, ResumedAs(p, q), Unresolved(p) # {} => p.suspended
    PROVE  q \in Pipes /\ SameMinutes(p, q) /\ GapsFollow(p, q) /\ Suspends(q)
<1>1. q \in Pipes /\ SameMinutes(p, q) /\ q.gaps = p.gaps /\ q.delivered = p.delivered
      /\ q.suspended = (p.suspended /\ Unresolved(p) # {})
  BY DEF ResumedAs
<1>2. Unresolved(q) = Unresolved(p)
  BY <1>1 DEF Unresolved
<1>3. GapsFollow(p, q)
  <2>1. Len(p.gaps) \in Nat
    BY DEF Pipes
  <2> QED
    BY <1>1, <2>1 DEF GapsFollow, GapAt
<1> QED
  BY <1>1, <1>2, <1>3 DEF Suspends

-----------------------------------------------------------------------------
(* One call, and all of them *)

Rest(p) == [p EXCEPT !.calls = Tail(p.calls)]

\* The bar goes to the first of its aggregators, the others follow.
OfferedOn(p, bar, to, q) ==
    \E tf \in to : LET f == [p EXCEPT !.calls = Offering(bar, to \ {tf}) \o p.calls] IN
        f \in Pipes /\ Offered(f, tf, bar.open, q)

\* q is p after the first of its calls.
Called(p, q) ==
    LET c == Head(p.calls)
        r == Rest(p)
    IN  \/ c.do = "offer" /\ c.bar \in Bars /\ c.to \in SUBSET Timeframes /\ OfferedOn(r, c.bar, c.to, q)
        \/ c.do = "handle" /\ c.result \in Results /\ Handled(r, c.result, q)
        \/ c.do = "resume" /\ ResumedAs(r, q)
        \/ /\ c.do = "release" /\ c.left \in SUBSET Bars /\ c.keep \in SUBSET Bars
           /\ ReleasedAs(r, c.left, c.keep, q)

\* A pipeline whose next call was taken off the list.
LEMMA RestIsPipe ==
    ASSUME NEW p \in Pipes, p.calls # <<>>
    PROVE  /\ Rest(p) \in Pipes /\ Head(p.calls) \in CallRecords
           /\ SameMinutes(p, Rest(p)) /\ SameGaps(p, Rest(p)) /\ Rest(p).agg = p.agg
           /\ Rest(p).deferred = p.deferred /\ Rest(p).delivered = p.delivered
           /\ Rest(p).calls = Tail(p.calls)
<1>1. p.calls \in Seq(CallRecords)
  BY DEF Pipes
<1>2. Head(p.calls) \in CallRecords /\ Tail(p.calls) \in Seq(CallRecords)
  BY <1>1, StackRest
<1> QED
  BY <1>2 DEF Rest, Pipes, SameMinutes, SameGaps

\* Every call is one of the four methods at work.
LEMMA MakeCallDoes ==
    ASSUME NEW p \in Pipes
    PROVE  /\ p.calls = <<>> => MakeCall(p) = p
           /\ p.calls # <<>> => Called(p, MakeCall(p))
<1>1. CASE p.calls = <<>>
  BY <1>1 DEF MakeCall
<1>2. CASE p.calls # <<>>
  <2> DEFINE c == Head(p.calls)
             r == Rest(p)
             q == MakeCall(p)
  <2>1. r \in Pipes /\ c \in CallRecords
    BY <1>2, RestIsPipe
  <2>2. /\ c.do = "offer" => q = Offer(r, c.bar, c.to)
        /\ c.do = "handle" => q = Handle(r, c.result)
        /\ c.do = "resume" => q = Resume(r)
        /\ c.do = "release" => q = Release(r, c.left, c.keep)
    BY <1>2 DEF MakeCall, Rest
  <2>3. \/ c.do = "offer" /\ c.bar \in Bars /\ c.to \in SUBSET Timeframes /\ c.to # {}
        \/ c.do = "handle" /\ c.result \in Results
        \/ c.do = "resume"
        \/ c.do = "release" /\ c.left \in SUBSET Bars /\ c.keep \in SUBSET Bars
    BY <2>1, CallForms
  <2> HIDE DEF c, r, q
  <2>4. ASSUME c.do = "offer", c.bar \in Bars, c.to \in SUBSET Timeframes, c.to # {}
        PROVE  OfferedOn(r, c.bar, c.to, q)
    <3> DEFINE tf == Shortest(c.to)
               s == Offering(c.bar, c.to \ {tf})
               f == [r EXCEPT !.calls = s \o r.calls]
    <3>1. tf \in c.to /\ tf \in Timeframes /\ c.bar.open \in Minutes
      BY <2>4, ShortestIsOne, BarParts
    <3>2. s \in Seq(CallRecords)
      BY <2>4, OfferingDoes
    <3>3. q = OfferTo(Before(r, s), tf, c.bar.open)
      BY <2>2, <2>4 DEF Offer
    <3> HIDE DEF tf, s
    <3>4. f \in Pipes /\ Before(r, s) = f
      BY <2>1, <3>2, BeforeDoes
    <3> HIDE DEF f
    <3>5. Offered(f, tf, c.bar.open, q)
      BY <3>1, <3>3, <3>4, OfferToDoes
    <3> QED
      BY <3>1, <3>4, <3>5 DEF OfferedOn, f, s
  <2>5. ASSUME c.do = "handle", c.result \in Results PROVE Handled(r, c.result, q)
    BY <2>1, <2>2, <2>5, HandleDoes
  <2>6. ASSUME c.do = "resume" PROVE ResumedAs(r, q)
    BY <2>1, <2>2, <2>6, ResumeDoes
  <2>7. ASSUME c.do = "release", c.left \in SUBSET Bars, c.keep \in SUBSET Bars
        PROVE  ReleasedAs(r, c.left, c.keep, q)
    BY <2>1, <2>2, <2>7, ReleaseDoes
  <2>8. Called(p, q)
    BY <2>3, <2>4, <2>5, <2>6, <2>7 DEF Called, c, r
  <2> QED
    BY <1>2, <2>8 DEF q
<1> QED
  BY <1>1, <1>2

\* Whatever the call was, it keeps why delivery is suspended.
LEMMA CalledKeeps ==
    ASSUME NEW p \in Pipes, p.calls # <<>>, NEW q, Called(p, q)
    PROVE  Keeps(p, q)
<1> DEFINE c == Head(p.calls)
           r == Rest(p)
<1>1. /\ r \in Pipes /\ SameMinutes(p, r) /\ SameGaps(p, r)
      /\ r.delivered = p.delivered /\ r.calls = Tail(p.calls)
  BY RestIsPipe
<1> HIDE DEF r
<1>2. GapsFollow(p, r) /\ (c.do # "resume" => Keeps(p, r))
  BY <1>1, SuspendsOn, GapsFollowOn DEF Keeps
<1>3. CASE c.do = "offer" /\ c.bar \in Bars /\ c.to \in SUBSET Timeframes /\ OfferedOn(r, c.bar, c.to, q)
  <2>1. PICK tf \in c.to : LET f == [r EXCEPT !.calls = Offering(c.bar, c.to \ {tf}) \o r.calls] IN
                           f \in Pipes /\ Offered(f, tf, c.bar.open, q)
    BY <1>3 DEF OfferedOn
  <2> DEFINE s == Offering(c.bar, c.to \ {tf})
             f == [r EXCEPT !.calls = s \o r.calls]
  <2>2. s \in Seq(CallRecords)
    BY <1>3, OfferingDoes
  <2>3. f \in Pipes /\ Offered(f, tf, c.bar.open, q)
    BY <2>1
  <2> HIDE DEF s
  <2>4. SameMinutes(r, f) /\ SameGaps(r, f) /\ f.delivered = r.delivered /\ f.calls = s \o r.calls
    BY <1>1 DEF Pipes, SameMinutes, SameGaps
  <2> HIDE DEF f
  <2>5. Keeps(r, f)
    BY <1>1, <2>2, <2>3, <2>4, SuspendsOn, GapsFollowOn DEF Keeps
  <2>6. Keeps(f, q)
    BY <1>3, <2>3, OfferedKeeps
  <2>7. Keeps(r, q)
    BY <1>1, <2>3, <2>5, <2>6, KeepsOn
  <2> QED
    BY <1>1, <1>2, <1>3, <2>7, KeepsOn
<1>4. CASE c.do = "handle" /\ c.result \in Results /\ Handled(r, c.result, q)
  <2>1. Keeps(r, q)
    BY <1>1, <1>4, HandledKeeps
  <2> QED
    BY <1>1, <1>2, <1>4, <2>1, KeepsOn
<1>5. CASE c.do = "resume" /\ ResumedAs(r, q)
  <2>1. Suspends(p) => (Unresolved(r) # {} => r.suspended)
    BY <1>1 DEF Suspends, SameGaps, Unresolved
  <2>2. q \in Pipes /\ SameMinutes(r, q) /\ GapsFollow(r, q)
    <3>1. /\ q \in Pipes /\ SameMinutes(r, q) /\ q.gaps = r.gaps /\ q.delivered = r.delivered
      BY <1>5 DEF ResumedAs
    <3>2. Len(r.gaps) \in Nat
      BY <1>1 DEF Pipes
    <3> QED
      BY <3>1, <3>2 DEF GapsFollow, GapAt
  <2>3. Suspends(p) => Suspends(q)
    BY <1>1, <1>5, <2>1, ResumedKeeps
  <2>4. SameMinutes(p, q)
    BY <1>1, <2>2 DEF SameMinutes
  <2> QED
    BY <1>1, <1>2, <2>2, <2>3, <2>4, GapsFollowOn DEF Keeps
<1>6. CASE /\ c.do = "release" /\ c.left \in SUBSET Bars /\ c.keep \in SUBSET Bars
           /\ ReleasedAs(r, c.left, c.keep, q)
  <2>1. Keeps(r, q)
    BY <1>1, <1>6, ReleasedKeeps
  <2> QED
    BY <1>1, <1>2, <1>6, <2>1, KeepsOn
<1> QED
  BY <1>3, <1>4, <1>5, <1>6 DEF Called, r

\* So does making the next call, if there is one.
LEMMA MakeCallKeeps ==
    ASSUME NEW p \in Pipes
    PROVE  MakeCall(p) \in Pipes /\ Keeps(p, MakeCall(p))
<1>1. Keeps(p, p)
  BY KeepsOn
<1> QED
  BY <1>1, MakeCallDoes, CalledKeeps DEF Keeps

\* What holds of p and stays true in each call holds when all are made.
LEMMA ReturnedStays ==
    ASSUME NEW p \in Pipes, NEW S \in SUBSET Pipes, p \in S, \A q \in S : MakeCall(q) \in S
    PROVE  Returned(p) \in S
<1> DEFINE n == MaxCalls
           step == [i \in 1..n |-> [q \in Pipes |-> MakeCall(q)]]
           Made(g) == g = [i \in 0..n |-> IF i = 0 THEN p ELSE MakeCall(g[i-1])]
<1>1. n \in Nat
  BY BoundsAssumption
<1>2. step \in [1..n -> [Pipes -> Pipes]]
  BY MakeCallKeeps
<1>3. PICK f \in [0..n -> Pipes] : Takes(f, n, p, step)
  <2> HIDE DEF step, n
  <2> QED
    BY <1>1, <1>2, StepsExist
<1>4. Made(f)
  <2>1. f[0] = p
    BY <1>3 DEF Takes
  <2>2. ASSUME NEW i \in 1..n PROVE f[i] = MakeCall(f[i-1])
    <3>1. i-1 \in 0..n /\ f[i] = step[i][f[i-1]]
      <4> HIDE DEF step
      <4> QED
        BY <1>1, <1>3 DEF Takes
    <3>2. f[i-1] \in Pipes
      BY <3>1
    <3> QED
      BY <3>1, <3>2
  <2>3. f = [i \in 0..n |-> f[i]]
    OBVIOUS
  <2>4. \A i \in 0..n : f[i] = IF i = 0 THEN p ELSE MakeCall(f[i-1])
    BY <1>1, <2>1, <2>2
  <2> QED
    BY <2>3, <2>4
<1> DEFINE g == CHOOSE h : Made(h)
           k == CHOOSE i \in 0..n : g[i].calls = <<>> \/ i = n
<1>5. Made(g)
  BY <1>4
<1>6. Returned(p) = g[k]
  BY DEF Returned, Settling
<1> HIDE DEF g
<1>7. k \in 0..n
  BY <1>1
<1> HIDE DEF k, step, n
<1> DEFINE T == {i \in 0..n : g[i] \in S}
<1>8. 0 \in T /\ Climbs(T, 0, n)
  <2>1. g[0] = p
    BY <1>1, <1>5
  <2>2. ASSUME NEW i \in 0..(n-1), g[i] \in S PROVE g[i+1] \in S
    <3>1. i+1 \in 0..n /\ i+1 # 0 /\ (i+1)-1 = i
      BY <1>1
    <3>2. g[i+1] = MakeCall(g[i])
      BY <1>5, <3>1
    <3> QED
      BY <2>2, <3>2
  <2> QED
    BY <1>1, <2>1, <2>2 DEF Climbs
<1>9. \A i \in 0..n : i \in T
  <2> HIDE DEF T
  <2> QED
    BY <1>1, <1>8, Climb
<1> QED
  BY <1>6, <1>7, <1>9

\* What a bar offered to an aggregator moves,
LEMMA OfferedMoves ==
    ASSUME NEW p \in Pipes, NEW tf \in Timeframes, NEW t, NEW q, Offered(p, tf, t, q)
    PROVE  Moves(p, q)
<1>1. PICK b : Fed(p, tf, t, b) /\ (q = b \/ \E bar \in Bars : RepairedAs(b, bar, q) /\ Moves(b, q))
  BY DEF Offered
<1>2. q \in Pipes /\ b \in Pipes
  BY <1>1, FedIsPipe DEF Offered
<1>3. PICK a, s : /\ Closes(p.agg[tf], tf, t, a, s)
                  /\ b = [p EXCEPT !.agg = [p.agg EXCEPT ![tf] = a], !.calls = HandleEach(s) \o p.calls]
  BY <1>1 DEF Fed
<1>4. /\ b.gaps = p.gaps /\ b.suspended = p.suspended /\ b.lastClosed = p.lastClosed
      /\ b.delivered = p.delivered /\ SameFeed(p, b) /\ b.calls = HandleEach(s) \o p.calls
  BY <1>3 DEF Pipes, SameFeed
<1>5. HandleEach(s) \in Seq(CallRecords) /\ \A i \in DOMAIN HandleEach(s) : HandleEach(s)[i].do \in {"offer", "handle"}
  <2>1. s \in Seq(Results)
    BY <1>3 DEF Closes
  <2> QED
    BY <2>1, HandleEachForm
<1>6. Awaits(p) => Awaits(b)
  BY <1>4, <1>5, AwaitsOn
<1>7. ServedPlaces(b) = ServedPlaces(p) /\ \A i \in ServedPlaces(p) : GapAt(b, i) = GapAt(p, i)
  BY <1>4 DEF ServedPlaces, GapAt
<1>8. Moves(p, b)
  BY <1>4, <1>6, <1>7, StillFlows DEF Moves
<1>9. Moves(b, q) => Moves(p, q)
  BY <1>2, <1>8, FlowsOn DEF Moves, SameFeed
<1> QED
  BY <1>1, <1>8, <1>9

\* the first call taken off,
LEMMA RestMoves ==
    ASSUME NEW p \in Pipes, p.calls # <<>>
    PROVE  LET r == Rest(p) IN
           /\ r \in Pipes /\ SameFeed(p, r) /\ Continues(p, r) /\ ServedPlaces(r) = ServedPlaces(p)
           /\ r.lastClosed = p.lastClosed /\ r.delivered = p.delivered
           /\ Awaits(p) => Awaits(r) /\ Head(p.calls).do \in {"offer", "handle"}
<1> DEFINE r == Rest(p)
<1>1. r \in Pipes /\ r.calls = Tail(p.calls) /\ SameGaps(p, r)
  BY RestIsPipe
<1>2. r.lastClosed = p.lastClosed /\ r.delivered = p.delivered /\ SameFeed(p, r)
  BY DEF Rest, Pipes, SameFeed
<1>3. p.calls \in Seq(CallRecords)
  BY DEF Pipes
<1> HIDE DEF r
<1>4. ServedPlaces(r) = ServedPlaces(p) /\ \A i \in ServedPlaces(p) : GapAt(r, i) = GapAt(p, i)
  BY <1>1 DEF ServedPlaces, GapAt, SameGaps
<1>5. Awaits(p) => Awaits(r) /\ Head(p.calls).do \in {"offer", "handle"}
  <2> SUFFICES ASSUME Awaits(p) PROVE Awaits(r) /\ Head(p.calls).do \in {"offer", "handle"}
    OBVIOUS
  <2>1. Head(p.calls) = p.calls[1] /\ 1 \in DOMAIN p.calls
        /\ \A i \in DOMAIN Tail(p.calls) : i + 1 \in DOMAIN p.calls /\ Tail(p.calls)[i] = p.calls[i+1]
    BY <1>3, StackRest
  <2> QED
    BY <1>1, <2>1 DEF Awaits, SameGaps
<1>6. Continues(p, r)
  BY <1>2, <1>4, StillFollows
<1> QED
  BY <1>1, <1>2, <1>4, <1>5, <1>6 DEF r

\* and each of the four methods.  Bars are released after a gap was settled only.
LEMMA MakeCallMoves ==
    ASSUME NEW p \in Pipes
    PROVE  Moves(p, MakeCall(p))
<1> DEFINE c == Head(p.calls)
           r == Rest(p)
           q == MakeCall(p)
<1>1. q \in Pipes
  BY MakeCallKeeps
<1>2. CASE p.calls = <<>>
  <2>1. q = p
    BY <1>2, MakeCallDoes
  <2> HIDE DEF q
  <2>2. Moves(p, q)
    BY <2>1, StillFlows DEF Moves, SameFeed
  <2> QED
    BY <2>2 DEF q
<1>3. CASE p.calls # <<>>
  <2>1. /\ r \in Pipes /\ SameFeed(p, r) /\ Continues(p, r) /\ ServedPlaces(r) = ServedPlaces(p)
        /\ r.lastClosed = p.lastClosed /\ r.delivered = p.delivered
        /\ Awaits(p) => Awaits(r) /\ c.do \in {"offer", "handle"}
    BY <1>3, RestMoves
  <2>2. /\ c.do = "offer" => q = Offer(r, c.bar, c.to)
        /\ c.do = "handle" => q = Handle(r, c.result)
        /\ c.do = "resume" => q = Resume(r)
        /\ c.do = "release" => q = Release(r, c.left, c.keep)
    BY <1>3 DEF MakeCall, Rest
  <2>3. c \in CallRecords
    BY <1>3, RestIsPipe
  <2>4. \/ c.do = "offer" /\ c.bar \in Bars /\ c.to \in SUBSET Timeframes /\ c.to # {}
        \/ c.do = "handle" /\ c.result \in Results
        \/ c.do = "resume"
        \/ c.do = "release" /\ c.left \in SUBSET Bars /\ c.keep \in SUBSET Bars
    BY <2>3, CallForms
  <2> HIDE DEF c, r, q
  <2>5. Flows(p, r)
    BY <2>1 DEF Flows, HoldsOver
  <2>6. ASSUME Moves(r, q) PROVE Moves(p, q)
    BY <1>1, <2>1, <2>5, <2>6, FlowsOn DEF Moves, SameFeed, q
  <2>7. ASSUME SameFeed(r, q), Continues(r, q), c.do \notin {"offer", "handle"} PROVE Moves(p, q)
    <3>1. HoldsOver(r, q) \/ TRUE
      OBVIOUS
    <3>2. ~Awaits(p)
      BY <2>1, <2>7
    <3>3. Continues(p, q)
      <4>1. \A b \in q.delivered \ p.delivered : p.lastClosed[b.tf] < b.open
        BY <2>1, <2>7 DEF Continues
      <4>2. \A tf \in Timeframes : p.lastClosed[tf] <= q.lastClosed[tf]
        BY <2>1, <2>7 DEF Continues
      <4> QED
        BY <2>1, <2>7, <4>1, <4>2 DEF Continues
    <3> QED
      BY <2>1, <2>7, <3>2, <3>3 DEF Moves, Flows, HoldsOver, SameFeed
  <2>8. ASSUME c.do = "offer", c.bar \in Bars, c.to \in SUBSET Timeframes, c.to # {} PROVE Moves(r, q)
    <3> DEFINE tf == Shortest(c.to)
               s == Offering(c.bar, c.to \ {tf})
               f == [r EXCEPT !.calls = s \o r.calls]
    <3>1. tf \in c.to /\ tf \in Timeframes /\ c.bar.open \in Minutes
      BY <2>8, ShortestIsOne, BarParts
    <3>2. s \in Seq(CallRecords) /\ \A i \in DOMAIN s : s[i].do \in {"offer", "handle"}
      BY <2>8, OfferingDoes
    <3>3. q = OfferTo(Before(r, s), tf, c.bar.open)
      BY <2>2, <2>8 DEF Offer
    <3> HIDE DEF tf, s
    <3>4. f \in Pipes /\ Before(r, s) = f
      BY <2>1, <3>2, BeforeDoes
    <3>5. /\ f.calls = s \o r.calls /\ f.gaps = r.gaps /\ f.suspended = r.suspended
          /\ f.lastClosed = r.lastClosed /\ f.delivered = r.delivered /\ SameFeed(r, f)
      BY <2>1 DEF Pipes, SameFeed
    <3> HIDE DEF f
    <3>6. Awaits(r) => Awaits(f)
      BY <2>1, <3>2, <3>5, AwaitsOn
    <3>7. ServedPlaces(f) = ServedPlaces(r) /\ \A i \in ServedPlaces(r) : GapAt(f, i) = GapAt(r, i)
      BY <3>5 DEF ServedPlaces, GapAt
    <3>8. Flows(r, f)
      BY <2>1, <3>5, <3>6, <3>7, StillFlows
    <3>9. Moves(f, q)
      BY <3>1, <3>3, <3>4, OfferToDoes, OfferedMoves
    <3>10. q \in Pipes
      BY <1>1 DEF q
    <3> QED
      BY <2>1, <3>4, <3>5, <3>8, <3>9, <3>10, FlowsOn DEF Moves, SameFeed
  <2>9. ASSUME c.do = "handle", c.result \in Results PROVE Moves(r, q)
    BY <2>1, <2>2, <2>9, HandleMoves
  <2>10. ASSUME c.do = "resume" PROVE SameFeed(r, q) /\ Continues(r, q)
    <3>1. q.gaps = r.gaps /\ q.delivered = r.delivered
      BY <2>1, <2>2, <2>10, ResumeDoes DEF ResumedAs
    <3> DEFINE d == Drain([r EXCEPT !.suspended = @ /\ Unresolved(r) # {}])
    <3>2. q = d
      BY <2>2, <2>10 DEF Resume
    <3>3. d.lastClosed = r.lastClosed /\ SameFeed(r, d)
      BY <2>1 DEF Drain, Before, Pipes, SameFeed
    <3> HIDE DEF d
    <3>4. ServedPlaces(q) = ServedPlaces(r) /\ \A i \in ServedPlaces(r) : GapAt(q, i) = GapAt(r, i)
      BY <3>1 DEF ServedPlaces, GapAt
    <3> QED
      BY <2>1, <3>1, <3>2, <3>3, <3>4, StillFollows
  <2>11. ASSUME c.do = "release", c.left \in SUBSET Bars, c.keep \in SUBSET Bars
         PROVE  SameFeed(r, q) /\ Continues(r, q)
    <3>0. q = Release(r, c.left, c.keep) /\ ReleasedAs(r, c.left, c.keep, q)
      BY <2>1, <2>2, <2>11, ReleaseDoes
    <3>1. q = Release(r, c.left, c.keep) /\ q.gaps = r.gaps /\ q \in Pipes
      BY <3>0 DEF ReleasedAs, SameGaps
    <3>2. ServedPlaces(q) = ServedPlaces(r) /\ \A i \in ServedPlaces(r) : GapAt(q, i) = GapAt(r, i)
      BY <3>1 DEF ServedPlaces, GapAt
    <3>3. CASE c.left = {}
      <4>1. q = [r EXCEPT !.deferred = c.keep]
        BY <3>1, <3>3 DEF Release
      <4>2. q.lastClosed = r.lastClosed /\ q.delivered = r.delivered /\ SameFeed(r, q)
        BY <2>1, <4>1 DEF Pipes, SameFeed
      <4> QED
        BY <2>1, <3>2, <4>2, StillFollows
    <3>4. CASE c.left # {}
      <4>1. PICK bar \in Bars : bar \in c.left /\ bar = Earliest(c.left)
        BY <2>11, <3>4, EarliestIsOne
      <4> DEFINE w == [do |-> "release", left |-> c.left \ {bar}, keep |-> c.keep]
                 b == [r EXCEPT !.calls = <<w>> \o r.calls]
      <4>2. q = Dispatch(b, bar)
        BY <3>1, <3>4, <4>1 DEF Release, Before
      <4>3. <<w>> \in Seq(CallRecords)
        <5>1. w \in CallRecords
          BY <2>11, CallsMade
        <5> HIDE DEF w
        <5> QED
          BY <5>1
      <4> HIDE DEF w
      <4>4. b \in Pipes
        BY <2>1, <4>3, BeforeDoes
      <4>5. b.lastClosed = r.lastClosed /\ b.delivered = r.delivered /\ SameFeed(r, b)
        BY <2>1 DEF Pipes, SameFeed
      <4> HIDE DEF b
      <4>6. Sends(r, bar, q)
        BY <4>2, <4>4, <4>5, DispatchSends DEF Sends, SameFeed
      <4> QED
        BY <2>1, <3>1, <3>2, <4>6, SendsFollows DEF Sends
    <3> QED
      BY <3>3, <3>4
  <2>12. Moves(p, q)
    BY <2>4, <2>6, <2>7, <2>8, <2>9, <2>10, <2>11
  <2> QED
    BY <2>12 DEF q
<1> QED
  BY <1>2, <1>3

-----------------------------------------------------------------------------
(* What a bar is made of *)

Present(p, tf, t) == IF Source[tf] = M1 THEN t \in p.seen ELSE Bar(Source[tf], t) \in p.delivered
Backed(p, b) == \A t \in Expected(b.tf, b.open) : Present(p, b.tf, t)
Repaired(p, b) == \E i \in DOMAIN p.gaps : GapAt(p, i) = b /\ p.gaps[i].resolved

\* A call that sends a bar out, or offers one that is out, has what it is made of.
CallBacked(p, c) ==
    /\ c.do = "offer" => c.bar \in p.delivered /\ \A tf \in c.to : Source[tf] = c.bar.tf
    /\ c.do = "handle" /\ c.result.complete => Backed(p, Bar(c.result.tf, c.result.open))
    /\ c.do = "release" => \A b \in c.left \union c.keep : Backed(p, b)

Backs(p) ==
    /\ \A tf \in Timeframes : \A t \in p.agg[tf].bucket.have : Present(p, tf, t)
    /\ \A b \in p.deferred : Backed(p, b)
    /\ \A b \in p.delivered : Backed(p, b) \/ Repaired(p, b)
    /\ \A i \in DOMAIN p.calls : CallBacked(p, p.calls[i])

\* What was present stays so.
LEMMA PresentStays ==
    ASSUME NEW p \in Pipes, NEW q \in Pipes, p.seen \subseteq q.seen, GapsFollow(p, q)
    PROVE  /\ \A tf, t : Present(p, tf, t) => Present(q, tf, t)
           /\ \A b : Backed(p, b) => Backed(q, b)
           /\ \A b : Repaired(p, b) => Repaired(q, b)
           /\ \A c : CallBacked(p, c) => CallBacked(q, c)
<1>1. \A tf, t : Present(p, tf, t) => Present(q, tf, t)
  BY DEF Present, GapsFollow
<1>2. \A b : Backed(p, b) => Backed(q, b)
  BY <1>1 DEF Backed
<1>3. \A b : Repaired(p, b) => Repaired(q, b)
  <2>1. DOMAIN p.gaps \subseteq DOMAIN q.gaps
    BY DEF Pipes, GapsFollow
  <2> QED
    BY <2>1 DEF Repaired, GapsFollow
<1>4. \A c : CallBacked(p, c) => CallBacked(q, c)
  BY <1>2 DEF CallBacked, GapsFollow
<1> QED
  BY <1>1, <1>2, <1>3, <1>4

\* Backing stays when what is there only grows and the new bars and calls are backed.
LEMMA BacksOn ==
    ASSUME NEW p \in Pipes, NEW q \in Pipes, Backs(p),
           p.seen \subseteq q.seen, GapsFollow(p, q),
           \A tf \in Timeframes : \A t \in q.agg[tf].bucket.have :
               t \in p.agg[tf].bucket.have \/ Present(q, tf, t),
           \A b \in q.deferred : b \in p.deferred \/ Backed(q, b),
           \A b \in q.delivered : b \in p.delivered \/ Backed(q, b) \/ Repaired(q, b),
           \A i \in DOMAIN q.calls : \/ \E j \in DOMAIN p.calls : q.calls[i] = p.calls[j]
                                     \/ CallBacked(q, q.calls[i])
    PROVE  Backs(q)
<1>1. /\ \A tf, t : Present(p, tf, t) => Present(q, tf, t)
      /\ \A b : Backed(p, b) => Backed(q, b)
      /\ \A b : Repaired(p, b) => Repaired(q, b)
      /\ \A c : CallBacked(p, c) => CallBacked(q, c)
  BY PresentStays
<1>2. \A tf \in Timeframes : \A t \in q.agg[tf].bucket.have : Present(q, tf, t)
  BY <1>1 DEF Backs
<1>3. \A b \in q.deferred : Backed(q, b)
  BY <1>1 DEF Backs
<1>4. \A b \in q.delivered : Backed(q, b) \/ Repaired(q, b)
  BY <1>1 DEF Backs
<1>5. \A i \in DOMAIN q.calls : CallBacked(q, q.calls[i])
  BY <1>1 DEF Backs
<1> QED
  BY <1>2, <1>3, <1>4, <1>5 DEF Backs

\* Calls that only offer a bar that is out.
LEMMA OffersBacked ==
    ASSUME NEW q, NEW bar, NEW s, Offers(s, bar, q)
    PROVE  \A i \in DOMAIN s : CallBacked(q, s[i])
BY DEF Offers, CallBacked

\* The calls of two parts.
LEMMA StackBacked ==
    ASSUME NEW q, NEW s \in Seq(CallRecords), NEW t \in Seq(CallRecords),
           \A i \in DOMAIN s : CallBacked(q, s[i])
    PROVE  \A i \in DOMAIN (s \o t) : \/ \E j \in DOMAIN t : (s \o t)[i] = t[j]
                                      \/ CallBacked(q, (s \o t)[i])
<1>1. \A i \in DOMAIN (s \o t) : \/ i \in DOMAIN s /\ (s \o t)[i] = s[i]
                                 \/ i - Len(s) \in DOMAIN t /\ (s \o t)[i] = t[i - Len(s)]
  BY StackParts
<1> HIDE DEF CallBacked
<1> QED
  BY <1>1

\* Feeding an aggregator with a bar that is there keeps all of it backed.
LEMMA FedBacks ==
    ASSUME NEW p \in Pipes, NEW tf \in Timeframes, NEW t, NEW b, Fed(p, tf, t, b),
           Present(p, tf, t), Backs(p)
    PROVE  Backs(b)
<1>1. /\ b \in Pipes /\ SameMinutes(p, b) /\ SameGaps(p, b)
      /\ b.deferred = p.deferred /\ b.delivered = p.delivered
  BY FedChanges
<1>2. PICK a, s : /\ Closes(p.agg[tf], tf, t, a, s)
                  /\ b = [p EXCEPT !.agg = [p.agg EXCEPT ![tf] = a], !.calls = HandleEach(s) \o p.calls]
  BY DEF Fed
<1>3. p.agg \in [Timeframes -> Aggregators] /\ p.calls \in Seq(CallRecords)
  BY DEF Pipes
<1>4. b.agg = [p.agg EXCEPT ![tf] = a] /\ b.calls = HandleEach(s) \o p.calls
  BY <1>2 DEF Pipes
<1>5. GapsFollow(p, b) /\ p.seen \subseteq b.seen
  BY <1>1, GapsFollowOn DEF SameMinutes
<1>6. \A u \in p.agg[tf].bucket.have \union {t} : Present(b, tf, u)
  BY <1>1, <1>5, PresentStays DEF Backs
<1>7. \A u \in Timeframes : \A m \in b.agg[u].bucket.have :
          m \in p.agg[u].bucket.have \/ Present(b, u, m)
  BY <1>2, <1>3, <1>4, <1>6 DEF Closes
<1>8. s \in Seq(Results)
  BY <1>2 DEF Closes
<1>9. \A i \in DOMAIN s : s[i].complete => Backed(b, Bar(s[i].tf, s[i].open))
  <2>1. \A i \in DOMAIN s : /\ s[i].tf = tf
                            /\ s[i].complete => Expected(tf, s[i].open) \subseteq p.agg[tf].bucket.have \union {t}
    BY <1>2 DEF Closes
  <2>2. \A i \in DOMAIN s : Bar(s[i].tf, s[i].open).tf = s[i].tf /\ Bar(s[i].tf, s[i].open).open = s[i].open
    BY DEF Bar
  <2> QED
    BY <1>6, <2>1, <2>2 DEF Backed
<1>10. ASSUME NEW i \in DOMAIN HandleEach(s) PROVE CallBacked(b, HandleEach(s)[i])
  <2>1. i \in DOMAIN s /\ HandleEach(s)[i].do = "handle" /\ HandleEach(s)[i].result = s[i]
    BY <1>8, HandleEachForm
  <2> QED
    BY <1>9, <2>1 DEF CallBacked
<1>11. HandleEach(s) \in Seq(CallRecords)
  BY <1>8, HandleEachForm
<1>12. \A i \in DOMAIN b.calls : \/ \E j \in DOMAIN p.calls : b.calls[i] = p.calls[j]
                                 \/ CallBacked(b, b.calls[i])
  BY <1>3, <1>4, <1>10, <1>11, StackBacked
<1> QED
  BY <1>1, <1>5, <1>7, <1>12, BacksOn

\* A repaired bar is the broker's own: its gap backs it.
LEMMA RepairedBacks ==
    ASSUME NEW p \in Pipes, NEW bar \in Bars, NEW q, RepairedAs(p, bar, q), Backs(p)
    PROVE  Backs(q)
<1>1. q \in Pipes /\ SameMinutes(p, q) /\ q.agg = p.agg /\ q.deferred = p.deferred /\ GapsFollow(p, q)
  BY RepairedKeeps DEF RepairedAs
<1>2. CASE q = p
  BY <1>2
<1>3. ASSUME NEW i \in Unresolved(p), NEW s, GapAt(p, i) = bar,
             q.gaps = [p.gaps EXCEPT ![i].resolved = TRUE],
             q.delivered \in {p.delivered, p.delivered \union {bar}},
             Offers(s, bar, q), q.calls = s \o (<<[do |-> "resume"]>> \o p.calls)
      PROVE  Backs(q)
  <2>1. Repaired(q, bar)
    <3>1. i \in DOMAIN p.gaps
      BY DEF Unresolved
    <3> QED
      BY <1>1, <1>3, <3>1, ResolvedPlaces DEF Repaired
  <2>2. p.calls \in Seq(CallRecords) /\ s \in Seq(CallRecords)
    BY <1>3 DEF Pipes, Offers
  <2> DEFINE c == [do |-> "resume"]
             r == <<c>>
  <2>3. c \in CallRecords /\ CallBacked(q, c)
    BY CallsMade DEF CallBacked
  <2> HIDE DEF c
  <2>4. r \in Seq(CallRecords) /\ DOMAIN r = {1} /\ r[1] = c
    BY <2>3, OneOrTwo
  <2>5. q.calls = s \o (r \o p.calls)
    BY <1>3 DEF c
  <2> HIDE DEF r
  <2>6. s \o (r \o p.calls) = (s \o r) \o p.calls /\ s \o r \in Seq(CallRecords)
    BY <2>2, <2>4, StackJoins
  <2>7. \A j \in DOMAIN (s \o r) : CallBacked(q, (s \o r)[j])
    <3>1. \A j \in DOMAIN s : CallBacked(q, s[j])
      BY <1>3, OffersBacked
    <3>2. \A j \in DOMAIN (s \o r) : \/ \E k \in DOMAIN r : (s \o r)[j] = r[k]
                                     \/ CallBacked(q, (s \o r)[j])
      BY <2>2, <2>4, <3>1, StackBacked
    <3> QED
      BY <2>3, <2>4, <3>2
  <2>8. \A j \in DOMAIN q.calls : \/ \E k \in DOMAIN p.calls : q.calls[j] = p.calls[k]
                                  \/ CallBacked(q, q.calls[j])
    BY <2>2, <2>5, <2>6, <2>7, StackBacked
  <2>9. \A b \in q.delivered : b \in p.delivered \/ Repaired(q, b)
    BY <1>3, <2>1
  <2> QED
    BY <1>1, <2>8, <2>9, BacksOn DEF SameMinutes
<1> QED
  BY <1>2, <1>3 DEF RepairedAs

\* Offering a bar that is there keeps all of it backed.
LEMMA OfferedBacks ==
    ASSUME NEW p \in Pipes, NEW tf \in Timeframes, NEW t, NEW q, Offered(p, tf, t, q),
           Present(p, tf, t), Backs(p)
    PROVE  Backs(q)
<1>1. PICK b : Fed(p, tf, t, b) /\ (q = b \/ \E bar \in Bars : RepairedAs(b, bar, q))
  BY DEF Offered
<1>2. b \in Pipes /\ Backs(b)
  BY <1>1, FedChanges, FedBacks
<1> QED
  BY <1>1, <1>2, RepairedBacks

\* A complete result that is there backs the bar it becomes.
LEMMA HandledBacks ==
    ASSUME NEW p \in Pipes, NEW r \in Results, NEW q, Handled(p, r, q),
           r.complete => Backed(p, Bar(r.tf, r.open)), Backs(p)
    PROVE  Backs(q)
<1>1. q \in Pipes /\ SameMinutes(p, q) /\ q.agg = p.agg /\ GapsFollow(p, q)
  BY HandledKeeps DEF Handled, Keeps
<1>2. PICK s : Offers(s, Bar(r.tf, r.open), q) /\ q.calls = s \o p.calls
  BY DEF Handled
<1>3. p.calls \in Seq(CallRecords) /\ s \in Seq(CallRecords)
  BY <1>2 DEF Pipes, Offers
<1>4. \A j \in DOMAIN q.calls : \/ \E k \in DOMAIN p.calls : q.calls[j] = p.calls[k]
                                \/ CallBacked(q, q.calls[j])
  <2>1. \A j \in DOMAIN s : CallBacked(q, s[j])
    BY <1>2, OffersBacked
  <2> QED
    BY <1>2, <1>3, <2>1, StackBacked
<1>5. r.complete => Backed(q, Bar(r.tf, r.open))
  BY <1>1, PresentStays DEF SameMinutes
<1>6. \A b \in q.deferred : b \in p.deferred \/ Backed(q, b)
  BY <1>5 DEF Handled
<1>7. \A b \in q.delivered : b \in p.delivered \/ Backed(q, b)
  BY <1>5 DEF Handled
<1> QED
  BY <1>1, <1>4, <1>6, <1>7, BacksOn DEF SameMinutes

\* Resuming delivers nothing itself.
LEMMA ResumedBacks ==
    ASSUME NEW p \in Pipes, NEW q, ResumedAs(p, q), Backs(p)
    PROVE  Backs(q)
<1>1. /\ q \in Pipes /\ SameMinutes(p, q) /\ q.agg = p.agg /\ q.gaps = p.gaps
      /\ q.deferred = p.deferred /\ q.delivered = p.delivered
  BY DEF ResumedAs
<1>2. PICK keep \in SUBSET p.deferred :
          q.calls = <<[do |-> "release", left |-> p.deferred \ keep, keep |-> keep]>> \o p.calls
  BY DEF ResumedAs
<1>3. GapsFollow(p, q)
  <2>1. Len(p.gaps) \in Nat
    BY DEF Pipes
  <2> QED
    BY <1>1, <2>1 DEF GapsFollow, GapAt
<1> DEFINE c == [do |-> "release", left |-> p.deferred \ keep, keep |-> keep]
           s == <<c>>
<1>4. c \in CallRecords
  <2>1. p.deferred \in SUBSET Bars
    BY DEF Pipes
  <2> QED
    BY <1>2, <2>1, CallsMade
<1>5. CallBacked(q, c)
  <2>1. c.do = "release" /\ c.left \union c.keep \subseteq p.deferred
    BY <1>2
  <2>2. \A b \in p.deferred : Backed(q, b)
    BY <1>1, <1>3, PresentStays DEF Backs, SameMinutes
  <2> HIDE DEF c
  <2> QED
    BY <2>1, <2>2 DEF CallBacked
<1>6. q.calls = s \o p.calls /\ p.calls \in Seq(CallRecords)
  BY <1>2 DEF Pipes
<1> HIDE DEF c
<1>7. s \in Seq(CallRecords) /\ DOMAIN s = {1} /\ s[1] = c
  BY <1>4, OneOrTwo
<1> HIDE DEF s
<1>8. \A j \in DOMAIN q.calls : \/ \E k \in DOMAIN p.calls : q.calls[j] = p.calls[k]
                                \/ CallBacked(q, q.calls[j])
  BY <1>5, <1>6, <1>7, StackBacked
<1> QED
  BY <1>1, <1>3, <1>8, BacksOn DEF SameMinutes

\* A deferred bar that is backed may go out.
LEMMA ReleasedBacks ==
    ASSUME NEW p \in Pipes, NEW left \in SUBSET Bars, NEW keep \in SUBSET Bars, NEW q,
           ReleasedAs(p, left, keep, q),
           \A b \in left \union keep : Backed(p, b), Backs(p)
    PROVE  Backs(q)
<1>1. q \in Pipes /\ SameMinutes(p, q) /\ q.agg = p.agg /\ SameGaps(p, q) /\ GapsFollow(p, q)
  BY ReleasedKeeps DEF ReleasedAs, Keeps
<1>2. \A b \in left \union keep : Backed(q, b)
  BY <1>1, PresentStays DEF SameMinutes
<1>3. CASE q.deferred = keep /\ q.delivered = p.delivered /\ q.calls = p.calls
  BY <1>1, <1>2, <1>3, BacksOn DEF SameMinutes
<1>4. ASSUME NEW bar \in left, NEW s, q.deferred = p.deferred,
             q.delivered \in {p.delivered, p.delivered \union {bar}},
             Offers(s, bar, q),
             q.calls = s \o (<<[do |-> "release", left |-> left \ {bar}, keep |-> keep]>> \o p.calls)
      PROVE  Backs(q)
  <2> DEFINE c == [do |-> "release", left |-> left \ {bar}, keep |-> keep]
             r == <<c>>
  <2>1. p.calls \in Seq(CallRecords) /\ s \in Seq(CallRecords)
    BY <1>4 DEF Pipes, Offers
  <2>2. c \in CallRecords
    BY CallsMade
  <2>3. CallBacked(q, c)
    <3>1. c.do = "release" /\ c.left \union c.keep \subseteq left \union keep
      OBVIOUS
    <3> HIDE DEF c
    <3> QED
      BY <1>2, <3>1 DEF CallBacked
  <2>4. q.calls = s \o (r \o p.calls)
    BY <1>4
  <2> HIDE DEF c
  <2>5. r \in Seq(CallRecords) /\ DOMAIN r = {1} /\ r[1] = c
    BY <2>2, OneOrTwo
  <2> HIDE DEF r
  <2>6. s \o (r \o p.calls) = (s \o r) \o p.calls /\ s \o r \in Seq(CallRecords)
    <3>1. r \in Seq(CallRecords)
      BY <2>5
    <3>2. s \in Seq(CallRecords)
      BY <2>1
    <3>3. p.calls \in Seq(CallRecords)
      BY <2>1
    <3> QED
      BY <3>1, <3>2, <3>3, StackJoins
  <2>7. \A j \in DOMAIN (s \o r) : CallBacked(q, (s \o r)[j])
    <3>1. \A j \in DOMAIN s : CallBacked(q, s[j])
      BY <1>4, OffersBacked
    <3>2. \A j \in DOMAIN (s \o r) : \/ \E k \in DOMAIN r : (s \o r)[j] = r[k]
                                     \/ CallBacked(q, (s \o r)[j])
      BY <2>1, <2>5, <3>1, StackBacked
    <3> QED
      BY <2>3, <2>5, <3>2
  <2>8. \A j \in DOMAIN q.calls : \/ \E k \in DOMAIN p.calls : q.calls[j] = p.calls[k]
                                  \/ CallBacked(q, q.calls[j])
    BY <2>1, <2>4, <2>6, <2>7, StackBacked
  <2>9. \A b \in q.delivered : b \in p.delivered \/ Backed(q, b)
    BY <1>2, <1>4
  <2> QED
    BY <1>1, <1>4, <2>8, <2>9, BacksOn DEF SameMinutes
<1> QED
  BY <1>3, <1>4 DEF ReleasedAs

\* Whatever the call was, all stays backed.
LEMMA CalledBacks ==
    ASSUME NEW p \in Pipes, p.calls # <<>>, NEW q, Called(p, q), Backs(p)
    PROVE  Backs(q)
<1> DEFINE c == Head(p.calls)
           r == Rest(p)
<1>1. /\ r \in Pipes /\ SameMinutes(p, r) /\ SameGaps(p, r) /\ r.agg = p.agg
      /\ r.delivered = p.delivered /\ r.deferred = p.deferred /\ r.calls = Tail(p.calls)
  BY RestIsPipe
<1>2. p.calls \in Seq(CallRecords)
  BY DEF Pipes
<1>3. /\ c = p.calls[1] /\ 1 \in DOMAIN p.calls
      /\ \A i \in DOMAIN Tail(p.calls) : i + 1 \in DOMAIN p.calls /\ Tail(p.calls)[i] = p.calls[i+1]
  BY <1>2, StackRest
<1> HIDE DEF r
<1>4. GapsFollow(p, r)
  BY <1>1, GapsFollowOn
<1>5. Backs(r)
  <2>1. \A i \in DOMAIN r.calls : \E j \in DOMAIN p.calls : r.calls[i] = p.calls[j]
    BY <1>1, <1>3
  <2> QED
    BY <1>1, <1>4, <2>1, BacksOn DEF SameMinutes
<1>6. CallBacked(r, c)
  <2>1. CallBacked(p, c)
    BY <1>3 DEF Backs
  <2> QED
    BY <1>1, <1>4, <2>1, PresentStays DEF SameMinutes
<1>7. CASE c.do = "offer" /\ c.bar \in Bars /\ c.to \in SUBSET Timeframes /\ OfferedOn(r, c.bar, c.to, q)
  <2>1. PICK tf \in c.to : LET f == [r EXCEPT !.calls = Offering(c.bar, c.to \ {tf}) \o r.calls] IN
                           f \in Pipes /\ Offered(f, tf, c.bar.open, q)
    BY <1>7 DEF OfferedOn
  <2> DEFINE s == Offering(c.bar, c.to \ {tf})
             f == [r EXCEPT !.calls = s \o r.calls]
  <2>2. s \in Seq(CallRecords) /\ \A i \in DOMAIN s : s[i] = [do |-> "offer", bar |-> c.bar, to |-> c.to \ {tf}]
    BY <1>7, OfferingDoes
  <2>3. f \in Pipes /\ Offered(f, tf, c.bar.open, q)
    BY <2>1
  <2> HIDE DEF s
  <2>4. /\ SameMinutes(r, f) /\ SameGaps(r, f) /\ f.delivered = r.delivered /\ f.calls = s \o r.calls
        /\ f.agg = r.agg /\ f.deferred = r.deferred
    BY <1>1 DEF Pipes, SameMinutes, SameGaps
  <2> HIDE DEF f
  <2>5. c.bar \in f.delivered /\ \A u \in c.to : Source[u] = c.bar.tf
    BY <1>6, <1>7, <2>4 DEF CallBacked
  <2>6. \A i \in DOMAIN s : CallBacked(f, s[i])
    BY <2>2, <2>5 DEF CallBacked
  <2>7. \A j \in DOMAIN f.calls : \/ \E k \in DOMAIN r.calls : f.calls[j] = r.calls[k]
                                  \/ CallBacked(f, f.calls[j])
    <3>1. r.calls \in Seq(CallRecords)
      BY <1>1 DEF Pipes
    <3> QED
      BY <2>2, <2>4, <2>6, <3>1, StackBacked
  <2>8. Backs(f)
    <3>1. GapsFollow(r, f)
      BY <1>1, <2>3, <2>4, GapsFollowOn
    <3> QED
      BY <1>1, <1>5, <2>3, <2>4, <2>7, <3>1, BacksOn DEF SameMinutes
  <2>9. Present(f, tf, c.bar.open)
    <3>1. c.bar = Bar(c.bar.tf, c.bar.open) /\ c.bar.tf \in Timeframes /\ c.bar.tf # M1
      BY <1>7, BarParts, TimeframesAssumption
    <3> QED
      BY <2>5, <3>1 DEF Present
  <2> QED
    BY <1>7, <2>3, <2>8, <2>9, OfferedBacks
<1>8. CASE c.do = "handle" /\ c.result \in Results /\ Handled(r, c.result, q)
  BY <1>1, <1>5, <1>6, <1>8, HandledBacks DEF CallBacked
<1>9. CASE c.do = "resume" /\ ResumedAs(r, q)
  BY <1>1, <1>5, <1>9, ResumedBacks
<1>10. CASE /\ c.do = "release" /\ c.left \in SUBSET Bars /\ c.keep \in SUBSET Bars
            /\ ReleasedAs(r, c.left, c.keep, q)
  BY <1>1, <1>5, <1>6, <1>10, ReleasedBacks DEF CallBacked
<1> QED
  BY <1>7, <1>8, <1>9, <1>10 DEF Called, r

-----------------------------------------------------------------------------
(* A gap is found once: its bucket was closed, and no bucket closes twice *)

Waiting(c) == c.do = "handle" /\ ~c.result.complete
BarOf(c) == Bar(c.result.tf, c.result.open)

Unique(p) ==
    /\ \A tf \in Timeframes : Spaced(p.agg[tf])
    /\ \A i \in DOMAIN p.gaps : GapAt(p, i).open <= p.agg[GapAt(p, i).tf].emitted
    /\ \A i, j \in DOMAIN p.gaps : GapAt(p, i) = GapAt(p, j) => i = j
    /\ \A i \in DOMAIN p.calls : Waiting(p.calls[i]) =>
           /\ BarOf(p.calls[i]).open <= p.agg[BarOf(p.calls[i]).tf].emitted
           /\ \A j \in DOMAIN p.gaps : GapAt(p, j) # BarOf(p.calls[i])
    /\ \A i, j \in DOMAIN p.calls :
           Waiting(p.calls[i]) /\ Waiting(p.calls[j]) /\ BarOf(p.calls[i]) = BarOf(p.calls[j]) => i = j

\* What an aggregator has emitted, and what results still wait.
LEMMA WaitingParts ==
    ASSUME NEW p \in Pipes
    PROVE  /\ \A i \in DOMAIN p.calls : Waiting(p.calls[i]) => BarOf(p.calls[i]) \in Bars
           /\ \A i \in DOMAIN p.gaps : GapAt(p, i) \in Bars
           /\ \A tf \in Timeframes : p.agg[tf].emitted \in Int
           /\ \A b \in Bars : b.tf \in Timeframes /\ b.open \in Int
<1>1. p.calls \in Seq(CallRecords) /\ p.gaps \in Seq(GapRecords)
  BY DEF Pipes
<1>2. \A i \in DOMAIN p.calls : p.calls[i] \in CallRecords
  BY <1>1
<1>3. \A i \in DOMAIN p.calls : Waiting(p.calls[i]) => BarOf(p.calls[i]) \in Bars
  <2> SUFFICES ASSUME NEW i \in DOMAIN p.calls, Waiting(p.calls[i]) PROVE BarOf(p.calls[i]) \in Bars
    OBVIOUS
  <2>1. p.calls[i].result \in Results
    BY <1>2, CallForms DEF Waiting
  <2> QED
    BY <2>1, BarParts DEF BarOf, Results
<1>4. \A i \in DOMAIN p.gaps : GapAt(p, i) \in Bars
  <2>1. \A i \in DOMAIN p.gaps : p.gaps[i] \in GapRecords
    BY <1>1
  <2>2. \A i \in DOMAIN p.gaps : p.gaps[i].tf \in Timeframes /\ p.gaps[i].open \in Minutes
    BY <2>1 DEF GapRecords
  <2> QED
    BY <2>2, BarParts DEF GapAt
<1>5. \A tf \in Timeframes : p.agg[tf].emitted \in Int
  BY BoundsAssumption DEF Pipes, Aggregators, Opt, Minutes, None
<1>6. \A b \in Bars : b.tf \in Timeframes /\ b.open \in Int
  BY BarParts, BoundsAssumption DEF Minutes
<1> QED
  BY <1>3, <1>4, <1>5, <1>6

\* No gap is recorded twice as long as new gaps come from results that wait, and each waits once.
LEMMA UniqueOn ==
    ASSUME NEW p \in Pipes, NEW q \in Pipes, NEW s \in Seq(CallRecords), Unique(p),
           DOMAIN q.gaps = DOMAIN p.gaps, \A j \in DOMAIN p.gaps : GapAt(q, j) = GapAt(p, j),
           \A tf \in Timeframes : Spaced(q.agg[tf]) /\ p.agg[tf].emitted <= q.agg[tf].emitted,
           q.calls = s \o p.calls,
           \A i \in DOMAIN s : Waiting(s[i]) =>
               /\ p.agg[BarOf(s[i]).tf].emitted < BarOf(s[i]).open
               /\ BarOf(s[i]).open <= q.agg[BarOf(s[i]).tf].emitted,
           \A i, j \in DOMAIN s :
               Waiting(s[i]) /\ Waiting(s[j]) /\ BarOf(s[i]) = BarOf(s[j]) => i = j
    PROVE  Unique(q)
<1>1. p.calls \in Seq(CallRecords)
  BY DEF Pipes
<1>2. \A i \in DOMAIN q.calls : \/ i \in DOMAIN s /\ q.calls[i] = s[i]
                                \/ i - Len(s) \in DOMAIN p.calls /\ q.calls[i] = p.calls[i - Len(s)]
  BY <1>1, StackParts
<1>3. DOMAIN q.calls \subseteq Int /\ Len(s) \in Int
  BY DEF Pipes
<1>4. ASSUME NEW i \in DOMAIN p.gaps PROVE GapAt(q, i).open <= q.agg[GapAt(q, i).tf].emitted
  <2> DEFINE b == GapAt(p, i)
  <2>1. b \in Bars /\ b.tf \in Timeframes /\ b.open \in Int
    BY WaitingParts
  <2>2. p.agg[b.tf].emitted \in Int /\ q.agg[b.tf].emitted \in Int
    BY <2>1, WaitingParts
  <2>3. b.open <= p.agg[b.tf].emitted
    BY DEF Unique
  <2>4. GapAt(q, i) = b
    OBVIOUS
  <2> HIDE DEF b
  <2>5. p.agg[b.tf].emitted <= q.agg[b.tf].emitted
    BY <2>1
  <2> QED
    BY <2>1, <2>2, <2>3, <2>4, <2>5
<1>5. ASSUME NEW i \in DOMAIN q.calls, Waiting(q.calls[i])
      PROVE  /\ BarOf(q.calls[i]).open <= q.agg[BarOf(q.calls[i]).tf].emitted
             /\ \A j \in DOMAIN q.gaps : GapAt(q, j) # BarOf(q.calls[i])
  <2> DEFINE b == BarOf(q.calls[i])
  <2>1. b \in Bars /\ b.tf \in Timeframes /\ b.open \in Int
        /\ p.agg[b.tf].emitted \in Int /\ q.agg[b.tf].emitted \in Int
    BY <1>5, WaitingParts
  <2>2. CASE i \in DOMAIN s /\ q.calls[i] = s[i]
    <3>1. p.agg[b.tf].emitted < b.open /\ b.open <= q.agg[b.tf].emitted
      BY <1>5, <2>2
    <3>2. \A j \in DOMAIN p.gaps : GapAt(p, j).open <= p.agg[GapAt(p, j).tf].emitted
      BY DEF Unique
    <3> HIDE DEF b
    <3>3. \A j \in DOMAIN p.gaps : GapAt(p, j) # b
      <4> SUFFICES ASSUME NEW j \in DOMAIN p.gaps, GapAt(p, j) = b PROVE FALSE
        OBVIOUS
      <4>1. b.open <= p.agg[b.tf].emitted
        BY <3>2
      <4> QED
        BY <2>1, <3>1, <4>1
    <3>4. b.open <= q.agg[b.tf].emitted /\ \A j \in DOMAIN q.gaps : GapAt(q, j) # b
      BY <3>1, <3>3
    <3> QED
      BY <3>4 DEF b
  <2>3. CASE i - Len(s) \in DOMAIN p.calls /\ q.calls[i] = p.calls[i - Len(s)]
    <3>1. /\ b.open <= p.agg[b.tf].emitted
          /\ \A j \in DOMAIN p.gaps : GapAt(p, j) # b
      BY <1>5, <2>3 DEF Unique
    <3>2. p.agg[b.tf].emitted <= q.agg[b.tf].emitted
      BY <2>1
    <3> HIDE DEF b
    <3>3. b.open <= q.agg[b.tf].emitted /\ \A j \in DOMAIN q.gaps : GapAt(q, j) # b
      BY <2>1, <3>1, <3>2
    <3> QED
      BY <3>3 DEF b
  <2> QED
    BY <1>2, <2>2, <2>3
<1>6. ASSUME NEW i \in DOMAIN q.calls, NEW j \in DOMAIN q.calls,
             Waiting(q.calls[i]), Waiting(q.calls[j]), BarOf(q.calls[i]) = BarOf(q.calls[j])
      PROVE  i = j
  <2> DEFINE b == BarOf(q.calls[i])
  <2>1. b \in Bars /\ b.tf \in Timeframes /\ b.open \in Int /\ p.agg[b.tf].emitted \in Int
    BY <1>6, WaitingParts
  <2>2. \A k \in DOMAIN p.calls : Waiting(p.calls[k]) /\ BarOf(p.calls[k]) = b => b.open <= p.agg[b.tf].emitted
    BY DEF Unique
  <2>3. \A k \in DOMAIN s : Waiting(s[k]) /\ BarOf(s[k]) = b => p.agg[b.tf].emitted < b.open
    OBVIOUS
  <2>4. \A k, l \in DOMAIN p.calls : Waiting(p.calls[k]) /\ Waiting(p.calls[l]) /\ BarOf(p.calls[k]) = b /\ BarOf(p.calls[l]) = b => k = l
    BY DEF Unique
  <2>5. \A k, l \in DOMAIN s : Waiting(s[k]) /\ Waiting(s[l]) /\ BarOf(s[k]) = b /\ BarOf(s[l]) = b => k = l
    OBVIOUS
  <2>6. BarOf(q.calls[i]) = b /\ BarOf(q.calls[j]) = b
    BY <1>6
  <2> HIDE DEF b
  <2>7. CASE i \in DOMAIN s /\ q.calls[i] = s[i]
    <3>1. ~(j - Len(s) \in DOMAIN p.calls /\ q.calls[j] = p.calls[j - Len(s)])
      <4>1. p.agg[b.tf].emitted < b.open
        BY <1>6, <2>3, <2>6, <2>7
      <4>2. ~(b.open <= p.agg[b.tf].emitted)
        BY <2>1, <4>1
      <4> QED
        BY <1>6, <2>2, <2>6, <4>2
    <3> QED
      BY <1>2, <1>6, <2>5, <2>6, <2>7, <3>1
  <2>8. CASE i - Len(s) \in DOMAIN p.calls /\ q.calls[i] = p.calls[i - Len(s)]
    <3>1. ~(j \in DOMAIN s /\ q.calls[j] = s[j])
      BY <1>6, <2>1, <2>2, <2>3, <2>6, <2>8
    <3>2. j - Len(s) \in DOMAIN p.calls /\ q.calls[j] = p.calls[j - Len(s)]
      BY <1>2, <3>1
    <3>3. i - Len(s) = j - Len(s)
      BY <1>6, <2>4, <2>6, <2>8, <3>2
    <3> QED
      BY <1>3, <3>3
  <2> QED
    BY <1>2, <2>7, <2>8
<1>7. \A i, j \in DOMAIN q.gaps : GapAt(q, i) = GapAt(q, j) => i = j
  BY DEF Unique
<1> QED
  BY <1>4, <1>5, <1>6, <1>7 DEF Unique

\* With calls of other kinds to make first.
LEMMA UniqueStill ==
    ASSUME NEW p \in Pipes, NEW q \in Pipes, NEW s \in Seq(CallRecords), Unique(p),
           DOMAIN q.gaps = DOMAIN p.gaps, \A j \in DOMAIN p.gaps : GapAt(q, j) = GapAt(p, j),
           q.agg = p.agg, q.calls = s \o p.calls,
           \A i \in DOMAIN s : s[i].do # "handle"
    PROVE  Unique(q)
<1>1. \A tf \in Timeframes : Spaced(q.agg[tf]) /\ p.agg[tf].emitted <= q.agg[tf].emitted
  <2>1. \A tf \in Timeframes : p.agg[tf].emitted \in Int /\ Spaced(p.agg[tf])
    BY WaitingParts DEF Unique
  <2> QED
    BY <2>1
<1>2. \A i \in DOMAIN s : ~Waiting(s[i])
  BY DEF Waiting
<1> QED
  BY <1>1, <1>2, UniqueOn

\* Taking a call off the list leaves the others where they were.
LEMMA UniqueRest ==
    ASSUME NEW p \in Pipes, p.calls # <<>>, Unique(p), NEW c, c = Head(p.calls)
    PROVE  /\ Unique(Rest(p))
           /\ Waiting(c) => /\ BarOf(c).open <= p.agg[BarOf(c).tf].emitted
                            /\ \A j \in DOMAIN p.gaps : GapAt(p, j) # BarOf(c)
                            /\ \A i \in DOMAIN Rest(p).calls :
                                   Waiting(Rest(p).calls[i]) => BarOf(Rest(p).calls[i]) # BarOf(c)
<1> DEFINE r == Rest(p)
<1>1. /\ r \in Pipes /\ SameGaps(p, r) /\ r.agg = p.agg /\ r.calls = Tail(p.calls)
  BY RestIsPipe
<1>2. p.calls \in Seq(CallRecords)
  BY DEF Pipes
<1>3. /\ c = p.calls[1] /\ 1 \in DOMAIN p.calls
      /\ \A i \in DOMAIN r.calls : i + 1 \in DOMAIN p.calls /\ r.calls[i] = p.calls[i+1]
  BY <1>1, <1>2, StackRest
<1>4. DOMAIN r.calls \subseteq Nat \ {0}
  BY <1>1 DEF Pipes
<1> HIDE DEF r
<1>5. DOMAIN r.gaps = DOMAIN p.gaps /\ \A j \in DOMAIN p.gaps : GapAt(r, j) = GapAt(p, j)
  BY <1>1 DEF SameGaps, GapAt
<1>6. \A i \in DOMAIN r.calls : Waiting(r.calls[i]) =>
          /\ BarOf(r.calls[i]).open <= r.agg[BarOf(r.calls[i]).tf].emitted
          /\ \A j \in DOMAIN r.gaps : GapAt(r, j) # BarOf(r.calls[i])
  BY <1>1, <1>3, <1>5 DEF Unique
<1>7. ASSUME NEW i \in DOMAIN r.calls, NEW j \in DOMAIN r.calls,
             Waiting(r.calls[i]), Waiting(r.calls[j]), BarOf(r.calls[i]) = BarOf(r.calls[j])
      PROVE  i = j
  <2>1. i + 1 = j + 1
    BY <1>3, <1>7 DEF Unique
  <2> QED
    BY <1>4, <2>1
<1>8. Unique(r)
  <2>1. \A i, j \in DOMAIN r.gaps : GapAt(r, i) = GapAt(r, j) => i = j
    BY <1>5 DEF Unique
  <2>2. \A i \in DOMAIN r.gaps : GapAt(r, i).open <= r.agg[GapAt(r, i).tf].emitted
    BY <1>1, <1>5 DEF Unique
  <2>3. \A tf \in Timeframes : Spaced(r.agg[tf])
    BY <1>1 DEF Unique
  <2> QED
    BY <1>6, <1>7, <2>1, <2>2, <2>3 DEF Unique
<1>9. ASSUME Waiting(c) PROVE \A i \in DOMAIN r.calls : Waiting(r.calls[i]) => BarOf(r.calls[i]) # BarOf(c)
  <2> SUFFICES ASSUME NEW i \in DOMAIN r.calls, Waiting(r.calls[i]), BarOf(r.calls[i]) = BarOf(c) PROVE FALSE
    OBVIOUS
  <2>1. i + 1 = 1
    BY <1>3, <1>9 DEF Unique
  <2> QED
    BY <1>4, <2>1
<1>10. Waiting(c) => /\ BarOf(c).open <= p.agg[BarOf(c).tf].emitted
                     /\ \A j \in DOMAIN p.gaps : GapAt(p, j) # BarOf(c)
  BY <1>3 DEF Unique
<1> QED
  BY <1>8, <1>9, <1>10 DEF r

\* A result an aggregator gives is of a bucket it had not given before.
LEMMA FedUnique ==
    ASSUME NEW p \in Pipes, NEW tf \in Timeframes, NEW t, NEW b, Fed(p, tf, t, b), Unique(p)
    PROVE  Unique(b)
<1>1. b \in Pipes /\ SameGaps(p, b)
  BY FedChanges
<1>2. PICK a, s : /\ Closes(p.agg[tf], tf, t, a, s)
                  /\ b = [p EXCEPT !.agg = [p.agg EXCEPT ![tf] = a], !.calls = HandleEach(s) \o p.calls]
  BY DEF Fed
<1>3. p.agg \in [Timeframes -> Aggregators] /\ p.calls \in Seq(CallRecords)
  BY DEF Pipes
<1>4. b.agg = [p.agg EXCEPT ![tf] = a] /\ b.calls = HandleEach(s) \o p.calls
  BY <1>2 DEF Pipes
<1>5. Spaced(p.agg[tf]) /\ \A u \in Timeframes : Spaced(p.agg[u]) /\ p.agg[u].emitted \in Int
  BY WaitingParts DEF Unique
<1>6. /\ p.agg[tf].emitted <= a.emitted /\ Spaced(a) /\ s \in Seq(Results)
      /\ \A i \in DOMAIN s : s[i].tf = tf /\ p.agg[tf].emitted < s[i].open /\ s[i].open <= a.emitted
      /\ \A i, j \in DOMAIN s : s[i].open = s[j].open => i = j
  BY <1>2, <1>5 DEF Closes
<1>7. b.agg[tf] = a /\ \A u \in Timeframes : u # tf => b.agg[u] = p.agg[u]
  BY <1>3, <1>4
<1>8. \A u \in Timeframes : Spaced(b.agg[u]) /\ p.agg[u].emitted <= b.agg[u].emitted
  <2> SUFFICES ASSUME NEW u \in Timeframes PROVE Spaced(b.agg[u]) /\ p.agg[u].emitted <= b.agg[u].emitted
    OBVIOUS
  <2>1. CASE u = tf
    BY <1>6, <1>7, <2>1
  <2>2. CASE u # tf
    BY <1>5, <1>7, <2>2
  <2> QED
    BY <2>1, <2>2
<1> DEFINE h == HandleEach(s)
<1>9. h \in Seq(CallRecords) /\ DOMAIN h = DOMAIN s /\ \A i \in DOMAIN s : h[i].result = s[i]
  BY <1>6, HandleEachForm
<1> HIDE DEF h
<1>10. \A i \in DOMAIN h : BarOf(h[i]).tf = tf /\ BarOf(h[i]).open = s[i].open
  BY <1>6, <1>9 DEF BarOf, Bar
<1>11. DOMAIN b.gaps = DOMAIN p.gaps /\ \A j \in DOMAIN p.gaps : GapAt(b, j) = GapAt(p, j)
  BY <1>1 DEF SameGaps, GapAt
<1>12. \A i \in DOMAIN h : Waiting(h[i]) =>
           /\ p.agg[BarOf(h[i]).tf].emitted < BarOf(h[i]).open
           /\ BarOf(h[i]).open <= b.agg[BarOf(h[i]).tf].emitted
  BY <1>6, <1>7, <1>9, <1>10
<1>13. \A i, j \in DOMAIN h : Waiting(h[i]) /\ Waiting(h[j]) /\ BarOf(h[i]) = BarOf(h[j]) => i = j
  BY <1>6, <1>9, <1>10
<1>14. b.calls = h \o p.calls
  BY <1>4 DEF h
<1> QED
  BY <1>1, <1>8, <1>9, <1>11, <1>12, <1>13, <1>14, UniqueOn

\* Offers wait with no result.
LEMMA OffersQuiet ==
    ASSUME NEW q, NEW bar, NEW s, Offers(s, bar, q)
    PROVE  s \in Seq(CallRecords) /\ \A i \in DOMAIN s : s[i].do # "handle"
BY DEF Offers

\* Calls without results leave the results that wait alone.
LEMMA QuietParts ==
    ASSUME NEW s \in Seq(CallRecords), NEW t \in Seq(CallRecords),
           \A i \in DOMAIN s : s[i].do # "handle", \A i \in DOMAIN t : t[i].do # "handle"
    PROVE  \A i \in DOMAIN (s \o t) : (s \o t)[i].do # "handle"
BY StackParts

\* A repair records no gap.
LEMMA RepairedUnique ==
    ASSUME NEW p \in Pipes, NEW bar \in Bars, NEW q, RepairedAs(p, bar, q), Unique(p)
    PROVE  Unique(q)
<1>1. q \in Pipes /\ q.agg = p.agg
  BY DEF RepairedAs
<1>2. CASE q = p
  BY <1>2
<1>3. ASSUME NEW i \in Unresolved(p), NEW s, q.gaps = [p.gaps EXCEPT ![i].resolved = TRUE],
             Offers(s, bar, q), q.calls = s \o (<<[do |-> "resume"]>> \o p.calls)
      PROVE  Unique(q)
  <2>1. DOMAIN q.gaps = DOMAIN p.gaps /\ \A j \in DOMAIN p.gaps : GapAt(q, j) = GapAt(p, j)
    BY <1>1, <1>3, ResolvedPlaces
  <2> DEFINE c == [do |-> "resume"]
             r == <<c>>
  <2>2. c \in CallRecords /\ c.do # "handle"
    BY CallsMade
  <2> HIDE DEF c
  <2>3. r \in Seq(CallRecords) /\ DOMAIN r = {1} /\ r[1] = c
    BY <2>2, OneOrTwo
  <2>4. q.calls = s \o (r \o p.calls)
    BY <1>3 DEF c
  <2> HIDE DEF r
  <2>5. s \in Seq(CallRecords) /\ \A j \in DOMAIN s : s[j].do # "handle"
    BY <1>3, OffersQuiet
  <2>6. s \o (r \o p.calls) = (s \o r) \o p.calls /\ s \o r \in Seq(CallRecords)
    <3>1. r \in Seq(CallRecords)
      BY <2>3
    <3>2. s \in Seq(CallRecords)
      BY <2>5
    <3>3. p.calls \in Seq(CallRecords)
      BY DEF Pipes
    <3> QED
      BY <3>1, <3>2, <3>3, StackJoins
  <2>7. \A j \in DOMAIN (s \o r) : (s \o r)[j].do # "handle"
    BY <2>2, <2>3, <2>5, QuietParts
  <2> QED
    BY <1>1, <2>1, <2>4, <2>6, <2>7, UniqueStill
<1> QED
  BY <1>2, <1>3 DEF RepairedAs

\* Offering a bar records no gap twice.
LEMMA OfferedUnique ==
    ASSUME NEW p \in Pipes, NEW tf \in Timeframes, NEW t, NEW q, Offered(p, tf, t, q), Unique(p)
    PROVE  Unique(q)
<1>1. PICK b : Fed(p, tf, t, b) /\ (q = b \/ \E bar \in Bars : RepairedAs(b, bar, q))
  BY DEF Offered
<1>2. b \in Pipes /\ Unique(b)
  BY <1>1, FedChanges, FedUnique
<1> QED
  BY <1>1, <1>2, RepairedUnique

\* A bucket that was closed incomplete becomes a gap that was not one before.
LEMMA HandledUnique ==
    ASSUME NEW p \in Pipes, NEW r \in Results, NEW q, Handled(p, r, q), Unique(p),
           ~r.complete =>
               /\ r.open <= p.agg[r.tf].emitted
               /\ \A j \in DOMAIN p.gaps : GapAt(p, j) # Bar(r.tf, r.open)
               /\ \A i \in DOMAIN p.calls :
                      Waiting(p.calls[i]) => BarOf(p.calls[i]) # Bar(r.tf, r.open)
    PROVE  Unique(q)
<1>1. q \in Pipes /\ q.agg = p.agg /\ Bar(r.tf, r.open) \in Bars
  BY DEF Handled
<1>2. PICK s : Offers(s, Bar(r.tf, r.open), q) /\ q.calls = s \o p.calls
  BY DEF Handled
<1>3. CASE r.complete
  <2>1. SameGaps(p, q)
    BY <1>3 DEF Handled
  <2>2. s \in Seq(CallRecords) /\ \A i \in DOMAIN s : s[i].do # "handle"
    BY <1>2, OffersQuiet
  <2>3. DOMAIN q.gaps = DOMAIN p.gaps /\ \A j \in DOMAIN p.gaps : GapAt(q, j) = GapAt(p, j)
    BY <2>1 DEF SameGaps, GapAt
  <2> QED
    BY <1>1, <1>2, <2>2, <2>3, UniqueStill
<1>4. CASE ~r.complete
  <2> DEFINE g == [tf |-> r.tf, open |-> r.open, resolved |-> FALSE]
             b == Bar(r.tf, r.open)
             n == Len(p.gaps) + 1
  <2>1. q.gaps = Append(p.gaps, g) /\ q.calls = p.calls
    BY <1>4 DEF Handled
  <2>2. g \in GapRecords /\ ~g.resolved
    BY DEF Results, GapRecords
  <2>3. /\ DOMAIN q.gaps = DOMAIN p.gaps \union {n} /\ n \notin DOMAIN p.gaps
        /\ \A j \in DOMAIN p.gaps : GapAt(q, j) = GapAt(p, j)
        /\ q.gaps[n] = g
    <3> HIDE DEF g
    <3> QED
      BY <1>1, <2>1, <2>2, FoundPlaces
  <2>4. GapAt(q, n) = b /\ b.tf = r.tf /\ b.open = r.open
    BY <2>3 DEF GapAt, Bar
  <2>5. /\ b.open <= p.agg[b.tf].emitted
        /\ \A j \in DOMAIN p.gaps : GapAt(p, j) # b
        /\ \A i \in DOMAIN p.calls : Waiting(p.calls[i]) => BarOf(p.calls[i]) # b
    BY <1>4, <2>4
  <2> HIDE DEF g, b, n
  <2>6. \A tf \in Timeframes : Spaced(q.agg[tf])
    BY <1>1 DEF Unique
  <2>7. \A i \in DOMAIN q.gaps : GapAt(q, i).open <= q.agg[GapAt(q, i).tf].emitted
    BY <1>1, <2>3, <2>4, <2>5 DEF Unique
  <2>8. \A i, j \in DOMAIN q.gaps : GapAt(q, i) = GapAt(q, j) => i = j
    BY <2>3, <2>4, <2>5 DEF Unique
  <2>9. \A i \in DOMAIN q.calls : Waiting(q.calls[i]) =>
            /\ BarOf(q.calls[i]).open <= q.agg[BarOf(q.calls[i]).tf].emitted
            /\ \A j \in DOMAIN q.gaps : GapAt(q, j) # BarOf(q.calls[i])
    BY <1>1, <2>1, <2>3, <2>4, <2>5 DEF Unique
  <2>10. \A i, j \in DOMAIN q.calls :
             Waiting(q.calls[i]) /\ Waiting(q.calls[j]) /\ BarOf(q.calls[i]) = BarOf(q.calls[j]) => i = j
    BY <2>1 DEF Unique
  <2> QED
    BY <2>6, <2>7, <2>8, <2>9, <2>10 DEF Unique
<1> QED
  BY <1>3, <1>4

\* Resuming records no gap.
LEMMA ResumedUnique ==
    ASSUME NEW p \in Pipes, NEW q, ResumedAs(p, q), Unique(p)
    PROVE  Unique(q)
<1>1. q \in Pipes /\ q.agg = p.agg /\ q.gaps = p.gaps
  BY DEF ResumedAs
<1>2. PICK keep \in SUBSET p.deferred :
          q.calls = <<[do |-> "release", left |-> p.deferred \ keep, keep |-> keep]>> \o p.calls
  BY DEF ResumedAs
<1> DEFINE c == [do |-> "release", left |-> p.deferred \ keep, keep |-> keep]
           s == <<c>>
<1>3. c \in CallRecords /\ c.do # "handle"
  <2>1. p.deferred \in SUBSET Bars
    BY DEF Pipes
  <2> QED
    BY <1>2, <2>1, CallsMade
<1>4. q.calls = s \o p.calls
  BY <1>2
<1> HIDE DEF c
<1>5. s \in Seq(CallRecords) /\ DOMAIN s = {1} /\ s[1] = c
  BY <1>3, OneOrTwo
<1> HIDE DEF s
<1>6. \A j \in DOMAIN p.gaps : GapAt(q, j) = GapAt(p, j)
  BY <1>1 DEF GapAt
<1> QED
  BY <1>1, <1>3, <1>4, <1>5, <1>6, UniqueStill

\* Releasing a deferred bar records no gap.
LEMMA ReleasedUnique ==
    ASSUME NEW p \in Pipes, NEW left \in SUBSET Bars, NEW keep \in SUBSET Bars, NEW q,
           ReleasedAs(p, left, keep, q), Unique(p)
    PROVE  Unique(q)
<1>1. q \in Pipes /\ q.agg = p.agg /\ SameGaps(p, q) /\ p.calls \in Seq(CallRecords)
  BY DEF ReleasedAs, Pipes
<1>2. DOMAIN q.gaps = DOMAIN p.gaps /\ \A j \in DOMAIN p.gaps : GapAt(q, j) = GapAt(p, j)
  BY <1>1 DEF SameGaps, GapAt
<1>3. CASE q.calls = p.calls
  <2> DEFINE s == <<>>
  <2>1. s \in Seq(CallRecords) /\ q.calls = s \o p.calls /\ DOMAIN s = {}
    BY <1>1, <1>3, StackParts
  <2> QED
    BY <1>1, <1>2, <2>1, UniqueStill
<1>4. ASSUME NEW bar \in left, NEW s, Offers(s, bar, q),
             q.calls = s \o (<<[do |-> "release", left |-> left \ {bar}, keep |-> keep]>> \o p.calls)
      PROVE  Unique(q)
  <2> DEFINE c == [do |-> "release", left |-> left \ {bar}, keep |-> keep]
             r == <<c>>
  <2>1. c \in CallRecords /\ c.do # "handle"
    BY CallsMade
  <2>2. q.calls = s \o (r \o p.calls)
    BY <1>4
  <2> HIDE DEF c
  <2>3. r \in Seq(CallRecords) /\ DOMAIN r = {1} /\ r[1] = c
    BY <2>1, OneOrTwo
  <2> HIDE DEF r
  <2>4. s \in Seq(CallRecords) /\ \A j \in DOMAIN s : s[j].do # "handle"
    BY <1>4, OffersQuiet
  <2>5. s \o (r \o p.calls) = (s \o r) \o p.calls /\ s \o r \in Seq(CallRecords)
    <3>1. r \in Seq(CallRecords)
      BY <2>3
    <3>2. s \in Seq(CallRecords)
      BY <2>4
    <3>3. p.calls \in Seq(CallRecords)
      BY <1>1
    <3> QED
      BY <3>1, <3>2, <3>3, StackJoins
  <2>6. \A j \in DOMAIN (s \o r) : (s \o r)[j].do # "handle"
    BY <2>1, <2>3, <2>4, QuietParts
  <2> QED
    BY <1>1, <1>2, <2>2, <2>5, <2>6, UniqueStill
<1> QED
  BY <1>3, <1>4 DEF ReleasedAs

\* Whatever the call was, no gap is recorded twice.
LEMMA CalledUnique ==
    ASSUME NEW p \in Pipes, p.calls # <<>>, NEW q, Called(p, q), Unique(p)
    PROVE  Unique(q)
<1> DEFINE c == Head(p.calls)
           r == Rest(p)
<1>1. r \in Pipes /\ r.agg = p.agg /\ SameGaps(p, r) /\ r.calls \in Seq(CallRecords)
  BY RestIsPipe DEF Pipes
<1>2. /\ Unique(r)
      /\ Waiting(c) => /\ BarOf(c).open <= p.agg[BarOf(c).tf].emitted
                       /\ \A j \in DOMAIN p.gaps : GapAt(p, j) # BarOf(c)
                       /\ \A i \in DOMAIN r.calls : Waiting(r.calls[i]) => BarOf(r.calls[i]) # BarOf(c)
  BY UniqueRest
<1> HIDE DEF r
<1>3. CASE c.do = "offer" /\ c.bar \in Bars /\ c.to \in SUBSET Timeframes /\ OfferedOn(r, c.bar, c.to, q)
  <2>1. PICK tf \in c.to : LET f == [r EXCEPT !.calls = Offering(c.bar, c.to \ {tf}) \o r.calls] IN
                           f \in Pipes /\ Offered(f, tf, c.bar.open, q)
    BY <1>3 DEF OfferedOn
  <2> DEFINE s == Offering(c.bar, c.to \ {tf})
             f == [r EXCEPT !.calls = s \o r.calls]
  <2>2. s \in Seq(CallRecords) /\ \A i \in DOMAIN s : s[i] = [do |-> "offer", bar |-> c.bar, to |-> c.to \ {tf}]
    BY <1>3, OfferingDoes
  <2>3. f \in Pipes /\ Offered(f, tf, c.bar.open, q)
    BY <2>1
  <2> HIDE DEF f, s
  <2>4. \A i \in DOMAIN s : s[i].do # "handle"
    BY <2>2
  <2> USE DEF f
  <2>5. f.gaps = r.gaps /\ f.agg = r.agg /\ f.calls = s \o r.calls
    BY <1>1 DEF Pipes
  <2> HIDE DEF f
  <2>6. \A j \in DOMAIN r.gaps : GapAt(f, j) = GapAt(r, j)
    BY <2>5 DEF GapAt
  <2>7. Unique(f)
    BY <1>1, <1>2, <2>2, <2>3, <2>4, <2>5, <2>6, UniqueStill
  <2> QED
    BY <1>3, <2>3, <2>7, OfferedUnique
<1>4. CASE c.do = "handle" /\ c.result \in Results /\ Handled(r, c.result, q)
  <2>1. ~c.result.complete =>
            /\ c.result.open <= r.agg[c.result.tf].emitted
            /\ \A j \in DOMAIN r.gaps : GapAt(r, j) # Bar(c.result.tf, c.result.open)
            /\ \A i \in DOMAIN r.calls :
                   Waiting(r.calls[i]) => BarOf(r.calls[i]) # Bar(c.result.tf, c.result.open)
    <3> SUFFICES ASSUME ~c.result.complete
                 PROVE  /\ c.result.open <= r.agg[c.result.tf].emitted
                        /\ \A j \in DOMAIN r.gaps : GapAt(r, j) # Bar(c.result.tf, c.result.open)
                        /\ \A i \in DOMAIN r.calls :
                               Waiting(r.calls[i]) => BarOf(r.calls[i]) # Bar(c.result.tf, c.result.open)
      OBVIOUS
    <3>1. Waiting(c) /\ BarOf(c) = Bar(c.result.tf, c.result.open)
      BY <1>4 DEF Waiting, BarOf
    <3>2. BarOf(c).tf = c.result.tf /\ BarOf(c).open = c.result.open
      BY DEF BarOf, Bar
    <3>3. DOMAIN r.gaps = DOMAIN p.gaps /\ \A j \in DOMAIN p.gaps : GapAt(r, j) = GapAt(p, j)
      BY <1>1 DEF SameGaps, GapAt
    <3> QED
      BY <1>1, <1>2, <3>1, <3>2, <3>3
  <2> QED
    BY <1>1, <1>2, <1>4, <2>1, HandledUnique
<1>5. CASE c.do = "resume" /\ ResumedAs(r, q)
  BY <1>1, <1>2, <1>5, ResumedUnique
<1>6. CASE /\ c.do = "release" /\ c.left \in SUBSET Bars /\ c.keep \in SUBSET Bars
           /\ ReleasedAs(r, c.left, c.keep, q)
  BY <1>1, <1>2, <1>6, ReleasedUnique
<1> QED
  BY <1>3, <1>4, <1>5, <1>6 DEF Called, r

-----------------------------------------------------------------------------
(* Callbacks *)

\* What every method of the pipeline keeps.
Grows(p, q) ==
    /\ q \in Pipes /\ p.seen \subseteq q.seen /\ GapsFollow(p, q) /\ Flows(p, q)
    /\ Suspends(p) => Suspends(q)
    /\ Unique(p) => Unique(q)
    /\ Backs(p) => Backs(q)

\* And what those keep that give no minute up but for the broker's bar.
Advances(p, q) == Grows(p, q) /\ p.pending \ q.pending \subseteq q.seen

\* Growing and advancing are transitive, and nothing need happen.
LEMMA GrowsOn ==
    ASSUME NEW p \in Pipes, NEW q \in Pipes, NEW r
    PROVE  /\ Grows(p, p) /\ Advances(p, p)
           /\ Grows(p, q) /\ Grows(q, r) => Grows(p, r)
           /\ Advances(p, q) /\ Advances(q, r) => Advances(p, r)
<1>1. Grows(p, p) /\ Advances(p, p)
  <2>1. GapsFollow(p, p) /\ Flows(p, p)
    BY KeepsOn, StillFlows DEF Keeps
  <2> QED
    BY <2>1 DEF Grows, Advances
<1>2. ASSUME Grows(p, q), Grows(q, r) PROVE Grows(p, r)
  <2>1. r \in Pipes
    BY <1>2 DEF Grows
  <2>2. GapsFollow(p, r) /\ Flows(p, r)
    BY <1>2, <2>1, GapsFollowOn, FlowsOn DEF Grows
  <2> QED
    BY <1>2, <2>1, <2>2 DEF Grows
<1>3. ASSUME Advances(p, q), Advances(q, r) PROVE Advances(p, r)
  <2>1. Grows(p, r) /\ q.seen \subseteq r.seen
    BY <1>2, <1>3 DEF Advances, Grows
  <2> QED
    BY <1>3, <2>1 DEF Advances
<1> QED
  BY <1>1, <1>2, <1>3

\* What those keep that hand bars on and touch no minute.
Dispatches(p, q) == Grows(p, q) /\ SameMinutes(p, q) /\ SameFeed(p, q)

\* That is transitive too.
LEMMA DispatchesOn ==
    ASSUME NEW p \in Pipes, NEW q \in Pipes, NEW r
    PROVE  /\ Dispatches(p, p)
           /\ Dispatches(p, q) /\ Dispatches(q, r) => Dispatches(p, r)
           /\ Dispatches(p, q) => Advances(p, q)
<1>1. Dispatches(p, p)
  BY GrowsOn DEF Dispatches, SameMinutes, SameFeed
<1>2. ASSUME Dispatches(p, q), Dispatches(q, r) PROVE Dispatches(p, r)
  <2>1. Grows(p, r)
    BY <1>2, GrowsOn DEF Dispatches
  <2> QED
    BY <1>2, <2>1 DEF Dispatches, SameMinutes, SameFeed
<1> QED
  BY <1>1, <1>2 DEF Dispatches, Advances, SameMinutes

\* A change of the other fields, and of the minutes.
LEMMA QuietGrows ==
    ASSUME NEW p \in Pipes, NEW q \in Pipes, SameGaps(p, q), q.agg = p.agg,
           q.deferred = p.deferred, q.delivered = p.delivered, q.lastClosed = p.lastClosed, q.calls = p.calls,
           p.seen \subseteq q.seen
    PROVE  Grows(p, q)
<1>1. GapsFollow(p, q)
  BY GapsFollowOn
<1> DEFINE s == <<>>
<1>2. s \in Seq(CallRecords) /\ q.calls = s \o p.calls /\ DOMAIN s = {}
  <2>1. p.calls \in Seq(CallRecords)
    BY DEF Pipes
  <2> QED
    BY <2>1, StackParts
<1>3. Suspends(p) => Suspends(q)
  BY <1>2, SuspendsOn
<1>4. ASSUME Unique(p) PROVE Unique(q)
  <2>1. DOMAIN q.gaps = DOMAIN p.gaps /\ \A j \in DOMAIN p.gaps : GapAt(q, j) = GapAt(p, j)
    BY DEF SameGaps, GapAt
  <2> QED
    BY <1>2, <1>4, <2>1, UniqueStill
<1>5. Backs(p) => Backs(q)
  BY <1>1, BacksOn
<1>6. Flows(p, q)
  <2>1. ServedPlaces(q) = ServedPlaces(p) /\ (\A i \in ServedPlaces(p) : GapAt(q, i) = GapAt(p, i))
        /\ (Awaits(p) => Awaits(q))
    BY DEF SameGaps, ServedPlaces, GapAt, Awaits
  <2> QED
    BY <2>1, StillFlows
<1> QED
  BY <1>1, <1>3, <1>4, <1>5, <1>6 DEF Grows

\* Making a call grows the pipeline.
LEMMA MakeCallGrows ==
    ASSUME NEW p \in Pipes
    PROVE  Dispatches(p, MakeCall(p))
<1>1. CASE p.calls = <<>>
  BY <1>1, MakeCallDoes, GrowsOn DEF Dispatches, SameMinutes, SameFeed
<1>2. CASE p.calls # <<>>
  <2> DEFINE q == MakeCall(p)
  <2>1. Called(p, q)
    BY <1>2, MakeCallDoes
  <2>2. Keeps(p, q) /\ Moves(p, q)
    BY MakeCallKeeps, MakeCallMoves
  <2> HIDE DEF q
  <2>3. Unique(p) => Unique(q)
    BY <1>2, <2>1, CalledUnique
  <2>4. Backs(p) => Backs(q)
    BY <1>2, <2>1, CalledBacks
  <2>5. Dispatches(p, q)
    BY <2>2, <2>3, <2>4 DEF Dispatches, Keeps, Moves, Grows, SameMinutes
  <2> QED
    BY <2>5 DEF q
<1> QED
  BY <1>1, <1>2

\* All the calls of a method.
LEMMA ReturnedGrows ==
    ASSUME NEW p \in Pipes
    PROVE  Dispatches(p, Returned(p))
<1> DEFINE S == {q \in Pipes : Dispatches(p, q)}
<1>1. p \in S
  BY DispatchesOn
<1>2. ASSUME NEW q \in S PROVE MakeCall(q) \in S
  <2>1. Dispatches(q, MakeCall(q))
    BY MakeCallGrows
  <2>2. Dispatches(p, MakeCall(q))
    BY <2>1, DispatchesOn
  <2> QED
    BY <2>2 DEF Dispatches, Grows
<1>3. S \in SUBSET Pipes
  OBVIOUS
<1> HIDE DEF S
<1>4. Returned(p) \in S
  BY <1>1, <1>2, <1>3, ReturnedStays
<1> QED
  BY <1>4 DEF S

\* m was processed between p and q, and nothing else of the feed was touched.
Sees(p, m, q) ==
    /\ q.open = p.open /\ q.trusted = p.trusted /\ q.emitted = p.emitted
    /\ q.coverage = p.coverage /\ q.stale = p.stale /\ q.pending = p.pending
    /\ q.seen = p.seen \union {m}
    /\ q.lastM1 = IF m \in p.seen THEN p.lastM1 ELSE Later(p.lastM1, m)

\* A minute the pipeline has closed is seen, and takes no other off the list.
LEMMA ClosedGrows ==
    ASSUME NEW p \in Pipes, NEW m \in Minutes
    PROVE  LET q == OnM1Closed(p, m) IN
           Grows(p, q) /\ q.pending = p.pending /\ m \in q.seen /\ Sees(p, m, q)
<1>1. CASE m \in p.seen
  <2>1. OnM1Closed(p, m) = p
    BY <1>1 DEF OnM1Closed
  <2> QED
    BY <1>1, <2>1, GrowsOn DEF Sees, SameFeed
<1>2. CASE m \notin p.seen
  <2> DEFINE a == [p EXCEPT !.seen = p.seen \union {m}, !.lastM1 = Later(p.lastM1, m)]
             b == OfferTo(a, Primary, m)
  <2>1. Later(p.lastM1, m) \in Opt
    BY DEF Pipes, Later, Opt
  <2>2. a \in Pipes
    BY <2>1 DEF Pipes
  <2>3. /\ a.seen = p.seen \union {m} /\ a.pending = p.pending /\ SameGaps(p, a) /\ a.agg = p.agg
        /\ a.deferred = p.deferred /\ a.delivered = p.delivered /\ a.lastClosed = p.lastClosed /\ a.calls = p.calls
    BY DEF Pipes, SameGaps
  <2>3a. Sees(p, m, a)
    BY <1>2 DEF Pipes, Sees
  <2>4. OnM1Closed(p, m) = Returned(b)
    BY <1>2 DEF OnM1Closed
  <2> HIDE DEF a
  <2>5. Grows(p, a)
    BY <2>2, <2>3, QuietGrows
  <2>6. Primary \in Timeframes /\ Present(a, Primary, m)
    BY <2>3, TimeframesAssumption DEF Timeframes, Present
  <2>7. Offered(a, Primary, m, b)
    BY <2>2, <2>6, OfferToDoes
  <2> HIDE DEF b
  <2>8. b \in Pipes /\ Dispatches(a, b)
    <3>1. Keeps(a, b) /\ Moves(a, b)
      BY <2>2, <2>6, <2>7, OfferedKeeps, OfferedMoves
    <3>2. Unique(a) => Unique(b)
      BY <2>2, <2>6, <2>7, OfferedUnique
    <3>3. Backs(a) => Backs(b)
      BY <2>2, <2>6, <2>7, OfferedBacks
    <3> QED
      BY <3>1, <3>2, <3>3 DEF Keeps, Moves, Grows, SameMinutes, Dispatches
  <2>9. Dispatches(a, Returned(b))
    BY <2>2, <2>8, ReturnedGrows, DispatchesOn
  <2>11. Grows(p, Returned(b))
    BY <2>2, <2>5, <2>9, GrowsOn DEF Dispatches
  <2>12. Returned(b).pending = p.pending /\ m \in Returned(b).seen /\ Sees(p, m, Returned(b))
    BY <2>3, <2>3a, <2>9 DEF Dispatches, SameMinutes, SameFeed, Sees
  <2> QED
    BY <2>4, <2>11, <2>12
<1> QED
  BY <1>1, <1>2

\* A change of the other fields alone.
LEMMA QuietAdvances ==
    ASSUME NEW p \in Pipes, NEW q \in Pipes, SameGaps(p, q), q.agg = p.agg,
           q.deferred = p.deferred, q.delivered = p.delivered, q.lastClosed = p.lastClosed, q.calls = p.calls,
           q.seen = p.seen, p.pending \subseteq q.pending
    PROVE  Advances(p, q)
BY QuietGrows DEF Advances

\* A closed minute advances the pipeline.
LEMMA ClosedAdvances ==
    ASSUME NEW p \in Pipes, NEW m \in Minutes
    PROVE  Advances(p, OnM1Closed(p, m))
BY ClosedGrows DEF Advances

\* So does a minute marked as pending,
LEMMA MarkAdvances ==
    ASSUME NEW p \in Pipes, NEW m \in Minutes
    PROVE  Advances(p, MarkPending(p, m))
<1>1. CASE m \in p.seen
  BY <1>1, GrowsOn DEF MarkPending
<1>2. CASE m \notin p.seen
  <2> DEFINE q == [p EXCEPT !.pending = p.pending \union {m}]
  <2>1. MarkPending(p, m) = q
    BY <1>2 DEF MarkPending
  <2>2. q \in Pipes
    BY DEF Pipes
  <2>3. /\ SameGaps(p, q) /\ q.agg = p.agg /\ q.deferred = p.deferred /\ q.delivered = p.delivered /\ q.lastClosed = p.lastClosed
        /\ q.calls = p.calls /\ q.seen = p.seen /\ p.pending \subseteq q.pending
    BY DEF Pipes, SameGaps
  <2> HIDE DEF q
  <2>4. Advances(p, q)
    BY <2>2, <2>3, QuietAdvances
  <2> QED
    BY <2>1, <2>4
<1> QED
  BY <1>1, <1>2

\* the open minute closed,
LEMMA CloseOpenAdvances ==
    ASSUME NEW p \in Pipes, p.open # None
    PROVE  Advances(p, CloseOpen(p))
<1> DEFINE q == [p EXCEPT !.emitted = p.open, !.open = None]
<1>1. p.open \in Minutes
  BY DEF Pipes, Opt
<1>2. q \in Pipes
  BY DEF Pipes, Opt
<1>3. /\ SameGaps(p, q) /\ q.agg = p.agg /\ q.deferred = p.deferred /\ q.delivered = p.delivered /\ q.lastClosed = p.lastClosed
      /\ q.calls = p.calls /\ q.seen = p.seen /\ p.pending \subseteq q.pending
  BY DEF Pipes, SameGaps
<1>4. CloseOpen(p) = IF p.trusted THEN OnM1Closed(q, p.open) ELSE MarkPending(q, p.open)
  BY DEF CloseOpen
<1> HIDE DEF q
<1>5. Advances(p, q)
  BY <1>2, <1>3, QuietAdvances
<1>6. Advances(q, CloseOpen(p))
  BY <1>1, <1>2, <1>4, ClosedAdvances, MarkAdvances
<1> QED
  BY <1>2, <1>5, <1>6, GrowsOn

\* a feed that is back,
LEMMA ConnectedAdvances ==
    ASSUME NEW p \in Pipes, NEW m \in Minutes
    PROVE  Advances(p, SetConnected(p, m))
<1> DEFINE q == SetConnected(p, m)
<1>1. m + 1 \in Opt \union {LastMinute + 1}
  BY BoundsAssumption DEF Opt, Minutes
<1>2. q \in Pipes
  BY <1>1 DEF Pipes, SetConnected
<1>3. /\ SameGaps(p, q) /\ q.agg = p.agg /\ q.deferred = p.deferred /\ q.delivered = p.delivered /\ q.lastClosed = p.lastClosed
      /\ q.calls = p.calls /\ q.seen = p.seen /\ p.pending \subseteq q.pending
  BY DEF Pipes, SameGaps, SetConnected
<1> HIDE DEF q
<1>4. Advances(p, q)
  BY <1>2, <1>3, QuietAdvances
<1> QED
  BY <1>4 DEF q

\* a tick,
LEMMA TickAdvances ==
    ASSUME NEW p \in Pipes, NEW m \in Minutes
    PROVE  Advances(p, AddTick(p, m))
<1> DEFINE r == IF p.stale THEN SetConnected(p, m) ELSE p
           q == IF r.open # None /\ m > r.open THEN CloseOpen(r) ELSE r
           z == [q EXCEPT !.open = m, !.trusted = MinuteTrusted(q, m)]
<1>1. AddTick(p, m) = IF m <= r.emitted THEN r ELSE IF q.open # None THEN q ELSE z
  BY DEF AddTick, Fill
<1>2. Advances(p, r) /\ r \in Pipes
  BY ConnectedAdvances, GrowsOn DEF Advances, Grows
<1> HIDE DEF r
<1>3. Advances(r, q) /\ q \in Pipes
  BY <1>2, CloseOpenAdvances, GrowsOn DEF Advances, Grows
<1> HIDE DEF q
<1>4. z \in Pipes
  <2>1. m \in Opt /\ MinuteTrusted(q, m) \in BOOLEAN
    BY DEF Opt, MinuteTrusted
  <2> QED
    BY <1>3, <2>1 DEF Pipes
<1>5. /\ SameGaps(q, z) /\ z.agg = q.agg /\ z.deferred = q.deferred /\ z.delivered = q.delivered /\ z.lastClosed = q.lastClosed
      /\ z.calls = q.calls /\ z.seen = q.seen /\ q.pending \subseteq z.pending
  BY <1>3 DEF Pipes, SameGaps
<1> HIDE DEF z
<1>6. Advances(q, z)
  BY <1>3, <1>4, <1>5, QuietAdvances
<1>7. Advances(p, q)
  BY <1>2, <1>3, GrowsOn
<1>8. Advances(p, z)
  BY <1>3, <1>6, <1>7, GrowsOn
<1> QED
  BY <1>1, <1>2, <1>7, <1>8

\* The broker's bar takes its minute off the list, and no other.
LEMMA VerifyGrows ==
    ASSUME NEW p \in Pipes, NEW m \in Minutes
    PROVE  LET q == VerifyMinute(p, m) IN
           Grows(p, q) /\ q.pending = p.pending \ {m} /\ m \in q.seen
<1> DEFINE a == [p EXCEPT !.pending = p.pending \ {m}]
           b == MarkEmittedUntil(a, m)
<1>1. a \in Pipes
  BY DEF Pipes
<1>2. /\ SameGaps(p, a) /\ a.agg = p.agg /\ a.deferred = p.deferred /\ a.delivered = p.delivered /\ a.lastClosed = p.lastClosed
      /\ a.calls = p.calls /\ a.seen = p.seen /\ a.pending = p.pending \ {m}
  BY DEF Pipes, SameGaps
<1>3. VerifyMinute(p, m) = OnM1Closed(b, m)
  BY DEF VerifyMinute
<1> HIDE DEF a
<1>4. b \in Pipes
  <2> DEFINE o == IF a.open <= m THEN None ELSE a.open
  <2>1. o \in Opt /\ m \in Opt
    BY <1>1 DEF Pipes, Opt
  <2>2. b = IF m <= a.emitted THEN a ELSE [a EXCEPT !.emitted = m, !.open = o]
    BY DEF MarkEmittedUntil
  <2> HIDE DEF o, b
  <2> QED
    BY <1>1, <2>1, <2>2 DEF Pipes
<1>5. /\ SameGaps(a, b) /\ b.agg = a.agg /\ b.deferred = a.deferred /\ b.delivered = a.delivered /\ b.lastClosed = a.lastClosed
      /\ b.calls = a.calls /\ b.seen = a.seen /\ b.pending = a.pending
  BY <1>1 DEF MarkEmittedUntil, Pipes, SameGaps
<1> HIDE DEF b
<1>6. Grows(p, b)
  <2>1. Grows(p, a)
    BY <1>1, <1>2, QuietGrows
  <2>2. Grows(a, b)
    BY <1>1, <1>4, <1>5, QuietGrows
  <2> QED
    BY <1>1, <2>1, <2>2, GrowsOn
<1>7. /\ Grows(b, OnM1Closed(b, m)) /\ OnM1Closed(b, m).pending = b.pending
      /\ m \in OnM1Closed(b, m).seen
  BY <1>4, ClosedGrows
<1>8. Grows(p, OnM1Closed(b, m))
  BY <1>4, <1>6, <1>7, GrowsOn
<1> QED
  BY <1>2, <1>3, <1>5, <1>7, <1>8

\* and a minute fetched in a recovery.
LEMMA RecoverAdvances ==
    ASSUME NEW p \in Pipes, NEW m \in Minutes
    PROVE  Advances(p, RecoverMinute(p, m))
<1>1. CASE m \in p.seen
  BY <1>1, GrowsOn DEF RecoverMinute
<1>2. CASE m \notin p.seen
  <2> DEFINE a == IF p.open = m THEN [p EXCEPT !.open = None] ELSE p
  <2>1. RecoverMinute(p, m) = VerifyMinute(a, m)
    BY <1>2 DEF RecoverMinute
  <2>2. a \in Pipes
    BY DEF Pipes, Opt
  <2>3. /\ SameGaps(p, a) /\ a.agg = p.agg /\ a.deferred = p.deferred /\ a.delivered = p.delivered /\ a.lastClosed = p.lastClosed
        /\ a.calls = p.calls /\ a.seen = p.seen /\ a.pending = p.pending
    BY DEF Pipes, SameGaps
  <2> HIDE DEF a
  <2>4. Grows(p, a)
    BY <2>2, <2>3, QuietGrows
  <2>5. /\ Grows(a, VerifyMinute(a, m)) /\ VerifyMinute(a, m).pending = a.pending \ {m}
        /\ m \in VerifyMinute(a, m).seen
    BY <2>2, VerifyGrows
  <2>6. Grows(p, VerifyMinute(a, m))
    BY <2>2, <2>4, <2>5, GrowsOn
  <2> QED
    BY <2>1, <2>3, <2>5, <2>6 DEF Advances
<1> QED
  BY <1>1, <1>2

\* The oldest gap is repaired, or any other.
LEMMA RepairAdvances ==
    ASSUME NEW p \in Pipes, NEW bar \in Bars
    PROVE  Dispatches(p, Returned(Repair(p, bar))) /\ Advances(p, Returned(Repair(p, bar)))
<1> DEFINE q == Repair(p, bar)
<1>1. RepairedAs(p, bar, q) /\ Moves(p, q)
  BY RepairDoes, RepairMoves
<1> HIDE DEF q
<1>2. q \in Pipes
  BY <1>1 DEF RepairedAs
<1>3. Dispatches(p, q)
  BY <1>1, <1>2, RepairedKeeps, RepairedUnique, RepairedBacks DEF Grows, SameMinutes, Moves, Dispatches
<1>4. Dispatches(q, Returned(q))
  BY <1>2, ReturnedGrows
<1>5. Dispatches(p, Returned(q))
  BY <1>2, <1>3, <1>4, DispatchesOn
<1>6. Returned(q) \in Pipes
  BY <1>5 DEF Dispatches, Grows
<1> QED
  BY <1>5, <1>6, DispatchesOn DEF q

\* A bucket past its end is closed.
LEMMA FlushAggregatorAdvances ==
    ASSUME NEW p \in Pipes, NEW tf \in Timeframes
    PROVE  Dispatches(p, FlushAggregator(p, tf))
<1> DEFINE b == p.agg[tf].bucket
           e == EmitBucket(p.agg[tf], tf)
           a == [p EXCEPT !.agg = [p.agg EXCEPT ![tf] = e]]
           r == Result(tf, b)
           h == Handle(a, r)
<1>1. CASE b.open = None \/ now < b.open + Size[tf]
  <2>1. FlushAggregator(p, tf) = p
    BY <1>1 DEF FlushAggregator
  <2> QED
    BY <2>1, DispatchesOn
<1>2. CASE ~(b.open = None \/ now < b.open + Size[tf])
  <2>1. FlushAggregator(p, tf) = Returned(h)
    BY <1>2 DEF FlushAggregator
  <2>2. b \in Buckets /\ b.open # None /\ p.agg[tf] \in Aggregators /\ p.agg \in [Timeframes -> Aggregators]
    BY <1>2 DEF Pipes, Aggregators
  <2>3. e \in Aggregators /\ e.bucket = NoBucket /\ e.emitted = b.open
    BY <2>2, EmitDoes
  <2> HIDE DEF e
  <2>4. a \in Pipes /\ p.calls \in Seq(CallRecords)
    BY <2>2, <2>3 DEF Pipes
  <2>5. /\ SameGaps(p, a) /\ SameMinutes(p, a) /\ a.deferred = p.deferred /\ a.delivered = p.delivered /\ a.lastClosed = p.lastClosed
        /\ a.calls = p.calls /\ a.agg = [p.agg EXCEPT ![tf] = e]
    BY DEF Pipes, SameGaps, SameMinutes
  <2>6. r \in Results /\ r.tf = tf /\ r.open = b.open /\ (r.complete => Expected(tf, b.open) = b.have)
    BY <2>2, ResultForm
  <2>7. Handled(a, r, h)
    <3> HIDE DEF a, r
    <3> QED
      BY <2>4, <2>6, HandleDoes
  <2> HIDE DEF a, r, h
  <2>8. h \in Pipes
    BY <2>7 DEF Handled
  <2>9. GapsFollow(p, a)
    BY <2>4, <2>5, GapsFollowOn
  <2>10. DOMAIN a.gaps = DOMAIN p.gaps /\ \A j \in DOMAIN p.gaps : GapAt(a, j) = GapAt(p, j)
    BY <2>5 DEF SameGaps, GapAt
  <2> DEFINE s == <<>>
  <2>11. s \in Seq(CallRecords) /\ a.calls = s \o p.calls /\ DOMAIN s = {}
    BY <2>4, <2>5, StackParts
  <2>12. Suspends(p) => Suspends(a)
    BY <2>4, <2>5, <2>11, SuspendsOn
  <2>13. Keeps(a, h)
    BY <2>4, <2>6, <2>7, HandledKeeps
  <2>14. a.agg[tf] = e /\ \A u \in Timeframes : u # tf => a.agg[u] = p.agg[u]
    BY <2>2, <2>5
  <2>15. ASSUME Backs(p) PROVE Backs(h)
    <3>1. \A u \in Timeframes : \A t \in a.agg[u].bucket.have : t \in p.agg[u].bucket.have
      <4>1. e.bucket.have = {}
        BY <2>3 DEF NoBucket
      <4> QED
        BY <2>14, <4>1
    <3>2. Backs(a)
      BY <2>4, <2>5, <2>9, <2>15, <3>1, BacksOn DEF SameMinutes
    <3>3. ASSUME r.complete PROVE Backed(a, Bar(r.tf, r.open))
      <4>1. \A t \in b.have : Present(p, tf, t)
        BY <2>15 DEF Backs
      <4>2. \A t \in b.have : Present(a, tf, t)
        BY <2>4, <2>5, <2>9, <4>1, PresentStays DEF SameMinutes
      <4>3. Bar(r.tf, r.open).tf = tf /\ Bar(r.tf, r.open).open = b.open
        BY <2>6 DEF Bar
      <4> QED
        BY <2>6, <3>3, <4>2, <4>3 DEF Backed
    <3> QED
      BY <2>4, <2>6, <2>7, <3>2, <3>3, HandledBacks
  <2>16. ASSUME Unique(p) PROVE Unique(h)
    <3>1. Spaced(p.agg[tf]) /\ \A u \in Timeframes : Spaced(p.agg[u]) /\ p.agg[u].emitted \in Int
      BY <2>16, WaitingParts DEF Unique
    <3>2. p.agg[tf].emitted < b.open /\ b.open \in Int /\ p.agg[tf].emitted \in Int
      <4>1. b.open \in Int
        BY <2>6 DEF Results, Minutes
      <4> QED
        BY <2>2, <3>1, <4>1 DEF Spaced
    <3>3. Spaced(e)
      BY <2>3 DEF Spaced, NoBucket
    <3>4. \A u \in Timeframes : Spaced(a.agg[u]) /\ p.agg[u].emitted <= a.agg[u].emitted
      <4> SUFFICES ASSUME NEW u \in Timeframes PROVE Spaced(a.agg[u]) /\ p.agg[u].emitted <= a.agg[u].emitted
        OBVIOUS
      <4>1. CASE u = tf
        BY <2>3, <2>14, <3>2, <3>3, <4>1
      <4>2. CASE u # tf
        BY <2>14, <3>1, <4>2
      <4> QED
        BY <4>1, <4>2
    <3>5. Unique(a)
      BY <2>4, <2>10, <2>11, <2>16, <3>4, UniqueOn
    <3> DEFINE z == Bar(r.tf, r.open)
    <3>6. z.tf = tf /\ z.open = b.open
      BY <2>6 DEF Bar
    <3> HIDE DEF z
    <3>7. r.open <= a.agg[r.tf].emitted
      BY <2>3, <2>6, <2>14, <3>2
    <3>8. ~(z.open <= p.agg[z.tf].emitted)
      BY <3>2, <3>6
    <3>9. \A j \in DOMAIN a.gaps : GapAt(a, j) # z
      <4>1. \A j \in DOMAIN p.gaps : GapAt(p, j).open <= p.agg[GapAt(p, j).tf].emitted
        BY <2>16 DEF Unique
      <4> QED
        BY <2>10, <3>8, <4>1
    <3>10. \A i \in DOMAIN a.calls : Waiting(a.calls[i]) => BarOf(a.calls[i]) # z
      <4>1. \A i \in DOMAIN p.calls : Waiting(p.calls[i]) => BarOf(p.calls[i]).open <= p.agg[BarOf(p.calls[i]).tf].emitted
        BY <2>16 DEF Unique
      <4> QED
        BY <2>5, <3>8, <4>1
    <3> QED
      BY <2>4, <2>6, <2>7, <3>5, <3>7, <3>9, <3>10, HandledUnique DEF z
  <2>16a. Moves(p, h)
    <3>1. Moves(a, h)
      <4> HIDE DEF a, r
      <4>1. Moves(a, Handle(a, r))
        BY <2>4, <2>6, HandleMoves
      <4> QED
        BY <4>1 DEF h
    <3>2. SameFeed(p, a) /\ Flows(p, a)
      <4>1. SameFeed(p, a) /\ a.lastClosed = p.lastClosed
        BY DEF a, Pipes, SameFeed
      <4>2. ServedPlaces(a) = ServedPlaces(p) /\ (\A i \in ServedPlaces(p) : GapAt(a, i) = GapAt(p, i))
            /\ (Awaits(p) => Awaits(a))
        BY <2>5 DEF SameGaps, ServedPlaces, GapAt, Awaits
      <4> QED
        BY <2>5, <4>1, <4>2, StillFlows
    <3> QED
      BY <2>4, <2>8, <3>1, <3>2, FlowsOn DEF Moves, SameFeed
  <2>17. Dispatches(p, h)
    <3>1. GapsFollow(p, h) /\ SameMinutes(p, h)
      BY <2>4, <2>5, <2>8, <2>9, <2>13, GapsFollowOn DEF Keeps, SameMinutes
    <3>2. Suspends(p) => Suspends(h)
      BY <2>12, <2>13 DEF Keeps
    <3> QED
      BY <2>8, <2>15, <2>16, <2>16a, <3>1, <3>2 DEF Grows, SameMinutes, Moves, Dispatches
  <2>18. Dispatches(h, Returned(h))
    BY <2>8, ReturnedGrows
  <2>19. Dispatches(p, Returned(h))
    BY <2>8, <2>17, <2>18, DispatchesOn
  <2> QED
    BY <2>1, <2>19
<1> QED
  BY <1>1, <1>2

\* The higher timeframes are timeframes.
LEMMA HigherAre ==
    /\ Primary \in Timeframes /\ Len(Higher) \in Nat
    /\ \A i \in 1..Len(Higher) : Higher[i] \in Timeframes
<1>1. Higher \in Seq({Higher[i] : i \in DOMAIN Higher})
  BY TimeframesAssumption
<1>2. DOMAIN Higher = 1..Len(Higher) /\ Len(Higher) \in Nat
  BY <1>1
<1> QED
  BY <1>2 DEF Timeframes

\* Flushing every aggregator advances the pipeline, by the steps of the recursive function.
LEMMA FlushAggregatorsAdvances ==
    ASSUME NEW p \in Pipes
    PROVE  Dispatches(p, FlushAggregators(p))
<1> DEFINE n == Len(Higher)
           base == FlushAggregator(p, Primary)
           step == [i \in 1..n |-> [q \in Pipes |-> FlushAggregator(q, Higher[i])]]
           Made(g) == g = [i \in 0..n |-> IF i = 0 THEN FlushAggregator(p, Primary)
                                          ELSE FlushAggregator(g[i-1], Higher[i])]
<1>1. n \in Nat
  BY HigherAre
<1>2. \A i \in 1..n, q \in Pipes : /\ Dispatches(q, FlushAggregator(q, Higher[i]))
                                   /\ FlushAggregator(q, Higher[i]) \in Pipes
  BY HigherAre, FlushAggregatorAdvances DEF Dispatches, Grows
<1>3. base \in Pipes /\ Dispatches(p, base)
  BY HigherAre, FlushAggregatorAdvances DEF Dispatches, Grows
<1>4. step \in [1..n -> [Pipes -> Pipes]]
  BY <1>2
<1>5. PICK f \in [0..n -> Pipes] : Takes(f, n, base, step)
  <2> HIDE DEF step, n, base
  <2> QED
    BY <1>1, <1>3, <1>4, StepsExist
<1>6. Made(f)
  <2>1. f[0] = base
    BY <1>5 DEF Takes
  <2>2. ASSUME NEW i \in 1..n PROVE f[i] = FlushAggregator(f[i-1], Higher[i])
    <3>1. i-1 \in 0..n /\ f[i] = step[i][f[i-1]]
      <4> HIDE DEF step, base
      <4> QED
        BY <1>1, <1>5 DEF Takes
    <3>2. f[i-1] \in Pipes
      BY <3>1
    <3> QED
      BY <3>1, <3>2
  <2>3. f = [i \in 0..n |-> f[i]]
    OBVIOUS
  <2>4. \A i \in 0..n : f[i] = IF i = 0 THEN FlushAggregator(p, Primary) ELSE FlushAggregator(f[i-1], Higher[i])
    BY <1>1, <2>1, <2>2
  <2> QED
    BY <2>3, <2>4
<1> DEFINE g == CHOOSE h : Made(h)
<1>7. Made(g)
  BY <1>6
<1>8. FlushAggregators(p) = g[n]
  BY DEF FlushAggregators
<1> HIDE DEF g
<1>9. g[0] = base /\ \A i \in 1..n : g[i] = FlushAggregator(g[i-1], Higher[i])
  BY <1>1, <1>7
<1> HIDE DEF Made, step, base, n
<1> DEFINE T == {i \in 0..n : g[i] \in Pipes /\ Dispatches(p, g[i])}
<1>10. 0 \in T /\ Climbs(T, 0, n)
  <2>1. ASSUME NEW i \in 0..(n-1), g[i] \in Pipes, Dispatches(p, g[i])
        PROVE  g[i+1] \in Pipes /\ Dispatches(p, g[i+1])
    <3>1. i+1 \in 1..n /\ (i+1)-1 = i
      BY <1>1
    <3>2. g[i+1] = FlushAggregator(g[i], Higher[i+1])
      BY <1>9, <3>1
    <3>3. Dispatches(g[i], g[i+1]) /\ g[i+1] \in Pipes
      BY <1>2, <2>1, <3>1, <3>2
    <3> QED
      BY <2>1, <3>3, DispatchesOn
  <2> QED
    BY <1>1, <1>3, <1>9, <2>1 DEF Climbs
<1>11. \A i \in 0..n : i \in T
  <2> HIDE DEF T
  <2> QED
    BY <1>1, <1>10, Climb
<1> QED
  BY <1>1, <1>8, <1>11

\* So does flush_at.
LEMMA FlushAdvances ==
    ASSUME NEW p \in Pipes, now \in Minutes
    PROVE  Advances(p, FlushAt(p))
<1> DEFINE c == IF p.open # None /\ p.open < now THEN CloseOpen(p) ELSE p
           s == [c EXCEPT !.pending = c.pending \union SilentMinutes(c)]
<1>1. FlushAt(p) = FlushAggregators(s)
  BY DEF FlushAt
<1>2. Advances(p, c) /\ c \in Pipes
  BY CloseOpenAdvances, GrowsOn DEF Advances, Grows
<1> HIDE DEF c
<1>3. SilentMinutes(c) \subseteq Minutes
  <2>1. c.coverage \in Int /\ c.coverage >= -1 /\ c.lastM1 \in Int /\ c.lastM1 >= -1 /\ now \in 0..LastMinute
    BY <1>2, BoundsAssumption DEF Pipes, Opt, Minutes, None
  <2>2. Later(c.coverage - 1, c.lastM1 + 1) \in Int /\ Later(c.coverage - 1, c.lastM1 + 1) >= 0
    BY <2>1 DEF Later
  <2>3. Later(c.coverage - 1, c.lastM1 + 1)..(now - 1) \subseteq 0..LastMinute
    BY <2>1, <2>2, BoundsAssumption
  <2> QED
    BY <2>3 DEF SilentMinutes, Minutes
<1>4. s \in Pipes
  BY <1>2, <1>3 DEF Pipes
<1>5. /\ SameGaps(c, s) /\ s.agg = c.agg /\ s.deferred = c.deferred /\ s.delivered = c.delivered /\ s.lastClosed = c.lastClosed
      /\ s.calls = c.calls /\ s.seen = c.seen /\ c.pending \subseteq s.pending
  BY <1>2 DEF Pipes, SameGaps
<1> HIDE DEF s
<1>6. Advances(c, s)
  BY <1>2, <1>4, <1>5, QuietAdvances
<1>7. Advances(s, FlushAggregators(s))
  BY <1>4, FlushAggregatorsAdvances, DispatchesOn DEF Dispatches, Grows
<1>8. Advances(p, s)
  BY <1>2, <1>6, GrowsOn
<1> QED
  BY <1>1, <1>4, <1>7, <1>8, GrowsOn

-----------------------------------------------------------------------------
(* Minutes one after the other *)

Places == 0..(LastMinute + 1)
Steps == [Minutes -> [Pipes -> Pipes]]

\* f takes step for each minute of S, earliest first.
Sweeps(f, p, S, step) ==
    /\ f[0] = p
    /\ \A n \in Minutes : f[n] \in Pipes => f[n+1] = IF n \in S THEN step[n][f[n]] ELSE f[n]

\* What I says of a place stays true at the next.
Steady(I, S, step) ==
    /\ I \in [Places -> SUBSET Pipes]
    /\ \A n \in Minutes : \A q \in I[n] : /\ n \in S => step[n][q] \in I[n+1]
                                          /\ n \notin S => q \in I[n+1]

\* The places before and after a minute.
LEMMA PlacesAre ==
    /\ LastMinute + 1 \in Nat /\ 0 \in Places /\ LastMinute + 1 \in Places
    /\ \A n \in Minutes : n \in Places /\ n + 1 \in Places /\ n \in Nat
    /\ \A n \in 1..(LastMinute + 1) : n - 1 \in Minutes /\ n - 1 \in Places /\ n \in Places /\ (n - 1) + 1 = n
    /\ \A n \in Places : n = 0 \/ n \in 1..(LastMinute + 1)
BY BoundsAssumption DEF Minutes, Places

\* There is a function that takes the steps, so the recursive definition has a value.
LEMMA SweepExists ==
    ASSUME NEW p \in Pipes, NEW S \in SUBSET Minutes, NEW step \in Steps
    PROVE  \E f \in [Places -> Pipes] : Sweeps(f, p, S, step)
<1> DEFINE e == LastMinute + 1
           each == [n \in 1..e |-> [q \in Pipes |-> IF n - 1 \in S THEN step[n-1][q] ELSE q]]
<1>1. each \in [1..e -> [Pipes -> Pipes]]
  <2> SUFFICES ASSUME NEW n \in 1..e, NEW q \in Pipes
               PROVE  (IF n - 1 \in S THEN step[n-1][q] ELSE q) \in Pipes
    OBVIOUS
  <2>1. n - 1 \in Minutes
    BY PlacesAre
  <2> QED
    BY <2>1 DEF Steps
<1>2. PICK f \in [0..e -> Pipes] : Takes(f, e, p, each)
  <2>1. e \in Nat
    BY PlacesAre
  <2> HIDE DEF each, e
  <2> QED
    BY <1>1, <2>1, StepsExist
<1>3. f[0] = p /\ \A n \in 1..e : f[n] = each[n][f[n-1]]
  BY <1>2 DEF Takes
<1>4. ASSUME NEW n \in Minutes
      PROVE  f[n+1] = IF n \in S THEN step[n][f[n]] ELSE f[n]
  <2>1. n + 1 \in 1..e /\ (n + 1) - 1 = n /\ n \in 0..e
    BY PlacesAre DEF Minutes
  <2>2. f[n] \in Pipes
    BY <2>1
  <2>3. f[n+1] = each[n+1][f[n]]
    BY <1>3, <2>1
  <2>4. each[n+1][f[n]] = IF (n + 1) - 1 \in S THEN step[(n+1)-1][f[n]] ELSE f[n]
    BY <2>1, <2>2
  <2> QED
    BY <2>1, <2>3, <2>4
<1>5. Sweeps(f, p, S, step)
  BY <1>3, <1>4 DEF Sweeps
<1> QED
  BY <1>2, <1>5 DEF Places

\* What holds before the first step and stays true at each holds after the last.
LEMMA SweepStays ==
    ASSUME NEW p \in Pipes, NEW S \in SUBSET Minutes, NEW step \in Steps,
           NEW g, Sweeps(g, p, S, step), NEW I, Steady(I, S, step), p \in I[0]
    PROVE  g[LastMinute + 1] \in I[LastMinute + 1]
<1> DEFINE e == LastMinute + 1
           T == {n \in 0..e : g[n] \in I[n]}
<1>1. e \in Nat /\ \A n \in 0..(e-1) : n \in Minutes /\ n \in Places
  BY PlacesAre DEF Minutes, Places
<1>2. ASSUME NEW n \in 0..(e-1), g[n] \in I[n] PROVE g[n+1] \in I[n+1]
  <2>1. n \in Minutes /\ g[n] \in Pipes
    BY <1>1, <1>2 DEF Steady
  <2>2. g[n+1] = IF n \in S THEN step[n][g[n]] ELSE g[n]
    BY <2>1 DEF Sweeps
  <2> QED
    BY <1>2, <2>1, <2>2 DEF Steady
<1>3. g[0] = p
  BY DEF Sweeps
<1> HIDE DEF e
<1>4. 0 \in T /\ Climbs(T, 0, e)
  BY <1>1, <1>2, <1>3 DEF Climbs
<1>5. \A n \in 0..e : n \in T
  <2> HIDE DEF T
  <2> QED
    BY <1>1, <1>4, Climb
<1> QED
  BY <1>1, <1>5 DEF e

\* Steps that each advance the pipeline advance it together.
LEMMA SweepAdvances ==
    ASSUME NEW p \in Pipes, NEW S \in SUBSET Minutes, NEW step \in Steps,
           \A m \in Minutes, q \in Pipes : Advances(q, step[m][q]),
           NEW g, Sweeps(g, p, S, step)
    PROVE  Advances(p, g[LastMinute + 1])
<1> DEFINE I == [n \in Places |-> {q \in Pipes : Advances(p, q)}]
<1>1. p \in I[0]
  BY PlacesAre, GrowsOn
<1>2. \A n \in Minutes : \A q \in I[n] : /\ n \in S => step[n][q] \in I[n+1]
                                         /\ n \notin S => q \in I[n+1]
  <2> SUFFICES ASSUME NEW n \in Minutes, NEW q \in I[n]
               PROVE  step[n][q] \in I[n+1] /\ q \in I[n+1]
    OBVIOUS
  <2>1. n + 1 \in Places /\ q \in Pipes /\ Advances(p, q) /\ q \in I[n+1]
    BY PlacesAre
  <2>2. step[n][q] \in Pipes /\ Advances(p, step[n][q])
    BY <2>1, GrowsOn DEF Steps
  <2> QED
    BY <2>1, <2>2
<1>3. Steady(I, S, step)
  <2>1. I \in [Places -> SUBSET Pipes]
    OBVIOUS
  <2> HIDE DEF I
  <2> QED
    BY <1>2, <2>1 DEF Steady
<1>4. g[LastMinute + 1] \in I[LastMinute + 1]
  <2> HIDE DEF I
  <2> QED
    BY <1>1, <1>3, SweepStays
<1> QED
  BY <1>4, PlacesAre

\* The ticks of some minutes are taken one after the other.
LEMMA TickSweeps ==
    ASSUME NEW p \in Pipes, NEW S \in SUBSET Minutes
    PROVE  \E step, g :
               /\ step \in Steps
               /\ \A m \in Minutes, q \in Pipes : step[m][q] = AddTick(q, m)
               /\ Sweeps(g, p, S, step) /\ Ascending(AddTick, p, S) = g[LastMinute + 1]
<1> DEFINE step == [m \in Minutes |-> [q \in Pipes |-> AddTick(q, m)]]
           Made(g) == g = [n \in 0..(LastMinute + 1) |->
                              IF n = 0 THEN p
                              ELSE IF n - 1 \in S THEN AddTick(g[n-1], n - 1) ELSE g[n-1]]
<1>1. \A q \in Pipes, m \in Minutes : AddTick(q, m) \in Pipes
  BY TickAdvances DEF Advances, Grows
<1>2. step \in Steps /\ \A m \in Minutes, q \in Pipes : step[m][q] = AddTick(q, m)
  BY <1>1 DEF Steps
<1> HIDE DEF step
<1>3. PICK f \in [Places -> Pipes] : Sweeps(f, p, S, step)
  BY <1>2, SweepExists
<1>4. Made(f)
  <2>1. ASSUME NEW n \in 0..(LastMinute + 1)
        PROVE  f[n] = IF n = 0 THEN p ELSE IF n - 1 \in S THEN AddTick(f[n-1], n - 1) ELSE f[n-1]
    <3>1. CASE n = 0
      BY <1>3, <3>1 DEF Sweeps
    <3>2. CASE n # 0
      <4>1. n - 1 \in Minutes /\ n - 1 \in Places /\ (n - 1) + 1 = n
        BY <3>2, PlacesAre DEF Places
      <4>2. f[n-1] \in Pipes
        BY <4>1
      <4>3. f[n] = IF n - 1 \in S THEN step[n-1][f[n-1]] ELSE f[n-1]
        BY <1>3, <4>1, <4>2 DEF Sweeps
      <4> QED
        BY <1>2, <3>2, <4>1, <4>2, <4>3
    <3> QED
      BY <3>1, <3>2
  <2>2. f = [n \in 0..(LastMinute + 1) |-> f[n]]
    BY DEF Places
  <2> QED
    BY <2>1, <2>2
<1> DEFINE g == CHOOSE h : Made(h)
<1>5. Made(g)
  BY <1>4
<1>6. Ascending(AddTick, p, S) = g[LastMinute + 1]
  BY DEF Ascending
<1> HIDE DEF g
<1>7. Sweeps(g, p, S, step)
  <2>1. ASSUME NEW n \in Minutes, g[n] \in Pipes
        PROVE  g[n+1] = IF n \in S THEN step[n][g[n]] ELSE g[n]
    <3>1. n + 1 \in 0..(LastMinute + 1) /\ n + 1 # 0 /\ (n + 1) - 1 = n
      BY PlacesAre DEF Places
    <3>2. g[n+1] = IF n \in S THEN AddTick(g[n], n) ELSE g[n]
      BY <1>5, <3>1
    <3> QED
      BY <1>2, <2>1, <3>2
  <2>2. g[0] = p
    BY <1>5, PlacesAre DEF Places
  <2> HIDE DEF Made
  <2> QED
    BY <2>1, <2>2 DEF Sweeps
<1> QED
  BY <1>2, <1>6, <1>7

\* So are the minutes put on the list,
LEMMA MarkSweeps ==
    ASSUME NEW p \in Pipes, NEW S \in SUBSET Minutes
    PROVE  \E step, g :
               /\ step \in Steps
               /\ \A m \in Minutes, q \in Pipes : step[m][q] = MarkPending(q, m)
               /\ Sweeps(g, p, S, step) /\ Ascending(MarkPending, p, S) = g[LastMinute + 1]
<1> DEFINE step == [m \in Minutes |-> [q \in Pipes |-> MarkPending(q, m)]]
           Made(g) == g = [n \in 0..(LastMinute + 1) |->
                              IF n = 0 THEN p
                              ELSE IF n - 1 \in S THEN MarkPending(g[n-1], n - 1) ELSE g[n-1]]
<1>1. \A q \in Pipes, m \in Minutes : MarkPending(q, m) \in Pipes
  BY MarkAdvances DEF Advances, Grows
<1>2. step \in Steps /\ \A m \in Minutes, q \in Pipes : step[m][q] = MarkPending(q, m)
  BY <1>1 DEF Steps
<1> HIDE DEF step
<1>3. PICK f \in [Places -> Pipes] : Sweeps(f, p, S, step)
  BY <1>2, SweepExists
<1>4. Made(f)
  <2>1. ASSUME NEW n \in 0..(LastMinute + 1)
        PROVE  f[n] = IF n = 0 THEN p ELSE IF n - 1 \in S THEN MarkPending(f[n-1], n - 1) ELSE f[n-1]
    <3>1. CASE n = 0
      BY <1>3, <3>1 DEF Sweeps
    <3>2. CASE n # 0
      <4>1. n - 1 \in Minutes /\ n - 1 \in Places /\ (n - 1) + 1 = n
        BY <3>2, PlacesAre DEF Places
      <4>2. f[n-1] \in Pipes
        BY <4>1
      <4>3. f[n] = IF n - 1 \in S THEN step[n-1][f[n-1]] ELSE f[n-1]
        BY <1>3, <4>1, <4>2 DEF Sweeps
      <4> QED
        BY <1>2, <3>2, <4>1, <4>2, <4>3
    <3> QED
      BY <3>1, <3>2
  <2>2. f = [n \in 0..(LastMinute + 1) |-> f[n]]
    BY DEF Places
  <2> QED
    BY <2>1, <2>2
<1> DEFINE g == CHOOSE h : Made(h)
<1>5. Made(g)
  BY <1>4
<1>6. Ascending(MarkPending, p, S) = g[LastMinute + 1]
  BY DEF Ascending
<1> HIDE DEF g
<1>7. Sweeps(g, p, S, step)
  <2>1. ASSUME NEW n \in Minutes, g[n] \in Pipes
        PROVE  g[n+1] = IF n \in S THEN step[n][g[n]] ELSE g[n]
    <3>1. n + 1 \in 0..(LastMinute + 1) /\ n + 1 # 0 /\ (n + 1) - 1 = n
      BY PlacesAre DEF Places
    <3>2. g[n+1] = IF n \in S THEN MarkPending(g[n], n) ELSE g[n]
      BY <1>5, <3>1
    <3> QED
      BY <1>2, <2>1, <3>2
  <2>2. g[0] = p
    BY <1>5, PlacesAre DEF Places
  <2> HIDE DEF Made
  <2> QED
    BY <2>1, <2>2 DEF Sweeps
<1> QED
  BY <1>2, <1>6, <1>7

\* the broker's bars of a recovery,
LEMMA RecoverSweeps ==
    ASSUME NEW p \in Pipes, NEW S \in SUBSET Minutes
    PROVE  \E step, g :
               /\ step \in Steps
               /\ \A m \in Minutes, q \in Pipes : step[m][q] = RecoverMinute(q, m)
               /\ Sweeps(g, p, S, step) /\ Ascending(RecoverMinute, p, S) = g[LastMinute + 1]
<1> DEFINE step == [m \in Minutes |-> [q \in Pipes |-> RecoverMinute(q, m)]]
           Made(g) == g = [n \in 0..(LastMinute + 1) |->
                              IF n = 0 THEN p
                              ELSE IF n - 1 \in S THEN RecoverMinute(g[n-1], n - 1) ELSE g[n-1]]
<1>1. \A q \in Pipes, m \in Minutes : RecoverMinute(q, m) \in Pipes
  BY RecoverAdvances DEF Advances, Grows
<1>2. step \in Steps /\ \A m \in Minutes, q \in Pipes : step[m][q] = RecoverMinute(q, m)
  BY <1>1 DEF Steps
<1> HIDE DEF step
<1>3. PICK f \in [Places -> Pipes] : Sweeps(f, p, S, step)
  BY <1>2, SweepExists
<1>4. Made(f)
  <2>1. ASSUME NEW n \in 0..(LastMinute + 1)
        PROVE  f[n] = IF n = 0 THEN p ELSE IF n - 1 \in S THEN RecoverMinute(f[n-1], n - 1) ELSE f[n-1]
    <3>1. CASE n = 0
      BY <1>3, <3>1 DEF Sweeps
    <3>2. CASE n # 0
      <4>1. n - 1 \in Minutes /\ n - 1 \in Places /\ (n - 1) + 1 = n
        BY <3>2, PlacesAre DEF Places
      <4>2. f[n-1] \in Pipes
        BY <4>1
      <4>3. f[n] = IF n - 1 \in S THEN step[n-1][f[n-1]] ELSE f[n-1]
        BY <1>3, <4>1, <4>2 DEF Sweeps
      <4> QED
        BY <1>2, <3>2, <4>1, <4>2, <4>3
    <3> QED
      BY <3>1, <3>2
  <2>2. f = [n \in 0..(LastMinute + 1) |-> f[n]]
    BY DEF Places
  <2> QED
    BY <2>1, <2>2
<1> DEFINE g == CHOOSE h : Made(h)
<1>5. Made(g)
  BY <1>4
<1>6. Ascending(RecoverMinute, p, S) = g[LastMinute + 1]
  BY DEF Ascending
<1> HIDE DEF g
<1>7. Sweeps(g, p, S, step)
  <2>1. ASSUME NEW n \in Minutes, g[n] \in Pipes
        PROVE  g[n+1] = IF n \in S THEN step[n][g[n]] ELSE g[n]
    <3>1. n + 1 \in 0..(LastMinute + 1) /\ n + 1 # 0 /\ (n + 1) - 1 = n
      BY PlacesAre DEF Places
    <3>2. g[n+1] = IF n \in S THEN RecoverMinute(g[n], n) ELSE g[n]
      BY <1>5, <3>1
    <3> QED
      BY <1>2, <2>1, <3>2
  <2>2. g[0] = p
    BY <1>5, PlacesAre DEF Places
  <2> HIDE DEF Made
  <2> QED
    BY <2>1, <2>2 DEF Sweeps
<1> QED
  BY <1>2, <1>6, <1>7

\* and those of minutes that wait.
LEMMA VerifySweeps ==
    ASSUME NEW p \in Pipes, NEW S \in SUBSET Minutes
    PROVE  \E step, g :
               /\ step \in Steps
               /\ \A m \in Minutes, q \in Pipes : step[m][q] = VerifyMinute(q, m)
               /\ Sweeps(g, p, S, step) /\ Ascending(VerifyMinute, p, S) = g[LastMinute + 1]
<1> DEFINE step == [m \in Minutes |-> [q \in Pipes |-> VerifyMinute(q, m)]]
           Made(g) == g = [n \in 0..(LastMinute + 1) |->
                              IF n = 0 THEN p
                              ELSE IF n - 1 \in S THEN VerifyMinute(g[n-1], n - 1) ELSE g[n-1]]
<1>1. \A q \in Pipes, m \in Minutes : VerifyMinute(q, m) \in Pipes
  BY VerifyGrows DEF Advances, Grows
<1>2. step \in Steps /\ \A m \in Minutes, q \in Pipes : step[m][q] = VerifyMinute(q, m)
  BY <1>1 DEF Steps
<1> HIDE DEF step
<1>3. PICK f \in [Places -> Pipes] : Sweeps(f, p, S, step)
  BY <1>2, SweepExists
<1>4. Made(f)
  <2>1. ASSUME NEW n \in 0..(LastMinute + 1)
        PROVE  f[n] = IF n = 0 THEN p ELSE IF n - 1 \in S THEN VerifyMinute(f[n-1], n - 1) ELSE f[n-1]
    <3>1. CASE n = 0
      BY <1>3, <3>1 DEF Sweeps
    <3>2. CASE n # 0
      <4>1. n - 1 \in Minutes /\ n - 1 \in Places /\ (n - 1) + 1 = n
        BY <3>2, PlacesAre DEF Places
      <4>2. f[n-1] \in Pipes
        BY <4>1
      <4>3. f[n] = IF n - 1 \in S THEN step[n-1][f[n-1]] ELSE f[n-1]
        BY <1>3, <4>1, <4>2 DEF Sweeps
      <4> QED
        BY <1>2, <3>2, <4>1, <4>2, <4>3
    <3> QED
      BY <3>1, <3>2
  <2>2. f = [n \in 0..(LastMinute + 1) |-> f[n]]
    BY DEF Places
  <2> QED
    BY <2>1, <2>2
<1> DEFINE g == CHOOSE h : Made(h)
<1>5. Made(g)
  BY <1>4
<1>6. Ascending(VerifyMinute, p, S) = g[LastMinute + 1]
  BY DEF Ascending
<1> HIDE DEF g
<1>7. Sweeps(g, p, S, step)
  <2>1. ASSUME NEW n \in Minutes, g[n] \in Pipes
        PROVE  g[n+1] = IF n \in S THEN step[n][g[n]] ELSE g[n]
    <3>1. n + 1 \in 0..(LastMinute + 1) /\ n + 1 # 0 /\ (n + 1) - 1 = n
      BY PlacesAre DEF Places
    <3>2. g[n+1] = IF n \in S THEN VerifyMinute(g[n], n) ELSE g[n]
      BY <1>5, <3>1
    <3> QED
      BY <1>2, <2>1, <3>2
  <2>2. g[0] = p
    BY <1>5, PlacesAre DEF Places
  <2> HIDE DEF Made
  <2> QED
    BY <2>1, <2>2 DEF Sweeps
<1> QED
  BY <1>2, <1>6, <1>7

\* Ticks, marks and a recovery's bars advance the pipeline.
LEMMA TicksAdvance ==
    ASSUME NEW p \in Pipes, NEW S \in SUBSET Minutes
    PROVE  Advances(p, Ascending(AddTick, p, S))
<1>1. PICK step, g :
          /\ step \in Steps
          /\ \A m \in Minutes, q \in Pipes : step[m][q] = AddTick(q, m)
          /\ Sweeps(g, p, S, step) /\ Ascending(AddTick, p, S) = g[LastMinute + 1]
  BY TickSweeps
<1>2. \A m \in Minutes, q \in Pipes : Advances(q, step[m][q])
  BY <1>1, TickAdvances
<1> QED
  BY <1>1, <1>2, SweepAdvances

LEMMA MarksAdvance ==
    ASSUME NEW p \in Pipes, NEW S \in SUBSET Minutes
    PROVE  Advances(p, Ascending(MarkPending, p, S))
<1>1. PICK step, g :
          /\ step \in Steps
          /\ \A m \in Minutes, q \in Pipes : step[m][q] = MarkPending(q, m)
          /\ Sweeps(g, p, S, step) /\ Ascending(MarkPending, p, S) = g[LastMinute + 1]
  BY MarkSweeps
<1>2. \A m \in Minutes, q \in Pipes : Advances(q, step[m][q])
  BY <1>1, MarkAdvances
<1> QED
  BY <1>1, <1>2, SweepAdvances

LEMMA RecoveredAdvances ==
    ASSUME NEW p \in Pipes, NEW S \in SUBSET Minutes
    PROVE  Advances(p, Ascending(RecoverMinute, p, S))
<1>1. PICK step, g :
          /\ step \in Steps
          /\ \A m \in Minutes, q \in Pipes : step[m][q] = RecoverMinute(q, m)
          /\ Sweeps(g, p, S, step) /\ Ascending(RecoverMinute, p, S) = g[LastMinute + 1]
  BY RecoverSweeps
<1>2. \A m \in Minutes, q \in Pipes : Advances(q, step[m][q])
  BY <1>1, RecoverAdvances
<1> QED
  BY <1>1, <1>2, SweepAdvances

\* They take just those off the list.
LEMMA VerifiedGrows ==
    ASSUME NEW p \in Pipes, NEW S \in SUBSET Minutes
    PROVE  LET q == Ascending(VerifyMinute, p, S) IN
           Grows(p, q) /\ q.pending = p.pending \ S /\ S \subseteq q.seen
<1> DEFINE I == [n \in Places |->
                     {q \in Pipes : /\ Grows(p, q) /\ S \intersect 0..(n - 1) \subseteq q.seen
                                    /\ q.pending = p.pending \ (S \intersect 0..(n - 1))}]
<1>1. \A q \in Pipes, m \in Minutes : /\ Grows(q, VerifyMinute(q, m)) /\ m \in VerifyMinute(q, m).seen
                                     /\ VerifyMinute(q, m).pending = q.pending \ {m}
  BY VerifyGrows
<1>2. PICK step, g :
          /\ step \in Steps
          /\ \A m \in Minutes, q \in Pipes : step[m][q] = VerifyMinute(q, m)
          /\ Sweeps(g, p, S, step) /\ Ascending(VerifyMinute, p, S) = g[LastMinute + 1]
  BY VerifySweeps
<1>8. p \in I[0]
  <2>1. 0..(0 - 1) = {} /\ 0 \in Places
    BY PlacesAre
  <2> QED
    BY <2>1, GrowsOn
<1>9. \A n \in Minutes : \A q \in I[n] : /\ n \in S => step[n][q] \in I[n+1]
                                         /\ n \notin S => q \in I[n+1]
  <2> SUFFICES ASSUME NEW n \in Minutes, NEW q \in I[n]
               PROVE  /\ n \in S => step[n][q] \in I[n+1]
                      /\ n \notin S => q \in I[n+1]
    OBVIOUS
  <2>1. n \in Places /\ n + 1 \in Places /\ n \in Nat
    BY PlacesAre
  <2>2. q \in Pipes /\ Grows(p, q) /\ S \intersect 0..(n - 1) \subseteq q.seen
        /\ q.pending = p.pending \ (S \intersect 0..(n - 1))
    BY <2>1
  <2>3. 0..((n + 1) - 1) = 0..(n - 1) \union {n}
    BY <2>1
  <2>4. CASE n \in S
    <3> DEFINE r == step[n][q]
    <3>1. r = VerifyMinute(q, n) /\ r \in Pipes
      BY <1>2, <2>2 DEF Steps
    <3>2. Grows(q, r) /\ n \in r.seen /\ r.pending = q.pending \ {n} /\ q.seen \subseteq r.seen
      BY <1>1, <2>2, <3>1 DEF Grows
    <3> HIDE DEF r
    <3>3. Grows(p, r)
      BY <2>2, <3>2, GrowsOn
    <3>4. S \intersect 0..((n + 1) - 1) = (S \intersect 0..(n - 1)) \union {n}
      BY <2>3, <2>4
    <3>5. S \intersect 0..((n + 1) - 1) \subseteq r.seen
      BY <2>2, <3>2, <3>4
    <3>6. r.pending = p.pending \ (S \intersect 0..((n + 1) - 1))
      BY <2>2, <3>2, <3>4
    <3>7. r \in I[n+1]
      BY <2>1, <3>1, <3>3, <3>5, <3>6
    <3> QED
      BY <2>4, <3>7 DEF r
  <2>5. CASE n \notin S
    <3>1. S \intersect 0..((n + 1) - 1) = S \intersect 0..(n - 1)
      BY <2>3, <2>5
    <3>2. q \in I[n+1]
      BY <2>1, <2>2, <3>1
    <3> QED
      BY <2>5, <3>2
  <2> QED
    BY <2>4, <2>5
<1>10. Steady(I, S, step)
  <2>1. I \in [Places -> SUBSET Pipes]
    OBVIOUS
  <2> HIDE DEF I
  <2> QED
    BY <1>9, <2>1 DEF Steady
<1>11. g[LastMinute + 1] \in I[LastMinute + 1]
  <2> HIDE DEF I
  <2> QED
    BY <1>2, <1>8, <1>10, SweepStays
<1>12. S \intersect 0..((LastMinute + 1) - 1) = S
  <2>1. (LastMinute + 1) - 1 = LastMinute
    BY BoundsAssumption
  <2> QED
    BY <2>1 DEF Minutes
<1> QED
  BY <1>2, <1>11, <1>12, PlacesAre

-----------------------------------------------------------------------------
(* What becomes of a minute *)

\* The minutes processed or waiting for the broker, and those with the open one.
Known(p) == p.seen \union p.pending
InHand(p) == Known(p) \union ({p.open} \ {None})

\* The open minute is closed: processed when it is trusted, or left to the broker.
LEMMA OpenCloses ==
    ASSUME NEW p \in Pipes, p.open # None, NEW q, q = CloseOpen(p)
    PROVE  q \in Pipes /\ q.open = None /\ q.emitted = p.open /\ Known(q) = InHand(p)
<1> DEFINE r == [p EXCEPT !.emitted = p.open, !.open = None]
           z == [r EXCEPT !.pending = r.pending \union {p.open}]
<1>1. p.open \in Minutes
  BY DEF Pipes, Opt
<1>2. r \in Pipes
  BY DEF Pipes, Opt
<1>3. r.open = None /\ r.emitted = p.open /\ r.seen = p.seen /\ r.pending = p.pending
  BY DEF Pipes
<1>4. q = IF p.trusted THEN OnM1Closed(r, p.open) ELSE MarkPending(r, p.open)
  BY DEF CloseOpen
<1>5. MarkPending(r, p.open) = IF p.open \in r.seen THEN r ELSE z
  BY DEF MarkPending
<1>6. /\ z \in Pipes /\ z.open = r.open /\ z.emitted = r.emitted /\ z.seen = r.seen
      /\ z.pending = r.pending \union {p.open}
  <2> HIDE DEF r
  <2> QED
    BY <1>1, <1>2 DEF Pipes
<1> HIDE DEF r, z
<1>7. CASE p.trusted
  <2>1. q \in Pipes /\ Sees(r, p.open, q)
    BY <1>1, <1>2, <1>4, <1>7, ClosedGrows DEF Grows
  <2> QED
    BY <1>3, <2>1 DEF Sees, Known, InHand
<1>8. CASE ~p.trusted /\ p.open \in r.seen
  BY <1>2, <1>3, <1>4, <1>5, <1>8 DEF Known, InHand
<1>9. CASE ~p.trusted /\ p.open \notin r.seen
  BY <1>3, <1>4, <1>5, <1>6, <1>9 DEF Known, InHand
<1> QED
  BY <1>7, <1>8, <1>9

\* A tick opens its minute, and closes the one before it.
LEMMA TickOpens ==
    ASSUME NEW p \in Pipes, NEW m \in Minutes, p.emitted < m, p.open <= m, NEW q, q = AddTick(p, m)
    PROVE  /\ q \in Pipes /\ q.open = m /\ q.emitted < m
           /\ Known(q) = IF p.open = m THEN Known(p) ELSE InHand(p)
<1> DEFINE r == IF p.stale THEN SetConnected(p, m) ELSE p
           c == IF r.open # None /\ m > r.open THEN CloseOpen(r) ELSE r
           z == [c EXCEPT !.open = m, !.trusted = MinuteTrusted(c, m)]
<1>0. p.open \in Opt /\ p.emitted \in Opt /\ m \in 0..LastMinute /\ p.stale \in BOOLEAN
  BY DEF Pipes, Minutes
<1>1. q = IF m <= r.emitted THEN r ELSE IF c.open # None THEN c ELSE z
  BY DEF AddTick, Fill
<1>2. /\ r \in Pipes /\ r.open = p.open /\ r.emitted = p.emitted
      /\ r.seen = p.seen /\ r.pending = p.pending
  <2>1. SetConnected(p, m) \in Pipes
    BY ConnectedAdvances DEF Advances, Grows
  <2> QED
    BY <2>1, <1>0 DEF SetConnected, Pipes
<1> HIDE DEF r
<1>3. /\ c \in Pipes
      /\ c.open = IF p.open \in {None, m} THEN p.open ELSE None
      /\ c.emitted = IF p.open \in {None, m} THEN p.emitted ELSE p.open
      /\ Known(c) = IF p.open = m THEN Known(p) ELSE InHand(p)
  <2>1. CASE p.open \in {None, m}
    BY <1>0, <1>2, <2>1 DEF Known, InHand
  <2>2. CASE p.open \notin {None, m}
    <3>1. r.open # None /\ m > r.open /\ c = CloseOpen(r)
      BY <1>0, <1>2, <2>2 DEF Opt, Minutes, None
    <3> HIDE DEF c
    <3>2. c \in Pipes /\ c.open = None /\ c.emitted = r.open /\ Known(c) = InHand(r)
      BY <1>2, <3>1, OpenCloses
    <3> QED
      BY <1>2, <2>2, <3>2 DEF Known, InHand
  <2> QED
    BY <2>1, <2>2
<1> HIDE DEF c
<1>4. /\ z \in Pipes /\ z.open = m /\ z.emitted = c.emitted
      /\ z.seen = c.seen /\ z.pending = c.pending
  <2>1. m \in Opt /\ MinuteTrusted(c, m) \in BOOLEAN
    BY DEF Opt, MinuteTrusted
  <2> QED
    BY <1>3, <2>1 DEF Pipes
<1> HIDE DEF z
<1>5. q = IF c.open # None THEN c ELSE z
  BY <1>0, <1>1, <1>2 DEF Opt, Minutes, None
<1>6. q \in Pipes /\ q.open = m /\ q.emitted = c.emitted /\ q.seen = c.seen /\ q.pending = c.pending
  <2>1. CASE c.open # None
    BY <1>3, <1>5, <2>1
  <2>2. CASE c.open = None
    BY <1>3, <1>4, <1>5, <2>2
  <2> QED
    BY <2>1, <2>2
<1>7. q.emitted < m
  BY <1>0, <1>3, <1>6 DEF Opt, Minutes, None
<1> QED
  BY <1>3, <1>6, <1>7 DEF Known

\* The minutes of S become known; the open minute stays, or goes for one not before it.
Learns(p, S, q) ==
    /\ Known(q) = Known(p) \union S
    /\ q.emitted \in {p.emitted} \union S
    /\ q.open = p.open \/ (q.open = None /\ \E s \in S : p.open <= s)

\* The broker's bar of a known minute, or of another, tells of that minute;
LEMMA VerifyLearns ==
    ASSUME NEW p \in Pipes, NEW m \in Minutes
    PROVE  Learns(p, {m}, VerifyMinute(p, m))
<1> DEFINE a == [p EXCEPT !.pending = p.pending \ {m}]
           b == MarkEmittedUntil(a, m)
           o == IF a.open <= m THEN None ELSE a.open
           q == VerifyMinute(p, m)
<1>1. /\ a \in Pipes /\ a.open = p.open /\ a.emitted = p.emitted
      /\ a.seen = p.seen /\ a.pending = p.pending \ {m}
  BY DEF Pipes
<1>2. q = OnM1Closed(b, m)
  BY DEF VerifyMinute
<1>3. b = IF m <= a.emitted THEN a ELSE [a EXCEPT !.emitted = m, !.open = o]
  BY DEF MarkEmittedUntil
<1> HIDE DEF a, q, b
<1>4. o \in Opt /\ m \in Opt
  BY <1>1 DEF Pipes, Opt
<1>5. /\ b \in Pipes /\ b.seen = p.seen /\ b.pending = p.pending \ {m}
      /\ b.emitted \in {p.emitted, m}
      /\ b.open = p.open \/ (b.open = None /\ p.open <= m)
  BY <1>1, <1>3, <1>4 DEF Pipes
<1>6. Sees(b, m, q)
  BY <1>2, <1>5, ClosedGrows
<1> QED
  BY <1>5, <1>6 DEF Sees, Learns, Known, q

\* so does a bar of a recovery,
LEMMA RecoverLearns ==
    ASSUME NEW p \in Pipes, NEW m \in Minutes
    PROVE  Learns(p, {m}, RecoverMinute(p, m))
<1> DEFINE a == IF p.open = m THEN [p EXCEPT !.open = None] ELSE p
<1>1. RecoverMinute(p, m) = IF m \in p.seen THEN p ELSE VerifyMinute(a, m)
  BY DEF RecoverMinute
<1>2. /\ a \in Pipes /\ a.emitted = p.emitted /\ Known(a) = Known(p)
      /\ a.open = p.open \/ (a.open = None /\ p.open = m)
  BY DEF Pipes, Opt, Known
<1> HIDE DEF a
<1>3. Learns(a, {m}, VerifyMinute(a, m))
  BY <1>2, VerifyLearns
<1>4. m <= m
  BY DEF Minutes
<1>5. CASE m \in p.seen
  BY <1>1, <1>5 DEF Learns, Known
<1>6. CASE m \notin p.seen
  <2> DEFINE q == VerifyMinute(a, m)
  <2>1. Known(q) = Known(p) \union {m} /\ q.emitted \in {p.emitted, m}
    BY <1>2, <1>3 DEF Learns
  <2>2. q.open = a.open \/ (q.open = None /\ a.open <= m)
    BY <1>3 DEF Learns
  <2> HIDE DEF q
  <2>3. q.open = p.open \/ (q.open = None /\ p.open <= m)
    BY <1>2, <1>4, <2>2
  <2> QED
    BY <1>1, <1>6, <2>1, <2>3 DEF Learns, q
<1> QED
  BY <1>5, <1>6

\* and so does a mark.
LEMMA MarkLearns ==
    ASSUME NEW p \in Pipes, NEW m \in Minutes
    PROVE  Learns(p, {m}, MarkPending(p, m))
<1> DEFINE z == [p EXCEPT !.pending = p.pending \union {m}]
<1>1. MarkPending(p, m) = IF m \in p.seen THEN p ELSE z
  BY DEF MarkPending
<1>2. z.open = p.open /\ z.emitted = p.emitted /\ z.seen = p.seen /\ z.pending = p.pending \union {m}
  BY DEF Pipes
<1> HIDE DEF z
<1> QED
  BY <1>1, <1>2 DEF Learns, Known

\* What each minute tells, several tell together.
LEMMA SweepLearns ==
    ASSUME NEW p \in Pipes, NEW S \in SUBSET Minutes, NEW step \in Steps,
           \A m \in Minutes, q \in Pipes : Learns(q, {m}, step[m][q]),
           NEW g, Sweeps(g, p, S, step)
    PROVE  g[LastMinute + 1] \in Pipes /\ Learns(p, S, g[LastMinute + 1])
<1> DEFINE Upto(n) == S \intersect 0..(n - 1)
           I == [n \in Places |-> {q \in Pipes : Learns(p, Upto(n), q)}]
<1>1. p \in I[0]
  <2>1. 0..(0 - 1) = {} /\ 0 \in Places
    BY PlacesAre
  <2> QED
    BY <2>1 DEF Learns
<1>2. \A n \in Minutes : \A q \in I[n] : /\ n \in S => step[n][q] \in I[n+1]
                                         /\ n \notin S => q \in I[n+1]
  <2> SUFFICES ASSUME NEW n \in Minutes, NEW q \in I[n]
               PROVE  /\ n \in S => step[n][q] \in I[n+1]
                      /\ n \notin S => q \in I[n+1]
    OBVIOUS
  <2>1. n \in Places /\ n + 1 \in Places /\ n \in Nat
    BY PlacesAre
  <2>2. q \in Pipes /\ Learns(p, Upto(n), q)
    BY <2>1
  <2>3. 0..((n + 1) - 1) = 0..(n - 1) \union {n}
    BY <2>1
  <2>4. CASE n \in S
    <3> DEFINE r == step[n][q]
    <3>1. r \in Pipes /\ Learns(q, {n}, r)
      BY <2>2 DEF Steps
    <3>2. Upto(n + 1) = Upto(n) \union {n}
      BY <2>3, <2>4
    <3> HIDE DEF r, Upto
    <3>3. Known(r) = Known(p) \union Upto(n + 1) /\ r.emitted \in {p.emitted} \union Upto(n + 1)
      BY <2>2, <3>1, <3>2 DEF Learns
    <3>4. r.open = p.open \/ (r.open = None /\ \E s \in Upto(n + 1) : p.open <= s)
      <4>1. CASE r.open = q.open
        BY <2>2, <3>2, <4>1 DEF Learns
      <4>2. CASE r.open = None /\ q.open <= n
        BY <2>2, <3>2, <4>2 DEF Learns
      <4> QED
        BY <3>1, <4>1, <4>2 DEF Learns
    <3>5. Learns(p, Upto(n + 1), r)
      BY <3>3, <3>4 DEF Learns
    <3> QED
      BY <2>1, <2>4, <3>1, <3>5 DEF r
  <2>5. CASE n \notin S
    <3>1. Upto(n + 1) = Upto(n)
      BY <2>3, <2>5
    <3> HIDE DEF Upto
    <3> QED
      BY <2>1, <2>2, <2>5, <3>1
  <2> QED
    BY <2>4, <2>5
<1>3. Steady(I, S, step)
  <2>1. I \in [Places -> SUBSET Pipes]
    OBVIOUS
  <2> HIDE DEF I
  <2> QED
    BY <1>2, <2>1 DEF Steady
<1>4. g[LastMinute + 1] \in I[LastMinute + 1]
  <2> HIDE DEF I
  <2> QED
    BY <1>1, <1>3, SweepStays
<1>5. Upto(LastMinute + 1) = S
  <2>1. (LastMinute + 1) - 1 = LastMinute
    BY BoundsAssumption
  <2> QED
    BY <2>1 DEF Minutes
<1> HIDE DEF Upto
<1> QED
  BY <1>4, <1>5, PlacesAre

\* So do the broker's bars, of a recovery or of minutes that wait, and marks.
LEMMA AnswersLearn ==
    ASSUME NEW p \in Pipes, NEW S \in SUBSET Minutes
    PROVE  /\ Learns(p, S, Ascending(VerifyMinute, p, S))
           /\ Learns(p, S, Ascending(RecoverMinute, p, S))
           /\ Learns(p, S, Ascending(MarkPending, p, S))
<1>1. Learns(p, S, Ascending(VerifyMinute, p, S))
  BY VerifySweeps, VerifyLearns, SweepLearns
<1>2. Learns(p, S, Ascending(RecoverMinute, p, S))
  BY RecoverSweeps, RecoverLearns, SweepLearns
<1>3. Learns(p, S, Ascending(MarkPending, p, S))
  BY MarkSweeps, MarkLearns, SweepLearns
<1> QED
  BY <1>1, <1>2, <1>3

\* p is not yet at minute m.
Behind(p, m) == p.emitted < m /\ p.open <= m /\ \A k \in Known(p) : k < m

\* The open minute is later than every minute that waits, or is known itself.
OpenIsLast(p) == p.open \in Known(p) \union {None} \/ \A k \in p.pending : k < p.open

\* A tick of a minute the pipeline is not yet at brings it to that minute.
LEMMA TickHolds ==
    ASSUME NEW p \in Pipes, NEW m \in Minutes, Behind(p, m), NEW q, q = AddTick(p, m)
    PROVE  /\ q \in Pipes /\ OpenIsLast(q) /\ InHand(p) \union {m} \subseteq InHand(q)
           /\ \A n \in Minutes : m <= n => Behind(q, n)
<1>1. /\ q \in Pipes /\ q.open = m /\ q.emitted < m
      /\ Known(q) = IF p.open = m THEN Known(p) ELSE InHand(p)
  BY TickOpens DEF Behind
<1>2. p.open \in Int /\ q.emitted \in Int /\ m \in Int /\ m # None /\ Known(q) \subseteq Int
  BY <1>1, BoundsAssumption DEF Pipes, Opt, Minutes, None, Known
<1>3. \A k \in Known(q) : k < m
  BY <1>1, <1>2 DEF Behind, InHand
<1>4. q.pending \subseteq Known(q)
  BY DEF Known
<1>5. OpenIsLast(q)
  BY <1>1, <1>3, <1>4 DEF OpenIsLast
<1>6. InHand(p) \union {m} \subseteq InHand(q)
  BY <1>1, <1>2 DEF InHand
<1>7. ASSUME NEW n \in Minutes, m <= n PROVE Behind(q, n)
  <2>1. n \in Int
    BY DEF Minutes
  <2> QED
    BY <1>1, <1>2, <1>3, <1>7, <2>1 DEF Behind
<1> QED
  BY <1>1, <1>5, <1>6, <1>7

\* So do the ticks that waited for a recovery, none of which finds its minute passed.
LEMMA TicksHold ==
    ASSUME NEW p \in Pipes, now \in Minutes, NEW S \in SUBSET (0..now), Behind(p, now), OpenIsLast(p),
           \A m \in S : Behind(p, m), NEW q, q = Ascending(AddTick, p, S)
    PROVE  Behind(q, now) /\ OpenIsLast(q) /\ InHand(p) \union S \subseteq InHand(q)
<1> DEFINE Upto(n) == S \intersect 0..(n - 1)
           I == [n \in Places |->
                     {r \in Pipes : /\ Behind(r, now) /\ OpenIsLast(r)
                                    /\ InHand(p) \union Upto(n) \subseteq InHand(r)
                                    /\ \A m \in S : n <= m => Behind(r, m)}]
<1>1. S \in SUBSET Minutes /\ \A m \in S : m <= now
  BY BoundsAssumption DEF Minutes
<1>2. PICK step, g :
          /\ step \in Steps
          /\ \A m \in Minutes, r \in Pipes : step[m][r] = AddTick(r, m)
          /\ Sweeps(g, p, S, step) /\ Ascending(AddTick, p, S) = g[LastMinute + 1]
  BY <1>1, TickSweeps
<1>3. p \in I[0]
  <2>1. Upto(0) = {} /\ 0 \in Places
    BY PlacesAre
  <2> HIDE DEF Upto
  <2> QED
    BY <2>1
<1>4. \A n \in Minutes : \A r \in I[n] : /\ n \in S => step[n][r] \in I[n+1]
                                         /\ n \notin S => r \in I[n+1]
  <2> SUFFICES ASSUME NEW n \in Minutes, NEW r \in I[n]
               PROVE  /\ n \in S => step[n][r] \in I[n+1]
                      /\ n \notin S => r \in I[n+1]
    OBVIOUS
  <2>1. n \in Places /\ n + 1 \in Places /\ n \in Nat
    BY PlacesAre
  <2>2. /\ r \in Pipes /\ Behind(r, now) /\ OpenIsLast(r)
        /\ InHand(p) \union Upto(n) \subseteq InHand(r) /\ \A m \in S : n <= m => Behind(r, m)
    BY <2>1
  <2>3. \A m \in S : m \in Nat /\ (n + 1 <= m => n <= m)
    BY <1>1, <2>1, BoundsAssumption DEF Minutes
  <2>4. 0..((n + 1) - 1) = 0..(n - 1) \union {n}
    BY <2>1
  <2>5. CASE n \in S
    <3> DEFINE z == step[n][r]
    <3>1. z = AddTick(r, n) /\ z \in Pipes
      BY <1>2, <2>2 DEF Steps
    <3>2. Behind(r, n) /\ n <= now
      BY <1>1, <2>1, <2>2, <2>5
    <3>3. /\ OpenIsLast(z) /\ InHand(r) \union {n} \subseteq InHand(z)
          /\ \A k \in Minutes : n <= k => Behind(z, k)
      BY <2>2, <3>1, <3>2, TickHolds
    <3>4. Upto(n + 1) = Upto(n) \union {n}
      BY <2>4, <2>5
    <3> HIDE DEF z, Upto
    <3>5. InHand(p) \union Upto(n + 1) \subseteq InHand(z)
      BY <2>2, <3>3, <3>4
    <3>6. Behind(z, now) /\ \A m \in S : n + 1 <= m => Behind(z, m)
      BY <1>1, <2>3, <3>2, <3>3
    <3> QED
      BY <2>1, <2>5, <3>1, <3>3, <3>5, <3>6 DEF z
  <2>6. CASE n \notin S
    <3>1. Upto(n + 1) = Upto(n)
      BY <2>4, <2>6
    <3> HIDE DEF Upto
    <3> QED
      BY <2>1, <2>2, <2>3, <2>6, <3>1
  <2> QED
    BY <2>5, <2>6
<1>5. Steady(I, S, step)
  <2>1. I \in [Places -> SUBSET Pipes]
    OBVIOUS
  <2> HIDE DEF I
  <2> QED
    BY <1>4, <2>1 DEF Steady
<1>6. g[LastMinute + 1] \in I[LastMinute + 1]
  <2> HIDE DEF I
  <2> QED
    BY <1>1, <1>2, <1>3, <1>5, SweepStays
<1>7. Upto(LastMinute + 1) = S
  <2>1. (LastMinute + 1) - 1 = LastMinute
    BY BoundsAssumption
  <2> QED
    BY <1>1, <2>1 DEF Minutes
<1> HIDE DEF Upto
<1> QED
  BY <1>2, <1>6, <1>7, PlacesAre

\* A flush pass closes an open minute that is over, and finds minutes before this one.
LEMMA FlushHolds ==
    ASSUME NEW p \in Pipes, now \in Minutes, Behind(p, now), NEW q, q = FlushAt(p)
    PROVE  Behind(q, now) /\ OpenIsLast(q) /\ InHand(p) \subseteq InHand(q)
<1> DEFINE c == IF p.open # None /\ p.open < now THEN CloseOpen(p) ELSE p
           s == [c EXCEPT !.pending = c.pending \union SilentMinutes(c)]
<1>1. q = FlushAggregators(s)
  BY DEF FlushAt
<1>2. c \in Pipes
  BY CloseOpenAdvances DEF Advances, Grows
<1>3. p.open \in Int /\ p.emitted \in Int /\ now \in Nat
  BY BoundsAssumption DEF Pipes, Opt, Minutes, None
<1>4. c.open \in {None, now} /\ c.emitted < now /\ InHand(p) \subseteq InHand(c) /\ \A k \in Known(c) : k < now
  <2>1. CASE p.open # None /\ p.open < now
    <3>1. c.open = None /\ c.emitted = p.open /\ Known(c) = InHand(p)
      BY <2>1, OpenCloses
    <3> QED
      BY <2>1, <3>1 DEF Behind, InHand
  <2>2. CASE ~(p.open # None /\ p.open < now)
    BY <1>3, <2>2 DEF Behind
  <2> QED
    BY <2>1, <2>2
<1> HIDE DEF c
<1>5. SilentMinutes(c) \subseteq 0..(now - 1)
  <2>1. c.coverage \in Int /\ c.coverage >= -1 /\ c.lastM1 \in Int /\ c.lastM1 >= -1 /\ now \in 0..LastMinute
    BY <1>2, BoundsAssumption DEF Pipes, Opt, Minutes, None
  <2>2. Later(c.coverage - 1, c.lastM1 + 1) \in Int /\ Later(c.coverage - 1, c.lastM1 + 1) >= 0
    BY <2>1 DEF Later
  <2> QED
    BY <2>1, <2>2, BoundsAssumption DEF SilentMinutes
<1>6. SilentMinutes(c) \subseteq Minutes
  BY <1>5, BoundsAssumption DEF Minutes
<1>7. /\ s \in Pipes /\ s.pending = c.pending \union SilentMinutes(c) /\ s.seen = c.seen
      /\ s.open = c.open /\ s.emitted = c.emitted
  BY <1>2, <1>6 DEF Pipes
<1> HIDE DEF s
<1>8. SameMinutes(s, q) /\ SameFeed(s, q)
  BY <1>1, <1>7, FlushAggregatorsAdvances DEF Dispatches
<1>9. /\ Known(q) = Known(c) \union SilentMinutes(c) /\ q.pending \subseteq Known(q)
      /\ q.open = c.open /\ q.emitted = c.emitted
  BY <1>7, <1>8 DEF SameMinutes, SameFeed, Known
<1>10. \A k \in Known(q) : k < now
  BY <1>3, <1>4, <1>5, <1>9
<1> QED
  BY <1>3, <1>4, <1>9, <1>10 DEF Behind, OpenIsLast, InHand, None

-----------------------------------------------------------------------------
(* The pipeline *)

Typed ==
    /\ now \in Minutes /\ faults \in 0..MaxFaults
    /\ ticked \in BOOLEAN /\ passed \in BOOLEAN /\ recoverDue \in BOOLEAN
    /\ recovery \in {NoWindow} \union [from : Minutes, to : Minutes]
    /\ buffered \subseteq Minutes
    /\ pipe \in Pipes /\ pipe.calls = <<>>

\* With every call made, what is suspended has a gap left, what was sent out has what it
\* is made of, no gap is recorded twice, and the watermarks are those of what was sent out.
PipeInv == Typed /\ Suspends(pipe) /\ Unique(pipe) /\ Backs(pipe) /\ Ordered(pipe)

\* A recovery asks for minutes.
LEMMA WindowMinutes == Typed => Window \subseteq Minutes
<1> SUFFICES ASSUME Typed PROVE Window \subseteq Minutes
  OBVIOUS
<1>1. CASE recovery = NoWindow
  <2>1. recovery.from = -1 /\ recovery.to = -1
    BY <1>1 DEF NoWindow, None
  <2>2. (-1)..((-1) - 1) = {}
    OBVIOUS
  <2> QED
    BY <2>1, <2>2 DEF Window
<1>2. CASE recovery \in [from : Minutes, to : Minutes]
  <2>1. recovery.from \in 0..LastMinute /\ recovery.to \in 0..LastMinute
    BY <1>2 DEF Minutes
  <2>2. recovery.from..(recovery.to - 1) \subseteq 0..LastMinute
    BY <2>1, BoundsAssumption
  <2> QED
    BY <2>2 DEF Window, Minutes
<1> QED
  BY <1>1, <1>2 DEF Typed

\* Another fault of the feed, or none.
LEMMA FaultCounts == ASSUME Typed, NEW k, Fault(k) PROVE faults' \in 0..MaxFaults
<1>1. faults \in 0..MaxFaults /\ faults < MaxFaults /\ faults' = faults + 1 /\ MaxFaults \in Nat
  BY FaultsAssumption DEF Typed, Fault
<1> QED
  BY <1>1

\* What the feed itself does to the pipeline.
LEMMA FeedDoes ==
    ASSUME Typed, Stall \/ Disconnect \/ Connect \/ EndMinute \/ BeginRecovery \/ SkipRecovery
    PROVE  Typed' /\ Advances(pipe, pipe') /\ SameMinutes(pipe, pipe') /\ SameGaps(pipe, pipe')
<1>1. pipe \in Pipes /\ pipe.calls = <<>> /\ now \in Minutes
  BY DEF Typed
<1>2. CASE Stall
  <2> DEFINE q == [pipe EXCEPT !.stale = TRUE, !.trusted = FALSE]
  <2>1. pipe' = q
    BY <1>2 DEF Stall
  <2>2. q \in Pipes
    BY <1>1 DEF Pipes
  <2>3. /\ SameGaps(pipe, q) /\ q.agg = pipe.agg /\ q.deferred = pipe.deferred /\ q.delivered = pipe.delivered /\ q.lastClosed = pipe.lastClosed
        /\ q.calls = pipe.calls /\ q.seen = pipe.seen /\ q.pending = pipe.pending
    BY <1>1 DEF Pipes, SameGaps
  <2> HIDE DEF q
  <2>4. Advances(pipe, q)
    BY <1>1, <2>2, <2>3, QuietAdvances
  <2>5. faults' \in 0..MaxFaults
    BY <1>2, FaultCounts DEF Stall
  <2> QED
    BY <1>1, <1>2, <2>1, <2>2, <2>3, <2>4, <2>5 DEF Stall, Typed, SameMinutes
<1>3. CASE Disconnect
  <2> DEFINE q == [pipe EXCEPT !.coverage = None, !.trusted = FALSE]
  <2>1. pipe' = q
    BY <1>3 DEF Disconnect
  <2>2. q \in Pipes
    BY <1>1 DEF Pipes, Opt
  <2>3. /\ SameGaps(pipe, q) /\ q.agg = pipe.agg /\ q.deferred = pipe.deferred /\ q.delivered = pipe.delivered /\ q.lastClosed = pipe.lastClosed
        /\ q.calls = pipe.calls /\ q.seen = pipe.seen /\ q.pending = pipe.pending
    BY <1>1 DEF Pipes, SameGaps
  <2> HIDE DEF q
  <2>4. Advances(pipe, q)
    BY <1>1, <2>2, <2>3, QuietAdvances
  <2>5. faults' \in 0..MaxFaults
    BY <1>3, FaultCounts DEF Disconnect
  <2> QED
    BY <1>1, <1>3, <2>1, <2>2, <2>3, <2>4, <2>5 DEF Disconnect, Typed, SameMinutes
<1>4. CASE Connect
  <2>1. pipe' = SetConnected(pipe, now)
    BY <1>4 DEF Connect
  <2>2. Advances(pipe, pipe') /\ pipe' \in Pipes
    BY <1>1, <2>1, ConnectedAdvances DEF Advances, Grows
  <2>3. pipe'.calls = <<>> /\ SameMinutes(pipe, pipe') /\ SameGaps(pipe, pipe')
    BY <1>1, <2>1 DEF SetConnected, Pipes, SameMinutes, SameGaps
  <2> QED
    BY <1>4, <2>2, <2>3 DEF Connect, Typed
<1>5. CASE EndMinute
  <2>1. now' \in Minutes
    BY <1>1, <1>5, BoundsAssumption DEF EndMinute, Minutes
  <2>2. faults' \in 0..MaxFaults
    <3>1. CASE pipe.coverage # None /\ ~pipe.stale /\ ~ticked
      BY <1>5, <3>1, FaultCounts DEF EndMinute
    <3>2. CASE ~(pipe.coverage # None /\ ~pipe.stale /\ ~ticked)
      BY <1>5, <3>2 DEF EndMinute, Typed
    <3> QED
      BY <3>1, <3>2
  <2>3. pipe' = pipe
    BY <1>5 DEF EndMinute
  <2> QED
    BY <1>1, <1>5, <2>1, <2>2, <2>3, GrowsOn DEF EndMinute, Typed, SameMinutes, SameGaps
<1>6. CASE BeginRecovery
  <2>1. RecoveryStart(pipe) \in Minutes
    <3>1. pipe.open \in Opt /\ pipe.lastM1 \in Opt
      BY <1>1 DEF Pipes
    <3>2. RecoveryStart(pipe) \in Nat
      BY <3>1, BoundsAssumption DEF RecoveryStart, Opt, Minutes, None
    <3>3. RecoveryStart(pipe) < now
      BY <1>6 DEF BeginRecovery
    <3> QED
      BY <1>1, <3>2, <3>3, BoundsAssumption DEF Minutes
  <2>2. recovery' \in [from : Minutes, to : Minutes]
    BY <1>1, <1>6, <2>1 DEF BeginRecovery
  <2>3. pipe' = pipe
    BY <1>6 DEF BeginRecovery
  <2> QED
    BY <1>1, <1>6, <2>2, <2>3, GrowsOn DEF BeginRecovery, Typed, SameMinutes, SameGaps
<1>7. CASE SkipRecovery
  <2>1. pipe' = pipe
    BY <1>7 DEF SkipRecovery
  <2> QED
    BY <1>1, <1>7, <2>1, GrowsOn DEF SkipRecovery, Typed, SameMinutes, SameGaps
<1> QED
  BY <1>2, <1>3, <1>4, <1>5, <1>6, <1>7

\* The bar of a gap.
LEMMA GapBars == ASSUME NEW p \in Pipes, NEW i \in DOMAIN p.gaps PROVE GapAt(p, i) \in Bars
<1>1. p.gaps[i] \in GapRecords
  BY DEF Pipes
<1> QED
  BY <1>1, BarParts DEF GapAt, GapRecords

\* The oldest gap is one of the unresolved ones.
LEMMA OldestIsGap ==
    ASSUME NEW p \in Pipes, Unresolved(p) # {}
    PROVE  FirstOf(Unresolved(p)) \in Unresolved(p) /\ FirstOf(Unresolved(p)) \in DOMAIN p.gaps
<1>1. Unresolved(p) \in SUBSET Nat /\ Unresolved(p) \subseteq DOMAIN p.gaps
  BY DEF Unresolved, Pipes
<1> QED
  BY <1>1, FirstIsOne

\* The fetched minutes of a recovery, those that were missing and the buffered ticks.
LEMMA RecoveredDoes ==
    ASSUME NEW p \in Pipes, NEW got \in SUBSET Minutes, NEW left \in SUBSET Minutes, NEW ticks \in SUBSET Minutes
    PROVE  LET fed    == Ascending(RecoverMinute, p, got)
               marked == Ascending(MarkPending, fed, left)
           IN  /\ Advances(p, fed) /\ Advances(p, marked)
               /\ Advances(p, Ascending(AddTick, marked, ticks))
<1> DEFINE fed    == Ascending(RecoverMinute, p, got)
           marked == Ascending(MarkPending, fed, left)
           end    == Ascending(AddTick, marked, ticks)
<1>1. Advances(p, fed)
  BY RecoveredAdvances
<1>2. fed \in Pipes
  BY <1>1 DEF Advances, Grows
<1> HIDE DEF fed
<1>3. Advances(fed, marked) /\ marked \in Pipes
  BY <1>2, MarksAdvance DEF Advances, Grows
<1> HIDE DEF marked
<1>4. Advances(marked, end)
  BY <1>3, TicksAdvance
<1>5. Advances(p, marked)
  BY <1>1, <1>2, <1>3, GrowsOn
<1> HIDE DEF end
<1>6. Advances(p, end)
  BY <1>3, <1>4, <1>5, GrowsOn
<1> QED
  BY <1>1, <1>5, <1>6 DEF fed, marked, end

\* Every step of the pipeline's own specification keeps the types and advances it.
LEMMA StepDoes ==
    ASSUME Typed, [Next]_vars
    PROVE  Typed' /\ Advances(pipe, pipe')
<1>1. pipe \in Pipes /\ pipe.calls = <<>> /\ now \in Minutes /\ buffered \in SUBSET Minutes
  BY DEF Typed
<1>2. CASE Tick
  <2>1. CASE Recovering
    <3>1. pipe' = pipe /\ buffered' \subseteq Minutes
      BY <1>1, <1>2, <2>1 DEF Tick
    <3> QED
      BY <1>1, <1>2, <3>1, GrowsOn DEF Tick, Typed
  <2>2. CASE ~Recovering
    <3>1. pipe' = AddTick(pipe, now) /\ pipe'.calls = <<>> /\ buffered' = buffered
      BY <1>2, <2>2 DEF Tick, HasReturned
    <3>2. Advances(pipe, pipe') /\ pipe' \in Pipes
      BY <1>1, <3>1, TickAdvances DEF Advances, Grows
    <3> QED
      BY <1>1, <1>2, <3>1, <3>2 DEF Tick, Typed
  <2> QED
    BY <2>1, <2>2
<1>3. CASE Stall \/ Disconnect \/ Connect \/ EndMinute \/ BeginRecovery \/ SkipRecovery
  BY <1>3, FeedDoes
<1>4. CASE FlushPass
  <2>1. pipe' = FlushAt(pipe) /\ pipe'.calls = <<>>
    BY <1>4 DEF FlushPass, HasReturned
  <2>2. Advances(pipe, pipe') /\ pipe' \in Pipes
    BY <1>1, <2>1, FlushAdvances DEF Advances, Grows
  <2> QED
    BY <1>4, <2>1, <2>2 DEF FlushPass, Typed
<1>5. CASE RepairOldest
  <2>1. pipe' = Returned(Repair(pipe, Oldest)) /\ pipe'.calls = <<>> /\ Unresolved(pipe) # {}
    BY <1>5 DEF RepairOldest, HasReturned, Repairable
  <2>2. Oldest \in Bars
    BY <1>1, <2>1, OldestIsGap, GapBars DEF Oldest
  <2>3. Advances(pipe, pipe') /\ pipe' \in Pipes
    BY <1>1, <2>1, <2>2, RepairAdvances DEF Advances, Grows
  <2> QED
    BY <1>5, <2>1, <2>3 DEF RepairOldest, Typed
<1>6. ASSUME NEW got \in SUBSET ClosedPending, Verify(got) PROVE Typed' /\ Advances(pipe, pipe')
  <2>1. pipe' = Ascending(VerifyMinute, pipe, got) /\ pipe'.calls = <<>>
    BY <1>6 DEF Verify, HasReturned
  <2>2. got \in SUBSET Minutes
    BY <1>1, <1>6 DEF ClosedPending, Pipes
  <2>3. Grows(pipe, pipe') /\ pipe'.pending = pipe.pending \ got /\ got \subseteq pipe'.seen
    BY <1>1, <2>1, <2>2, VerifiedGrows
  <2>4. Advances(pipe, pipe') /\ pipe' \in Pipes
    BY <2>3 DEF Advances, Grows
  <2> QED
    BY <1>6, <2>1, <2>4 DEF Verify, Typed
<1>7. ASSUME NEW got \in SUBSET Window, EndRecovery(got) PROVE Typed' /\ Advances(pipe, pipe')
  <2>1. got \in SUBSET Minutes /\ Window \ got \in SUBSET Minutes
    BY <1>7, WindowMinutes
  <2> DEFINE marked == Ascending(MarkPending, Ascending(RecoverMinute, pipe, got), Window \ got)
  <2>2. pipe' = Ascending(AddTick, marked, buffered) /\ pipe'.calls = <<>>
    BY <1>7 DEF EndRecovery, HasReturned
  <2>3. Advances(pipe, pipe') /\ pipe' \in Pipes
    BY <1>1, <2>1, <2>2, RecoveredDoes DEF Advances, Grows
  <2> QED
    BY <1>7, <2>2, <2>3 DEF EndRecovery, Typed
<1>8. CASE UNCHANGED vars
  <2>1. pipe' = pipe
    BY <1>8 DEF vars
  <2> QED
    BY <1>1, <1>8, <2>1, GrowsOn DEF vars, Typed
<1> QED
  BY <1>2, <1>3, <1>4, <1>5, <1>6, <1>7, <1>8 DEF Next

\* A pipeline with nothing in it.
Fresh(c) ==
    [open |-> None, trusted |-> FALSE, emitted |-> None, coverage |-> c, stale |-> FALSE,
     seen |-> {}, pending |-> {}, lastM1 |-> None,
     agg |-> [tf \in Timeframes |-> [bucket |-> NoBucket, emitted |-> None, gapBuckets |-> {}]],
     gaps |-> <<>>, suspended |-> FALSE, deferred |-> {}, calls |-> <<>>,
     lastClosed |-> [tf \in Timeframes |-> None], delivered |-> {}]

\* A new pipeline is typed and sound.
LEMMA FreshIs ==
    ASSUME NEW c \in Opt
    PROVE  LET p == Fresh(c) IN
           p \in Pipes /\ p.calls = <<>> /\ Suspends(p) /\ Unique(p) /\ Backs(p) /\ Ordered(p)
<1> DEFINE a == [bucket |-> NoBucket, emitted |-> None, gapBuckets |-> {}]
           p == Fresh(c)
<1>1. a \in Aggregators
  BY DEF Aggregators, Buckets, NoBucket, Opt
<1>2. p \in Pipes
  <2> DEFINE A == [tf \in Timeframes |-> a]
             L == [tf \in Timeframes |-> None]
  <2>1. A \in [Timeframes -> Aggregators]
    BY <1>1
  <2>2. L \in [Timeframes -> Opt]
    BY DEF Opt
  <2>3. None \in Opt
    BY DEF Opt
  <2>4. p = [open |-> None, trusted |-> FALSE, emitted |-> None, coverage |-> c, stale |-> FALSE,
             seen |-> {}, pending |-> {}, lastM1 |-> None, agg |-> A,
             gaps |-> <<>>, suspended |-> FALSE, deferred |-> {}, calls |-> <<>>,
             lastClosed |-> L, delivered |-> {}]
    BY DEF Fresh
  <2>5. <<>> \in Seq(GapRecords) /\ <<>> \in Seq(CallRecords)
    OBVIOUS
  <2>6. c \in Opt \union {LastMinute + 1}
    OBVIOUS
  <2>7. {} \in SUBSET Minutes /\ {} \in SUBSET Bars /\ FALSE \in BOOLEAN
    OBVIOUS
  <2> HIDE DEF A, L, a, p
  <2> QED
    BY ONLY <2>1, <2>2, <2>3, <2>4, <2>5, <2>6, <2>7, Zenon DEF Pipes
<1>3. /\ p.calls = <<>> /\ p.gaps = <<>> /\ p.suspended = FALSE /\ p.deferred = {} /\ p.delivered = {}
      /\ \A tf \in Timeframes : p.agg[tf].bucket.open = None /\ p.agg[tf].bucket.have = {}
      /\ \A tf \in Timeframes : p.lastClosed[tf] = None
  BY DEF Fresh, NoBucket
<1> HIDE DEF p
<1>4. Suspends(p)
  BY <1>3 DEF Suspends, Unresolved
<1>5. Unique(p)
  BY <1>3 DEF Unique, Spaced
<1>6. Backs(p)
  BY <1>3 DEF Backs
<1>7. Ordered(p)
  BY <1>3 DEF Ordered, ServedPlaces
<1> QED
  BY <1>2, <1>3, <1>4, <1>5, <1>6, <1>7 DEF p

\* A new pipeline with coverage from c,
LEMMA CoveredFrom == ASSUME NEW c, NEW p, p = [NewPipe EXCEPT !.coverage = c] PROVE p = Fresh(c)
<1> DEFINE A == [tf \in Timeframes |-> [bucket |-> NoBucket, emitted |-> None, gapBuckets |-> {}]]
           L == [tf \in Timeframes |-> None]
<1>1. p = [open |-> None, trusted |-> FALSE, emitted |-> None, coverage |-> c, stale |-> FALSE,
           seen |-> {}, pending |-> {}, lastM1 |-> None, agg |-> A,
           gaps |-> <<>>, suspended |-> FALSE, deferred |-> {}, calls |-> <<>>,
           lastClosed |-> L, delivered |-> {}]
  BY DEF NewPipe
<1> QED
  BY <1>1 DEF Fresh

\* and the two a specification begins with.
LEMMA NewPipeIs == NewPipe = Fresh(None) /\ [NewPipe EXCEPT !.coverage = 0] = Fresh(0) /\ None \in Opt /\ 0 \in Opt
<1>1. 0 \in Opt /\ None \in Opt
  BY BoundsAssumption DEF Opt, Minutes
<1>2. NewPipe = Fresh(None)
  BY DEF NewPipe, Fresh
<1>3. [NewPipe EXCEPT !.coverage = 0] = Fresh(0)
  BY CoveredFrom
<1> QED
  BY <1>1, <1>2, <1>3

\* The invariant holds at first,
LEMMA PipeInitial == Init => PipeInv
<1> SUFFICES ASSUME Init PROVE PipeInv
  OBVIOUS
<1>1. pipe = [NewPipe EXCEPT !.coverage = 0]
  BY DEF Init
<1>2. pipe \in Pipes /\ pipe.calls = <<>> /\ Suspends(pipe) /\ Unique(pipe) /\ Backs(pipe) /\ Ordered(pipe)
  BY <1>1, NewPipeIs, FreshIs
<1>3. 0 \in Minutes /\ 0 \in 0..MaxFaults
  BY BoundsAssumption, FaultsAssumption DEF Minutes
<1> QED
  BY <1>2, <1>3 DEF Init, PipeInv, Typed

\* is kept by every step,
LEMMA PipeStep == PipeInv /\ [Next]_vars => PipeInv'
<1> SUFFICES ASSUME PipeInv, [Next]_vars PROVE PipeInv'
  OBVIOUS
<1>1. Typed' /\ Advances(pipe, pipe')
  BY StepDoes DEF PipeInv
<1> QED
  BY <1>1 DEF PipeInv, Advances, Grows, Flows, Continues, Suspends, Unique, Backs, Ordered, ServedPlaces

\* and so holds in every behaviour.
LEMMA PipeHolds == Spec => []PipeInv
BY PipeInitial, PipeStep, PTL DEF Spec

\* With no call left to make, delivery is suspended exactly while a gap is left.
LEMMA SuspendedNow ==
    ASSUME NEW p, p.calls = <<>>, Suspends(p), p.suspended \in BOOLEAN
    PROVE  p.suspended <=> Unresolved(p) # {}
BY DEF Suspends

\* In every behaviour delivery is suspended exactly while a gap is unresolved: a repair
\* resumes it once all the calls it makes have returned, and not before (candle_builder's
\* _dispatch, repair and flush_at), whatever the order of ticks, flushes, verifications,
\* repairs and recoveries, for every set of timeframes.
THEOREM SuspensionEndsWithGaps == Spec => []SuspendedByGaps
<1>1. PipeInv => SuspendedByGaps
  <2> SUFFICES ASSUME PipeInv PROVE SuspendedByGaps
    OBVIOUS
  <2>1. pipe.calls = <<>> /\ Suspends(pipe) /\ pipe.suspended \in BOOLEAN
    BY DEF PipeInv, Typed, Pipes
  <2>2. pipe.suspended <=> Unresolved(pipe) # {}
    BY <2>1, SuspendedNow
  <2> QED
    BY <2>2 DEF SuspendedByGaps, OpenGaps
<1> QED
  BY <1>1, PipeHolds, PTL

\* In every behaviour a delivered bar was built from bars that were delivered before it,
\* down to the minutes closed, or is the broker's own bar for a gap that was repaired:
\* no bar is made of less than the timeframe's whole bucket.
THEOREM BarsAreBacked == Spec => []DeliveredIsBacked
<1>1. PipeInv => DeliveredIsBacked
  <2> SUFFICES ASSUME PipeInv, NEW b \in pipe.delivered
               PROVE  \/ \A c \in Constituents(b) : IF c.tf = M1 THEN c.open \in pipe.seen
                                                                  ELSE c \in pipe.delivered
                      \/ b \in Gaps \ OpenGaps
    BY DEF DeliveredIsBacked
  <2>1. CASE Backed(pipe, b)
    <3> SUFFICES ASSUME NEW t \in Expected(b.tf, b.open), NEW c, c = Bar(Source[b.tf], t)
                 PROVE  IF c.tf = M1 THEN c.open \in pipe.seen ELSE c \in pipe.delivered
      BY DEF Constituents
    <3>1. c.tf = Source[b.tf] /\ c.open = t
      BY DEF Bar
    <3>2. Present(pipe, b.tf, t)
      BY <2>1 DEF Backed
    <3> QED
      BY <3>1, <3>2 DEF Present
  <2>2. CASE Repaired(pipe, b)
    <3>1. PICK i \in DOMAIN pipe.gaps : GapAt(pipe, i) = b /\ pipe.gaps[i].resolved
      BY <2>2 DEF Repaired
    <3>2. \A j \in DOMAIN pipe.gaps : GapAt(pipe, j) = b => j = i
      BY <3>1 DEF PipeInv, Unique
    <3>3. b \notin OpenGaps
      BY <3>1, <3>2 DEF OpenGaps, Unresolved
    <3> QED
      BY <3>1, <3>3 DEF Gaps
  <2> QED
    BY <2>1, <2>2 DEF PipeInv, Backs
<1> QED
  BY <1>1, PipeHolds, PTL

\* A gap that is not open was served.
LEMMA ServedGaps ==
    ASSUME NEW p, \A i, j \in DOMAIN p.gaps : GapAt(p, i) = GapAt(p, j) => i = j
    PROVE  {GapAt(p, i) : i \in DOMAIN p.gaps} \ {GapAt(p, i) : i \in Unresolved(p)}
             = {GapAt(p, i) : i \in ServedPlaces(p)}
<1>1. DOMAIN p.gaps = Unresolved(p) \union ServedPlaces(p)
      /\ Unresolved(p) \intersect ServedPlaces(p) = {}
  BY DEF Unresolved, ServedPlaces
<1> QED
  BY <1>1

\* A step of the pipeline is one of BarStream, or changes nothing it speaks of.
LEMMA StreamStep ==
    ASSUME PipeInv, PipeInv', [Next]_vars
    PROVE  Stream!Next
<1> DEFINE q == pipe'
           open == {GapAt(pipe, i) : i \in Unresolved(pipe)}
           settled == {GapAt(pipe, i) : i \in ServedPlaces(pipe)}
           open2 == {GapAt(q, i) : i \in Unresolved(q)}
           settled2 == {GapAt(q, i) : i \in ServedPlaces(q)}
<1>1. /\ Flows(pipe, q) /\ GapsFollow(pipe, q) /\ pipe \in Pipes /\ q \in Pipes /\ pipe.calls = <<>>
      /\ Ordered(pipe) /\ Ordered(q) /\ Suspends(pipe)
  BY StepDoes DEF PipeInv, Typed, Advances, Grows
<1>2. /\ \A i, j \in DOMAIN pipe.gaps : GapAt(pipe, i) = GapAt(pipe, j) => i = j
      /\ \A i, j \in DOMAIN q.gaps : GapAt(q, i) = GapAt(q, j) => i = j
  BY DEF PipeInv, Unique
<1>3. /\ OpenGaps = open /\ Gaps \ OpenGaps = settled
      /\ OpenGaps' = open2 /\ (Gaps \ OpenGaps)' = settled2
  <2>1. Gaps \ OpenGaps = settled
    BY <1>2, ServedGaps DEF Gaps, OpenGaps
  <2>2. {GapAt(q, i) : i \in DOMAIN q.gaps} \ open2 = settled2
    BY <1>2, ServedGaps
  <2> QED
    BY <2>1, <2>2 DEF Gaps, OpenGaps
<1>4. /\ DOMAIN pipe.gaps \subseteq DOMAIN q.gaps
      /\ \A i \in DOMAIN pipe.gaps : GapAt(q, i) = GapAt(pipe, i)
      /\ ServedPlaces(pipe) \subseteq ServedPlaces(q) /\ pipe.delivered \subseteq q.delivered
  <2>1. pipe.gaps \in Seq(GapRecords) /\ q.gaps \in Seq(GapRecords)
    BY <1>1 DEF Pipes
  <2> QED
    BY <1>1, <2>1 DEF GapsFollow, Flows, Continues
<1>5. Stream!InOrder
  <2>1. ASSUME NEW b \in q.delivered \ pipe.delivered, NEW c \in pipe.delivered, c.tf = b.tf
        PROVE  c.open < b.open
    <3>1. pipe.lastClosed[b.tf] < b.open /\ c.open <= pipe.lastClosed[b.tf]
      BY <1>1, <2>1 DEF Flows, Continues, Ordered
    <3>2. b \in Bars /\ c \in Bars
      BY <1>1 DEF Pipes
    <3>3. b.open \in Int /\ c.open \in Int /\ pipe.lastClosed[b.tf] \in Int
      <4>1. b.tf \in Timeframes /\ b.open \in Minutes /\ c.open \in Minutes
        BY <3>2, BarParts
      <4>2. pipe.lastClosed[b.tf] \in Opt
        BY <1>1, <4>1 DEF Pipes
      <4> QED
        BY <4>1, <4>2 DEF Opt, Minutes, None
    <3> QED
      BY <3>1, <3>3
  <2> QED
    BY <1>4, <2>1 DEF Stream!InOrder, Stream!News
<1>6. Stream!GapsLast
  <2>1. settled \subseteq settled2
    BY <1>4 DEF ServedPlaces
  <2>2. open \subseteq open2 \union settled2
    BY <1>4 DEF Unresolved, ServedPlaces
  <2>3. open2 \intersect settled2 = {}
    BY <1>2 DEF Unresolved, ServedPlaces
  <2> QED
    BY <1>3, <2>1, <2>2, <2>3 DEF Stream!GapsLast
<1>7. Stream!ServedInPlace
  <2> SUFFICES ASSUME NEW i \in ServedPlaces(q)
               PROVE  \E b \in q.delivered : b.tf = GapAt(q, i).tf /\ GapAt(q, i).open <= b.open
    BY <1>3 DEF Stream!ServedInPlace, Stream!Served
  <2> DEFINE g == GapAt(q, i)
  <2>1. g \in Bars
    BY <1>1, WaitingParts DEF ServedPlaces
  <2>2. g.tf \in Timeframes /\ g.open \in Minutes /\ g.open <= q.lastClosed[g.tf]
    BY <1>1, <2>1, BarParts DEF Ordered
  <2>3. q.lastClosed[g.tf] # None
    BY <2>2 DEF Minutes, None
  <2>4. Bar(g.tf, q.lastClosed[g.tf]) \in q.delivered
    BY <1>1, <2>2, <2>3 DEF Ordered
  <2> QED
    BY <2>2, <2>4 DEF Bar
<1>8. Stream!HoldsBack
  <2> SUFFICES ASSUME open # {}, settled2 \ settled = {} PROVE q.delivered \ pipe.delivered = {}
    BY <1>3 DEF Stream!HoldsBack, Stream!Served, Stream!News
  <2>1. Awaits(pipe)
    <3>1. pipe.suspended \in BOOLEAN /\ DOMAIN pipe.calls = {}
      BY <1>1 DEF Pipes
    <3> QED
      BY <1>1, <3>1, SuspendedNow DEF Awaits
  <2>2. ServedPlaces(q) = ServedPlaces(pipe)
    <3> SUFFICES ASSUME NEW i \in ServedPlaces(q) PROVE i \in ServedPlaces(pipe)
      BY <1>4
    <3>1. PICK j \in ServedPlaces(pipe) : GapAt(q, i) = GapAt(pipe, j)
      OBVIOUS
    <3>2. j \in DOMAIN pipe.gaps /\ j \in DOMAIN q.gaps /\ GapAt(q, j) = GapAt(q, i)
      BY <1>4, <3>1 DEF ServedPlaces
    <3> QED
      BY <1>2, <3>2 DEF ServedPlaces
  <2> QED
    BY <1>1, <2>1, <2>2 DEF Flows, HoldsOver
<1>9. Stream!Owing
  <2>1. Advances(pipe, q)
    BY StepDoes DEF PipeInv
  <2> QED
    BY <2>1 DEF Advances, Grows, Stream!Owing
<1> QED
  BY <1>5, <1>6, <1>7, <1>8, <1>9 DEF Stream!Next

\* A new pipeline has delivered nothing, and has no gap.
LEMMA StreamBegins == Init => Stream!Init
<1> SUFFICES ASSUME Init PROVE Stream!Init
  OBVIOUS
<1>1. pipe = Fresh(0)
  BY NewPipeIs DEF Init
<1>2. pipe.delivered = {} /\ pipe.gaps = <<>> /\ pipe.pending = {} /\ pipe.seen = {}
  BY <1>1 DEF Fresh
<1>3. Gaps = {} /\ OpenGaps = {}
  BY <1>2 DEF Gaps, OpenGaps, Unresolved
<1> QED
  BY <1>2, <1>3 DEF Stream!Init

\* In every behaviour a symbol's pipeline is a BarStream: each timeframe's bars go out in
\* order and none twice, a gap stays one until the broker has served it, nothing goes
\* past an open gap unless one is settled (candle_builder's _dispatch, _handle, repair),
\* and no flush, repair, reconnect or answer that holds only some of the minutes asked for
\* drops a pending minute (verify_m1, recover_m1), whatever the order they come in.
THEOREM PipelineStreamsBars == Spec => StreamOfBars
<1>1. Init => Stream!Init
  BY StreamBegins
<1>2. PipeInv /\ PipeInv' /\ [Next]_vars => [Stream!Next]_(Stream!streamVars)
  BY StreamStep
<1> QED
  BY <1>1, <1>2, PipeHolds, PTL DEF Spec, StreamOfBars, Stream!Spec

\* Typed says of every attribute what TypeOK does.
LEMMA TypedIsTypeOK == Typed => TypeOK
<1> SUFFICES ASSUME Typed PROVE TypeOK
  OBVIOUS
<1>1. recovery.from \in Opt /\ recovery.to \in Opt
  BY DEF Typed, NoWindow, Opt
<1>2. /\ pipe.open \in Opt /\ pipe.emitted \in Opt /\ pipe.lastM1 \in Opt
      /\ pipe.coverage \in Opt \union {LastMinute + 1}
      /\ pipe.stale \in BOOLEAN /\ pipe.trusted \in BOOLEAN /\ pipe.suspended \in BOOLEAN
      /\ pipe.seen \subseteq Minutes /\ pipe.pending \subseteq Minutes
      /\ pipe.deferred \subseteq Bars /\ pipe.delivered \subseteq Bars
  BY DEF Typed, Pipes
<1>3. \A tf \in Timeframes : pipe.agg[tf] \in Aggregators /\ pipe.lastClosed[tf] \in Opt
  BY DEF Typed, Pipes
<1>4. \A tf \in Timeframes : /\ pipe.lastClosed[tf] \in Opt /\ pipe.agg[tf].emitted \in Opt
                             /\ pipe.agg[tf].bucket.open \in Opt
                             /\ pipe.agg[tf].bucket.have \subseteq Minutes
  BY <1>3 DEF Aggregators, Buckets
<1>5. Gaps \subseteq Bars
  BY GapBars DEF Gaps, Typed
<1> QED
  BY <1>1, <1>2, <1>4, <1>5 DEF Typed, TypeOK, Opt

\* In every behaviour the pipeline keeps the types its attributes are annotated with.
THEOREM PipelineTyped == Spec => []TypeOK
<1>1. PipeInv => TypeOK
  BY TypedIsTypeOK DEF PipeInv
<1> QED
  BY <1>1, PipeHolds, PTL

-----------------------------------------------------------------------------
(* What was heard of stays in hand *)

\* The pipeline is not past this minute.  While it recovers it is not past the window
\* either, all that is open is the window's first minute, and only ticks of later minutes
\* wait; otherwise none do.
HeldInv ==
    /\ Behind(pipe, now) /\ OpenIsLast(pipe)
    /\ ticked => now \in Held
    /\ IF Recovering
       THEN /\ recovery.from < recovery.to /\ recovery.to <= now /\ Behind(pipe, recovery.to)
            /\ pipe.open \in {None, recovery.from}
            /\ buffered \subseteq recovery.to..now
       ELSE buffered = {}

\* One step keeps that, and lets no minute go.
Holds == HeldInv' /\ Held \subseteq Held'

\* The minutes held are those in hand and those whose ticks wait.
LEMMA HeldIs == Held = InHand(pipe) \union buffered
BY DEF Held, InHand, Known

\* What a step that leaves the minutes alone comes to.
LEMMA StillHeld ==
    ASSUME Typed, HeldInv, SameMinutes(pipe, pipe'), pipe'.open = pipe.open, pipe'.emitted = pipe.emitted,
           UNCHANGED <<now, recovery, buffered>>, ticked' => ticked \/ now \in Held
    PROVE  Holds
<1>1. /\ Known(pipe') = Known(pipe) /\ Held' = Held /\ Recovering' = Recovering
      /\ pipe'.pending = pipe.pending
  BY DEF SameMinutes, Known, Held, Recovering
<1> QED
  BY <1>1 DEF HeldInv, Holds, Behind, OpenIsLast

\* Nothing is held at first.
LEMMA HeldAtFirst == Init => HeldInv
<1> SUFFICES ASSUME Init PROVE HeldInv
  OBVIOUS
<1>1. pipe = Fresh(0) /\ now = 0
  BY NewPipeIs DEF Init
<1>2. pipe.open = None /\ pipe.emitted = None /\ pipe.seen = {} /\ pipe.pending = {}
  BY <1>1 DEF Fresh
<1> QED
  BY <1>1, <1>2 DEF Init, HeldInv, Behind, OpenIsLast, Known, Recovering, None

\* A tick opens this minute, or waits for the recovery.
LEMMA TickHeld == ASSUME Typed, HeldInv, Tick PROVE Holds
<1>1. pipe \in Pipes /\ now \in Minutes /\ now \in Nat /\ UNCHANGED <<now, recovery>>
  BY BoundsAssumption DEF Typed, Minutes, Tick
<1>2. CASE Recovering
  <2>1. pipe' = pipe /\ buffered' = buffered \union {now} /\ Recovering'
    BY <1>1, <1>2 DEF Tick, Recovering
  <2>2. recovery.to \in Int /\ recovery.to <= now
    <3>1. recovery \in [from : Minutes, to : Minutes]
      BY <1>2 DEF Typed, Recovering
    <3>2. recovery.to <= now
      BY <1>2 DEF HeldInv
    <3> QED
      BY <3>1, <3>2 DEF Minutes
  <2> QED
    BY <1>1, <1>2, <2>1, <2>2, HeldIs DEF HeldInv, Holds, Held
<1>3. CASE ~Recovering
  <2>1. pipe' = AddTick(pipe, now) /\ buffered' = buffered /\ ~Recovering'
    BY <1>1, <1>3 DEF Tick, Recovering
  <2>2. /\ OpenIsLast(pipe') /\ InHand(pipe) \union {now} \subseteq InHand(pipe') /\ Behind(pipe', now)
    BY <1>1, <2>1, TickHolds DEF HeldInv
  <2>3. Held' = InHand(pipe') \union buffered'
    BY DEF Held, InHand, Known
  <2> QED
    BY <1>1, <1>3, <2>1, <2>2, <2>3, HeldIs DEF HeldInv, Holds
<1> QED
  BY <1>2, <1>3

\* A minute ends.
LEMMA EndHeld == ASSUME Typed, HeldInv, EndMinute PROVE Holds
<1>1. /\ now' = now + 1 /\ ~ticked' /\ now \in Int /\ pipe \in Pipes
      /\ UNCHANGED <<pipe, recovery, buffered>>
  BY DEF EndMinute, Typed, Minutes
<1>2. /\ Held' = Held /\ Recovering' = Recovering
  BY <1>1 DEF Held, Recovering
<1>3. pipe.open \in Int /\ pipe.emitted \in Int /\ Known(pipe) \subseteq Int
  BY <1>1 DEF Pipes, Opt, Minutes, None, Known
<1>4. Behind(pipe, now + 1)
  BY <1>1, <1>3 DEF HeldInv, Behind
<1>5. recovery.to \in Int
  BY DEF Typed, NoWindow, None, Minutes
<1>6. recovery.to..now \subseteq recovery.to..(now + 1) /\ (recovery.to <= now => recovery.to <= now + 1)
  BY <1>1, <1>5
<1> QED
  BY <1>1, <1>2, <1>4, <1>6 DEF HeldInv, Holds

\* A flush pass.
LEMMA FlushHeld == ASSUME Typed, HeldInv, FlushPass PROVE Holds
<1>1. /\ pipe \in Pipes /\ now \in Minutes /\ pipe' = FlushAt(pipe) /\ ~Recovering /\ ~Recovering'
      /\ UNCHANGED <<now, ticked, recovery, buffered>>
  BY DEF Typed, FlushPass, Recovering
<1>2. Behind(pipe', now) /\ OpenIsLast(pipe') /\ InHand(pipe) \subseteq InHand(pipe')
  BY <1>1, FlushHolds DEF HeldInv
<1>3. Held' = InHand(pipe') \union buffered'
  BY DEF Held, InHand, Known
<1> QED
  BY <1>1, <1>2, <1>3, HeldIs DEF HeldInv, Holds

\* The broker's bars of minutes that wait.  They may skip the open minute, but only one
\* that waits as well.
LEMMA VerifyHeld == ASSUME Typed, HeldInv, NEW got \in SUBSET ClosedPending, Verify(got) PROVE Holds
<1>1. /\ pipe \in Pipes /\ got \in SUBSET Minutes /\ got \subseteq pipe.pending
      /\ pipe' = Ascending(VerifyMinute, pipe, got) /\ UNCHANGED <<now, ticked, recovery, buffered>>
  BY DEF Typed, Pipes, ClosedPending, Verify
<1>2. Learns(pipe, got, pipe')
  BY <1>1, AnswersLearn
<1>3. pipe'.pending = pipe.pending \ got
  BY <1>1, VerifiedGrows
<1>4. Known(pipe') = Known(pipe) /\ got \subseteq Known(pipe)
  BY <1>1, <1>2 DEF Learns, Known
<1>5. ASSUME pipe'.open # pipe.open PROVE pipe'.open = None /\ pipe.open \in Known(pipe) \union {None}
  <2>1. pipe'.open = None
    BY <1>2, <1>5 DEF Learns
  <2>2. PICK s \in got : pipe.open <= s
    BY <1>2, <1>5 DEF Learns
  <2>3. s \in pipe.pending /\ s \in Int /\ pipe.open \in Int
    BY <1>1 DEF Pipes, Opt, Minutes, None
  <2>4. ~(s < pipe.open)
    BY <2>2, <2>3
  <2> QED
    BY <2>1, <2>3, <2>4 DEF HeldInv, OpenIsLast
<1>6. OpenIsLast(pipe')
  <2>1. CASE pipe'.open = pipe.open
    BY <1>3, <1>4, <2>1 DEF HeldInv, OpenIsLast
  <2>2. CASE pipe'.open # pipe.open
    BY <1>5, <2>2 DEF OpenIsLast
  <2> QED
    BY <2>1, <2>2
<1>7. ASSUME NEW m \in Minutes, Behind(pipe, m) PROVE Behind(pipe', m)
  <2>1. pipe'.emitted < m
    BY <1>2, <1>4, <1>7 DEF Learns, Behind
  <2>2. pipe'.open <= m
    BY <1>5, <1>7 DEF Behind, Minutes, None
  <2> QED
    BY <1>4, <1>7, <2>1, <2>2 DEF Behind
<1>8. now \in Minutes /\ (Recovering => recovery.to \in Minutes)
  BY DEF Typed, Recovering
<1>9. Held' = InHand(pipe') \union buffered' /\ Held \subseteq Held'
  BY <1>1, <1>4, <1>5, HeldIs DEF Held, InHand, Known
<1>10. CASE Recovering
  BY <1>1, <1>5, <1>6, <1>7, <1>8, <1>9, <1>10 DEF HeldInv, Holds, Recovering
<1>11. CASE ~Recovering
  BY <1>1, <1>6, <1>7, <1>8, <1>9, <1>11 DEF HeldInv, Holds, Recovering
<1> QED
  BY <1>10, <1>11

\* A recovery begins at the open minute, or after the last closed one.
LEMMA BeginHeld == ASSUME Typed, HeldInv, BeginRecovery PROVE Holds
<1>1. /\ ~Recovering /\ RecoveryStart(pipe) < now /\ UNCHANGED <<now, pipe, ticked, buffered>>
      /\ recovery' = [from |-> RecoveryStart(pipe), to |-> now]
  BY DEF BeginRecovery
<1>2. recovery'.from = RecoveryStart(pipe) /\ recovery'.to = now /\ buffered = {}
  BY <1>1 DEF HeldInv
<1>3. pipe.open \in {None, RecoveryStart(pipe)}
  BY DEF RecoveryStart
<1>4. Recovering'
  <2>1. now # None
    BY BoundsAssumption DEF Typed, Minutes, None
  <2> QED
    BY <1>2, <2>1 DEF Recovering, NoWindow
<1>5. Held' = Held
  BY <1>1 DEF Held
<1>6. now <= now
  BY DEF Typed, Minutes
<1> QED
  BY <1>1, <1>2, <1>3, <1>4, <1>5, <1>6 DEF HeldInv, Holds

\* A recovery ends.  Each minute of its window, the open one too, is processed or waits,
\* and the minutes of the ticks that waited are opened and closed in turn.
LEMMA RecoverHeld == ASSUME Typed, HeldInv, NEW got \in SUBSET Window, EndRecovery(got) PROVE Holds
<1> DEFINE fed    == Ascending(RecoverMinute, pipe, got)
           marked == Ascending(MarkPending, fed, Window \ got)
<1>1. /\ pipe \in Pipes /\ now \in Minutes /\ got \in SUBSET Minutes /\ Window \ got \in SUBSET Minutes
      /\ Recovering /\ pipe' = Ascending(AddTick, marked, buffered)
      /\ recovery' = NoWindow /\ buffered' = {} /\ UNCHANGED <<now, ticked>>
  BY WindowMinutes DEF Typed, EndRecovery
<1>2. /\ recovery.from \in Minutes /\ recovery.to \in Minutes /\ recovery.from < recovery.to
      /\ Behind(pipe, recovery.to) /\ Behind(pipe, now) /\ pipe.open \in {None, recovery.from}
      /\ buffered \subseteq recovery.to..now
  BY <1>1 DEF Typed, Recovering, HeldInv
<1>3. fed \in Pipes /\ Learns(pipe, got, fed)
  BY <1>1, RecoveredAdvances, AnswersLearn DEF Advances, Grows
<1> HIDE DEF fed
<1>4. marked \in Pipes /\ Learns(fed, Window \ got, marked)
  BY <1>1, <1>3, MarksAdvance, AnswersLearn DEF Advances, Grows
<1> HIDE DEF marked
<1>5. /\ Known(marked) = Known(pipe) \union Window /\ marked.open \in {pipe.open, None}
      /\ marked.emitted \in {pipe.emitted} \union Window
  BY <1>3, <1>4 DEF Learns
<1>6. recovery.from \in Window /\ \A m \in Window : m < recovery.to /\ m < now
  <2>1. recovery.to <= now
    BY <1>1 DEF HeldInv
  <2> QED
    BY <1>1, <1>2, <2>1 DEF Window, Minutes
<1>7. ASSUME NEW m \in Minutes, Behind(pipe, m), \A k \in Window : k < m PROVE Behind(marked, m)
  <2>1. marked.open <= m
    BY <1>5, <1>7 DEF Behind, Minutes, None
  <2> QED
    BY <1>5, <1>7, <2>1 DEF Behind
<1>8. Behind(marked, now) /\ Behind(marked, recovery.to)
  BY <1>1, <1>2, <1>6, <1>7
<1>9. OpenIsLast(marked) /\ InHand(pipe) \subseteq InHand(marked)
  BY <1>2, <1>5, <1>6 DEF OpenIsLast, InHand
<1>10. \A m \in buffered : m \in 0..now /\ Behind(marked, m)
  <2> SUFFICES ASSUME NEW m \in buffered PROVE m \in 0..now /\ Behind(marked, m)
    OBVIOUS
  <2>1. m \in Int /\ recovery.to <= m /\ m <= now /\ recovery.to \in Nat
    BY <1>2, BoundsAssumption DEF Minutes
  <2>2. marked.open \in Int /\ marked.emitted \in Int /\ Known(marked) \subseteq Int
    BY <1>4 DEF Pipes, Opt, Minutes, None, Known
  <2> QED
    BY <1>8, <2>1, <2>2 DEF Behind
<1>11. Behind(pipe', now) /\ OpenIsLast(pipe') /\ InHand(marked) \union buffered \subseteq InHand(pipe')
  BY <1>1, <1>4, <1>8, <1>9, <1>10, TicksHold
<1>12. Held' = InHand(pipe') \union buffered'
  BY DEF Held, InHand, Known
<1>13. Held \subseteq Held' /\ ~Recovering'
  BY <1>1, <1>9, <1>11, <1>12, HeldIs DEF Recovering
<1> QED
  BY <1>1, <1>11, <1>13 DEF HeldInv, Holds

\* Every step.
LEMMA StepHeld == ASSUME PipeInv, HeldInv, [Next]_vars PROVE Holds
<1>1. Typed /\ pipe \in Pipes
  BY DEF PipeInv, Typed
<1>2. CASE Tick \/ EndMinute \/ FlushPass \/ BeginRecovery
  BY <1>1, <1>2, TickHeld, EndHeld, FlushHeld, BeginHeld
<1>3. CASE Stall \/ Disconnect
  <2>1. /\ pipe'.open = pipe.open /\ pipe'.emitted = pipe.emitted /\ SameMinutes(pipe, pipe')
        /\ UNCHANGED <<now, ticked, recovery, buffered>>
    BY <1>1, <1>3 DEF Stall, Disconnect, Pipes, SameMinutes
  <2> QED
    BY <1>1, <2>1, StillHeld
<1>4. CASE Connect
  <2>1. /\ pipe'.open = pipe.open /\ pipe'.emitted = pipe.emitted /\ SameMinutes(pipe, pipe')
        /\ UNCHANGED <<now, ticked, recovery, buffered>>
    BY <1>1, <1>4 DEF Connect, SetConnected, Pipes, SameMinutes
  <2> QED
    BY <1>1, <2>1, StillHeld
<1>5. CASE RepairOldest
  <2>1. /\ pipe' = Returned(Repair(pipe, Oldest)) /\ Unresolved(pipe) # {}
        /\ UNCHANGED <<now, ticked, recovery, buffered>>
    BY <1>5 DEF RepairOldest, Repairable
  <2>2. Oldest \in Bars
    BY <1>1, <2>1, OldestIsGap, GapBars DEF Oldest
  <2>3. SameMinutes(pipe, pipe') /\ SameFeed(pipe, pipe')
    BY <1>1, <2>1, <2>2, RepairAdvances DEF Dispatches
  <2> QED
    BY <1>1, <2>1, <2>3, StillHeld DEF SameFeed
<1>6. CASE SkipRecovery \/ UNCHANGED vars
  <2>1. UNCHANGED <<now, pipe, ticked, recovery, buffered>>
    BY <1>6 DEF SkipRecovery, vars
  <2> QED
    BY <1>1, <2>1, StillHeld DEF SameMinutes
<1>7. ASSUME NEW got \in SUBSET ClosedPending, Verify(got) PROVE Holds
  BY <1>1, <1>7, VerifyHeld
<1>8. ASSUME NEW got \in SUBSET Window, EndRecovery(got) PROVE Holds
  BY <1>1, <1>8, RecoverHeld
<1> QED
  BY <1>2, <1>3, <1>4, <1>5, <1>6, <1>7, <1>8 DEF Next

\* In every behaviour a minute of which a packet arrived is open, waits for a recovery or
\* for the broker, or was processed, and stays so for ever: closing a minute on a tick or a
\* flush pass, a broker bar that moves the watermark past it, a drop, a stall, and a
\* recovery with any part of its answer lose no such minute (add_tick, flush_at,
\* mark_emitted_until, recover_m1, end_recovery), whatever the faults and their number.
THEOREM NothingHeardIsLost == Spec => HeardIsHeld
<1>1. Init => HeldInv
  BY HeldAtFirst
<1>2. PipeInv /\ HeldInv /\ [Next]_vars => HeldInv'
  BY StepHeld DEF Holds
<1>3. PipeInv /\ HeldInv /\ [Next]_vars => [Held \subseteq Held']_vars
  BY StepHeld DEF Holds
<1>4. HeldInv => (ticked => now \in Held)
  BY DEF HeldInv
<1> QED
  BY <1>1, <1>2, <1>3, <1>4, PipeHolds, PTL DEF Spec, HeardIsHeld

-----------------------------------------------------------------------------
(* The book of incidents *)

Statuses == {"none", "OPEN", "RESOLVED", "ABANDONED"}
Healths == {"WARMING", "LIVE", "RECOVERING_GAP", "STALE", "DEGRADED", "ERROR"}
Books == [open : SUBSET Keys, due : SUBSET Keys, rows : [Keys -> Statuses], ended : [Keys -> 0..2]]

Stored(b) == {k \in Keys : b.rows[k] = "OPEN"}

\* The incidents held and those stored are the same, and what is due is open.
BookSound(b) == b \in Books /\ b.due \subseteq b.open /\ b.open = Stored(b)

\* Bars and minutes are keys, and no key is both.
LEMMA KeyParts ==
    /\ Bars \subseteq Keys /\ \A S \in SUBSET Minutes : MinuteKeys(S) \subseteq Keys
    /\ \A b \in Bars : ~IsMinute(b)
    /\ \A S : \A k \in MinuteKeys(S) : IsMinute(k) /\ k.open \in S
    /\ \A S, T : MinuteKeys(S) \intersect MinuteKeys(T) = MinuteKeys(S \intersect T)
<1>1. \A b \in Bars : b \in Keys /\ ~IsMinute(b)
  BY BarParts, TimeframesAssumption DEF Keys, IsMinute
<1>2. \A S : \A k \in MinuteKeys(S) : IsMinute(k) /\ k.open \in S
  BY DEF MinuteKeys, IsMinute, Bar
<1>3. \A S \in SUBSET Minutes : MinuteKeys(S) \subseteq Keys
  BY DEF MinuteKeys, Keys
<1>4. ASSUME NEW S, NEW T PROVE MinuteKeys(S) \intersect MinuteKeys(T) = MinuteKeys(S \intersect T)
  BY DEF MinuteKeys, Bar
<1> QED
  BY <1>1, <1>2, <1>3, <1>4

\* Incidents end, in memory and in their rows.
LEMMA EndDoes ==
    ASSUME NEW b \in Books, b.due \subseteq b.open, NEW K, NEW how \in {"RESOLVED", "ABANDONED"}
    PROVE  /\ End(b, K, how) \in Books /\ End(b, K, how).due \subseteq End(b, K, how).open
           /\ End(b, K, how).open = b.open \ K
           /\ BookSound(b) => BookSound(End(b, K, how))
<1> DEFINE e == K \intersect b.open
           rows == [k \in Keys |-> IF k \in e THEN how ELSE b.rows[k]]
           ended == [k \in Keys |-> IF k \in e /\ b.ended[k] < 2 THEN b.ended[k] + 1 ELSE b.ended[k]]
           c == End(b, K, how)
<1>1. c = [b EXCEPT !.open = b.open \ e, !.due = b.due \ e, !.rows = rows, !.ended = ended]
  BY DEF End
<1>2. b.rows \in [Keys -> Statuses] /\ b.ended \in [Keys -> 0..2] /\ b.open \in SUBSET Keys /\ b.due \in SUBSET Keys
  BY DEF Books
<1>3. rows \in [Keys -> Statuses]
  BY <1>2 DEF Statuses
<1>4. ended \in [Keys -> 0..2]
  <2> SUFFICES ASSUME NEW k \in Keys
               PROVE  (IF k \in e /\ b.ended[k] < 2 THEN b.ended[k] + 1 ELSE b.ended[k]) \in 0..2
    OBVIOUS
  <2>1. b.ended[k] \in 0..2
    BY <1>2
  <2> QED
    BY <2>1
<1>5. \A k \in Keys : rows[k] = IF k \in e THEN how ELSE b.rows[k]
  OBVIOUS
<1> HIDE DEF rows, ended, c
<1>6. c \in Books /\ c.open = b.open \ e /\ c.due = b.due \ e /\ c.rows = rows
  BY <1>1, <1>2, <1>3, <1>4 DEF Books
<1>7. ASSUME BookSound(b) PROVE c.open = Stored(c)
  BY <1>2, <1>5, <1>6, <1>7 DEF BookSound, Stored
<1> QED
  BY <1>6, <1>7 DEF BookSound, c

\* Incidents open, in memory and in their rows.
LEMMA OpenAllDoes ==
    ASSUME NEW b \in Books, b.due \subseteq b.open, NEW K \in SUBSET Keys
    PROVE  /\ OpenAll(b, K) \in Books /\ OpenAll(b, K).due \subseteq OpenAll(b, K).open
           /\ OpenAll(b, K).open = b.open \union K
           /\ BookSound(b) => BookSound(OpenAll(b, K))
<1> DEFINE rows == [k \in Keys |-> IF k \in K THEN "OPEN" ELSE b.rows[k]]
           c == OpenAll(b, K)
<1>1. c = [b EXCEPT !.open = b.open \union K, !.due = b.due \union (K \ b.open), !.rows = rows]
  BY DEF OpenAll
<1>2. b.rows \in [Keys -> Statuses] /\ b.open \in SUBSET Keys /\ b.due \in SUBSET Keys
  BY DEF Books
<1>3. rows \in [Keys -> Statuses] /\ \A k \in Keys : rows[k] = IF k \in K THEN "OPEN" ELSE b.rows[k]
  BY <1>2 DEF Statuses
<1> HIDE DEF rows, c
<1>4. c \in Books /\ c.open = b.open \union K /\ c.due = b.due \union (K \ b.open) /\ c.rows = rows
  BY <1>1, <1>2, <1>3 DEF Books
<1>5. ASSUME BookSound(b) PROVE c.open = Stored(c)
  BY <1>2, <1>3, <1>4, <1>5 DEF BookSound, Stored
<1> QED
  BY <1>4, <1>5 DEF BookSound, c

\* So does one.
LEMMA OpenOneDoes ==
    ASSUME NEW b, BookSound(b), NEW k \in Keys
    PROVE  BookSound(OpenOne(b, k)) /\ OpenOne(b, k).open = b.open \union {k}
<1>1. b \in Books /\ b.due \subseteq b.open /\ b.open = Stored(b)
  BY DEF BookSound
<1>2. CASE k \in b.open
  BY <1>2 DEF OpenOne
<1>3. CASE k \notin b.open
  <2> DEFINE c == OpenOne(b, k)
             rows == [b.rows EXCEPT ![k] = "OPEN"]
  <2>1. c = [b EXCEPT !.open = b.open \union {k}, !.due = b.due \union {k}, !.rows = rows]
    BY <1>3 DEF OpenOne
  <2>2. b.rows \in [Keys -> Statuses] /\ b.open \in SUBSET Keys /\ b.due \in SUBSET Keys
    BY <1>1 DEF Books
  <2>3. /\ rows \in [Keys -> Statuses] /\ rows[k] = "OPEN"
        /\ \A j \in Keys : j # k => rows[j] = b.rows[j]
    BY <2>2 DEF Statuses
  <2> HIDE DEF c, rows
  <2>4. c \in Books /\ c.open = b.open \union {k} /\ c.due = b.due \union {k} /\ c.rows = rows
    BY <1>1, <2>1, <2>2, <2>3 DEF Books
  <2>5. c.open = Stored(c)
    BY <1>1, <2>2, <2>3, <2>4 DEF Stored
  <2> QED
    BY <1>1, <2>4, <2>5 DEF BookSound, c
<1> QED
  BY <1>2, <1>3

\* A failed attempt changes what is due alone.
LEMMA FailedDoes ==
    ASSUME NEW b, BookSound(b), NEW K
    PROVE  BookSound(Failed(b, K)) /\ Failed(b, K).open = b.open
<1> DEFINE c == Failed(b, K)
<1>1. c = [b EXCEPT !.due = b.due \ K]
  BY DEF Failed
<1>2. b \in Books /\ b.due \subseteq b.open /\ b.open = Stored(b)
  BY DEF BookSound
<1> HIDE DEF c
<1>3. c \in Books /\ c.open = b.open /\ c.due = b.due \ K /\ c.rows = b.rows
  BY <1>1, <1>2 DEF Books
<1> QED
  BY <1>2, <1>3 DEF BookSound, Stored, c

-----------------------------------------------------------------------------
(* What a callback of the application keeps *)

Worlds == [pipe : Pipes, book : Books, health : Healths, spawned : SUBSET {"verify", "repair"}]

\* The minutes that wait are in the book, and a symbol that is LIVE waits for nothing.
Sound(w) ==
    /\ w \in Worlds /\ BookSound(w.book) /\ Suspends(w.pipe)
    /\ MinuteKeys(w.pipe.pending) \subseteq w.book.open
    /\ w.health = "LIVE" => Unresolved(w.pipe) = {} /\ w.pipe.pending = {}

\* The book changes, and no minute that waits leaves it.
LEMMA BookChanges ==
    ASSUME NEW w, Sound(w), NEW b, BookSound(b), MinuteKeys(w.pipe.pending) \subseteq b.open
    PROVE  /\ Sound([w EXCEPT !.book = b])
           /\ [w EXCEPT !.book = b].pipe = w.pipe /\ [w EXCEPT !.book = b].book = b
<1> DEFINE v == [w EXCEPT !.book = b]
<1>1. w \in Worlds /\ b \in Books
  BY DEF Sound, BookSound
<1>2. v \in Worlds /\ v.pipe = w.pipe /\ v.book = b /\ v.health = w.health
  BY <1>1 DEF Worlds
<1> HIDE DEF v
<1>3. Sound(v)
  BY <1>2 DEF Sound
<1> QED
  BY <1>2, <1>3 DEF v

\* Other coroutines are spawned.
LEMMA SpawnChanges ==
    ASSUME NEW w, Sound(w), NEW s \in SUBSET {"verify", "repair"}
    PROVE  /\ Sound([w EXCEPT !.spawned = s]) /\ [w EXCEPT !.spawned = s].pipe = w.pipe
           /\ [w EXCEPT !.spawned = s].book = w.book
<1> DEFINE v == [w EXCEPT !.spawned = s]
<1>1. w \in Worlds
  BY DEF Sound
<1>2. v \in Worlds /\ v.pipe = w.pipe /\ v.book = w.book /\ v.health = w.health
  BY <1>1 DEF Worlds
<1> HIDE DEF v
<1>3. Sound(v)
  BY <1>2 DEF Sound
<1> QED
  BY <1>2, <1>3 DEF v

\* A day that is over takes its minutes off the list and their incidents out of the book.
LEMMA TickSound ==
    ASSUME NEW w, Sound(w), NEW r
    PROVE  LET v == ContinuityTick(w, r) IN
           /\ Sound(v) /\ GapsFollow(w.pipe, v.pipe) /\ v.pipe.pending \subseteq w.pipe.pending
           /\ v.pipe.calls = w.pipe.calls
<1> DEFINE over == {k \in w.book.open : ~Relevant(k)}
           b == End(w.book, over, "ABANDONED")
           pend == {m \in w.pipe.pending : Bar(M1, m) \notin over}
           more == w.spawned \union (IF r THEN {} ELSE DueWork(b))
           q == [w.pipe EXCEPT !.pending = pend]
           v == ContinuityTick(w, r)
<1>1. v = [w EXCEPT !.book = b, !.pipe = q, !.spawned = more]
  BY DEF ContinuityTick
<1>2. w \in Worlds /\ w.pipe \in Pipes /\ w.book \in Books /\ w.book.due \subseteq w.book.open
      /\ w.spawned \in SUBSET {"verify", "repair"} /\ BookSound(w.book)
  BY DEF Sound, Worlds, BookSound
<1>3. BookSound(b) /\ b \in Books /\ b.open = w.book.open \ over
  BY <1>2, EndDoes
<1>4. more \in SUBSET {"verify", "repair"}
  BY <1>2 DEF DueWork
<1>5. q \in Pipes /\ q.pending = pend
  BY <1>2 DEF Pipes
<1>6. /\ SameGaps(w.pipe, q) /\ q.agg = w.pipe.agg /\ q.deferred = w.pipe.deferred
      /\ q.delivered = w.pipe.delivered /\ q.lastClosed = w.pipe.lastClosed
      /\ q.calls = w.pipe.calls /\ w.pipe.seen \subseteq q.seen
  BY <1>2 DEF Pipes, SameGaps
<1>7. \A k \in MinuteKeys(pend) : k \notin over
  BY DEF MinuteKeys
<1>8. pend \subseteq w.pipe.pending
  OBVIOUS
<1>9. MinuteKeys(pend) \subseteq MinuteKeys(w.pipe.pending)
  BY DEF MinuteKeys
<1> HIDE DEF v, q, b, more, pend, over
<1>10. Grows(w.pipe, q)
  BY <1>2, <1>5, <1>6, QuietGrows
<1>11. v \in Worlds /\ v.pipe = q /\ v.book = b /\ v.health = w.health
  BY <1>1, <1>2, <1>3, <1>4, <1>5 DEF Worlds
<1>12. Sound(v)
  <2>1. MinuteKeys(q.pending) \subseteq b.open
    BY <1>3, <1>5, <1>7, <1>9 DEF Sound
  <2>2. Suspends(q)
    BY <1>10 DEF Grows, Sound
  <2>3. Unresolved(q) = Unresolved(w.pipe)
    BY <1>6 DEF Unresolved, SameGaps
  <2>4. v.health = "LIVE" => Unresolved(q) = {} /\ q.pending = {}
    BY <1>5, <1>8, <1>11, <2>3 DEF Sound
  <2> QED
    BY <1>3, <1>11, <2>1, <2>2, <2>4 DEF Sound
<1> QED
  BY <1>5, <1>6, <1>8, <1>10, <1>11, <1>12 DEF Grows, v

\* The pipeline went on: new minutes and gaps enter the book, and the symbol is no longer LIVE.
LEMMA NotifiedSound ==
    ASSUME NEW w, Sound(w), NEW q \in Pipes, GapsFollow(w.pipe, q), Suspends(q),
           NEW look \in Looks, NEW r
    PROVE  LET v == Notified(w, q, look, r) IN
           /\ Sound(v) /\ GapsFollow(w.pipe, v.pipe) /\ v.pipe.pending \subseteq q.pending
<1> DEFINE minutes == MinuteKeys(q.pending \ w.pipe.pending)
           gaps == {GapAt(q, i) : i \in (Len(w.pipe.gaps) + 1)..Len(q.gaps)}
           state == IF gaps # {} THEN "ERROR"
                    ELSE IF minutes # {} /\ w.health \in {"LIVE", "STALE"} THEN look
                    ELSE w.health
           b == OpenAll(w.book, minutes \union gaps)
           s == w.spawned \union {op \in {"repair"} : gaps # {}}
           told == [pipe |-> q, book |-> b, health |-> state, spawned |-> s]
           v == Notified(w, q, look, r)
<1>1. v = IF minutes = {} THEN told ELSE ContinuityTick(told, r)
  BY DEF Notified
<1>2. w \in Worlds /\ w.pipe \in Pipes /\ w.book \in Books /\ w.book.due \subseteq w.book.open
      /\ w.spawned \in SUBSET {"verify", "repair"} /\ BookSound(w.book) /\ w.health \in Healths
  BY DEF Sound, Worlds, BookSound
<1>3. Len(w.pipe.gaps) \in Nat /\ Len(q.gaps) \in Nat /\ DOMAIN q.gaps = 1..Len(q.gaps)
      /\ DOMAIN w.pipe.gaps = 1..Len(w.pipe.gaps)
  BY <1>2 DEF Pipes
<1>4. minutes \union gaps \in SUBSET Keys
  <2>1. \A i \in (Len(w.pipe.gaps) + 1)..Len(q.gaps) : i \in DOMAIN q.gaps
    BY <1>3
  <2>2. gaps \subseteq Bars
    BY <2>1, GapBars
  <2>3. q.pending \ w.pipe.pending \in SUBSET Minutes
    BY DEF Pipes
  <2> QED
    BY <2>2, <2>3, KeyParts
<1>5. b \in Books /\ BookSound(b) /\ b.open = w.book.open \union (minutes \union gaps)
  <2> HIDE DEF minutes, gaps
  <2> QED
    BY <1>2, <1>4, OpenAllDoes
<1>6. MinuteKeys(q.pending) \subseteq MinuteKeys(w.pipe.pending) \union minutes
  BY DEF MinuteKeys
<1>7. look \in Healths /\ look # "LIVE"
  BY DEF Looks, Healths
<1>8. state \in Healths
  BY <1>2, <1>7 DEF Healths
<1>9. s \in SUBSET {"verify", "repair"}
  BY <1>2
<1>10. gaps = {} => Len(q.gaps) = Len(w.pipe.gaps)
  BY <1>3 DEF GapsFollow
<1>11. minutes = {} => q.pending \subseteq w.pipe.pending
  BY DEF MinuteKeys
<1>12. state = "LIVE" => gaps = {} /\ minutes = {} /\ w.health = "LIVE"
  <2> HIDE DEF gaps, minutes
  <2> QED
    BY <1>7
<1> HIDE DEF minutes, gaps, state, b, s
<1>13. told \in Worlds /\ told.pipe = q /\ told.book = b /\ told.health = state
  BY <1>5, <1>8, <1>9 DEF Worlds
<1> HIDE DEF told, v
<1>14. Sound(told)
  <2>1. MinuteKeys(q.pending) \subseteq b.open
    BY <1>5, <1>6 DEF Sound
  <2>2. ASSUME told.health = "LIVE" PROVE Unresolved(q) = {} /\ q.pending = {}
    <3>1. gaps = {} /\ minutes = {} /\ w.health = "LIVE"
      BY <1>12, <1>13, <2>2
    <3>2. Unresolved(w.pipe) = {} /\ w.pipe.pending = {}
      BY <3>1 DEF Sound
    <3>3. q.pending = {}
      BY <1>11, <3>1, <3>2
    <3>4. \A i \in DOMAIN w.pipe.gaps : q.gaps[i].resolved
      BY <3>2 DEF Unresolved, GapsFollow
    <3>5. DOMAIN q.gaps = DOMAIN w.pipe.gaps
      BY <1>3, <1>10, <3>1
    <3> QED
      BY <3>3, <3>4, <3>5 DEF Unresolved
  <2> QED
    BY <1>5, <1>13, <2>1, <2>2 DEF Sound
<1>15. CASE minutes = {}
  BY <1>1, <1>13, <1>14, <1>15 DEF v
<1>16. CASE minutes # {}
  <2>1. v = ContinuityTick(told, r)
    BY <1>1, <1>16
  <2>2. /\ Sound(v) /\ GapsFollow(told.pipe, v.pipe) /\ v.pipe.pending \subseteq told.pipe.pending
    BY <1>14, <2>1, TickSound
  <2>3. v.pipe \in Pipes
    BY <2>2 DEF Sound, Worlds
  <2>4. GapsFollow(w.pipe, v.pipe)
    BY <1>2, <1>13, <2>2, <2>3, GapsFollowOn
  <2> QED
    BY <1>13, <2>2, <2>4 DEF v
<1> QED
  BY <1>15, <1>16

\* Incidents of what no longer waits are resolved.
LEMMA SyncedSound ==
    ASSUME NEW w, Sound(w)
    PROVE  Sound(Synced(w)) /\ Synced(w).pipe = w.pipe
<1> DEFINE gone == {k \in w.book.open : IF IsMinute(k)
                                        THEN k.open \in w.pipe.seen \ w.pipe.pending
                                        ELSE k \notin GapKeys(w.pipe)}
           b == End(w.book, gone, "RESOLVED")
<1>1. Synced(w) = [w EXCEPT !.book = b]
  BY DEF Synced
<1>2. w.book \in Books /\ w.book.due \subseteq w.book.open /\ BookSound(w.book)
  BY DEF Sound, BookSound
<1>3. \A k \in MinuteKeys(w.pipe.pending) : k \notin gone
  BY KeyParts
<1> HIDE DEF gone
<1>4. BookSound(b) /\ b.open = w.book.open \ gone
  BY <1>2, EndDoes
<1>5. MinuteKeys(w.pipe.pending) \subseteq b.open
  BY <1>3, <1>4 DEF Sound
<1> HIDE DEF b
<1> QED
  BY <1>1, <1>4, <1>5, BookChanges

\* The symbol's state is settled: it is LIVE only when nothing waits.
LEMMA SettledSound ==
    ASSUME NEW w, Sound(w), NEW ok, NEW aged \in Ages
    PROVE  Sound(Settled(w, ok, aged)) /\ Settled(w, ok, aged).pipe = w.pipe
<1> DEFINE s == Synced(w)
           p == s.pipe
           onlyCurrent == ok /\ Unresolved(p) = {} /\ p.pending # {} /\ \A m \in p.pending : m >= now
           state == IF ok /\ ContinuityOk(p)
                    THEN IF CurrentPartial(p) THEN "RECOVERING_GAP"
                         ELSE IF p.stale THEN "STALE" ELSE "LIVE"
                    ELSE IF onlyCurrent THEN "RECOVERING_GAP"
                    ELSE IF ~ok THEN "ERROR"
                    ELSE IF s.book.open = {} THEN "RECOVERING_GAP" ELSE aged
           v == Settled(w, ok, aged)
<1>1. v = [s EXCEPT !.health = state]
  BY DEF Settled
<1>2. Sound(s) /\ p = w.pipe
  BY SyncedSound
<1>3. aged \in Healths /\ aged # "LIVE"
  BY DEF Ages, Healths
<1>4. state \in Healths /\ (state = "LIVE" => ContinuityOk(p))
  <2> HIDE DEF s, p, onlyCurrent
  <2> QED
    BY <1>3 DEF Healths
<1> HIDE DEF s, state, v
<1>5. s \in Worlds
  BY <1>2 DEF Sound
<1>6. v \in Worlds /\ v.pipe = s.pipe /\ v.book = s.book /\ v.health = state
  BY <1>1, <1>4, <1>5 DEF Worlds
<1>7. state = "LIVE" => Unresolved(s.pipe) = {} /\ s.pipe.pending = {}
  BY <1>4 DEF ContinuityOk
<1>8. Sound(v)
  BY <1>2, <1>6, <1>7 DEF Sound
<1> QED
  BY <1>2, <1>6, <1>8 DEF v

-----------------------------------------------------------------------------
(* The application *)

Others ==
    /\ now \in Minutes /\ faults \in 0..MaxFaults
    /\ ticked \in BOOLEAN /\ passed \in BOOLEAN /\ recoverDue \in BOOLEAN
    /\ recovery \in {NoWindow} \union [from : Minutes, to : Minutes]
    /\ buffered \subseteq Minutes
    /\ up \in BOOLEAN /\ crashes \in 0..MaxCrashes
    /\ attempt \in [on : BOOLEAN, incs : SUBSET Keys, asked : SUBSET Minutes]

\* While the process runs, what a callback works on is sound; while it is down, the rows
\* are what is left.
AppInv ==
    /\ Others /\ pipe \in Pipes /\ pipe.calls = <<>>
    /\ repairing \subseteq DOMAIN pipe.gaps
    /\ up => Sound(World)
    /\ ~up => /\ pipe = NewPipe /\ health = "WARMING" /\ spawned = {} /\ repairing = {}
              /\ book \in Books /\ book.open = {} /\ book.due = {}

\* What a callback works on, and what it leaves.
LEMMA WorldParts ==
    /\ World.pipe = pipe /\ World.book = book /\ World.health = health /\ World.spawned = spawned
    /\ AppInv => Typed
    /\ \A w : Becomes(w) /\ w \in Worlds =>
           World' = w /\ pipe' = w.pipe /\ health' = w.health /\ book' = w.book
           /\ spawned' = w.spawned /\ pipe'.calls = <<>>
<1>1. ASSUME NEW w \in Worlds, Becomes(w)
      PROVE  World' = w /\ pipe' = w.pipe /\ health' = w.health /\ book' = w.book
             /\ spawned' = w.spawned /\ pipe'.calls = <<>>
  <2>1. pipe' = w.pipe /\ book' = w.book /\ health' = w.health /\ spawned' = w.spawned /\ w.pipe.calls = <<>>
    BY <1>1 DEF Becomes, HasReturned
  <2>2. w = [pipe |-> w.pipe, book |-> w.book, health |-> w.health, spawned |-> w.spawned]
    BY DEF Worlds
  <2> QED
    BY <2>1, <2>2 DEF World
<1> QED
  BY <1>1 DEF World, AppInv, Others, Typed

\* What remains to be shown of a callback whose world is w.
LEMMA WorldKeeps ==
    ASSUME AppInv, up, up' = up, Others', NEW w, Sound(w), GapsFollow(pipe, w.pipe),
           World' = w, pipe' = w.pipe, w.pipe.calls = <<>>, repairing' \subseteq DOMAIN pipe.gaps
    PROVE  AppInv'
<1>1. w \in Worlds /\ w.pipe \in Pipes /\ pipe \in Pipes
  BY DEF Sound, Worlds, AppInv
<1>2. pipe'.calls = <<>>
  OBVIOUS
<1>3. repairing' \subseteq DOMAIN pipe'.gaps
  BY <1>1, <1>2 DEF GapsFollow, Pipes
<1>4. Sound(World)'
  BY <1>2 DEF Sound
<1> QED
  BY <1>1, <1>2, <1>3, <1>4 DEF AppInv

\* And of one that hands its world on through Becomes.
LEMMA BecomesKeeps ==
    ASSUME AppInv, up, up' = up, Others', NEW w, Sound(w), GapsFollow(pipe, w.pipe), Becomes(w),
           repairing' \subseteq DOMAIN pipe.gaps
    PROVE  AppInv'
<1>1. w \in Worlds
  BY DEF Sound
<1>2. World' = w /\ pipe' = w.pipe /\ pipe'.calls = <<>>
  BY <1>1, WorldParts
<1> QED
  BY <1>2, WorldKeeps

\* The pipeline went on in a callback.
LEMMA WorldNotified ==
    ASSUME AppInv, up, NEW q, Advances(pipe, q), NEW look \in Looks, NEW r
    PROVE  LET w == Notified(World, q, look, r) IN
           Sound(w) /\ GapsFollow(pipe, w.pipe) /\ w.pipe.pending \subseteq q.pending
<1>1. Sound(World) /\ World.pipe = pipe /\ Suspends(pipe)
  BY WorldParts DEF AppInv, Sound
<1>2. q \in Pipes /\ GapsFollow(pipe, q) /\ Suspends(q)
  BY <1>1 DEF Advances, Grows
<1> QED
  BY <1>1, <1>2, NotifiedSound

\* A tick is sound, delivered or buffered, and when it ends a stall.
LEMMA TickKept ==
    ASSUME AppInv, NEW look \in Looks, NEW aged \in Ages, OnTick(look, aged)
    PROVE  AppInv'
<1> DEFINE w == Notified(World, AddTick(pipe, now), look, FALSE)
           v == IF pipe.stale THEN Settled(w, TRUE, aged) ELSE w
<1>1. pipe \in Pipes /\ now \in Minutes /\ up /\ up' = up /\ repairing' = repairing
  BY DEF AppInv, Others, OnTick, unchangedApp
<1>2. CASE Recovering
  <2>1. pipe' = pipe /\ book' = book /\ health' = health /\ spawned' = spawned
        /\ buffered' = buffered \union {now}
    BY <1>2 DEF OnTick
  <2>2. Others'
    BY <1>1, <2>1 DEF OnTick, unchangedApp, AppInv, Others
  <2>3. World' = World
    BY <2>1 DEF World
  <2> QED
    BY <1>1, <2>1, <2>2, <2>3 DEF AppInv, Sound
<1>3. CASE ~Recovering
  <2>1. Becomes(v) /\ buffered' = buffered
    BY <1>3 DEF OnTick
  <2>2. Others'
    BY <1>1, <2>1 DEF OnTick, unchangedApp, AppInv, Others
  <2>3. Advances(pipe, AddTick(pipe, now))
    BY <1>1, TickAdvances
  <2>4. Sound(w) /\ GapsFollow(pipe, w.pipe)
    BY <1>1, <2>3, WorldNotified
  <2> HIDE DEF w
  <2>5. Sound(v) /\ GapsFollow(pipe, v.pipe)
    BY <2>4, SettledSound
  <2> HIDE DEF v
  <2>6. repairing' \subseteq DOMAIN pipe.gaps
    BY <1>1 DEF AppInv
  <2> QED
    BY <1>1, <2>1, <2>2, <2>5, <2>6, BecomesKeeps
<1> QED
  BY <1>2, <1>3

\* A pass of the flush loop is sound, in a recovery too.
LEMMA FlushKept ==
    ASSUME AppInv, NEW look \in Looks, FlushLoop(look)
    PROVE  AppInv'
<1> DEFINE w == IF Recovering THEN World ELSE Notified(World, FlushAt(pipe), look, FALSE)
           v == Flushed(look)
<1>1. pipe \in Pipes /\ now \in Minutes /\ up /\ up' = up /\ repairing' = repairing
  BY DEF AppInv, Others, FlushLoop, unchangedApp
<1>2. Becomes(v) /\ v = ContinuityTick(w, Recovering)
  BY DEF FlushLoop, Flushed
<1>3. Others'
  BY <1>1 DEF FlushLoop, unchangedApp, AppInv, Others
<1>4. Sound(w) /\ GapsFollow(pipe, w.pipe) /\ w.pipe \in Pipes
  <2>1. Advances(pipe, FlushAt(pipe))
    BY <1>1, FlushAdvances
  <2>2. Sound(World) /\ World.pipe = pipe /\ GapsFollow(pipe, pipe)
    BY <1>1, WorldParts, GapsFollowOn DEF AppInv, SameGaps
  <2>3. ASSUME ~Recovering PROVE Sound(w) /\ GapsFollow(pipe, w.pipe)
    BY <1>1, <2>1, <2>3, WorldNotified
  <2>4. Sound(w) /\ GapsFollow(pipe, w.pipe)
    BY <2>2, <2>3
  <2> HIDE DEF w
  <2> QED
    BY <2>4 DEF Sound, Worlds
<1> HIDE DEF w, v
<1>5. Sound(v) /\ GapsFollow(w.pipe, v.pipe)
  BY <1>2, <1>4, TickSound
<1>6. GapsFollow(pipe, v.pipe)
  <2>1. v.pipe \in Pipes
    BY <1>5 DEF Sound, Worlds
  <2> QED
    BY <1>1, <1>4, <1>5, <2>1, GapsFollowOn
<1>7. repairing' \subseteq DOMAIN pipe.gaps
  BY <1>1 DEF AppInv
<1> QED
  BY <1>1, <1>2, <1>3, <1>5, <1>6, <1>7, BecomesKeeps

\* The feed, the minutes and the start of a recovery.
LEMMA FeedKept ==
    ASSUME AppInv, up, up' = up, attempt' = attempt, crashes' = crashes, repairing' = repairing,
           book' = book, spawned' = spawned, health' \in Healths,
           health' = health \/ health' # "LIVE",
           Stall \/ Disconnect \/ Connect \/ EndMinute \/ BeginRecovery \/ SkipRecovery
    PROVE  AppInv'
<1>1. pipe \in Pipes
  BY DEF AppInv
<1>2. Typed' /\ Advances(pipe, pipe') /\ SameMinutes(pipe, pipe') /\ SameGaps(pipe, pipe')
  BY WorldParts, FeedDoes
<1>3. pipe' \in Pipes /\ pipe'.calls = <<>> /\ Others'
  BY <1>2 DEF Typed, AppInv, Others
<1>4. Sound(World) /\ World.pipe = pipe /\ World.book = book /\ World.health = health /\ World.spawned = spawned
  BY WorldParts DEF AppInv
<1>5. World' \in Worlds /\ World'.pipe = pipe' /\ World'.book = book /\ World'.health = health'
  BY <1>3, <1>4 DEF World, Sound, Worlds
<1>6. Suspends(pipe) => Suspends(pipe')
  BY <1>2 DEF Advances, Grows
<1>7. Unresolved(pipe') = Unresolved(pipe)
  BY <1>2 DEF SameGaps, Unresolved
<1> DEFINE w == World'
<1> HIDE DEF w
<1>8. Sound(w)
  <2>1. BookSound(book) /\ MinuteKeys(pipe.pending) \subseteq book.open /\ Suspends(pipe)
        /\ (health = "LIVE" => Unresolved(pipe) = {} /\ pipe.pending = {})
    BY <1>4 DEF Sound
  <2>2. w \in Worlds /\ w.pipe = pipe' /\ w.book = book /\ w.health = health'
    BY <1>5 DEF w
  <2>3. pipe'.pending = pipe.pending
    BY <1>2 DEF SameMinutes
  <2> QED
    BY <1>6, <1>7, <2>1, <2>2, <2>3 DEF Sound
<1>9. Sound(World)'
  BY <1>8 DEF w, Sound
<1>10. repairing' \subseteq DOMAIN pipe'.gaps
  BY <1>2 DEF SameGaps, AppInv
<1> QED
  BY <1>3, <1>9, <1>10 DEF AppInv

\* A callback that is done with a coroutine.
LEMMA WorldWithout ==
    ASSUME AppInv, up, NEW s
    PROVE  LET w == [World EXCEPT !.spawned = spawned \ s] IN
           Sound(w) /\ GapsFollow(pipe, w.pipe) /\ w.pipe = pipe /\ w.book = book
<1>1. Sound(World) /\ World.pipe = pipe /\ World.book = book /\ World.spawned = spawned
  BY WorldParts DEF AppInv
<1>2. spawned \ s \in SUBSET {"verify", "repair"}
  BY <1>1 DEF Sound, Worlds
<1>3. GapsFollow(pipe, pipe)
  BY GapsFollowOn DEF AppInv, SameGaps
<1> QED
  BY <1>1, <1>2, <1>3, SpawnChanges

\* verify up to its await.
LEMMA VerifyStartKept ==
    ASSUME AppInv, NEW aged \in Ages, VerifyStart(aged)
    PROVE  AppInv'
<1> DEFINE w == [World EXCEPT !.spawned = spawned \ {"verify"}]
<1>1. up /\ up' = up /\ repairing' = repairing
  BY DEF VerifyStart
<1>2. Sound(w) /\ GapsFollow(pipe, w.pipe)
  BY <1>1, WorldWithout
<1>3. w = [World EXCEPT !.spawned = @ \ {"verify"}]
  BY WorldParts
<1>4. /\ Becomes(w) \/ Becomes(Settled(w, TRUE, aged))
      /\ attempt' \in [on : BOOLEAN, incs : SUBSET Keys, asked : SUBSET Minutes]
  <2>1. attempt \in [on : BOOLEAN, incs : SUBSET Keys, asked : SUBSET Minutes] /\ now \in 0..LastMinute
    BY DEF AppInv, Others, Minutes
  <2>2. book.open \subseteq Keys
    BY <1>1, WorldParts DEF AppInv, Sound, BookSound, Books
  <2>3. 0..(now - 1) \subseteq Minutes
    BY <2>1, BoundsAssumption DEF Minutes
  <2>4. CASE attempt' = attempt /\ (Becomes(w) \/ Becomes(Settled(w, TRUE, aged)))
    BY <2>1, <2>4
  <2>5. CASE /\ Becomes(w)
             /\ attempt' = [on |-> TRUE, incs |-> {k \in book.open : IsMinute(k) /\ k.open < now},
                            asked |-> {m \in 0..(now - 1) : /\ \E c \in ClosedPending : c - 1 <= m
                                                            /\ \E c \in ClosedPending : m <= c + 1}]
    <3> DEFINE i == {k \in book.open : IsMinute(k) /\ k.open < now}
               a == {m \in 0..(now - 1) : /\ \E c \in ClosedPending : c - 1 <= m
                                          /\ \E c \in ClosedPending : m <= c + 1}
    <3>1. i \in SUBSET Keys /\ a \in SUBSET Minutes
      BY <2>2, <2>3
    <3>2. attempt' = [on |-> TRUE, incs |-> i, asked |-> a]
      BY <2>5
    <3> HIDE DEF i, a
    <3> QED
      BY <2>5, <3>1, <3>2
  <2> HIDE DEF w
  <2> QED
    BY <1>3, <2>4, <2>5 DEF VerifyStart
<1> HIDE DEF w
<1>5. Others'
  BY <1>1, <1>4 DEF VerifyStart, AppInv, Others
<1>6. Sound(Settled(w, TRUE, aged)) /\ GapsFollow(pipe, Settled(w, TRUE, aged).pipe)
  BY <1>2, SettledSound
<1>7. repairing' \subseteq DOMAIN pipe.gaps
  BY <1>1 DEF AppInv
<1> QED
  BY <1>1, <1>2, <1>4, <1>5, <1>6, <1>7, BecomesKeeps

\* verify after it: only minutes with an answer leave the list and the book.
LEMMA VerifyEndKept ==
    ASSUME AppInv, NEW look \in Looks, NEW aged \in Ages,
           NEW got \in SUBSET ClosedPending, VerifyEnd(got, look, aged)
    PROVE  AppInv'
<1> DEFINE q == Ascending(VerifyMinute, pipe, got)
           w == Notified(World, q, look, Recovering)
           e == End(w.book, MinuteKeys(got), "RESOLVED")
           b == Failed(e, attempt.incs \intersect MinuteKeys(w.pipe.pending))
           v == [w EXCEPT !.book = b]
<1>1. pipe \in Pipes /\ up /\ up' = up /\ repairing' = repairing /\ attempt' = Idle
      /\ Becomes(Settled(v, TRUE, aged))
  BY DEF AppInv, VerifyEnd
<1>2. got \in SUBSET Minutes
  BY <1>1 DEF ClosedPending, Pipes
<1>3. Grows(pipe, q) /\ q.pending = pipe.pending \ got /\ got \subseteq q.seen
  BY <1>1, <1>2, VerifiedGrows
<1> HIDE DEF q
<1>4. Sound(w) /\ GapsFollow(pipe, w.pipe) /\ w.pipe.pending \subseteq q.pending
  BY <1>1, <1>3, WorldNotified DEF Advances
<1> HIDE DEF w
<1>5. BookSound(e) /\ e.open = w.book.open \ MinuteKeys(got)
  BY <1>4, EndDoes DEF Sound, BookSound
<1> HIDE DEF e
<1>6. BookSound(b) /\ b.open = w.book.open \ MinuteKeys(got)
  BY <1>5, FailedDoes
<1> HIDE DEF b
<1>7. MinuteKeys(w.pipe.pending) \subseteq b.open
  <2>1. \A k \in MinuteKeys(w.pipe.pending) : k.open \notin got
    BY <1>3, <1>4, KeyParts
  <2>2. \A k \in MinuteKeys(got) : k.open \in got
    BY KeyParts
  <2> QED
    BY <1>4, <1>6, <2>1, <2>2 DEF Sound
<1>8. Sound(v) /\ v.pipe = w.pipe
  BY <1>4, <1>6, <1>7, BookChanges
<1> HIDE DEF v
<1>9. Sound(Settled(v, TRUE, aged)) /\ GapsFollow(pipe, Settled(v, TRUE, aged).pipe)
  BY <1>4, <1>8, SettledSound
<1>10. Others'
  <2>1. Idle \in [on : BOOLEAN, incs : SUBSET Keys, asked : SUBSET Minutes]
    BY DEF Idle
  <2> QED
    BY <1>1, <2>1 DEF VerifyEnd, AppInv, Others
<1>11. repairing' \subseteq DOMAIN pipe.gaps
  BY <1>1 DEF AppInv
<1> QED
  BY <1>1, <1>9, <1>10, <1>11, BecomesKeeps

\* repair up to its first await.
LEMMA RepairStartKept ==
    ASSUME AppInv, NEW aged \in Ages, RepairStart(aged)
    PROVE  AppInv'
<1> DEFINE w == [World EXCEPT !.spawned = spawned \ {"repair"}]
           v == [w EXCEPT !.book = OpenOne(w.book, Oldest)]
<1>1. pipe \in Pipes /\ up /\ up' = up /\ attempt' = attempt
  BY DEF RepairStart, AppInv
<1>2. Sound(w) /\ GapsFollow(pipe, w.pipe) /\ w.pipe = pipe
  BY <1>1, WorldWithout
<1>3. w = [World EXCEPT !.spawned = @ \ {"repair"}]
  BY WorldParts
<1>4. Others'
  BY <1>1 DEF RepairStart, AppInv, Others
<1>5. repairing \subseteq DOMAIN pipe.gaps /\ Unresolved(pipe) \subseteq DOMAIN pipe.gaps
  BY DEF AppInv, Unresolved
<1> HIDE DEF w
<1>6. CASE repairing' = repairing /\ (Becomes(w) \/ Becomes(Settled(w, TRUE, aged)))
  <2>1. Sound(Settled(w, TRUE, aged)) /\ GapsFollow(pipe, Settled(w, TRUE, aged).pipe)
    BY <1>2, SettledSound
  <2> QED
    BY <1>1, <1>2, <1>4, <1>5, <1>6, <2>1, BecomesKeeps
<1>7. CASE Unresolved(pipe) # {} /\ Becomes(v) /\ repairing' = Unresolved(pipe)
  <2>1. Oldest \in Keys
    BY <1>1, <1>7, OldestIsGap, GapBars, KeyParts DEF Oldest
  <2>2. BookSound(OpenOne(w.book, Oldest)) /\ OpenOne(w.book, Oldest).open = w.book.open \union {Oldest}
    BY <1>2, <2>1, OpenOneDoes DEF Sound
  <2>3. MinuteKeys(w.pipe.pending) \subseteq OpenOne(w.book, Oldest).open
    BY <1>2, <2>2 DEF Sound
  <2>4. Sound(v) /\ v.pipe = w.pipe
    BY <1>2, <2>2, <2>3, BookChanges
  <2> HIDE DEF v
  <2> QED
    BY <1>1, <1>2, <1>4, <1>5, <1>7, <2>4, BecomesKeeps
<1> QED
  BY <1>3, <1>6, <1>7 DEF RepairStart

\* repair after an await, whether its gap was repaired meanwhile, was served or was not.
LEMMA RepairEndKept ==
    ASSUME AppInv, NEW look \in Looks, NEW aged \in Ages, NEW answer, RepairEnd(answer, look, aged)
    PROVE  AppInv'
<1> DEFINE i     == FirstOf(repairing)
           k     == GapAt(pipe, i)
           late  == answer # "raised" /\ pipe.gaps[i].resolved
           fixed == answer = "bar" /\ ~pipe.gaps[i].resolved /\ k.tf \in Downloadable
           q     == IF fixed THEN Notified(World, Returned(Repair(pipe, k)), look, Recovering) ELSE World
           b     == IF late \/ fixed THEN End(q.book, {k}, "RESOLVED") ELSE Failed(q.book, {k})
           w     == [q EXCEPT !.book = b]
           rest  == repairing \ {i}
           j     == GapAt(pipe, FirstOf(rest))
           v     == [w EXCEPT !.book = OpenOne(w.book, j)]
<1>1. /\ pipe \in Pipes /\ up /\ up' = up /\ attempt' = attempt /\ repairing # {}
      /\ repairing \subseteq DOMAIN pipe.gaps
  BY DEF RepairEnd, AppInv
<1>2. \/ rest # {} /\ repairing' = rest /\ Becomes(v)
      \/ repairing' = {} /\ Becomes(Settled(w, TRUE, aged))
  BY DEF RepairEnd
<1>3. repairing \in SUBSET Nat
  BY <1>1 DEF Pipes
<1>4. i \in repairing /\ i \in DOMAIN pipe.gaps
  BY <1>1, <1>3, FirstIsOne
<1> HIDE DEF i
<1>5. k \in Bars
  BY <1>1, <1>4, GapBars
<1>6. rest # {} => FirstOf(rest) \in rest
  BY <1>3, FirstIsOne
<1>7. rest # {} => j \in Bars
  BY <1>1, <1>6, GapBars
<1> HIDE DEF k, j
<1>8. Sound(q) /\ GapsFollow(pipe, q.pipe)
  <2>1. Sound(World) /\ GapsFollow(pipe, World.pipe)
    BY <1>1, WorldParts, GapsFollowOn DEF AppInv, SameGaps
  <2>2. Advances(pipe, Returned(Repair(pipe, k)))
    BY <1>1, <1>5, RepairAdvances
  <2>3. ASSUME fixed PROVE Sound(q) /\ GapsFollow(pipe, q.pipe)
    <3> DEFINE n == Returned(Repair(pipe, k))
    <3> HIDE DEF n
    <3>1. Advances(pipe, n)
      BY <2>2 DEF n
    <3>2. Sound(Notified(World, n, look, Recovering)) /\ GapsFollow(pipe, Notified(World, n, look, Recovering).pipe)
      BY <1>1, <3>1, WorldNotified
    <3>3. q = Notified(World, n, look, Recovering)
      BY <2>3 DEF n
    <3> HIDE DEF q
    <3> QED
      BY <3>2, <3>3
  <2> HIDE DEF fixed
  <2> QED
    BY <2>1, <2>3
<1> HIDE DEF q, late, fixed
<1>9. BookSound(b) /\ q.book.open \ {k} \subseteq b.open
  <2>1. BookSound(q.book) /\ q.book \in Books /\ q.book.due \subseteq q.book.open
    BY <1>8 DEF Sound, BookSound
  <2> QED
    BY <2>1, EndDoes, FailedDoes
<1> HIDE DEF b
<1>10. MinuteKeys(q.pipe.pending) \subseteq b.open
  <2>1. k \notin MinuteKeys(q.pipe.pending)
    BY <1>5, KeyParts
  <2> QED
    BY <1>8, <1>9, <2>1 DEF Sound
<1>11. Sound(w) /\ w.pipe = q.pipe
  BY <1>8, <1>9, <1>10, BookChanges
<1> HIDE DEF w
<1>12. Others'
  BY <1>1 DEF RepairEnd, AppInv, Others
<1>13. CASE rest # {} /\ repairing' = rest /\ Becomes(v)
  <2>1. j \in Keys
    BY <1>7, <1>13, KeyParts
  <2>2. BookSound(OpenOne(w.book, j)) /\ OpenOne(w.book, j).open = w.book.open \union {j}
    BY <1>11, <2>1, OpenOneDoes DEF Sound
  <2>3. MinuteKeys(w.pipe.pending) \subseteq OpenOne(w.book, j).open
    BY <1>11, <2>2 DEF Sound
  <2>4. Sound(v) /\ v.pipe = w.pipe
    BY <1>11, <2>2, <2>3, BookChanges
  <2>5. repairing' \subseteq DOMAIN pipe.gaps
    BY <1>1, <1>13
  <2> HIDE DEF v
  <2> QED
    BY <1>1, <1>8, <1>11, <1>12, <1>13, <2>4, <2>5, BecomesKeeps
<1>14. CASE repairing' = {} /\ Becomes(Settled(w, TRUE, aged))
  <2>1. Sound(Settled(w, TRUE, aged)) /\ GapsFollow(pipe, Settled(w, TRUE, aged).pipe)
    BY <1>8, <1>11, SettledSound
  <2>2. repairing' \subseteq DOMAIN pipe.gaps
    BY <1>14
  <2> QED
    BY <1>1, <1>12, <1>14, <2>1, <2>2, BecomesKeeps
<1> QED
  BY <1>2, <1>13, <1>14

\* recover up to its await.
LEMMA RecoverStartKept ==
    ASSUME AppInv, NEW aged \in Ages, RecoverStart(aged)
    PROVE  AppInv'
<1>1. pipe \in Pipes /\ up /\ up' = up /\ attempt' = attempt /\ repairing' = repairing /\ crashes' = crashes
  BY DEF RecoverStart, AppInv, unchangedApp
<1>2. CASE BeginRecovery /\ health' = "RECOVERING_GAP" /\ UNCHANGED <<book, spawned>>
  BY <1>1, <1>2, FeedKept DEF Healths
<1>3. CASE SkipRecovery /\ UNCHANGED <<book, health, spawned>>
  <2>1. health' \in Healths
    BY <1>1, <1>3, WorldParts DEF AppInv, Sound, Worlds
  <2> QED
    BY <1>1, <1>3, <2>1, FeedKept
<1>4. CASE /\ SkipRecovery
           /\ LET w == Settled(World, TRUE, aged)
              IN  book' = w.book /\ health' = w.health /\ UNCHANGED spawned
  <2> DEFINE s == Synced(World)
             w == Settled(World, TRUE, aged)
  <2>1. Sound(World) /\ World.pipe = pipe /\ World.spawned = spawned
    BY <1>1, WorldParts DEF AppInv
  <2>2. Sound(w) /\ w.pipe = pipe
    BY <2>1, SettledSound
  <2>3. w.spawned = spawned
    <3>1. World \in Worlds
      BY <2>1 DEF Sound
    <3>2. s \in Worlds /\ s.spawned = spawned
      <4>1. s \in Worlds
        BY <2>1, SyncedSound DEF Sound
      <4>2. \A b : [World EXCEPT !.book = b].spawned = spawned
        BY <2>1, <3>1 DEF Worlds
      <4> QED
        BY <4>1, <4>2 DEF Synced
    <3>3. \A h : [s EXCEPT !.health = h].spawned = s.spawned
      <4> HIDE DEF s
      <4> QED
        BY <3>2 DEF Worlds
    <3> QED
      BY <3>2, <3>3 DEF Settled
  <2> HIDE DEF w
  <2>4. book' = w.book /\ health' = w.health /\ spawned' = w.spawned
    BY <1>4, <2>3 DEF w
  <2>5. pipe' = pipe /\ Others'
    BY <1>1, <1>4 DEF SkipRecovery, AppInv, Others
  <2>6. World' = w /\ w.pipe.calls = <<>>
    <3>1. w = [pipe |-> w.pipe, book |-> w.book, health |-> w.health, spawned |-> w.spawned]
      BY <2>2 DEF Sound, Worlds
    <3>2. pipe.calls = <<>>
      BY DEF AppInv
    <3> QED
      BY <2>2, <2>4, <2>5, <3>1, <3>2 DEF World
  <2>7. GapsFollow(pipe, w.pipe)
    BY <1>1, <2>2, GapsFollowOn DEF SameGaps
  <2>8. repairing' \subseteq DOMAIN pipe.gaps
    BY <1>1 DEF AppInv
  <2> QED
    BY <1>1, <2>2, <2>5, <2>6, <2>7, <2>8, WorldKeeps
<1> QED
  BY <1>2, <1>3, <1>4 DEF RecoverStart

\* recover after it: minutes fed, minutes marked, ticks replayed.
LEMMA RecoverEndKept ==
    ASSUME AppInv, NEW look \in Looks, NEW aged \in Ages, NEW answer,
           NEW got \in SUBSET Window, RecoverEnd(got, answer, look, aged)
    PROVE  AppInv'
<1> DEFINE fed    == Ascending(RecoverMinute, pipe, got)
           marked == IF answer = "raised" THEN fed ELSE Ascending(MarkPending, fed, Window \ got)
           ok     == answer = "bars" /\ Window \ got \subseteq fed.seen
           w      == Notified(World, marked, look, TRUE)
           z      == Ascending(AddTick, w.pipe, buffered)
           v      == Notified(w, z, look, FALSE)
<1>1. pipe \in Pipes /\ up /\ up' = up /\ attempt' = attempt /\ repairing' = repairing
      /\ Becomes(Settled(v, ok, aged)) /\ buffered \in SUBSET Minutes
  BY DEF RecoverEnd, AppInv, Others, unchangedApp
<1>2. got \in SUBSET Minutes /\ Window \ got \in SUBSET Minutes
  BY WindowMinutes, WorldParts
<1>3. Advances(pipe, fed) /\ Advances(pipe, Ascending(MarkPending, fed, Window \ got))
  BY <1>1, <1>2, RecoveredDoes
<1>4. Advances(pipe, marked)
  BY <1>3
<1> HIDE DEF fed, marked, ok
<1>5. Sound(w) /\ GapsFollow(pipe, w.pipe)
  BY <1>1, <1>4, WorldNotified
<1> HIDE DEF w
<1>6. w.pipe \in Pipes /\ Suspends(w.pipe)
  BY <1>5 DEF Sound, Worlds
<1>7. z \in Pipes /\ GapsFollow(w.pipe, z) /\ Suspends(z)
  BY <1>1, <1>6, TicksAdvance DEF Advances, Grows
<1> HIDE DEF z
<1>8. Sound(v) /\ GapsFollow(w.pipe, v.pipe)
  BY <1>5, <1>7, NotifiedSound
<1> HIDE DEF v
<1>9. GapsFollow(pipe, v.pipe)
  <2>1. v.pipe \in Pipes
    BY <1>8 DEF Sound, Worlds
  <2> QED
    BY <1>1, <1>5, <1>6, <1>8, <2>1, GapsFollowOn
<1>10. Sound(Settled(v, ok, aged)) /\ GapsFollow(pipe, Settled(v, ok, aged).pipe)
  BY <1>8, <1>9, SettledSound
<1>11. Others'
  BY <1>1 DEF RecoverEnd, AppInv, Others, unchangedApp
<1>12. repairing' \subseteq DOMAIN pipe.gaps
  BY <1>1 DEF AppInv
<1> QED
  BY <1>1, <1>10, <1>11, <1>12, BecomesKeeps

\* What changes the book or the health alone.
LEMMA StaleKept == ASSUME AppInv, StaleCheck PROVE AppInv'
<1> DEFINE w == [World EXCEPT !.health = "STALE"]
<1>1. Sound(World) /\ World.pipe = pipe /\ World.book = book /\ World.spawned = spawned /\ pipe \in Pipes
      /\ pipe.calls = <<>> /\ up
  BY WorldParts DEF AppInv, StaleCheck
<1>2. w \in Worlds /\ w.pipe = pipe /\ w.book = book /\ w.health = "STALE"
  BY <1>1 DEF Sound, Worlds, Healths
<1>3. World' = w
  BY DEF StaleCheck, World, vars
<1> HIDE DEF w
<1>4. Sound(w)
  BY <1>1, <1>2 DEF Sound
<1>5. Others'
  BY DEF StaleCheck, unchangedApp, vars, AppInv, Others
<1>6. GapsFollow(pipe, w.pipe)
  BY <1>1, <1>2, GapsFollowOn DEF SameGaps
<1>7. up' = up /\ pipe' = pipe /\ repairing' \subseteq DOMAIN pipe.gaps
  BY DEF StaleCheck, unchangedApp, vars, AppInv
<1> QED
  BY <1>1, <1>2, <1>3, <1>4, <1>5, <1>6, <1>7, WorldKeeps

\* An incident is due again.
LEMMA RetryKept == ASSUME AppInv, NEW k \in Keys, RetryComesDue(k) PROVE AppInv'
<1> DEFINE b == [book EXCEPT !.due = @ \union {k}]
           w == [World EXCEPT !.book = b]
<1>1. Sound(World) /\ World.pipe = pipe /\ World.book = book /\ pipe \in Pipes /\ pipe.calls = <<>> /\ up
      /\ k \in book.open /\ BookSound(book)
  BY WorldParts DEF AppInv, RetryComesDue, Sound
<1>2. book \in Books /\ book.due \subseteq book.open /\ book.open = Stored(book)
  BY <1>1 DEF BookSound
<1>3. b \in Books /\ b.open = book.open /\ b.due = book.due \union {k} /\ b.rows = book.rows
  BY <1>2 DEF Books
<1>4. World' = w
  BY SMTT(20) DEF RetryComesDue, World, vars
<1>5. book' = b
  BY DEF RetryComesDue
<1> HIDE DEF b
<1>6. BookSound(b)
  BY <1>1, <1>2, <1>3 DEF BookSound, Stored
<1>7. Sound(w) /\ w.pipe = pipe
  <2>1. MinuteKeys(World.pipe.pending) \subseteq b.open
    BY <1>1, <1>3 DEF Sound
  <2> QED
    BY <1>1, <1>6, <2>1, BookChanges
<1> HIDE DEF w
<1>8. Others'
  BY DEF RetryComesDue, unchangedApp, vars, AppInv, Others
<1>9. GapsFollow(pipe, w.pipe)
  BY <1>1, <1>7, GapsFollowOn DEF SameGaps
<1>10. up' = up /\ pipe' = pipe /\ repairing' \subseteq DOMAIN pipe.gaps
  BY DEF RetryComesDue, unchangedApp, vars, AppInv
<1> QED
  BY <1>1, <1>4, <1>7, <1>8, <1>9, <1>10, WorldKeeps

\* The feed's own steps.
LEMMA FeedStepKept ==
    ASSUME AppInv, OnStall \/ OnDisconnect \/ OnConnect \/ MinuteEnds
    PROVE  AppInv'
<1>1. up => health \in Healths /\ "STALE" \in Healths
  BY WorldParts DEF AppInv, Sound, Worlds, Healths
<1>2. CASE OnStall
  <2>1. health' \in Healths /\ (health' = health \/ health' # "LIVE")
    BY <1>1, <1>2 DEF OnStall
  <2> QED
    BY <1>2, <2>1, FeedKept DEF OnStall, unchangedApp
<1>3. CASE OnDisconnect
  BY <1>1, <1>3, FeedKept DEF OnDisconnect, appVars
<1>4. CASE OnConnect
  BY <1>1, <1>4, FeedKept DEF OnConnect, appVars
<1>5. CASE MinuteEnds /\ up
  BY <1>1, <1>5, FeedKept DEF MinuteEnds, appVars
<1>6. CASE MinuteEnds /\ ~up
  <2>1. now' \in Minutes
    BY <1>6, BoundsAssumption DEF MinuteEnds, AppInv, Others, Minutes
  <2>2. Others'
    BY <1>6, <2>1 DEF MinuteEnds, appVars, AppInv, Others
  <2>3. pipe' = pipe /\ book' = book /\ health' = health /\ spawned' = spawned /\ repairing' = repairing /\ up' = up
    BY <1>6 DEF MinuteEnds, appVars
  <2> QED
    BY <1>6, <2>2, <2>3 DEF AppInv
<1> QED
  BY <1>2, <1>3, <1>4, <1>5, <1>6

-----------------------------------------------------------------------------
(* The process *)

\* A pipeline built at startup.
LEMMA BareNewPipe == NewPipe \in Pipes /\ NewPipe.calls = <<>> /\ Suspends(NewPipe)
BY NewPipeIs, FreshIs

\* A crash leaves the rows.
LEMMA CrashKept == ASSUME AppInv, Crash PROVE AppInv'
<1> DEFINE b == [book EXCEPT !.open = {}, !.due = {}]
<1>1. book \in Books
  BY WorldParts DEF AppInv, Crash, Sound, BookSound
<1>2. b \in Books /\ b.open = {} /\ b.due = {}
  BY <1>1 DEF Books
<1>3. book' = b /\ pipe' = NewPipe /\ up' = FALSE /\ health' = "WARMING" /\ spawned' = {} /\ repairing' = {}
  BY DEF Crash
<1> HIDE DEF b
<1>4. Others'
  <2>1. Idle \in [on : BOOLEAN, incs : SUBSET Keys, asked : SUBSET Minutes]
    BY DEF Idle
  <2>2. crashes' \in 0..MaxCrashes
    BY DayAssumption DEF Crash, AppInv, Others
  <2> QED
    BY <2>1, <2>2 DEF Crash, AppInv, Others
<1>5. pipe' \in Pipes /\ pipe'.calls = <<>>
  BY <1>3, BareNewPipe
<1> QED
  BY <1>2, <1>3, <1>4, <1>5 DEF AppInv

\* There are finitely many bars.
LEMMA BarsFinite == IsFiniteSet(Bars)
<1>1. IsFiniteSet(Timeframes)
  <2>1. DOMAIN Higher = 1..Len(Higher) /\ Len(Higher) \in Nat
    BY TimeframesAssumption
  <2>2. IsFiniteSet(DOMAIN Higher)
    BY <2>1, FS_Interval
  <2>3. IsFiniteSet({Higher[i] : i \in DOMAIN Higher})
    BY <2>2, FiniteImage
  <2>4. IsFiniteSet({Primary})
    BY FS_Singleton
  <2> QED
    BY <2>3, <2>4, FS_Union DEF Timeframes
<1>2. IsFiniteSet(Minutes)
  BY BoundsAssumption, FS_Interval DEF Minutes
<1>3. IsFiniteSet(Timeframes \X Minutes)
  BY <1>1, <1>2, FS_Product
<1> DEFINE f == [x \in Timeframes \X Minutes |-> Bar(x[1], x[2])]
           T == {f[x] : x \in Timeframes \X Minutes}
<1>4. IsFiniteSet(T)
  <2> HIDE DEF f
  <2> QED
    BY <1>3, FiniteImage
<1>5. Bars \subseteq T
  <2> SUFFICES ASSUME NEW tf \in Timeframes, NEW o \in Minutes PROVE Bar(tf, o) \in T
    BY DEF Bars
  <2>1. <<tf, o>> \in Timeframes \X Minutes /\ f[<<tf, o>>] = Bar(tf, o)
    OBVIOUS
  <2> QED
    BY <2>1
<1> HIDE DEF T
<1> QED
  BY <1>4, <1>5, FS_Subset

-----------------------------------------------------------------------------
(* Bars put in order *)

Taken == [left : SUBSET Bars, bars : Seq(Bars)]
Took(t) == [left |-> t.left \ {Earliest(t.left)}, bars |-> Append(t.bars, Earliest(t.left))]
First(S) == [left |-> S, bars |-> <<>>]

\* f takes bars out of S one at a time, as long as there is one.
TakesOut(f, S) ==
    /\ f[0] = First(S)
    /\ \A n \in 1..Cardinality(S) : f[n-1] \in Taken /\ f[n-1].left # {} => f[n] = Took(f[n-1])

\* One bar taken out leaves one bar less.
LEMMA TookIs ==
    ASSUME NEW t \in Taken, t.left # {}
    PROVE  Took(t) \in Taken /\ Cardinality(Took(t).left) = Cardinality(t.left) - 1
<1>1. t.left \in SUBSET Bars /\ t.bars \in Seq(Bars)
  BY DEF Taken
<1>2. Earliest(t.left) \in t.left /\ Earliest(t.left) \in Bars
  BY <1>1, EarliestIsOne
<1>3. IsFiniteSet(t.left)
  BY <1>1, BarsFinite, FS_Subset
<1>4. Cardinality(t.left \ {Earliest(t.left)}) = Cardinality(t.left) - 1
  BY <1>2, <1>3, FS_RemoveElement
<1>5. t.left \ {Earliest(t.left)} \in SUBSET Bars /\ Append(t.bars, Earliest(t.left)) \in Seq(Bars)
  BY <1>1, <1>2
<1> QED
  BY <1>4, <1>5 DEF Took, Taken

\* So none of the steps takes a bar from an empty set.
LEMMA TakenCounts ==
    ASSUME NEW S \in SUBSET Bars, NEW f, TakesOut(f, S)
    PROVE  /\ Cardinality(S) \in Nat
           /\ \A n \in 0..Cardinality(S) : f[n] \in Taken /\ Cardinality(f[n].left) = Cardinality(S) - n
<1> DEFINE c == Cardinality(S)
           T == {n \in 0..c : f[n] \in Taken /\ Cardinality(f[n].left) = c - n}
<1>1. c \in Nat /\ IsFiniteSet(S)
  BY BarsFinite, FS_Subset, FS_CardinalityType
<1>2. 0 \in T
  <2>1. First(S) \in Taken /\ First(S).left = S
    BY DEF First, Taken
  <2> QED
    BY <1>1, <2>1 DEF TakesOut
<1>3. ASSUME NEW n \in 0..(c-1), n \in T PROVE n + 1 \in T
  <2>1. f[n] \in Taken /\ Cardinality(f[n].left) = c - n /\ n + 1 \in 1..c /\ (n + 1) - 1 = n /\ n + 1 \in 0..c
    BY <1>1, <1>3
  <2>2. f[n].left # {}
    <3>1. c - n # 0
      BY <1>1
    <3> QED
      BY <2>1, <3>1, FS_EmptySet
  <2>3. f[n+1] = Took(f[n])
    BY <2>1, <2>2 DEF TakesOut
  <2>4. Took(f[n]) \in Taken /\ Cardinality(Took(f[n]).left) = Cardinality(f[n].left) - 1
    BY <2>1, <2>2, TookIs
  <2>5. (c - n) - 1 = c - (n + 1)
    BY <1>1
  <2> QED
    BY <2>1, <2>3, <2>4, <2>5
<1>4. \A n \in 0..c : n \in T
  <2>1. Climbs(T, 0, c)
    BY <1>3 DEF Climbs
  <2> HIDE DEF T, c
  <2> QED
    BY <1>1, <1>2, <2>1, Climb
<1> QED
  BY <1>1, <1>4

\* There is a function that takes the bars out one at a time.
LEMMA TakenExists ==
    ASSUME NEW S \in SUBSET Bars
    PROVE  \E f : f = [n \in 0..Cardinality(S) |-> IF n = 0 THEN First(S) ELSE Took(f[n-1])]
<1> DEFINE c == Cardinality(S)
           step == [n \in 1..c |-> [t \in Taken |-> IF t.left = {} THEN t ELSE Took(t)]]
<1>1. c \in Nat
  BY BarsFinite, FS_Subset, FS_CardinalityType
<1>2. First(S) \in Taken
  BY DEF First, Taken
<1>3. step \in [1..c -> [Taken -> Taken]]
  <2> SUFFICES ASSUME NEW t \in Taken PROVE (IF t.left = {} THEN t ELSE Took(t)) \in Taken
    OBVIOUS
  <2> QED
    BY TookIs
<1>4. \A n \in 1..c, t \in Taken : t.left # {} => step[n][t] = Took(t)
  OBVIOUS
<1> HIDE DEF step
<1>5. PICK f \in [0..c -> Taken] : Takes(f, c, First(S), step)
  <2> HIDE DEF c
  <2> QED
    BY <1>1, <1>2, <1>3, StepsExist
<1>6. TakesOut(f, S)
  BY <1>4, <1>5 DEF Takes, TakesOut
<1>7. \A n \in 0..c : Cardinality(f[n].left) = c - n
  BY <1>6, TakenCounts
<1>8. ASSUME NEW n \in 1..c PROVE f[n] = Took(f[n-1])
  <2>1. n - 1 \in 0..c /\ c - (n - 1) # 0
    BY <1>1
  <2>2. f[n-1] \in Taken /\ f[n-1].left # {}
    BY <1>5, <1>7, <2>1, FS_EmptySet
  <2> QED
    BY <1>6, <2>2 DEF TakesOut
<1>9. f[0] = First(S)
  BY <1>5 DEF Takes
<1>10. \A n \in 0..c : f[n] = IF n = 0 THEN First(S) ELSE Took(f[n-1])
  BY <1>1, <1>8, <1>9
<1> QED
  BY <1>5, <1>10

\* Bars put in order are a sequence of bars.
LEMMA ChronologicalIs ==
    ASSUME NEW S \in SUBSET Bars
    PROVE  Chronological(S) \in Seq(Bars)
<1> DEFINE c == Cardinality(S)
           Made(g) == g = [n \in 0..c |-> IF n = 0 THEN First(S) ELSE Took(g[n-1])]
           f == CHOOSE g : Made(g)
<1>1. \E g : Made(g)
  BY TakenExists
<1>2. Made(f)
  BY <1>1
<1>3. Chronological(S) = f[c].bars
  BY DEF Chronological, First, Took
<1> HIDE DEF f
<1>4. c \in Nat
  BY BarsFinite, FS_Subset, FS_CardinalityType
<1>5. TakesOut(f, S)
  <2>1. f[0] = First(S)
    BY <1>2, <1>4
  <2>2. \A n \in 1..c : f[n] = Took(f[n-1])
    BY <1>2, <1>4
  <2> QED
    BY <2>1, <2>2 DEF TakesOut
<1>6. f[c] \in Taken
  BY <1>4, <1>5, TakenCounts
<1> QED
  BY <1>3, <1>6 DEF Taken

\* The pipeline a restart builds.
Restored(P, G, e, h) ==
    [NewPipe EXCEPT !.pending = P, !.gaps = G, !.suspended = (G # <<>>),
                    !.lastM1 = e, !.lastClosed[Primary] = h, !.agg[Primary].emitted = h]

\* It is sound with any minutes pending and any gaps unresolved.
LEMMA RestoredIs ==
    ASSUME NEW P \in SUBSET Minutes, NEW G \in Seq(GapRecords), \A i \in DOMAIN G : ~G[i].resolved,
           NEW e \in Opt, NEW h \in Opt, NEW p, p = Restored(P, G, e, h)
    PROVE  p \in Pipes /\ p.calls = <<>> /\ Suspends(p) /\ p.pending = P
<1> DEFINE a == [bucket |-> NoBucket, emitted |-> None, gapBuckets |-> {}]
           A == [tf \in Timeframes |-> IF tf = Primary THEN [a EXCEPT !.emitted = h] ELSE a]
           L == [tf \in Timeframes |-> IF tf = Primary THEN h ELSE None]
           s == G # <<>>
<1>1. a \in Aggregators /\ [a EXCEPT !.emitted = h] \in Aggregators
  BY DEF Aggregators, Buckets, NoBucket, Opt
<1>2. A \in [Timeframes -> Aggregators]
  <2> HIDE DEF a
  <2> QED
    BY <1>1
<1>3. L \in [Timeframes -> Opt]
  BY DEF Opt
<1>4. NewPipe.agg = [tf \in Timeframes |-> a] /\ NewPipe.lastClosed = [tf \in Timeframes |-> None]
  BY DEF NewPipe
<1>5. Primary \in Timeframes
  BY DEF Timeframes
<1>6. [NewPipe.agg EXCEPT ![Primary].emitted = h] = A
  <2> HIDE DEF a
  <2> QED
    BY <1>4, <1>5
<1>7. [NewPipe.lastClosed EXCEPT ![Primary] = h] = L
  BY <1>4, <1>5
<1>8. p = [NewPipe EXCEPT !.pending = P, !.gaps = G, !.suspended = s, !.lastM1 = e,
                          !.lastClosed = [NewPipe.lastClosed EXCEPT ![Primary] = h],
                          !.agg = [NewPipe.agg EXCEPT ![Primary].emitted = h]]
  <2>1. NewPipe \in Pipes
    BY BareNewPipe
  <2> QED
    BY <2>1 DEF Pipes, Restored
<1>9. s \in BOOLEAN
  OBVIOUS
<1> HIDE DEF A, L, s, a
<1>10. /\ p \in Pipes /\ p.calls = NewPipe.calls /\ p.pending = P /\ p.gaps = G /\ p.suspended = s
  <2>1. NewPipe \in Pipes
    BY BareNewPipe
  <2>2. p = [NewPipe EXCEPT !.pending = P, !.gaps = G, !.suspended = s, !.lastM1 = e,
                            !.lastClosed = L, !.agg = A]
    BY <1>6, <1>7, <1>8
  <2> DEFINE u == [NewPipe EXCEPT !.pending = P, !.gaps = G, !.suspended = s]
  <2>3. u \in Pipes /\ u.calls = NewPipe.calls /\ u.pending = P /\ u.gaps = G /\ u.suspended = s
    BY <1>9, <2>1 DEF Pipes
  <2>4. p = [u EXCEPT !.lastM1 = e, !.lastClosed = L, !.agg = A]
    BY <2>1, <2>2 DEF Pipes
  <2> HIDE DEF u
  <2> QED
    BY <1>2, <1>3, <2>3, <2>4 DEF Pipes
<1>11. Unresolved(p) = DOMAIN G
  BY <1>10 DEF Unresolved
<1>12. DOMAIN G = 1..Len(G) /\ (G = <<>> <=> Len(G) = 0) /\ Len(G) \in Nat
  BY EmptySeq
<1>13. s <=> Unresolved(p) # {}
  <2>1. DOMAIN G # {} <=> Len(G) # 0
    BY <1>12
  <2> QED
    BY <1>11, <1>12, <2>1 DEF s
<1>14. Suspends(p)
  BY <1>10, <1>13 DEF Suspends
<1> QED
  BY <1>10, <1>14, BareNewPipe

\* A restart finds every incident stored as open and abandons the minutes of a day that is over.
LEMMA RestartKept == ASSUME AppInv, NEW h \in Minutes \union {None}, Restart(h) PROVE AppInv'
<1> DEFINE stored == {k \in Keys : book.rows[k] = "OPEN"}
           over   == {k \in stored : IsMinute(k) /\ ~Relevant(k)}
           kept   == {k \in stored \ over : IsMinute(k)}
           gaps   == Chronological({k \in stored : ~IsMinute(k)})
           end    == IF h = None THEN None ELSE h + Size[Primary] - 1
           b      == [book EXCEPT !.open = stored, !.due = stored]
           c      == End(b, over, "ABANDONED")
           G      == [i \in DOMAIN gaps |-> [tf |-> gaps[i].tf, open |-> gaps[i].open, resolved |-> FALSE]]
           P      == {k.open : k \in kept}
<1>1. /\ book \in Books /\ health = "WARMING" /\ spawned = {} /\ repairing = {} /\ now \in Minutes
  BY DEF Restart, AppInv, Others
<1>2. /\ up' = TRUE /\ health' = health /\ spawned' = spawned /\ repairing' = repairing
      /\ book' = c /\ (h # None => end < now)
      /\ pipe' = [NewPipe EXCEPT !.pending = P, !.gaps = G, !.suspended = (gaps # <<>>),
                                 !.lastM1 = end, !.lastClosed[Primary] = h, !.agg[Primary].emitted = h]
  BY DEF Restart
<1>3. stored \in SUBSET Keys /\ stored = Stored(book)
  BY DEF Stored
<1>4. BookSound(b) /\ b.open = stored
  <2> HIDE DEF stored
  <2>1. b \in Books /\ b.open = stored /\ b.due = stored /\ b.rows = book.rows
    BY <1>1, <1>3 DEF Books
  <2> HIDE DEF b
  <2> QED
    BY <1>3, <2>1 DEF BookSound, Stored
<1>5. {k \in stored : ~IsMinute(k)} \in SUBSET Bars
  BY <1>3 DEF Keys, IsMinute, Bars, Bar
<1>6. \A k \in kept : k \in stored \ over /\ k = Bar(M1, k.open) /\ k.open \in Minutes
  BY <1>3 DEF Keys, IsMinute, Bar
<1>7. gaps \in Seq(Bars)
  BY <1>5, ChronologicalIs
<1>8. end \in Opt
  <2>1. Size[Primary] \in Nat \ {0} /\ LastMinute \in Nat
    BY TimeframesAssumption, BoundsAssumption DEF Timeframes
  <2> QED
    BY <1>1, <1>2, <2>1 DEF Opt, Minutes, None
<1> HIDE DEF gaps, end, b, stored, over, kept
<1>9. BookSound(c) /\ c.open = stored \ over
  <2>1. b \in Books /\ b.due \subseteq b.open
    BY <1>4 DEF BookSound
  <2> QED
    BY <1>4, <2>1, EndDoes
<1> HIDE DEF c
<1>10. G \in Seq(GapRecords) /\ (\A i \in DOMAIN G : ~G[i].resolved) /\ (gaps # <<>> <=> G # <<>>)
  <2>1. DOMAIN gaps = 1..Len(gaps) /\ Len(gaps) \in Nat /\ \A i \in 1..Len(gaps) : gaps[i] \in Bars
    BY <1>7
  <2>2. \A i \in 1..Len(gaps) : [tf |-> gaps[i].tf, open |-> gaps[i].open, resolved |-> FALSE] \in GapRecords
    BY <2>1, BarParts DEF GapRecords
  <2>3. G \in [1..Len(gaps) -> GapRecords]
    BY <2>1, <2>2
  <2>4. G \in Seq(GapRecords) /\ Len(G) = Len(gaps)
    BY <2>1, <2>3, SeqDef
  <2>5. \A i \in DOMAIN G : ~G[i].resolved
    BY <2>1
  <2> HIDE DEF G
  <2> QED
    BY <1>7, <2>4, <2>5, EmptySeq
<1>11. P \in SUBSET Minutes
  BY <1>6
<1>12. MinuteKeys(P) \subseteq stored \ over
  BY <1>6 DEF MinuteKeys
<1> HIDE DEF G, P
<1> DEFINE p == pipe'
<1>13. p \in Pipes /\ p.calls = <<>> /\ Suspends(p) /\ p.pending = P
  <2>1. p = Restored(P, G, end, h)
    BY <1>2, <1>10 DEF Restored
  <2>2. h \in Opt
    BY DEF Opt
  <2> HIDE DEF p
  <2> QED
    BY <1>8, <1>10, <1>11, <2>1, <2>2, RestoredIs
<1>14. Sound([pipe |-> p, book |-> c, health |-> "WARMING", spawned |-> {}])
  <2> DEFINE w == [pipe |-> p, book |-> c, health |-> "WARMING", spawned |-> {}]
  <2> HIDE DEF p
  <2>1. w \in Worlds /\ w.pipe = p /\ w.book = c /\ w.health = "WARMING"
    BY <1>9, <1>13 DEF Worlds, BookSound, Healths
  <2> HIDE DEF w
  <2> QED
    BY <1>9, <1>12, <1>13, <2>1 DEF Sound, w
<1>15. World' = [pipe |-> p, book |-> c, health |-> "WARMING", spawned |-> {}]
  BY <1>1, <1>2 DEF World
<1>16. Sound(World)'
  BY <1>14, <1>15 DEF Sound
<1>17. Others'
  BY DEF Restart, AppInv, Others
<1> QED
  BY <1>1, <1>2, <1>13, <1>16, <1>17 DEF AppInv

-----------------------------------------------------------------------------
(* Every behaviour of the application *)

\* The invariant holds at first,
LEMMA AppInitial == CInit => AppInv
<1> SUFFICES ASSUME CInit PROVE AppInv
  OBVIOUS
<1>1. pipe \in Pipes /\ pipe.calls = <<>> /\ Suspends(pipe) /\ pipe.pending = {} /\ pipe.gaps = <<>>
  <2>1. pipe = Fresh(0)
    BY NewPipeIs DEF CInit, Init
  <2> QED
    BY <2>1, NewPipeIs, FreshIs DEF Fresh
<1>2. BookSound(book) /\ book.open = {}
  <2> DEFINE rows == [k \in Keys |-> "none"]
             ended == [k \in Keys |-> 0]
  <2>1. rows \in [Keys -> Statuses] /\ \A k \in Keys : rows[k] # "OPEN"
    BY DEF Statuses
  <2>2. ended \in [Keys -> 0..2]
    OBVIOUS
  <2>3. book = [open |-> {}, due |-> {}, rows |-> rows, ended |-> ended]
    BY DEF CInit
  <2> HIDE DEF rows, ended
  <2> QED
    BY <2>1, <2>2, <2>3 DEF BookSound, Books, Stored
<1>3. Others
  <2>1. Idle \in [on : BOOLEAN, incs : SUBSET Keys, asked : SUBSET Minutes]
    BY DEF Idle
  <2>2. 0 \in Minutes /\ 0 \in 0..MaxFaults /\ 0 \in 0..MaxCrashes
    BY BoundsAssumption, FaultsAssumption, DayAssumption DEF Minutes
  <2> QED
    BY <2>1, <2>2 DEF CInit, Init, Others
<1>4. Sound(World)
  <2>1. World \in Worlds /\ World.pipe = pipe /\ World.book = book
    BY <1>1, <1>2 DEF CInit, World, Worlds, Healths, BookSound
  <2>2. Unresolved(pipe) = {}
    BY <1>1 DEF Unresolved
  <2>3. MinuteKeys(pipe.pending) = {}
    BY <1>1 DEF MinuteKeys
  <2> HIDE DEF World
  <2> QED
    BY <1>1, <1>2, <2>1, <2>2, <2>3 DEF Sound
<1>5. up = TRUE /\ repairing = {}
  BY DEF CInit
<1> QED
  BY <1>1, <1>3, <1>4, <1>5 DEF AppInv

\* is kept by every step of the application,
LEMMA AppStep == AppInv /\ [CNext]_contVars => AppInv'
<1> SUFFICES ASSUME AppInv, [CNext]_contVars PROVE AppInv'
  OBVIOUS
<1>1. ASSUME NEW look \in Looks, NEW aged \in Ages, OnTick(look, aged) PROVE AppInv'
  BY <1>1, TickKept
<1>2. ASSUME NEW look \in Looks, NEW aged \in Ages, NEW got \in SUBSET ClosedPending, VerifyEnd(got, look, aged)
      PROVE  AppInv'
  BY <1>2, VerifyEndKept
<1>3. ASSUME NEW look \in Looks, NEW aged \in Ages, NEW answer, RepairEnd(answer, look, aged) PROVE AppInv'
  BY <1>3, RepairEndKept
<1>4. ASSUME NEW look \in Looks, NEW aged \in Ages, NEW got \in SUBSET Window, NEW answer,
             RecoverEnd(got, answer, look, aged)
      PROVE  AppInv'
  BY <1>4, RecoverEndKept
<1>5. ASSUME NEW aged \in Ages, VerifyStart(aged) \/ RepairStart(aged) \/ RecoverStart(aged) PROVE AppInv'
  BY <1>5, VerifyStartKept, RepairStartKept, RecoverStartKept
<1>6. ASSUME NEW look \in Looks, FlushLoop(look) PROVE AppInv'
  BY <1>6, FlushKept
<1>7. CASE OnStall \/ OnDisconnect \/ OnConnect \/ MinuteEnds
  BY <1>7, FeedStepKept
<1>8. CASE StaleCheck
  BY <1>8, StaleKept
<1>9. ASSUME NEW k \in Keys, RetryComesDue(k) PROVE AppInv'
  BY <1>9, RetryKept
<1>10. CASE Crash
  BY <1>10, CrashKept
<1>11. ASSUME NEW h \in Minutes \union {None}, Restart(h) PROVE AppInv'
  BY <1>11, RestartKept
<1>12. CASE UNCHANGED contVars
  <2>1. World' = World
    BY <1>12 DEF contVars, vars, appVars, World
  <2>2. Others'
    BY <1>12 DEF contVars, vars, appVars, AppInv, Others
  <2> QED
    BY <1>12, <2>1, <2>2 DEF contVars, vars, appVars, AppInv, Sound
<1>13. CASE CNext
  BY <1>1, <1>2, <1>3, <1>4, <1>5, <1>6, <1>7, <1>8, <1>9, <1>10, <1>11, <1>13 DEF CNext
<1> QED
  BY <1>12, <1>13

\* and so holds in every behaviour.
LEMMA AppHolds == CSpec => []AppInv
BY AppInitial, AppStep, PTL DEF CSpec

\* In every behaviour with crashes and restarts, a minute that waits for the broker has an
\* open incident while the process runs (on_pending, _continuity_tick, _sync_incidents,
\* verify, recover, _restore_incidents): whatever the answers and their order, the
\* scheduler has a reason to ask again.
THEOREM WaitingIsTracked == CSpec => []PendingIsTracked
<1>1. AppInv => PendingIsTracked
  BY WorldParts DEF AppInv, Sound, PendingIsTracked
<1> QED
  BY <1>1, AppHolds, PTL

\* In every behaviour the incidents held in memory are those stored as open while the
\* process runs (IncidentTracker.open, resolve, abandon, load), so a restart finds every one
\* of them, wherever the crash came.
THEOREM NothingIsLost == CSpec => []StoredAsHeld
<1>1. AppInv => StoredAsHeld
  BY WorldParts DEF AppInv, Sound, BookSound, Stored, StoredAsHeld
<1> QED
  BY <1>1, AppHolds, PTL

\* In every behaviour a symbol that is LIVE has no unresolved gap, waits for no minute
\* and delivers its bars: _settle_symbol_state, on_pending and on_gap leave no order of
\* answers in which it looks healthy and is not.
THEOREM LiveIsContinuous == CSpec => []LiveMeansContinuous
<1>1. AppInv => LiveMeansContinuous
  <2> SUFFICES ASSUME AppInv, health = "LIVE" PROVE ContinuityOk(pipe)
    BY DEF LiveMeansContinuous
  <2>1. up
    BY DEF AppInv
  <2>2. Unresolved(pipe) = {} /\ pipe.pending = {} /\ Suspends(pipe)
    BY <2>1, WorldParts DEF AppInv, Sound
  <2>3. pipe.calls = <<>> /\ pipe.suspended \in BOOLEAN
    BY DEF AppInv, Pipes
  <2>4. ~pipe.suspended
    BY <2>2, <2>3, SuspendedNow
  <2> QED
    BY <2>2, <2>4 DEF ContinuityOk
<1> QED
  BY <1>1, AppHolds, PTL

\* In every behaviour the application keeps its types: what is due is open, a repair in
\* flight holds places of gaps that exist.
THEOREM ApplicationTyped == CSpec => []AppTypeOK
<1>1. AppInv => AppTypeOK
  <2> SUFFICES ASSUME AppInv PROVE AppTypeOK
    OBVIOUS
  <2>1. TypeOK
    BY WorldParts, TypedIsTypeOK
  <2>2. book \in Books /\ book.due \subseteq book.open
    BY WorldParts DEF AppInv, Sound, BookSound
  <2>3. health \in Healths /\ spawned \subseteq {"verify", "repair"}
    <3>1. CASE up
      BY <3>1, WorldParts DEF AppInv, Sound, Worlds
    <3>2. CASE ~up
      BY <3>2 DEF AppInv, Healths
    <3> QED
      BY <3>1, <3>2
  <2>4. attempt.on \in BOOLEAN /\ attempt.incs \subseteq Keys /\ attempt.asked \subseteq Minutes
    BY DEF AppInv, Others
  <2>5. /\ book.open \subseteq Keys /\ book.rows \in [Keys -> {"none", "OPEN", "RESOLVED", "ABANDONED"}]
        /\ book.ended \in [Keys -> 0..2]
    BY <2>2 DEF Books, Statuses
  <2>6. up \in BOOLEAN /\ crashes \in 0..MaxCrashes /\ repairing \subseteq DOMAIN pipe.gaps
    BY DEF AppInv, Others
  <2> QED
    BY <2>1, <2>2, <2>3, <2>4, <2>5, <2>6 DEF AppTypeOK, Healths
<1> QED
  BY <1>1, AppHolds, PTL

=============================================================================
