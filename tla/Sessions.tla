------------------------------ MODULE Sessions ------------------------------
(* The exchange calendar (market/sessions.py): a table of trading days and   *)
(* every question the rest of the program asks of it. Time is a number of    *)
(* slots, DayLen to a date; date 0 is a Monday. A calendar is a record of     *)
(* what the configuration files say:                                         *)
(*   session   configured year -> [start, evening, end]; no year: legacy mode *)
(*   fallback  the same three times when no year is configured                *)
(*   override  date -> [closed] or [start, end], the legacy date overrides     *)
(*   off       the legacy holidays        special   date -> [start, end]       *)
(*   pending   special sessions without hours yet                              *)
(*   holiday   date -> "full", "morning", "evening" (which part is closed)     *)
(*   close     seasonal periods [from, to, end]      weekend   closed or not   *)
(*   windows   the named sessions [name, group, start, end]                    *)
EXTENDS Integers, FiniteSets, FiniteSetsExt

CONSTANTS
    DayLen,       \* slots to a date
    YearLen,      \* dates to a year
    H4Len,        \* slots to an H4 bar
    HorizonDays,  \* how far next_open and next_close look ahead
    None

ASSUME SessionsAssumption ==
    /\ {DayLen, YearLen, H4Len, HorizonDays} \subseteq Nat \ {0}
    /\ None \notin Nat

Year(d)    == d \div YearLen
Weekday(d) == d % 7
DateOf(t)  == t \div DayLen
Instant(d, tod) == d * DayLen + tod

-----------------------------------------------------------------------------
\* What the configuration's validation lets through, as far as hours go.
TimesOfDay == [start : Nat, evening : Nat, end : Nat]

IsCalendar(cal) ==
    /\ cal.fallback \in TimesOfDay
    /\ IsFiniteSet(DOMAIN cal.session)
    /\ \A y \in DOMAIN cal.session : y \in Int /\ cal.session[y] \in TimesOfDay
    /\ \A d \in DOMAIN cal.override : {cal.override[d].start, cal.override[d].end} \subseteq Nat \cup {None}
    /\ \A d \in DOMAIN cal.special : {cal.special[d].start, cal.special[d].end} \subseteq Nat
    /\ \A d \in DOMAIN cal.holiday : cal.holiday[d] \in {"full", "morning", "evening"}
    /\ \A p \in cal.close : p.end \in Nat

-----------------------------------------------------------------------------
Covers(cal, d) == DOMAIN cal.session = {} \/ Year(d) \in DOMAIN cal.session

\* The times of the latest configured year stand for "the day" wherever the
\* date's own year has none (_default_start, _evening_start, _default_end).
DefaultTimes(cal) ==
    IF DOMAIN cal.session = {} THEN cal.fallback ELSE cal.session[Max(DOMAIN cal.session)]

SessionTimes(cal, d) ==
    IF Year(d) \in DOMAIN cal.session THEN cal.session[Year(d)] ELSE DefaultTimes(cal)

SeasonEnd(seasons, end) == IF seasons = {} THEN end ELSE (CHOOSE p \in seasons : TRUE).end

RegularEnd(cal, d) == SeasonEnd({p \in cal.close : p.from <= d /\ d <= p.to}, SessionTimes(cal, d).end)

\* A closed day keeps its usual hours, so that callers always have a window.
Closed(reason, usual, end) == [open |-> FALSE, reason |-> reason, start |-> usual.start, end |-> end]
Trades(reason, start, end) == [open |-> TRUE, reason |-> reason, start |-> start, end |-> end]

Overridden(o, usual, end) ==
    IF o.closed THEN Closed("CLOSED_BY_OVERRIDE", usual, end)
    ELSE Trades("OPEN", IF o.start = None THEN usual.start ELSE o.start, IF o.end = None THEN end ELSE o.end)

Holiday(part, usual, end) ==
    CASE part = "full"    -> Closed("FULL_HOLIDAY", usual, end)
      [] part = "morning" -> Trades("MORNING_SESSION_CLOSED", usual.evening, end)
      [] part = "evening" -> Trades("EVENING_SESSION_CLOSED", usual.start, usual.evening)

\* The first rule that speaks of the date.
Resolved(cal, d, usual, end) ==
    IF ~Covers(cal, d) THEN Closed("CALENDAR_OUT_OF_RANGE", usual, end)
    ELSE IF d \in DOMAIN cal.override THEN Overridden(cal.override[d], usual, end)
    ELSE IF d \in cal.off THEN Closed("FULL_HOLIDAY", usual, end)
    ELSE IF d \in DOMAIN cal.special THEN Trades("OPEN", cal.special[d].start, cal.special[d].end)
    ELSE IF d \in cal.pending THEN Closed("SPECIAL_SESSION_PENDING", usual, end)
    ELSE IF d \in DOMAIN cal.holiday THEN Holiday(cal.holiday[d], usual, end)
    ELSE IF cal.weekend /\ Weekday(d) >= 5 THEN Closed("WEEKEND", usual, end)
    ELSE Trades("OPEN", usual.start, end)

ResolveDay(cal, d) == Resolved(cal, d, SessionTimes(cal, d), RegularEnd(cal, d))

IsTradingDay(cal, d) == ResolveDay(cal, d).open

\* Mutant of TradingDate: a day that ends past midnight is not looked back to.
TradingDateOfDate(cal, t) == DateOf(t)

Belongs(t, hours) == IF hours.end <= hours.start /\ t % DayLen < hours.start THEN DateOf(t) - 1 ELSE DateOf(t)

TradingDate(cal, t) == Belongs(t, DefaultTimes(cal))

\* The instants of a day's hours, past midnight when they end before they start.
Spanned(day, d) ==
    [day EXCEPT !.start = Instant(d, day.start),
                !.end   = Instant(d, day.end) + (IF day.end <= day.start THEN DayLen ELSE 0)]

TradingDaySpan(cal, d) == Spanned(ResolveDay(cal, d), d)
SpanAt(cal, t) == TradingDaySpan(cal, TradingDate(cal, t))

Within(day, t) == day.open /\ day.start <= t /\ t < day.end

IsOpen(cal, t) == Within(SpanAt(cal, t), t)

ClosesBy(day, t, nominal) == IF Within(day, t) /\ day.end < nominal THEN day.end ELSE nominal

EffectiveClose(cal, t, len) == ClosesBy(SpanAt(cal, t), t, t + len)

-----------------------------------------------------------------------------
\* The first day from t's own that ends the search: one whose session is not
\* over at t, or one no configured year covers.
StillToEnd(day, t) == day.open /\ t < day.end

SearchEnds(cal, t, d) ==
    {n \in d .. d + HorizonDays - 1 : ~Covers(cal, n) \/ StillToEnd(TradingDaySpan(cal, n), t)}

FirstCovered(cal, S) == IF S = {} \/ ~Covers(cal, Min(S)) THEN None ELSE Min(S)

NextDay(cal, t) == FirstCovered(cal, SearchEnds(cal, t, TradingDate(cal, t)))

OpenOn(cal, t, d)  == IF d = None THEN None ELSE Max({t, TradingDaySpan(cal, d).start})
CloseOn(cal, d) == IF d = None THEN None ELSE TradingDaySpan(cal, d).end

NextOpen(cal, t)  == OpenOn(cal, t, NextDay(cal, t))
NextClose(cal, t) == CloseOn(cal, NextDay(cal, t))

SessionLabel(cal, t, d) ==
    IF d \in DOMAIN cal.special THEN "SPECIAL"
    ELSE IF t % DayLen >= SessionTimes(cal, d).evening THEN "EVENING" ELSE "MORNING"

Reasons ==
    {"OPEN", "CLOSED_BY_OVERRIDE", "FULL_HOLIDAY", "MORNING_SESSION_CLOSED", "EVENING_SESSION_CLOSED",
     "CALENDAR_OUT_OF_RANGE", "SPECIAL_SESSION_PENDING", "WEEKEND", "OUTSIDE_TRADING_HOURS"}

MarketStates ==
    [state : {"OPEN", "CLOSED"}, reason : Reasons, date : Int, session : {"SPECIAL", "EVENING", "MORNING", None},
     closes_at : Int \cup {None}, next_open : Int \cup {None}, next_close : Int \cup {None}]

MarketShut(reason, d, closes, open, close) ==
    [state |-> "CLOSED", reason |-> reason, date |-> d, session |-> None,
     closes_at |-> closes, next_open |-> open, next_close |-> close]

StateOn(cal, t, d, day) ==
    LET OrHours(why) == IF day.reason = why THEN why ELSE "OUTSIDE_TRADING_HOURS"
    IN  IF ~Covers(cal, d) THEN MarketShut(day.reason, d, None, None, None)
        ELSE IF Within(day, t)
        THEN [MarketShut("OPEN", d, day.end, t, day.end) EXCEPT !.state = "OPEN", !.session = SessionLabel(cal, t, d)]
        ELSE IF day.open /\ t < day.start
        THEN MarketShut(OrHours("MORNING_SESSION_CLOSED"), d, day.end, day.start, day.end)
        ELSE MarketShut(IF day.open THEN OrHours("EVENING_SESSION_CLOSED") ELSE day.reason, d,
                        IF day.open THEN day.end ELSE None, NextOpen(cal, t), NextClose(cal, t))

StateOfDate(cal, t, d) == StateOn(cal, t, d, TradingDaySpan(cal, d))

MarketState(cal, t) == StateOfDate(cal, t, TradingDate(cal, t))

-----------------------------------------------------------------------------
BucketFrom(day, start) ==
    [start |-> start, end |-> IF start < day.end THEN Min({start + H4Len, day.end}) ELSE start + H4Len]

BucketIn(day, t) ==
    IF t < day.start THEN [start |-> day.start - H4Len, end |-> day.start]
    ELSE BucketFrom(day, t - ((t - day.start) % H4Len))

H4Bucket(cal, t) == BucketIn(SpanAt(cal, t), t)

BucketsOf(day) == {BucketFrom(day, b) : b \in {x \in day.start .. day.end - 1 : (x - day.start) % H4Len = 0}}

H4Buckets(cal, d) == BucketsOf(TradingDaySpan(cal, d))

\* A named window on a date, cut at the (possibly shortened) trading day's end.
WindowOn(name, d, start, end, day) ==
    [name |-> name, date |-> d, start |-> start, end |-> Max({start, IF day.open THEN Min({end, day.end}) ELSE end})]

WindowSpan(cal, w, d) ==
    WindowOn(w.name, d, Instant(d, w.start), Instant(d, w.end) + (IF w.end <= w.start THEN DayLen ELSE 0),
             TradingDaySpan(cal, d))

Spans(cal, d, group) ==
    [i \in {j \in DOMAIN cal.windows : cal.windows[j].group = group} |-> WindowSpan(cal, cal.windows[i], d)]

\* cal.windows is a sequence: of two windows that both contain t the first
\* listed is taken, and today's before yesterday's.
FirstWith(spans, hits, otherwise) == IF hits = {} THEN otherwise ELSE spans[Min(hits)]

Containing(spans, t, otherwise) ==
    FirstWith(spans, {i \in DOMAIN spans : spans[i].start <= t /\ t < spans[i].end}, otherwise)

SessionOn(cal, t, d, group) == Containing(Spans(cal, d, group), t, Containing(Spans(cal, d - 1, group), t, None))

SessionFor(cal, t, group) == SessionOn(cal, t, TradingDate(cal, t), group)
=============================================================================
