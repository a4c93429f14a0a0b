------------------------------ MODULE MCHistory ------------------------------
(* Days of six slots: morning 1-3, evening 3-5, the season's close at 4. The *)
(* year ends with date 8, a Tuesday; the clock starts on Friday, date 4.      *)
EXTENDS Scanner, TLC

CONSTANTS Other, GoldJ, GoldK, Silver, Zinc

NoDates == [d \in {} |-> None]
Times(s, e, x) == [start |-> s, evening |-> e, end |-> x]
Hours(s, x) == [start |-> s, end |-> x]

Usual ==
    [session |-> (0 :> Times(1, 3, 5)), fallback |-> Times(1, 3, 5), weekend |-> TRUE,
     override |-> NoDates, off |-> {}, special |-> NoDates, pending |-> {}, holiday |-> NoDates,
     close |-> {},
     windows |-> << [name |-> "ASIA", group |-> "global", start |-> 1, end |-> 3],
                    [name |-> "LONDON", group |-> "global", start |-> 3, end |-> 0] >>]

\* A special session on Sunday, the evening and the morning closed around it.
Festival ==
    [Usual EXCEPT !.holiday = (4 :> "evening") @@ (7 :> "morning"), !.special = (6 :> Hours(2, 4)),
                  !.close = {[from |-> 7, to |-> 8, end |-> 4]}]

\* The same Sunday before its hours are known, and the legacy overrides.
Announced ==
    [Usual EXCEPT !.pending = {6}, !.holiday = (7 :> "full"),
                  !.override = (4 :> [closed |-> FALSE, start |-> 2, end |-> None]) @@
                               (8 :> [closed |-> TRUE, start |-> None, end |-> None])]

\* No calendar file: a trading day past midnight.
Legacy ==
    [Usual EXCEPT !.session = [y \in {} |-> None], !.fallback = Times(3, 5, 1), !.off = {7},
                  !.weekend = FALSE]

All == {Festival, Announced, Legacy}

Scope(start, slots, loads, others, crashes) ==
    [start |-> start, slots |-> slots, loads |-> loads, others |-> others, crashes |-> crashes, looks |-> loads = 0]

\* Loads on Friday evening and over the special session, with a competing
\* thread or a crash; a week of looks at the market; and the scanner while the
\* market closes, and while it opens.
AllScopes ==
    {Scope(26, 2, 2, 0, 0), Scope(39, 1, 1, 1, 0), Scope(39, 1, 2, 0, 1), Scope(26, 30, 0, 0, 1),
     Scope(27, 2, 0, 0, 1), Scope(47, 4, 0, 0, 0)}

Scanned == 27 :> 4 @@ 47 :> 3

Contract(id, base, expiry) == [id |-> id, base |-> base, expiry |-> expiry]

\* The first gold contract expires on Saturday; only two can be subscribed.
AllRecords ==
    {Contract(GoldJ, 1, 5), Contract(GoldK, 1, 9), Contract(Silver, 2, 9), Contract(Zinc, 3, None)}
=============================================================================
