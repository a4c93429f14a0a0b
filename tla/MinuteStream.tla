----------------------------- MODULE MinuteStream -----------------------------
(***************************************************************************)
(* What a builder of live minutes promises its consumers: each minute is   *)
(* decided at most once and the decisions come in chronological order, a   *)
(* minute being handed to aggregation, handed to the broker queue, or      *)
(* passed over because the broker's own bar for it was processed.          *)
(***************************************************************************)
EXTENDS Integers

CONSTANT Minutes

VARIABLES
    live,      \* minutes handed to aggregation
    toBroker,  \* minutes handed to the broker queue
    last       \* the latest minute decided

streamVars == <<live, toBroker, last>>

Init == live = {} /\ toBroker = {} /\ last = -1

Advance(m) == m > last /\ last' = m

HandOver(m)  == Advance(m) /\ live' = live \union {m} /\ UNCHANGED toBroker
Question(m)  == Advance(m) /\ toBroker' = toBroker \union {m} /\ UNCHANGED live
PassOver(m)  == Advance(m) /\ UNCHANGED <<live, toBroker>>

Next == \E m \in Minutes : HandOver(m) \/ Question(m) \/ PassOver(m)

Spec == Init /\ [][Next]_streamVars
=============================================================================
