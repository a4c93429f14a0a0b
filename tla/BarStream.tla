------------------------------ MODULE BarStream ------------------------------
(***************************************************************************)
(* What a symbol's pipeline promises the consumers of its closed bars,     *)
(* whatever the feed, the broker and the order of their answers do.  Each  *)
(* timeframe's bars come in order and none comes twice; a bar that closed  *)
(* incomplete is a gap until the broker has served it, and stays settled   *)
(* then; while a gap is open nothing comes, unless one is settled.  A      *)
(* minute whose bar the broker owes is given up only for that bar.         *)
(***************************************************************************)
EXTENDS Integers

VARIABLES
    delivered,  \* bars handed to the consumers
    open,       \* bars that closed incomplete and wait for the broker's
    settled,    \* those the broker has served
    owed,       \* minutes whose bar the broker owes
    known       \* minutes processed

streamVars == <<delivered, open, settled, owed, known>>

News   == delivered' \ delivered
Served == settled' \ settled

Init == delivered = {} /\ open = {} /\ settled = {} /\ owed = {} /\ known = {}

\* A new bar is later than every bar of its timeframe delivered before.
InOrder ==
    /\ delivered \subseteq delivered'
    /\ \A b \in News : \A c \in delivered : c.tf = b.tf => c.open < b.open

\* A gap stays open until it is settled, once and for all.
GapsLast ==
    /\ settled \subseteq settled' /\ open \subseteq open' \union settled'
    /\ open' \intersect settled' = {}

\* When a gap is settled, its timeframe's bars have come up to it: what the gap held
\* back comes after it.
ServedInPlace ==
    \A g \in Served : \E b \in delivered' : b.tf = g.tf /\ g.open <= b.open

\* Nothing comes past an open gap unless some gap is settled.
HoldsBack == open # {} /\ Served = {} => News = {}

\* An owed minute stays so until it is known, and what is known stays known.
Owing == known \subseteq known' /\ owed \subseteq owed' \union known'

Next == InOrder /\ GapsLast /\ ServedInPlace /\ HoldsBack /\ Owing

Spec == Init /\ [][Next]_streamVars
=============================================================================
