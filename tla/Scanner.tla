-------------------------------- MODULE Scanner -------------------------------
(* The scanner of the whole market (scanner/scanner.py, universe.py): each      *)
(* packet of its own feeds updates a quote, a loop ranks and stores them, and    *)
(* the status API asks for a leaderboard that is kept for a moment. It watches   *)
(* the calendar beside the housekeeping loop.                                   *)
EXTENDS MarketWatch, SequencesExt

CONSTANTS
    Records,      \* the instrument master: [id, base, expiry], None for no expiry
    Included,     \* base names that the patterns include and do not exclude
    Capacity,     \* max_subscriptions_per_connection * max_connections
    RankLimit,    \* winners_limit and losers_limit
    StaleAfter, SnapshotEvery, DigestEvery, BoardLen,  \* the last: how long a board is kept
    Prices, Closes,  \* last prices and previous closes a packet may carry
    ScanScopes    \* bound: the packets of a behaviour by the slot it starts at

ASSUME ScannerAssumption ==
    /\ {Capacity, RankLimit, SnapshotEvery, DigestEvery, BoardLen} \subseteq Nat \ {0}
    /\ StaleAfter \in Nat /\ Prices \cup Closes \subseteq Nat \ {0}
    /\ \A r, s \in Records : (r.id = s.id \/ (r.base = s.base /\ r.expiry = s.expiry)) => r = s

VARIABLES
    scan,         \* quotes by id, the cached board, the leaders and times last told
    shown,        \* the leaderboard last returned, and when
    stored,       \* the market_rank_snapshots of this process
    packets       \* what is left of the bound

scanVars == <<scan, shown, stored, packets>>

-----------------------------------------------------------------------------
(* The universe *)

Sooner(r, s) == r.expiry # None /\ (s.expiry = None \/ r.expiry < s.expiry)

\* Front months of the included names that have not expired, as many as may be subscribed.
Universe(today) ==
    LET listed == {r \in Records : r.base \in Included /\ (r.expiry = None \/ today <= r.expiry)}
        front  == {r \in listed : \A s \in listed : s.base = r.base => ~Sooner(s, r)}
    IN  {r \in front : Cardinality({s \in front : s.base < r.base}) < Capacity}

Base(id) == (CHOOSE r \in Records : r.id = id).base

\* priced is history: when the last price came.
NewQuote == [ltp |-> None, close |-> None, updated |-> None, priced |-> None]

NewScan(today) ==
    [quotes |-> [id \in {r.id : r \in Universe(today)} |-> NewQuote],
     board |-> None, leaders |-> <<None, None>>, snapshotAt |-> None, digestAt |-> None]

-----------------------------------------------------------------------------
(* Packets: a last price, a previous close, or open interest alone. *)

Quoted(q, code, price) ==
    CASE code = "QUOTE"      -> [q EXCEPT !.updated = now, !.ltp = price, !.priced = now]
      [] code = "PREV_CLOSE" -> [q EXCEPT !.updated = now, !.close = price]
      [] code = "OI"         -> [q EXCEPT !.updated = now]

\* Mutant of OnPacket: the board is kept.
OnPacketKeeping(id, code, price) ==
    scan' = [scan EXCEPT !.quotes[id] = Quoted(@, code, price)]

OnPacket(id, code, price) ==
    scan' = [scan EXCEPT !.quotes[id] = Quoted(@, code, price), !.board = None]

Packet(id, code, price) ==
    /\ packets > 0 /\ packets' = packets - 1
    /\ OnPacket(id, code, price)
    /\ UNCHANGED <<shown, stored>>

-----------------------------------------------------------------------------
(* Rankings *)

Known(q) == q.ltp # None /\ q.close # None
IsStale(q) == q.updated = None \/ now - q.updated > StaleAfter

Eligible(quotes) == {id \in DOMAIN quotes : Known(quotes[id]) /\ ~IsStale(quotes[id])}

\* Changes in per cent, compared without dividing.
Ahead(q, r) == q.ltp * r.close > r.ltp * q.close

Ranked(quotes, gaining) ==
    LET Better(a, b) == IF gaining THEN Ahead(quotes[a], quotes[b]) ELSE Ahead(quotes[b], quotes[a])
        Above(a, b) == Better(a, b) \/ (~Better(b, a) /\ Base(a) < Base(b))
        all == SetToSortSeq(Eligible(quotes), Above)
    IN  IF IsOpen(cal, now) THEN SubSeq(all, 1, Min({RankLimit, Len(all)})) ELSE <<>>

Winners(quotes) == Ranked(quotes, TRUE)
Losers(quotes)  == Ranked(quotes, FALSE)

Breadth(quotes) ==
    LET fresh == Eligible(quotes)
        Count(S) == Cardinality(S)
    IN  [total       |-> Count(DOMAIN quotes),
         advancing   |-> Count({id \in fresh : quotes[id].ltp > quotes[id].close}),
         declining   |-> Count({id \in fresh : quotes[id].ltp < quotes[id].close}),
         unchanged   |-> Count({id \in fresh : quotes[id].ltp = quotes[id].close}),
         stale       |-> Count({id \in DOMAIN quotes : Known(quotes[id]) /\ IsStale(quotes[id])}),
         unavailable |-> Count({id \in DOMAIN quotes : ~Known(quotes[id])})]

Board ==
    [at |-> now, winners |-> Winners(scan.quotes), losers |-> Losers(scan.quotes), breadth |-> Breadth(scan.quotes)]

\* A request of the status API.
Leaderboard ==
    /\ scan' = [scan EXCEPT !.board = IF @ # None /\ now - @.at < BoardLen THEN @ ELSE Board]
    /\ shown' = [when |-> now, board |-> scan'.board]
    /\ UNCHANGED <<stored, packets>>

-----------------------------------------------------------------------------
(* One pass of the scanner loop *)

Due(at, every) == at = None \/ now - at >= every

\* An instrument that is among both is stored as a winner.
Rows(winners, losers) ==
    LET up == {[at |-> now, id |-> winners[i], rank |-> i] : i \in DOMAIN winners}
    IN  up \cup {[at |-> now, id |-> losers[i], rank |-> 0 - i] :
                    i \in {j \in DOMAIN losers : losers[j] \notin {r.id : r \in up}}}

\* A row of the same moment and instrument is there already and stays.
Inserted(rows) == stored \cup {r \in rows : \A s \in stored : <<s.at, s.id>> # <<r.at, r.id>>}

LeaderOf(ranked) == IF ranked = <<>> THEN None ELSE ranked[1]

\* The event of a changed leader is about two known pairs; only the pair is kept here.
ScanTick ==
    LET winners == Winners(scan.quotes)
        losers  == Losers(scan.quotes)
        rows    == IF Due(scan.snapshotAt, SnapshotEvery) THEN Rows(winners, losers) ELSE {}
        ranked  == winners # <<>> \/ losers # <<>>
    IN  /\ DOMAIN scan.quotes # {}
        /\ stored' = Inserted(rows)
        /\ scan' = [scan EXCEPT !.leaders = <<LeaderOf(winners), LeaderOf(losers)>>,
                                !.snapshotAt = IF rows # {} THEN now ELSE @,
                                !.digestAt = IF Due(@, DigestEvery) /\ ranked THEN now ELSE @]
        /\ UNCHANGED <<shown, packets>>

-----------------------------------------------------------------------------
ScannerInit ==
    /\ Init
    /\ scan = NewScan(DateOf(now)) /\ shown = None /\ stored = {}
    /\ packets = IF now \in DOMAIN ScanScopes THEN ScanScopes[now] ELSE 0

\* The universe is built at the start of the process, and only there.
ScannerStep ==
    \/ \E id \in DOMAIN scan.quotes :
          \/ \E price \in Prices : Packet(id, "QUOTE", price)
          \/ \E price \in Closes : Packet(id, "PREV_CLOSE", price)
          \/ Packet(id, "OI", None)
    \/ Leaderboard \/ ScanTick

ScannerNext ==
    \/ /\ bound.start \notin DOMAIN ScanScopes /\ Next /\ UNCHANGED scanVars
    \/ /\ bound.start \in DOMAIN ScanScopes
       /\ \/ Time /\ UNCHANGED <<watchVars, scanVars>>
          \/ ScannerStep /\ UNCHANGED <<historyVars, watchVars>>
          \/ /\ Restart /\ Forget
             /\ scan' = NewScan(DateOf(now)) /\ shown' = None /\ stored' = {}
             /\ UNCHANGED packets

ScannerSpec == ScannerInit /\ [][ScannerNext]_<<historyVars, watchVars, scanVars>>

-----------------------------------------------------------------------------
(* What the API shows is what a look at the quotes would show, as of the packets  *)
(* that have come, or a moment old: nobody without a recent packet or a verified   *)
(* reference, nobody once the market has been closed for that moment.             *)
BoardIsCurrent ==
    [][ shown' # shown /\ shown' # None =>
        LET b == shown'.board
        IN  /\ now - b.at < BoardLen
            /\ b.breadth.unavailable = Cardinality({id \in DOMAIN scan.quotes : ~Known(scan.quotes[id])})
            /\ \A i \in DOMAIN b.winners :
                  LET q == scan.quotes[b.winners[i]]
                  IN  Known(q) /\ now - q.updated < StaleAfter + BoardLen
                      /\ \A j \in DOMAIN b.winners : i < j => ~Ahead(scan.quotes[b.winners[j]], q)
            /\ b.winners # <<>> => \E t \in now - BoardLen + 1 .. now : IsOpen(cal, t) ]_shown

\* scanner.py, rankings: stale prices are never presented as today's winners or losers.
PriceIsLive ==
    shown # None =>
    \A i \in DOMAIN shown.board.winners :
        LET q == scan.quotes[shown.board.winners[i]]
        IN  shown.when = now /\ shown.board.at = now => now - q.priced <= StaleAfter
=============================================================================
