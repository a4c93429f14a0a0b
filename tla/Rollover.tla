------------------------------- MODULE Rollover -------------------------------
(* One logical symbol whose futures contract expires (app.py, check_rollover    *)
(* and roll_symbol): the next contract is prepared in a thread, subscribed,     *)
(* switched to and its live stream joined to its history, while the feed drops  *)
(* and reconnects, answers for either contract are under way, and the process   *)
(* crashes. An await is the place between two actions.                          *)
EXTENDS Resolver

CONSTANTS
    LastDay,      \* bound: days pass up to this one
    MaxDrops,     \* bound: how often the feed drops
    MaxCrashes    \* bound: how often the process crashes

ASSUME RolloverBounds == LastDay \in Nat /\ MaxDrops \in Nat /\ MaxCrashes \in Nat

VARIABLES
    today,          \* the date
    running,        \* runtimes[sym]: the contract, None while the process is down
    incoming,       \* pending_runtimes: the contract being rolled in, or None
    active,         \* the instruments row that is active (stored)
    pipe,           \* per contract its pipeline, None when there is none
    files,          \* contracts with an open incident about a pending minute (stored)
    health,         \* SymbolHealth: state and security id
    feed,           \* the socket, what _subscribed holds, and what the broker was told on this socket
    due,            \* recover_all was spawned and has not begun
    verifying,      \* the contract whose verification is under way, or None
    roll,           \* where roll_symbol is, the new contract, and what it saw of the feed
    faults          \* drops and crashes so far

rolloverVars == <<today, running, incoming, active, pipe, files, health, feed, due, verifying, roll, faults>>

Idle == [pc |-> "idle", new |-> None, connected |-> FALSE, cut |-> FALSE]

\* cover: no ticks are trusted, those after the minute in progress, or all; hole: minutes
\* before that nobody asked the broker for; owed: a partial minute ended and was not
\* queued; bars: the contracts whose bars it holds, its history first.
Pipelines == [cover : {"none", "partial", "full"}, hole : BOOLEAN, owed : BOOLEAN,
              pending : BOOLEAN, recovering : BOOLEAN, bars : SUBSET Contracts]

ASSUME NoneIsNoPipeline == None \notin Pipelines

Pipeline(c, cover, hole, pending) ==
    [cover |-> cover, hole |-> hole, owed |-> FALSE, pending |-> pending, recovering |-> FALSE, bars |-> {c}]

ContinuityOk(c) == ~pipe[c].pending

Down == [up |-> FALSE, greeted |-> FALSE, wanted |-> {}, sent |-> {}]

-----------------------------------------------------------------------------
(* The date *)

DayPasses ==
    /\ today < LastDay /\ today' = today + 1
    /\ UNCHANGED <<running, incoming, active, pipe, files, health, feed, due, verifying, roll, faults>>

-----------------------------------------------------------------------------
(* Health *)

\* What settling leaves: sync ends the running contract's incident when its minute is no
\* longer pending, and the state is LIVE only for a pipeline with nothing pending whose
\* current minute is covered. How long an incident is open only changes the wording here.
Settled(P, F, recovered) ==
    /\ pipe' = P
    /\ files' = IF P[running].pending THEN F ELSE F \ {running}
    /\ health' = [health EXCEPT !.state =
            IF recovered /\ ~P[running].pending /\ P[running].cover # "partial" THEN "LIVE"
            ELSE IF recovered THEN "RECOVERING_GAP" ELSE "ERROR"]

\* A minute of c becomes pending (_mark_pending): the callback was bound to the symbol,
\* so the incident is the running contract's.
Marked(c) == IF pipe[c].pending THEN files ELSE files \cup {running}

-----------------------------------------------------------------------------
(* The feed *)

Connect ==
    /\ running # None /\ ~feed.up
    /\ feed' = [feed EXCEPT !.up = TRUE]
    /\ pipe' = [pipe EXCEPT ![running].cover = "partial"]
    /\ due' = TRUE
    /\ UNCHANGED <<today, running, incoming, active, files, health, verifying, roll, faults>>

Resubscribe ==
    /\ feed.up /\ ~feed.greeted
    /\ feed' = [feed EXCEPT !.greeted = TRUE, !.sent = @ \cup feed.wanted]
    /\ UNCHANGED <<today, running, incoming, active, pipe, files, health, due, verifying, roll, faults>>

\* The open minute of the running contract is left to the recovery after the reconnect.
Drop ==
    /\ feed.up /\ faults.drops < MaxDrops
    /\ faults' = [faults EXCEPT !.drops = @ + 1]
    /\ feed' = [Down EXCEPT !.wanted = feed.wanted]
    /\ pipe' = [pipe EXCEPT ![running].cover = "none", ![running].owed = FALSE,
                            ![running].hole = @ \/ pipe[running].owed]
    /\ roll' = IF roll.pc \in {"subscribe", "unsubscribe"} THEN [roll EXCEPT !.cut = TRUE] ELSE roll
    /\ UNCHANGED <<today, running, incoming, active, files, health, due, verifying>>

\* A minute ends for every pipeline there is.
Minute(p) ==
    IF p = None THEN None
    ELSE IF p.cover = "partial" THEN [p EXCEPT !.cover = "full", !.owed = TRUE]
    ELSE IF p.cover = "none" THEN [p EXCEPT !.hole = TRUE]
    ELSE p

MinuteEnds ==
    /\ pipe' = [c \in Contracts |-> Minute(pipe[c])]
    /\ UNCHANGED <<today, running, incoming, active, files, health, feed, due, verifying, roll, faults>>

\* The ended minute is queued: by the flush loop for the running contract, by the next
\* tick for either.
QueueMinute(c) ==
    /\ c \in {running, incoming} \ {None} /\ pipe[c].owed /\ ~pipe[c].recovering
    /\ pipe' = [pipe EXCEPT ![c].owed = FALSE, ![c].pending = TRUE]
    /\ files' = Marked(c)
    /\ health' = [health EXCEPT !.state = IF @ = "LIVE" THEN "RECOVERING_GAP" ELSE @]
    /\ UNCHANGED <<today, running, incoming, active, feed, due, verifying, roll, faults>>

\* What on_tick does with a packet of contract c: the contract whose pipeline gets it.
Route(c) ==
    IF c \notin feed.wanted THEN None
    ELSE IF c \in {running, incoming} THEN c ELSE None

-----------------------------------------------------------------------------
(* Verification and recovery: each works on the runtime it read before its await. *)

VerifyStart ==
    /\ verifying = None /\ running \in files
    /\ pipe[running].pending /\ ~pipe[running].recovering
    /\ verifying' = running
    /\ UNCHANGED <<today, running, incoming, active, pipe, files, health, feed, due, roll, faults>>

\* The bar goes to the pipeline c had when it was asked for, if there still is one.
Served(c, to) ==
    IF pipe[to] = None THEN pipe
    ELSE [pipe EXCEPT ![to].pending = FALSE, ![to].bars = @ \cup {c}]

\* Mutant of VerifyEnd: the bar goes to the contract that runs now.
VerifyEndOnRunning(served) ==
    /\ verifying # None /\ verifying' = None
    /\ IF served THEN Settled(Served(verifying, running), files \ {running}, TRUE)
       ELSE Settled(pipe, files, TRUE)
    /\ UNCHANGED <<today, running, incoming, active, feed, due, roll, faults>>

\* The broker has the minute, or not yet (or the request fails).
VerifyEnd(served) ==
    /\ verifying # None /\ verifying' = None
    /\ IF served THEN Settled(Served(verifying, verifying), files \ {verifying}, TRUE)
       ELSE Settled(pipe, files, TRUE)
    /\ UNCHANGED <<today, running, incoming, active, feed, due, roll, faults>>

\* recover() up to its request. A window that ends where it starts settles at once; a
\* recovery already under way is left alone.
Recover(H) ==
    LET c == running
        p == pipe[c]
    IN  IF p.recovering THEN UNCHANGED <<pipe, files>> /\ health' = H
        ELSE IF p.hole \/ p.owed
        THEN /\ pipe' = [pipe EXCEPT ![c].recovering = TRUE, ![c].hole = TRUE, ![c].owed = FALSE]
             /\ health' = [H EXCEPT !.state = "RECOVERING_GAP"]
             /\ UNCHANGED files
        ELSE /\ pipe' = pipe
             /\ files' = IF p.pending THEN files ELSE files \ {c}
             /\ health' = [H EXCEPT !.state = IF ~p.pending /\ p.cover # "partial" THEN "LIVE" ELSE "RECOVERING_GAP"]

RecoverStart ==
    /\ due /\ running # None /\ due' = FALSE
    /\ Recover(health)
    /\ UNCHANGED <<today, running, incoming, active, feed, verifying, roll, faults>>

\* Every minute of the window is fed; or some are missing, or the request failed, and they
\* are marked pending; or an exception leaves the window as it was. Minutes pending from
\* before the window stay so.
RecoverEnd(c, how) ==
    /\ pipe[c] # None /\ pipe[c].recovering
    /\ LET P == [pipe EXCEPT ![c].recovering = FALSE, ![c].hole = (how = "raised"),
                             ![c].bars = @ \cup (IF how = "raised" THEN {} ELSE {c})]
       IN  CASE how = "served" -> \E left \in {FALSE, pipe[c].pending} :
                                      Settled([P EXCEPT ![c].pending = left], files, TRUE)
             [] how = "short"  -> Settled([P EXCEPT ![c].pending = TRUE], Marked(c), FALSE)
             [] how = "raised" -> Settled(P, files, FALSE)
    /\ UNCHANGED <<today, running, incoming, active, feed, due, verifying, roll, faults>>

-----------------------------------------------------------------------------
(* roll_symbol *)

\* check_rollover: the master is refreshed (or an older one kept) and names another contract.
RollStart(m) ==
    /\ roll.pc = "idle" /\ running # None
    /\ Resolve(m, today) \notin {None, running}
    /\ roll' = [Idle EXCEPT !.pc = "prepare", !.new = Resolve(m, today)]
    /\ health' = [state |-> "ROLLOVER_WARMING", id |-> running]
    /\ UNCHANGED <<today, running, incoming, active, pipe, files, feed, due, verifying, faults>>

\* Mutant of PrepareFails: the state is forgotten.
PrepareFailsQuietly ==
    /\ roll.pc = "prepare" /\ roll' = Idle
    /\ UNCHANGED <<today, running, incoming, active, pipe, files, health, feed, due, verifying, faults>>

\* The history cannot be loaded or warmed.
PrepareFails ==
    /\ roll.pc = "prepare" /\ roll' = Idle
    /\ health' = [state |-> IF ContinuityOk(running) THEN "LIVE" ELSE "ERROR", id |-> running]
    /\ UNCHANGED <<today, running, incoming, active, pipe, files, feed, due, verifying, faults>>

\* It is too short for the indicators.
PrepareCold ==
    /\ roll.pc = "prepare" /\ roll' = Idle
    /\ health' = [state |-> "LIVE", id |-> running]
    /\ UNCHANGED <<today, running, incoming, active, pipe, files, feed, due, verifying, faults>>

Switched(new, P) ==
    /\ active' = new /\ running' = new /\ incoming' = None
    /\ pipe' = P

\* Mutant of PrepareWarm: the runtime is not registered before the subscription.
PrepareUnregistered(hole) ==
    /\ roll.pc = "prepare" /\ feed.up
    /\ roll' = [roll EXCEPT !.pc = "subscribe", !.connected = TRUE]
    /\ pipe' = [pipe EXCEPT ![roll.new] = Pipeline(roll.new, "partial", hole, FALSE)]
    /\ feed' = [feed EXCEPT !.wanted = @ \cup {roll.new}]
    /\ UNCHANGED <<today, running, incoming, active, files, health, due, verifying, faults>>

\* It is warm. With a socket the subscription is sent; without one nothing is awaited until
\* the switch is done, and the next connect subscribes and recovers.
PrepareWarm(hole) ==
    /\ roll.pc = "prepare"
    /\ \/ /\ feed.up
          /\ roll' = [roll EXCEPT !.pc = "subscribe", !.connected = TRUE]
          /\ incoming' = roll.new
          /\ pipe' = [pipe EXCEPT ![roll.new] = Pipeline(roll.new, "partial", hole, FALSE)]
          /\ feed' = [feed EXCEPT !.wanted = @ \cup {roll.new}]
          /\ UNCHANGED <<running, active, health>>
       \/ /\ ~feed.up
          /\ roll' = Idle
          /\ Switched(roll.new, [pipe EXCEPT ![roll.new] = Pipeline(roll.new, "none", hole, FALSE)])
          /\ feed' = [feed EXCEPT !.wanted = (@ \cup {roll.new}) \ {running}]
          /\ health' = [state |-> "RECOVERING_GAP", id |-> roll.new]
    /\ UNCHANGED <<today, files, due, verifying, faults>>

\* The broker has the message; ticks may arrive before subscribe() returns.
BrokerAccepts ==
    /\ roll.pc = "subscribe" /\ ~roll.cut /\ roll.new \notin feed.sent
    /\ feed' = [feed EXCEPT !.sent = @ \cup {roll.new}]
    /\ UNCHANGED <<today, running, incoming, active, pipe, files, health, due, verifying, roll, faults>>

SubscribeFails ==
    /\ roll.pc = "subscribe" /\ roll.cut
    /\ roll' = Idle /\ incoming' = None
    /\ pipe' = [pipe EXCEPT ![roll.new] = None]
    /\ health' = [state |-> IF ContinuityOk(running) THEN "LIVE" ELSE "ERROR", id |-> running]
    /\ UNCHANGED <<today, running, active, files, feed, due, verifying, faults>>

\* The switch, and unsubscribe() up to its first await.
Switch ==
    /\ roll.pc = "subscribe" /\ ~roll.cut /\ roll.new \in feed.sent
    /\ Switched(roll.new, pipe)
    /\ feed' = [feed EXCEPT !.wanted = @ \ {running}]
    /\ roll' = [roll EXCEPT !.pc = "unsubscribe"]
    /\ UNCHANGED <<today, files, health, due, verifying, faults>>

\* A cut unsubscribe raises through roll_symbol, check_rollover and the housekeeping loop.
UnsubscribeFails ==
    /\ roll.pc = "unsubscribe" /\ roll.cut
    /\ roll' = Idle
    /\ UNCHANGED <<today, running, incoming, active, pipe, files, health, feed, due, verifying, faults>>

UnsubscribeEnd ==
    /\ roll.pc = "unsubscribe" /\ ~roll.cut
    /\ feed' = [feed EXCEPT !.sent = @ \cap feed.wanted]
    /\ roll' = [roll EXCEPT !.pc = "recover"]
    /\ Recover([state |-> "RECOVERING_GAP", id |-> running])
    /\ UNCHANGED <<today, running, incoming, active, due, verifying, faults>>

RollEnd ==
    /\ roll.pc = "recover" /\ ~pipe[running].recovering
    /\ roll' = Idle
    /\ UNCHANGED <<today, running, incoming, active, pipe, files, health, feed, due, verifying, faults>>

-----------------------------------------------------------------------------
(* The process *)

\* Startup: the contract is resolved, marked active, warmed; its stored incident makes the
\* minute pending again, that of another contract is left in the table.
StartPipes(c, hole) ==
    [d \in Contracts |-> IF d = c THEN Pipeline(c, "none", hole, c \in files) ELSE None]

Start(m, hole) ==
    LET c == Resolve(m, today)
    IN  /\ c # None
        /\ running' = c /\ active' = c /\ incoming' = None
        /\ pipe' = StartPipes(c, hole)
        /\ health' = [state |-> "WARMING", id |-> c]
        /\ feed' = [Down EXCEPT !.wanted = {c}]
        /\ due' = FALSE /\ verifying' = None /\ roll' = Idle
        /\ UNCHANGED <<today, files, faults>>

Gone ==
    /\ running' = None /\ incoming' = None
    /\ pipe' = [c \in Contracts |-> None]
    /\ feed' = Down /\ due' = FALSE /\ verifying' = None /\ roll' = Idle
    /\ health' = [state |-> "WARMING", id |-> None]

Crash ==
    /\ running # None /\ faults.crashes < MaxCrashes
    /\ faults' = [faults EXCEPT !.crashes = @ + 1]
    /\ Gone
    /\ UNCHANGED <<today, active, files>>

\* A process just started.
RolloverInit ==
    /\ today = 0 /\ files = {}
    /\ \E m \in Masters, hole \in BOOLEAN :
        LET c == Resolve(m, 0)
        IN  /\ c # None
            /\ running = c /\ active = c /\ incoming = None
            /\ pipe = StartPipes(c, hole) /\ health = [state |-> "WARMING", id |-> c]
            /\ feed = [Down EXCEPT !.wanted = {c}]
    /\ due = FALSE /\ verifying = None /\ roll = Idle
    /\ faults = [drops |-> 0, crashes |-> 0]

\* What the loops and the broker's answers do by themselves.
Answers ==
    \/ \E served \in BOOLEAN : VerifyEnd(served)
    \/ \E c \in Contracts, how \in {"served", "short", "raised"} : RecoverEnd(c, how)

Rolling ==
    \/ PrepareFails \/ PrepareCold \/ (\E hole \in BOOLEAN : PrepareWarm(hole))
    \/ BrokerAccepts \/ SubscribeFails \/ Switch
    \/ UnsubscribeEnd \/ UnsubscribeFails \/ RollEnd

RolloverNext ==
    \/ DayPasses \/ MinuteEnds
    \/ Connect \/ Resubscribe \/ Drop
    \/ \E c \in Contracts : QueueMinute(c)
    \/ VerifyStart \/ RecoverStart \/ Answers
    \/ (\E m \in Masters : RollStart(m)) \/ Rolling
    \/ (running = None /\ \E m \in Masters, hole \in BOOLEAN : Start(m, hole))
    \/ Crash

RolloverSpec == RolloverInit /\ [][RolloverNext]_rolloverVars

\* Every request is answered or fails, a spawned task begins, a broken socket is connected
\* again; nothing is assumed of days, minutes, drops or crashes.
RolloverFairness == WF_rolloverVars(Answers) /\ WF_rolloverVars(Rolling) /\ WF_rolloverVars(Connect) /\ WF_rolloverVars(RecoverStart)

FairRolloverSpec == RolloverSpec /\ RolloverFairness

-----------------------------------------------------------------------------
(* Properties *)

\* README, race-safe handover: while the broker sends the ticks of the running contract,
\* or of one whose pipeline already counts its minutes as covered, they reach that
\* contract's pipeline, before, inside and after subscribe() and across reconnects.
CoveredIsRouted ==
    \A c \in feed.sent : pipe[c] # None /\ pipe[c].cover # "none" /\ c \in {running, roll.new} => Route(c) = c

\* An answer that comes after the switch goes to the pipeline it was asked for: no
\* contract's history is ever continued with another contract's bars.
BarsStayWithContract == \A c \in Contracts : pipe[c] # None => pipe[c].bars \subseteq {c}

\* Whatever fails on the way, a rollover does not leave the symbol warming: not a history
\* that cannot be loaded, a socket lost inside subscribe() or unsubscribe(), a crash.
WarmingEnds == health.state = "ROLLOVER_WARMING" ~> health.state # "ROLLOVER_WARMING"

\* README: the symbol is RECOVERING_GAP until the new contract's history is verified
\* against its live stream, and only then LIVE.
NeverLiveBeforeRecovery == roll.pc = "recover" /\ health.state = "LIVE" => ~pipe[running].recovering
=============================================================================
