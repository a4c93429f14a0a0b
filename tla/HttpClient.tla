----------------------------- MODULE HttpClient -----------------------------
(* The broker's HTTP client (broker/dhan/client.py). Every caller is a       *)
(* thread with one request at a time: it passes the rate limiter, sends,      *)
(* and retries what may be retried. The limiter keeps the times of the calls  *)
(* it admitted in two windows; a thread the windows refuse sleeps outside the *)
(* lock and tries again, so what it measured may be stale when it wakes.      *)
(* Time is relative: sec and min hold the age of each call, oldest first.     *)
EXTENDS Integers, Sequences, FiniteSets

CONSTANTS
    Callers,      \* threads that call the broker
    PerSecond,    \* calls in the short window, of SecLen ticks
    PerMinute,    \* calls in the long window, of MinLen ticks
    SecLen, MinLen,
    MaxRetries,
    Backoff,      \* the first retry's delay, doubled for each further one
    RetryAfters   \* delays the broker may ask for

ASSUME HttpAssumption ==
    /\ {PerSecond, PerMinute, SecLen, MinLen, Backoff} \subseteq Nat \ {0}
    /\ SecLen <= MinLen
    /\ MaxRetries \in Nat
    /\ RetryAfters \subseteq Nat

VARIABLES
    sec, min,     \* the limiter's windows
    req,          \* per caller: [pc, attempt, left], left the ticks still to sleep
    admitted      \* (observed) the ages of the calls of the last MinLen ticks

httpVars == <<sec, min, req, admitted>>

Idle == [pc |-> "idle", attempt |-> 0, left |-> 0]

HttpInit ==
    /\ sec = <<>> /\ min = <<>> /\ admitted = <<>>
    /\ req = [c \in Callers |-> Idle]

Larger(a, b) == IF a >= b THEN a ELSE b

-----------------------------------------------------------------------------
Gone(window, len) == {i \in DOMAIN window : \A j \in 1..i : window[j] >= len}

\* Mutant of Younger: a call leaves its window one tick early.
YoungerByOne(window, len) == SubSeq(window, Cardinality(Gone(window, len - 1)) + 1, Len(window))

\* The calls that have left the window are popped from its left end.
Younger(window, len) == SubSeq(window, Cardinality(Gone(window, len)) + 1, Len(window))

\* A thread is refused while a window is full: it sleeps until the oldest call
\* of a full window leaves it, one tick at least.
Wait(s, m) ==
    LET Left(window, full, len) == IF Len(window) >= full THEN len - Head(window) ELSE 0
    IN  Larger(1, Larger(Left(s, PerSecond, SecLen), Left(m, PerMinute, MinLen)))

Acquire(c) ==
    LET s == Younger(sec, SecLen)
        m == Younger(min, MinLen)
        admit == Len(s) < PerSecond /\ Len(m) < PerMinute
    IN  /\ req[c].pc = "acquire"
        /\ sec' = IF admit THEN Append(s, 0) ELSE s
        /\ min' = IF admit THEN Append(m, 0) ELSE m
        /\ admitted' = IF admit THEN Append(admitted, 0) ELSE admitted
        /\ req' = [req EXCEPT ![c].pc = IF admit THEN "sent" ELSE "limited",
                              ![c].left = IF admit THEN 0 ELSE Wait(s, m)]

Submit(c) ==
    /\ req[c].pc = "idle"
    /\ req' = [req EXCEPT ![c] = [pc |-> "acquire", attempt |-> 1, left |-> 0]]
    /\ UNCHANGED <<sec, min, admitted>>

\* Asleep in the limiter or before a retry; the sleep may last longer than asked.
Wake(c) ==
    /\ req[c].pc \in {"limited", "backoff"} /\ req[c].left = 0
    /\ req' = [req EXCEPT ![c].pc = "acquire",
                          ![c].attempt = IF req[c].pc = "backoff" THEN @ + 1 ELSE @]
    /\ UNCHANGED <<sec, min, admitted>>

Delay(attempt) == Backoff * 2^(attempt - 1)

Ends(c, how) == req' = [req EXCEPT ![c].pc = how]
Retries(c, delay) == req' = [req EXCEPT ![c].pc = "backoff", ![c].left = delay]

\* What came of a sent request: no connection, a status that may be retried
\* (perhaps with Retry-After), one that may not, a body that is no JSON, a body.
Answer(c) ==
    /\ req[c].pc = "sent"
    /\ UNCHANGED <<sec, min, admitted>>
    /\ LET again == req[c].attempt <= MaxRetries
       IN  \/ IF again THEN Retries(c, Delay(req[c].attempt)) ELSE Ends(c, "error")
           \/ \E after \in RetryAfters :
                IF again THEN Retries(c, Larger(Delay(req[c].attempt), after)) ELSE Ends(c, "error")
           \/ Ends(c, "error")
           \/ Ends(c, "ok")

\* The caller takes its answer (or the exception) and may call again.
Take(c) ==
    /\ req[c].pc \in {"ok", "error"}
    /\ req' = [req EXCEPT ![c] = Idle]
    /\ UNCHANGED <<sec, min, admitted>>

\* A call that has left its window is as old as the window from then on.
Older(window, len) == [i \in DOMAIN window |-> IF window[i] < len THEN window[i] + 1 ELSE len]

Elapse ==
    /\ sec' = Older(sec, SecLen) /\ min' = Older(min, MinLen)
    /\ admitted' = Younger(Older(admitted, MinLen), MinLen)
    /\ req' = [c \in Callers |-> [req[c] EXCEPT !.left = IF @ > 0 THEN @ - 1 ELSE 0]]

-----------------------------------------------------------------------------
(* The limiter's promise: no window of SecLen ticks holds more than           *)
(* PerSecond admitted calls and none of MinLen more than PerMinute, although  *)
(* the threads sleep outside the lock on waits that are stale when they wake. *)
RateKept ==
    /\ Len(admitted) <= PerMinute
    /\ \A i \in DOMAIN admitted :
          i + PerSecond \in DOMAIN admitted => admitted[i] - admitted[i + PerSecond] >= SecLen
=============================================================================
