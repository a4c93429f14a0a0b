------------------------------- MODULE Notices --------------------------------
(* How a change of state reaches Discord: the event bus drops what it has told   *)
(* lately (events.py), the channel queues, merges and paces the rest             *)
(* (discord/ops.py, OpsChannel), the client's flush loop sends it (bot.py).      *)
(* Times are ages, as old as they still matter.                                  *)
EXTENDS Integers, SequencesExt

CONSTANTS
    NoKey,         \* an event without a dedupe key is never held back
    ReminderLen,   \* reminder_interval of the bus
    PerMinute,     \* max_per_minute of the channel
    MinuteLen,     \* a minute
    WindowLen,     \* batch_window
    BatchMost      \* updates that are merged without waiting for the window

ASSUME NoticesAssumption ==
    /\ ReminderLen \in Nat /\ WindowLen \in Nat
    /\ PerMinute \in Nat \ {0} /\ MinuteLen \in Nat \ {0} /\ BatchMost \in Nat \ {0}

VARIABLES
    last,     \* _last_by_key: severity and age by dedupe key
    queue,    \* OpsChannel.queue
    stamps,   \* _sent_times of the last minute
    sending,  \* what due() handed to the flush loop and was not sent
    untold,   \* history: updates published and neither sent, tried nor announced as suppressed
    sends     \* history: ages of the sends of the last minute

noticeVars == <<last, queue, stamps, sending, untold, sends>>

NoticesInit ==
    /\ last = [k \in {} |-> NoKey]
    /\ queue = <<>> /\ stamps = <<>> /\ sending = <<>>
    /\ untold = 0 /\ sends = <<>>

\* A message stands for n updates of its own and those it announces as suppressed.
Message(batch, n, age) == [batch |-> batch, n |-> n, announces |-> 0, age |-> age]

Updates(q) ==
    LET upTo[i \in 0..Len(q)] == IF i = 0 THEN 0 ELSE upTo[i-1] + q[i].n + q[i].announces
    IN  upTo[Len(q)]

ShouldPublish(l, e) ==
    \/ e.key = NoKey \/ e.key \notin DOMAIN l
    \/ l[e.key].sev # e.sev \/ l[e.key].age >= ReminderLen

\* SystemEventBus.publish, and the channel's on_event.
Publish(w, e) ==
    IF ~ShouldPublish(w.last, e) THEN w
    ELSE [last   |-> [k \in DOMAIN w.last \cup ({e.key} \ {NoKey}) |->
                        IF k = e.key THEN [sev |-> e.sev, age |-> 0] ELSE w.last[k]],
          queue  |-> Append(w.queue, Message(e.batch, 1, 0)),
          untold |-> w.untold + 1]

Tell(events) ==
    LET told[i \in 0..Len(events)] ==
            IF i = 0 THEN [last |-> last, queue |-> queue, untold |-> untold]
            ELSE Publish(told[i-1], events[i])
    IN  \E w \in {told[Len(events)]} :
            /\ last' = w.last /\ queue' = w.queue /\ untold' = w.untold
            /\ UNCHANGED <<stamps, sending, sends>>

\* The oldest come first: those that turn a minute old are the first ones.
Expired(ages) == {i \in DOMAIN ages : \A j \in 1..i : ages[j] + 1 >= MinuteLen}
Older(ages)   == SubSeq([i \in DOMAIN ages |-> ages[i] + 1], Cardinality(Expired(ages)) + 1, Len(ages))

Tick ==
    /\ last' = [k \in DOMAIN last |-> [last[k] EXCEPT !.age = IF @ < ReminderLen THEN @ + 1 ELSE @]]
    /\ queue' = [i \in DOMAIN queue |-> [queue[i] EXCEPT !.age = IF @ < WindowLen THEN @ + 1 ELSE @]]
    /\ stamps' = Older(stamps) /\ sends' = Older(sends)
    /\ UNCHANGED <<sending, untold>>

-----------------------------------------------------------------------------
(* due *)

Those(merged, q) ==
    LET those[i \in 0..Len(q)] ==
            IF i = 0 THEN <<>>
            ELSE IF q[i].batch = merged THEN Append(those[i-1], q[i]) ELSE those[i-1]
    IN  those[Len(q)]

Singles == Those(FALSE, queue)
Batch   == Those(TRUE, queue)

Ripe == Batch # <<>> /\ (Len(Batch) >= BatchMost \/ \E i \in DOMAIN Batch : Batch[i].age >= WindowLen)

Out ==
    Singles \o IF ~Ripe THEN <<>>
               ELSE IF Len(Batch) = 1 THEN Batch ELSE <<Message(FALSE, Updates(Batch), 0)>>

Held == IF Ripe THEN <<>> ELSE Batch

\* Mutant of Allowance: what was sent within the minute is forgotten.
AllowanceAnew == PerMinute

Allowance == IF Len(stamps) < PerMinute THEN PerMinute - Len(stamps) ELSE 0

Stamp(n) == stamps' = stamps \o [i \in 1..n |-> 0]

\* Mutant of Due: without an allowance everything is dropped.
DueDrops ==
    LET n == IF Len(Out) <= Allowance THEN Len(Out) ELSE Allowance
    IN  /\ sending = <<>> /\ queue # <<>>
        /\ sending' = SubSeq(Out, 1, n) /\ queue' = Held /\ Stamp(n)
        /\ UNCHANGED <<last, untold, sends>>

\* All that is ready; or, past the allowance, what fits, the last of it announcing the
\* rest; or nothing, and the same again at the next flush.
Due ==
    LET rest == SubSeq(Out, Allowance + 1, Len(Out))
        cut  == SubSeq(Out, 1, Allowance)
    IN  /\ sending = <<>> /\ queue # <<>>
        /\ \/ /\ Len(Out) <= Allowance
              /\ sending' = Out /\ queue' = Held /\ Stamp(Len(Out))
           \/ /\ Len(Out) > Allowance /\ Allowance > 0
              /\ sending' = [cut EXCEPT ![Allowance].announces = @ + Updates(rest)]
              /\ queue' = Held /\ Stamp(Allowance)
           \/ /\ Len(Out) > 0 /\ Allowance = 0
              /\ queue' = Out \o Held
              /\ UNCHANGED <<sending, stamps>>
        /\ UNCHANGED <<last, untold, sends>>

-----------------------------------------------------------------------------
(* _flush_once *)

\* The next message is sent, or refused by Discord: it is not tried again.
Send ==
    /\ sending # <<>>
    /\ sending' = Tail(sending)
    /\ untold' = untold - Updates(<<Head(sending)>>)
    /\ sends' = Append(sends, 0)
    /\ UNCHANGED <<last, queue, stamps>>

\* Another exception leaves the loop over due(): the rest of it is lost.
SendBreaks ==
    /\ sending # <<>>
    /\ sending' = <<>>
    /\ untold' = untold - Updates(sending)
    /\ UNCHANGED <<last, queue, stamps, sends>>

-----------------------------------------------------------------------------
(* Properties *)

\* ops.py, "caps the outbound rate": the cap counts what a flush takes, and a slow send
\* leaves its message to a later minute; still no minute ever sees more than twice the
\* cap, however the sends of one flush stretch into the next minute.
SendsArePaced == Len(sends) <= 2 * PerMinute

\* Past the bus no update disappears silently: through merging, requeueing and the rate
\* limit it is queued, about to be sent, or announced by a message that is.
NothingVanishes == untold = Updates(queue) + Updates(sending)
=============================================================================
