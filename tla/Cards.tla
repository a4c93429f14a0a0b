--------------------------------- MODULE Cards ---------------------------------
(***************************************************************************)
(* The way of a setup's view to its Discord card: the coalescer keeps the  *)
(* newest view of each setup until its debounce is over, the client's      *)
(* flush loop takes what is due and sends or patches one card after the    *)
(* other, and the message and the state it shows are recorded in           *)
(* discord_message_refs.  Sends fail, humans delete messages, and the      *)
(* process may crash between a send and its record.                        *)
(***************************************************************************)
EXTENDS Setups, Functions

CONSTANTS MaxFaults  \* bound: sends that fail, connections lost, messages deleted

ASSUME FaultsAssumption == MaxFaults \in Nat

VARIABLES
    pending,   \* UpdateCoalescer._pending: views by setup
    rendered,  \* UpdateCoalescer.rendered_hashes
    batch,     \* the views due() returned that are yet to be sent
    sending,   \* the card sent and not yet recorded: a set of at most one
    refs,      \* table discord_message_refs: message and state shown, by setup
    cards,     \* the channel: messages by number, in the order they were posted
    faults,
    missed     \* history: setups whose latest card was lost on the way or deleted since

cardVars == <<pending, rendered, batch, sending, refs, cards, faults, missed>>
vars == <<setupVars, cardVars>>

Init ==
    /\ SetupInit
    /\ pending = << >> /\ rendered = << >> /\ batch = << >> /\ sending = {}
    /\ refs = << >> /\ cards = << >>
    /\ faults = 0 /\ missed = {}

Observe == ObserverNext /\ UNCHANGED cardVars

\* Mutant of Offer: a setup already waiting keeps its first view.
OfferFirst(S) == [o \in DOMAIN pending \union S |-> IF o \in DOMAIN pending THEN pending[o] ELSE View(o)]

\* DiscordSink.publish: the newest view replaces the one that waits.
Offer(S) == [o \in DOMAIN pending \union S |-> IF o \in S THEN View(o) ELSE pending[o]]

Publish ==
    /\ \E S \in SUBSET DOMAIN rows :
          /\ FinishBar(S) \/ HigherBar(S)
          /\ pending' = Offer(S)
    /\ UNCHANGED <<rendered, batch, sending, refs, cards, faults, missed>>

\* The hash the coalescer takes for the card's: from memory, or from the table.
Showing(o, v) == IF o \in DOMAIN rendered THEN rendered[o] = v
                 ELSE o \in DOMAIN refs /\ refs[o].view = v

\* due: the debounce of the setups S is over; what the card shows already is skipped.
Due(S) ==
    /\ up /\ obs.phase = "idle" /\ batch = << >> /\ S # {}
    /\ pending' = Restrict(pending, DOMAIN pending \ S)
    /\ batch' = Restrict(pending, {o \in S : ~Showing(o, pending[o])})
    /\ UNCHANGED <<setupVars, rendered, sending, refs, cards, faults, missed>>

\* _render_and_send up to the answer of Discord: the first card of a setup is posted, ...
Post(o) ==
    /\ up /\ sending = {} /\ obs.phase = "idle"
    /\ o \notin DOMAIN refs
    /\ cards' = Append(cards, [setup |-> o, view |-> batch[o], deleted |-> FALSE])
    /\ sending' = {[setup |-> o, message |-> Len(cards')]}
    /\ UNCHANGED <<setupVars, pending, rendered, batch, refs, faults, missed>>

\* ... later ones patch it.
Patch(o) ==
    /\ up /\ sending = {} /\ obs.phase = "idle"
    /\ o \in DOMAIN refs /\ ~cards[refs[o].message].deleted
    /\ cards' = [cards EXCEPT ![refs[o].message].view = batch[o]]
    /\ sending' = {[setup |-> o, message |-> refs[o].message]}
    /\ UNCHANGED <<setupVars, pending, rendered, batch, refs, faults, missed>>

\* discord.NotFound: the reference is forgotten, the view is not sent again.
NotFound(o) ==
    /\ up /\ sending = {} /\ obs.phase = "idle"
    /\ o \in DOMAIN refs /\ cards[refs[o].message].deleted
    /\ refs' = Restrict(refs, DOMAIN refs \ {o})
    /\ rendered' = Restrict(rendered, DOMAIN rendered \ {o})
    /\ batch' = Restrict(batch, DOMAIN batch \ {o})
    /\ missed' = missed \union {o}
    /\ UNCHANGED <<setupVars, pending, sending, cards, faults>>

\* Mutant of Ref: the reference is kept for cards that were patched only.
RefOfPatched(s) == IF s.setup \in DOMAIN refs
                   THEN Put(refs, s.setup, [message |-> s.message, view |-> batch[s.setup]]) ELSE refs

\* refs.record
Ref(s) == Put(refs, s.setup, [message |-> s.message, view |-> batch[s.setup]])

\* refs.record and mark_rendered, once the send has returned.
Record(s) ==
    /\ up /\ obs.phase = "idle"
    /\ refs' = Ref(s)
    /\ rendered' = Put(rendered, s.setup, batch[s.setup])
    /\ batch' = Restrict(batch, DOMAIN batch \ {s.setup})
    /\ sending' = {}
    /\ missed' = IF cards[s.message].deleted THEN missed ELSE missed \ {s.setup}
    /\ UNCHANGED <<setupVars, pending, cards, faults>>

\* Another HTTPException drops the view; any other error escapes _flush_once, with the batch.
SendFails(S) ==
    /\ up /\ sending = {} /\ obs.phase = "idle" /\ faults < MaxFaults
    /\ Cardinality(S) = 1 \/ S = DOMAIN batch
    /\ batch' = Restrict(batch, DOMAIN batch \ S)
    /\ missed' = missed \union S
    /\ faults' = faults + 1
    /\ UNCHANGED <<setupVars, pending, rendered, sending, refs, cards>>

\* A human deletes a card.
DeleteCard(m) ==
    /\ obs.phase = "idle" /\ faults < MaxFaults /\ ~cards[m].deleted
    /\ cards' = [cards EXCEPT ![m].deleted = TRUE]
    /\ missed' = missed \union {cards[m].setup}
    /\ faults' = faults + 1
    /\ UNCHANGED <<setupVars, pending, rendered, batch, sending, refs>>

\* The coalescer and the batch die with the process; a card sent last stays unrecorded.
Die ==
    /\ Crash
    /\ pending' = << >> /\ rendered' = << >> /\ batch' = << >> /\ sending' = {}
    /\ UNCHANGED <<refs, cards, faults, missed>>

Next ==
    \/ Observe
    \/ Publish
    \/ BarCloses /\ UNCHANGED cardVars
    \/ \E S \in SUBSET DOMAIN pending : Due(S)
    \/ \E o \in DOMAIN batch : Post(o) \/ Patch(o) \/ NotFound(o)
    \/ \E s \in sending : Record(s)
    \/ \E S \in (SUBSET DOMAIN batch) \ {{}} : SendFails(S)
    \/ \E m \in DOMAIN cards : DeleteCard(m)
    \/ Die
    \/ Restart /\ UNCHANGED cardVars

Spec == Init /\ [][Next]_vars

-----------------------------------------------------------------------------
(* Properties *)

\* Types: views, references and cards name setups of the table, at most one send is under way.
TypeOK ==
    /\ SetupTypeOK
    /\ \A f \in {pending, rendered, batch, refs} : DOMAIN f \subseteq DOMAIN rows
    /\ \A v \in Range(pending) \union Range(rendered) \union Range(batch) :
          v.state \in States /\ v.event \in Nat
    /\ Cardinality(sending) <= 1 /\ \A s \in sending : s.setup \in DOMAIN batch
    /\ \A o \in DOMAIN refs : cards[refs[o].message].setup = o
    /\ missed \subseteq DOMAIN rows /\ faults \in 0..MaxFaults

Standing == {m \in DOMAIN cards : ~cards[m].deleted}

\* "Cards are created once per setup" (README "Discord card"): there are as many standing cards as
\* setups with one, plus at most one per crash, which may have come between a send and its record.
OneCardEach ==
    Cardinality(Standing) <= Cardinality({cards[m].setup : m \in Standing}) + crashes

ShownBy(o) == o \in DOMAIN refs /\ ~cards[refs[o].message].deleted
                                /\ cards[refs[o].message].view = View(o)

AllSent == up /\ obs.phase = "idle" /\ pending = << >> /\ batch = << >>

\* Once the queue is empty, and an observer has published since its start, the card of every open
\* setup shows its state and last event, whatever was coalesced or skipped as unchanged in between,
\* and wherever the process crashed, once: only a card that was lost or deleted on the way (missed)
\* may be behind.  A second crash may leave it behind, see SkippedIsShown.
OpenCardsCurrent ==
    AllSent /\ obs.published # << >> => \A o \in Open \ missed : ShownBy(o)

\* The same of setups that ended.  README "Discord card": "PATCHed only when the material state
\* hash changes (state, ...)"; a setup that ends while bars are replayed, or whose view is lost in
\* a crash, is not looked at again, and its card stays in a state it has left.
EndedCardsCurrent ==
    AllSent /\ obs.published # << >> => \A o \in DOMAIN refs \ missed : ShownBy(o)

\* "`due(now)` releases a setup once ... its state hash differs from the last rendered hash (message
\* refs)" (discord/coalescer.py:4): a view that is skipped as unchanged is the one the card shows.
\* The hash in the table is the last one recorded; a card patched before a crash shows another.
SkippedIsShown ==
    [][up' => \A o \in DOMAIN pending \ (DOMAIN pending' \union DOMAIN batch' \union missed) :
                 o \in DOMAIN refs /\ cards[refs[o].message].view = pending[o]]_vars
=============================================================================
