----------------------------- MODULE Application ------------------------------
(* The supervised tasks, a rollover inside the housekeeping task, and what is    *)
(* told of them: an exception that leaves roll_symbol ends housekeeping, the     *)
(* supervisor reports and restarts it, and the reports go to the event bus.      *)
EXTENDS Supervisor, Notices, Rollover

CONSTANTS
    Feed, Housekeeping,  \* the tasks that run the feed and the housekeeping loop
    Scopes        \* bound: which tasks may fail by themselves, and what else happens

ASSUME TaskAssumption == IsFiniteSet(Tasks) /\ Feed \in Tasks /\ Housekeeping \in Tasks
ASSUME ScopeAssumption ==
    \A s \in Scopes : s.exits \subseteq Tasks /\ s.rolls \in BOOLEAN /\ s.tells \in BOOLEAN

VARIABLE scope   \* which of them, fixed at the start

appVars == <<vars, noticeVars, rolloverVars, scope>>

-----------------------------------------------------------------------------
(* Reports *)

\* AgentRegistry.set_state: the event of a change, which only a recovery (not from FAILED)
\* or a failure sends as a message of its own.
Change(a, old, new) ==
    IF old = new THEN <<>>
    ELSE << [key |-> <<a, old, new>>,
             sev |-> IF new = "HEALTHY" THEN "INFO" ELSE IF new = "FAILED" THEN "ERROR" ELSE "WARNING",
             batch |-> ~(new = "FAILED" \/ (new = "HEALTHY" /\ old \in {"DEGRADED", "RESTARTING"}))] >>

Report(sev) == <<[key |-> NoKey, sev |-> sev, batch |-> FALSE]>>

\* A failed task: its crash report, the agent degraded, then restarting or given up.
FailureEvents(t) ==
    IF ~Fails(t) THEN <<>>
    ELSE Report("ERROR") \o Change(AgentOf[t], agent[AgentOf[t]], "DEGRADED") \o
         IF restarts[t] < MaxRestarts[t] THEN Change(AgentOf[t], "DEGRADED", "RESTARTING")
         ELSE Change(AgentOf[t], "DEGRADED", "FAILED") \o IF t \in Critical THEN Report("CRITICAL") ELSE <<>>

\* What the agent of the i-th of the tasks is when its turn comes: an earlier one may share it.
StateAt(S, i) ==
    IF \E k \in 1..(i-1) : AgentOf[S[k]] = AgentOf[S[i]] THEN "HEALTHY" ELSE agent[AgentOf[S[i]]]

\* A recovered one: its report resolved, the agent healthy.
RecoveryEvents ==
    LET S == SetToSeq(Recovered)
        upTo[i \in 0..Len(S)] ==
            IF i = 0 THEN <<>>
            ELSE upTo[i-1] \o Report("INFO") \o Change(AgentOf[S[i]], StateAt(S, i), "HEALTHY")
    IN  upTo[Len(S)]

Told(events) == IF scope.tells THEN \E es \in {events} : Tell(es) ELSE UNCHANGED noticeVars

-----------------------------------------------------------------------------
(* Steps *)

Silently == UNCHANGED <<noticeVars, rolloverVars, scope>>
Alone    == UNCHANGED <<vars, noticeVars, scope>>

\* A task that never crashed has nothing to recover from.
TaskStep ==
    /\ \/ \E t \in scope.exits, how \in Finished : Exit(t, how)
       \/ \E t \in scope.exits : lastCrash[t] # 0 /\ Settle(t)
       \/ ~scope.rolls /\ ~scope.tells /\ Signal
    /\ Silently

Recovery == RecoveryCheck /\ Told(RecoveryEvents) /\ UNCHANGED <<rolloverVars, scope>>

Handle ==
    /\ \E t \in Tasks : HandleExit(t) /\ Told(FailureEvents(t))
    /\ UNCHANGED <<rolloverVars, scope>>

\* shutdown() says APP_STOPPED, but nothing flushes the channel any more.
End == Shutdown /\ Gone /\ UNCHANGED <<today, active, files, faults, noticeVars, scope>>

SupervisorStep == Handle \/ ((Wake \/ Restart \/ CutShort) /\ Silently) \/ End

RollStep ==
    /\ status[Housekeeping] = "running" /\ Rolling
    /\ IF roll.pc = "unsubscribe" /\ roll.cut THEN Exit(Housekeeping, "raised") ELSE UNCHANGED vars
    /\ UNCHANGED <<noticeVars, scope>>

ConnectStep == status[Feed] = "running" /\ Connect /\ Alone
AnswerStep  == Answers /\ Alone
RecoverStep == RecoverStart /\ Alone

RolloverStep ==
    \/ (DayPasses \/ MinuteEnds \/ Resubscribe \/ Drop \/ VerifyStart) /\ Alone
    \/ (\E c \in Contracts : QueueMinute(c)) /\ Alone
    \/ (\E m \in Masters : status[Housekeeping] = "running" /\ RollStart(m)) /\ Alone
    \/ RollStep \/ ConnectStep \/ AnswerStep \/ RecoverStep

\* The process is killed, and started again.
ProcessCrash ==
    /\ Crash
    /\ phase' = "shut" /\ status' = [t \in Tasks |-> "cancelled"]
    /\ watched' = {} /\ batch' = {} /\ current' = {}
    /\ UNCHANGED <<stop, restarts, lastCrash, settled, agent, report, noticeVars, scope>>

StartAgain ==
    /\ running = None /\ scope.rolls
    /\ \E m \in Masters, hole \in BOOLEAN : Start(m, hole)
    /\ status' = [t \in Tasks |-> "running"]
    /\ phase' = "waiting" /\ watched' = Tasks /\ batch' = {} /\ current' = {}
    /\ stop' = FALSE /\ settled' = {}
    /\ restarts' = [t \in Tasks |-> 0] /\ lastCrash' = [t \in Tasks |-> 0]
    /\ agent' = [a \in Agents |-> "HEALTHY"]
    /\ report' = [t \in Tasks |-> [n \in Numbers(t) |-> "none"]]
    /\ UNCHANGED <<noticeVars, scope>>

NoticeStep == scope.tells /\ (Tick \/ Due \/ Send \/ SendBreaks) /\ UNCHANGED <<vars, rolloverVars, scope>>

AppInit == 
    /\ scope \in Scopes
    /\ Init /\ NoticesInit /\ RolloverInit
    /\ scope.rolls \/ pipe[running].hole

AppNext ==
    \/ TaskStep \/ Recovery \/ SupervisorStep
    \/ scope.rolls /\ (RolloverStep \/ ProcessCrash)
    \/ StartAgain
    \/ NoticeStep

\* The event loop runs what is ready: the supervisor, the answers that come back, the
\* rollover, a spawned recovery, and the feed's reconnect.
AppSpec ==
    /\ AppInit /\ [][AppNext]_appVars
    /\ WF_appVars(SupervisorStep)
    /\ WF_appVars(scope.rolls /\ RollStep) /\ WF_appVars(scope.rolls /\ ConnectStep)
    /\ WF_appVars(scope.rolls /\ AnswerStep) /\ WF_appVars(scope.rolls /\ RecoverStep)
=============================================================================
