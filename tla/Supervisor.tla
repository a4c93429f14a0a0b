------------------------------ MODULE Supervisor ------------------------------
(***************************************************************************)
(* Application's supervision of its long-running tasks: a task that raises *)
(* or returns while the service runs is reported, restarted after a        *)
(* backoff and, past its restart limit, given up, which shuts the service  *)
(* down when the task is critical.  _supervise waits for the tasks it saw  *)
(* unfinished when it last looked, then handles those that finished one    *)
(* after the other, sleeping through each backoff.                         *)
(***************************************************************************)
EXTENDS Integers, FiniteSets

CONSTANTS
    Tasks, Critical,  \* the supervised tasks; those without which the service stops
    Flush,            \* the task whose loop runs _recovery_check
    Agents, AgentOf,  \* AgentRegistry's ids and TaskSpec.agent, which tasks may share
    MaxRestarts,      \* TaskSpec.max_restarts
    QuietBackoff      \* do all tasks run on while one waits for its restart?

ASSUME TasksAssumption == Critical \subseteq Tasks /\ Flush \in Tasks
ASSUME AgentsAssumption == AgentOf \in [Tasks -> Agents]
ASSUME RestartsAssumption == MaxRestarts \in [Tasks -> Nat]
ASSUME QuietAssumption == QuietBackoff \in BOOLEAN

VARIABLES
    status,    \* asyncio's view of each task
    phase,     \* where _supervise is
    watched,   \* tasks handed to asyncio.wait
    batch,     \* finished tasks it has yet to handle
    current,   \* the task whose backoff it sleeps through (as a set of one, or {})
    stop,      \* the stop event
    restarts,  \* TaskSpec.restarts
    lastCrash, \* TaskSpec.last_crash_id: the restart number of the report, 0 for None
    settled,   \* tasks running long enough since their start to count as recovered
    agent,     \* AgentRegistry's state of each agent
    report     \* crash reports by task and restart number: recovery_result

vars == <<status, phase, watched, batch, current, stop, restarts, lastCrash, settled, agent, report>>

Finished == {"raised", "returned"}
Running  == {t \in Tasks : status[t] = "running"}
Numbers(t) == 1..(MaxRestarts[t] + 1)

Init ==
    /\ status = [t \in Tasks |-> "running"]
    /\ phase = "waiting" /\ watched = Tasks /\ batch = {} /\ current = {}
    /\ stop = FALSE
    /\ restarts = [t \in Tasks |-> 0] /\ lastCrash = [t \in Tasks |-> 0]
    /\ settled = {}
    /\ agent = [a \in Agents |-> "HEALTHY"]
    /\ report = [t \in Tasks |-> [n \in Numbers(t) |-> "none"]]

-----------------------------------------------------------------------------
(* The tasks *)

\* A task raises or returns, at any moment the event loop is not in the supervisor.
Exit(t, how) ==
    /\ status[t] = "running"
    /\ phase \in {"waiting", "backoff"} /\ (QuietBackoff => phase = "waiting")
    /\ status' = [status EXCEPT ![t] = how]
    /\ UNCHANGED <<phase, watched, batch, current, stop, restarts, lastCrash, settled, agent, report>>

Settle(t) ==
    /\ status[t] = "running" /\ t \notin settled
    /\ settled' = settled \union {t}
    /\ UNCHANGED <<status, phase, watched, batch, current, stop, restarts, lastCrash, agent, report>>

\* SIGINT, SIGTERM
Signal ==
    /\ ~stop /\ stop' = TRUE
    /\ UNCHANGED <<status, phase, watched, batch, current, restarts, lastCrash, settled, agent, report>>

\* Mutant of Recovered: a task that is done counts as well.
RecoveredThoughDone == {t \in settled : lastCrash[t] # 0}

\* _recovery_check, from the flush loop, over every task.
Recovered == {t \in Running \intersect settled : lastCrash[t] # 0}

AgentsOf(S) == {AgentOf[t] : t \in S}

RecoveryCheck ==
    /\ status[Flush] = "running" /\ Recovered # {}
    /\ report' = [t \in Tasks |-> IF t \in Recovered
                                  THEN [report[t] EXCEPT ![lastCrash[t]] = "success"] ELSE report[t]]
    /\ lastCrash' = [t \in Tasks |-> IF t \in Recovered THEN 0 ELSE lastCrash[t]]
    /\ agent' = [a \in Agents |-> IF a \in AgentsOf(Recovered) THEN "HEALTHY" ELSE agent[a]]
    /\ UNCHANGED <<status, phase, watched, batch, current, stop, restarts, settled>>

-----------------------------------------------------------------------------
(* _supervise *)

\* The loop goes on to the rest of its batch, or to its top: it ends when stop is set and
\* otherwise waits for the tasks that are unfinished now.
Proceed(rest, stopping, alive) ==
    /\ batch' = rest
    /\ phase' = IF rest # {} THEN "handling" ELSE IF stopping THEN "ended" ELSE "waiting"
    /\ watched' = IF rest = {} /\ ~stopping THEN alive ELSE {}

\* Mutant of Wake: the stop event is not among the awaited.
WakeOnTasksOnly ==
    /\ phase = "waiting" /\ watched \ Running # {}
    /\ phase' = (IF stop THEN "ended" ELSE "handling")
    /\ batch' = (IF stop THEN {} ELSE watched \ Running)
    /\ watched' = {}
    /\ UNCHANGED <<status, current, stop, restarts, lastCrash, settled, agent, report>>

Wake ==
    /\ phase = "waiting"
    /\ \/ /\ stop
          /\ phase' = "ended" /\ batch' = {}
       \/ /\ ~stop /\ watched \ Running # {}
          /\ phase' = "handling" /\ batch' = watched \ Running
    /\ watched' = {}
    /\ UNCHANGED <<status, current, stop, restarts, lastCrash, settled, agent, report>>

\* An orderly return while stopping.
IgnoreExit(t) ==
    /\ status[t] = "returned" /\ stop
    /\ Proceed(batch \ {t}, stop, Running)
    /\ UNCHANGED <<status, current, stop, restarts, lastCrash, settled, agent, report>>

Fails(t) == status[t] = "raised" \/ ~stop

\* Past its limit the task is given up; a critical one takes the service down.  (Its agent
\* is DEGRADED in between, which no other coroutine sees.)
GiveUp(t) ==
    /\ Fails(t) /\ restarts[t] >= MaxRestarts[t]
    /\ report' = [report EXCEPT ![t][restarts[t] + 1] = "failed"]
    /\ lastCrash' = [lastCrash EXCEPT ![t] = restarts[t] + 1]
    /\ agent' = [agent EXCEPT ![AgentOf[t]] = "FAILED"]
    /\ stop' = (stop \/ t \in Critical)
    /\ Proceed(batch \ {t}, stop', Running)
    /\ UNCHANGED <<status, current, restarts, settled>>

\* Mutant of ScheduleRestart: one restart too many.
ScheduleOnceMore(t) ==
    /\ Fails(t) /\ restarts[t] < MaxRestarts[t] + 1
    /\ report' = [report EXCEPT ![t][restarts[t] + 1] = "pending"]
    /\ lastCrash' = [lastCrash EXCEPT ![t] = restarts[t] + 1]
    /\ agent' = [agent EXCEPT ![AgentOf[t]] = "RESTARTING"]
    /\ restarts' = [restarts EXCEPT ![t] = @ + 1]
    /\ phase' = "backoff" /\ current' = {t} /\ batch' = batch \ {t}
    /\ UNCHANGED <<status, watched, stop, settled>>

\* Otherwise it is reported and its backoff begins.
ScheduleRestart(t) ==
    /\ Fails(t) /\ restarts[t] < MaxRestarts[t]
    /\ report' = [report EXCEPT ![t][restarts[t] + 1] = "pending"]
    /\ lastCrash' = [lastCrash EXCEPT ![t] = restarts[t] + 1]
    /\ agent' = [agent EXCEPT ![AgentOf[t]] = "RESTARTING"]
    /\ restarts' = [restarts EXCEPT ![t] = @ + 1]
    /\ phase' = "backoff" /\ current' = {t} /\ batch' = batch \ {t}
    /\ UNCHANGED <<status, watched, stop, settled>>

HandleExit(t) ==
    /\ phase = "handling" /\ t \in batch
    /\ IgnoreExit(t) \/ GiveUp(t) \/ ScheduleRestart(t)

\* The backoff has elapsed: the task starts again, unless shutdown began meanwhile.
Restart ==
    /\ phase = "backoff" /\ ~stop
    /\ status' = [t \in Tasks |-> IF t \in current THEN "running" ELSE status[t]]
    /\ settled' = settled \ current
    /\ current' = {}
    /\ Proceed(batch, stop, Running \union current)
    /\ UNCHANGED <<stop, restarts, lastCrash, agent, report>>

CutShort ==
    /\ phase = "backoff" /\ stop
    /\ current' = {}
    /\ Proceed(batch, stop, Running)
    /\ UNCHANGED <<status, stop, restarts, lastCrash, settled, agent, report>>

Shutdown ==
    /\ phase = "ended"
    /\ phase' = "shut" /\ stop' = TRUE
    /\ status' = [t \in Tasks |-> IF status[t] = "running" THEN "cancelled" ELSE status[t]]
    /\ agent' = [a \in Agents |-> IF agent[a] = "FAILED" THEN "FAILED" ELSE "STOPPED"]
    /\ UNCHANGED <<watched, batch, current, restarts, lastCrash, settled, report>>

Supervise == Wake \/ (\E t \in Tasks : HandleExit(t)) \/ Restart \/ CutShort \/ Shutdown

Next ==
    \/ \E t \in Tasks, how \in Finished : Exit(t, how)
    \/ \E t \in Tasks : Settle(t)
    \/ Signal \/ RecoveryCheck
    \/ Supervise

Spec == Init /\ [][Next]_vars

\* The supervisor is a coroutine on the running loop, and every backoff is finite.
FairSpec == Spec /\ WF_vars(Supervise)

-----------------------------------------------------------------------------
(* Properties *)

\* The supervisor's bookkeeping keeps its types and restart counters stay within limits.
TypeOK ==
    /\ status \in [Tasks -> {"running", "cancelled"} \union Finished]
    /\ phase \in {"waiting", "handling", "backoff", "ended", "shut"}
    /\ watched \subseteq Tasks /\ batch \subseteq Tasks /\ current \subseteq Tasks
    /\ stop \in BOOLEAN /\ settled \subseteq Tasks
    /\ restarts \in [Tasks -> Nat] /\ lastCrash \in [Tasks -> Nat]
    /\ \A t \in Tasks : restarts[t] <= MaxRestarts[t] /\ lastCrash[t] \in {0} \union Numbers(t)
    /\ agent \in [Agents -> {"HEALTHY", "RESTARTING", "FAILED", "STOPPED"}]
    /\ DOMAIN report = Tasks
    /\ \A t \in Tasks : report[t] \in [Numbers(t) -> {"none", "pending", "success", "failed"}]

\* The report of its last crash says so.
GivenUp(t) == report[t][MaxRestarts[t] + 1] = "failed"

\* As long as the process lives, a task that was given up past its restart limit never runs
\* again, and its crash report stays failed, whatever the recovery check and the restarts of
\* others do; an agent all of whose tasks are given up is FAILED and stays so.
GivenUpIsFinal ==
    [][(phase = "shut" => phase' = "shut") =>
       /\ \A t \in Tasks : GivenUp(t) => GivenUp(t)' /\ status'[t] # "running"
       /\ \A a \in AgentsOf(Tasks) :
             (\A t \in Tasks : AgentOf[t] = a => GivenUp(t)) => agent[a] = "FAILED" /\ agent'[a] = "FAILED"]_vars

\* agents.py: after the restart threshold FAILED is terminal.  As long as the process lives,
\* an agent that is FAILED stays FAILED, whatever happens to other tasks.
FailedIsTerminal ==
    [][(phase = "shut" => phase' = "shut") =>
       \A a \in Agents : agent[a] = "FAILED" => agent'[a] = "FAILED"]_vars

\* README: repeated failure shuts the service down.  Once a critical task is given up, or
\* a signal arrives, the service ends with nothing running, even in the middle of a
\* backoff and whatever tasks fail on the way.
StopEndsService ==
    stop \/ (\E t \in Critical : GivenUp(t))
        ~> phase = "shut" /\ \A t \in Tasks : status[t] # "running"

\* README: a supervised task that fails or returns while the service runs is restarted,
\* until it is given up or the service stops.
EveryExitIsHandled ==
    \A t \in Tasks : status[t] \in Finished ~> status[t] = "running" \/ stop \/ GivenUp(t)

\* crash.py: detect, report, restart, recover (resolve the report).  An agent that is
\* healthy again has no crash report left open.
HealthyMeansResolved ==
    \A t \in Tasks : agent[AgentOf[t]] = "HEALTHY" => \A n \in Numbers(t) : report[t][n] # "pending"
=============================================================================
