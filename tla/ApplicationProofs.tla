-------------------------- MODULE ApplicationProofs ---------------------------
(* The composition keeps what its parts promise: supervision, the routing of     *)
(* ticks during a rollover, and the accounting of notices, through restarts of   *)
(* tasks and of the process.  Every step of the composition is a step of the     *)
(* parts it names and leaves the others alone, but for the end of a process.     *)
EXTENDS Application, NoticesProofs, Basics

-----------------------------------------------------------------------------
(* A task the supervisor has given up stays down, for any set of tasks and any   *)
(* restart limits.                                                               *)

\* What a step of the loop to its rest or to its top does keeps the types.
LEMMA ProceedType ==
    ASSUME NEW rest \in SUBSET Tasks, NEW stopping \in BOOLEAN, NEW alive \in SUBSET Tasks,
           Proceed(rest, stopping, alive)
    PROVE  /\ phase' \in {"waiting", "handling", "ended"}
           /\ batch' \in SUBSET Tasks /\ watched' \in SUBSET Tasks
           /\ batch' = rest /\ watched' \in {{}, alive}
BY DEF Proceed

\* A supervisor that has just started its tasks is typed.
LEMMA InitType == Init => TypeOK
<1> SUFFICES ASSUME Init PROVE TypeOK
  OBVIOUS
<1>1. \A t \in Tasks : restarts[t] = 0 /\ lastCrash[t] = 0 /\ MaxRestarts[t] \in Nat
  BY RestartsAssumption DEF Init
<1>2. \A t \in Tasks : report[t] \in [Numbers(t) -> {"none", "pending", "success", "failed"}]
  BY DEF Init
<1>3. \A t \in Tasks : restarts[t] <= MaxRestarts[t] /\ lastCrash[t] \in {0} \union Numbers(t)
  BY <1>1
<1>4. status \in [Tasks -> {"running", "cancelled"} \union Finished]
  BY DEF Init
<1>5. /\ agent \in [Agents -> {"HEALTHY", "RESTARTING", "FAILED", "STOPPED"}]
      /\ restarts \in [Tasks -> Nat] /\ lastCrash \in [Tasks -> Nat]
  BY DEF Init
<1> QED
  BY <1>2, <1>3, <1>4, <1>5 DEF Init, TypeOK

\* A restart number within the limit names a report.
LEMMA NextNumber ==
    ASSUME TypeOK, NEW t \in Tasks, restarts[t] <= MaxRestarts[t]
    PROVE  restarts[t] + 1 \in Numbers(t)
BY RestartsAssumption DEF TypeOK, Numbers

\* Giving a task up keeps the types.
LEMMA GiveUpType ==
    ASSUME TypeOK, NEW t \in Tasks, phase = "handling", t \in batch, GiveUp(t)
    PROVE  TypeOK'
<1>1. /\ phase' \in {"waiting", "handling", "ended"}
      /\ batch' \in SUBSET Tasks /\ watched' \in SUBSET Tasks
  <2>1. batch \ {t} \in SUBSET Tasks /\ stop' \in BOOLEAN /\ Running \in SUBSET Tasks
    BY DEF TypeOK, GiveUp, Running
  <2> QED
    BY <2>1, ProceedType DEF GiveUp
<1>2. restarts[t] + 1 \in Numbers(t)
  BY NextNumber DEF TypeOK
<1>3. \A u \in Tasks : report'[u] \in [Numbers(u) -> {"none", "pending", "success", "failed"}]
  BY <1>2 DEF GiveUp, TypeOK
<1>4. /\ lastCrash' \in [Tasks -> Nat]
      /\ \A u \in Tasks : lastCrash'[u] \in {0} \union Numbers(u)
  BY <1>2 DEF GiveUp, TypeOK, Numbers
<1>5. /\ stop' \in BOOLEAN
      /\ agent' \in [Agents -> {"HEALTHY", "RESTARTING", "FAILED", "STOPPED"}]
  BY DEF GiveUp, TypeOK
<1> QED
  BY <1>1, <1>3, <1>4, <1>5 DEF GiveUp, TypeOK

\* So does scheduling a restart.
LEMMA ScheduleType ==
    ASSUME TypeOK, NEW t \in Tasks, phase = "handling", t \in batch, ScheduleRestart(t)
    PROVE  TypeOK'
<1>1. restarts[t] + 1 \in Numbers(t)
  BY NextNumber DEF TypeOK
<1>2. \A u \in Tasks : report'[u] \in [Numbers(u) -> {"none", "pending", "success", "failed"}]
  BY <1>1 DEF ScheduleRestart, TypeOK
<1>3. /\ lastCrash' \in [Tasks -> Nat]
      /\ \A u \in Tasks : lastCrash'[u] \in {0} \union Numbers(u)
  BY <1>1 DEF ScheduleRestart, TypeOK, Numbers
<1>4. /\ restarts' \in [Tasks -> Nat]
      /\ \A u \in Tasks : restarts'[u] <= MaxRestarts[u]
  <2>1. restarts[t] \in Nat /\ MaxRestarts[t] \in Nat /\ restarts[t] < MaxRestarts[t]
    BY RestartsAssumption DEF ScheduleRestart, TypeOK
  <2>2. restarts' = [restarts EXCEPT ![t] = restarts[t] + 1]
    BY DEF ScheduleRestart
  <2>3. restarts[t] + 1 \in Nat /\ restarts[t] + 1 <= MaxRestarts[t]
    BY <2>1
  <2> QED
    BY <2>2, <2>3 DEF TypeOK
<1>5. agent' \in [Agents -> {"HEALTHY", "RESTARTING", "FAILED", "STOPPED"}]
  BY DEF ScheduleRestart, TypeOK
<1> QED
  BY <1>2, <1>3, <1>4, <1>5 DEF ScheduleRestart, TypeOK

\* So does a pass of the recovery check.
LEMMA RecoveryType ==
    ASSUME TypeOK, RecoveryCheck
    PROVE  TypeOK'
<1>1. \A t \in Recovered : lastCrash[t] \in Numbers(t)
  BY DEF Recovered, Running, TypeOK
<1>2. \A t \in Tasks : report'[t] \in [Numbers(t) -> {"none", "pending", "success", "failed"}]
  BY <1>1 DEF RecoveryCheck, TypeOK
<1>3. /\ lastCrash' \in [Tasks -> Nat]
      /\ \A t \in Tasks : lastCrash'[t] \in {0} \union Numbers(t)
  BY DEF RecoveryCheck, TypeOK
<1>4. agent' \in [Agents -> {"HEALTHY", "RESTARTING", "FAILED", "STOPPED"}]
  BY DEF RecoveryCheck, TypeOK
<1> QED
  BY <1>2, <1>3, <1>4 DEF RecoveryCheck, TypeOK

\* And every other action: one case each.
LEMMA StepType == TypeOK /\ [Next]_vars => TypeOK'
<1> SUFFICES ASSUME TypeOK, [Next]_vars PROVE TypeOK'
  OBVIOUS
<1> USE DEF TypeOK, Finished
<1>1. ASSUME NEW t \in Tasks, NEW how \in Finished, Exit(t, how) PROVE TypeOK'
  BY <1>1 DEF Exit
<1>2. ASSUME NEW t \in Tasks, Settle(t) PROVE TypeOK'
  BY <1>2 DEF Settle
<1>3. CASE Signal
  BY <1>3 DEF Signal
<1>4. CASE Wake
  <2>1. /\ phase' \in {"waiting", "handling", "ended"} /\ batch' \subseteq Tasks /\ watched' = {}
    BY <1>4 DEF Wake, Running
  <2> QED
    BY <1>4, <2>1 DEF Wake
<1>5. ASSUME NEW t \in Tasks, HandleExit(t) PROVE TypeOK'
  <2>1. CASE IgnoreExit(t)
    <3>1. batch \ {t} \in SUBSET Tasks /\ Running \in SUBSET Tasks /\ stop \in BOOLEAN
      BY DEF Running
    <3>2. Proceed(batch \ {t}, stop, Running)
      BY <2>1 DEF IgnoreExit
    <3>3. /\ phase' \in {"waiting", "handling", "ended"}
          /\ batch' \in SUBSET Tasks /\ watched' \in SUBSET Tasks
      <4> HIDE DEF TypeOK, Finished
      <4> QED
        BY <3>1, <3>2, ProceedType
    <3> QED
      BY <2>1, <3>3 DEF IgnoreExit
  <2>2. CASE GiveUp(t)
    BY <1>5, <2>2, GiveUpType DEF HandleExit
  <2>3. CASE ScheduleRestart(t)
    BY <1>5, <2>3, ScheduleType DEF HandleExit
  <2> QED
    BY <1>5, <2>1, <2>2, <2>3 DEF HandleExit
<1>6. CASE Restart \/ CutShort
  <2>1. /\ batch \in SUBSET Tasks /\ Running \in SUBSET Tasks
        /\ Running \union current \in SUBSET Tasks
    BY DEF Running
  <2>2. /\ phase' \in {"waiting", "handling", "ended"}
        /\ batch' \in SUBSET Tasks /\ watched' \in SUBSET Tasks
    <3>1. CASE Restart
      BY <2>1, <3>1, ProceedType DEF Restart
    <3>2. CASE CutShort
      BY <2>1, <3>2, ProceedType DEF CutShort
    <3> QED
      BY <1>6, <3>1, <3>2
  <2>3. status' \in [Tasks -> {"running", "cancelled"} \union Finished] /\ settled' \subseteq Tasks
    BY <1>6 DEF Restart, CutShort
  <2>4. current' = {}
    BY <1>6 DEF Restart, CutShort
  <2>5. UNCHANGED <<stop, restarts, lastCrash, agent, report>>
    BY <1>6 DEF Restart, CutShort
  <2> QED
    BY <2>2, <2>3, <2>4, <2>5
<1>7. CASE Shutdown
  <2>1. status' \in [Tasks -> {"running", "cancelled"} \union Finished]
    BY <1>7 DEF Shutdown
  <2>2. agent' \in [Agents -> {"HEALTHY", "RESTARTING", "FAILED", "STOPPED"}]
    BY <1>7 DEF Shutdown
  <2> QED
    BY <1>7, <2>1, <2>2 DEF Shutdown
<1>8. CASE UNCHANGED vars
  BY <1>8 DEF vars
<1> QED
  BY <1>1, <1>2, <1>3, <1>4, <1>5, <1>6, <1>7, <1>8, RecoveryType DEF Next, Supervise

\* The supervisor's bookkeeping keeps its types: in particular no task is restarted more
\* often than its limit allows, in whatever order tasks fail and recover.
THEOREM TypeCorrect == Spec => []TypeOK
BY InitType, StepType, PTL DEF Spec

-----------------------------------------------------------------------------
(* A task that was given up *)

\* It is done, and the supervisor neither waits for it, nor has its exit to handle, nor
\* sleeps through a backoff of its.
Forgotten(t) == status[t] # "running" /\ t \notin watched \union batch \union current

\* An agent that no task is left to.
Lost(a) == a \in AgentsOf(Tasks) /\ \A t \in Tasks : AgentOf[t] = a => GivenUp(t)

\* What makes GivenUpIsFinal hold of every step; current names the task only during its
\* backoff.
FailedInv ==
    /\ \A t \in Tasks : GivenUp(t) => Forgotten(t)
    /\ \A a \in Agents : Lost(a) => agent[a] = "FAILED"
    /\ phase # "backoff" => current = {}

\* Nothing has failed yet where no report has been made.
LEMMA NothingFailed ==
    ASSUME report = [t \in Tasks |-> [n \in Numbers(t) |-> "none"]]
    PROVE  (\A t \in Tasks : ~GivenUp(t)) /\ \A a \in Agents : ~Lost(a)
<1>1. ASSUME NEW t \in Tasks PROVE ~GivenUp(t)
  <2>1. MaxRestarts[t] + 1 \in Numbers(t)
    BY RestartsAssumption DEF Numbers
  <2> QED
    BY <2>1 DEF GivenUp
<1> QED
  BY <1>1 DEF Lost, AgentsOf

LEMMA InitFailed == Init => FailedInv
BY NothingFailed DEF Init, FailedInv

\* Where the reports and the agents stay as they are, so do the tasks that are given up.
LEMMA SameReports ==
    ASSUME UNCHANGED report
    PROVE  (\A t \in Tasks : GivenUp(t)' <=> GivenUp(t)) /\ \A a \in Agents : Lost(a)' <=> Lost(a)
BY DEF GivenUp, Lost

\* A failed report of the last number is what gives a task up.
LEMMA LastReport ==
    ASSUME TypeOK, NEW t \in Tasks, NEW n \in Numbers(t), NEW how,
           report' = [report EXCEPT ![t][n] = how]
    PROVE  /\ n = MaxRestarts[t] + 1 => (GivenUp(t)' <=> how = "failed")
           /\ n # MaxRestarts[t] + 1 => (GivenUp(t)' <=> GivenUp(t))
           /\ \A u \in Tasks : u # t => (GivenUp(u)' <=> GivenUp(u))
<1>1. report[t] \in [Numbers(t) -> {"none", "pending", "success", "failed"}] /\ t \in DOMAIN report
  BY DEF TypeOK
<1>2. MaxRestarts[t] + 1 \in Numbers(t)
  BY RestartsAssumption DEF Numbers
<1>3. \A m \in Numbers(t) : report'[t][m] = IF m = n THEN how ELSE report[t][m]
  BY <1>1
<1>4. \A u \in Tasks : u # t => report'[u] = report[u]
  OBVIOUS
<1> QED
  BY <1>2, <1>3, <1>4 DEF GivenUp

\* One exit handled: the task given up leaves the batch, the others were forgotten before.
LEMMA HandleFailed ==
    ASSUME TypeOK, FailedInv, NEW t \in Tasks, HandleExit(t), batch \intersect Running = {}
    PROVE  FailedInv' /\ \A u \in Tasks : GivenUp(u) => GivenUp(u)'
<1>1. phase = "handling" /\ t \in batch /\ current = {}
  BY DEF HandleExit, FailedInv
<1>2. ~GivenUp(t)
  BY <1>1 DEF FailedInv, Forgotten
<1>3. status[t] # "running"
  BY <1>1 DEF Running
<1>4. AgentOf[t] \in Agents /\ agent \in [Agents -> {"HEALTHY", "RESTARTING", "FAILED", "STOPPED"}]
  BY AgentsAssumption DEF TypeOK
<1>5. CASE IgnoreExit(t)
  <2>1. batch' = batch \ {t} /\ watched' \subseteq Running /\ phase' # "backoff"
    BY <1>5 DEF IgnoreExit, Proceed
  <2>2. UNCHANGED <<status, current, agent, report>>
    BY <1>5 DEF IgnoreExit
  <2> QED
    BY <1>1, <2>1, <2>2, SameReports DEF FailedInv, Forgotten, Running
<1>6. CASE GiveUp(t)
  <2>1. batch' = batch \ {t} /\ watched' \subseteq Running /\ phase' # "backoff"
    BY <1>6 DEF GiveUp, Proceed
  <2>2. \A a \in Agents : agent'[a] = IF a = AgentOf[t] THEN "FAILED" ELSE agent[a]
    BY <1>4, <1>6 DEF GiveUp
  <2>3. restarts[t] + 1 = MaxRestarts[t] + 1 /\ restarts[t] + 1 \in Numbers(t)
    <3>1. restarts[t] >= MaxRestarts[t] /\ restarts[t] \in Nat /\ restarts[t] <= MaxRestarts[t]
      BY <1>6 DEF GiveUp, TypeOK
    <3>2. MaxRestarts[t] \in Nat
      BY RestartsAssumption
    <3>3. restarts[t] = MaxRestarts[t]
      BY <3>1, <3>2
    <3> QED
      BY <3>2, <3>3 DEF Numbers
  <2>4. GivenUp(t)' /\ \A u \in Tasks : u # t => (GivenUp(u)' <=> GivenUp(u))
    BY <1>6, <2>3, LastReport DEF GiveUp
  <2>5. \A a \in Agents : a # AgentOf[t] => (Lost(a)' <=> Lost(a))
    BY <2>4 DEF Lost
  <2>6. UNCHANGED <<status, current>>
    BY <1>6 DEF GiveUp
  <2> QED
    BY <1>1, <1>3, <2>1, <2>2, <2>4, <2>5, <2>6 DEF FailedInv, Forgotten, Running
<1>7. CASE ScheduleRestart(t)
  <2>1. \A a \in Agents : a # AgentOf[t] => agent'[a] = agent[a]
    BY <1>4, <1>7 DEF ScheduleRestart
  <2>2. restarts[t] + 1 # MaxRestarts[t] + 1 /\ restarts[t] + 1 \in Numbers(t)
    <3>1. restarts[t] < MaxRestarts[t] /\ restarts[t] \in Nat
      BY <1>7 DEF ScheduleRestart, TypeOK
    <3>2. MaxRestarts[t] \in Nat
      BY RestartsAssumption
    <3> QED
      BY <3>1, <3>2 DEF Numbers
  <2>3. \A u \in Tasks : GivenUp(u)' <=> GivenUp(u)
    BY <1>7, <2>2, LastReport DEF ScheduleRestart
  <2>4. \A a \in Agents : Lost(a)' => Lost(a) /\ a # AgentOf[t]
    BY <1>2, <2>3 DEF Lost
  <2>5. UNCHANGED <<status, watched>> /\ current' = {t} /\ batch' = batch \ {t} /\ phase' = "backoff"
    BY <1>7 DEF ScheduleRestart
  <2> QED
    BY <1>2, <2>1, <2>3, <2>4, <2>5 DEF FailedInv, Forgotten
<1> QED
  BY <1>5, <1>6, <1>7 DEF HandleExit

\* The batch holds finished tasks only.
BatchDone == batch \intersect Running = {} /\ (phase # "backoff" => current = {})
             /\ batch \intersect current = {}

\* No task starts running while it waits in the batch.
LEMMA StepBatch == TypeOK /\ BatchDone /\ [Next]_vars => BatchDone'
<1> SUFFICES ASSUME TypeOK, BatchDone, [Next]_vars PROVE BatchDone'
  OBVIOUS
<1>1. ASSUME NEW t \in Tasks, NEW how \in Finished, Exit(t, how) PROVE BatchDone'
  <2>1. Running' \subseteq Running
    BY <1>1 DEF Exit, Running, Finished, TypeOK
  <2> QED
    BY <1>1, <2>1 DEF Exit, BatchDone
<1>2. ASSUME UNCHANGED <<status, phase, batch, current>> PROVE BatchDone'
  BY <1>2 DEF BatchDone, Running
<1>3. ASSUME NEW t \in Tasks, Settle(t) PROVE BatchDone'
  BY <1>2, <1>3 DEF Settle
<1>4. CASE Signal \/ RecoveryCheck \/ UNCHANGED vars
  BY <1>2, <1>4 DEF Signal, RecoveryCheck, vars
<1>5. CASE Wake
  BY <1>5 DEF Wake, BatchDone, Running
<1>6. ASSUME NEW t \in Tasks, HandleExit(t) PROVE BatchDone'
  <2>1. batch' = batch \ {t} /\ status' = status
    BY <1>6 DEF HandleExit, IgnoreExit, GiveUp, ScheduleRestart, Proceed
  <2>2. current = {} /\ phase = "handling"
    BY <1>6 DEF HandleExit, BatchDone
  <2>3. CASE ScheduleRestart(t)
    BY <2>1, <2>2, <2>3 DEF ScheduleRestart, BatchDone, Running
  <2>4. CASE IgnoreExit(t) \/ GiveUp(t)
    BY <2>1, <2>2, <2>4 DEF IgnoreExit, GiveUp, BatchDone, Running
  <2> QED
    BY <1>6, <2>3, <2>4 DEF HandleExit
<1>7. CASE Restart
  <2>1. batch' = batch /\ current' = {} /\ Running' \subseteq Running \union current
    BY <1>7 DEF Restart, Proceed, Running, TypeOK
  <2> QED
    BY <2>1 DEF BatchDone
<1>8. CASE CutShort
  BY <1>8 DEF CutShort, Proceed, BatchDone, Running
<1>9. CASE Shutdown
  <2>1. Running' = {} /\ batch' = batch /\ current' = current /\ phase = "ended"
    BY <1>9 DEF Shutdown, Running, TypeOK
  <2> QED
    BY <2>1 DEF BatchDone
<1> QED
  BY <1>1, <1>3, <1>4, <1>5, <1>6, <1>7, <1>8, <1>9 DEF Next, Supervise

\* Every step keeps the tasks that are given up down and forgotten.
LEMMA StepFailed ==
    ASSUME TypeOK, FailedInv, BatchDone, [Next]_vars
    PROVE  FailedInv' /\ \A t \in Tasks : GivenUp(t) => GivenUp(t)'
<1> DEFINE Goal == FailedInv' /\ \A t \in Tasks : GivenUp(t) => GivenUp(t)'
<1>1. ASSUME NEW t \in Tasks, NEW how \in Finished, Exit(t, how) PROVE Goal
  <2>1. \A u \in Tasks : status[u] # "running" => status'[u] # "running"
    BY <1>1 DEF Exit, TypeOK, Finished
  <2>2. UNCHANGED <<phase, watched, batch, current, agent, report>>
    BY <1>1 DEF Exit
  <2> QED
    BY <2>1, <2>2, SameReports DEF FailedInv, Forgotten
<1>2. ASSUME UNCHANGED <<status, phase, watched, batch, current, agent, report>> PROVE Goal
  BY <1>2, SameReports DEF FailedInv, Forgotten
<1>3. ASSUME NEW t \in Tasks, Settle(t) PROVE Goal
  BY <1>2, <1>3 DEF Settle
<1>4. CASE Signal \/ UNCHANGED vars
  BY <1>2, <1>4 DEF Signal, vars
<1>5. CASE RecoveryCheck
  <2>1. \A t \in Recovered : t \in Tasks /\ ~GivenUp(t)
    BY DEF Recovered, Running, FailedInv, Forgotten
  <2>2. ASSUME NEW t \in Tasks PROVE GivenUp(t)' <=> GivenUp(t)
    <3>1. CASE t \notin Recovered
      BY <1>5, <3>1 DEF RecoveryCheck, GivenUp
    <3>2. CASE t \in Recovered
      <4>1. MaxRestarts[t] + 1 \in Numbers(t)
            /\ report[t] \in [Numbers(t) -> {"none", "pending", "success", "failed"}]
        BY RestartsAssumption DEF Numbers, TypeOK
      <4>2. report'[t] = [report[t] EXCEPT ![lastCrash[t]] = "success"]
        BY <1>5, <3>2 DEF RecoveryCheck
      <4>3. report'[t][MaxRestarts[t] + 1] \in {"success", report[t][MaxRestarts[t] + 1]}
        BY <4>1, <4>2
      <4> QED
        BY <2>1, <3>2, <4>3 DEF GivenUp
    <3> QED
      BY <3>1, <3>2
  <2>3. \A a \in Agents : Lost(a)' => Lost(a) /\ a \notin AgentsOf(Recovered)
    BY <2>1, <2>2 DEF Lost, AgentsOf
  <2>4. \A a \in Agents : a \notin AgentsOf(Recovered) => agent'[a] = agent[a]
    BY <1>5 DEF RecoveryCheck
  <2>5. UNCHANGED <<status, phase, watched, batch, current>>
    BY <1>5 DEF RecoveryCheck
  <2> QED
    BY <2>2, <2>3, <2>4, <2>5 DEF FailedInv, Forgotten
<1>6. CASE Wake
  <2>1. UNCHANGED <<status, current, agent, report>> /\ watched' = {} /\ phase' # "backoff"
        /\ batch' \subseteq watched /\ phase = "waiting"
    BY <1>6 DEF Wake
  <2> QED
    BY <2>1, SameReports DEF FailedInv, Forgotten
<1>7. ASSUME NEW t \in Tasks, HandleExit(t) PROVE Goal
  BY <1>7, HandleFailed DEF BatchDone
<1>8. CASE Restart
  <2>1. /\ batch' = batch /\ current' = {} /\ phase' # "backoff" /\ UNCHANGED <<agent, report>>
        /\ watched' \subseteq Running \union current
        /\ \A t \in Tasks : status'[t] = IF t \in current THEN "running" ELSE status[t]
    BY <1>8 DEF Restart, Proceed
  <2> QED
    BY <2>1, SameReports DEF FailedInv, Forgotten, Running
<1>9. CASE CutShort
  <2>1. /\ batch' = batch /\ current' = {} /\ phase' # "backoff" /\ UNCHANGED <<status, agent, report>>
        /\ watched' \subseteq Running
    BY <1>9 DEF CutShort, Proceed
  <2> QED
    BY <2>1, SameReports DEF FailedInv, Forgotten, Running
<1>10. CASE Shutdown
  <2>1. /\ UNCHANGED <<watched, batch, current, report>> /\ phase = "ended" /\ phase' = "shut"
        /\ \A t \in Tasks : status'[t] # "running"
        /\ \A a \in Agents : agent[a] = "FAILED" => agent'[a] = "FAILED"
    BY <1>10 DEF Shutdown, TypeOK
  <2> QED
    BY <2>1, SameReports DEF FailedInv, Forgotten
<1> QED
  BY <1>1, <1>3, <1>4, <1>5, <1>6, <1>7, <1>8, <1>9, <1>10 DEF Next, Supervise

\* What holds of a supervised process in all its states.
SupervisorInv == TypeOK /\ FailedInv /\ BatchDone

\* What GivenUpIsFinal says of a step of a process that lives on.
StaysGivenUp ==
    /\ \A t \in Tasks : GivenUp(t) => GivenUp(t)' /\ status'[t] # "running"
    /\ \A a \in AgentsOf(Tasks) :
          (\A t \in Tasks : AgentOf[t] = a => GivenUp(t)) => agent[a] = "FAILED" /\ agent'[a] = "FAILED"

\* It follows where the invariant is kept and what was given up still is.
LEMMA GivenUpStays ==
    ASSUME SupervisorInv, SupervisorInv', \A t \in Tasks : GivenUp(t) => GivenUp(t)'
    PROVE  StaysGivenUp
<1>1. ASSUME NEW t \in Tasks, GivenUp(t) PROVE GivenUp(t)' /\ status'[t] # "running"
  BY <1>1 DEF SupervisorInv, FailedInv, Forgotten
<1>2. ASSUME NEW a \in AgentsOf(Tasks), \A t \in Tasks : AgentOf[t] = a => GivenUp(t)
      PROVE  agent[a] = "FAILED" /\ agent'[a] = "FAILED"
  <2>1. a \in Agents
    BY AgentsAssumption DEF AgentsOf
  <2>2. Lost(a) /\ Lost(a)'
    BY <1>2 DEF Lost, AgentsOf
  <2> QED
    BY <2>1, <2>2 DEF SupervisorInv, FailedInv
<1> QED
  BY <1>1, <1>2 DEF StaysGivenUp

\* Every step of the supervisor keeps its invariant, and no task that was given up runs again.
LEMMA StepSupervised ==
    ASSUME SupervisorInv, [Next]_vars
    PROVE  SupervisorInv' /\ StaysGivenUp
<1>1. SupervisorInv'
  BY StepType, StepFailed, StepBatch DEF SupervisorInv
<1>2. \A t \in Tasks : GivenUp(t) => GivenUp(t)'
  BY StepFailed DEF SupervisorInv
<1> QED
  BY <1>1, <1>2, GivenUpStays

\* A task given up past its restart limit never runs again, its crash report stays failed, and
\* an agent that has no other task is FAILED for good: no recovery check, batch, backoff or
\* restart of another task changes that.
THEOREM GivenUpForGood == Spec => GivenUpIsFinal
<1>1. Init => SupervisorInv
  BY InitType, InitFailed DEF Init, BatchDone, SupervisorInv
<1>2. SupervisorInv /\ [Next]_vars => SupervisorInv'
  BY StepSupervised
<1>3. SupervisorInv /\ [Next]_vars => [(phase = "shut" => phase' = "shut") => StaysGivenUp]_vars
  BY StepSupervised
<1> QED
  BY <1>1, <1>2, <1>3, PTL DEF Spec, GivenUpIsFinal, StaysGivenUp

-----------------------------------------------------------------------------
(* Whose ticks are routed where and whose bars a pipeline holds, through every   *)
(* step of a rollover, for any contracts, calendar and listings.  The invariant  *)
(* says which contracts are wanted, sent and registered at each place of         *)
(* roll_symbol; the two properties follow from it.                               *)

Feeds == [up : BOOLEAN, greeted : BOOLEAN, wanted : SUBSET Contracts, sent : SUBSET Contracts]

Rolls == [pc : {"idle", "prepare", "subscribe", "unsubscribe", "recover"},
          new : Contracts \cup {None}, connected : BOOLEAN, cut : BOOLEAN]

RolloverTypes ==
    /\ running \in Contracts \cup {None} /\ verifying \in Contracts \cup {None}
    /\ pipe \in [Contracts -> Pipelines \cup {None}]
    /\ feed \in Feeds
    /\ roll \in Rolls

\* What a place in roll_symbol says of the contracts: there is a pipeline for the running
\* one and, during the subscription, one for the incoming one.
Places ==
    /\ running # None => pipe[running] \in Pipelines /\ running \in feed.wanted
    /\ running = None => /\ roll.pc = "idle" /\ verifying = None /\ feed = Down
                         /\ \A c \in Contracts : pipe[c] = None
    /\ incoming = IF roll.pc = "subscribe" THEN roll.new ELSE None
    /\ roll.pc = "subscribe" => pipe[roll.new] \in Pipelines /\ roll.new \in feed.wanted
    /\ roll.pc \in {"prepare", "subscribe"} => roll.new \in Contracts \ {running}
    /\ roll.pc = "unsubscribe" => roll.new = running

\* A contract that is wanted and has a pipeline is registered; what the broker sends is
\* wanted, but for the old contract's ticks until unsubscribe() returns; and nothing is
\* sent without a socket, which a subscription that was not cut still has.
Registered ==
    /\ \A c \in feed.wanted : pipe[c] # None => c \in {running, incoming}
    /\ \A c \in feed.sent :
          c \in feed.wanted \/ (roll.pc = "unsubscribe" /\ ~roll.cut /\ c # running)
    /\ ~feed.up => feed.sent = {}
    /\ roll.pc = "subscribe" /\ ~roll.cut => feed.up

RolloverInv == RolloverTypes /\ BarsStayWithContract /\ Places /\ Registered

\* What is resolved is a contract.
LEMMA Resolved ==
    ASSUME NEW m \in Masters, NEW day
    PROVE  Resolve(m, day) \in Contracts \cup {None}
<1>1. m \subseteq Contracts
  BY ContractsAssumption
<1>2. CASE \E c \in m : Nearest(m, day) = {c}
  <2>1. (CHOOSE c \in m : Nearest(m, day) = {c}) \in m
    BY <1>2
  <2> QED
    BY <1>1, <1>2, <2>1 DEF Resolve
<1> QED
  BY <1>2 DEF Resolve

\* The invariant of rollover implies the property.
LEMMA RegisteredIsRouted == RolloverInv => CoveredIsRouted
BY ContractsAssumption DEF RolloverInv, RolloverTypes, Places, Registered, CoveredIsRouted, Route

\* A pipeline that starts.
LEMMA NewPipeline ==
    ASSUME NEW c \in Contracts, NEW cover \in {"none", "partial", "full"},
           NEW hole \in BOOLEAN, NEW pending \in BOOLEAN
    PROVE  Pipeline(c, cover, hole, pending) \in Pipelines /\ Pipeline(c, cover, hole, pending).bars = {c}
BY DEF Pipeline, Pipelines

\* A process that starts: one pipeline, nothing sent.
LEMMA StartRegisters ==
    ASSUME NEW c \in Contracts, NEW hole \in BOOLEAN,
           running' = c, incoming' = None, pipe' = StartPipes(c, hole),
           feed' = [Down EXCEPT !.wanted = {c}], verifying' = None, roll' = Idle
    PROVE  RolloverInv'
<1>1. (c \in files) \in BOOLEAN
  OBVIOUS
<1>2. /\ pipe' \in [Contracts -> Pipelines \cup {None}] /\ pipe'[c] \in Pipelines /\ pipe'[c].bars = {c}
      /\ \A d \in Contracts : d # c => pipe'[d] = None
  BY <1>1, NewPipeline DEF StartPipes
<1>3. /\ feed' \in Feeds
      /\ feed'.wanted = {c} /\ feed'.sent = {}
  BY DEF Down, Feeds
<1>4. /\ roll' \in Rolls
      /\ roll'.pc = "idle"
  BY DEF Idle, Rolls
<1>5. c # None
  BY ContractsAssumption
<1> QED
  BY <1>2, <1>3, <1>4, <1>5
     DEF RolloverInv, RolloverTypes, BarsStayWithContract, Places, Registered

\* One that is gone leaves nothing.
LEMMA GoneRegisters == Gone => RolloverInv'
<1> SUFFICES ASSUME Gone PROVE RolloverInv'
  OBVIOUS
<1>1. /\ feed' \in Feeds
      /\ feed'.wanted = {} /\ feed'.sent = {} /\ feed' = Down
  BY DEF Gone, Down, Feeds
<1>2. /\ roll' \in Rolls
      /\ roll'.pc = "idle"
  BY DEF Gone, Idle, Rolls
<1>3. \A c \in Contracts : pipe'[c] = None
  BY DEF Gone
<1> QED
  BY <1>1, <1>2, <1>3
     DEF Gone, RolloverInv, RolloverTypes, BarsStayWithContract, Places, Registered

\* Pipelines change, none comes or goes, and the rest stays.
LEMMA PipesChange ==
    ASSUME RolloverInv, pipe' \in [Contracts -> Pipelines \cup {None}],
           \A c \in Contracts : /\ pipe'[c] # None => pipe[c] # None /\ pipe'[c].bars \subseteq {c}
                                /\ pipe[c] \in Pipelines => pipe'[c] \in Pipelines
                                /\ pipe[c] = None => pipe'[c] = None,
           verifying' \in Contracts \cup {None}, running = None => verifying' = None,
           UNCHANGED <<running, incoming, feed, roll>>
    PROVE  RolloverInv'
<1>1. RolloverTypes' /\ BarsStayWithContract'
  BY DEF RolloverInv, RolloverTypes, BarsStayWithContract
<1>2. Places'
  BY DEF RolloverInv, RolloverTypes, Places
<1>3. Registered'
  <2>1. \A c \in feed.wanted : c \in Contracts
    BY DEF RolloverInv, RolloverTypes, Feeds
  <2> QED
    BY <2>1 DEF RolloverInv, Registered
<1> QED
  BY <1>1, <1>2, <1>3 DEF RolloverInv

\* A pipeline of c that changes in anything but its bars.
LEMMA OnePipe ==
    ASSUME RolloverInv, NEW c \in Contracts, NEW p \in Pipelines, p.bars \subseteq {c},
           pipe[c] \in Pipelines, pipe[c] # None \/ c \in {running, incoming},
           pipe' = [pipe EXCEPT ![c] = p],
           verifying' \in Contracts \cup {None}, running = None => verifying' = None,
           UNCHANGED <<running, incoming, feed, roll>>
    PROVE  RolloverInv'
<1>1. /\ pipe' \in [Contracts -> Pipelines \cup {None}] /\ pipe'[c] = p
      /\ \A d \in Contracts : d # c => pipe'[d] = pipe[d]
  BY DEF RolloverInv, RolloverTypes
<1>2. RolloverTypes' /\ BarsStayWithContract'
  BY <1>1 DEF RolloverInv, RolloverTypes, BarsStayWithContract
<1>3. Places'
  <2>1. \A d \in Contracts : pipe[d] \in Pipelines => pipe'[d] \in Pipelines
    BY <1>1
  <2>2. running = None => \A d \in Contracts : pipe'[d] = None
    BY <1>1, NoneIsNoPipeline DEF RolloverInv, Places
  <2>3. running # None => running \in Contracts
    BY DEF RolloverInv, RolloverTypes
  <2> QED
    BY <2>1, <2>2, <2>3 DEF RolloverInv, Places
<1>4. Registered'
  BY <1>1, NoneIsNoPipeline DEF RolloverInv, RolloverTypes, Registered
<1> QED
  BY <1>2, <1>3, <1>4 DEF RolloverInv

\* What the invariant is about stays.
LEMMA NothingRegisters ==
    ASSUME RolloverInv, UNCHANGED <<running, incoming, pipe, feed, verifying, roll>>
    PROVE  RolloverInv'
<1>1. RolloverTypes' /\ BarsStayWithContract'
  BY DEF RolloverInv, RolloverTypes, BarsStayWithContract
<1>2. Places'
  BY DEF RolloverInv, Places
<1>3. Registered'
  BY DEF RolloverInv, Registered
<1> QED
  BY <1>1, <1>2, <1>3 DEF RolloverInv

\* Time, days and pipelines that only change.
LEMMA TimeRegisters ==
    ASSUME RolloverInv, DayPasses \/ VerifyStart \/ MinuteEnds
    PROVE  RolloverInv'
<1>1. CASE DayPasses
  BY <1>1, NothingRegisters DEF DayPasses
<1>2. CASE VerifyStart
  BY <1>2 DEF VerifyStart, RolloverInv, RolloverTypes, BarsStayWithContract, Places, Registered
<1>3. CASE MinuteEnds
  <2>1. \A c \in Contracts : /\ pipe'[c] = Minute(pipe[c])
                             /\ pipe[c] \in Pipelines \cup {None}
                             /\ pipe[c] # None => pipe[c].bars \subseteq {c}
    BY <1>3 DEF MinuteEnds, RolloverInv, RolloverTypes, BarsStayWithContract
  <2>2. \A p \in Pipelines : Minute(p) \in Pipelines /\ (p # None => Minute(p).bars = p.bars)
    <3> SUFFICES ASSUME NEW p \in Pipelines PROVE Minute(p) \in Pipelines /\ (p # None => Minute(p).bars = p.bars)
      OBVIOUS
    <3>1. /\ [p EXCEPT !.cover = "full", !.owed = TRUE] \in Pipelines
          /\ [p EXCEPT !.cover = "full", !.owed = TRUE].bars = p.bars
      BY DEF Pipelines
    <3>2. [p EXCEPT !.hole = TRUE] \in Pipelines /\ [p EXCEPT !.hole = TRUE].bars = p.bars
      BY DEF Pipelines
    <3> QED
      BY <3>1, <3>2 DEF Minute
  <2>3. Minute(None) = None
    BY DEF Minute
  <2>4. pipe' \in [Contracts -> Pipelines \cup {None}]
    BY <1>3, <2>1, <2>2, <2>3 DEF MinuteEnds
  <2>5. \A c \in Contracts : /\ pipe'[c] # None => pipe[c] # None /\ pipe'[c].bars \subseteq {c}
                             /\ pipe[c] \in Pipelines => pipe'[c] \in Pipelines
                             /\ pipe[c] = None => pipe'[c] = None
    BY <2>1, <2>2, <2>3
  <2>6. verifying' \in Contracts \cup {None} /\ (running = None => verifying' = None)
        /\ UNCHANGED <<running, incoming, feed, roll>>
    BY <1>3 DEF MinuteEnds, RolloverInv, RolloverTypes, Places
  <2> QED
    BY <2>4, <2>5, <2>6, PipesChange
<1> QED
  BY <1>1, <1>2, <1>3

\* The running contract has a pipeline and so has the incoming one.
LEMMA HasPipe ==
    ASSUME RolloverInv, NEW c \in {running, incoming} \ {None}
    PROVE  c \in Contracts /\ pipe[c] \in Pipelines /\ pipe[c].bars \subseteq {c}
<1>1. c \in Contracts /\ pipe[c] \in Pipelines
  BY DEF RolloverInv, RolloverTypes, Places
<1>2. pipe[c] # None => pipe[c].bars \subseteq {c}
  BY <1>1 DEF RolloverInv, BarsStayWithContract
<1> QED
  BY <1>1, <1>2, NoneIsNoPipeline

\* Changing any fields of a pipeline but its bars leaves a pipeline with the same bars.
LEMMA PipeFields ==
    ASSUME NEW p \in Pipelines
    PROVE  /\ \A x \in {"none", "partial", "full"} :
                 [p EXCEPT !.cover = x] \in Pipelines /\ [p EXCEPT !.cover = x].bars = p.bars
           /\ \A x \in BOOLEAN :
                 /\ [p EXCEPT !.owed = FALSE, !.pending = x] \in Pipelines
                 /\ [p EXCEPT !.owed = FALSE, !.pending = x].bars = p.bars
           /\ [p EXCEPT !.recovering = TRUE, !.hole = TRUE, !.owed = FALSE] \in Pipelines
           /\ [p EXCEPT !.recovering = TRUE, !.hole = TRUE, !.owed = FALSE].bars = p.bars
           /\ \A x \in BOOLEAN :
                 /\ [p EXCEPT !.cover = "none", !.owed = FALSE, !.hole = x] \in Pipelines
                 /\ [p EXCEPT !.cover = "none", !.owed = FALSE, !.hole = x].bars = p.bars
BY DEF Pipelines

\* A minute is queued, a verification or a recovery starts or ends.
LEMMA QueueRegisters ==
    ASSUME RolloverInv, NEW c \in Contracts, QueueMinute(c)
    PROVE  RolloverInv'
<1>1. c \in {running, incoming} \ {None}
  BY DEF QueueMinute
<1>2. pipe[c] \in Pipelines /\ pipe[c].bars \subseteq {c}
  BY <1>1, HasPipe
<1>3. pipe' = [pipe EXCEPT ![c] = [pipe[c] EXCEPT !.owed = FALSE, !.pending = TRUE]]
  BY DEF QueueMinute, RolloverInv, RolloverTypes
<1> QED
  BY <1>1, <1>2, <1>3, OnePipe, PipeFields DEF QueueMinute, RolloverInv, RolloverTypes, Places

\* The end of a verification keeps the invariant of rollover, whichever contract runs by then.
LEMMA VerifyRegisters ==
    ASSUME RolloverInv, NEW served \in BOOLEAN, VerifyEnd(served)
    PROVE  RolloverInv'
<1>1. /\ verifying \in Contracts /\ running # None /\ verifying' = None
      /\ UNCHANGED <<running, incoming, feed, roll>>
      /\ pipe' = IF served THEN Served(verifying, verifying) ELSE pipe
  BY DEF VerifyEnd, Settled, RolloverInv, RolloverTypes, Places
<1>2. CASE pipe' = pipe
  BY <1>1, <1>2, PipesChange DEF RolloverInv, RolloverTypes, BarsStayWithContract
<1>3. CASE pipe[verifying] # None
           /\ pipe' = [pipe EXCEPT ![verifying].pending = FALSE, ![verifying].bars = @ \cup {verifying}]
  <2> DEFINE p == [pipe[verifying] EXCEPT !.pending = FALSE, !.bars = @ \cup {verifying}]
  <2>1. pipe[verifying] \in Pipelines /\ pipe[verifying].bars \subseteq {verifying}
    BY <1>1, <1>3 DEF RolloverInv, RolloverTypes, BarsStayWithContract
  <2>2. p \in Pipelines /\ p.bars \subseteq {verifying}
    BY <1>1, <2>1 DEF Pipelines
  <2>3. pipe' = [pipe EXCEPT ![verifying] = p]
    BY <1>1, <1>3 DEF RolloverInv, RolloverTypes
  <2> HIDE DEF p
  <2> QED
    BY <1>1, <1>3, <2>1, <2>2, <2>3, OnePipe
<1> QED
  BY <1>1, <1>2, <1>3 DEF Served

\* So does the end of a recovery, however it ends.
LEMMA RecoverEndRegisters ==
    ASSUME RolloverInv, NEW c \in Contracts, NEW how \in {"served", "short", "raised"}, RecoverEnd(c, how)
    PROVE  RolloverInv'
<1>1. pipe[c] # None /\ pipe[c] \in Pipelines /\ pipe[c].bars \subseteq {c}
  BY DEF RecoverEnd, RolloverInv, RolloverTypes, BarsStayWithContract
<1> DEFINE added == IF how = "raised" THEN {} ELSE {c}
           base == [pipe[c] EXCEPT !.recovering = FALSE, !.hole = (how = "raised"), !.bars = @ \cup added]
           P == [pipe EXCEPT ![c].recovering = FALSE, ![c].hole = (how = "raised"),
                             ![c].bars = @ \cup (IF how = "raised" THEN {} ELSE {c})]
<1>2. base \in Pipelines /\ base.bars \subseteq {c}
  BY <1>1 DEF Pipelines
<1>3. P = [pipe EXCEPT ![c] = base]
  BY DEF RolloverInv, RolloverTypes
<1>4. ASSUME NEW left \in BOOLEAN
      PROVE  [base EXCEPT !.pending = left] \in Pipelines /\ [base EXCEPT !.pending = left].bars \subseteq {c}
  <2> HIDE DEF base
  <2>1. [base EXCEPT !.pending = left].bars = base.bars
    BY <1>2 DEF Pipelines
  <2> QED
    BY <1>2, <2>1 DEF Pipelines
<1>5. \/ pipe' = P
      \/ \E left \in BOOLEAN : pipe' = [P EXCEPT ![c].pending = left]
  <2>1. pipe[c].pending \in BOOLEAN
    BY <1>1 DEF Pipelines
  <2> QED
    BY <2>1 DEF RecoverEnd, Settled
<1>6. \E p \in Pipelines : p.bars \subseteq {c} /\ pipe' = [pipe EXCEPT ![c] = p]
  <2>1. CASE pipe' = P
    BY <1>2, <1>3, <2>1
  <2>2. ASSUME NEW left \in BOOLEAN, pipe' = [P EXCEPT ![c].pending = left]
        PROVE  \E p \in Pipelines : p.bars \subseteq {c} /\ pipe' = [pipe EXCEPT ![c] = p]
    <3>1. pipe' = [pipe EXCEPT ![c] = [base EXCEPT !.pending = left]]
      <4> HIDE DEF base, P
      <4> QED
        BY <1>3, <2>2 DEF RolloverInv, RolloverTypes
    <3> HIDE DEF base
    <3> QED
      BY <1>4, <3>1
  <2> QED
    BY <1>5, <2>1, <2>2
<1>7. verifying' \in Contracts \cup {None} /\ (running = None => verifying' = None)
      /\ UNCHANGED <<running, incoming, feed, roll>>
  BY DEF RecoverEnd, RolloverInv, RolloverTypes, Places
<1> QED
  BY <1>1, <1>6, <1>7, OnePipe

\* Recover changes the running pipeline at most.
LEMMA RecoverPipe ==
    ASSUME RolloverInv, running # None, NEW H, Recover(H)
    PROVE  \E p \in Pipelines : p.bars \subseteq {running} /\ pipe' = [pipe EXCEPT ![running] = p]
<1>1. running \in Contracts /\ pipe[running] \in Pipelines /\ pipe[running].bars \subseteq {running}
  BY HasPipe
<1>2. CASE pipe' = pipe
  <2>1. pipe' = [pipe EXCEPT ![running] = pipe[running]]
    BY <1>2 DEF RolloverInv, RolloverTypes
  <2> QED
    BY <1>1, <2>1
<1>3. CASE pipe' = [pipe EXCEPT ![running].recovering = TRUE, ![running].hole = TRUE, ![running].owed = FALSE]
  <2> DEFINE p == [pipe[running] EXCEPT !.recovering = TRUE, !.hole = TRUE, !.owed = FALSE]
  <2>1. pipe' = [pipe EXCEPT ![running] = p]
    BY <1>1, <1>3 DEF RolloverInv, RolloverTypes
  <2>2. p \in Pipelines /\ p.bars \subseteq {running}
    BY <1>1, PipeFields
  <2> HIDE DEF p
  <2> QED
    BY <2>1, <2>2
<1> QED
  BY <1>2, <1>3 DEF Recover

\* So does its start.
LEMMA RecoverStartRegisters ==
    ASSUME RolloverInv, RecoverStart
    PROVE  RolloverInv'
<1>1. running # None /\ Recover(health) /\ UNCHANGED <<running, incoming, feed, verifying, roll>>
  BY DEF RecoverStart
<1>2. PICK p \in Pipelines : p.bars \subseteq {running} /\ pipe' = [pipe EXCEPT ![running] = p]
  BY <1>1, RecoverPipe
<1>3. running \in Contracts /\ pipe[running] \in Pipelines
  BY <1>1, HasPipe
<1> QED
  BY <1>1, <1>2, <1>3, OnePipe DEF RolloverInv, RolloverTypes

\* The socket comes and goes: a drop leaves nothing sent.
LEMMA FeedRegisters ==
    ASSUME RolloverInv, Connect \/ Resubscribe \/ Drop
    PROVE  RolloverInv'
<1>1. running # None /\ running \in Contracts /\ pipe[running] \in Pipelines /\ pipe[running].bars \subseteq {running}
  <2>1. running # None
    BY DEF Connect, Resubscribe, Drop, Down, RolloverInv, Places
  <2> QED
    BY <2>1, HasPipe
<1>2. CASE Resubscribe
  <2>1. /\ feed' \in Feeds /\ feed'.up
        /\ feed'.wanted = feed.wanted /\ feed'.sent = feed.sent \cup feed.wanted
    BY <1>2 DEF Resubscribe, RolloverInv, RolloverTypes, Feeds
  <2>2. UNCHANGED <<running, incoming, pipe, verifying, roll>>
    BY <1>2 DEF Resubscribe
  <2>3. RolloverTypes' /\ BarsStayWithContract'
    BY <2>1, <2>2 DEF RolloverInv, RolloverTypes, BarsStayWithContract
  <2>4. Places'
    BY <1>1, <2>1, <2>2 DEF RolloverInv, Places
  <2>5. Registered'
    BY <2>1, <2>2 DEF RolloverInv, RolloverTypes, Registered
  <2> QED
    BY <2>3, <2>4, <2>5 DEF RolloverInv
<1>3. CASE Connect \/ Drop
  <2>1. /\ feed' \in Feeds
        /\ feed'.wanted = feed.wanted /\ feed'.sent \in {feed.sent, {}}
        /\ Drop => feed'.sent = {}
        /\ ~Drop => feed'.up
    BY <1>3 DEF Connect, Drop, Down, RolloverInv, RolloverTypes, Feeds
  <2>2. /\ roll' \in Rolls
        /\ roll'.pc = roll.pc /\ roll'.new = roll.new /\ (~Drop => roll' = roll)
        /\ Drop /\ roll.pc = "subscribe" => roll'.cut
    BY <1>3 DEF Connect, Drop, RolloverInv, RolloverTypes, Rolls
  <2>3. UNCHANGED <<running, incoming, verifying>>
    BY <1>3 DEF Connect, Drop
  <2>4. PICK p \in Pipelines : p.bars \subseteq {running} /\ pipe' = [pipe EXCEPT ![running] = p]
    <3>1. CASE Connect
      <4>1. pipe' = [pipe EXCEPT ![running] = [pipe[running] EXCEPT !.cover = "partial"]]
        BY <3>1 DEF Connect, RolloverInv, RolloverTypes
      <4> QED
        BY <1>1, <4>1, PipeFields
    <3>2. CASE Drop
      <4> DEFINE h == pipe[running].hole \/ pipe[running].owed
      <4>1. h \in BOOLEAN
        OBVIOUS
      <4>2. pipe' = [pipe EXCEPT ![running] = [pipe[running] EXCEPT !.cover = "none", !.owed = FALSE, !.hole = h]]
        BY <3>2 DEF Drop, RolloverInv, RolloverTypes
      <4> HIDE DEF h
      <4> QED
        BY <1>1, <4>1, <4>2, PipeFields
    <3> QED
      BY <1>3, <3>1, <3>2
  <2>5. /\ pipe' \in [Contracts -> Pipelines \cup {None}] /\ pipe'[running] = p
        /\ \A d \in Contracts : d # running => pipe'[d] = pipe[d]
    BY <1>1, <2>4 DEF RolloverInv, RolloverTypes
  <2>6. RolloverTypes' /\ BarsStayWithContract'
    BY <2>1, <2>2, <2>3, <2>4, <2>5 DEF RolloverInv, RolloverTypes, BarsStayWithContract
  <2>7. Places'
    BY <1>1, <2>1, <2>2, <2>3, <2>5 DEF RolloverInv, Places
  <2>8. Registered'
    <3>1. /\ \A c \in feed'.wanted : pipe'[c] # None => c \in {running', incoming'}
          /\ \A c \in feed'.sent :
                c \in feed'.wanted \/ (roll'.pc = "unsubscribe" /\ ~roll'.cut /\ c # running')
      <4>1. \A c \in feed.wanted : c \in Contracts
        BY DEF RolloverInv, RolloverTypes, Feeds
      <4> QED
        BY <1>1, <2>1, <2>2, <2>3, <2>5, <4>1 DEF RolloverInv, Registered
    <3>2. (~feed'.up => feed'.sent = {}) /\ (roll'.pc = "subscribe" /\ ~roll'.cut => feed'.up)
      BY <2>1, <2>2
    <3> QED
      BY <3>1, <3>2 DEF Registered
  <2> QED
    BY <2>6, <2>7, <2>8 DEF RolloverInv
<1> QED
  BY <1>2, <1>3

\* Where the roll is and what it remembers changes, no contract does.
LEMMA PlaceRegisters ==
    ASSUME RolloverInv,
           \/ \E m \in Masters : RollStart(m)
           \/ PrepareFails \/ PrepareCold \/ UnsubscribeFails \/ RollEnd
    PROVE  RolloverInv'
<1>1. UNCHANGED <<running, incoming, pipe, feed, verifying>> /\ roll.pc # "subscribe"
  BY DEF RollStart, PrepareFails, PrepareCold, UnsubscribeFails, RollEnd
<1>2. roll.pc = "unsubscribe" => roll.cut
  BY DEF RollStart, PrepareFails, PrepareCold, UnsubscribeFails, RollEnd
<1>3. \/ roll' = Idle
      \/ roll'.pc = "prepare" /\ roll'.new \in Contracts \ {running} /\ running # None
         /\ roll' = [Idle EXCEPT !.pc = "prepare", !.new = roll'.new]
  <2>1. CASE PrepareFails \/ PrepareCold \/ UnsubscribeFails \/ RollEnd
    BY <2>1 DEF PrepareFails, PrepareCold, UnsubscribeFails, RollEnd
  <2>2. ASSUME NEW m \in Masters, RollStart(m)
        PROVE  roll'.pc = "prepare" /\ roll'.new \in Contracts \ {running} /\ running # None
               /\ roll' = [Idle EXCEPT !.pc = "prepare", !.new = roll'.new]
    <3>1. Resolve(m, today) \in Contracts
      BY <2>2, Resolved DEF RollStart
    <3>2. roll' = [Idle EXCEPT !.pc = "prepare", !.new = Resolve(m, today)]
      BY <2>2 DEF RollStart
    <3>3. roll'.pc = "prepare" /\ roll'.new = Resolve(m, today)
      BY <3>2 DEF Idle
    <3> QED
      BY <2>2, <3>1, <3>2, <3>3 DEF RollStart
  <2> QED
    BY <2>1, <2>2
<1>4. /\ roll' \in Rolls
      /\ roll'.pc \in {"idle", "prepare"}
  <2>1. Idle \in Rolls /\ Idle.pc = "idle"
    BY DEF Idle, Rolls
  <2>2. \A c \in Contracts : [Idle EXCEPT !.pc = "prepare", !.new = c] \in Rolls
    BY DEF Idle, Rolls
  <2> QED
    BY <1>3, <2>1, <2>2
<1>5. RolloverTypes' /\ BarsStayWithContract'
  BY <1>1, <1>4 DEF RolloverInv, RolloverTypes, BarsStayWithContract
<1>6. Places'
  <2>1. running = None => roll'.pc = "idle"
    BY <1>3 DEF Idle
  <2>2. incoming = None
    BY <1>1 DEF RolloverInv, Places
  <2>3. roll'.pc = "prepare" => roll'.new \in Contracts \ {running}
    BY <1>3 DEF Idle
  <2> QED
    BY <1>1, <1>4, <2>1, <2>2, <2>3 DEF RolloverInv, Places
<1>7. Registered'
  BY <1>1, <1>2, <1>4 DEF RolloverInv, Registered
<1> QED
  BY <1>5, <1>6, <1>7 DEF RolloverInv

\* The new contract is registered before its subscription, or becomes the running one.
LEMMA PrepareRegisters ==
    ASSUME RolloverInv, NEW hole \in BOOLEAN, PrepareWarm(hole)
    PROVE  RolloverInv'
<1> DEFINE new == roll.new
<1>1. /\ roll.pc = "prepare" /\ new \in Contracts /\ new # running /\ incoming = None /\ verifying' = verifying
      /\ running # None /\ running \in Contracts /\ pipe[running] \in Pipelines /\ running \in feed.wanted
  BY DEF PrepareWarm, RolloverInv, RolloverTypes, Places
<1>2. ASSUME NEW cover \in {"none", "partial"},
             pipe' = [pipe EXCEPT ![new] = Pipeline(new, cover, hole, FALSE)]
      PROVE  /\ pipe' \in [Contracts -> Pipelines \cup {None}]
             /\ pipe'[new] \in Pipelines /\ pipe'[new].bars = {new}
             /\ \A d \in Contracts : d # new => pipe'[d] = pipe[d]
  <2>1. Pipeline(new, cover, hole, FALSE) \in Pipelines /\ Pipeline(new, cover, hole, FALSE).bars = {new}
    BY <1>1, NewPipeline
  <2> QED
    BY <1>1, <1>2, <2>1 DEF RolloverInv, RolloverTypes
<1>3. CASE feed.up
  <2>1. /\ roll' = [roll EXCEPT !.pc = "subscribe", !.connected = TRUE] /\ incoming' = new
        /\ pipe' = [pipe EXCEPT ![new] = Pipeline(new, "partial", hole, FALSE)]
        /\ feed' = [feed EXCEPT !.wanted = @ \cup {new}] /\ running' = running
    BY <1>3 DEF PrepareWarm
  <2>2. /\ feed' \in Feeds
        /\ feed'.wanted = feed.wanted \cup {new} /\ feed'.sent = feed.sent /\ feed'.up
    BY <1>1, <1>3, <2>1 DEF RolloverInv, RolloverTypes, Feeds
  <2>3. /\ roll' \in Rolls
        /\ roll'.pc = "subscribe" /\ roll'.new = new
    BY <2>1 DEF RolloverInv, RolloverTypes, Rolls
  <2>4. /\ pipe' \in [Contracts -> Pipelines \cup {None}]
        /\ pipe'[new] \in Pipelines /\ pipe'[new].bars = {new}
        /\ \A d \in Contracts : d # new => pipe'[d] = pipe[d]
    BY <1>2, <2>1
  <2> HIDE DEF new
  <2>5. RolloverTypes' /\ BarsStayWithContract'
    BY <1>1, <2>1, <2>2, <2>3, <2>4 DEF RolloverInv, RolloverTypes, BarsStayWithContract
  <2>6. Places'
    <3>1. running' = running /\ pipe'[running] \in Pipelines /\ running \in feed'.wanted
      BY <1>1, <2>1, <2>2, <2>4
    <3>2. pipe'[roll'.new] \in Pipelines /\ roll'.new \in feed'.wanted
      BY <2>2, <2>3, <2>4
    <3>3. roll'.new \in Contracts \ {running'} /\ incoming' = roll'.new
      BY <1>1, <2>1, <2>3
    <3> QED
      BY <1>1, <2>1, <2>3, <3>1, <3>2, <3>3 DEF Places
  <2>7. Registered'
    <3>1. \A c \in feed.wanted : pipe[c] # None => c = running
      <4>1. \A c \in feed.wanted : c # None
        BY ContractsAssumption DEF RolloverInv, RolloverTypes, Feeds
      <4> QED
        BY <1>1, <4>1 DEF RolloverInv, Registered
    <3>2. \A c \in feed'.wanted : c \in Contracts
      BY <2>2 DEF Feeds
    <3>3. \A c \in feed'.wanted : pipe'[c] # None => c \in {running', incoming'}
      BY <2>1, <2>2, <2>4, <3>1, <3>2
    <3>4. \A c \in feed'.sent : c \in feed'.wanted
      BY <1>1, <2>2 DEF RolloverInv, Registered
    <3> QED
      BY <2>2, <3>3, <3>4 DEF Registered
  <2> QED
    BY <2>5, <2>6, <2>7 DEF RolloverInv
<1>4. CASE ~feed.up
  <2>1. /\ roll' = Idle /\ incoming' = None /\ running' = new
        /\ pipe' = [pipe EXCEPT ![new] = Pipeline(new, "none", hole, FALSE)]
        /\ feed' = [feed EXCEPT !.wanted = (@ \cup {new}) \ {running}]
    BY <1>4 DEF PrepareWarm, Switched
  <2>2. /\ feed' \in Feeds
        /\ feed'.wanted = (feed.wanted \cup {new}) \ {running} /\ feed'.sent = feed.sent
    BY <1>1, <2>1 DEF RolloverInv, RolloverTypes, Feeds
  <2>3. /\ roll' \in Rolls
        /\ roll'.pc = "idle"
    BY <2>1 DEF Idle, Rolls
  <2>4. /\ pipe' \in [Contracts -> Pipelines \cup {None}]
        /\ pipe'[new] \in Pipelines /\ pipe'[new].bars = {new}
        /\ \A d \in Contracts : d # new => pipe'[d] = pipe[d]
    BY <1>2, <2>1
  <2>5. feed.sent = {}
    BY <1>4 DEF RolloverInv, Registered
  <2>6. new # None
    BY <1>1, ContractsAssumption
  <2> HIDE DEF new
  <2>7. RolloverTypes' /\ BarsStayWithContract'
    BY <1>1, <2>1, <2>2, <2>3, <2>4 DEF RolloverInv, RolloverTypes, BarsStayWithContract
  <2>8. Places'
    BY <1>1, <2>1, <2>2, <2>3, <2>4, <2>6 DEF RolloverInv, Places
  <2>9. Registered'
    <3>1. \A c \in feed.wanted : pipe[c] # None => c = running
      <4>1. \A c \in feed.wanted : c # None
        BY ContractsAssumption DEF RolloverInv, RolloverTypes, Feeds
      <4> QED
        BY <1>1, <4>1 DEF RolloverInv, Registered
    <3>2. \A c \in feed'.wanted : c \in Contracts
      BY <2>2 DEF Feeds
    <3>3. \A c \in feed'.wanted : pipe'[c] # None => c \in {running', incoming'}
      BY <2>1, <2>2, <2>4, <3>1, <3>2
    <3> QED
      BY <2>2, <2>3, <2>5, <3>3 DEF Registered
  <2> QED
    BY <2>7, <2>8, <2>9 DEF RolloverInv
<1> QED
  BY <1>3, <1>4 DEF RolloverInv, RolloverTypes

\* The subscription: the broker takes it, or it fails and the contract is forgotten.
LEMMA SubscribeRegisters ==
    ASSUME RolloverInv, BrokerAccepts \/ SubscribeFails
    PROVE  RolloverInv'
<1>1. /\ roll.pc = "subscribe" /\ running # None /\ running \in Contracts /\ pipe[running] \in Pipelines
      /\ roll.new \in Contracts /\ roll.new # running /\ incoming = roll.new /\ roll.new \in feed.wanted
      /\ running' = running /\ verifying' = verifying
  BY DEF BrokerAccepts, SubscribeFails, RolloverInv, RolloverTypes, Places
<1>2. CASE BrokerAccepts
  <2>1. /\ feed' \in Feeds /\ feed'.up /\ feed'.wanted = feed.wanted
        /\ feed'.sent = feed.sent \cup {roll.new}
    BY <1>1, <1>2 DEF BrokerAccepts, RolloverInv, RolloverTypes, Registered, Feeds
  <2>2. UNCHANGED <<incoming, pipe, roll>>
    BY <1>2 DEF BrokerAccepts
  <2>3. RolloverTypes' /\ BarsStayWithContract'
    BY <1>1, <2>1, <2>2 DEF RolloverInv, RolloverTypes, BarsStayWithContract
  <2>4. Places'
    BY <1>1, <2>1, <2>2 DEF RolloverInv, Places
  <2>5. Registered'
    BY <1>1, <2>1, <2>2 DEF RolloverInv, Registered
  <2> QED
    BY <2>3, <2>4, <2>5 DEF RolloverInv
<1>3. CASE SubscribeFails
  <2>1. /\ pipe' \in [Contracts -> Pipelines \cup {None}] /\ pipe'[roll.new] = None
        /\ \A d \in Contracts : d # roll.new => pipe'[d] = pipe[d]
    BY <1>1, <1>3 DEF SubscribeFails, RolloverInv, RolloverTypes
  <2>2. roll' = Idle /\ roll' \in Rolls /\ roll'.pc = "idle" /\ incoming' = None /\ feed' = feed
    BY <1>3 DEF SubscribeFails, Idle, Rolls
  <2>3. RolloverTypes' /\ BarsStayWithContract'
    BY <1>1, <2>1, <2>2 DEF RolloverInv, RolloverTypes, BarsStayWithContract
  <2>4. Places'
    BY <1>1, <2>1, <2>2 DEF RolloverInv, Places
  <2>5. Registered'
    <3>1. \A c \in feed.wanted : c \in Contracts
      BY DEF RolloverInv, RolloverTypes, Feeds
    <3>2. \A c \in feed'.wanted : pipe'[c] # None => c \in {running', incoming'}
      BY <1>1, <2>1, <2>2, <3>1 DEF RolloverInv, Registered
    <3> QED
      BY <1>1, <2>2, <3>2 DEF RolloverInv, Registered
  <2> QED
    BY <2>3, <2>4, <2>5 DEF RolloverInv
<1> QED
  BY <1>2, <1>3

\* The switch makes the incoming contract the running one; the old one's ticks are sent
\* until unsubscribe() returns, but are wanted no more.
LEMMA SwitchRegisters ==
    ASSUME RolloverInv, Switch
    PROVE  RolloverInv'
<1> DEFINE new == roll.new
<1>1. /\ roll.pc = "subscribe" /\ ~roll.cut /\ running # None /\ running \in Contracts
      /\ new \in Contracts /\ new # running /\ new # None /\ incoming = new
      /\ new \in feed.wanted /\ pipe[new] \in Pipelines
      /\ running' = new /\ incoming' = None /\ pipe' = pipe /\ verifying' = verifying
  BY ContractsAssumption DEF Switch, Switched, RolloverInv, RolloverTypes, Places
<1>2. /\ feed' \in Feeds /\ feed'.wanted = feed.wanted \ {running} /\ feed'.sent = feed.sent /\ feed'.up = feed.up
  BY DEF Switch, RolloverInv, RolloverTypes, Feeds
<1>3. roll' \in Rolls /\ roll'.pc = "unsubscribe" /\ roll'.new = new /\ roll'.cut = roll.cut
  BY DEF Switch, RolloverInv, RolloverTypes, Rolls
<1> HIDE DEF new
<1>4. RolloverTypes' /\ BarsStayWithContract'
  BY <1>1, <1>2, <1>3 DEF RolloverInv, RolloverTypes, BarsStayWithContract
<1>5. Places'
  BY <1>1, <1>2, <1>3 DEF RolloverInv, Places
<1>6. Registered'
  <2>1. \A c \in feed'.wanted : pipe'[c] # None => c \in {running', incoming'}
    BY <1>1, <1>2 DEF RolloverInv, Registered
  <2>2. \A c \in feed.sent : c \in feed.wanted
    BY <1>1 DEF RolloverInv, Registered
  <2>3. \A c \in feed'.sent : c \in feed'.wanted \/ (roll'.pc = "unsubscribe" /\ ~roll'.cut /\ c # running')
    BY <1>1, <1>2, <1>3, <2>2
  <2>4. ~feed'.up => feed'.sent = {}
    BY <1>2 DEF RolloverInv, Registered
  <2> QED
    BY <1>3, <2>1, <2>3, <2>4 DEF Registered
<1> QED
  BY <1>4, <1>5, <1>6 DEF RolloverInv

\* unsubscribe() returns: what is sent is wanted again, and the new contract is recovered.
LEMMA UnsubscribeRegisters ==
    ASSUME RolloverInv, UnsubscribeEnd
    PROVE  RolloverInv'
<1>1. /\ roll.pc = "unsubscribe" /\ ~roll.cut /\ running # None
      /\ UNCHANGED <<running, incoming, verifying>>
      /\ Recover([state |-> "RECOVERING_GAP", id |-> running])
  BY DEF UnsubscribeEnd, RolloverInv, Places
<1>2. PICK p \in Pipelines : p.bars \subseteq {running} /\ pipe' = [pipe EXCEPT ![running] = p]
  BY <1>1, RecoverPipe
<1>3. running \in Contracts /\ pipe[running] \in Pipelines
  BY <1>1, HasPipe
<1>4. /\ pipe' \in [Contracts -> Pipelines \cup {None}] /\ pipe'[running] = p
      /\ \A d \in Contracts : d # running => pipe'[d] = pipe[d]
  BY <1>2, <1>3 DEF RolloverInv, RolloverTypes
<1>5. /\ feed' \in Feeds /\ feed'.wanted = feed.wanted /\ feed'.sent = feed.sent \cap feed.wanted /\ feed'.up = feed.up
  BY DEF UnsubscribeEnd, RolloverInv, RolloverTypes, Feeds
<1>6. roll' \in Rolls /\ roll'.pc = "recover"
  BY DEF UnsubscribeEnd, RolloverInv, RolloverTypes, Rolls
<1>7. RolloverTypes' /\ BarsStayWithContract'
  BY <1>1, <1>2, <1>4, <1>5, <1>6 DEF RolloverInv, RolloverTypes, BarsStayWithContract
<1>8. Places'
  BY <1>1, <1>3, <1>4, <1>5, <1>6 DEF RolloverInv, Places
<1>9. Registered'
  <2>1. \A c \in feed.wanted : c \in Contracts
    BY DEF RolloverInv, RolloverTypes, Feeds
  <2>2. \A c \in feed'.wanted : pipe'[c] # None => c \in {running', incoming'}
    BY <1>1, <1>3, <1>4, <1>5, <2>1 DEF RolloverInv, Registered
  <2>3. ~feed'.up => feed'.sent = {}
    BY <1>5 DEF RolloverInv, Registered
  <2> QED
    BY <1>5, <1>6, <2>2, <2>3 DEF Registered
<1> QED
  BY <1>7, <1>8, <1>9 DEF RolloverInv

\* Every step of a rollover.
LEMMA RollingRegisters == RolloverInv /\ Rolling => RolloverInv'
<1> SUFFICES ASSUME RolloverInv, Rolling PROVE RolloverInv'
  OBVIOUS
<1>1. CASE PrepareFails \/ PrepareCold \/ UnsubscribeFails \/ RollEnd
  BY <1>1, PlaceRegisters
<1>2. CASE \E hole \in BOOLEAN : PrepareWarm(hole)
  BY <1>2, PrepareRegisters
<1>3. CASE BrokerAccepts \/ SubscribeFails
  BY <1>3, SubscribeRegisters
<1>4. CASE Switch
  BY <1>4, SwitchRegisters
<1>5. CASE UnsubscribeEnd
  BY <1>5, UnsubscribeRegisters
<1> QED
  BY <1>1, <1>2, <1>3, <1>4, <1>5 DEF Rolling

\* Every step of the answers.
LEMMA AnswersRegister == RolloverInv /\ Answers => RolloverInv'
BY VerifyRegisters, RecoverEndRegisters DEF Answers

\* A process that starts again.
LEMMA RestartRegisters ==
    ASSUME NEW m \in Masters, NEW hole \in BOOLEAN, Start(m, hole)
    PROVE  RolloverInv'
<1>1. Resolve(m, today) \in Contracts
  BY Resolved DEF Start
<1> QED
  BY <1>1, StartRegisters DEF Start

\* A process just started.
LEMMA StartedRegisters == RolloverInit => RolloverInv
<1> SUFFICES ASSUME RolloverInit PROVE RolloverInv
  OBVIOUS
<1>1. PICK c \in Contracts, hole \in BOOLEAN :
          /\ running = c /\ incoming = None /\ pipe = StartPipes(c, hole)
          /\ feed = [Down EXCEPT !.wanted = {c}]
  BY Resolved DEF RolloverInit
<1>2. verifying = None /\ roll = Idle
  BY DEF RolloverInit
<1>3. (c \in files) \in BOOLEAN
  OBVIOUS
<1>4. /\ pipe \in [Contracts -> Pipelines \cup {None}] /\ pipe[c] \in Pipelines /\ pipe[c].bars = {c}
      /\ \A d \in Contracts : d # c => pipe[d] = None
  BY <1>1, <1>3, NewPipeline DEF StartPipes
<1>5. feed \in Feeds /\ feed.wanted = {c} /\ feed.sent = {}
  BY <1>1 DEF Down, Feeds
<1>6. roll \in Rolls /\ roll.pc = "idle"
  BY <1>2 DEF Idle, Rolls
<1>7. c # None
  BY ContractsAssumption
<1> QED
  BY <1>1, <1>2, <1>4, <1>5, <1>6, <1>7
     DEF RolloverInv, RolloverTypes, BarsStayWithContract, Places, Registered

\* Every step of the feed, the recoveries, the rollover and the process.
LEMMA StepRegisters == RolloverInv /\ [RolloverNext]_rolloverVars => RolloverInv'
<1> SUFFICES ASSUME RolloverInv, [RolloverNext]_rolloverVars PROVE RolloverInv'
  OBVIOUS
<1>1. CASE DayPasses \/ MinuteEnds \/ VerifyStart
  BY <1>1, TimeRegisters
<1>2. CASE Connect \/ Resubscribe \/ Drop
  BY <1>2, FeedRegisters
<1>3. CASE \E c \in Contracts : QueueMinute(c)
  BY <1>3, QueueRegisters
<1>4. CASE RecoverStart
  BY <1>4, RecoverStartRegisters
<1>5. CASE Answers
  BY <1>5, AnswersRegister
<1>6. CASE \E m \in Masters : RollStart(m)
  BY <1>6, PlaceRegisters
<1>7. CASE Rolling
  BY <1>7, RollingRegisters
<1>8. CASE running = None /\ \E m \in Masters, hole \in BOOLEAN : Start(m, hole)
  BY <1>8, RestartRegisters
<1>9. CASE Crash
  BY <1>9, GoneRegisters DEF Crash
<1>10. CASE UNCHANGED rolloverVars
  BY <1>10, NothingRegisters DEF rolloverVars
<1> QED
  BY <1>1, <1>2, <1>3, <1>4, <1>5, <1>6, <1>7, <1>8, <1>9, <1>10 DEF RolloverNext

\* While the broker sends the ticks of a contract whose pipeline counts its minutes as
\* covered, on_tick routes them to that pipeline: before, inside and after subscribe(),
\* across drops and restarts, for any number of contracts.
THEOREM TicksReachTheirContract == RolloverSpec => []CoveredIsRouted
BY StartedRegisters, StepRegisters, RegisteredIsRouted, PTL DEF RolloverSpec

\* No answer that comes late, after the switch or after a restart, continues a contract's
\* history with another contract's bars.
THEOREM HistoriesStayApart == RolloverSpec => []BarsStayWithContract
<1>1. RolloverInv => BarsStayWithContract
  BY DEF RolloverInv
<1> QED
  BY <1>1, StartedRegisters, StepRegisters, PTL DEF RolloverSpec

-----------------------------------------------------------------------------
(* What a step is to each part *)

\* To the supervisor it is one of its own, or the process is killed or begins again.
LEMMA SupervisorSteps ==
    ASSUME scope \in Scopes, [AppNext]_appVars
    PROVE  [Next]_vars \/ ProcessCrash \/ StartAgain
<1>1. scope.exits \subseteq Tasks
  BY ScopeAssumption
<1>2. CASE TaskStep
  BY <1>1, <1>2 DEF TaskStep, Next
<1>3. CASE Recovery
  BY <1>3 DEF Recovery, Next
<1>4. CASE SupervisorStep
  <2>1. Supervise
    BY <1>4 DEF SupervisorStep, Handle, End, Supervise
  <2> QED
    BY <2>1 DEF Next
<1>5. CASE RolloverStep
  <2>1. CASE RollStep
    <3>1. "raised" \in Finished /\ Housekeeping \in Tasks
      BY TaskAssumption DEF Finished
    <3> QED
      BY <2>1, <3>1 DEF RollStep, Next
  <2>2. CASE UNCHANGED vars
    BY <2>2
  <2> QED
    BY <1>5, <2>1, <2>2 DEF RolloverStep, Alone, ConnectStep, AnswerStep, RecoverStep
<1>6. CASE NoticeStep \/ UNCHANGED appVars
  BY <1>6 DEF NoticeStep, appVars
<1> QED
  BY <1>2, <1>3, <1>4, <1>5, <1>6 DEF AppNext

\* To the rollover it is one of its own, or the supervisor ends the process.
LEMMA RolloverSteps ==
    ASSUME [AppNext]_appVars
    PROVE  [RolloverNext]_rolloverVars \/ End
<1>1. CASE TaskStep \/ Recovery \/ NoticeStep \/ UNCHANGED appVars
  BY <1>1 DEF TaskStep, Silently, Recovery, NoticeStep, appVars
<1>2. CASE SupervisorStep
  BY <1>2 DEF SupervisorStep, Handle, Silently
<1>3. CASE RolloverStep
  BY <1>3 DEF RolloverStep, RollStep, ConnectStep, AnswerStep, RecoverStep, RolloverNext
<1>4. CASE ProcessCrash \/ StartAgain
  BY <1>4 DEF ProcessCrash, StartAgain, RolloverNext
<1> QED
  BY <1>1, <1>2, <1>3, <1>4 DEF AppNext

\* To the notices it is one of theirs, or somebody reports.
LEMMA NoticeSteps ==
    ASSUME [AppNext]_appVars
    PROVE  \/ UNCHANGED noticeVars
           \/ Tick \/ Due \/ Send \/ SendBreaks
           \/ Tell(RecoveryEvents)
           \/ \E t \in Tasks : Tell(FailureEvents(t))
<1>1. CASE TaskStep \/ UNCHANGED appVars \/ ProcessCrash \/ StartAgain
  BY <1>1 DEF TaskStep, Silently, appVars, ProcessCrash, StartAgain
<1>2. CASE Recovery
  BY <1>2 DEF Recovery, Told
<1>3. CASE SupervisorStep
  BY <1>3 DEF SupervisorStep, Handle, Told, Silently, End
<1>4. CASE RolloverStep
  BY <1>4 DEF RolloverStep, RollStep, ConnectStep, AnswerStep, RecoverStep, Alone
<1>5. CASE NoticeStep
  BY <1>5 DEF NoticeStep
<1> QED
  BY <1>1, <1>2, <1>3, <1>4, <1>5 DEF AppNext

-----------------------------------------------------------------------------
(* Supervision and rollover *)

\* A process that is down is shut.
DownIsShut == running = None => phase = "shut"

AppInv == scope \in Scopes /\ SupervisorInv /\ RolloverInv /\ DownIsShut

\* A killed process has no task running and nothing to handle.
LEMMA CrashSupervised ==
    ASSUME SupervisorInv, ProcessCrash
    PROVE  SupervisorInv' /\ StaysGivenUp
<1>1. /\ phase' = "shut" /\ status' = [t \in Tasks |-> "cancelled"]
      /\ watched' = {} /\ batch' = {} /\ current' = {}
      /\ UNCHANGED <<stop, restarts, lastCrash, settled, agent, report>>
  BY DEF ProcessCrash
<1>2. TypeOK'
  BY <1>1 DEF SupervisorInv, TypeOK
<1>3. FailedInv' /\ BatchDone'
  BY <1>1, SameReports DEF SupervisorInv, FailedInv, BatchDone, Forgotten
<1>4. \A t \in Tasks : GivenUp(t) => GivenUp(t)'
  BY <1>1, SameReports
<1> QED
  BY <1>2, <1>3, <1>4, GivenUpStays DEF SupervisorInv

\* One that starts again is supervised from scratch.
LEMMA AgainSupervised == StartAgain => SupervisorInv'
<1> SUFFICES ASSUME StartAgain PROVE SupervisorInv'
  OBVIOUS
<1>1. /\ status' = [t \in Tasks |-> "running"]
      /\ phase' = "waiting" /\ watched' = Tasks /\ batch' = {} /\ current' = {}
      /\ stop' = FALSE /\ settled' = {}
      /\ restarts' = [t \in Tasks |-> 0] /\ lastCrash' = [t \in Tasks |-> 0]
      /\ agent' = [a \in Agents |-> "HEALTHY"]
      /\ report' = [t \in Tasks |-> [n \in Numbers(t) |-> "none"]]
  BY DEF StartAgain
<1>2. \A t \in Tasks : restarts'[t] = 0 /\ lastCrash'[t] = 0 /\ MaxRestarts[t] \in Nat
  BY <1>1, RestartsAssumption
<1>3. \A t \in Tasks : report'[t] \in [Numbers(t) -> {"none", "pending", "success", "failed"}]
  BY <1>1
<1>4. /\ agent' \in [Agents -> {"HEALTHY", "RESTARTING", "FAILED", "STOPPED"}]
      /\ restarts' \in [Tasks -> Nat] /\ lastCrash' \in [Tasks -> Nat]
      /\ status' \in [Tasks -> {"running", "cancelled"} \union Finished]
  BY <1>1
<1>5. \A t \in Tasks : restarts'[t] <= MaxRestarts[t] /\ lastCrash'[t] \in {0} \union Numbers(t)
  BY <1>2
<1>6. TypeOK'
  BY <1>1, <1>3, <1>4, <1>5 DEF TypeOK
<1>7. (\A t \in Tasks : ~GivenUp(t)') /\ \A a \in Agents : ~Lost(a)'
  <2>1. ASSUME NEW t \in Tasks PROVE ~GivenUp(t)'
    <3>1. MaxRestarts[t] + 1 \in Numbers(t)
      BY RestartsAssumption DEF Numbers
    <3> QED
      BY <1>1, <3>1 DEF GivenUp
  <2> QED
    BY <2>1 DEF Lost, AgentsOf
<1>8. FailedInv' /\ BatchDone'
  BY <1>1, <1>7 DEF FailedInv, BatchDone
<1> QED
  BY <1>6, <1>8 DEF SupervisorInv

\* Every step of the composition keeps the supervisor's invariant.
LEMMA StepAppSupervised ==
    ASSUME AppInv, [AppNext]_appVars
    PROVE  SupervisorInv'
BY SupervisorSteps, StepSupervised, CrashSupervised, AgainSupervised DEF AppInv

\* And the rollover's.
LEMMA StepAppRegisters ==
    ASSUME AppInv, [AppNext]_appVars
    PROVE  RolloverInv'
<1>1. CASE End
  BY <1>1, GoneRegisters DEF End
<1> QED
  BY <1>1, RolloverSteps, StepRegisters DEF AppInv

\* A rollover leaves the symbol with a contract.
LEMMA RolloverRuns ==
    ASSUME RolloverInv, RolloverStep
    PROVE  running' = running \/ running' # None
<1>1. CASE RollStep
  <2>1. roll.pc \in {"prepare", "subscribe"} => roll.new # None
    BY ContractsAssumption DEF RolloverInv, Places
  <2> QED
    BY <1>1, <2>1 DEF RollStep, Rolling, PrepareFails, PrepareCold, PrepareWarm, Switched, BrokerAccepts,
          SubscribeFails, Switch, UnsubscribeEnd, UnsubscribeFails, RollEnd
<1>2. CASE ConnectStep \/ AnswerStep \/ RecoverStep
  BY <1>2 DEF ConnectStep, Connect, AnswerStep, Answers, VerifyEnd, RecoverEnd, RecoverStep, RecoverStart
<1>3. CASE DayPasses \/ MinuteEnds \/ Resubscribe \/ Drop \/ VerifyStart
  BY <1>3 DEF DayPasses, MinuteEnds, Resubscribe, Drop, VerifyStart
<1>4. CASE (\E c \in Contracts : QueueMinute(c)) \/ \E m \in Masters : RollStart(m)
  BY <1>4 DEF QueueMinute, RollStart
<1> QED
  BY <1>1, <1>2, <1>3, <1>4 DEF RolloverStep

\* A process that is down stays shut until it starts again.
LEMMA StepShut ==
    ASSUME AppInv, [AppNext]_appVars
    PROVE  DownIsShut'
<1>1. CASE ProcessCrash \/ End
  BY <1>1 DEF ProcessCrash, End, Shutdown, DownIsShut
<1>2. CASE StartAgain
  <2>1. \E m \in Masters : running' = Resolve(m, today) /\ Resolve(m, today) # None
    BY <1>2 DEF StartAgain, Start
  <2> QED
    BY <2>1 DEF DownIsShut
<1>3. CASE [Next]_vars /\ (running' = running \/ running' # None)
  <2>1. phase = "shut" /\ [Next]_vars => phase' = "shut"
    BY DEF Next, vars, Exit, Settle, Signal, RecoveryCheck, Supervise, Wake, HandleExit, Restart, CutShort, Shutdown
  <2> QED
    BY <1>3, <2>1 DEF AppInv, DownIsShut
<1>4. CASE TaskStep \/ Recovery \/ NoticeStep \/ UNCHANGED appVars \/ SupervisorStep
  <2>1. running' = running \/ End
    BY <1>4 DEF TaskStep, Silently, Recovery, NoticeStep, appVars, SupervisorStep, Handle, rolloverVars
  <2> QED
    BY <1>1, <1>2, <1>3, <2>1, SupervisorSteps DEF AppInv
<1>5. CASE RolloverStep
  BY <1>1, <1>2, <1>3, <1>5, RolloverRuns, SupervisorSteps DEF AppInv
<1> QED
  BY <1>1, <1>2, <1>4, <1>5 DEF AppNext

\* The invariant of the whole holds at the start.
LEMMA StartApp == AppInit => AppInv
<1>1. Init => SupervisorInv
  BY InitType, InitFailed DEF Init, BatchDone, SupervisorInv
<1>2. RolloverInit => DownIsShut
  BY DEF RolloverInit, DownIsShut
<1> QED
  BY <1>1, <1>2, StartedRegisters DEF AppInit, AppInv

\* Every step of the whole keeps it.
LEMMA StepApp == AppInv /\ [AppNext]_appVars => AppInv'
<1>1. [AppNext]_appVars => scope' = scope
  BY DEF AppNext, appVars, TaskStep, Silently, Recovery, SupervisorStep, Handle, End, RolloverStep, Alone,
         RollStep, ConnectStep, AnswerStep, RecoverStep, ProcessCrash, StartAgain, NoticeStep
<1> QED
  BY <1>1, StepAppSupervised, StepAppRegisters, StepShut DEF AppInv

\* The supervisor's bookkeeping keeps its types, with a rollover failing inside a task and
\* processes that are killed and started again: no task is ever restarted more often than
\* its limit allows.
THEOREM AppTyped == AppSpec => []TypeOK
<1>1. AppInv => TypeOK
  BY DEF AppInv, SupervisorInv
<1> QED
  BY <1>1, StartApp, StepApp, PTL DEF AppSpec

\* As long as the process lives, a task given up is never run again and its report stays
\* failed, nor does an agent look well that has no other task: not through an exception of
\* roll_symbol, nor another task's restart.
THEOREM AppGivenUpIsFinal == AppSpec => GivenUpIsFinal
<1>1. AppInv /\ [AppNext]_appVars => [(phase = "shut" => phase' = "shut") => StaysGivenUp]_vars
  <2> SUFFICES ASSUME AppInv, [AppNext]_appVars, ~UNCHANGED vars, phase = "shut" => phase' = "shut"
               PROVE  StaysGivenUp
    OBVIOUS
  <2>1. CASE [Next]_vars
    BY <2>1, StepSupervised DEF AppInv
  <2>2. CASE ProcessCrash
    BY <2>2, CrashSupervised DEF AppInv
  <2>3. CASE StartAgain
    BY <2>3 DEF StartAgain, AppInv, DownIsShut
  <2> QED
    BY <2>1, <2>2, <2>3, SupervisorSteps DEF AppInv
<1> QED
  BY <1>1, StartApp, StepApp, PTL DEF AppSpec, GivenUpIsFinal, StaysGivenUp

\* While the broker sends the ticks of a contract whose pipeline counts its minutes as
\* covered, on_tick routes them to that pipeline, whatever ends housekeeping or the process
\* in the middle of a rollover.
THEOREM AppRoutes == AppSpec => []CoveredIsRouted
<1>1. AppInv => CoveredIsRouted
  BY RegisteredIsRouted DEF AppInv
<1> QED
  BY <1>1, StartApp, StepApp, PTL DEF AppSpec

\* And no contract's history is continued with another contract's bars.
THEOREM AppHistories == AppSpec => []BarsStayWithContract
<1>1. AppInv => BarsStayWithContract
  BY DEF AppInv, RolloverInv
<1> QED
  BY <1>1, StartApp, StepApp, PTL DEF AppSpec

-----------------------------------------------------------------------------
(* Notices *)

AgentStates == {"HEALTHY", "DEGRADED", "RESTARTING", "FAILED", "STOPPED"}
Keys        == Agents \X AgentStates \X AgentStates
Sevs        == {"INFO", "WARNING", "ERROR", "CRITICAL"}
Reports     == Seq(Events(Keys, Sevs))

\* A report and a change of an agent's state are events.
LEMMA Reported ==
    /\ <<>> \in Reports
    /\ \A sev \in Sevs : Report(sev) \in Reports
    /\ \A a \in Agents, old, new \in AgentStates : Change(a, old, new) \in Reports
    /\ \A a, b \in Reports : a \o b \in Reports
<1>1. ASSUME NEW sev \in Sevs PROVE Report(sev) \in Reports
  <2>1. [key |-> NoKey, sev |-> sev, batch |-> FALSE] \in Events(Keys, Sevs)
    BY DEF Events
  <2> HIDE DEF Sevs, Keys
  <2> QED
    BY <2>1 DEF Report, Reports
<1>2. ASSUME NEW a \in Agents, NEW old \in AgentStates, NEW new \in AgentStates
      PROVE  Change(a, old, new) \in Reports
  <2> DEFINE sev == IF new = "HEALTHY" THEN "INFO" ELSE IF new = "FAILED" THEN "ERROR" ELSE "WARNING"
             alone == new = "FAILED" \/ (new = "HEALTHY" /\ old \in {"DEGRADED", "RESTARTING"})
             e == [key |-> <<a, old, new>>, sev |-> sev, batch |-> ~alone]
  <2>1. sev \in Sevs
    BY DEF Sevs
  <2>2. <<a, old, new>> \in Keys
    BY DEF Keys
  <2> HIDE DEF sev, alone
  <2>3. e \in Events(Keys, Sevs)
    BY <2>1, <2>2 DEF Events
  <2>4. Change(a, old, new) = <<>> \/ Change(a, old, new) = <<e>>
    BY DEF Change, sev, alone
  <2> HIDE DEF e
  <2>5. <<e>> \in Reports /\ <<>> \in Reports
    BY <2>3 DEF Reports
  <2> QED
    BY <2>4, <2>5
<1>3. \A a, b \in Reports : a \o b \in Reports
  BY DEF Reports
<1>4. <<>> \in Reports
  BY DEF Reports
<1> QED
  BY <1>1, <1>2, <1>3, <1>4

\* What a failed task makes the supervisor report.
LEMMA FailureReported ==
    ASSUME TypeOK, NEW t \in Tasks
    PROVE  FailureEvents(t) \in Reports
<1>1. agent[AgentOf[t]] \in AgentStates /\ AgentOf[t] \in Agents /\ {"DEGRADED", "RESTARTING", "FAILED"} \subseteq AgentStates
      /\ {"ERROR", "CRITICAL"} \subseteq Sevs
  BY AgentsAssumption DEF TypeOK, AgentStates, Sevs
<1> DEFINE first == Report("ERROR")
           worse == Change(AgentOf[t], agent[AgentOf[t]], "DEGRADED")
           again == Change(AgentOf[t], "DEGRADED", "RESTARTING")
           over  == Change(AgentOf[t], "DEGRADED", "FAILED")
           lost  == IF t \in Critical THEN Report("CRITICAL") ELSE <<>>
           rest  == IF restarts[t] < MaxRestarts[t] THEN again ELSE over \o lost
<1>2. first \in Reports /\ worse \in Reports /\ again \in Reports /\ over \in Reports /\ lost \in Reports
  BY <1>1, Reported
<1>3. FailureEvents(t) = <<>> \/ FailureEvents(t) = first \o worse \o rest
  BY DEF FailureEvents
<1> HIDE DEF first, worse, again, over, lost
<1>4. rest \in Reports
  BY <1>2, Reported
<1> HIDE DEF rest
<1>5. (first \o worse) \o rest \in Reports
  <2>1. first \o worse \in Reports
    BY <1>2, Reported
  <2> QED
    BY <1>4, <2>1, Reported
<1> QED
  BY <1>3, <1>5, Reported

\* A finite set is put in a row.
LEMMA InARow ==
    ASSUME NEW S, IsFiniteSet(S)
    PROVE  SetToSeq(S) \in Seq(S)
<1>1. PICK n \in Nat : ExistsBijection(1..n, S)
  BY FS_NatBijection
<1>2. Cardinality(S) = n
  BY <1>1, FS_CountingElements
<1>3. \E f \in [1..n -> S] : IsInjective(f)
  BY <1>1 DEF ExistsBijection, Bijection, Injection
<1>4. SetToSeq(S) \in [1..n -> S]
  BY <1>2, <1>3 DEF SetToSeq
<1> QED
  BY <1>4

\* What a recovery check reports of the tasks that run well again.
LEMMA RecoveryReported ==
    ASSUME TypeOK
    PROVE  RecoveryEvents \in Reports
<1> DEFINE S == SetToSeq(Recovered)
           n == Len(S)
           again(i) == Change(AgentOf[S[i]], StateAt(S, i), "HEALTHY")
           step == [i \in 1..n |-> [r \in Reports |-> (r \o Report("INFO")) \o again(i)]]
           Made(g) == g = [i \in 0..n |->
                              IF i = 0 THEN <<>>
                              ELSE g[i-1] \o Report("INFO") \o again(i)]
<1>1. S \in Seq(Recovered) /\ Recovered \subseteq Tasks
  <2>1. Recovered \subseteq Tasks
    BY DEF Recovered, Running
  <2>2. IsFiniteSet(Recovered)
    BY <2>1, TaskAssumption, FS_Subset
  <2> QED
    BY <2>1, <2>2, InARow
<1>2. n \in Nat /\ \A i \in 1..n : AgentOf[S[i]] \in Agents /\ StateAt(S, i) \in AgentStates
  <2> HIDE DEF S
  <2>1. n \in Nat /\ \A i \in 1..n : S[i] \in Tasks
    BY <1>1
  <2>2. \A i \in 1..n : AgentOf[S[i]] \in Agents
    BY <2>1, AgentsAssumption
  <2> QED
    BY <2>1, <2>2 DEF StateAt, TypeOK, AgentStates
<1>3. ASSUME NEW i \in 1..n, NEW r \in Reports
      PROVE  (r \o Report("INFO")) \o again(i) \in Reports
  <2>1. "INFO" \in Sevs /\ "HEALTHY" \in AgentStates
    BY DEF Sevs, AgentStates
  <2>2. r \o Report("INFO") \in Reports
    BY <2>1, Reported
  <2>3. again(i) \in Reports
    BY <1>2, <2>1, Reported
  <2> QED
    BY <2>2, <2>3, Reported
<1>4. step \in [1..n -> [Reports -> Reports]]
  <2> HIDE DEF n, S
  <2> QED
    BY <1>3
<1>5. PICK f \in [0..n -> Reports] : Takes(f, n, <<>>, step)
  <2> HIDE DEF step, n
  <2> QED
    BY <1>2, <1>4, Reported, StepsExist
<1> HIDE DEF S, n
<1>6. Made(f)
  <2>1. f[0] = <<>>
    BY <1>5 DEF Takes
  <2>2. ASSUME NEW i \in 1..n
        PROVE  f[i] = f[i-1] \o Report("INFO") \o again(i)
    <3>1. i-1 \in 0..n /\ f[i] = step[i][f[i-1]]
      <4> HIDE DEF step
      <4> QED
        BY <1>2, <1>5 DEF Takes
    <3>2. f[i-1] \in Reports
      BY <3>1
    <3> QED
      BY <3>1, <3>2
  <2> QED
    BY <1>2, <2>1, <2>2
<1> DEFINE g == CHOOSE h : Made(h)
<1>7. Made(g)
  BY <1>6
<1>8. RecoveryEvents = g[n]
  BY DEF RecoveryEvents, S, n
<1> HIDE DEF g, step
<1> DEFINE Typed == {i \in 0..n : g[i] \in Reports}
<1>9. 0 \in Typed /\ Climbs(Typed, 0, n)
  <2>1. ASSUME NEW i \in 0..(n - 1), g[i] \in Reports PROVE g[i+1] \in Reports
    <3>1. i+1 \in 1..n /\ (i+1)-1 = i /\ i+1 # 0 /\ i+1 \in 0..n
      BY <1>2
    <3>2. \A k \in 0..n : k # 0 => g[k] = g[k-1] \o Report("INFO") \o again(k)
      BY <1>7, Zenon
    <3>3. g[i+1] = g[(i+1)-1] \o Report("INFO") \o again(i+1)
      BY <3>1, <3>2
    <3>4. g[(i+1)-1] = g[i]
      BY <3>1
    <3> QED
      BY <1>3, <2>1, <3>1, <3>3, <3>4
  <2>2. g[0] = <<>>
    BY <1>2, <1>7
  <2> QED
    BY <1>2, <2>1, <2>2, Reported DEF Climbs
<1>10. \A i \in 0..n : i \in Typed
  <2> HIDE DEF Typed
  <2> QED
    BY <1>2, <1>9, Climb
<1> QED
  BY <1>2, <1>8, <1>10

NoticeInv == Holding /\ PaceInv /\ last \in Bus(Keys, Sevs)

\* No notice is missing at the start.
LEMMA StartNotices == NoticesInit => NoticeInv
<1> SUFFICES ASSUME NoticesInit PROVE NoticeInv
  OBVIOUS
<1>1. queue = <<>> /\ sending = <<>> /\ stamps = <<>> /\ sends = <<>> /\ untold = 0
  BY DEF NoticesInit
<1>2. Holding
  BY <1>1, CountAppend DEF Holding, NothingVanishes
<1>3. PaceInv
  BY <1>1, NoticesAssumption DEF PaceInv, Paced, Aging
<1>4. last \in [{} -> [sev : Sevs, age : Nat]] /\ {} \in SUBSET Keys
  BY DEF NoticesInit
<1> QED
  BY <1>2, <1>3, <1>4 DEF NoticeInv, Bus

\* What is told joins the queue and leaves the sends alone.
LEMMA TellNotices ==
    ASSUME NoticeInv, NEW events \in Reports, Tell(events)
    PROVE  NoticeInv'
<1>1. Holding' /\ last' \in Bus(Keys, Sevs)
  BY TellHolds DEF NoticeInv, Reports
<1>2. UNCHANGED <<stamps, sending, sends>>
  BY DEF Tell
<1>3. PaceInv'
  BY <1>2 DEF NoticeInv, PaceInv, Paced
<1> QED
  BY <1>1, <1>3 DEF NoticeInv, Bus

\* Every step keeps count of the notices.
LEMMA StepNotices ==
    ASSUME AppInv, NoticeInv, [AppNext]_appVars
    PROVE  NoticeInv'
<1>1. CASE UNCHANGED noticeVars
  BY <1>1 DEF noticeVars, NoticeInv, Holding, NothingVanishes, PaceInv, Paced, Bus
<1>2. CASE Tick
  BY <1>2, FlowHolds, TickPaces, BusAges DEF NoticeInv, Bus
<1>3. CASE Due
  <2>1. last' = last
    BY <1>3 DEF Due
  <2> QED
    BY <1>3, <2>1, DueHolds, DuePaces DEF NoticeInv, Bus
<1>4. CASE Send \/ SendBreaks
  <2>1. last' = last
    BY <1>4 DEF Send, SendBreaks
  <2> QED
    BY <1>4, <2>1, FlowHolds, SendPaces DEF NoticeInv, Bus
<1>5. TypeOK
  BY DEF AppInv, SupervisorInv
<1>6. CASE Tell(RecoveryEvents)
  BY <1>5, <1>6, RecoveryReported, TellNotices
<1>7. CASE \E t \in Tasks : Tell(FailureEvents(t))
  BY <1>5, <1>7, FailureReported, TellNotices
<1> QED
  BY <1>1, <1>2, <1>3, <1>4, <1>6, <1>7, NoticeSteps

\* Past the bus no update disappears silently: through merging, requeueing and the rate
\* limit it is queued, about to be sent, or announced by a message that is.
THEOREM AppTellsAll == AppSpec => []NothingVanishes
<1>1. AppInit => NoticeInv
  BY StartNotices DEF AppInit
<1>2. NoticeInv => NothingVanishes
  BY DEF NoticeInv, Holding
<1> QED
  BY <1>1, <1>2, StartApp, StepApp, StepNotices, PTL DEF AppSpec

\* No minute sees more than twice the cap of messages, however the sends of one flush
\* stretch into the next minute.
THEOREM AppPaced == AppSpec => []SendsArePaced
<1>1. AppInit => NoticeInv
  BY StartNotices DEF AppInit
<1>2. NoticeInv => SendsArePaced
  BY PaceBounds DEF NoticeInv
<1> QED
  BY <1>1, <1>2, StartApp, StepApp, StepNotices, PTL DEF AppSpec
=============================================================================
