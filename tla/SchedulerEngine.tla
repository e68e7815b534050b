--------------------------- MODULE SchedulerEngine ---------------------------
(***************************************************************************)
(* The scheduler engine of src/scheduler/engine.ts over the task store, in *)
(* one server process that may crash, be stopped and be started again.     *)
(* Everything that is separated by an await in the code is a separate step *)
(* here: the tick (list, claim, log, start), each claimed cycle (a "job"), *)
(* lease renewal, startup recovery, agent events, cancellation and         *)
(* scheduling.  The executors of reminders and watches appear by the store *)
(* calls they end with (Deliveries models what they do before); a wake     *)
(* turn keeps the steps of ChatService.executeScheduledTurn, because the   *)
(* durable run it creates is what recovery looks at.                       *)
(***************************************************************************)
EXTENDS TaskStore, FiniteSets

CONSTANTS
    Tasks,              \* ids of the tasks that may be scheduled
    Request,            \* Request[t]: the schedule request that creates task t
    MaxConcurrency,     \* engine option, capped by SCHEDULER_MAX_CONCURRENCY
    TickMax,            \* tickMaxMs
    WakeInterval,       \* globalWakeIntervalMs
    RenewEvery,         \* SCHEDULER_LEASE_RENEWAL_MS
    RescheduleDelays,   \* delays a turn may ask for in scheduler_task_reschedule
    PrincipalQuota,     \* SCHEDULER_MAX_ACTIVE_TASKS_PER_PRINCIPAL
    GlobalQuota,        \* SCHEDULER_MAX_ACTIVE_TASKS_GLOBAL
    LogMayFail,         \* whether taskRunLog.append may reject
    EventsArrive,       \* whether agent events arrive
    CancelCallers,      \* cancel() callers: TRUE owns the task, FALSE does not
    MaxTime,            \* bound: the clock stops here
    MaxBoots            \* bound: number of process starts

ASSUME EngineConstants ==
    /\ Request \in [Tasks -> TaskRequest]
    /\ IsFiniteSet(Tasks) /\ Tasks # {}
    /\ MaxConcurrency \in Nat \ {0}
    /\ TickMax \in Nat /\ WakeInterval \in Nat /\ RenewEvery \in Nat
    /\ RescheduleDelays \subseteq Nat
    /\ PrincipalQuota \in Nat /\ GlobalQuota \in Nat
    /\ LogMayFail \in BOOLEAN /\ EventsArrive \in BOOLEAN /\ CancelCallers \subseteq BOOLEAN
    /\ MaxTime \in Nat /\ MaxBoots \in Nat

VARIABLES
    now,            \* the clock
    tasks,          \* tasks.json
    runs,           \* the run record created for each cycle of each task
    admitted,       \* schedule() calls that passed the quota check
    cancelling,     \* cancel() calls between run cancellation and store.cancel
    phase,          \* "down", "running" or "stopping": the process and this.running
    inst,           \* instance id of the current (or last) process
    booting,        \* start() has not finished recover()
    recoverQ,       \* snapshot entries recover() has still to look at
    recoverAt,      \* the time recover() read before its loop
    waitFor,        \* active runs stop() is waiting for
    ticking,        \* this.ticking
    tick,           \* the tick in progress on behalf of the timer / an event
    nudgeQ,         \* matching tasks handleAgentEvent has still to nudge
    nudgeAt,        \* the time handleAgentEvent read
    timerAt,        \* when the engine's timer fires
    lastWake,       \* this.lastWakeStartedAt
    activeCount,    \* this.activeCount
    job,            \* progress of the runClaim call of each cycle
    renewAt         \* when the lease renewal timer of each cycle fires

storeVars == <<tasks, runs>>
apiVars   == <<admitted, cancelling>>
procVars  == <<phase, inst, booting, recoverQ, recoverAt, waitFor>>
tickVars  == <<ticking, tick, nudgeQ, nudgeAt, lastWake>>
jobVars   == <<job, renewAt, activeCount>>
vars      == <<now, storeVars, apiVars, procVars, tickVars, timerAt, jobVars>>

Tickers     == {"timer", "event"}
RunStatuses == {"none", "queued", "running", "completed", "failed", "cancelled", "needs_approval"}
RunRecord   == [status : RunStatuses, cancelRequested : BOOLEAN]
NoRunRecord == [status |-> "none", cancelRequested |-> FALSE]

\* Where a tick is: about to list, about to claim (task, stamp), about to
\* log and start the claimed cycle (task, cycle).  The event ticker is in
\* "nudge" while handleAgentEvent is nudging.
TickState == [pc : {"idle", "nudge", "list", "claim", "log"},
              task : Tasks, stamp : Nat, cycle : CycleCounts]
IdleTick == [pc |-> "idle", task |-> CHOOSE t \in Tasks : TRUE, stamp |-> 0, cycle |-> NoCycle]

\* Where a runClaim call is.  WorkingSteps: before the call that closes the
\* cycle; "post": the cycle is closed, the explanation and the log remain;
\* "failing": in the catch block.
WorkingSteps == {"start", "exec", "check", "attach", "turn", "agent",
                 "complete", "reschedule", "noaction"}
JobSteps == WorkingSteps \cup {"none", "post", "failing"}

Up      == phase # "down"
Running == phase = "running"
LiveJobs == {j \in Tasks \X Cycles : job[j[1]][j[2]] # "none"}

SetTask(t, k)     == tasks' = [tasks EXCEPT ![t] = k]
SetJob(t, c, pc)  == job' = [job EXCEPT ![t][c] = pc]
SetRun(t, c, r)   == runs' = [runs EXCEPT ![t][c] = r]

\* armTimer: ignored once the engine is stopped, otherwise replaces the timer.
ArmTimer(delay) ==
    timerAt' = IF Running THEN now + (IF delay < TickMax THEN delay ELSE TickMax) ELSE timerAt

Init ==
    /\ now = 0
    /\ tasks = [t \in Tasks |-> AbsentTask(Request[t])]
    /\ runs = [t \in Tasks |-> [c \in Cycles |-> NoRunRecord]]
    /\ admitted = {} /\ cancelling = {}
    /\ phase = "down" /\ inst = 0 /\ booting = FALSE
    /\ recoverQ = {} /\ recoverAt = 0 /\ waitFor = {}
    /\ ticking = FALSE /\ tick = [k \in Tickers |-> IdleTick]
    /\ nudgeQ = {} /\ nudgeAt = 0
    /\ timerAt = NoTime /\ lastWake = NoTime /\ activeCount = 0
    /\ job = [t \in Tasks |-> [c \in Cycles |-> "none"]]
    /\ renewAt = [t \in Tasks |-> [c \in Cycles |-> NoTime]]

-----------------------------------------------------------------------------
(* schedule(): the quota is checked on a list read before create's mutation. *)

OpenTasks == {t \in Tasks : IsOpen(tasks[t])}

WithinQuota(t) ==
    /\ Cardinality({u \in OpenTasks : Request[u].principal = Request[t].principal}) < PrincipalQuota
    /\ Cardinality(OpenTasks) < GlobalQuota

ScheduleCheck(t) ==
    /\ Up
    /\ tasks[t].status = "absent" /\ t \notin admitted
    /\ WithinQuota(t)
    /\ admitted' = admitted \cup {t}
    /\ UNCHANGED <<now, storeVars, cancelling, procVars, tickVars, timerAt, jobVars>>

ScheduleCreate(t) ==
    /\ t \in admitted
    /\ admitted' = admitted \ {t}
    /\ ValidRequest(Request[t])
    /\ SetTask(t, NewTask(Request[t], now))
    /\ UNCHANGED <<now, runs, cancelling, procVars, tickVars, timerAt, jobVars>>

(* cancel(): the run is flagged first, the store checks the owner after.
   Cancelling a terminal task changes nothing and is left out. *)

CancelRequest(t, isOwner) ==
    /\ Up
    /\ IsOpen(tasks[t]) /\ <<t, isOwner>> \notin cancelling
    /\ LET r == tasks[t].activeRunId IN
       runs' = IF r = NoRun THEN runs
               ELSE [runs EXCEPT ![t][r].cancelRequested = TRUE]
    /\ cancelling' = cancelling \cup {<<t, isOwner>>}
    /\ UNCHANGED <<now, tasks, admitted, procVars, tickVars, timerAt, jobVars>>

CancelCommit(t, isOwner) ==
    /\ <<t, isOwner>> \in cancelling
    /\ cancelling' = cancelling \ {<<t, isOwner>>}
    /\ SetTask(t, IF isOwner THEN Cancelled(tasks[t], now) ELSE tasks[t])
    /\ UNCHANGED <<now, runs, admitted, procVars, tickVars, timerAt, jobVars>>

-----------------------------------------------------------------------------
(* tick(), on behalf of the timer or of handleAgentEvent. *)


\* Mutant: a tick on behalf of an event does not look at ticking.
BeginTickUnguarded(k) ==
    IF Running /\ (k = "timer" => ~ticking)
    THEN ticking' = TRUE /\ tick' = [tick EXCEPT ![k] = [IdleTick EXCEPT !.pc = "list"]]
    ELSE /\ ticking' = ticking
         /\ tick' = [tick EXCEPT ![k] = IF @.pc = "nudge" THEN IdleTick ELSE @]

\* The head of tick(): at most one tick at a time, none once stopped.
BeginTick(k) ==
    IF Running /\ ~ticking
    THEN ticking' = TRUE /\ tick' = [tick EXCEPT ![k] = [IdleTick EXCEPT !.pc = "list"]]
    ELSE /\ ticking' = ticking
         /\ tick' = [tick EXCEPT ![k] = IF @.pc = "nudge" THEN IdleTick ELSE @]

\* Mutant: a finished tick does not arm the next one.
FinishTickUnarmed(k) ==
    ticking' = FALSE /\ tick' = [tick EXCEPT ![k] = IdleTick] /\ UNCHANGED timerAt

\* The finally block of tick().
FinishTick(k) ==
    /\ ticking' = FALSE
    /\ tick' = [tick EXCEPT ![k] = IdleTick]
    /\ ArmTimer(TickMax)

TimerFires ==
    /\ Up /\ timerAt # NoTime /\ timerAt <= now
    /\ timerAt' = NoTime
    /\ BeginTick("timer")
    /\ UNCHANGED <<now, storeVars, apiVars, procVars, nudgeQ, nudgeAt, lastWake, jobVars>>

CanStartWake == lastWake = NoTime \/ now - lastWake >= WakeInterval

Due     == {t \in Tasks : tasks[t].status = "pending" /\ tasks[t].dueAt <= now}
HeldBack(t) == tasks[t].kind = "wake_turn" /\ ~CanStartWake

\* listDue sorts by dueAt and cuts the list at the free slots, before the
\* engine skips held-back wakes; tasks due at the same time come in any order.
FreeSlots == MaxConcurrency - activeCount
Listings ==
    {due \in SUBSET Due :
        /\ Cardinality(due) = IF Cardinality(Due) < FreeSlots THEN Cardinality(Due) ELSE FreeSlots
        /\ \A t \in due, u \in Due \ due : tasks[t].dueAt <= tasks[u].dueAt}

TickList(k) ==
    /\ tick[k].pc = "list" /\ activeCount < MaxConcurrency
    /\ \E due \in Listings, t \in Tasks :
         /\ t \in due /\ ~HeldBack(t)
         /\ \A u \in due : HeldBack(u) \/ tasks[t].dueAt <= tasks[u].dueAt
         /\ tick' = [tick EXCEPT ![k].pc = "claim", ![k].task = t, ![k].stamp = tasks[t].updatedAt]
    /\ UNCHANGED <<now, storeVars, apiVars, procVars, ticking, nudgeQ, nudgeAt, lastWake, timerAt, jobVars>>

TickDone(k) ==
    /\ tick[k].pc = "list"
    /\ \/ activeCount >= MaxConcurrency
       \/ \E due \in Listings : \A t \in due : HeldBack(t)
    /\ FinishTick(k)
    /\ UNCHANGED <<now, storeVars, apiVars, procVars, nudgeQ, nudgeAt, lastWake, jobVars>>

TickClaim(k) ==
    LET t == tick[k].task
        claimed == ClaimResult(tasks[t], tick[k].stamp, now) = "claimed" IN
    /\ tick[k].pc = "claim"
    /\ SetTask(t, AfterClaim(tasks[t], tick[k].stamp, inst, now))
    /\ tick' = [tick EXCEPT ![k].pc = IF claimed THEN "log" ELSE "list",
                            ![k].cycle = IF claimed THEN tasks'[t].activeCycleId ELSE NoCycle]
    /\ lastWake' = IF claimed /\ tasks[t].kind = "wake_turn" THEN now ELSE lastWake
    /\ UNCHANGED <<now, runs, apiVars, procVars, ticking, nudgeQ, nudgeAt, timerAt, jobVars>>

\* The "claimed" log entry, then runClaim starts (it runs up to its first
\* await) and the slot is counted.
TickStart(k) ==
    LET t == tick[k].task  c == tick[k].cycle IN
    /\ tick[k].pc = "log"
    /\ SetJob(t, c, "start")
    /\ activeCount' = activeCount + 1
    /\ tick' = [tick EXCEPT ![k] = [IdleTick EXCEPT !.pc = "list"]]
    /\ UNCHANGED <<now, storeVars, apiVars, procVars, ticking, nudgeQ, nudgeAt, lastWake, timerAt, renewAt>>

\* taskRunLog.append rejects: the tick ends, the claim stays.  On behalf of
\* the timer this is an unhandled rejection, which ends the process (Crash).
TickLogFails ==
    /\ LogMayFail
    /\ tick["event"].pc = "log"
    /\ FinishTick("event")
    /\ UNCHANGED <<now, storeVars, apiVars, procVars, nudgeQ, nudgeAt, lastWake, jobVars>>

-----------------------------------------------------------------------------
(* handleAgentEvent: nudge every matching open task, then tick. *)

MatchesEvent(t) == Request[t].matches /\ tasks[t].kind \in {"watch", "event_subscription"}

EventArrives ==
    /\ EventsArrive /\ Up
    /\ tick["event"].pc = "idle"
    /\ tick' = [tick EXCEPT !["event"].pc = "nudge"]
    /\ nudgeQ' = {t \in OpenTasks : MatchesEvent(t)}
    /\ nudgeAt' = now
    /\ UNCHANGED <<now, storeVars, apiVars, procVars, ticking, lastWake, timerAt, jobVars>>

EventNudge(t) ==
    /\ t \in nudgeQ
    /\ nudgeQ' = nudgeQ \ {t}
    /\ SetTask(t, Nudged(tasks[t], nudgeAt, now))
    /\ UNCHANGED <<now, runs, apiVars, procVars, ticking, tick, nudgeAt, lastWake, timerAt, jobVars>>

EventTick ==
    /\ tick["event"].pc = "nudge" /\ nudgeQ = {}
    /\ BeginTick("event")
    /\ nudgeAt' = 0
    /\ UNCHANGED <<now, storeVars, apiVars, procVars, nudgeQ, lastWake, timerAt, jobVars>>

-----------------------------------------------------------------------------
(* runClaim: one job per claimed cycle. *)


\* run.finally: the slot is freed and the engine ticks at once.
EndJob(t, c) ==
    /\ SetJob(t, c, "none")
    /\ renewAt' = [renewAt EXCEPT ![t][c] = NoTime]
    /\ activeCount' = activeCount - 1
    /\ waitFor' = waitFor \ {<<t, c>>}
    /\ ArmTimer(0)
    /\ UNCHANGED <<phase, inst, booting, recoverQ, recoverAt>>

JobUnchanged == UNCHANGED <<now, apiVars, procVars, tickVars, timerAt, activeCount>>

\* A store call that closes cycle c with record k: it throws when the cycle
\* is no longer active, and runClaim's catch block takes over.
Close(t, c, k) ==
    IF HasActiveCycle(tasks[t], c)
    THEN SetTask(t, k) /\ SetJob(t, c, "post")
    ELSE UNCHANGED tasks /\ SetJob(t, c, "failing")

JobStart(t, c) ==
    /\ job[t][c] = "start"
    /\ IF CanMarkRunning(tasks[t], c, inst)
       THEN /\ SetTask(t, MarkedRunning(tasks[t], NoRun, now))
            /\ SetJob(t, c, "exec")
            /\ renewAt' = [renewAt EXCEPT ![t][c] = now + RenewEvery]
       ELSE /\ SetJob(t, c, "failing")
            /\ UNCHANGED <<tasks, renewAt>>
    /\ UNCHANGED runs /\ JobUnchanged

RenewLease(t, c) ==
    /\ renewAt[t][c] # NoTime /\ renewAt[t][c] <= now
    /\ IF CanRenew(tasks[t], c, inst)
       THEN /\ SetTask(t, Renewed(tasks[t], now))
            /\ renewAt' = [renewAt EXCEPT ![t][c] = IF Running THEN now + RenewEvery ELSE NoTime]
       ELSE /\ renewAt' = [renewAt EXCEPT ![t][c] = NoTime]
            /\ UNCHANGED tasks
    /\ UNCHANGED <<runs, job>> /\ JobUnchanged

\* ReminderExecutor.execute ends in completeCycle (the next due time counts
\* from now) or, when every attempt to send failed, in failCycle.
ReminderEnds(t, c) ==
    LET next == IF tasks[t].interval = 0 THEN NoTime ELSE now + tasks[t].interval IN
    /\ job[t][c] = "exec" /\ tasks[t].kind = "reminder"
    /\ \/ Close(t, c, CompletedCycle(tasks[t], next, now))
       \/ Close(t, c, FailedCycle(tasks[t], NoTime, TRUE, now))
    /\ UNCHANGED <<runs, renewAt>> /\ JobUnchanged

\* WatchExecutor.execute: probe unknown, nothing to report, or a terminal
\* observation reported without a wake; a wake goes on as a turn.
WatchEnds(t, c) ==
    LET next == now + tasks[t].interval IN
    /\ job[t][c] = "exec" /\ tasks[t].kind = "watch"
    /\ \/ Close(t, c, FailedCycle(tasks[t], next, tasks[t].consecutiveFailures >= 2, now))
       \/ Close(t, c, CompletedCycle(tasks[t], next, now))
       \/ Close(t, c, CompletedCycle(tasks[t], NoTime, now))
       \/ Close(t, c, FailedCycle(tasks[t], NoTime, TRUE, now))
    /\ UNCHANGED <<runs, renewAt>> /\ JobUnchanged

WakeStarts(t, c) ==
    /\ job[t][c] = "exec" /\ tasks[t].kind # "reminder"
    /\ SetJob(t, c, "check")
    /\ UNCHANGED <<storeVars, renewAt>> /\ JobUnchanged

\* executeScheduledTurn, once it has the session: the cycle must still be
\* active; the run is created queued.
TurnCreatesRun(t, c) ==
    /\ job[t][c] = "check"
    /\ IF HasActiveCycle(tasks[t], c)
       THEN /\ SetRun(t, c, [NoRunRecord EXCEPT !.status = "queued"])
            /\ SetJob(t, c, "attach")
       ELSE /\ SetJob(t, c, "failing")
            /\ UNCHANGED runs
    /\ UNCHANGED <<tasks, renewAt>> /\ JobUnchanged

TurnAttachesRun(t, c) ==
    /\ job[t][c] = "attach"
    /\ IF CanMarkRunning(tasks[t], c, inst)
       THEN /\ SetTask(t, MarkedRunning(tasks[t], c, now))
            /\ SetJob(t, c, "turn")
       ELSE /\ SetJob(t, c, "failing")
            /\ UNCHANGED tasks
    /\ UNCHANGED <<runs, renewAt>> /\ JobUnchanged

\* The subscription is blocked, or executeRunCore finds the run cancelled
\* before it starts, or it starts.
TurnBegins(t, c) ==
    /\ job[t][c] = "turn"
    /\ \/ SetJob(t, c, "noaction") /\ UNCHANGED runs
       \/ /\ runs[t][c].cancelRequested
          /\ SetRun(t, c, [runs[t][c] EXCEPT !.status = "cancelled"])
          /\ SetJob(t, c, "noaction")
       \/ /\ ~runs[t][c].cancelRequested
          /\ SetRun(t, c, [runs[t][c] EXCEPT !.status = "running"])
          /\ SetJob(t, c, "agent")
    /\ UNCHANGED <<tasks, renewAt>> /\ JobUnchanged

\* The agent returns with whatever outcome, having selected at most one
\* terminal action; the run record gets the outcome.
TurnEnds(t, c) ==
    /\ job[t][c] = "agent"
    /\ \E outcome \in {"completed", "failed", "cancelled", "needs_approval"},
          action \in {"complete", "reschedule", "noaction"} :
         /\ outcome = "cancelled" => runs[t][c].cancelRequested
         /\ SetRun(t, c, [runs[t][c] EXCEPT !.status = outcome])
         /\ SetJob(t, c, action)
    /\ UNCHANGED <<tasks, renewAt>> /\ JobUnchanged

\* The terminal action is written to the task; no action is a failure.
TurnCloses(t, c) ==
    /\ \/ /\ job[t][c] = "complete"
          /\ Close(t, c, CompletedCycle(tasks[t], NoTime, now))
       \/ /\ job[t][c] = "reschedule"
          /\ \E d \in RescheduleDelays : Close(t, c, CompletedCycle(tasks[t], now + d, now))
       \/ /\ job[t][c] = "noaction"
          /\ Close(t, c, FailedCycle(tasks[t], NoTime, TRUE, now))
    /\ UNCHANGED <<runs, renewAt>> /\ JobUnchanged

\* The summary or reason the tools accept (500 characters) is longer than
\* the stored digest may be (256): the mutation fails validation and throws.
TurnCloseInvalid(t, c) ==
    /\ job[t][c] \in {"complete", "reschedule"} /\ tasks[t].kind # "watch"
    /\ SetJob(t, c, "failing")
    /\ UNCHANGED <<storeVars, renewAt>> /\ JobUnchanged

\* An executor throws (ledger, probe, run store, thread runtime).
JobThrows(t, c) ==
    /\ job[t][c] \in {"exec", "check", "attach", "turn", "post"}
    /\ SetJob(t, c, "failing")
    /\ UNCHANGED <<storeVars, renewAt>> /\ JobUnchanged

\* Explanation delivered, "completed" logged.
JobDone(t, c) ==
    /\ job[t][c] = "post"
    /\ EndJob(t, c)
    /\ UNCHANGED <<now, storeVars, apiVars, tickVars>>


\* Mutant: the catch block only logs.
JobFailsUnrecorded(t, c) ==
    /\ job[t][c] = "failing"
    /\ EndJob(t, c)
    /\ UNCHANGED <<now, storeVars, apiVars, tickVars>>

\* The catch block: failCycle, whose own failure is swallowed.
JobFails(t, c) ==
    /\ job[t][c] = "failing"
    /\ SetTask(t, IF HasActiveCycle(tasks[t], c)
                  THEN FailedCycle(tasks[t], NoTime, TRUE, now) ELSE tasks[t])
    /\ EndJob(t, c)
    /\ UNCHANGED <<now, runs, apiVars, tickVars>>

-----------------------------------------------------------------------------
(* The process: start() with recover(), stop(), exit and crash. *)


LeaseExpired(k, at) == k.leaseExpiresAt = NoTime \/ k.leaseExpiresAt <= at

\* bootstrap: init, running = true, and the list recover() works from.
Boot ==
    /\ phase = "down" /\ inst < MaxBoots
    /\ phase' = "running" /\ inst' = inst + 1 /\ booting' = TRUE
    /\ recoverAt' = now
    /\ recoverQ' = {<<t, tasks[t].activeCycleId, tasks[t].activeRunId>> :
                      t \in {u \in Tasks : IsActive(tasks[u]) /\ LeaseExpired(tasks[u], now)}}
    /\ waitFor' = {}
    /\ UNCHANGED <<now, storeVars, apiVars, tickVars, timerAt, jobVars>>

\* What recover() asks the store for, from the outcome of the attached run.
RecoverAction(t, r) ==
    LET status == IF r = NoRun THEN "none" ELSE runs[t][r].status IN
    IF status = "completed" THEN "complete"
    ELSE IF status \in {"failed", "cancelled", "needs_approval"} THEN "fail"
    ELSE "reclaim"

RecoverTask(t) ==
    \E entry \in recoverQ :
        /\ entry[1] = t
        /\ recoverQ' = recoverQ \ {entry}
        /\ SetTask(t, Reconciled(tasks[t], entry[2], RecoverAction(t, entry[3]), recoverAt, now))
        /\ UNCHANGED <<now, runs, apiVars, phase, inst, booting, recoverAt, waitFor, tickVars, timerAt, jobVars>>

RecoverDone ==
    /\ booting /\ recoverQ = {}
    /\ booting' = FALSE
    /\ ArmTimer(0)
    /\ UNCHANGED <<now, storeVars, apiVars, phase, inst, recoverQ, recoverAt, waitFor, tickVars, jobVars>>

\* stop(): only the flag and the timer; a tick past its first test goes on.
Stop ==
    /\ phase = "running"
    /\ phase' = "stopping"
    /\ timerAt' = NoTime
    /\ waitFor' = LiveJobs
    /\ UNCHANGED <<now, storeVars, apiVars, inst, booting, recoverQ, recoverAt, tickVars, jobVars>>

\* Everything in memory is lost.
ProcessEnds ==
    /\ phase' = "down" /\ booting' = FALSE /\ recoverQ' = {} /\ recoverAt' = 0 /\ waitFor' = {}
    /\ admitted' = {} /\ cancelling' = {}
    /\ ticking' = FALSE /\ tick' = [k \in Tickers |-> IdleTick]
    /\ nudgeQ' = {} /\ nudgeAt' = 0
    /\ timerAt' = NoTime /\ lastWake' = NoTime /\ activeCount' = 0
    /\ job' = [t \in Tasks |-> [c \in Cycles |-> "none"]]
    /\ renewAt' = [t \in Tasks |-> [c \in Cycles |-> NoTime]]
    /\ UNCHANGED <<now, storeVars, inst>>

Exit  == phase = "stopping" /\ waitFor = {} /\ ProcessEnds
Crash == Up /\ ProcessEnds

Advance ==
    /\ now < MaxTime
    /\ now' = now + 1
    /\ UNCHANGED <<storeVars, apiVars, procVars, tickVars, timerAt, jobVars>>

JobStep(t, c) ==
    \/ JobStart(t, c) \/ RenewLease(t, c)
    \/ ReminderEnds(t, c) \/ WatchEnds(t, c) \/ WakeStarts(t, c)
    \/ TurnCreatesRun(t, c) \/ TurnAttachesRun(t, c) \/ TurnBegins(t, c)
    \/ TurnEnds(t, c) \/ TurnCloses(t, c) \/ TurnCloseInvalid(t, c)
    \/ JobThrows(t, c) \/ JobDone(t, c) \/ JobFails(t, c)

TickStep(k) == TickList(k) \/ TickDone(k) \/ TickClaim(k) \/ TickStart(k)

Next ==
    \/ \E t \in Tasks : ScheduleCheck(t) \/ ScheduleCreate(t)
    \/ \E t \in Tasks, own \in CancelCallers : CancelRequest(t, own) \/ CancelCommit(t, own)
    \/ TimerFires \/ TickLogFails
    \/ \E k \in Tickers : TickStep(k)
    \/ EventArrives \/ EventTick \/ \E t \in Tasks : EventNudge(t)
    \/ \E t \in Tasks, c \in Cycles : JobStep(t, c)
    \/ Boot \/ RecoverDone \/ \E t \in Tasks : RecoverTask(t)
    \/ Stop \/ Exit \/ Crash
    \/ Advance

Spec == Init /\ [][Next]_vars

-----------------------------------------------------------------------------
(* Fairness: every asynchronous step the process has started is eventually  *)
(* taken while the process lives (the agent loop is bounded by              *)
(* agentMaxDurationMs, sends and probes by their timeouts), and time passes. *)
(* Nothing is assumed of users, agent events, stop signals and crashes.     *)

Fairness ==
    /\ WF_vars(Advance) /\ WF_vars(Boot) /\ WF_vars(RecoverDone)
    /\ WF_vars(TimerFires) /\ WF_vars(EventTick)
    /\ \A t \in Tasks : WF_vars(RecoverTask(t)) /\ WF_vars(EventNudge(t))
    /\ \A k \in Tickers : WF_vars(TickStep(k))
    /\ \A t \in Tasks, c \in Cycles : WF_vars(JobStep(t, c))

FairSpec == Spec /\ Fairness

-----------------------------------------------------------------------------
(* Properties. *)

\* Every variable has its type.
TypeOK ==
    /\ now \in 0..MaxTime
    /\ tasks \in [Tasks -> TaskRecord]
    /\ runs \in [Tasks -> [Cycles -> RunRecord]]
    /\ admitted \subseteq Tasks
    /\ cancelling \subseteq Tasks \X BOOLEAN
    /\ phase \in {"down", "running", "stopping"}
    /\ inst \in 0..MaxBoots
    /\ booting \in BOOLEAN
    /\ recoverQ \subseteq Tasks \X Cycles \X CycleCounts
    /\ recoverAt \in Nat
    /\ waitFor \subseteq Tasks \X Cycles
    /\ ticking \in BOOLEAN
    /\ tick \in [Tickers -> TickState]
    /\ nudgeQ \subseteq Tasks
    /\ nudgeAt \in Nat
    /\ timerAt \in OptionalTime
    /\ lastWake \in OptionalTime
    /\ activeCount \in Int
    /\ job \in [Tasks -> [Cycles -> JobSteps]]
    /\ renewAt \in [Tasks -> [Cycles -> OptionalTime]]

\* A cycle that is still being worked on holds the durable claim of its task,
\* for this process, unless the user cancelled the task: neither recovery, nor
\* another tick, nor the late end of an earlier cycle of the same task can
\* take the task away from it (claim, requireActiveCycle and reconcile).
LiveJobsOwnClaim ==
    \A t \in Tasks, c \in Cycles :
        job[t][c] \in WorkingSteps =>
            \/ HasActiveCycle(tasks[t], c) /\ tasks[t].claimOwner = inst
            \/ tasks[t].status = "cancelled"

\* Conversely a claim of the living process has somebody working on it: the
\* tick that took it or a job that has not ended (runClaim's catch block).
ClaimHasWorker ==
    \A t \in Tasks :
        (Up /\ IsActive(tasks[t]) /\ tasks[t].claimOwner = inst) =>
            \/ job[t][tasks[t].activeCycleId] \in WorkingSteps \cup {"failing"}
            \/ \E k \in Tickers : tick[k].pc = "log" /\ tick[k].task = t

\* activeCount counts the runClaim calls in flight and never exceeds
\* maxConcurrency, although timer ticks and event ticks interleave.
SlotsAreCounted ==
    activeCount = Cardinality(LiveJobs) /\ activeCount <= MaxConcurrency

\* A running engine always has a timer armed or a tick in progress that will
\* arm one: no interleaving of timer, event tick and job end puts it to sleep.
EngineNeverSleeps ==
    (Running /\ ~booting) => (timerAt # NoTime \/ ticking)

\* After startup recovery a claim that another instance left behind is one
\* whose lease was still held when recovery looked: expired ones are gone.
RecoverySweepsExpired ==
    (Running /\ ~booting) =>
        \A t \in Tasks : (IsActive(tasks[t]) /\ tasks[t].claimOwner # inst) =>
            ~(tasks[t].leaseExpiresAt <= recoverAt)

\* A cycle that reaches executeScheduledTurn has no run yet, over any number
\* of crashes and reclaims: cycle numbers are never reused.
FreshCycleHasNoRun ==
    \A t \in Tasks, c \in Cycles :
        (job[t][c] \in {"start", "exec", "check"}) => runs[t][c].status = "none"

\* A claim has its worker, or a holder whose lease recovery respects, and its
\* cycle is new.
ClaimsAreAttended == ClaimHasWorker /\ RecoverySweepsExpired /\ FreshCycleHasNoRun

\* No task is claimed more often than maxCycles, over crashes and reclaims,
\* and the active cycle is always the latest one.
CyclesAreBounded ==
    \A t \in Tasks :
        /\ tasks[t].cycleCount <= tasks[t].maxCycles
        /\ IsActive(tasks[t]) => tasks[t].activeCycleId = tasks[t].cycleCount

\* A terminal task is never written again: no late job, nudge, renewal,
\* recovery or cancellation revives it.
TerminalIsFinal ==
    [][\A t \in Tasks : IsTerminal(tasks[t]) => tasks'[t] = tasks[t]]_vars

\* Two wake_turn cycles claimed by one process start at least the global wake
\* interval apart (canStartWake is read one await before the claim).
WakesAreSpaced ==
    [][\A t \in Tasks :
         (tasks[t].kind = "wake_turn" /\ ~IsActive(tasks[t]) /\ IsActive(tasks'[t])) =>
             (lastWake = NoTime \/ now - lastWake >= WakeInterval)]_vars

\* No claim stays for ever while the engine keeps running: it is closed by its
\* job, by cancellation or by recovery.
ClaimsAreClosed ==
    <>[]Running => \A t \in Tasks : []<>~IsActive(tasks[t])

\* A due task does not stay pending for ever while the engine keeps running,
\* although a wake held back at the head of the list hides the tasks behind
\* it.  (The clock stops at MaxTime: a wake held back there stays so.)
DueTasksAreTaken ==
    <>[]Running => \A t \in Tasks :
        (t \in Due) ~> (t \notin Due \/ (now = MaxTime /\ \E u \in Due : HeldBack(u)))

\* The engine with its store implements the life of a task that TaskLifecycle
\* promises: stages and cycles seen from outside.
Stage(k) ==
    IF k.status = "absent" THEN "absent"
    ELSE IF k.status = "pending" THEN "waiting"
    ELSE IF IsActive(k) THEN "active"
    ELSE "done"

Lifecycle == INSTANCE TaskLifecycle WITH
    Limit   <- [t \in Tasks |-> Request[t].maxCycles],
    Holders <- 1..MaxBoots,
    stage   <- [t \in Tasks |-> Stage(tasks[t])],
    spent   <- [t \in Tasks |-> tasks[t].cycleCount],
    holder  <- [t \in Tasks |-> tasks[t].claimOwner]

ImplementsLifecycle == Lifecycle!Spec

-----------------------------------------------------------------------------
(* What the design documents say and the code does not do. *)

\* docs/rfc-autonomous-wake-and-reminders.md, 9.1: stop accepting new claims.
NoClaimAfterStop ==
    [][phase = "stopping" =>
         \A t \in Tasks : ~IsActive(tasks[t]) => ~IsActive(tasks'[t])]_vars

\* README: the scheduler enforces per-principal and global active-task quotas.
QuotaIsEnforced ==
    Cardinality(OpenTasks) <= GlobalQuota

\* The tool scheduler_task_complete marks the current cycle complete: a turn
\* that selected it, while its cycle is active, leaves the task completed.
AcceptedCompletionIsRecorded ==
    [][\A t \in Tasks, c \in Cycles :
         (job[t][c] = "complete" /\ job'[t][c] \notin {"complete", "none"}
            /\ HasActiveCycle(tasks[t], c)) => tasks'[t].status = "completed"]_vars

\* Recovery matrix: while a run is running, do not create another run.
NoSecondUnfinishedRun ==
    \A t \in Tasks : tasks[t].kind = "wake_turn" =>
        Cardinality({c \in Cycles : runs[t][c].status \in {"queued", "running"}}) <= 1
=============================================================================
