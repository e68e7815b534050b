----------------------- MODULE SchedulerEngineProofs -----------------------
(***************************************************************************)
(* Proofs about SchedulerEngine for every value of the constants: type     *)
(* correctness, the safety properties of claims, that the engine           *)
(* implements TaskLifecycle, and what it promises about its own work: the  *)
(* timer is never lost, the slots are counted, wakes keep their distance,  *)
(* and every claim has somebody who attends to it.                         *)
(***************************************************************************)
EXTENDS SchedulerEngine, TaskStoreProofs, FiniteSetTheorems, TLAPS

-----------------------------------------------------------------------------
(* The inductive invariant, part by part. *)

TasksShaped ==
    \A t \in Tasks :
        /\ Shaped(tasks[t])
        /\ tasks[t].maxCycles = Request[t].maxCycles

\* A call that passed the quota check has not created its task, and a call
\* that is cancelling a task found one.
CallsShaped ==
    /\ \A t \in admitted : tasks[t].status = "absent"
    /\ \A p \in cancelling : tasks[p[1]].status # "absent"

\* Nothing is in memory while the process is down.
ProcessShaped ==
    /\ Up => inst # 0
    /\ ~Up => /\ recoverQ = {} /\ nudgeQ = {} /\ ~booting
              /\ \A k \in Tickers : tick[k].pc = "idle"
              /\ \A t \in Tasks, c \in Cycles : job[t][c] = "none"

\* The guard of tick() excludes a second tick.
BusyTick(k) == tick[k].pc \in {"list", "claim", "log"}
TicksExclude ==
    /\ \A k \in Tickers : BusyTick(k) => ticking
    /\ \A k, l \in Tickers : (BusyTick(k) /\ BusyTick(l)) => k = l

OwnedBy(k, c, instance) ==
    \/ HasActiveCycle(k, c) /\ k.claimOwner = instance
    \/ k.status = "cancelled"

Owns(t, c) == OwnedBy(tasks[t], c, inst)

\* What a tick has claimed and not started yet is still its own.
ClaimedNotStarted ==
    \A k \in Tickers : tick[k].pc = "log" =>
        /\ tick[k].cycle \in Cycles
        /\ tick[k].cycle <= tasks[tick[k].task].cycleCount
        /\ job[tick[k].task][tick[k].cycle] = "none"
        /\ Owns(tick[k].task, tick[k].cycle)

\* No job works on a cycle that was not claimed yet.
JobsShaped ==
    \A t \in Tasks, c \in Cycles : job[t][c] # "none" => c <= tasks[t].cycleCount

\* What recovery has still to look at are cycles of earlier instances.
RecoveryShaped ==
    \A e \in recoverQ :
        /\ e[2] <= tasks[e[1]].cycleCount
        /\ tasks[e[1]].activeCycleId = e[2] => tasks[e[1]].claimOwner # inst

OwnersKnown == \A t \in Tasks : tasks[t].claimOwner <= inst

IInv ==
    /\ TypeOK
    /\ TasksShaped
    /\ CallsShaped
    /\ ProcessShaped
    /\ TicksExclude
    /\ ClaimedNotStarted
    /\ JobsShaped
    /\ RecoveryShaped
    /\ OwnersKnown
    /\ LiveJobsOwnClaim

-----------------------------------------------------------------------------
(* Every step of the engine writes at most one task, in one of four ways. *)

Evolves(t) ==
    LET k == tasks[t]  m == tasks'[t] IN
    /\ tasks' = [tasks EXCEPT ![t] = m]
    /\ Sound(k, m)
    /\ \/ Stays(k, m) \/ Leaves(k, m)
       \/ Takes(k, m, inst) /\ \E q \in Tickers : tick[q].pc = "claim"
       \/ Creates(k, m) /\ t \in admitted /\ t \notin admitted'

TasksEvolve == tasks' = tasks \/ \E t \in Tasks : Evolves(t)

LEMMA WriteEvolves ==
    ASSUME TypeOK, NEW t \in Tasks, NEW m, SetTask(t, m),
           \/ m = tasks[t]
           \/ /\ Sound(tasks[t], m)
              /\ \/ Stays(tasks[t], m) \/ Leaves(tasks[t], m)
                 \/ Takes(tasks[t], m, inst) /\ \E q \in Tickers : tick[q].pc = "claim"
                 \/ Creates(tasks[t], m) /\ t \in admitted /\ t \notin admitted'
    PROVE  TasksEvolve
<1>1. tasks' = [tasks EXCEPT ![t] = m] /\ tasks'[t] = m
  BY DEF SetTask, TypeOK
<1>2. CASE m = tasks[t]
  BY <1>1, <1>2 DEF TypeOK, TasksEvolve
<1>3. CASE m # tasks[t]
  BY <1>1, <1>3 DEF Evolves, TasksEvolve
<1> QED
  BY <1>2, <1>3

\* A job's closing store call, when the closed record leaves.
LEMMA CloseEvolves ==
    ASSUME TypeOK, NEW t \in Tasks, NEW c \in Cycles, NEW m, Close(t, c, m),
           IsActive(tasks[t]) => Sound(tasks[t], m) /\ Leaves(tasks[t], m)
    PROVE  TasksEvolve
<1>1. CASE HasActiveCycle(tasks[t], c)
  BY <1>1, WriteEvolves DEF Close, HasActiveCycle
<1>2. CASE ~HasActiveCycle(tasks[t], c)
  BY <1>2 DEF Close, TasksEvolve
<1> QED
  BY <1>1, <1>2

\* The types of the values the closing calls compute from a task.
LEMMA NextDueTypes ==
    ASSUME TypeOK, NEW t \in Tasks
    PROVE  /\ now \in Nat /\ tasks[t] \in TaskRecord
           /\ now + tasks[t].interval \in Nat
           /\ NoTime \in OptionalTime /\ Nat \subseteq OptionalTime
           /\ \A d \in RescheduleDelays : now + d \in Nat
           /\ inst \in Nat /\ recoverAt \in Nat /\ nudgeAt \in Nat
<1>1. now \in Nat /\ tasks[t] \in TaskRecord /\ inst \in Nat /\ recoverAt \in Nat /\ nudgeAt \in Nat
  BY EngineConstants DEF TypeOK
<1>2. tasks[t].interval \in Nat
  BY <1>1 DEF TaskRecord
<1>3. now + tasks[t].interval \in Nat
  BY <1>1, <1>2
<1>4. \A d \in RescheduleDelays : now + d \in Nat
  BY <1>1, EngineConstants
<1> QED
  BY <1>1, <1>3, <1>4, NoValues

LEMMA TurnClosesEvolves ==
    ASSUME TypeOK, TasksShaped, NEW t \in Tasks, NEW c \in Cycles, TurnCloses(t, c)
    PROVE  TasksEvolve
<1> USE NextDueTypes, CloseEvolves, CompletedCycleLeaves, FailedCycleLeaves DEF TasksShaped
<1>1. CASE Close(t, c, CompletedCycle(tasks[t], NoTime, now))
  BY <1>1
<1>2. CASE \E d \in RescheduleDelays : Close(t, c, CompletedCycle(tasks[t], now + d, now))
  <2>1. PICK d \in RescheduleDelays : Close(t, c, CompletedCycle(tasks[t], now + d, now))
    BY <1>2
  <2>2. now + d \in OptionalTime
    BY <2>1
  <2> QED
    BY <2>1, <2>2
<1>3. CASE Close(t, c, FailedCycle(tasks[t], NoTime, TRUE, now))
  BY <1>3
<1> QED
  BY <1>1, <1>2, <1>3 DEF TurnCloses

LEMMA ReminderEndsEvolves ==
    ASSUME TypeOK, TasksShaped, NEW t \in Tasks, NEW c \in Cycles, ReminderEnds(t, c)
    PROVE  TasksEvolve
<1> DEFINE next == IF tasks[t].interval = 0 THEN NoTime ELSE now + tasks[t].interval
<1> USE NextDueTypes, CloseEvolves, CompletedCycleLeaves, FailedCycleLeaves DEF TasksShaped
<1>1. next \in OptionalTime
  OBVIOUS
<1> HIDE DEF next
<1>2. CASE Close(t, c, CompletedCycle(tasks[t], next, now))
  BY <1>1, <1>2
<1>3. CASE Close(t, c, FailedCycle(tasks[t], NoTime, TRUE, now))
  BY <1>3
<1> QED
  BY <1>2, <1>3 DEF ReminderEnds, next

LEMMA WatchEndsEvolves ==
    ASSUME TypeOK, TasksShaped, NEW t \in Tasks, NEW c \in Cycles, WatchEnds(t, c)
    PROVE  TasksEvolve
<1> DEFINE next == now + tasks[t].interval
           thrice == tasks[t].consecutiveFailures >= 2
<1> USE NextDueTypes, CloseEvolves, CompletedCycleLeaves, FailedCycleLeaves DEF TasksShaped
<1>1. next \in OptionalTime /\ thrice \in BOOLEAN
  OBVIOUS
<1> HIDE DEF next, thrice
<1>2. CASE Close(t, c, FailedCycle(tasks[t], next, thrice, now))
  BY <1>1, <1>2
<1>3. CASE Close(t, c, CompletedCycle(tasks[t], next, now))
  BY <1>1, <1>3
<1>4. CASE Close(t, c, CompletedCycle(tasks[t], NoTime, now))
  BY <1>4
<1>5. CASE Close(t, c, FailedCycle(tasks[t], NoTime, TRUE, now))
  BY <1>5
<1> QED
  BY <1>2, <1>3, <1>4, <1>5 DEF WatchEnds, next, thrice

LEMMA TickClaimEvolves ==
    ASSUME TypeOK, TasksShaped, NEW k \in Tickers, TickClaim(k)
    PROVE  TasksEvolve
<1> DEFINE t == tick[k].task
           m == AfterClaim(tasks[t], tick[k].stamp, inst, now)
<1>1. t \in Tasks
  BY DEF TypeOK, TickState
<1>2. tasks[t] \in TaskRecord /\ Shaped(tasks[t]) /\ inst \in Nat /\ now \in Nat
  BY <1>1, NextDueTypes DEF TasksShaped
<1>3. SetTask(t, m)
  BY DEF TickClaim
<1>4. m = tasks[t] \/ (Sound(tasks[t], m) /\ (Leaves(tasks[t], m) \/ Takes(tasks[t], m, inst)))
  BY <1>2, AfterClaimTakes
<1>5. \E q \in Tickers : tick[q].pc = "claim"
  BY DEF TickClaim
<1> HIDE DEF t, m
<1> QED
  BY <1>1, <1>3, <1>4, <1>5, WriteEvolves

\* The cycle number a tick goes on with.
LEMMA TickClaimCycle ==
    ASSUME TypeOK, TasksShaped, NEW k \in Tickers, TickClaim(k)
    PROVE  LET t == tick[k].task
               claimed == ClaimResult(tasks[t], tick[k].stamp, now) = "claimed" IN
           tick' = [tick EXCEPT ![k].pc = IF claimed THEN "log" ELSE "list",
                                ![k].cycle = IF claimed THEN tasks[t].cycleCount + 1 ELSE NoCycle]
<1> DEFINE t == tick[k].task
           claimed == ClaimResult(tasks[t], tick[k].stamp, now) = "claimed"
           m == AfterClaim(tasks[t], tick[k].stamp, inst, now)
<1>1. t \in Tasks
  BY DEF TypeOK, TickState
<1>2. tasks[t] \in TaskRecord /\ Shaped(tasks[t]) /\ inst \in Nat /\ now \in Nat
  BY <1>1, NextDueTypes DEF TasksShaped
<1>3. tasks'[t] = m
  BY <1>1 DEF TickClaim, SetTask, TypeOK
<1>4. claimed => m.activeCycleId = tasks[t].cycleCount + 1
  BY <1>2, AfterClaimTakes DEF HasActiveCycle
<1>5. claimed => tasks'[t].activeCycleId = tasks[t].cycleCount + 1
  BY <1>3, <1>4
<1>6. tick' = [tick EXCEPT ![k].pc = IF claimed THEN "log" ELSE "list",
                           ![k].cycle = IF claimed THEN tasks'[t].activeCycleId ELSE NoCycle]
  BY DEF TickClaim
<1> QED
  BY <1>5, <1>6

LEMMA CreateEvolves ==
    ASSUME TypeOK, TasksShaped, CallsShaped, NEW t \in Tasks, ScheduleCreate(t)
    PROVE  TasksEvolve
<1> DEFINE m == NewTask(Request[t], now)
<1>1. now \in Nat /\ Request[t] \in TaskRequest
  BY NextDueTypes, EngineConstants
<1>2. m \in TaskRecord
  BY <1>1, NewTaskType
<1>3. /\ m.status = "pending" /\ m.activeCycleId = NoCycle /\ m.claimOwner = NoOwner
      /\ m.cycleCount = 0 /\ m.maxCycles = Request[t].maxCycles
  BY DEF NewTask
<1>4. tasks[t].status = "absent" /\ tasks[t].maxCycles = Request[t].maxCycles
  BY DEF ScheduleCreate, CallsShaped, TasksShaped
<1>5. SetTask(t, m)
  BY DEF ScheduleCreate
<1>6. m.maxCycles >= 0
  BY <1>2, StoreConstants DEF TaskRecord, Cycles
<1> HIDE DEF m
<1>7. Sound(tasks[t], m) /\ Creates(tasks[t], m)
  BY <1>2, <1>3, <1>4, <1>6 DEF Sound, Creates, Shaped, IsActive, ActiveStatuses
<1>8. t \in admitted /\ t \notin admitted'
  BY DEF ScheduleCreate
<1> QED
  BY <1>5, <1>7, <1>8, WriteEvolves

LEMMA RecoverEvolves ==
    ASSUME TypeOK, TasksShaped, NEW t \in Tasks, RecoverTask(t)
    PROVE  TasksEvolve
<1>1. PICK e \in recoverQ :
        /\ e[1] = t
        /\ SetTask(t, Reconciled(tasks[t], e[2], RecoverAction(t, e[3]), recoverAt, now))
  BY DEF RecoverTask
<1>2. e[2] \in Cycles
  BY DEF TypeOK
<1>3. RecoverAction(t, e[3]) \in {"complete", "fail", "reclaim"}
  BY DEF RecoverAction
<1>4. tasks[t] \in TaskRecord /\ Shaped(tasks[t]) /\ recoverAt \in Nat /\ now \in Nat
  BY NextDueTypes DEF TasksShaped
<1> QED
  BY <1>1, <1>2, <1>3, <1>4, ReconciledLeaves, WriteEvolves

LEMMA JobFailsEvolves ==
    ASSUME TypeOK, TasksShaped, NEW t \in Tasks, NEW c \in Cycles, JobFails(t, c)
    PROVE  TasksEvolve
<1> DEFINE m == IF HasActiveCycle(tasks[t], c) THEN FailedCycle(tasks[t], NoTime, TRUE, now) ELSE tasks[t]
<1>1. SetTask(t, m)
  BY DEF JobFails
<1>2. m = tasks[t] \/ (Sound(tasks[t], m) /\ Leaves(tasks[t], m))
  BY NextDueTypes, FailedCycleLeaves DEF HasActiveCycle, TasksShaped
<1> HIDE DEF m
<1> QED
  BY <1>1, <1>2, WriteEvolves

LEMMA StartEvolves ==
    ASSUME TypeOK, TasksShaped, NEW t \in Tasks, NEW c \in Cycles,
           JobStart(t, c) \/ RenewLease(t, c) \/ TurnAttachesRun(t, c)
    PROVE  TasksEvolve
<1>1. tasks[t] \in TaskRecord /\ Shaped(tasks[t]) /\ now \in Nat
  BY NextDueTypes DEF TasksShaped
<1>2. c \in CycleCounts /\ NoRun \in CycleCounts
  BY NoValues
<1>3. CASE JobStart(t, c)
  <2>1. CASE CanMarkRunning(tasks[t], c, inst)
    BY <1>1, <1>2, <1>3, <2>1, MarkedRunningStays, WriteEvolves DEF JobStart, CanMarkRunning, HasActiveCycle
  <2>2. CASE ~CanMarkRunning(tasks[t], c, inst)
    BY <1>3, <2>2 DEF JobStart, TasksEvolve
  <2> QED
    BY <2>1, <2>2
<1>4. CASE RenewLease(t, c)
  <2>1. CASE CanRenew(tasks[t], c, inst)
    BY <1>1, <1>4, <2>1, RenewedStays, WriteEvolves DEF RenewLease, CanRenew, HasActiveCycle
  <2>2. CASE ~CanRenew(tasks[t], c, inst)
    BY <1>4, <2>2 DEF RenewLease, TasksEvolve
  <2> QED
    BY <2>1, <2>2
<1>5. CASE TurnAttachesRun(t, c)
  <2>1. CASE CanMarkRunning(tasks[t], c, inst)
    BY <1>1, <1>2, <1>5, <2>1, MarkedRunningStays, WriteEvolves DEF TurnAttachesRun, CanMarkRunning, HasActiveCycle
  <2>2. CASE ~CanMarkRunning(tasks[t], c, inst)
    BY <1>5, <2>2 DEF TurnAttachesRun, TasksEvolve
  <2> QED
    BY <2>1, <2>2
<1> QED
  BY <1>3, <1>4, <1>5

\* No step changes the store in any other way.
LEMMA NextEvolves ==
    ASSUME TypeOK, TasksShaped, CallsShaped, [Next]_vars
    PROVE  TasksEvolve
<1>1. CASE UNCHANGED tasks
  BY <1>1 DEF TasksEvolve
<1>2. CASE \E t \in Tasks : ScheduleCreate(t)
  BY <1>2, CreateEvolves
<1>3. ASSUME NEW t \in Tasks, NEW own \in CancelCallers, CancelCommit(t, own)
      PROVE  TasksEvolve
  <2>1. tasks[t].status # "absent"
    BY <1>3 DEF CancelCommit, CallsShaped
  <2>2. own \in BOOLEAN
    BY EngineConstants
  <2> DEFINE m == IF own THEN Cancelled(tasks[t], now) ELSE tasks[t]
  <2>3. m = tasks[t] \/ (Sound(tasks[t], m) /\ Leaves(tasks[t], m))
    BY <2>1, NextDueTypes, CancelledLeaves DEF TasksShaped
  <2>4. SetTask(t, m)
    BY <1>3 DEF CancelCommit
  <2> HIDE DEF m
  <2> QED
    BY <2>3, <2>4, WriteEvolves
<1>4. CASE \E k \in Tickers : TickClaim(k)
  BY <1>4, TickClaimEvolves
<1>5. ASSUME NEW t \in Tasks, EventNudge(t) PROVE TasksEvolve
  <2>1. SetTask(t, Nudged(tasks[t], nudgeAt, now))
    BY <1>5 DEF EventNudge
  <2> QED
    BY <2>1, NextDueTypes, NudgedStays, WriteEvolves DEF TasksShaped
<1>6. CASE \E t \in Tasks : RecoverTask(t)
  BY <1>6, RecoverEvolves
<1>7. ASSUME NEW t \in Tasks, NEW c \in Cycles, JobStep(t, c) PROVE TasksEvolve
  <2>1. CASE JobStart(t, c) \/ RenewLease(t, c) \/ TurnAttachesRun(t, c)
    BY <2>1, StartEvolves
  <2>2. CASE ReminderEnds(t, c)
    BY <2>2, ReminderEndsEvolves
  <2>3. CASE WatchEnds(t, c)
    BY <2>3, WatchEndsEvolves
  <2>4. CASE TurnCloses(t, c)
    BY <2>4, TurnClosesEvolves
  <2>5. CASE JobFails(t, c)
    BY <2>5, JobFailsEvolves
  <2>6. CASE \/ WakeStarts(t, c) \/ TurnCreatesRun(t, c) \/ TurnBegins(t, c) \/ TurnEnds(t, c)
             \/ TurnCloseInvalid(t, c) \/ JobThrows(t, c) \/ JobDone(t, c)
    BY <2>6 DEF WakeStarts, TurnCreatesRun, TurnBegins, TurnEnds, TurnCloseInvalid, JobThrows,
       JobDone, storeVars, TasksEvolve
  <2> QED
    BY <1>7, <2>1, <2>2, <2>3, <2>4, <2>5, <2>6 DEF JobStep
<1>8. CASE \E k \in Tickers : TickList(k) \/ TickDone(k) \/ TickStart(k)
  BY <1>8 DEF TickList, TickDone, TickStart, storeVars, TasksEvolve
<1>9. CASE \/ \E t \in Tasks : ScheduleCheck(t) \/ \E own \in CancelCallers : CancelRequest(t, own)
           \/ TimerFires \/ TickLogFails \/ EventArrives \/ EventTick
           \/ Boot \/ RecoverDone \/ Stop \/ Exit \/ Crash \/ Advance
  BY <1>9 DEF ScheduleCheck, CancelRequest, TimerFires, TickLogFails, EventArrives, EventTick,
     Boot, RecoverDone, Stop, Exit, Crash, ProcessEnds, Advance, storeVars, TasksEvolve
<1>10. CASE UNCHANGED vars
  BY <1>10, <1>1 DEF vars, storeVars
<1> QED
  BY <1>2, <1>3, <1>4, <1>5, <1>6, <1>7, <1>8, <1>9, <1>10 DEF Next, TickStep

LEMMA ShapeStep ==
    ASSUME TypeOK, TasksShaped, TasksEvolve
    PROVE  tasks' \in [Tasks -> TaskRecord] /\ TasksShaped'
<1>1. CASE tasks' = tasks
  BY <1>1 DEF TypeOK, TasksShaped
<1>2. CASE \E t \in Tasks : Evolves(t)
  <2>1. PICK t \in Tasks : Evolves(t)
    BY <1>2
  <2>2. tasks' \in [Tasks -> TaskRecord]
    BY <2>1 DEF Evolves, Sound, TypeOK
  <2>3. \A u \in Tasks : u # t => tasks'[u] = tasks[u]
    BY <2>1 DEF Evolves, TypeOK
  <2>4. Shaped(tasks'[t]) /\ tasks'[t].maxCycles = Request[t].maxCycles
    BY <2>1 DEF Evolves, Sound, TasksShaped
  <2> QED
    BY <2>2, <2>3, <2>4 DEF TasksShaped
<1> QED
  BY <1>1, <1>2 DEF TasksEvolve

-----------------------------------------------------------------------------
(* The types of the other variables, action by action. *)

\* TypeOK without the task records.
RestTypeOK ==
    /\ now \in 0..MaxTime
    /\ runs \in [Tasks -> [Cycles -> RunRecord]]
    /\ admitted \subseteq Tasks
    /\ cancelling \subseteq Tasks \X BOOLEAN
    /\ phase \in {"down", "running", "stopping"}
    /\ inst \in 0..MaxBoots
    /\ booting \in BOOLEAN
    /\ recoverQ \subseteq Tasks \X Cycles \X CycleCounts
    /\ recoverAt \in Nat
    /\ waitFor \subseteq Tasks \X Cycles
    /\ ticking \in BOOLEAN
    /\ tick \in [Tickers -> TickState]
    /\ nudgeQ \subseteq Tasks
    /\ nudgeAt \in Nat
    /\ timerAt \in OptionalTime
    /\ lastWake \in OptionalTime
    /\ activeCount \in Int
    /\ job \in [Tasks -> [Cycles -> JobSteps]]
    /\ renewAt \in [Tasks -> [Cycles -> OptionalTime]]

\* An update of one cycle's entry in a table over tasks and cycles.
LEMMA TableUpdate ==
    ASSUME NEW S, NEW f \in [Tasks -> [Cycles -> S]], NEW t, NEW c, NEW v \in S
    PROVE  [f EXCEPT ![t][c] = v] \in [Tasks -> [Cycles -> S]]
  OBVIOUS

\* The timer is armed at a natural number.
LEMMA ArmTimerType ==
    ASSUME RestTypeOK, NEW delay \in Nat, ArmTimer(delay)
    PROVE  timerAt' \in OptionalTime
  BY EngineConstants DEF ArmTimer, RestTypeOK, OptionalTime

LEMMA IdleTickType == IdleTick \in TickState
  BY EngineConstants, NoValues DEF IdleTick, TickState

LEMMA SetJobType ==
    ASSUME RestTypeOK, NEW t, NEW c, NEW pc \in JobSteps, SetJob(t, c, pc)
    PROVE  job' \in [Tasks -> [Cycles -> JobSteps]]
  BY DEF RestTypeOK, SetJob

LEMMA EndJobType ==
    ASSUME RestTypeOK, NEW t \in Tasks, NEW c \in Cycles, EndJob(t, c),
           UNCHANGED <<now, runs, apiVars, tickVars>>
    PROVE  RestTypeOK'
<1>1. timerAt' \in OptionalTime
  BY ArmTimerType DEF EndJob
<1>2. job' \in [Tasks -> [Cycles -> JobSteps]]
  BY SetJobType DEF EndJob, JobSteps
<1>3. renewAt' \in [Tasks -> [Cycles -> OptionalTime]]
  BY NoValues DEF EndJob, RestTypeOK
<1> QED
  BY <1>1, <1>2, <1>3 DEF EndJob, RestTypeOK, apiVars, tickVars

\* The steps of a job.
LEMMA JobStepType ==
    ASSUME RestTypeOK, NEW t \in Tasks, NEW c \in Cycles, JobStep(t, c)
    PROVE  RestTypeOK'
<1>0. now + RenewEvery \in OptionalTime /\ NoTime \in OptionalTime
  BY EngineConstants DEF RestTypeOK, OptionalTime
<1>1. CASE JobDone(t, c) \/ JobFails(t, c)
  BY <1>1, EndJobType DEF JobDone, JobFails, storeVars
<1>2. CASE JobStart(t, c) \/ RenewLease(t, c)
  <2>1. job' \in [Tasks -> [Cycles -> JobSteps]]
    BY <1>2, SetJobType DEF JobStart, RenewLease, RestTypeOK, JobSteps, WorkingSteps
  <2>2. \/ UNCHANGED renewAt
        \/ \E at \in OptionalTime : renewAt' = [renewAt EXCEPT ![t][c] = at]
    <3>1. CASE JobStart(t, c)
      BY <1>0, <3>1, Zenon DEF JobStart
    <3>2. CASE RenewLease(t, c)
      <4>1. \E at \in {now + RenewEvery, NoTime} : renewAt' = [renewAt EXCEPT ![t][c] = at]
        BY <3>2 DEF RenewLease
      <4> QED
        BY <1>0, <4>1
    <3> QED
      BY <1>2, <3>1, <3>2
  <2>3. renewAt' \in [Tasks -> [Cycles -> OptionalTime]]
    <3>1. renewAt \in [Tasks -> [Cycles -> OptionalTime]]
      BY DEF RestTypeOK
    <3>2. CASE UNCHANGED renewAt
      BY <3>1, <3>2
    <3>3. ASSUME NEW at \in OptionalTime, renewAt' = [renewAt EXCEPT ![t][c] = at]
          PROVE  renewAt' \in [Tasks -> [Cycles -> OptionalTime]]
      BY <3>1, <3>3, TableUpdate
    <3> QED
      BY <2>2, <3>2, <3>3
  <2> QED
    BY <1>2, <2>1, <2>3 DEF JobStart, RenewLease, JobUnchanged, apiVars, procVars, tickVars, RestTypeOK
<1>3. CASE \/ ReminderEnds(t, c) \/ WatchEnds(t, c) \/ WakeStarts(t, c) \/ TurnCreatesRun(t, c)
           \/ TurnAttachesRun(t, c) \/ TurnBegins(t, c) \/ TurnEnds(t, c) \/ TurnCloses(t, c)
           \/ TurnCloseInvalid(t, c) \/ JobThrows(t, c)
  <2>1. \E pc \in JobSteps : SetJob(t, c, pc)
    BY <1>3 DEF ReminderEnds, WatchEnds, WakeStarts, TurnCreatesRun, TurnAttachesRun, TurnBegins, TurnEnds,
       TurnCloses, TurnCloseInvalid, JobThrows, Close, JobSteps, WorkingSteps
  <2>2. job' \in [Tasks -> [Cycles -> JobSteps]]
    BY <2>1, SetJobType
  <2>3. runs' \in [Tasks -> [Cycles -> RunRecord]]
    <3>0. /\ [NoRunRecord EXCEPT !.status = "queued"] \in RunRecord
          /\ \A s \in RunStatuses : [runs[t][c] EXCEPT !.status = s] \in RunRecord
      <4>1. NoRunRecord \in RunRecord /\ "queued" \in RunStatuses
        BY DEF NoRunRecord, RunRecord, RunStatuses
      <4>2. runs[t][c] \in RunRecord
        BY DEF RestTypeOK
      <4>3. \A r \in RunRecord, s \in RunStatuses : [r EXCEPT !.status = s] \in RunRecord
        BY Zenon DEF RunRecord
      <4> QED
        BY <4>1, <4>2, <4>3
    <3>1. CASE TurnCreatesRun(t, c) \/ TurnBegins(t, c) \/ TurnEnds(t, c)
      <4>1. {"queued", "cancelled", "running", "completed", "failed", "needs_approval"} \subseteq RunStatuses
        BY DEF RunStatuses
      <4> DEFINE Set == UNCHANGED runs \/ \E r \in RunRecord : SetRun(t, c, r)
      <4>2. ASSUME TurnCreatesRun(t, c) PROVE Set
        BY <3>0, <4>2 DEF TurnCreatesRun
      <4>3. ASSUME TurnBegins(t, c) PROVE Set
        BY <3>0, <4>1, <4>3 DEF TurnBegins
      <4>4. ASSUME TurnEnds(t, c) PROVE Set
        <5>1. PICK outcome \in {"completed", "failed", "cancelled", "needs_approval"} :
                SetRun(t, c, [runs[t][c] EXCEPT !.status = outcome])
          BY <4>4 DEF TurnEnds
        <5> QED
          BY <3>0, <4>1, <5>1
      <4>5. Set
        BY <3>1, <4>2, <4>3, <4>4
      <4>6. runs \in [Tasks -> [Cycles -> RunRecord]]
        BY DEF RestTypeOK
      <4>7. ASSUME NEW r \in RunRecord, SetRun(t, c, r)
            PROVE  runs' \in [Tasks -> [Cycles -> RunRecord]]
        BY <4>6, <4>7, TableUpdate DEF SetRun
      <4> QED
        BY <4>5, <4>6, <4>7
    <3>2. CASE ~(TurnCreatesRun(t, c) \/ TurnBegins(t, c) \/ TurnEnds(t, c))
      BY <1>3, <3>2 DEF ReminderEnds, WatchEnds, WakeStarts, TurnAttachesRun,
         TurnCloses, TurnCloseInvalid, JobThrows, storeVars, RestTypeOK
    <3> QED
      BY <3>1, <3>2
  <2> QED
    BY <1>3, <2>2, <2>3 DEF ReminderEnds, WatchEnds, WakeStarts, TurnCreatesRun, TurnAttachesRun, TurnBegins,
       TurnEnds, TurnCloses, TurnCloseInvalid, JobThrows, JobUnchanged, apiVars, procVars, tickVars, RestTypeOK
<1> QED
  BY <1>1, <1>2, <1>3 DEF JobStep

LEMMA TickStepType ==
    ASSUME TypeOK, TasksShaped, RestTypeOK, NEW k \in Tickers,
           TickStep(k) \/ (k = "timer" /\ TimerFires) \/ (k = "event" /\ (EventTick \/ EventArrives \/ TickLogFails))
    PROVE  RestTypeOK'
<1>0. IdleTick \in TickState /\ tick[k] \in TickState
  BY IdleTickType DEF RestTypeOK
<1>1. [IdleTick EXCEPT !.pc = "list"] \in TickState
  BY <1>0 DEF TickState
<1>2. /\ now \in OptionalTime /\ NoTime \in OptionalTime /\ inst \in Nat
      /\ now \in Nat /\ 0 \in Nat
  BY NextDueTypes, NoValues, EngineConstants DEF RestTypeOK
<1>3. ASSUME BeginTick(k) PROVE tick' \in [Tickers -> TickState] /\ ticking' \in BOOLEAN
  BY <1>0, <1>1, <1>3 DEF BeginTick, RestTypeOK
<1>4. ASSUME FinishTick(k)
      PROVE  tick' \in [Tickers -> TickState] /\ ticking' \in BOOLEAN /\ timerAt' \in OptionalTime
  <2>1. timerAt' \in OptionalTime
    BY <1>4, ArmTimerType, EngineConstants DEF FinishTick
  <2> QED
    BY <1>0, <1>4, <2>1 DEF FinishTick, RestTypeOK
<1>5. CASE TimerFires /\ k = "timer"
  BY <1>2, <1>3, <1>5 DEF TimerFires, storeVars, apiVars, procVars, jobVars, RestTypeOK
<1>6. CASE EventTick /\ k = "event"
  BY <1>2, <1>3, <1>6 DEF EventTick, storeVars, apiVars, procVars, jobVars, RestTypeOK
<1>7. CASE TickLogFails /\ k = "event"
  BY <1>4, <1>7 DEF TickLogFails, storeVars, apiVars, procVars, jobVars, RestTypeOK
<1>8. CASE TickDone(k)
  BY <1>4, <1>8 DEF TickDone, storeVars, apiVars, procVars, jobVars, RestTypeOK
<1>9. CASE EventArrives /\ k = "event"
  <2>1. [tick["event"] EXCEPT !.pc = "nudge"] \in TickState
    BY <1>0, <1>9 DEF TickState
  <2>2. tick' \in [Tickers -> TickState]
    BY <1>9, <2>1 DEF EventArrives, RestTypeOK
  <2>3. nudgeQ' \subseteq Tasks
    BY <1>9 DEF EventArrives, OpenTasks
  <2> QED
    BY <1>2, <1>9, <2>2, <2>3 DEF EventArrives, storeVars, apiVars, procVars, jobVars, RestTypeOK
<1>10. CASE TickStart(k)
  <2>1. job' \in [Tasks -> [Cycles -> JobSteps]]
    BY <1>10, SetJobType DEF TickStart, JobSteps, WorkingSteps
  <2>2. tick' \in [Tickers -> TickState]
    BY <1>1, <1>10 DEF TickStart, RestTypeOK
  <2> QED
    BY <1>10, <2>1, <2>2 DEF TickStart, storeVars, apiVars, procVars, RestTypeOK
<1>11. CASE TickList(k)
  <2>1. PICK t \in Tasks : tick' = [tick EXCEPT ![k].pc = "claim", ![k].task = t, ![k].stamp = tasks[t].updatedAt]
    BY <1>11 DEF TickList
  <2>2. tasks[t].updatedAt \in Nat
    BY DEF TypeOK, TaskRecord
  <2>3. [[[tick[k] EXCEPT !.pc = "claim"] EXCEPT !.task = t] EXCEPT !.stamp = tasks[t].updatedAt] \in TickState
    BY <1>0, <2>2, Zenon DEF TickState
  <2>4. tick' = [tick EXCEPT ![k] = [[[tick[k] EXCEPT !.pc = "claim"] EXCEPT !.task = t] EXCEPT !.stamp = tasks[t].updatedAt]]
    BY <2>1 DEF RestTypeOK
  <2>5. tick' \in [Tickers -> TickState]
    BY <2>3, <2>4 DEF RestTypeOK
  <2> QED
    BY <1>11, <2>5 DEF TickList, storeVars, apiVars, procVars, jobVars, RestTypeOK
<1>12. CASE TickClaim(k)
  <2> DEFINE t == tick[k].task
             claimed == ClaimResult(tasks[t], tick[k].stamp, now) = "claimed"
             pc == IF claimed THEN "log" ELSE "list"
             n == IF claimed THEN tasks[t].cycleCount + 1 ELSE NoCycle
  <2>1. t \in Tasks /\ tasks[t] \in TaskRecord /\ Shaped(tasks[t])
    BY <1>0 DEF TickState, TypeOK, TasksShaped
  <2>2. n \in CycleCounts
    BY <1>2, <2>1, AfterClaimTakes, NoValues
  <2>3. pc \in {"log", "list"}
    OBVIOUS
  <2>4. tick' = [tick EXCEPT ![k].pc = pc, ![k].cycle = n]
    BY <1>12, TickClaimCycle
  <2>5. lastWake' \in OptionalTime
    BY <1>2, <1>12 DEF TickClaim, RestTypeOK
  <2> HIDE DEF pc, n
  <2>6. [[tick[k] EXCEPT !.pc = pc] EXCEPT !.cycle = n] \in TickState
    BY <1>0, <2>2, <2>3 DEF TickState
  <2>7. tick' = [tick EXCEPT ![k] = [[tick[k] EXCEPT !.pc = pc] EXCEPT !.cycle = n]]
    BY <2>4 DEF RestTypeOK
  <2>8. tick' \in [Tickers -> TickState]
    BY <2>6, <2>7 DEF RestTypeOK
  <2> QED
    BY <1>12, <2>5, <2>8 DEF TickClaim, apiVars, procVars, jobVars, RestTypeOK
<1> QED
  BY <1>5, <1>6, <1>7, <1>8, <1>9, <1>10, <1>11, <1>12 DEF TickStep

\* The process: start, recovery, stop, exit and crash.
LEMMA ProcessStepType ==
    ASSUME TypeOK, TasksShaped, RestTypeOK,
           Boot \/ RecoverDone \/ Stop \/ Exit \/ Crash \/ \E t \in Tasks : RecoverTask(t)
    PROVE  RestTypeOK'
<1>0. now \in Nat /\ NoTime \in OptionalTime
  BY NoValues, EngineConstants DEF RestTypeOK
<1>1. CASE Boot
  <2>1. inst' \in 0..MaxBoots
    BY <1>1, EngineConstants DEF Boot, RestTypeOK
  <2>2. \A t \in Tasks : IsActive(tasks[t]) =>
            tasks[t].activeCycleId \in Cycles /\ tasks[t].activeRunId \in CycleCounts
    <3>1. \A t \in Tasks : tasks[t].activeCycleId \in CycleCounts /\ tasks[t].activeRunId \in CycleCounts
      BY DEF TypeOK, TaskRecord
    <3>2. \A t \in Tasks : IsActive(tasks[t]) => tasks[t].activeCycleId # NoCycle
      BY DEF TasksShaped, Shaped
    <3> QED
      BY <3>1, <3>2, StoreConstants DEF CycleCounts, Cycles, NoCycle
  <2>3. recoverQ' \subseteq Tasks \X Cycles \X CycleCounts
    BY <1>1, <2>2 DEF Boot
  <2> QED
    BY <1>0, <1>1, <2>1, <2>3 DEF Boot, storeVars, apiVars, tickVars, jobVars, RestTypeOK
<1>2. CASE RecoverDone
  <2>1. timerAt' \in OptionalTime
    BY <1>2, ArmTimerType DEF RecoverDone
  <2> QED
    BY <1>2, <2>1 DEF RecoverDone, storeVars, apiVars, tickVars, jobVars, RestTypeOK
<1>3. CASE Stop
  <2>1. LiveJobs \subseteq Tasks \X Cycles
    BY DEF LiveJobs
  <2> QED
    BY <1>0, <1>3, <2>1 DEF Stop, storeVars, apiVars, tickVars, jobVars, RestTypeOK
<1>4. CASE Exit \/ Crash
  <2>1. ProcessEnds
    BY <1>4 DEF Exit, Crash
  <2>2. "none" \in JobSteps
    BY DEF JobSteps
  <2>3. tick' \in [Tickers -> TickState]
    BY <2>1, IdleTickType DEF ProcessEnds
  <2>4. job' \in [Tasks -> [Cycles -> JobSteps]] /\ renewAt' \in [Tasks -> [Cycles -> OptionalTime]]
    <3>1. /\ job' = [t \in Tasks |-> [c \in Cycles |-> "none"]]
          /\ renewAt' = [t \in Tasks |-> [c \in Cycles |-> NoTime]]
      BY <2>1 DEF ProcessEnds
    <3> QED
      BY <1>0, <2>2, <3>1
  <2>5. /\ phase' = "down" /\ booting' = FALSE /\ recoverAt' = 0 /\ recoverQ' = {} /\ waitFor' = {}
        /\ admitted' = {} /\ cancelling' = {} /\ nudgeQ' = {} /\ nudgeAt' = 0 /\ ticking' = FALSE
        /\ activeCount' = 0 /\ timerAt' = NoTime /\ lastWake' = NoTime
    BY <2>1 DEF ProcessEnds
  <2>6. UNCHANGED <<now, storeVars, inst>>
    BY <2>1, Zenon DEF ProcessEnds
  <2>7. now' = now /\ runs' = runs /\ inst' = inst
    BY <2>6 DEF storeVars
  <2>8. /\ recoverQ' \subseteq Tasks \X Cycles \X CycleCounts
        /\ cancelling' \subseteq Tasks \X BOOLEAN
        /\ waitFor' \subseteq Tasks \X Cycles
        /\ admitted' \subseteq Tasks /\ nudgeQ' \subseteq Tasks
    BY <2>5
  <2>9. /\ now' \in 0..MaxTime /\ inst' \in 0..MaxBoots
        /\ runs' \in [Tasks -> [Cycles -> RunRecord]]
    BY <2>7 DEF RestTypeOK
  <2>10. /\ phase' \in {"down", "running", "stopping"}
         /\ recoverAt' \in Nat /\ nudgeAt' \in Nat /\ activeCount' \in Int
         /\ timerAt' \in OptionalTime /\ lastWake' \in OptionalTime
    BY <1>0, <2>5
  <2>11. booting' \in BOOLEAN /\ ticking' \in BOOLEAN
    BY <2>5, Zenon
  <2> QED
    BY <2>3, <2>4, <2>8, <2>9, <2>10, <2>11, Zenon DEF RestTypeOK
<1>5. CASE \E t \in Tasks : RecoverTask(t)
  BY <1>5 DEF RecoverTask, apiVars, tickVars, jobVars, RestTypeOK
<1> QED
  BY <1>1, <1>2, <1>3, <1>4, <1>5

\* The calls of the tools and of users.
LEMMA CallStepType ==
    ASSUME RestTypeOK, NEW t \in Tasks,
           \/ ScheduleCheck(t) \/ ScheduleCreate(t) \/ EventNudge(t)
           \/ \E own \in CancelCallers : CancelRequest(t, own) \/ CancelCommit(t, own)
    PROVE  RestTypeOK'
<1>1. CASE ScheduleCheck(t) \/ ScheduleCreate(t) \/ EventNudge(t)
  BY <1>1 DEF ScheduleCheck, ScheduleCreate, EventNudge, storeVars, procVars, tickVars, jobVars, apiVars, RestTypeOK
<1>2. ASSUME NEW own \in CancelCallers, CancelCommit(t, own) PROVE RestTypeOK'
  BY <1>2 DEF CancelCommit, procVars, tickVars, jobVars, RestTypeOK
<1>3. ASSUME NEW own \in CancelCallers, CancelRequest(t, own) PROVE RestTypeOK'
  <2> DEFINE r == tasks[t].activeRunId
  <2>1. own \in BOOLEAN
    BY EngineConstants
  <2>2. runs \in [Tasks -> [Cycles -> RunRecord]]
    BY DEF RestTypeOK
  <2>3. runs' \in [Tasks -> [Cycles -> RunRecord]]
    <3>1. CASE r \in Cycles
      <4>0. runs[t][r] \in RunRecord
        BY <2>2, <3>1
      <4>1. [runs[t][r] EXCEPT !.cancelRequested = TRUE] \in RunRecord
        <5>1. \A q \in RunRecord : [q EXCEPT !.cancelRequested = TRUE] \in RunRecord
          BY Zenon DEF RunRecord
        <5> QED
          BY <4>0, <5>1
      <4>2. runs' = runs \/ runs' = [runs EXCEPT ![t][r] = [runs[t][r] EXCEPT !.cancelRequested = TRUE]]
        BY <1>3, <2>2, <3>1 DEF CancelRequest
      <4> DEFINE flagged == [runs[t][r] EXCEPT !.cancelRequested = TRUE]
      <4>3. flagged \in RunRecord /\ (runs' = runs \/ runs' = [runs EXCEPT ![t][r] = flagged])
        BY <4>1, <4>2
      <4> HIDE DEF flagged
      <4>4. [runs EXCEPT ![t][r] = flagged] \in [Tasks -> [Cycles -> RunRecord]]
        BY <2>2, <4>3, TableUpdate
      <4> QED
        BY <2>2, <4>3, <4>4
    <3>2. CASE r \notin Cycles
      BY <1>3, <2>2, <3>2 DEF CancelRequest
    <3> QED
      BY <3>1, <3>2
  <2> QED
    BY <1>3, <2>1, <2>3 DEF CancelRequest, procVars, tickVars, jobVars, RestTypeOK
<1> QED
  BY <1>1, <1>2, <1>3

LEMMA RestStep ==
    ASSUME TypeOK, TasksShaped, RestTypeOK, [Next]_vars
    PROVE  RestTypeOK'
<1>1. CASE UNCHANGED vars
  BY <1>1 DEF vars, storeVars, apiVars, procVars, tickVars, jobVars, RestTypeOK
<1>2. CASE \E t \in Tasks : \/ ScheduleCheck(t) \/ ScheduleCreate(t) \/ EventNudge(t)
                            \/ \E own \in CancelCallers : CancelRequest(t, own) \/ CancelCommit(t, own)
  BY <1>2, CallStepType
<1>3. CASE TimerFires \/ TickLogFails \/ EventArrives \/ EventTick \/ \E k \in Tickers : TickStep(k)
  BY <1>3, TickStepType DEF Tickers
<1>4. CASE \E t \in Tasks, c \in Cycles : JobStep(t, c)
  BY <1>4, JobStepType
<1>5. CASE Boot \/ RecoverDone \/ Stop \/ Exit \/ Crash \/ \E t \in Tasks : RecoverTask(t)
  BY <1>5, ProcessStepType
<1>6. CASE Advance
  BY <1>6, EngineConstants DEF Advance, storeVars, apiVars, procVars, tickVars, jobVars, RestTypeOK
<1> QED
  BY <1>1, <1>2, <1>3, <1>4, <1>5, <1>6 DEF Next

LEMMA TypeStep ==
    ASSUME TypeOK, TasksShaped, CallsShaped, [Next]_vars
    PROVE  TypeOK' /\ TasksShaped'
<1>1. tasks' \in [Tasks -> TaskRecord] /\ TasksShaped'
  BY NextEvolves, ShapeStep
<1>2. RestTypeOK
  BY DEF TypeOK, RestTypeOK
<1>3. RestTypeOK'
  BY <1>2, RestStep
<1> QED
  BY <1>1, <1>3 DEF TypeOK, RestTypeOK

-----------------------------------------------------------------------------
(* The other parts of the invariant. *)

\* A task that exists never becomes absent again, and the number of its
\* cycles never shrinks.
LEMMA EvolvesForward ==
    ASSUME TypeOK, TasksShaped, TasksEvolve, NEW t \in Tasks
    PROVE  /\ tasks[t].status # "absent" => tasks'[t].status # "absent"
           /\ tasks[t].cycleCount <= tasks'[t].cycleCount
           /\ IsTerminal(tasks[t]) => tasks'[t] = tasks[t]
<1>1. CASE tasks'[t] = tasks[t]
  BY <1>1 DEF TypeOK, TaskRecord, CycleCounts
<1>2. CASE Evolves(t)
  <2>1. tasks[t].cycleCount \in Int
    BY DEF TypeOK, TaskRecord, CycleCounts
  <2>2. tasks[t].cycleCount <= tasks'[t].cycleCount
    <3>1. CASE Stays(tasks[t], tasks'[t]) \/ Leaves(tasks[t], tasks'[t]) \/ Takes(tasks[t], tasks'[t], inst)
      BY <2>1, <3>1 DEF Stays, Leaves, Takes
    <3>2. CASE Creates(tasks[t], tasks'[t])
      BY <3>2 DEF Creates, TasksShaped, Shaped
    <3> QED
      BY <1>2, <3>1, <3>2 DEF Evolves
  <2>3. ~IsTerminal(tasks[t]) /\ tasks'[t].status # "absent"
    BY <1>2 DEF Evolves, Stays, Leaves, Takes, Creates, IsTerminal, IsActive, TerminalStatuses, ActiveStatuses
  <2> QED
    BY <2>2, <2>3
<1>3. \A u \in Tasks : (Evolves(u) /\ u # t) => tasks'[t] = tasks[t]
  BY DEF Evolves, TypeOK
<1> QED
  BY <1>1, <1>2, <1>3 DEF TasksEvolve

\* Which steps can enlarge or replace which part of the state.
LEMMA Frames ==
    ASSUME TypeOK, [Next]_vars
    PROVE  /\ admitted' \subseteq admitted \/ \E t \in Tasks : ScheduleCheck(t)
           /\ cancelling' \subseteq cancelling \/ \E t \in Tasks, own \in CancelCallers : CancelRequest(t, own)
           /\ recoverQ' \subseteq recoverQ \/ Boot
           /\ inst' = inst \/ Boot
           /\ phase' = phase \/ Boot \/ Stop \/ ProcessEnds
<1> DEFINE F == /\ admitted' \subseteq admitted \/ \E t \in Tasks : ScheduleCheck(t)
                /\ cancelling' \subseteq cancelling \/ \E t \in Tasks, own \in CancelCallers : CancelRequest(t, own)
                /\ recoverQ' \subseteq recoverQ \/ Boot
                /\ inst' = inst \/ Boot
                /\ phase' = phase \/ Boot \/ Stop \/ ProcessEnds
<1>1. CASE UNCHANGED vars
  BY <1>1 DEF vars, apiVars, procVars
<1>2. ASSUME NEW t \in Tasks,
             \/ ScheduleCheck(t) \/ ScheduleCreate(t) \/ EventNudge(t) \/ RecoverTask(t)
             \/ \E own \in CancelCallers : CancelRequest(t, own) \/ CancelCommit(t, own)
      PROVE  F
  <2>1. CASE ScheduleCheck(t) \/ ScheduleCreate(t) \/ EventNudge(t)
    BY <2>1 DEF ScheduleCheck, ScheduleCreate, EventNudge, apiVars, procVars
  <2>2. CASE RecoverTask(t)
    BY <2>2 DEF RecoverTask, apiVars, procVars
  <2>3. CASE \E own \in CancelCallers : CancelRequest(t, own)
    BY <2>3 DEF CancelRequest, procVars
  <2>4. CASE \E own \in CancelCallers : CancelCommit(t, own)
    BY <2>4 DEF CancelCommit, procVars
  <2> QED
    BY <1>2, <2>1, <2>2, <2>3, <2>4
<1>3. CASE TimerFires \/ TickLogFails \/ EventArrives \/ EventTick \/ \E k \in Tickers : TickStep(k)
  BY <1>3 DEF TimerFires, TickLogFails, EventArrives, EventTick, TickStep, TickList, TickDone, TickClaim,
     TickStart, apiVars, procVars
<1>4. ASSUME NEW t \in Tasks, NEW c \in Cycles, JobStep(t, c) PROVE F
  <2>1. CASE JobDone(t, c) \/ JobFails(t, c)
    BY <2>1 DEF JobDone, JobFails, EndJob, apiVars
  <2>2. CASE ~(JobDone(t, c) \/ JobFails(t, c))
    <3>1. JobUnchanged
      BY <1>4, <2>2 DEF JobStep, JobStart, RenewLease, ReminderEnds, WatchEnds, WakeStarts, TurnCreatesRun,
         TurnAttachesRun, TurnBegins, TurnEnds, TurnCloses, TurnCloseInvalid, JobThrows
    <3> QED
      BY <3>1 DEF JobUnchanged, apiVars, procVars
  <2> QED
    BY <2>1, <2>2
<1>5. CASE Boot \/ RecoverDone \/ Stop \/ Advance
  BY <1>5 DEF Boot, RecoverDone, Stop, Advance, apiVars, procVars
<1>6. CASE Exit \/ Crash
  <2>1. ProcessEnds
    BY <1>6 DEF Exit, Crash
  <2>2. admitted' = {} /\ cancelling' = {} /\ recoverQ' = {} /\ inst' = inst
    BY <2>1, Zenon DEF ProcessEnds
  <2> QED
    BY <2>1, <2>2
<1>7. F
  BY <1>1, <1>2, <1>3, <1>4, <1>5, <1>6 DEF Next
<1> QED
  BY <1>7

LEMMA RecordCounts ==
    ASSUME NEW k \in TaskRecord
    PROVE  k.cycleCount \in Nat /\ k.claimOwner \in Nat
  BY StoreConstants DEF TaskRecord, CycleCounts

LEMMA CycleNumbers == \A c \in Cycles : c \in Nat /\ c # NoCycle
  BY DEF Cycles, NoCycle

\* The state of a task that exists only changes along its life.
LEMMA CallsStep ==
    ASSUME TypeOK, TasksShaped, CallsShaped, [Next]_vars
    PROVE  CallsShaped'
<1>1. TasksEvolve
  BY NextEvolves
<1>2. ASSUME NEW t \in admitted' PROVE tasks'[t].status = "absent"
  <2>1. CASE \E u \in Tasks : ScheduleCheck(u)
    BY <1>2, <2>1 DEF ScheduleCheck, CallsShaped, storeVars
  <2>2. CASE t \in admitted
    <3>1. t \in Tasks /\ tasks[t].status = "absent"
      BY <2>2 DEF CallsShaped, TypeOK
    <3>2. ~Evolves(t)
      BY <1>2, <3>1 DEF Evolves, Stays, Leaves, Takes, IsActive, ActiveStatuses
    <3>3. tasks'[t] = tasks[t]
      BY <1>1, <3>1, <3>2 DEF TasksEvolve, Evolves, TypeOK
    <3> QED
      BY <3>1, <3>3
  <2> QED
    BY <1>2, <2>1, <2>2, Frames
<1>3. ASSUME NEW p \in cancelling' PROVE tasks'[p[1]].status # "absent"
  <2>1. CASE \E t \in Tasks, own \in CancelCallers : CancelRequest(t, own)
    BY <1>3, <2>1 DEF CancelRequest, CallsShaped, IsOpen
  <2>2. CASE p \in cancelling
    BY <1>1, <2>2, EvolvesForward DEF CallsShaped, TypeOK
  <2> QED
    BY <1>3, <2>1, <2>2, Frames
<1> QED
  BY <1>2, <1>3 DEF CallsShaped

\* A process that is down can only be started: nothing is left to go on.
LEMMA DownSteps ==
    ASSUME TypeOK, ProcessShaped, ~Up, [Next]_vars
    PROVE  Boot \/ UNCHANGED <<phase, inst, booting, recoverQ, nudgeQ, tick, job>>
<1> DEFINE Still == UNCHANGED <<phase, inst, booting, recoverQ, nudgeQ, tick, job>>
<1>0. /\ recoverQ = {} /\ nudgeQ = {} /\ ~booting /\ phase = "down"
      /\ \A k \in Tickers : tick[k].pc = "idle"
      /\ \A t \in Tasks, c \in Cycles : job[t][c] = "none"
  BY DEF ProcessShaped, Up
<1>1. CASE UNCHANGED vars
  BY <1>1 DEF vars, procVars, tickVars, jobVars
<1>2. CASE \E t \in Tasks : \/ ScheduleCheck(t) \/ ScheduleCreate(t) \/ EventNudge(t) \/ RecoverTask(t)
                            \/ \E own \in CancelCallers : CancelRequest(t, own) \/ CancelCommit(t, own)
  BY <1>0, <1>2 DEF ScheduleCheck, ScheduleCreate, EventNudge, RecoverTask, CancelRequest, CancelCommit, Up,
     procVars, tickVars, jobVars
<1>3. CASE TimerFires \/ TickLogFails \/ EventArrives \/ EventTick \/ \E k \in Tickers : TickStep(k)
  BY <1>0, <1>3 DEF TimerFires, TickLogFails, EventArrives, EventTick, TickStep, TickList, TickDone, TickClaim,
     TickStart, Up, Tickers
<1>4. ASSUME NEW t \in Tasks, NEW c \in Cycles, JobStep(t, c) PROVE Still
  <2>1. job[t][c] = "none"
    BY <1>0
  <2>2. RenewLease(t, c)
    BY <1>4, <2>1 DEF JobStep, JobStart, ReminderEnds, WatchEnds, WakeStarts, TurnCreatesRun,
       TurnAttachesRun, TurnBegins, TurnEnds, TurnCloses, TurnCloseInvalid, JobThrows, JobDone, JobFails
  <2> QED
    BY <2>2 DEF RenewLease, JobUnchanged, procVars, tickVars
<1>5. CASE Boot
  BY <1>5
<1>6. CASE RecoverDone \/ Stop \/ Exit \/ Crash
  BY <1>0, <1>6 DEF RecoverDone, Stop, Exit, Crash, Up
<1>7. CASE Advance
  BY <1>7 DEF Advance, procVars, tickVars, jobVars
<1> QED
  BY <1>1, <1>2, <1>3, <1>4, <1>5, <1>6, <1>7 DEF Next

LEMMA EndIsEmpty ==
    ASSUME ProcessEnds
    PROVE  /\ recoverQ' = {} /\ nudgeQ' = {} /\ ~booting' /\ phase' = "down"
           /\ \A k \in Tickers : tick'[k].pc = "idle"
           /\ \A t \in Tasks, c \in Cycles : job'[t][c] = "none"
           /\ tasks' = tasks
<1>1. recoverQ' = {} /\ nudgeQ' = {} /\ booting' = FALSE /\ phase' = "down"
  BY Zenon DEF ProcessEnds
<1>2. tick' = [k \in Tickers |-> IdleTick] /\ job' = [t \in Tasks |-> [c \in Cycles |-> "none"]]
  BY Zenon DEF ProcessEnds
<1>3. UNCHANGED <<now, storeVars, inst>>
  BY Zenon DEF ProcessEnds
<1> QED
  BY <1>1, <1>2, <1>3 DEF IdleTick, storeVars

LEMMA ProcessStep ==
    ASSUME TypeOK, ProcessShaped, [Next]_vars
    PROVE  ProcessShaped'
<1>1. CASE ProcessEnds
  <2>1. inst' = inst
    BY <1>1, Zenon DEF ProcessEnds
  <2> QED
    BY <1>1, <2>1, EndIsEmpty DEF ProcessShaped, Up
<1>2. CASE Boot
  <2>1. phase' = "running" /\ inst' = inst + 1
    BY <1>2 DEF Boot
  <2>2. inst' # 0
    BY <2>1, EngineConstants DEF TypeOK
  <2> QED
    BY <2>1, <2>2 DEF ProcessShaped, Up
<1>3. CASE Up /\ ~ProcessEnds /\ ~Boot
  <2>1. phase' # "down"
    <3>1. phase' = phase \/ phase' = "stopping"
      BY <1>3, Frames DEF Stop
    <3> QED
      BY <1>3, <3>1 DEF Up
  <2>2. inst' = inst
    BY <1>3, Frames
  <2> QED
    BY <1>3, <2>1, <2>2 DEF ProcessShaped, Up
<1>4. CASE ~Up /\ ~Boot
  <2>1. UNCHANGED <<phase, inst, booting, recoverQ, nudgeQ, tick, job>>
    BY <1>4, DownSteps
  <2> QED
    BY <1>4, <2>1 DEF ProcessShaped, Up
<1> QED
  BY <1>1, <1>2, <1>3, <1>4

\* How the step of a tick, or of what starts one, changes the ticks.
LEMMA TickFrames ==
    ASSUME TypeOK, [Next]_vars, ~ProcessEnds
    PROVE  \/ UNCHANGED <<tick, ticking>>
           \/ EventArrives
           \/ \E k \in Tickers : \/ TickStep(k)
                                 \/ BeginTick(k) /\ UNCHANGED <<tasks, job, inst>>
                                 \/ FinishTick(k) /\ tick[k].pc = "log" /\ UNCHANGED <<tasks, job, inst>>
<1> DEFINE F == \/ UNCHANGED <<tick, ticking>>
                \/ EventArrives
                \/ \E k \in Tickers : \/ TickStep(k)
                                      \/ BeginTick(k) /\ UNCHANGED <<tasks, job, inst>>
                                      \/ FinishTick(k) /\ tick[k].pc = "log" /\ UNCHANGED <<tasks, job, inst>>
<1>1. CASE UNCHANGED vars
  BY <1>1 DEF vars, tickVars
<1>2. CASE \E t \in Tasks : \/ ScheduleCheck(t) \/ ScheduleCreate(t) \/ EventNudge(t) \/ RecoverTask(t)
                            \/ \E own \in CancelCallers : CancelRequest(t, own) \/ CancelCommit(t, own)
  BY <1>2 DEF ScheduleCheck, ScheduleCreate, EventNudge, RecoverTask, CancelRequest, CancelCommit, tickVars
<1>3. CASE TimerFires \/ TickLogFails \/ EventTick
  <2>1. {"timer", "event"} = Tickers
    BY DEF Tickers
  <2> QED
    BY <1>3, <2>1 DEF TimerFires, TickLogFails, EventTick, storeVars, procVars, jobVars
<1>4. CASE EventArrives \/ \E k \in Tickers : TickStep(k)
  BY <1>4
<1>5. ASSUME NEW t \in Tasks, NEW c \in Cycles, JobStep(t, c) PROVE F
  <2>1. UNCHANGED tickVars
    BY <1>5 DEF JobStep, JobStart, RenewLease, ReminderEnds, WatchEnds, WakeStarts, TurnCreatesRun,
       TurnAttachesRun, TurnBegins, TurnEnds, TurnCloses, TurnCloseInvalid, JobThrows, JobDone, JobFails, JobUnchanged
  <2> QED
    BY <2>1 DEF tickVars
<1>6. CASE Boot \/ RecoverDone \/ Stop \/ Advance
  BY <1>6 DEF Boot, RecoverDone, Stop, Advance, tickVars
<1>7. CASE Exit \/ Crash
  BY <1>7 DEF Exit, Crash
<1>8. F
  BY <1>1, <1>2, <1>3, <1>4, <1>5, <1>6, <1>7 DEF Next
<1> QED
  BY <1>8

LEMMA TicksStep ==
    ASSUME TypeOK, TicksExclude, [Next]_vars
    PROVE  TicksExclude'
<1> USE DEF TicksExclude, BusyTick
<1>1. CASE ProcessEnds
  BY <1>1, EndIsEmpty
<1>2. CASE UNCHANGED <<tick, ticking>>
  BY <1>2
<1>3. CASE EventArrives
  BY <1>3 DEF EventArrives, TypeOK, TickState, Tickers
<1>4. ASSUME NEW k \in Tickers, BeginTick(k) PROVE TicksExclude'
  <2>1. CASE Running /\ ~ticking
    <3>1. tick' = [tick EXCEPT ![k] = [IdleTick EXCEPT !.pc = "list"]] /\ ticking' = TRUE
      BY <1>4, <2>1, Zenon DEF BeginTick
    <3>2. \A l \in Tickers : ~BusyTick(l)
      BY <2>1, Zenon
    <3>3. \A l \in Tickers : l # k => tick'[l] = tick[l]
      BY <3>1 DEF TypeOK
    <3>4. \A l \in Tickers : BusyTick(l)' => l = k
      BY <3>2, <3>3
    <3>5. ticking'
      BY <3>1, Zenon
    <3> QED
      BY <3>4, <3>5, Zenon
  <2>2. CASE ~(Running /\ ~ticking)
    <3>1. ticking' = ticking /\ tick' = [tick EXCEPT ![k] = IF tick[k].pc = "nudge" THEN IdleTick ELSE tick[k]]
      BY <1>4, <2>2, Zenon DEF BeginTick
    <3>2. \A l \in Tickers : BusyTick(l)' => BusyTick(l)
      BY <3>1 DEF TypeOK, IdleTick
    <3> QED
      BY <3>1, <3>2, Zenon
  <2> QED
    BY <2>1, <2>2
<1>5. ASSUME NEW k \in Tickers, FinishTick(k), BusyTick(k) PROVE TicksExclude'
  BY <1>5 DEF FinishTick, TypeOK, IdleTick
<1>6. ASSUME NEW k \in Tickers, TickStep(k) PROVE TicksExclude'
  <2>1. CASE TickList(k) \/ TickClaim(k) \/ TickStart(k)
    <3>1. BusyTick(k) /\ UNCHANGED ticking /\ \A l \in Tickers : l # k => tick'[l] = tick[l]
      BY <2>1 DEF TickList, TickClaim, TickStart, TypeOK
    <3> QED
      BY <3>1
  <2>2. CASE TickDone(k)
    BY <1>5, <2>2 DEF TickDone
  <2> QED
    BY <1>6, <2>1, <2>2 DEF TickStep
<1> QED
  BY <1>1, <1>2, <1>3, <1>4, <1>5, <1>6, TickFrames

\* Jobs begin in TickStart only, and start with working.
LEMMA JobFrames ==
    ASSUME TypeOK, [Next]_vars, ~ProcessEnds, NEW t \in Tasks, NEW c \in Cycles
    PROVE  \/ job'[t][c] = job[t][c]
           \/ job[t][c] \in WorkingSteps
           \/ job[t][c] # "none" /\ job'[t][c] \notin WorkingSteps
           \/ \E k \in Tickers : /\ TickStart(k) /\ tick[k].task = t /\ tick[k].cycle = c
<1> DEFINE F == \/ job'[t][c] = job[t][c]
                \/ job[t][c] \in WorkingSteps
                \/ job[t][c] # "none" /\ job'[t][c] \notin WorkingSteps
                \/ \E k \in Tickers : /\ TickStart(k) /\ tick[k].task = t /\ tick[k].cycle = c
<1>1. CASE UNCHANGED job
  BY <1>1
<1>2. ASSUME NEW k \in Tickers, TickStart(k) PROVE F
  <2>1. SetJob(tick[k].task, tick[k].cycle, "start")
    BY <1>2 DEF TickStart
  <2>2. CASE tick[k].task = t /\ tick[k].cycle = c
    BY <1>2, <2>2
  <2>3. CASE ~(tick[k].task = t /\ tick[k].cycle = c)
    BY <2>1, <2>3 DEF SetJob, TypeOK
  <2> QED
    BY <2>2, <2>3
<1>3. ASSUME NEW u \in Tasks, NEW d \in Cycles, JobStep(u, d), ~UNCHANGED job PROVE F
  <2>1. \E pc \in JobSteps : SetJob(u, d, pc)
    BY <1>3 DEF JobStep, JobStart, RenewLease, ReminderEnds, WatchEnds, WakeStarts, TurnCreatesRun,
       TurnAttachesRun, TurnBegins, TurnEnds, TurnCloses, TurnCloseInvalid, JobThrows, JobDone, JobFails,
       Close, EndJob, JobSteps, WorkingSteps
  <2>2. \/ job[u][d] \in WorkingSteps
        \/ job[u][d] \in {"post", "failing"} /\ (SetJob(u, d, "none") \/ SetJob(u, d, "failing"))
    BY <1>3 DEF JobStep, JobStart, RenewLease, ReminderEnds, WatchEnds, WakeStarts, TurnCreatesRun,
       TurnAttachesRun, TurnBegins, TurnEnds, TurnCloses, TurnCloseInvalid, JobThrows, JobDone, JobFails,
       EndJob, WorkingSteps
  <2>3. CASE u = t /\ d = c
    BY <2>2, <2>3 DEF SetJob, TypeOK, WorkingSteps
  <2>4. CASE ~(u = t /\ d = c)
    BY <2>1, <2>4 DEF SetJob, TypeOK
  <2> QED
    BY <2>3, <2>4
<1>4. CASE \E u \in Tasks : \/ ScheduleCheck(u) \/ ScheduleCreate(u) \/ EventNudge(u) \/ RecoverTask(u)
                            \/ \E own \in CancelCallers : CancelRequest(u, own) \/ CancelCommit(u, own)
  BY <1>1, <1>4 DEF ScheduleCheck, ScheduleCreate, EventNudge, RecoverTask, CancelRequest, CancelCommit, jobVars
<1>5. CASE TimerFires \/ TickLogFails \/ EventArrives \/ EventTick
           \/ \E k \in Tickers : TickList(k) \/ TickDone(k) \/ TickClaim(k)
  BY <1>1, <1>5 DEF TimerFires, TickLogFails, EventArrives, EventTick, TickList, TickDone, TickClaim, jobVars
<1>6. CASE Boot \/ RecoverDone \/ Stop \/ Advance \/ UNCHANGED vars
  BY <1>1, <1>6 DEF Boot, RecoverDone, Stop, Advance, vars, jobVars
<1>7. CASE Exit \/ Crash
  BY <1>7 DEF Exit, Crash
<1>8. F
  BY <1>1, <1>2, <1>3, <1>4, <1>5, <1>6, <1>7 DEF Next, TickStep
<1> QED
  BY <1>8

\* What a mutation does to the ownership of its task.
LEMMA StaysKeepsOwner ==
    ASSUME TypeOK, TasksEvolve, NEW t \in Tasks, NEW c \in Cycles, Owns(t, c), inst' = inst,
           \/ tasks'[t] = tasks[t] \/ Stays(tasks[t], tasks'[t])
           \/ tasks'[t].status = "cancelled"
    PROVE  Owns(t, c)'
  BY DEF Owns, OwnedBy, HasActiveCycle, Stays, IsActive, ActiveStatuses

\* A cycle that owns its task and is closed by a store call: no other cycle
\* of the task can close it.
LEMMA CloseKeepsOthers ==
    ASSUME TypeOK, NEW t \in Tasks, NEW c \in Cycles, NEW u \in Tasks, NEW d \in Cycles, NEW m,
           Owns(t, c), Close(u, d, m), IsActive(tasks[u]) => ~IsTerminal(tasks[u]), inst' = inst,
           job[u][d] # "none"
    PROVE  Owns(t, c)' \/ (job[t][c] # "none" /\ job'[t][c] = "post")
<1>1. CASE ~HasActiveCycle(tasks[u], d)
  BY <1>1 DEF Close, Owns, OwnedBy
<1>2. CASE HasActiveCycle(tasks[u], d)
  <2>1. SetTask(u, m) /\ SetJob(u, d, "post")
    BY <1>2 DEF Close
  <2>2. CASE u # t
    BY <2>1, <2>2 DEF SetTask, TypeOK, Owns, OwnedBy
  <2>3. CASE u = t
    <3>1. c = d
      BY <1>2, <2>3 DEF Owns, OwnedBy, HasActiveCycle, IsActive, ActiveStatuses
    <3> QED
      BY <2>1, <2>3, <3>1 DEF SetJob, TypeOK
  <2> QED
    BY <2>2, <2>3
<1> QED
  BY <1>1, <1>2

\* Nobody but the cycle itself, or the user, takes a claimed task from the
\* instance that owns it.
LEMMA OwnsStep ==
    ASSUME IInv, [Next]_vars, ~ProcessEnds, ~Boot, NEW t \in Tasks, NEW c \in Cycles, Owns(t, c)
    PROVE  Owns(t, c)' \/ (job[t][c] # "none" /\ job'[t][c] \in {"post", "none"})
<1> DEFINE F == Owns(t, c)' \/ (job[t][c] # "none" /\ job'[t][c] \in {"post", "none"})
<1> USE DEF IInv
<1>0. inst' = inst
  BY Frames
<1>1. CASE UNCHANGED tasks
  BY <1>0, <1>1 DEF Owns
<1>2. ASSUME NEW u \in Tasks, NEW m, SetTask(u, m), u = t => (m = tasks[u] \/ Stays(tasks[u], m) \/ m.status = "cancelled")
      PROVE  F
  <2>1. tasks'[u] = m /\ (u # t => tasks'[t] = tasks[t])
    BY <1>2 DEF SetTask, TypeOK
  <2> QED
    BY <1>0, <1>2, <2>1 DEF Owns, OwnedBy, HasActiveCycle, Stays, IsActive, ActiveStatuses
<1>3. ASSUME NEW u \in Tasks, ScheduleCreate(u) PROVE F
  <2>1. u # t
    BY <1>3 DEF ScheduleCreate, CallsShaped, Owns, OwnedBy, HasActiveCycle, IsActive, ActiveStatuses
  <2>2. SetTask(u, NewTask(Request[u], now))
    BY <1>3 DEF ScheduleCreate
  <2> QED
    BY <1>2, <2>1, <2>2
<1>4. ASSUME NEW u \in Tasks, NEW own \in CancelCallers, CancelCommit(u, own) PROVE F
  <2> DEFINE m == IF own THEN Cancelled(tasks[u], now) ELSE tasks[u]
  <2>1. SetTask(u, m)
    BY <1>4 DEF CancelCommit
  <2>2. tasks[u].status # "absent"
    BY <1>4 DEF CancelCommit, CallsShaped
  <2>3. m = tasks[u] \/ m.status = "cancelled"
    BY <2>2, NextDueTypes, CancelledLeaves DEF TasksShaped
  <2> HIDE DEF m
  <2> QED
    BY <1>2, <2>1, <2>3
<1>5. ASSUME NEW u \in Tasks, EventNudge(u) PROVE F
  <2>1. SetTask(u, Nudged(tasks[u], nudgeAt, now))
    BY <1>5 DEF EventNudge
  <2>2. Nudged(tasks[u], nudgeAt, now) = tasks[u] \/ Stays(tasks[u], Nudged(tasks[u], nudgeAt, now))
    BY NextDueTypes, NudgedStays DEF TasksShaped
  <2> QED
    BY <1>2, <2>1, <2>2
<1>6. ASSUME NEW u \in Tasks, RecoverTask(u) PROVE F
  <2>1. PICK e \in recoverQ :
          /\ e[1] = u
          /\ SetTask(u, Reconciled(tasks[u], e[2], RecoverAction(u, e[3]), recoverAt, now))
    BY <1>6 DEF RecoverTask
  <2> DEFINE m == Reconciled(tasks[u], e[2], RecoverAction(u, e[3]), recoverAt, now)
  <2>2. CASE tasks[u].activeCycleId # e[2]
    <3>1. m = tasks[u]
      BY <2>2 DEF Reconciled
    <3> QED
      BY <1>2, <2>1, <3>1
  <2>3. CASE tasks[u].activeCycleId = e[2]
    <3>1. tasks[u].claimOwner # inst /\ e[2] \in Cycles
      BY <2>1, <2>3 DEF RecoveryShaped, TypeOK
    <3>2. IsActive(tasks[u])
      BY <2>3, <3>1 DEF TasksShaped, Shaped, Cycles, NoCycle
    <3>3. u # t
      BY <3>1, <3>2 DEF Owns, OwnedBy, HasActiveCycle, IsActive, ActiveStatuses
    <3> QED
      BY <1>2, <2>1, <3>3
  <2> QED
    BY <2>2, <2>3
<1>7. ASSUME NEW k \in Tickers, TickClaim(k) PROVE F
  <2> DEFINE u == tick[k].task
             m == AfterClaim(tasks[u], tick[k].stamp, inst, now)
  <2>1. u \in Tasks /\ SetTask(u, m)
    BY <1>7 DEF TickClaim, TypeOK, TickState
  <2>2. m = tasks[u] \/ tasks[u].status = "pending"
    <3>1. tasks[u] \in TaskRecord /\ Shaped(tasks[u]) /\ inst \in Nat /\ now \in Nat
      BY <2>1, NextDueTypes DEF TasksShaped
    <3> QED
      BY <3>1, AfterClaimTakes DEF Takes
  <2> HIDE DEF u, m
  <2>3. CASE m = tasks[u]
    BY <1>2, <2>1, <2>3
  <2>4. CASE tasks[u].status = "pending"
    <3>1. u # t
      BY <2>4 DEF Owns, OwnedBy, HasActiveCycle, IsActive, ActiveStatuses
    <3> QED
      BY <1>2, <2>1, <3>1
  <2> QED
    BY <2>2, <2>3, <2>4
<1>8. ASSUME NEW u \in Tasks, NEW d \in Cycles, JobStart(u, d) \/ RenewLease(u, d) \/ TurnAttachesRun(u, d),
             ~UNCHANGED tasks
      PROVE  F
  <2>1. /\ tasks[u] \in TaskRecord /\ Shaped(tasks[u]) /\ now \in Nat
        /\ d \in CycleCounts /\ NoRun \in CycleCounts
    BY NextDueTypes, NoValues DEF TasksShaped
  <2>2. IsActive(tasks[u])
    BY <1>8 DEF JobStart, RenewLease, TurnAttachesRun, CanMarkRunning, CanRenew, HasActiveCycle
  <2>3. \E m \in {MarkedRunning(tasks[u], NoRun, now), MarkedRunning(tasks[u], d, now), Renewed(tasks[u], now)} :
          SetTask(u, m)
    BY <1>8 DEF JobStart, RenewLease, TurnAttachesRun
  <2>4. \A m \in {MarkedRunning(tasks[u], NoRun, now), MarkedRunning(tasks[u], d, now), Renewed(tasks[u], now)} :
          Stays(tasks[u], m)
    BY <2>1, <2>2, MarkedRunningStays, RenewedStays
  <2> QED
    BY <1>2, <2>3, <2>4
<1>9. ASSUME NEW u \in Tasks, NEW d \in Cycles, ReminderEnds(u, d) \/ WatchEnds(u, d) \/ TurnCloses(u, d)
      PROVE  F
  <2>1. job[u][d] # "none"
    BY <1>9 DEF ReminderEnds, WatchEnds, TurnCloses
  <2>2. \E m : Close(u, d, m)
    BY <1>9 DEF ReminderEnds, WatchEnds, TurnCloses
  <2>3. IsActive(tasks[u]) => ~IsTerminal(tasks[u])
    BY DEF IsActive, IsTerminal, ActiveStatuses, TerminalStatuses
  <2> QED
    BY <1>0, <2>1, <2>2, <2>3, CloseKeepsOthers
<1>10. ASSUME NEW u \in Tasks, NEW d \in Cycles, JobFails(u, d) PROVE F
  <2>1. /\ job[u][d] # "none" /\ SetJob(u, d, "none")
        /\ SetTask(u, IF HasActiveCycle(tasks[u], d) THEN FailedCycle(tasks[u], NoTime, TRUE, now) ELSE tasks[u])
    BY <1>10 DEF JobFails, EndJob
  <2>2. CASE ~HasActiveCycle(tasks[u], d) \/ u # t
    BY <1>2, <2>1, <2>2
  <2>3. CASE HasActiveCycle(tasks[u], d) /\ u = t
    <3>1. c = d
      BY <2>3 DEF Owns, OwnedBy, HasActiveCycle, IsActive, ActiveStatuses
    <3> QED
      BY <2>1, <2>3, <3>1 DEF SetJob, TypeOK
  <2> QED
    BY <2>2, <2>3
<1>11. ASSUME NEW u \in Tasks, NEW d \in Cycles,
              \/ WakeStarts(u, d) \/ TurnCreatesRun(u, d) \/ TurnBegins(u, d) \/ TurnEnds(u, d)
              \/ TurnCloseInvalid(u, d) \/ JobThrows(u, d) \/ JobDone(u, d)
       PROVE  F
  BY <1>1, <1>11 DEF WakeStarts, TurnCreatesRun, TurnBegins, TurnEnds, TurnCloseInvalid, JobThrows, JobDone, storeVars
<1>12. CASE \/ \E u \in Tasks : ScheduleCheck(u) \/ \E own \in CancelCallers : CancelRequest(u, own)
            \/ TimerFires \/ TickLogFails \/ EventArrives \/ EventTick
            \/ \E k \in Tickers : TickList(k) \/ TickDone(k) \/ TickStart(k)
            \/ Boot \/ RecoverDone \/ Stop \/ Advance \/ UNCHANGED vars
  BY <1>1, <1>12 DEF ScheduleCheck, CancelRequest, TimerFires, TickLogFails, EventArrives, EventTick,
     TickList, TickDone, TickStart, Boot, RecoverDone, Stop, Advance, vars, storeVars
<1>13. CASE Exit \/ Crash
  BY <1>13 DEF Exit, Crash
<1>14. F
  BY <1>1, <1>3, <1>4, <1>5, <1>6, <1>7, <1>8, <1>9, <1>10, <1>11, <1>12, <1>13 DEF Next, TickStep, JobStep
<1> QED
  BY <1>14

LEMMA JobsStep ==
    ASSUME IInv, [Next]_vars
    PROVE  JobsShaped'
<1> SUFFICES ASSUME NEW t \in Tasks, NEW c \in Cycles, job'[t][c] # "none"
             PROVE  c <= tasks'[t].cycleCount
  BY DEF JobsShaped
<1>0. ~ProcessEnds
  BY EndIsEmpty
<1>1. tasks[t].cycleCount <= tasks'[t].cycleCount
  BY NextEvolves, EvolvesForward DEF IInv
<1>2. c <= tasks[t].cycleCount
  <2>1. CASE job[t][c] # "none"
    BY <2>1 DEF IInv, JobsShaped
  <2>2. ASSUME NEW k \in Tickers, TickStart(k), tick[k].task = t, tick[k].cycle = c
        PROVE  c <= tasks[t].cycleCount
    BY <2>2 DEF TickStart, IInv, ClaimedNotStarted
  <2> QED
    BY <1>0, <2>1, <2>2, JobFrames DEF IInv, WorkingSteps
<1>3. c \in Int /\ tasks[t].cycleCount \in Int /\ tasks'[t].cycleCount \in Int
  <2>1. TypeOK'
    BY TypeStep DEF IInv
  <2>2. tasks[t] \in TaskRecord /\ tasks'[t] \in TaskRecord
    BY <2>1 DEF IInv, TypeOK
  <2> QED
    BY <2>2, RecordCounts, CycleNumbers
<1> QED
  BY <1>1, <1>2, <1>3

LEMMA LiveStep ==
    ASSUME IInv, [Next]_vars
    PROVE  LiveJobsOwnClaim'
<1> SUFFICES ASSUME NEW t \in Tasks, NEW c \in Cycles, job'[t][c] \in WorkingSteps
             PROVE  Owns(t, c)'
  BY DEF LiveJobsOwnClaim, Owns, OwnedBy
<1>0. "none" \notin WorkingSteps /\ "post" \notin WorkingSteps
  BY DEF WorkingSteps
<1>1. ~ProcessEnds
  BY <1>0, EndIsEmpty
<1>2. CASE job[t][c] \in WorkingSteps
  <2>1. Owns(t, c)
    BY <1>2 DEF IInv, LiveJobsOwnClaim, Owns, OwnedBy
  <2>2. ~Boot
    BY <1>0, <1>2 DEF Boot, IInv, ProcessShaped, Up
  <2> QED
    BY <1>0, <1>1, <2>1, <2>2, OwnsStep
<1>3. ASSUME NEW k \in Tickers, TickStart(k), tick[k].task = t, tick[k].cycle = c
      PROVE  Owns(t, c)'
  <2>1. Owns(t, c)
    BY <1>3 DEF TickStart, IInv, ClaimedNotStarted
  <2>2. tasks' = tasks /\ inst' = inst
    BY <1>3 DEF TickStart, storeVars, procVars
  <2> QED
    BY <2>1, <2>2 DEF Owns
<1> QED
  BY <1>1, <1>2, <1>3, JobFrames DEF IInv

LEMMA ClaimedStep ==
    ASSUME IInv, [Next]_vars
    PROVE  ClaimedNotStarted'
<1> SUFFICES ASSUME NEW k \in Tickers, tick'[k].pc = "log"
             PROVE  /\ tick'[k].cycle \in Cycles
                    /\ tick'[k].cycle <= tasks'[tick'[k].task].cycleCount
                    /\ job'[tick'[k].task][tick'[k].cycle] = "none"
                    /\ OwnedBy(tasks'[tick'[k].task], tick'[k].cycle, inst')
  BY DEF ClaimedNotStarted, Owns
<1> USE DEF IInv
<1>0. ~ProcessEnds
  BY EndIsEmpty
<1>1. TypeOK' /\ TasksEvolve
  BY TypeStep, NextEvolves
<1>2. CASE tick'[k] = tick[k]
  <2> DEFINE t == tick[k].task  c == tick[k].cycle
  <2>1. /\ t \in Tasks /\ c \in Cycles /\ c <= tasks[t].cycleCount
        /\ job[t][c] = "none" /\ Owns(t, c)
    BY <1>2 DEF ClaimedNotStarted, TypeOK, TickState
  <2>2. c <= tasks'[t].cycleCount
    <3>1. tasks[t].cycleCount <= tasks'[t].cycleCount
      BY <1>1, <2>1, EvolvesForward
    <3>2. tasks[t] \in TaskRecord /\ tasks'[t] \in TaskRecord
      BY <1>1, <2>1 DEF TypeOK
    <3>3. c \in Int /\ tasks[t].cycleCount \in Int /\ tasks'[t].cycleCount \in Int
      BY <2>1, <3>2, RecordCounts, CycleNumbers
    <3> QED
      BY <2>1, <3>1, <3>3
  <2>3. ~Boot
    BY <1>2 DEF Boot, ProcessShaped, Up
  <2>4. job'[t][c] = "none"
    <3>1. ASSUME NEW l \in Tickers, TickStart(l) PROVE FALSE
      <4>1. BusyTick(k) /\ BusyTick(l)
        BY <1>2, <3>1 DEF TickStart, BusyTick
      <4>2. k = l
        BY <4>1 DEF TicksExclude
      <4>3. tick'[k].pc = "list"
        BY <3>1, <4>2 DEF TickStart, TypeOK, IdleTick
      <4> QED
        BY <4>3
    <3>2. "none" \notin WorkingSteps
      BY DEF WorkingSteps
    <3> QED
      BY <1>0, <2>1, <3>1, <3>2, JobFrames
  <2> HIDE DEF t, c
  <2>5. Owns(t, c) => OwnedBy(tasks'[t], c, inst')
    <3> SUFFICES ASSUME NEW u \in Tasks, NEW d \in Cycles, Owns(u, d), job[u][d] = "none"
                 PROVE  OwnedBy(tasks'[u], d, inst')
      BY <2>1
    <3> QED
      BY <1>0, <2>3, OwnsStep DEF Owns
  <2> QED
    BY <1>2, <2>1, <2>2, <2>4, <2>5 DEF t, c
<1>3. CASE TickClaim(k)
  <2> DEFINE t == tick[k].task
             c == tasks[t].cycleCount + 1
             m == AfterClaim(tasks[t], tick[k].stamp, inst, now)
  <2>1. t \in Tasks /\ SetTask(t, m) /\ job' = job /\ inst' = inst
    BY <1>3 DEF TickClaim, TypeOK, TickState, jobVars, procVars
  <2>2. ClaimResult(tasks[t], tick[k].stamp, now) = "claimed"
    BY <1>3 DEF TickClaim, TypeOK
  <2>3. tick'[k].task = t /\ tick'[k].cycle = c
    <3>1. tick' = [tick EXCEPT ![k].pc = "log", ![k].cycle = c]
      BY <1>0, <1>3, <2>2, TickClaimCycle
    <3> QED
      BY <3>1 DEF TypeOK, TickState
  <2>4. /\ Takes(tasks[t], m, inst) /\ c \in Cycles /\ HasActiveCycle(m, c)
    <3>1. tasks[t] \in TaskRecord /\ Shaped(tasks[t]) /\ inst \in Nat /\ now \in Nat
      BY <2>1, NextDueTypes DEF TasksShaped
    <3> QED
      BY <2>2, <3>1, AfterClaimTakes
  <2>5. tasks'[t] = m
    BY <2>1 DEF SetTask, TypeOK
  <2>6. job[t][c] = "none"
    <3>1. ~(c <= tasks[t].cycleCount)
      BY <2>1 DEF TypeOK, TaskRecord, CycleCounts
    <3> HIDE DEF c
    <3> QED
      BY <2>1, <2>4, <3>1 DEF JobsShaped
  <2>7. tasks'[t].cycleCount = c /\ tasks'[t].claimOwner = inst
    BY <2>4, <2>5 DEF Takes
  <2>8. c <= tasks'[t].cycleCount
    BY <2>4, <2>7 DEF Cycles
  <2> HIDE DEF t, c, m
  <2>9. OwnedBy(tasks'[t], c, inst')
    BY <2>1, <2>4, <2>5, <2>7 DEF OwnedBy
  <2> QED
    BY <2>1, <2>3, <2>4, <2>6, <2>8, <2>9
<1>4. tick'[k] = tick[k] \/ TickClaim(k)
  <2>1. CASE UNCHANGED <<tick, ticking>>
    BY <2>1
  <2>2. CASE EventArrives
    BY <2>2 DEF EventArrives, TypeOK
  <2>3. ASSUME NEW l \in Tickers, TickStep(l) PROVE tick'[k] = tick[k] \/ TickClaim(k)
    <3>1. CASE TickList(l)
      <4>1. \A q \in Tickers : q # l => tick'[q] = tick[q]
        BY <3>1 DEF TickList, TypeOK
      <4>2. tick'[l].pc = "claim"
        BY <3>1 DEF TickList, TypeOK
      <4> QED
        BY <4>1, <4>2
    <3>2. CASE TickDone(l)
      BY <3>2 DEF TickDone, FinishTick, TypeOK, IdleTick
    <3>3. CASE TickClaim(l)
      BY <3>3 DEF TickClaim, TypeOK
    <3>4. CASE TickStart(l)
      BY <3>4 DEF TickStart, TypeOK, IdleTick
    <3> QED
      BY <2>3, <3>1, <3>2, <3>3, <3>4 DEF TickStep
  <2>4. ASSUME NEW l \in Tickers, BeginTick(l) PROVE tick'[k] = tick[k]
    BY <2>4 DEF BeginTick, TypeOK, IdleTick
  <2>5. ASSUME NEW l \in Tickers, FinishTick(l) PROVE tick'[k] = tick[k]
    BY <2>5 DEF FinishTick, TypeOK, IdleTick
  <2> QED
    BY <1>0, <2>1, <2>2, <2>3, <2>4, <2>5, TickFrames
<1> QED
  BY <1>2, <1>3, <1>4

LEMMA OwnersStep ==
    ASSUME IInv, [Next]_vars
    PROVE  OwnersKnown' /\ RecoveryShaped'
<1> USE DEF IInv
<1>1. TypeOK' /\ TasksShaped' /\ TasksEvolve
  BY TypeStep, NextEvolves
<1>2. inst <= inst' /\ inst \in Nat /\ inst' \in Nat
  <2>1. inst \in Nat /\ inst' \in Nat
    BY <1>1, EngineConstants DEF TypeOK
  <2>2. inst' = inst \/ inst' = inst + 1
    BY Frames DEF Boot
  <2> QED
    BY <2>1, <2>2
<1>3. ASSUME NEW t \in Tasks
      PROVE  \/ /\ tasks'[t].claimOwner = tasks[t].claimOwner
                /\ tasks'[t].activeCycleId = tasks[t].activeCycleId
             \/ tasks'[t].claimOwner = NoOwner /\ tasks'[t].activeCycleId = NoCycle
             \/ /\ tasks'[t].claimOwner = inst
                /\ tasks'[t].activeCycleId = tasks[t].cycleCount + 1
  <2>1. CASE tasks'[t] = tasks[t]
    BY <2>1
  <2>2. CASE Evolves(t)
    <3>1. CASE Stays(tasks[t], tasks'[t])
      BY <3>1 DEF Stays
    <3>2. CASE Takes(tasks[t], tasks'[t], inst)
      BY <1>1, <3>2 DEF Takes, TasksShaped, Shaped, IsActive, ActiveStatuses
    <3>3. CASE Leaves(tasks[t], tasks'[t]) \/ Creates(tasks[t], tasks'[t])
      <4>1. ~IsActive(tasks'[t])
        BY <3>3 DEF Leaves, Creates, IsActive, IsTerminal, ActiveStatuses, TerminalStatuses
      <4> QED
        BY <1>1, <4>1 DEF TasksShaped, Shaped
    <3> QED
      BY <2>2, <3>1, <3>2, <3>3 DEF Evolves
  <2> QED
    BY <1>1, <2>1, <2>2 DEF TasksEvolve, Evolves, TypeOK
<1>4. OwnersKnown'
  <2> SUFFICES ASSUME NEW t \in Tasks PROVE tasks'[t].claimOwner <= inst'
    BY DEF OwnersKnown
  <2>1. tasks[t].claimOwner <= inst /\ tasks[t].claimOwner \in Nat
    BY DEF OwnersKnown, TypeOK, TaskRecord
  <2> QED
    BY <1>2, <1>3, <2>1 DEF NoOwner
<1>5. ASSUME NEW e \in recoverQ'
      PROVE  /\ e[2] <= tasks'[e[1]].cycleCount
             /\ tasks'[e[1]].activeCycleId = e[2] => tasks'[e[1]].claimOwner # inst'
  <2>0. e[1] \in Tasks /\ e[2] \in Cycles
    BY <1>1, <1>5 DEF TypeOK
  <2>1. CASE Boot
    <3>1. tasks' = tasks /\ inst' = inst + 1
      BY <2>1 DEF Boot, storeVars
    <3>2. e[2] = tasks[e[1]].activeCycleId /\ IsActive(tasks[e[1]])
      BY <1>5, <2>1 DEF Boot
    <3>3. e[2] = tasks[e[1]].cycleCount
      BY <2>0, <3>2 DEF TasksShaped, Shaped
    <3>4. tasks[e[1]].claimOwner <= inst /\ tasks[e[1]].claimOwner \in Nat
      BY <2>0 DEF OwnersKnown, TypeOK, TaskRecord
    <3> QED
      BY <1>2, <2>0, <3>1, <3>3, <3>4 DEF Cycles
  <2>2. CASE ~Boot
    <3>1. e \in recoverQ /\ inst' = inst
      BY <1>5, <2>2, Frames
    <3>2. /\ e[2] <= tasks[e[1]].cycleCount
          /\ tasks[e[1]].activeCycleId = e[2] => tasks[e[1]].claimOwner # inst
      BY <3>1 DEF RecoveryShaped
    <3>3. tasks[e[1]].cycleCount <= tasks'[e[1]].cycleCount
      BY <1>1, <2>0, EvolvesForward
    <3>4. /\ tasks[e[1]].cycleCount \in Int /\ tasks'[e[1]].cycleCount \in Int
          /\ e[2] \in Int /\ e[2] # NoCycle
      <4>1. tasks[e[1]] \in TaskRecord /\ tasks'[e[1]] \in TaskRecord
        BY <1>1, <2>0 DEF TypeOK
      <4> QED
        BY <2>0, <4>1, RecordCounts, CycleNumbers
    <3>5. tasks'[e[1]].activeCycleId = e[2] => tasks'[e[1]].claimOwner # inst
      BY <1>3, <2>0, <3>2, <3>4
    <3> QED
      BY <3>1, <3>2, <3>3, <3>4, <3>5
  <2> QED
    BY <2>1, <2>2
<1>6. RecoveryShaped'
  BY <1>5 DEF RecoveryShaped
<1> QED
  BY <1>4, <1>6

-----------------------------------------------------------------------------
(* The theorems. *)

LEMMA InitIInv == Init => IInv
<1> SUFFICES ASSUME Init PROVE IInv
  OBVIOUS
<1>1. \A t \in Tasks : Request[t] \in TaskRequest
  BY EngineConstants
<1>2. \A t \in Tasks : tasks[t] \in TaskRecord
  BY <1>1, NewTaskType DEF Init
<1>3. \A t \in Tasks : /\ tasks[t].status = "absent" /\ tasks[t].cycleCount = 0
                       /\ tasks[t].activeCycleId = NoCycle /\ tasks[t].claimOwner = NoOwner
                       /\ tasks[t].maxCycles = Request[t].maxCycles
  BY DEF Init, AbsentTask, NewTask
<1>4. NoRunRecord \in RunRecord /\ IdleTick \in TickState /\ NoTime \in OptionalTime /\ "none" \in JobSteps
  BY IdleTickType, NoValues DEF NoRunRecord, RunRecord, RunStatuses, JobSteps
<1>5. TypeOK
  <2>1. tasks \in [Tasks -> TaskRecord]
    BY <1>2 DEF Init
  <2>2. tick \in [Tickers -> TickState]
    BY <1>4 DEF Init
  <2>3. runs \in [Tasks -> [Cycles -> RunRecord]]
    BY <1>4 DEF Init
  <2>4. job \in [Tasks -> [Cycles -> JobSteps]]
    BY <1>4 DEF Init
  <2>5. renewAt \in [Tasks -> [Cycles -> OptionalTime]]
    BY <1>4 DEF Init
  <2>6. booting \in BOOLEAN /\ ticking \in BOOLEAN
    BY Zenon DEF Init
  <2>7. /\ recoverQ = {} /\ cancelling = {} /\ waitFor = {} /\ admitted = {} /\ nudgeQ = {}
        /\ now = 0 /\ inst = 0 /\ phase = "down" /\ recoverAt = 0 /\ nudgeAt = 0 /\ activeCount = 0
        /\ timerAt = NoTime /\ lastWake = NoTime
    BY Zenon DEF Init
  <2>8. /\ recoverQ \subseteq Tasks \X Cycles \X CycleCounts
        /\ cancelling \subseteq Tasks \X BOOLEAN
        /\ waitFor \subseteq Tasks \X Cycles
        /\ admitted \subseteq Tasks /\ nudgeQ \subseteq Tasks
    BY <2>7
  <2>9. now \in 0..MaxTime /\ inst \in 0..MaxBoots /\ recoverAt \in Nat /\ nudgeAt \in Nat /\ activeCount \in Int
    BY <2>7, EngineConstants
  <2>10. phase \in {"down", "running", "stopping"} /\ timerAt \in OptionalTime /\ lastWake \in OptionalTime
    BY <1>4, <2>7
  <2> QED
    BY <2>1, <2>2, <2>3, <2>4, <2>5, <2>6, <2>8, <2>9, <2>10, Zenon DEF TypeOK
<1>6. TasksShaped
  <2>1. \A t \in Tasks : tasks[t].maxCycles >= 0
    BY <1>2, StoreConstants DEF TaskRecord, Cycles
  <2> QED
    BY <1>3, <2>1 DEF TasksShaped, Shaped, IsActive, ActiveStatuses
<1>7. /\ admitted = {} /\ cancelling = {} /\ phase = "down" /\ inst = 0 /\ recoverQ = {} /\ nudgeQ = {}
      /\ booting = FALSE
      /\ tick = [k \in Tickers |-> IdleTick]
      /\ job = [t \in Tasks |-> [c \in Cycles |-> "none"]]
  BY Zenon DEF Init
<1>8. /\ \A k \in Tickers : tick[k].pc = "idle"
      /\ \A t \in Tasks, c \in Cycles : job[t][c] = "none"
  BY <1>7 DEF IdleTick
<1>9. ProcessShaped
  BY <1>7, <1>8 DEF ProcessShaped, Up
<1>10. TicksExclude /\ ClaimedNotStarted /\ JobsShaped
  BY <1>8 DEF TicksExclude, BusyTick, ClaimedNotStarted, JobsShaped
<1>11. CallsShaped /\ RecoveryShaped
  BY <1>7 DEF CallsShaped, RecoveryShaped
<1>12. OwnersKnown
  BY <1>3, <1>7 DEF OwnersKnown, NoOwner
<1>13. LiveJobsOwnClaim
  BY <1>8 DEF LiveJobsOwnClaim, WorkingSteps
<1> QED
  BY <1>5, <1>6, <1>9, <1>10, <1>11, <1>12, <1>13 DEF IInv

LEMMA StepIInv == IInv /\ [Next]_vars => IInv'
<1> SUFFICES ASSUME IInv, [Next]_vars PROVE IInv'
  OBVIOUS
<1>1. TypeOK' /\ TasksShaped'
  BY TypeStep DEF IInv
<1>2. CallsShaped' /\ ProcessShaped' /\ TicksExclude'
  BY CallsStep, ProcessStep, TicksStep DEF IInv
<1>3. ClaimedNotStarted' /\ JobsShaped' /\ LiveJobsOwnClaim' /\ OwnersKnown' /\ RecoveryShaped'
  BY ClaimedStep, JobsStep, LiveStep, OwnersStep
<1> QED
  BY <1>1, <1>2, <1>3 DEF IInv

\* The inductive invariant holds in every reachable state.
THEOREM InvariantHolds == Spec => []IInv
  BY InitIInv, StepIInv, PTL DEF Spec

\* Every variable keeps its type: in particular no counter of a task ever
\* leaves the range its schema allows.
THEOREM TypeCorrect == Spec => []TypeOK
<1>1. IInv => TypeOK
  BY DEF IInv
<1> QED
  BY <1>1, InvariantHolds, PTL

\* A cycle that is being worked on holds the durable claim of its task for
\* this process, or the task was cancelled.
THEOREM JobsOwnTheirClaim == Spec => []LiveJobsOwnClaim
<1>1. IInv => LiveJobsOwnClaim
  BY DEF IInv
<1> QED
  BY <1>1, InvariantHolds, PTL

\* No task runs more cycles than its request allows, over any number of
\* crashes and reclaims.
THEOREM CyclesBounded == Spec => []CyclesAreBounded
<1>1. IInv => CyclesAreBounded
  BY DEF IInv, TasksShaped, Shaped, CyclesAreBounded
<1> QED
  BY <1>1, InvariantHolds, PTL

\* Nothing revives or rewrites a terminal task.
THEOREM TerminalFinal == Spec => TerminalIsFinal
<1>1. IInv /\ [Next]_vars => [\A t \in Tasks : IsTerminal(tasks[t]) => tasks'[t] = tasks[t]]_vars
  <2> SUFFICES ASSUME IInv, [Next]_vars, NEW t \in Tasks, IsTerminal(tasks[t])
               PROVE  tasks'[t] = tasks[t]
    OBVIOUS
  <2> QED
    BY NextEvolves, EvolvesForward DEF IInv
<1> QED
  BY <1>1, InvariantHolds, PTL DEF Spec, TerminalIsFinal

-----------------------------------------------------------------------------
(* Refinement. *)

\* A task's record seen as a task of TaskLifecycle, in one step of the engine.
LEMMA LifecycleStep ==
    ASSUME IInv, [Next]_vars
    PROVE  [Lifecycle!Next]_<<[t \in Tasks |-> Stage(tasks[t])],
                              [t \in Tasks |-> tasks[t].cycleCount],
                              [t \in Tasks |-> tasks[t].claimOwner]>>
<1> USE DEF IInv
<1> DEFINE stage  == [t \in Tasks |-> Stage(tasks[t])]
           spent  == [t \in Tasks |-> tasks[t].cycleCount]
           holder == [t \in Tasks |-> tasks[t].claimOwner]
<1>0. TypeOK' /\ TasksShaped' /\ TasksEvolve
  BY TypeStep, NextEvolves
<1>1. CASE tasks' = tasks
  BY <1>1
<1>2. ASSUME NEW u \in Tasks, Evolves(u) PROVE Lifecycle!Next \/ UNCHANGED <<stage, spent, holder>>
  <2> DEFINE k == tasks[u]
             m == tasks'[u]
  <2>1. \A t \in Tasks : t # u => tasks'[t] = tasks[t]
    BY <1>2 DEF Evolves, TypeOK
  <2>2. Shaped(k) /\ Shaped(m) /\ k \in TaskRecord
    BY <1>0 DEF TasksShaped, TypeOK
  <2>3. k.status = "absent" => k.cycleCount = 0 /\ k.claimOwner = NoOwner
    BY <2>2 DEF Shaped, IsActive, ActiveStatuses
  <2>4. /\ stage' = [stage EXCEPT ![u] = Stage(m)]
        /\ spent' = [spent EXCEPT ![u] = m.cycleCount]
        /\ holder' = [holder EXCEPT ![u] = m.claimOwner]
    BY <2>1
  <2>5. stage[u] = Stage(k) /\ spent[u] = k.cycleCount /\ holder[u] = k.claimOwner
    OBVIOUS
  <2>6. \A n : (n = k.cycleCount => [spent EXCEPT ![u] = n] = spent)
            /\ (n = k.claimOwner => [holder EXCEPT ![u] = n] = holder)
            /\ (n = Stage(k) => [stage EXCEPT ![u] = n] = stage)
    OBVIOUS
  <2>7. ~IsActive(m) => m.claimOwner = 0
    BY <2>2 DEF Shaped, NoOwner
  <2> HIDE DEF stage, spent, holder, k, m
  <2>8. CASE Stays(k, m)
    <3>1. Stage(m) = Stage(k) /\ m.cycleCount = k.cycleCount /\ m.claimOwner = k.claimOwner
      BY <2>8 DEF Stays, Stage, IsActive, ActiveStatuses
    <3> QED
      BY <2>4, <2>6, <3>1
  <2>9. CASE Leaves(k, m)
    <3>1. ~IsActive(m) /\ m.cycleCount = k.cycleCount
      BY <2>9 DEF Leaves, IsActive, IsTerminal, ActiveStatuses, TerminalStatuses
    <3>2. CASE IsActive(k) /\ m.status = "pending"
      <4>1. Stage(k) = "active" /\ Stage(m) = "waiting"
        BY <3>2 DEF Stage, IsActive, ActiveStatuses
      <4>2. Lifecycle!Release(u)
        BY <2>4, <2>5, <2>6, <2>7, <3>1, <4>1 DEF Lifecycle!Release, Lifecycle!NoHolder, stage, spent, holder
      <4> QED
        BY <4>2 DEF Lifecycle!Next
    <3>3. CASE (IsActive(k) \/ k.status = "pending") /\ IsTerminal(m)
      <4>1. Stage(k) \in {"waiting", "active"} /\ Stage(m) = "done"
        BY <3>3 DEF Stage, IsActive, IsTerminal, ActiveStatuses, TerminalStatuses
      <4>2. Lifecycle!Finish(u)
        BY <2>4, <2>5, <2>6, <2>7, <3>1, <4>1 DEF Lifecycle!Finish, Lifecycle!NoHolder, stage, spent, holder
      <4> QED
        BY <4>2 DEF Lifecycle!Next
    <3> QED
      BY <2>9, <3>2, <3>3 DEF Leaves
  <2>10. CASE Takes(k, m, inst) /\ \E q \in Tickers : tick[q].pc = "claim"
    <3>1. inst \in 1..MaxBoots
      <4>1. Up /\ inst \in 0..MaxBoots
        BY <2>10 DEF ProcessShaped, TypeOK
      <4> QED
        BY <4>1, EngineConstants DEF ProcessShaped
    <3>2. Stage(k) = "waiting" /\ Stage(m) = "active"
      BY <2>10 DEF Takes, Stage, IsActive, ActiveStatuses
    <3>3. k.cycleCount < Request[u].maxCycles
      <4>1. k.cycleCount \in Int /\ m.cycleCount \in Int /\ m.cycleCount = k.cycleCount + 1
        BY <1>0, <2>10, RecordCounts DEF Takes, TypeOK, k, m
      <4>2. m.cycleCount <= m.maxCycles /\ m.maxCycles = Request[u].maxCycles
        BY <1>0, <2>2 DEF TasksShaped, Shaped, m
      <4>3. Request[u].maxCycles \in Int
        BY EngineConstants, StoreConstants DEF TaskRequest, Cycles
      <4> QED
        BY <4>1, <4>2, <4>3
    <3>4. PICK h \in 1..MaxBoots : h = inst
      BY <3>1
    <3>5. Lifecycle!Claim(u, h)
      BY <3>4, <2>4, <2>5, <2>10, <3>2, <3>3 DEF Lifecycle!Claim, Takes, stage, spent, holder
    <3> QED
      BY <3>5 DEF Lifecycle!Next
  <2>11. CASE Creates(k, m)
    <3>1. Stage(k) = "absent" /\ Stage(m) = "waiting" /\ ~IsActive(m) /\ m.cycleCount = 0
      BY <2>11 DEF Creates, Stage, IsActive, ActiveStatuses
    <3>2. k.cycleCount = 0 /\ k.claimOwner = 0
      BY <2>3, <2>11 DEF Creates, NoOwner
    <3>3. Lifecycle!Create(u)
      <4>1. m.claimOwner = 0
        BY <2>7, <3>1
      <4>2. stage[u] = "absent" /\ stage' = [stage EXCEPT ![u] = "waiting"]
        BY <2>4, <2>5, <3>1
      <4>3. spent' = spent /\ holder' = holder
        BY <2>4, <2>6, <3>1, <3>2, <4>1
      <4> QED
        BY <4>2, <4>3 DEF Lifecycle!Create, stage, spent, holder
    <3> QED
      BY <3>3 DEF Lifecycle!Next
  <2> QED
    BY <1>2, <2>8, <2>9, <2>10, <2>11 DEF Evolves, k, m
<1> QED
  BY <1>0, <1>1, <1>2 DEF TasksEvolve

\* The engine, its ticks, jobs, recoveries and crashes implement the simple
\* life of a task.
THEOREM EngineImplementsLifecycle == Spec => ImplementsLifecycle
<1>1. Init => Lifecycle!Init
  <2> SUFFICES ASSUME Init PROVE Lifecycle!Init
    OBVIOUS
  <2>1. \A t \in Tasks : /\ tasks[t].status = "absent" /\ tasks[t].cycleCount = 0
                         /\ tasks[t].claimOwner = 0
    <3>1. tasks = [t \in Tasks |-> AbsentTask(Request[t])]
      BY Zenon DEF Init
    <3> QED
      BY <3>1 DEF AbsentTask, NewTask, NoOwner
  <2>2. \A t \in Tasks : Stage(tasks[t]) = "absent"
    BY <2>1 DEF Stage
  <2> QED
    BY <2>1, <2>2 DEF Lifecycle!Init, Lifecycle!NoHolder
<1>2. IInv /\ [Next]_vars => [Lifecycle!Next]_<<[t \in Tasks |-> Stage(tasks[t])],
                                               [t \in Tasks |-> tasks[t].cycleCount],
                                               [t \in Tasks |-> tasks[t].claimOwner]>>
  BY LifecycleStep
<1> QED
  BY <1>1, <1>2, InvariantHolds, PTL DEF Spec, Lifecycle!Spec, ImplementsLifecycle

-----------------------------------------------------------------------------
(* How the steps of a job change the table of jobs. *)

\* A step that does not end the runClaim call moves it from one step to
\* another, or leaves it where it is.
LEMMA JobMoves ==
    ASSUME NEW t \in Tasks, NEW c \in Cycles, JobStep(t, c), ~JobDone(t, c), ~JobFails(t, c)
    PROVE  /\ JobUnchanged
           /\ \/ UNCHANGED job
              \/ job[t][c] # "none" /\ \E pc \in JobSteps \ {"none"} : SetJob(t, c, pc)
<1>1. JobUnchanged
  BY DEF JobStep, JobStart, RenewLease, ReminderEnds, WatchEnds, WakeStarts, TurnCreatesRun,
     TurnAttachesRun, TurnBegins, TurnEnds, TurnCloses, TurnCloseInvalid, JobThrows
<1>2. CASE RenewLease(t, c)
  BY <1>1, <1>2 DEF RenewLease
<1>3. CASE \/ JobStart(t, c) \/ ReminderEnds(t, c) \/ WatchEnds(t, c) \/ WakeStarts(t, c)
           \/ TurnCreatesRun(t, c) \/ TurnAttachesRun(t, c) \/ TurnBegins(t, c) \/ TurnEnds(t, c)
           \/ TurnCloses(t, c) \/ TurnCloseInvalid(t, c) \/ JobThrows(t, c)
  <2>1. job[t][c] # "none"
    BY <1>3 DEF JobStart, ReminderEnds, WatchEnds, WakeStarts, TurnCreatesRun, TurnAttachesRun,
       TurnBegins, TurnEnds, TurnCloses, TurnCloseInvalid, JobThrows
  <2>2. \E pc \in JobSteps \ {"none"} : SetJob(t, c, pc)
    BY <1>3 DEF JobStart, ReminderEnds, WatchEnds, WakeStarts, TurnCreatesRun, TurnAttachesRun,
       TurnBegins, TurnEnds, TurnCloses, TurnCloseInvalid, JobThrows, Close, JobSteps, WorkingSteps
  <2> QED
    BY <1>1, <2>1, <2>2
<1> QED
  BY <1>2, <1>3 DEF JobStep

-----------------------------------------------------------------------------
(* The timer. *)

\* What arms the timer of an engine that runs.
LEMMA ArmedIsSet ==
    ASSUME TypeOK, NEW delay \in Nat, Running, ArmTimer(delay)
    PROVE  timerAt' # NoTime
  BY EngineConstants DEF ArmTimer, TypeOK, NoTime

\* The head of a tick leaves a tick in progress if there was none.
LEMMA BegunIsTicking ==
    ASSUME NEW k \in Tickers, BeginTick(k), Running
    PROVE  ticking' = TRUE \/ (ticking /\ ticking' = ticking)
  BY DEF BeginTick

LEMMA NeverSleepsStep ==
    ASSUME TypeOK, EngineNeverSleeps, [Next]_vars
    PROVE  EngineNeverSleeps'
<1> USE DEF EngineNeverSleeps, Running
<1>1. CASE UNCHANGED <<phase, booting, timerAt, ticking>>
  BY <1>1
<1>2. CASE UNCHANGED vars
  BY <1>1, <1>2 DEF vars, procVars, tickVars
<1>3. CASE \E t \in Tasks : \/ ScheduleCheck(t) \/ ScheduleCreate(t) \/ EventNudge(t) \/ RecoverTask(t)
                            \/ \E own \in CancelCallers : CancelRequest(t, own) \/ CancelCommit(t, own)
  BY <1>1, <1>3 DEF ScheduleCheck, ScheduleCreate, EventNudge, RecoverTask, CancelRequest, CancelCommit,
     procVars, tickVars
<1>4. CASE TimerFires
  <2>1. BeginTick("timer") /\ UNCHANGED <<phase, booting>> /\ "timer" \in Tickers
    BY <1>4 DEF TimerFires, procVars, Tickers
  <2> QED
    BY <2>1, BegunIsTicking DEF TypeOK
<1>5. CASE EventTick
  <2>1. BeginTick("event") /\ UNCHANGED <<phase, booting, timerAt>> /\ "event" \in Tickers
    BY <1>5 DEF EventTick, procVars, Tickers
  <2> QED
    BY <2>1, BegunIsTicking DEF TypeOK
<1>6. CASE EventArrives
  BY <1>1, <1>6 DEF EventArrives, procVars, tickVars
<1>7. ASSUME NEW k \in Tickers, FinishTick(k), UNCHANGED procVars PROVE EngineNeverSleeps'
  <2>1. ArmTimer(TickMax) /\ UNCHANGED <<phase, booting>>
    BY <1>7 DEF FinishTick, procVars
  <2> QED
    BY <2>1, ArmedIsSet, EngineConstants
<1>8. CASE TickLogFails \/ \E k \in Tickers : TickDone(k)
  BY <1>7, <1>8 DEF TickLogFails, TickDone, Tickers
<1>9. CASE \E k \in Tickers : TickList(k) \/ TickClaim(k) \/ TickStart(k)
  BY <1>1, <1>9 DEF TickList, TickClaim, TickStart, procVars
<1>10. ASSUME NEW t \in Tasks, NEW c \in Cycles, JobStep(t, c) PROVE EngineNeverSleeps'
  <2>1. CASE JobDone(t, c) \/ JobFails(t, c)
    <3>1. ArmTimer(0) /\ UNCHANGED <<phase, booting>>
      BY <2>1 DEF JobDone, JobFails, EndJob
    <3> QED
      BY <3>1, ArmedIsSet
  <2>2. CASE ~JobDone(t, c) /\ ~JobFails(t, c)
    BY <1>1, <1>10, <2>2, JobMoves DEF JobUnchanged, procVars, tickVars
  <2> QED
    BY <2>1, <2>2
<1>11. CASE RecoverDone
  <2>1. ArmTimer(0) /\ UNCHANGED phase
    BY <1>11 DEF RecoverDone
  <2> QED
    BY <2>1, ArmedIsSet
<1>12. CASE Boot \/ Stop
  BY <1>12 DEF Boot, Stop
<1>13. CASE Exit \/ Crash
  <2>1. phase' = "down"
    BY <1>13, EndIsEmpty DEF Exit, Crash
  <2> QED
    BY <2>1
<1>14. CASE Advance
  BY <1>1, <1>14 DEF Advance, procVars, tickVars
<1> QED
  BY <1>2, <1>3, <1>4, <1>5, <1>6, <1>8, <1>9, <1>10, <1>11, <1>12, <1>13, <1>14 DEF Next, TickStep

\* A running engine has its timer armed or a tick in progress: no order of
\* timers, event ticks, ends of jobs and recovery puts it to sleep.
THEOREM EngineStaysAwake == Spec => []EngineNeverSleeps
<1>1. Init => EngineNeverSleeps
  BY DEF Init, EngineNeverSleeps, Running
<1>2. TypeOK /\ EngineNeverSleeps /\ [Next]_vars => EngineNeverSleeps'
  BY NeverSleepsStep
<1> QED
  BY <1>1, <1>2, TypeCorrect, PTL DEF Spec

-----------------------------------------------------------------------------
(* The slots. *)

\* A tick that has picked a task found a slot for it.
SlotReserved == \A k \in Tickers : tick[k].pc \in {"claim", "log"} => activeCount < MaxConcurrency

SlotsInv == SlotsAreCounted /\ SlotReserved

LEMMA LiveJobsFinite ==
    ASSUME TypeOK
    PROVE  IsFiniteSet(LiveJobs) /\ Cardinality(LiveJobs) \in Nat
<1>1. IsFiniteSet(Cycles) /\ IsFiniteSet(Tasks)
  BY FS_Interval, StoreConstants, EngineConstants DEF Cycles
<1>2. IsFiniteSet(Tasks \X Cycles)
  BY <1>1, FS_Product
<1> QED
  BY <1>2, FS_Subset, FS_CardinalityType DEF LiveJobs

\* A job that moves was live and stays so.
LEMMA MovesKeepLive ==
    ASSUME TypeOK, NEW t \in Tasks, NEW c \in Cycles, job[t][c] # "none",
           NEW pc \in JobSteps \ {"none"}, SetJob(t, c, pc)
    PROVE  LiveJobs' = LiveJobs
<1>1. \A j \in Tasks \X Cycles : job'[j[1]][j[2]] # "none" <=> job[j[1]][j[2]] # "none"
  BY DEF SetJob, TypeOK
<1> QED
  BY <1>1 DEF LiveJobs

LEMMA StartAddsLive ==
    ASSUME TypeOK, NEW t \in Tasks, NEW c \in Cycles, job[t][c] = "none", SetJob(t, c, "start")
    PROVE  Cardinality(LiveJobs') = Cardinality(LiveJobs) + 1
<1>1. \A j \in Tasks \X Cycles :
        job'[j[1]][j[2]] # "none" <=> (job[j[1]][j[2]] # "none" \/ j = <<t, c>>)
  BY DEF SetJob, TypeOK
<1>2. LiveJobs' = LiveJobs \cup {<<t, c>>} /\ <<t, c>> \notin LiveJobs
  BY <1>1 DEF LiveJobs
<1> QED
  BY <1>2, LiveJobsFinite, FS_AddElement

LEMMA EndTakesLive ==
    ASSUME TypeOK, NEW t \in Tasks, NEW c \in Cycles, job[t][c] # "none", SetJob(t, c, "none")
    PROVE  Cardinality(LiveJobs') = Cardinality(LiveJobs) - 1
<1>1. \A j \in Tasks \X Cycles :
        job'[j[1]][j[2]] # "none" <=> (job[j[1]][j[2]] # "none" /\ j # <<t, c>>)
  BY DEF SetJob, TypeOK
<1>2. LiveJobs' = LiveJobs \ {<<t, c>>} /\ <<t, c>> \in LiveJobs
  BY <1>1 DEF LiveJobs
<1> QED
  BY <1>2, LiveJobsFinite, FS_RemoveElement

\* What may hold a slot in reserve after a step that is not a tick's own.
Reserves(k) == tick[k].pc \in {"claim", "log"}

LEMMA ReservesStep ==
    ASSUME TypeOK, [Next]_vars, NEW k \in Tickers, ~(\E l \in Tickers : TickStep(l)), Reserves(k)'
    PROVE  Reserves(k) /\ tick'[k] = tick[k]
<1>1. CASE ProcessEnds
  BY <1>1, EndIsEmpty DEF Reserves
<1>2. CASE EventArrives
  BY <1>2 DEF EventArrives, Reserves, TypeOK, TickState, Tickers
<1>3. ASSUME NEW l \in Tickers, BeginTick(l) PROVE Reserves(k) /\ tick'[k] = tick[k]
  <2>1. \/ tick' = [tick EXCEPT ![l] = [IdleTick EXCEPT !.pc = "list"]]
        \/ tick' = [tick EXCEPT ![l] = IF tick[l].pc = "nudge" THEN IdleTick ELSE tick[l]]
    BY <1>3 DEF BeginTick
  <2> QED
    BY <2>1 DEF Reserves, TypeOK, IdleTick
<1>4. ASSUME NEW l \in Tickers, FinishTick(l) PROVE Reserves(k) /\ tick'[k] = tick[k]
  BY <1>4 DEF FinishTick, Reserves, TypeOK, IdleTick
<1>5. CASE UNCHANGED <<tick, ticking>>
  BY <1>5 DEF Reserves
<1> QED
  BY <1>1, <1>2, <1>3, <1>4, <1>5, TickFrames

LEMMA SlotsStep ==
    ASSUME IInv, SlotsInv, [Next]_vars
    PROVE  SlotsInv'
<1>0. TypeOK /\ activeCount \in Int /\ MaxConcurrency \in Nat \ {0} /\ Cardinality(LiveJobs) \in Nat
  BY LiveJobsFinite, EngineConstants DEF IInv, TypeOK
<1>1. ASSUME UNCHANGED activeCount, LiveJobs' = LiveJobs,
             \A k \in Tickers : Reserves(k)' => (Reserves(k) \/ activeCount < MaxConcurrency)
      PROVE  SlotsInv'
  BY <1>1 DEF SlotsInv, SlotsAreCounted, SlotReserved, Reserves
<1>2. ASSUME UNCHANGED <<job, activeCount>>, ~(\E k \in Tickers : TickStep(k)) PROVE SlotsInv'
  <2>1. LiveJobs' = LiveJobs
    BY <1>2 DEF LiveJobs
  <2>2. \A k \in Tickers : Reserves(k)' => Reserves(k)
    BY <1>0, <1>2, ReservesStep
  <2> QED
    BY <1>1, <1>2, <2>1, <2>2
<1>3. ASSUME NEW k \in Tickers, TickStep(k) PROVE SlotsInv'
  <2>1. CASE TickDone(k)
    <3>1. UNCHANGED <<job, activeCount>> /\ FinishTick(k)
      BY <2>1 DEF TickDone, jobVars
    <3>2. \A l \in Tickers : Reserves(l)' => Reserves(l)
      BY <1>0, <3>1 DEF FinishTick, Reserves, TypeOK, IdleTick
    <3>3. LiveJobs' = LiveJobs
      BY <3>1 DEF LiveJobs
    <3> QED
      BY <1>1, <3>1, <3>2, <3>3
  <2>2. CASE TickList(k)
    <3>1. activeCount < MaxConcurrency /\ UNCHANGED <<job, activeCount>>
      BY <2>2 DEF TickList, jobVars
    <3>2. LiveJobs' = LiveJobs
      BY <3>1 DEF LiveJobs
    <3> QED
      BY <1>1, <3>1, <3>2
  <2>3. CASE TickClaim(k)
    <3>1. UNCHANGED <<job, activeCount>> /\ Reserves(k)
      BY <2>3 DEF TickClaim, jobVars, Reserves
    <3>2. \A l \in Tickers \ {k} : tick'[l] = tick[l]
      BY <1>0, <2>3 DEF TickClaim, TypeOK
    <3>3. \A l \in Tickers : Reserves(l)' => Reserves(l)
      BY <3>1, <3>2 DEF Reserves
    <3>4. LiveJobs' = LiveJobs
      BY <3>1 DEF LiveJobs
    <3> QED
      BY <1>1, <3>1, <3>3, <3>4
  <2>4. CASE TickStart(k)
    <3> DEFINE t == tick[k].task
               c == tick[k].cycle
    <3>1. /\ tick[k].pc = "log" /\ SetJob(t, c, "start") /\ activeCount' = activeCount + 1
          /\ tick' = [tick EXCEPT ![k] = [IdleTick EXCEPT !.pc = "list"]]
      BY <2>4 DEF TickStart
    <3>2. t \in Tasks /\ c \in Cycles /\ job[t][c] = "none"
      BY <1>0, <3>1 DEF IInv, ClaimedNotStarted, TypeOK, TickState
    <3>3. Cardinality(LiveJobs') = Cardinality(LiveJobs) + 1
      BY <1>0, <3>1, <3>2, StartAddsLive
    <3>4. activeCount < MaxConcurrency
      BY <3>1 DEF SlotsInv, SlotReserved
    <3>5. \A l \in Tickers : ~Reserves(l)'
      <4>1. ~Reserves(k)'
        BY <1>0, <3>1 DEF Reserves, TypeOK, IdleTick
      <4>2. \A l \in Tickers \ {k} : ~Reserves(l) /\ tick'[l] = tick[l]
        BY <1>0, <3>1 DEF Reserves, TypeOK, IInv, TicksExclude, BusyTick
      <4> QED
        BY <4>1, <4>2 DEF Reserves
    <3> QED
      BY <1>0, <3>1, <3>3, <3>4, <3>5 DEF SlotsInv, SlotsAreCounted, SlotReserved, Reserves
  <2> QED
    BY <1>3, <2>1, <2>2, <2>3, <2>4 DEF TickStep
<1>4. ASSUME NEW t \in Tasks, NEW c \in Cycles, JobStep(t, c) PROVE SlotsInv'
  <2>1. CASE JobDone(t, c) \/ JobFails(t, c)
    <3>1. /\ job[t][c] # "none" /\ SetJob(t, c, "none") /\ activeCount' = activeCount - 1
          /\ UNCHANGED tick
      BY <2>1 DEF JobDone, JobFails, EndJob, tickVars
    <3>2. Cardinality(LiveJobs') = Cardinality(LiveJobs) - 1
      BY <1>0, <3>1, EndTakesLive
    <3> QED
      BY <1>0, <3>1, <3>2 DEF SlotsInv, SlotsAreCounted, SlotReserved
  <2>2. CASE ~JobDone(t, c) /\ ~JobFails(t, c)
    <3>1. UNCHANGED <<tick, activeCount>>
      BY <1>4, <2>2, JobMoves DEF JobUnchanged, tickVars
    <3>2. UNCHANGED job \/ (job[t][c] # "none" /\ \E pc \in JobSteps \ {"none"} : SetJob(t, c, pc))
      BY <1>4, <2>2, JobMoves
    <3>3. LiveJobs' = LiveJobs
      BY <1>0, <3>2, MovesKeepLive DEF LiveJobs
    <3> QED
      BY <1>1, <3>1, <3>3 DEF Reserves
  <2> QED
    BY <2>1, <2>2
<1>5. CASE Exit \/ Crash
  <2>1. ProcessEnds
    BY <1>5 DEF Exit, Crash
  <2>2. activeCount' = 0
    BY <2>1, Zenon DEF ProcessEnds
  <2>3. LiveJobs' = {}
    BY <2>1, EndIsEmpty DEF LiveJobs
  <2> QED
    BY <1>0, <2>2, <2>3, FS_EmptySet DEF SlotsInv, SlotsAreCounted, SlotReserved
<1>6. CASE \/ \E t \in Tasks : \/ ScheduleCheck(t) \/ ScheduleCreate(t) \/ EventNudge(t) \/ RecoverTask(t)
                               \/ \E own \in CancelCallers : CancelRequest(t, own) \/ CancelCommit(t, own)
           \/ TimerFires \/ TickLogFails \/ EventArrives \/ EventTick
           \/ Boot \/ RecoverDone \/ Stop \/ Advance \/ UNCHANGED vars
  <2>1. UNCHANGED <<job, activeCount>>
    BY <1>6 DEF ScheduleCheck, ScheduleCreate, EventNudge, RecoverTask, CancelRequest, CancelCommit,
       TimerFires, TickLogFails, EventArrives, EventTick, Boot, RecoverDone, Stop, Advance, vars, jobVars
  <2> QED
    BY <1>2, <1>3, <2>1
<1> QED
  BY <1>3, <1>4, <1>5, <1>6 DEF Next

\* activeCount is the number of runClaim calls in flight, and never more than
\* maxConcurrency, although the slot is counted two awaits after it was found.
THEOREM SlotsCounted == Spec => []SlotsAreCounted
<1>1. Init => SlotsInv
  <2> SUFFICES ASSUME Init PROVE SlotsInv
    OBVIOUS
  <2>1. LiveJobs = {}
    BY DEF Init, LiveJobs
  <2> QED
    BY <2>1, FS_EmptySet, EngineConstants DEF Init, SlotsInv, SlotsAreCounted, SlotReserved, IdleTick
<1>2. IInv /\ SlotsInv /\ [Next]_vars => SlotsInv'
  BY SlotsStep
<1>3. SlotsInv => SlotsAreCounted
  BY DEF SlotsInv
<1> QED
  BY <1>1, <1>2, <1>3, InvariantHolds, PTL DEF Spec

-----------------------------------------------------------------------------
(* What no mutation of the store changes. *)

KindsFixed == \A t \in Tasks : tasks[t].kind = Request[t].kind

\* The kind of a task is for life; the lease of a claim is only renewed by the
\* instance that holds it; and nothing but a claim makes a task active.
Preserves(k, m) ==
    /\ m.kind = k.kind
    /\ IsActive(m) =>
         /\ IsActive(k)
         /\ m.leaseExpiresAt = k.leaseExpiresAt \/ k.claimOwner = inst

\* A claim takes a task that is not active, and keeps its kind.
ClaimedBy(t, k) ==
    /\ TickClaim(k) /\ tick[k].task = t
    /\ tasks'[t].kind = tasks[t].kind
    /\ ~IsActive(tasks[t]) \/ tasks'[t] = tasks[t]

LEMMA EndsPreserve ==
    ASSUME NEW k \in TaskRecord, NEW status \in TerminalStatuses, NEW due, NEW at
    PROVE  /\ Preserves(k, ToTerminal(k, status, at))
           /\ Preserves(k, ToPending(k, due, at))
<1>1. /\ ToTerminal(k, status, at).kind = k.kind /\ ToTerminal(k, status, at).status = status
      /\ ToPending(k, due, at).kind = k.kind /\ ToPending(k, due, at).status = "pending"
  BY DEF TaskRecord, ToTerminal, ToPending, ClearActiveState
<1> QED
  BY <1>1 DEF Preserves, IsActive, ActiveStatuses, TerminalStatuses

LEMMA CyclesPreserve ==
    ASSUME NEW k \in TaskRecord, NEW next, NEW terminal, NEW at
    PROVE  /\ Preserves(k, CompletedCycle(k, next, at))
           /\ Preserves(k, FailedCycle(k, next, terminal, at))
<1>1. ASSUME NEW n \in CycleCounts
      PROVE  LET counted == [k EXCEPT !.consecutiveFailures = n] IN
             /\ Preserves(k, ToTerminal(counted, "completed", at))
             /\ Preserves(k, ToTerminal(counted, "failed", at))
             /\ Preserves(k, ToPending(counted, next, at))
  <2> DEFINE counted == [k EXCEPT !.consecutiveFailures = n]
  <2>1. /\ counted \in TaskRecord /\ counted.kind = k.kind
        /\ counted.status = k.status /\ counted.leaseExpiresAt = k.leaseExpiresAt
        /\ counted.claimOwner = k.claimOwner
    BY CountedType DEF TaskRecord
  <2>2. {"completed", "failed"} \subseteq TerminalStatuses
    BY DEF TerminalStatuses
  <2> HIDE DEF counted
  <2>3. /\ Preserves(counted, ToTerminal(counted, "completed", at))
        /\ Preserves(counted, ToTerminal(counted, "failed", at))
        /\ Preserves(counted, ToPending(counted, next, at))
    BY <2>1, <2>2, EndsPreserve
  <2> QED
    BY <2>1, <2>3 DEF Preserves, IsActive, counted
<1>2. Preserves(k, CompletedCycle(k, next, at))
  <2>1. 0 \in CycleCounts
    BY NoValues DEF NoCycle
  <2> QED
    BY <1>1, <2>1 DEF CompletedCycle
<1>3. Preserves(k, FailedCycle(k, next, terminal, at))
  <2> DEFINE n == IF k.consecutiveFailures < CycleLimit THEN k.consecutiveFailures + 1 ELSE CycleLimit
  <2>1. n \in CycleCounts
    BY StoreConstants DEF TaskRecord, CycleCounts
  <2>2. \/ FailedCycle(k, next, terminal, at) = ToTerminal([k EXCEPT !.consecutiveFailures = n], "failed", at)
        \/ FailedCycle(k, next, terminal, at) = ToPending([k EXCEPT !.consecutiveFailures = n], next, at)
    BY Zenon DEF FailedCycle
  <2> HIDE DEF n
  <2> QED
    BY <1>1, <2>1, <2>2
<1> QED
  BY <1>2, <1>3

LEMMA OthersPreserve ==
    ASSUME NEW k \in TaskRecord, NEW run, NEW due, NEW c, NEW action, NEW at
    PROVE  /\ Preserves(k, k)
           /\ IsActive(k) => Preserves(k, MarkedRunning(k, run, at))
           /\ k.claimOwner = inst => Preserves(k, Renewed(k, at))
           /\ Preserves(k, Cancelled(k, at))
           /\ Preserves(k, Nudged(k, due, at))
           /\ Preserves(k, Reconciled(k, c, action, due, at))
<1>0. {"expired", "cancelled", "completed", "failed"} \subseteq TerminalStatuses
  BY DEF TerminalStatuses
<1>1. Preserves(k, k)
  BY DEF Preserves
<1>2. IsActive(k) => Preserves(k, MarkedRunning(k, run, at))
  BY DEF MarkedRunning, Preserves, TaskRecord
<1>3. k.claimOwner = inst => Preserves(k, Renewed(k, at))
  BY DEF Renewed, Preserves, TaskRecord, IsActive
<1>4. Preserves(k, Cancelled(k, at))
  BY <1>0, <1>1, EndsPreserve DEF Cancelled
<1>5. Preserves(k, Nudged(k, due, at))
  BY <1>1 DEF Nudged, Preserves, TaskRecord, IsActive, ActiveStatuses
<1>6. Preserves(k, Reconciled(k, c, action, due, at))
  BY <1>0, <1>1, EndsPreserve DEF Reconciled
<1> QED
  BY <1>1, <1>2, <1>3, <1>4, <1>5, <1>6

LEMMA ClaimKeeps ==
    ASSUME NEW k \in TaskRecord, NEW stamp, NEW owner, NEW at
    PROVE  /\ AfterClaim(k, stamp, owner, at).kind = k.kind
           /\ ~IsActive(k) \/ AfterClaim(k, stamp, owner, at) = k
<1>1. ClaimResult(k, stamp, at) \in {"claimed", "expired", "cycle_limit"} => k.status = "pending"
  BY DEF ClaimResult
<1>2. Claimed(k, owner, at).kind = k.kind
  BY DEF Claimed, TaskRecord
<1>3. Preserves(k, ToTerminal(k, "expired", at))
  BY EndsPreserve DEF TerminalStatuses
<1> QED
  BY <1>1, <1>2, <1>3 DEF AfterClaim, Preserves, IsActive, ActiveStatuses

LEMMA WritePreserves ==
    ASSUME TypeOK, NEW t \in Tasks, NEW m, SetTask(t, m), Preserves(tasks[t], m), NEW u \in Tasks
    PROVE  Preserves(tasks[u], tasks'[u])
  BY DEF SetTask, TypeOK, Preserves

LEMMA ClosePreserves ==
    ASSUME TypeOK, NEW t \in Tasks, NEW c \in Cycles, NEW m, Close(t, c, m), Preserves(tasks[t], m),
           NEW u \in Tasks
    PROVE  Preserves(tasks[u], tasks'[u])
<1>1. CASE SetTask(t, m)
  BY <1>1, WritePreserves
<1>2. CASE UNCHANGED tasks
  BY <1>2 DEF Preserves
<1> QED
  BY <1>1, <1>2 DEF Close

LEMMA NextPreserves ==
    ASSUME IInv, KindsFixed, [Next]_vars, NEW u \in Tasks
    PROVE  Preserves(tasks[u], tasks'[u]) \/ \E k \in Tickers : ClaimedBy(u, k)
<1>0. TypeOK /\ \A t \in Tasks : tasks[t] \in TaskRecord
  BY DEF IInv, TypeOK
<1> DEFINE P == Preserves(tasks[u], tasks'[u]) \/ \E k \in Tickers : ClaimedBy(u, k)
<1>1. CASE UNCHANGED tasks
  BY <1>1 DEF Preserves
<1>2. ASSUME NEW t \in Tasks, ScheduleCreate(t) PROVE P
  <2>1. SetTask(t, NewTask(Request[t], now)) /\ tasks[t].status = "absent"
    BY <1>2 DEF ScheduleCreate, IInv, CallsShaped
  <2>2. Preserves(tasks[t], NewTask(Request[t], now))
    BY <2>1 DEF NewTask, Preserves, KindsFixed, IsActive, ActiveStatuses
  <2> QED
    BY <1>0, <2>1, <2>2, WritePreserves
<1>3. ASSUME NEW t \in Tasks, NEW own \in CancelCallers, CancelCommit(t, own) PROVE P
  <2>1. SetTask(t, IF own THEN Cancelled(tasks[t], now) ELSE tasks[t])
    BY <1>3 DEF CancelCommit
  <2>2. Preserves(tasks[t], IF own THEN Cancelled(tasks[t], now) ELSE tasks[t])
    BY <1>0, OthersPreserve
  <2> QED
    BY <1>0, <2>1, <2>2, WritePreserves
<1>4. ASSUME NEW k \in Tickers, TickClaim(k) PROVE P
  <2> DEFINE t == tick[k].task
             m == AfterClaim(tasks[t], tick[k].stamp, inst, now)
  <2>1. SetTask(t, m) /\ t \in Tasks
    BY <1>0, <1>4 DEF TickClaim, TypeOK, TickState
  <2>2. m.kind = tasks[t].kind /\ (~IsActive(tasks[t]) \/ m = tasks[t])
    BY <1>0, <2>1, ClaimKeeps
  <2>3. CASE u = t
    BY <1>0, <1>4, <2>1, <2>2, <2>3 DEF SetTask, TypeOK, ClaimedBy
  <2>4. CASE u # t
    BY <1>0, <2>1, <2>4 DEF SetTask, TypeOK, Preserves
  <2> QED
    BY <2>3, <2>4
<1>5. ASSUME NEW t \in Tasks, EventNudge(t) PROVE P
  <2>1. SetTask(t, Nudged(tasks[t], nudgeAt, now)) /\ Preserves(tasks[t], Nudged(tasks[t], nudgeAt, now))
    BY <1>0, <1>5, OthersPreserve DEF EventNudge
  <2> QED
    BY <1>0, <2>1, WritePreserves
<1>6. ASSUME NEW t \in Tasks, RecoverTask(t) PROVE P
  <2>1. \E c, action : SetTask(t, Reconciled(tasks[t], c, action, recoverAt, now))
    BY <1>6 DEF RecoverTask
  <2> QED
    BY <1>0, <2>1, OthersPreserve, WritePreserves
<1>7. ASSUME NEW t \in Tasks, NEW c \in Cycles, JobStep(t, c) PROVE P
  <2>0. tasks[t] \in TaskRecord
    BY <1>0
  <2>1. CASE JobStart(t, c) \/ TurnAttachesRun(t, c)
    <3>1. \/ UNCHANGED tasks
          \/ IsActive(tasks[t]) /\ \E run : SetTask(t, MarkedRunning(tasks[t], run, now))
      BY <2>1 DEF JobStart, TurnAttachesRun, CanMarkRunning, HasActiveCycle
    <3> QED
      BY <1>0, <1>1, <2>0, <3>1, OthersPreserve, WritePreserves
  <2>2. CASE RenewLease(t, c)
    <3>1. UNCHANGED tasks \/ (SetTask(t, Renewed(tasks[t], now)) /\ tasks[t].claimOwner = inst)
      BY <2>2 DEF RenewLease, CanRenew
    <3> QED
      BY <1>0, <1>1, <2>0, <3>1, OthersPreserve, WritePreserves
  <2>3. CASE ReminderEnds(t, c) \/ WatchEnds(t, c) \/ TurnCloses(t, c)
    <3>1. \E next, terminal : \/ Close(t, c, CompletedCycle(tasks[t], next, now))
                              \/ Close(t, c, FailedCycle(tasks[t], next, terminal, now))
      BY <2>3 DEF ReminderEnds, WatchEnds, TurnCloses
    <3> QED
      BY <1>0, <2>0, <3>1, CyclesPreserve, ClosePreserves
  <2>4. CASE JobFails(t, c)
    <3>1. SetTask(t, FailedCycle(tasks[t], NoTime, TRUE, now)) \/ SetTask(t, tasks[t])
      BY <2>4 DEF JobFails
    <3> QED
      BY <1>0, <2>0, <3>1, CyclesPreserve, OthersPreserve, WritePreserves
  <2>5. CASE \/ WakeStarts(t, c) \/ TurnCreatesRun(t, c) \/ TurnBegins(t, c) \/ TurnEnds(t, c)
             \/ TurnCloseInvalid(t, c) \/ JobThrows(t, c) \/ JobDone(t, c)
    BY <1>1, <2>5 DEF WakeStarts, TurnCreatesRun, TurnBegins, TurnEnds, TurnCloseInvalid, JobThrows,
       JobDone, storeVars
  <2> QED
    BY <1>7, <2>1, <2>2, <2>3, <2>4, <2>5 DEF JobStep
<1>8. CASE \E k \in Tickers : TickList(k) \/ TickDone(k) \/ TickStart(k)
  BY <1>1, <1>8 DEF TickList, TickDone, TickStart, storeVars
<1>9. CASE \/ \E t \in Tasks : ScheduleCheck(t) \/ \E own \in CancelCallers : CancelRequest(t, own)
           \/ TimerFires \/ TickLogFails \/ EventArrives \/ EventTick
           \/ Boot \/ RecoverDone \/ Stop \/ Exit \/ Crash \/ Advance
  BY <1>1, <1>9 DEF ScheduleCheck, CancelRequest, TimerFires, TickLogFails, EventArrives, EventTick,
     Boot, RecoverDone, Stop, Exit, Crash, ProcessEnds, Advance, storeVars
<1>10. CASE UNCHANGED vars
  BY <1>1, <1>10 DEF vars, storeVars
<1> QED
  BY <1>2, <1>3, <1>4, <1>5, <1>6, <1>7, <1>8, <1>9, <1>10 DEF Next, TickStep

LEMMA KindsStep == IInv /\ KindsFixed /\ [Next]_vars => KindsFixed'
  BY NextPreserves DEF KindsFixed, Preserves, ClaimedBy

LEMMA KindsHold == Spec => []KindsFixed
<1>1. Init => KindsFixed
  BY DEF Init, KindsFixed, AbsentTask, NewTask
<1> QED
  BY <1>1, KindsStep, InvariantHolds, PTL DEF Spec

-----------------------------------------------------------------------------
(* The distance of wakes. *)

\* A tick that is about to claim a wake found the interval over; no other tick
\* can start a wake before it claims.
WakeAllowed ==
    \A k \in Tickers :
        (tick[k].pc = "claim" /\ Request[tick[k].task].kind = "wake_turn") => CanStartWake

\* Which steps change the time of the last wake.
LEMMA LastWakeFrames ==
    ASSUME [Next]_vars
    PROVE  UNCHANGED lastWake \/ ProcessEnds \/ \E k \in Tickers : TickClaim(k)
<1>1. CASE UNCHANGED vars
  BY <1>1 DEF vars, tickVars
<1>2. CASE \E t \in Tasks : \/ ScheduleCheck(t) \/ ScheduleCreate(t) \/ EventNudge(t) \/ RecoverTask(t)
                            \/ \E own \in CancelCallers : CancelRequest(t, own) \/ CancelCommit(t, own)
  BY <1>2 DEF ScheduleCheck, ScheduleCreate, EventNudge, RecoverTask, CancelRequest, CancelCommit, tickVars
<1>3. CASE TimerFires \/ TickLogFails \/ EventArrives \/ EventTick
           \/ \E k \in Tickers : TickList(k) \/ TickDone(k) \/ TickStart(k)
  BY <1>3 DEF TimerFires, TickLogFails, EventArrives, EventTick, TickList, TickDone, TickStart
<1>4. ASSUME NEW t \in Tasks, NEW c \in Cycles, JobStep(t, c) PROVE UNCHANGED lastWake
  <2>1. CASE JobDone(t, c) \/ JobFails(t, c)
    BY <2>1 DEF JobDone, JobFails, tickVars
  <2>2. CASE ~JobDone(t, c) /\ ~JobFails(t, c)
    BY <1>4, <2>2, JobMoves DEF JobUnchanged, tickVars
  <2> QED
    BY <2>1, <2>2
<1>5. CASE Boot \/ RecoverDone \/ Stop \/ Advance
  BY <1>5 DEF Boot, RecoverDone, Stop, Advance, tickVars
<1>6. CASE Exit \/ Crash
  BY <1>6 DEF Exit, Crash
<1> QED
  BY <1>1, <1>2, <1>3, <1>4, <1>5, <1>6 DEF Next, TickStep

\* Time only passes.
LEMMA TimeFrames ==
    ASSUME TypeOK, [Next]_vars
    PROVE  now' \in Nat /\ now <= now'
<1>1. UNCHANGED now \/ Advance
  <2>1. CASE UNCHANGED vars
    BY <2>1 DEF vars
  <2>2. CASE \E t \in Tasks : \/ ScheduleCheck(t) \/ ScheduleCreate(t) \/ EventNudge(t) \/ RecoverTask(t)
                              \/ \E own \in CancelCallers : CancelRequest(t, own) \/ CancelCommit(t, own)
    BY <2>2 DEF ScheduleCheck, ScheduleCreate, EventNudge, RecoverTask, CancelRequest, CancelCommit
  <2>3. CASE TimerFires \/ TickLogFails \/ EventArrives \/ EventTick \/ \E k \in Tickers : TickStep(k)
    BY <2>3 DEF TimerFires, TickLogFails, EventArrives, EventTick, TickStep, TickList, TickDone, TickClaim, TickStart
  <2>4. ASSUME NEW t \in Tasks, NEW c \in Cycles, JobStep(t, c) PROVE UNCHANGED now
    <3>1. CASE JobDone(t, c) \/ JobFails(t, c)
      BY <3>1 DEF JobDone, JobFails
    <3>2. CASE ~JobDone(t, c) /\ ~JobFails(t, c)
      BY <2>4, <3>2, JobMoves DEF JobUnchanged
    <3> QED
      BY <3>1, <3>2
  <2>5. CASE Boot \/ RecoverDone \/ Stop
    BY <2>5 DEF Boot, RecoverDone, Stop
  <2>6. CASE Exit \/ Crash
    BY <2>6, Zenon DEF Exit, Crash, ProcessEnds
  <2> QED
    BY <2>1, <2>2, <2>3, <2>4, <2>5, <2>6 DEF Next
<1> QED
  BY <1>1 DEF Advance, TypeOK

LEMMA WakeAllowedStep ==
    ASSUME IInv, KindsFixed, WakeAllowed, [Next]_vars
    PROVE  WakeAllowed'
<1>0. TypeOK /\ now \in Nat /\ lastWake \in OptionalTime /\ WakeInterval \in Nat
  BY EngineConstants DEF IInv, TypeOK
<1>1. CanStartWake /\ UNCHANGED lastWake => CanStartWake'
  BY <1>0, TimeFrames DEF CanStartWake, OptionalTime, NoTime
<1>2. ASSUME ~(\E k \in Tickers : TickStep(k)), ~ProcessEnds PROVE WakeAllowed'
  <2>1. UNCHANGED lastWake
    BY <1>2, LastWakeFrames DEF TickStep
  <2>2. \A k \in Tickers : tick'[k].pc = "claim" => tick[k].pc = "claim" /\ tick'[k] = tick[k]
    BY <1>0, <1>2, ReservesStep DEF Reserves
  <2> QED
    BY <1>1, <2>1, <2>2 DEF WakeAllowed
<1>3. CASE ProcessEnds
  BY <1>3, EndIsEmpty DEF WakeAllowed
<1>4. ASSUME NEW k \in Tickers, TickStep(k) PROVE WakeAllowed'
  <2>0. \A l \in Tickers \ {k} : tick'[l] = tick[l]
    BY <1>0, <1>4 DEF TickStep, TickList, TickDone, FinishTick, TickClaim, TickStart, TypeOK
  <2>1. CASE TickDone(k) \/ TickStart(k)
    <3>1. UNCHANGED lastWake /\ tick'[k].pc # "claim"
      BY <1>0, <2>1 DEF TickDone, FinishTick, TickStart, TypeOK, IdleTick
    <3> QED
      BY <1>1, <2>0, <3>1 DEF WakeAllowed
  <2>2. CASE TickList(k)
    <3>1. UNCHANGED lastWake /\ ~HeldBack(tick'[k].task) /\ tick'[k].task \in Tasks
      BY <1>0, <2>2 DEF TickList, TypeOK, TickState
    <3>2. Request[tick'[k].task].kind = "wake_turn" => CanStartWake
      BY <3>1 DEF HeldBack, KindsFixed
    <3> QED
      BY <1>1, <2>0, <3>1, <3>2 DEF WakeAllowed
  <2>3. CASE TickClaim(k)
    <3>1. \A l \in Tickers \ {k} : tick[l].pc # "claim"
      BY <2>3 DEF TickClaim, IInv, TicksExclude, BusyTick
    <3>2. tick'[k].pc \in {"log", "list"}
      BY <1>0, <2>3 DEF TickClaim, TypeOK
    <3> QED
      BY <2>0, <3>1, <3>2 DEF WakeAllowed
  <2> QED
    BY <1>4, <2>1, <2>2, <2>3 DEF TickStep
<1> QED
  BY <1>2, <1>3, <1>4

LEMMA WakeAllowedHolds == Spec => []WakeAllowed
<1>1. Init => WakeAllowed
  BY DEF Init, WakeAllowed, IdleTick
<1> QED
  BY <1>1, WakeAllowedStep, KindsHold, InvariantHolds, PTL DEF Spec

\* Two wakes that one process claims are the interval apart, whichever ticks
\* claim them and however long the store takes.
THEOREM WakesSpaced == Spec => WakesAreSpaced
<1>1. ASSUME IInv, KindsFixed, WakeAllowed, [Next]_vars, NEW t \in Tasks,
             tasks[t].kind = "wake_turn", ~IsActive(tasks[t]), IsActive(tasks'[t])
      PROVE  lastWake = NoTime \/ now - lastWake >= WakeInterval
  <2>1. PICK k \in Tickers : ClaimedBy(t, k)
    BY <1>1, NextPreserves DEF Preserves
  <2>2. tick[k].pc = "claim" /\ Request[tick[k].task].kind = "wake_turn"
    BY <1>1, <2>1 DEF ClaimedBy, TickClaim, KindsFixed
  <2> QED
    BY <1>1, <2>2 DEF WakeAllowed, CanStartWake
<1>2. IInv /\ KindsFixed /\ WakeAllowed /\ [Next]_vars
        => [\A t \in Tasks : (tasks[t].kind = "wake_turn" /\ ~IsActive(tasks[t]) /\ IsActive(tasks'[t])) =>
               (lastWake = NoTime \/ now - lastWake >= WakeInterval)]_vars
  BY <1>1
<1> QED
  BY <1>2, WakeAllowedHolds, KindsHold, InvariantHolds, PTL DEF Spec, WakesAreSpaced

-----------------------------------------------------------------------------
(* Claims of earlier instances. *)

\* While recovery runs, an expired claim of an earlier instance is on its
\* list; when it is done the list is empty.
SweepShaped ==
    /\ ~booting => recoverQ = {}
    /\ Up => \A t \in Tasks :
           (IsActive(tasks[t]) /\ tasks[t].claimOwner # inst /\ tasks[t].leaseExpiresAt <= recoverAt) =>
               \E e \in recoverQ : e[1] = t /\ e[2] = tasks[t].activeCycleId

LEMMA RecoverFrames ==
    ASSUME [Next]_vars, ~ProcessEnds, ~Boot
    PROVE  /\ UNCHANGED <<recoverAt, inst>>
           /\ Up' => Up
           /\ \/ recoverQ' = recoverQ /\ (booting' = booting \/ recoverQ = {})
              \/ booting' = booting /\ \E u \in Tasks : RecoverTask(u)
<1> DEFINE F == /\ UNCHANGED <<recoverAt, inst>>
                /\ Up' => Up
                /\ \/ recoverQ' = recoverQ /\ (booting' = booting \/ recoverQ = {})
                   \/ booting' = booting /\ \E u \in Tasks : RecoverTask(u)
<1>1. ASSUME UNCHANGED <<recoverAt, inst, phase, recoverQ, booting>> PROVE F
  BY <1>1 DEF Up
<1>2. CASE UNCHANGED vars
  BY <1>1, <1>2 DEF vars, procVars
<1>3. CASE \E t \in Tasks : \/ ScheduleCheck(t) \/ ScheduleCreate(t) \/ EventNudge(t)
                            \/ \E own \in CancelCallers : CancelRequest(t, own) \/ CancelCommit(t, own)
  BY <1>1, <1>3 DEF ScheduleCheck, ScheduleCreate, EventNudge, CancelRequest, CancelCommit, procVars
<1>4. CASE TimerFires \/ TickLogFails \/ EventArrives \/ EventTick \/ \E k \in Tickers : TickStep(k)
  BY <1>1, <1>4 DEF TimerFires, TickLogFails, EventArrives, EventTick, TickStep, TickList, TickDone, TickClaim,
     TickStart, procVars
<1>5. ASSUME NEW t \in Tasks, NEW c \in Cycles, JobStep(t, c) PROVE F
  <2>1. CASE JobDone(t, c) \/ JobFails(t, c)
    BY <1>1, <2>1 DEF JobDone, JobFails, EndJob
  <2>2. CASE ~JobDone(t, c) /\ ~JobFails(t, c)
    BY <1>1, <1>5, <2>2, JobMoves DEF JobUnchanged, procVars
  <2> QED
    BY <2>1, <2>2
<1>6. CASE \E t \in Tasks : RecoverTask(t)
  BY <1>6 DEF RecoverTask, Up
<1>7. CASE RecoverDone \/ Stop
  BY <1>7 DEF RecoverDone, Stop, Up
<1>8. CASE Advance
  BY <1>1, <1>8 DEF Advance, procVars
<1>9. CASE Exit \/ Crash
  BY <1>9 DEF Exit, Crash
<1> QED
  BY <1>2, <1>3, <1>4, <1>5, <1>6, <1>7, <1>8, <1>9 DEF Next

\* A claim that is active after a step either was there before it, held by the
\* same instance for the same cycle, or was taken in this step.
LEMMA ClaimsPersist ==
    ASSUME IInv, KindsFixed, [Next]_vars, NEW t \in Tasks, IsActive(tasks'[t])
    PROVE  \/ /\ IsActive(tasks[t])
              /\ tasks'[t].claimOwner = tasks[t].claimOwner
              /\ tasks'[t].activeCycleId = tasks[t].activeCycleId
              /\ tasks'[t].leaseExpiresAt = tasks[t].leaseExpiresAt \/ tasks[t].claimOwner = inst
           \/ ~IsActive(tasks[t]) /\ tasks'[t].claimOwner = inst /\ \E k \in Tickers : ClaimedBy(t, k)
<1>1. tasks'[t] = tasks[t] \/ Evolves(t)
  BY NextEvolves DEF IInv, TasksEvolve, Evolves, TypeOK
<1>2. ~Leaves(tasks[t], tasks'[t]) /\ ~Creates(tasks[t], tasks'[t])
  BY DEF Leaves, Creates, IsActive, IsTerminal, ActiveStatuses, TerminalStatuses
<1>3. CASE tasks'[t] = tasks[t] \/ Stays(tasks[t], tasks'[t])
  <2>1. /\ IsActive(tasks[t]) /\ tasks'[t].claimOwner = tasks[t].claimOwner
        /\ tasks'[t].activeCycleId = tasks[t].activeCycleId
    BY <1>3 DEF Stays, IsActive, ActiveStatuses
  <2>2. tasks'[t].leaseExpiresAt = tasks[t].leaseExpiresAt \/ tasks[t].claimOwner = inst
    BY <2>1, NextPreserves DEF Preserves, ClaimedBy
  <2> QED
    BY <2>1, <2>2
<1>4. CASE Takes(tasks[t], tasks'[t], inst)
  <2>1. ~IsActive(tasks[t]) /\ tasks'[t].claimOwner = inst
    BY <1>4 DEF Takes, IsActive, ActiveStatuses
  <2> QED
    BY <2>1, NextPreserves DEF Preserves
<1> QED
  BY <1>1, <1>2, <1>3, <1>4 DEF Evolves

LEMMA SweepStep ==
    ASSUME IInv, KindsFixed, SweepShaped, [Next]_vars
    PROVE  SweepShaped'
<1>1. CASE ProcessEnds
  BY <1>1, EndIsEmpty DEF SweepShaped, Up
<1>2. CASE Boot
  <2>1. /\ booting' = TRUE /\ recoverAt' = now /\ UNCHANGED tasks
        /\ recoverQ' = {<<t, tasks[t].activeCycleId, tasks[t].activeRunId>> :
                          t \in {u \in Tasks : IsActive(tasks[u]) /\ LeaseExpired(tasks[u], now)}}
    BY <1>2 DEF Boot, storeVars
  <2>2. ASSUME NEW t \in Tasks, IsActive(tasks[t]), tasks[t].leaseExpiresAt <= now
        PROVE  \E e \in recoverQ' : e[1] = t /\ e[2] = tasks[t].activeCycleId
    <3>1. <<t, tasks[t].activeCycleId, tasks[t].activeRunId>> \in recoverQ'
      BY <2>1, <2>2 DEF LeaseExpired
    <3> QED
      BY <3>1
  <2> QED
    BY <2>1, <2>2 DEF SweepShaped
<1>3. CASE ~ProcessEnds /\ ~Boot
  <2>1. /\ UNCHANGED <<recoverAt, inst>> /\ (Up' => Up)
        /\ \/ recoverQ' = recoverQ /\ (booting' = booting \/ recoverQ = {})
           \/ booting' = booting /\ \E u \in Tasks : RecoverTask(u)
    BY <1>3, RecoverFrames
  <2>2. ~booting' => recoverQ' = {}
    <3>1. recoverQ = {} => ~(\E u \in Tasks : RecoverTask(u))
      BY DEF RecoverTask
    <3> QED
      BY <2>1, <3>1 DEF SweepShaped
  <2>3. ASSUME Up', NEW t \in Tasks, IsActive(tasks'[t]), tasks'[t].claimOwner # inst,
               tasks'[t].leaseExpiresAt <= recoverAt
        PROVE  \E e \in recoverQ' : e[1] = t /\ e[2] = tasks'[t].activeCycleId
    <3>1. /\ IsActive(tasks[t]) /\ tasks[t].claimOwner # inst
          /\ tasks'[t].activeCycleId = tasks[t].activeCycleId
          /\ tasks'[t].leaseExpiresAt = tasks[t].leaseExpiresAt
      BY <2>3, ClaimsPersist
    <3>2. PICK e \in recoverQ : e[1] = t /\ e[2] = tasks[t].activeCycleId
      BY <2>1, <2>3, <3>1 DEF SweepShaped
    <3>3. e \in recoverQ'
      <4>1. SUFFICES ASSUME NEW u \in Tasks, RecoverTask(u), e \notin recoverQ' PROVE FALSE
        BY <2>1, <3>2
      <4>2. /\ e[1] = u
            /\ SetTask(u, Reconciled(tasks[u], e[2], RecoverAction(u, e[3]), recoverAt, now))
        BY <4>1, <3>2 DEF RecoverTask
      <4>3. tasks'[t] = Reconciled(tasks[t], tasks[t].activeCycleId, RecoverAction(t, e[3]), recoverAt, now)
        BY <3>2, <4>2 DEF SetTask, IInv, TypeOK
      <4>4. tasks'[t].status \in {"pending", "completed", "failed"}
        BY <4>3 DEF Reconciled, ToPending, ToTerminal, ClearActiveState, IInv, TypeOK, TaskRecord
      <4> QED
        BY <2>3, <4>4 DEF IsActive, ActiveStatuses
    <3> QED
      BY <3>1, <3>2, <3>3
  <2> QED
    BY <2>1, <2>2, <2>3 DEF SweepShaped
<1> QED
  BY <1>1, <1>2, <1>3

\* Once recovery is done, a claim of an earlier instance is one whose lease had
\* not expired when recovery looked.
THEOREM RecoverySwept == Spec => []RecoverySweepsExpired
<1>1. Init => SweepShaped
  BY DEF Init, SweepShaped, Up
<1>2. IInv /\ KindsFixed /\ SweepShaped /\ [Next]_vars => SweepShaped'
  BY SweepStep
<1>3. SweepShaped => RecoverySweepsExpired
  BY DEF SweepShaped, RecoverySweepsExpired, Running, Up
<1> QED
  BY <1>1, <1>2, <1>3, KindsHold, InvariantHolds, PTL DEF Spec

-----------------------------------------------------------------------------
(* Runs of new cycles. *)

FreshSteps == {"start", "exec", "check"}

\* A cycle that has no run: it was not claimed yet, or it was and its turn has
\* not come to creating one.
IsFresh(t, c) ==
    \/ c > tasks[t].cycleCount
    \/ job[t][c] \in FreshSteps
    \/ \E k \in Tickers : tick[k].pc = "log" /\ tick[k].task = t /\ tick[k].cycle = c

RunsShaped == \A t \in Tasks, c \in Cycles : IsFresh(t, c) => runs[t][c].status = "none"

\* How a step changes the runs: a cancellation flags one, a turn that is past
\* its first check writes its own.
LEMMA RunFrames ==
    ASSUME TypeOK, [Next]_vars, NEW t \in Tasks, NEW c \in Cycles
    PROVE  \/ runs'[t][c].status = runs[t][c].status
           \/ /\ job[t][c] \in {"check", "turn", "agent"} /\ job'[t][c] \notin FreshSteps
              /\ UNCHANGED <<tick, tasks>>
<1> DEFINE F == \/ runs'[t][c].status = runs[t][c].status
                \/ /\ job[t][c] \in {"check", "turn", "agent"} /\ job'[t][c] \notin FreshSteps
                   /\ UNCHANGED <<tick, tasks>>
<1>1. CASE UNCHANGED runs
  BY <1>1
<1>2. ASSUME NEW u \in Tasks, NEW own \in CancelCallers, CancelRequest(u, own) PROVE F
  <2>1. \/ UNCHANGED runs
        \/ \E r \in CycleCounts : runs' = [runs EXCEPT ![u][r].cancelRequested = TRUE]
    BY <1>2 DEF CancelRequest, TypeOK, TaskRecord
  <2>2. \A r : (runs' = [runs EXCEPT ![u][r].cancelRequested = TRUE])
                  => runs'[t][c].status = runs[t][c].status
    BY DEF TypeOK, RunRecord
  <2> QED
    BY <2>1, <2>2
<1>3. ASSUME NEW u \in Tasks, NEW d \in Cycles, TurnCreatesRun(u, d) \/ TurnBegins(u, d) \/ TurnEnds(u, d)
      PROVE  F
  <2>1. /\ job[u][d] \in {"check", "turn", "agent"} /\ UNCHANGED <<tick, tasks>>
        /\ \E r : UNCHANGED runs \/ SetRun(u, d, r)
        /\ \E pc \in {"attach", "failing", "noaction", "agent", "complete", "reschedule"} : SetJob(u, d, pc)
    BY <1>3 DEF TurnCreatesRun, TurnBegins, TurnEnds, JobUnchanged, tickVars
  <2>2. CASE u = t /\ d = c
    BY <2>1, <2>2 DEF SetJob, TypeOK, FreshSteps
  <2>3. CASE ~(u = t /\ d = c)
    <3>1. PICK r : UNCHANGED runs \/ SetRun(u, d, r)
      BY <2>1
    <3>2. runs'[t][c] = runs[t][c]
      BY <2>3, <3>1 DEF SetRun, TypeOK
    <3> QED
      BY <3>2
  <2> QED
    BY <2>2, <2>3
<1>4. ASSUME NEW u \in Tasks, NEW d \in Cycles, JobStep(u, d) PROVE F
  <2>1. CASE TurnCreatesRun(u, d) \/ TurnBegins(u, d) \/ TurnEnds(u, d)
    BY <1>3, <2>1
  <2>2. CASE ~(TurnCreatesRun(u, d) \/ TurnBegins(u, d) \/ TurnEnds(u, d))
    BY <1>1, <1>4, <2>2 DEF JobStep, JobStart, RenewLease, ReminderEnds, WatchEnds, WakeStarts,
       TurnAttachesRun, TurnCloses, TurnCloseInvalid, JobThrows, JobDone, JobFails, storeVars
  <2> QED
    BY <2>1, <2>2
<1>5. CASE \/ \E u \in Tasks : \/ ScheduleCheck(u) \/ ScheduleCreate(u) \/ EventNudge(u) \/ RecoverTask(u)
                               \/ \E own \in CancelCallers : CancelCommit(u, own)
           \/ TimerFires \/ TickLogFails \/ EventArrives \/ EventTick
           \/ \E k \in Tickers : TickStep(k)
           \/ Boot \/ RecoverDone \/ Stop \/ Advance \/ UNCHANGED vars
  BY <1>1, <1>5 DEF ScheduleCheck, ScheduleCreate, EventNudge, RecoverTask, CancelCommit,
     TimerFires, TickLogFails, EventArrives, EventTick, TickStep, TickList, TickDone, TickClaim, TickStart,
     Boot, RecoverDone, Stop, Advance, vars, storeVars
<1>6. CASE Exit \/ Crash
  BY <1>1, <1>6, Zenon DEF Exit, Crash, ProcessEnds, storeVars
<1> QED
  BY <1>2, <1>4, <1>5, <1>6 DEF Next

\* A cycle does not become fresh.
LEMMA FreshStays ==
    ASSUME IInv, [Next]_vars, NEW t \in Tasks, NEW c \in Cycles, IsFresh(t, c)'
    PROVE  IsFresh(t, c)
<1>0. TypeOK /\ TasksEvolve
  BY NextEvolves DEF IInv
<1>1. CASE c > tasks'[t].cycleCount
  <2>1. tasks[t].cycleCount <= tasks'[t].cycleCount
    BY <1>0, EvolvesForward DEF IInv
  <2>2. tasks[t].cycleCount \in Nat /\ tasks'[t].cycleCount \in Nat /\ c \in Nat
    BY <1>0, TypeStep, RecordCounts, CycleNumbers DEF IInv, TypeOK
  <2> QED
    BY <1>1, <2>1, <2>2 DEF IsFresh
<1>2. CASE job'[t][c] \in FreshSteps
  <2>0. ~ProcessEnds
    BY <1>2, EndIsEmpty DEF FreshSteps
  <2>1. CASE \E k \in Tickers : TickStart(k) /\ tick[k].task = t /\ tick[k].cycle = c
    BY <2>1 DEF IsFresh, TickStart
  <2>2. ASSUME NEW u \in Tasks, NEW d \in Cycles, JobStep(u, d), job'[t][c] # job[t][c] PROVE IsFresh(t, c)
    <3>1. \/ JobStart(u, d) /\ (SetJob(u, d, "exec") \/ SetJob(u, d, "failing"))
          \/ WakeStarts(u, d) /\ SetJob(u, d, "check")
          \/ \E pc \in JobSteps \ FreshSteps : SetJob(u, d, pc)
      BY <2>2 DEF JobStep, JobStart, RenewLease, ReminderEnds, WatchEnds, WakeStarts, TurnCreatesRun,
         TurnAttachesRun, TurnBegins, TurnEnds, TurnCloses, TurnCloseInvalid, JobThrows, JobDone, JobFails,
         Close, EndJob, JobSteps, WorkingSteps, FreshSteps
    <3>2. u = t /\ d = c
      BY <1>0, <2>2, <3>1 DEF SetJob, TypeOK
    <3>3. JobStart(t, c) \/ WakeStarts(t, c)
      BY <1>0, <1>2, <3>1, <3>2 DEF SetJob, TypeOK
    <3> QED
      BY <3>3 DEF JobStart, WakeStarts, IsFresh, FreshSteps
  <2>3. CASE job'[t][c] = job[t][c]
    BY <1>2, <2>3 DEF IsFresh
  <2>4. CASE ~(\E u \in Tasks, d \in Cycles : JobStep(u, d)) /\ ~(\E k \in Tickers : TickStart(k))
    <3>1. UNCHANGED job
      BY <2>0, <2>4 DEF Next, ScheduleCheck, ScheduleCreate, EventNudge, RecoverTask, CancelRequest, CancelCommit,
         TimerFires, TickLogFails, EventArrives, EventTick, TickStep, TickList, TickDone, TickClaim,
         Boot, RecoverDone, Stop, Exit, Crash, Advance, vars, jobVars
    <3> QED
      BY <2>3, <3>1
  <2>5. ASSUME NEW k \in Tickers, TickStart(k), ~(tick[k].task = t /\ tick[k].cycle = c)
        PROVE  job'[t][c] = job[t][c]
    BY <1>0, <2>5 DEF TickStart, SetJob, TypeOK
  <2> QED
    BY <2>1, <2>2, <2>3, <2>4, <2>5
<1>3. ASSUME NEW k \in Tickers, tick'[k].pc = "log", tick'[k].task = t, tick'[k].cycle = c
      PROVE  IsFresh(t, c)
  <2>1. CASE tick'[k] = tick[k]
    BY <1>3, <2>1 DEF IsFresh
  <2>2. CASE ~(\E l \in Tickers : TickStep(l))
    BY <1>0, <1>3, <2>1, <2>2, ReservesStep DEF Reserves
  <2>3. ASSUME NEW l \in Tickers, TickStep(l), l # k PROVE tick'[k] = tick[k]
    BY <1>0, <2>3 DEF TickStep, TickList, TickDone, FinishTick, TickClaim, TickStart, TypeOK
  <2>4. CASE TickStep(k)
    <3>1. TickClaim(k)
      <4>1. ~TickList(k)
        BY <1>0, <1>3 DEF TickList, TypeOK, TickState
      <4>2. ~TickDone(k) /\ ~TickStart(k)
        BY <1>0, <1>3 DEF TickDone, FinishTick, TickStart, TypeOK, IdleTick
      <4> QED
        BY <2>4, <4>1, <4>2 DEF TickStep
    <3>2. tick[k].task = t /\ c = tasks[t].cycleCount + 1
      <4> DEFINE u == tick[k].task
                 claimed == ClaimResult(tasks[u], tick[k].stamp, now) = "claimed"
      <4>1. tick' = [tick EXCEPT ![k].pc = IF claimed THEN "log" ELSE "list",
                                 ![k].cycle = IF claimed THEN tasks[u].cycleCount + 1 ELSE NoCycle]
        BY <1>0, <3>1, TickClaimCycle DEF IInv
      <4> HIDE DEF claimed
      <4>2. /\ tick'[k].task = u
            /\ tick'[k].pc = IF claimed THEN "log" ELSE "list"
            /\ tick'[k].cycle = IF claimed THEN tasks[u].cycleCount + 1 ELSE NoCycle
        BY <1>0, <4>1 DEF TypeOK, TickState
      <4> QED
        BY <1>3, <4>2
    <3>3. tasks[t].cycleCount \in Nat
      BY <1>0, RecordCounts DEF TypeOK
    <3> QED
      BY <3>2, <3>3 DEF IsFresh
  <2> QED
    BY <2>1, <2>2, <2>3, <2>4
<1> QED
  BY <1>1, <1>2, <1>3 DEF IsFresh

LEMMA RunsStep ==
    ASSUME IInv, RunsShaped, [Next]_vars
    PROVE  RunsShaped'
<1> SUFFICES ASSUME NEW t \in Tasks, NEW c \in Cycles, IsFresh(t, c)' PROVE runs'[t][c].status = "none"
  BY DEF RunsShaped
<1>0. TypeOK
  BY DEF IInv
<1>1. runs[t][c].status = "none"
  BY FreshStays DEF RunsShaped
<1>2. ASSUME job[t][c] \in {"check", "turn", "agent"}, job'[t][c] \notin FreshSteps, UNCHANGED <<tick, tasks>>
      PROVE  FALSE
  <2>1. c <= tasks[t].cycleCount
    BY <1>2 DEF IInv, JobsShaped
  <2>2. c \in Nat /\ tasks[t].cycleCount \in Nat
    BY <1>0, RecordCounts, CycleNumbers DEF TypeOK
  <2>3. PICK k \in Tickers : tick[k].pc = "log" /\ tick[k].task = t /\ tick[k].cycle = c
    BY <1>2, <2>1, <2>2 DEF IsFresh
  <2> QED
    BY <1>2, <2>3 DEF IInv, ClaimedNotStarted
<1> QED
  BY <1>0, <1>1, <1>2, RunFrames

\* A cycle that comes to executeScheduledTurn has no run yet: cycle numbers are
\* not used twice, over any number of crashes and reclaims.
THEOREM CyclesBeginFresh == Spec => []FreshCycleHasNoRun
<1>1. Init => RunsShaped
  BY DEF Init, RunsShaped, NoRunRecord
<1>2. IInv /\ RunsShaped /\ [Next]_vars => RunsShaped'
  BY RunsStep
<1>3. RunsShaped => FreshCycleHasNoRun
  BY DEF RunsShaped, FreshCycleHasNoRun, IsFresh, FreshSteps
<1> QED
  BY <1>1, <1>2, <1>3, InvariantHolds, PTL DEF Spec

-----------------------------------------------------------------------------
(* Workers. *)

LEMMA CyclesEnd ==
    ASSUME NEW k \in TaskRecord, NEW next, NEW terminal, NEW at
    PROVE  ~IsActive(CompletedCycle(k, next, at)) /\ ~IsActive(FailedCycle(k, next, terminal, at))
  BY DEF CompletedCycle, FailedCycle, ToTerminal, ToPending, ClearActiveState, TaskRecord, IsActive, ActiveStatuses

\* The runClaim call of an active cycle only ends, or goes on to what follows,
\* by closing the cycle.
LEMMA JobCloses ==
    ASSUME TypeOK, NEW t \in Tasks, NEW c \in Cycles, JobStep(t, c), HasActiveCycle(tasks[t], c),
           job[t][c] \in WorkingSteps \cup {"failing"}, job'[t][c] \notin WorkingSteps \cup {"failing"}
    PROVE  ~IsActive(tasks'[t])
<1>0. tasks[t] \in TaskRecord
  BY DEF TypeOK
<1>1. ASSUME NEW m, ~IsActive(m), Close(t, c, m) PROVE ~IsActive(tasks'[t])
  BY <1>1 DEF Close, SetTask, TypeOK
<1>2. CASE ReminderEnds(t, c) \/ WatchEnds(t, c) \/ TurnCloses(t, c)
  <2>1. \E next, terminal : \/ Close(t, c, CompletedCycle(tasks[t], next, now))
                            \/ Close(t, c, FailedCycle(tasks[t], next, terminal, now))
    BY <1>2 DEF ReminderEnds, WatchEnds, TurnCloses
  <2> QED
    BY <1>0, <1>1, <2>1, CyclesEnd
<1>3. CASE JobFails(t, c)
  BY <1>0, <1>3, CyclesEnd DEF JobFails, SetTask, TypeOK
<1>4. CASE JobDone(t, c)
  BY <1>4 DEF JobDone, WorkingSteps
<1>5. CASE RenewLease(t, c)
  BY <1>5 DEF RenewLease
<1>6. CASE \/ JobStart(t, c) \/ WakeStarts(t, c) \/ TurnCreatesRun(t, c) \/ TurnAttachesRun(t, c)
           \/ TurnBegins(t, c) \/ TurnEnds(t, c) \/ TurnCloseInvalid(t, c) \/ JobThrows(t, c)
  <2>1. \E pc \in WorkingSteps \cup {"failing"} : SetJob(t, c, pc)
    BY <1>6 DEF JobStart, WakeStarts, TurnCreatesRun, TurnAttachesRun, TurnBegins, TurnEnds,
       TurnCloseInvalid, JobThrows, WorkingSteps
  <2> QED
    BY <2>1 DEF SetJob, TypeOK
<1> QED
  BY <1>2, <1>3, <1>4, <1>5, <1>6 DEF JobStep

\* A tick that has claimed goes on to start the job, unless its log fails.
LEMMA LogKept ==
    ASSUME TypeOK, TicksExclude, ~LogMayFail, [Next]_vars, ~ProcessEnds, NEW k \in Tickers, tick[k].pc = "log"
    PROVE  tick'[k] = tick[k] \/ TickStart(k)
<1>0. ticking
  BY DEF TicksExclude, BusyTick
<1>1. ASSUME NEW l \in Tickers, BeginTick(l) PROVE tick'[k] = tick[k]
  BY <1>0, <1>1 DEF BeginTick, TypeOK
<1>2. CASE TimerFires \/ EventTick
  BY <1>1, <1>2 DEF TimerFires, EventTick, Tickers
<1>3. CASE EventArrives
  BY <1>3 DEF EventArrives, TypeOK
<1>4. CASE TickLogFails
  BY <1>4 DEF TickLogFails
<1>5. ASSUME NEW l \in Tickers, TickStep(l) PROVE tick'[k] = tick[k] \/ TickStart(k)
  <2>1. CASE l = k
    BY <1>5, <2>1 DEF TickStep, TickList, TickDone, TickClaim
  <2>2. CASE l # k
    BY <1>5, <2>2 DEF TickStep, TickList, TickDone, FinishTick, TickClaim, TickStart, TypeOK
  <2> QED
    BY <2>1, <2>2
<1>6. ASSUME NEW t \in Tasks, NEW c \in Cycles, JobStep(t, c) PROVE tick'[k] = tick[k]
  <2>1. CASE JobDone(t, c) \/ JobFails(t, c)
    BY <2>1 DEF JobDone, JobFails, tickVars
  <2>2. CASE ~JobDone(t, c) /\ ~JobFails(t, c)
    BY <1>6, <2>2, JobMoves DEF JobUnchanged, tickVars
  <2> QED
    BY <2>1, <2>2
<1>7. CASE \/ \E t \in Tasks : \/ ScheduleCheck(t) \/ ScheduleCreate(t) \/ EventNudge(t) \/ RecoverTask(t)
                               \/ \E own \in CancelCallers : CancelRequest(t, own) \/ CancelCommit(t, own)
           \/ Boot \/ RecoverDone \/ Stop \/ Advance \/ UNCHANGED vars
  BY <1>7 DEF ScheduleCheck, ScheduleCreate, EventNudge, RecoverTask, CancelRequest, CancelCommit,
     Boot, RecoverDone, Stop, Advance, vars, tickVars
<1>8. CASE Exit \/ Crash
  BY <1>8 DEF Exit, Crash
<1> QED
  BY <1>2, <1>3, <1>4, <1>5, <1>6, <1>7, <1>8 DEF Next

HasWorker(t) ==
    \/ job[t][tasks[t].activeCycleId] \in WorkingSteps \cup {"failing"}
    \/ \E k \in Tickers : tick[k].pc = "log" /\ tick[k].task = t

LEMMA WorkerStep ==
    ASSUME ~LogMayFail, IInv, KindsFixed, ClaimHasWorker, [Next]_vars
    PROVE  ClaimHasWorker'
<1> SUFFICES ASSUME NEW t \in Tasks, Up', IsActive(tasks'[t]), tasks'[t].claimOwner = inst'
             PROVE  HasWorker(t)'
  BY DEF ClaimHasWorker, HasWorker
<1>0. TypeOK
  BY DEF IInv
<1>1. ~ProcessEnds
  BY EndIsEmpty DEF Up
<1>2. ~Boot
  <2>1. SUFFICES ASSUME Boot PROVE FALSE
    OBVIOUS
  <2>2. inst' = inst + 1 /\ tasks'[t] = tasks[t]
    BY <2>1 DEF Boot, storeVars
  <2>3. tasks[t].claimOwner \in Nat /\ inst \in Nat /\ tasks[t].claimOwner <= inst
    BY <1>0, RecordCounts, EngineConstants DEF TypeOK, IInv, OwnersKnown
  <2> QED
    BY <2>2, <2>3
<1>3. inst' = inst /\ Up
  BY <1>1, <1>2, RecoverFrames
<1>4. CASE ~IsActive(tasks[t]) /\ \E k \in Tickers : ClaimedBy(t, k)
  <2>1. PICK k \in Tickers : TickClaim(k) /\ tick[k].task = t
    BY <1>4 DEF ClaimedBy
  <2>2. ClaimResult(tasks[t], tick[k].stamp, now) = "claimed"
    <3>1. tasks'[t] = AfterClaim(tasks[t], tick[k].stamp, inst, now)
      BY <1>0, <2>1 DEF TickClaim, SetTask, TypeOK
    <3>2. ~IsActive(ToTerminal(tasks[t], "expired", now))
      BY <1>0 DEF ToTerminal, ClearActiveState, TypeOK, TaskRecord, IsActive, ActiveStatuses
    <3> QED
      BY <1>4, <3>1, <3>2 DEF AfterClaim
  <2>3. tick'[k].pc = "log" /\ tick'[k].task = t
    BY <1>0, <2>1, <2>2 DEF TickClaim, TypeOK, TickState
  <2> QED
    BY <2>3 DEF HasWorker
<1>5. CASE /\ IsActive(tasks[t]) /\ tasks'[t].claimOwner = tasks[t].claimOwner
           /\ tasks'[t].activeCycleId = tasks[t].activeCycleId
  <2> DEFINE c == tasks[t].activeCycleId
  <2>1. HasWorker(t) /\ HasActiveCycle(tasks[t], c) /\ c \in Cycles
    <3>1. c # NoCycle /\ c \in CycleCounts
      BY <1>0, <1>5 DEF IInv, TasksShaped, Shaped, TypeOK, TaskRecord
    <3> QED
      BY <1>3, <1>5, <3>1 DEF ClaimHasWorker, HasWorker, HasActiveCycle, CycleCounts, Cycles, NoCycle
  <2>2. CASE job[t][c] \in WorkingSteps \cup {"failing"}
    <3>1. job'[t][c] \in WorkingSteps \cup {"failing"}
      <4>1. CASE \E u \in Tasks, d \in Cycles : JobStep(u, d)
        <5>1. PICK u \in Tasks, d \in Cycles : JobStep(u, d)
          BY <4>1
        <5>2. CASE u = t /\ d = c
          BY <1>0, <2>1, <2>2, <5>1, <5>2, JobCloses
        <5>3. CASE ~(u = t /\ d = c)
          <6>1. \E pc : UNCHANGED job \/ SetJob(u, d, pc)
            BY <5>1, JobMoves DEF JobDone, JobFails, EndJob
          <6> QED
            BY <1>0, <2>1, <2>2, <5>3, <6>1 DEF SetJob, TypeOK
        <5> QED
          BY <5>2, <5>3
      <4>2. CASE \E k \in Tickers : TickStart(k)
        <5>1. PICK k \in Tickers : TickStart(k)
          BY <4>2
        <5>2. job'[t][c] \in {job[t][c], "start"}
          BY <1>0, <2>1, <5>1 DEF TickStart, SetJob, TypeOK
        <5> QED
          BY <2>2, <5>2 DEF WorkingSteps
      <4>3. CASE ~(\E u \in Tasks, d \in Cycles : JobStep(u, d)) /\ ~(\E k \in Tickers : TickStart(k))
        <5>1. UNCHANGED job
          BY <1>1, <4>3 DEF Next, ScheduleCheck, ScheduleCreate, EventNudge, RecoverTask, CancelRequest, CancelCommit,
             TimerFires, TickLogFails, EventArrives, EventTick, TickStep, TickList, TickDone, TickClaim,
             Boot, RecoverDone, Stop, Exit, Crash, Advance, vars, jobVars
        <5> QED
          BY <2>2, <5>1
      <4> QED
        BY <4>1, <4>2, <4>3
    <3> QED
      BY <1>5, <3>1 DEF HasWorker
  <2>3. ASSUME NEW k \in Tickers, tick[k].pc = "log", tick[k].task = t PROVE HasWorker(t)'
    <3>1. CASE tick'[k] = tick[k]
      BY <2>3, <3>1 DEF HasWorker
    <3>2. CASE TickStart(k)
      <4>1. tick[k].cycle = c
        BY <1>5, <2>3 DEF IInv, ClaimedNotStarted, Owns, OwnedBy, HasActiveCycle, IsActive, ActiveStatuses
      <4>2. job'[t][c] = "start"
        BY <1>0, <2>1, <2>3, <3>2, <4>1 DEF TickStart, SetJob, TypeOK
      <4> QED
        BY <1>5, <4>2 DEF HasWorker, WorkingSteps
    <3> QED
      BY <1>0, <1>1, <2>3, <3>1, <3>2, LogKept DEF IInv
  <2> QED
    BY <2>1, <2>2, <2>3 DEF HasWorker
<1> QED
  BY <1>4, <1>5, ClaimsPersist

\* As long as the run log takes its entries, a claim of the living process has
\* a tick or a job that will close it; a claim of an earlier one still had its
\* lease when recovery looked; and a claimed cycle has no run of old.
THEOREM ClaimsAttended == ASSUME ~LogMayFail PROVE Spec => []ClaimsAreAttended
<1>1. Init => ClaimHasWorker
  BY DEF Init, ClaimHasWorker, Up
<1>2. IInv /\ KindsFixed /\ ClaimHasWorker /\ [Next]_vars => ClaimHasWorker'
  BY WorkerStep
<1>3. Spec => []ClaimHasWorker
  BY <1>1, <1>2, KindsHold, InvariantHolds, PTL DEF Spec
<1>4. ClaimHasWorker /\ RecoverySweepsExpired /\ FreshCycleHasNoRun => ClaimsAreAttended
  BY DEF ClaimsAreAttended
<1> QED
  BY <1>3, <1>4, RecoverySwept, CyclesBeginFresh, PTL
=============================================================================
