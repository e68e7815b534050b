----------------------------- MODULE Deliveries -----------------------------
(***************************************************************************)
(* Outbound messages of the scheduler: the delivery ledger of              *)
(* src/scheduler/deliveryStore.ts and the three loops that use it, those   *)
(* of reminder.ts, of WatchExecutor.notify and of the engine's             *)
(* deliverWakeExplanation, in a process that may crash and restart.        *)
(* Each loop works under a claimed cycle of a task (module TaskStore; the  *)
(* engine around it is module SchedulerEngine).  Time is left out: every   *)
(* timestamp is 0, a pending task is due, and recovery decides freely      *)
(* which leases have expired.                                              *)
(*                                                                         *)
(* A ledger mutation is one step: mutationTail serialises the mutations of *)
(* a process and the rename publishes the record.  Only a crash can tell   *)
(* its parts apart, see CrashInMutation.                                   *)
(***************************************************************************)
EXTENDS TaskStore, FiniteSets

CONSTANTS
    Tasks,          \* ids of the tasks
    Mixes,          \* which of them have been scheduled
    Kind,           \* Kind[t]
    Recurring,      \* tasks that are rescheduled when a cycle completes
    Telegram,       \* tasks whose destination is a telegram chat; others: web
    MaxCycles,      \* MaxCycles[t]: maxCycles of the task
    MaxAttempts,    \* attempts to send per cycle
    SendsMayFail,   \* whether a message may not get through
    AnswersGetLost, \* whether a message may get through and the call fail
    WritesMayFail,  \* whether a ledger mutation may throw
    LeasesMayHold,  \* whether recovery may find a lease not yet expired
    MaxBoots        \* bound: number of process starts

ASSUME DeliveryConstants ==
    /\ Mixes \subseteq SUBSET Tasks
    /\ Kind \in [Tasks -> Kinds]
    /\ Recurring \subseteq Tasks /\ Telegram \subseteq Tasks
    /\ MaxCycles \in [Tasks -> Cycles]
    /\ MaxAttempts \in Nat \ {0} /\ MaxBoots \in Nat
    /\ {SendsMayFail, AnswersGetLost, WritesMayFail, LeasesMayHold} \subseteq BOOLEAN

VARIABLES
    alive,      \* whether the process runs
    inst,       \* its instance id
    tasks,      \* tasks.json
    ledger,     \* deliveries.json: the delivery of each cycle of each task
    orphan,     \* deliveries.lock was left behind by a crashed process
    job,        \* the loop of each cycle
    sent,       \* messages that reached the chat or the activity log
    faults      \* lost answers and failed ledger mutations met on the way

vars == <<alive, inst, tasks, ledger, orphan, job, sent, faults>>

Jobs     == Tasks \X Cycles
Delivery == [status : {"absent", "pending", "sending", "delivered", "failed"},
             attempts : 0..MaxAttempts]

\* Steps of a loop.  In MutationSteps the next step is a ledger mutation.
MutationSteps == {"ensure", "claim", "markDelivered", "markFailed"}
JobSteps == MutationSteps \cup {"none", "turn", "get", "send", "sendPlain", "complete", "throw"}
Job      == [pc : JobSteps, attempt : 0..MaxAttempts]
NoJob    == [pc |-> "none", attempt |-> 0]

AsWake(t) == Kind[t] \in {"wake_turn", "event_subscription"}

NewReminder(t) ==
    AbsentTask([kind |-> Kind[t], delay |-> 0, lifetime |-> NoTime, interval |-> 0,
                maxCycles |-> MaxCycles[t], principal |-> "p", matches |-> FALSE])

Init ==
    /\ alive = FALSE /\ inst = 0
    /\ \E mix \in Mixes :
         tasks = [t \in Tasks |-> [NewReminder(t) EXCEPT !.status = IF t \in mix THEN "pending" ELSE "absent"]]
    /\ ledger = [j \in Jobs |-> [status |-> "absent", attempts |-> 0]]
    /\ orphan = FALSE
    /\ job = [j \in Jobs |-> NoJob]
    /\ sent = [j \in Jobs |-> 0] /\ faults = [j \in Jobs |-> 0]

Go(j, pc)        == job' = [job EXCEPT ![j].pc = pc]
Leave(j)         == job' = [job EXCEPT ![j] = NoJob]
SetTask(t, k)    == tasks' = [tasks EXCEPT ![t] = k]
ClosesOr(t, c, k) == SetTask(t, IF HasActiveCycle(tasks[t], c) THEN k ELSE tasks[t])

-----------------------------------------------------------------------------
(* The ledger. *)

\* claimSending returns undefined for any other status.
CanSend(d, retryFailed) ==
    d.status = "pending" \/ (d.status = "failed" /\ retryFailed)

\* WatchExecutor.notify retries failed deliveries at once.
RetryFailed(j) == Kind[j[1]] = "watch" \/ job[j].attempt > 0

\* The record of j after the mutation its loop is about to make.
Mutated(j) ==
    LET d == ledger[j] IN
    CASE job[j].pc = "ensure" ->
            IF d.status = "absent" THEN [d EXCEPT !.status = "pending"] ELSE d
      [] job[j].pc = "claim" ->
            IF CanSend(d, RetryFailed(j))
            THEN [status |-> "sending", attempts |-> d.attempts + 1] ELSE d
      [] job[j].pc = "markDelivered" -> [d EXCEPT !.status = "delivered"]
      [] job[j].pc = "markFailed"    -> [d EXCEPT !.status = "failed"]

\* withLock waits for an orphaned lock 200 times and then throws.
MutationSucceeds(j) ==
    /\ ~orphan
    /\ ledger' = [ledger EXCEPT ![j] = Mutated(j)]
    /\ UNCHANGED <<alive, inst, orphan, sent, faults>>

MutationThrows(j) ==
    /\ orphan \/ (WritesMayFail /\ faults[j] < MaxAttempts)
    /\ faults' = [faults EXCEPT ![j] = faults[j] + 1]
    /\ UNCHANGED <<alive, inst, tasks, ledger, orphan, sent>>

-----------------------------------------------------------------------------
(* The loops. *)

\* SchedulerEngine.tick claims a due task and starts runClaim.
Claim(t) ==
    LET c == tasks[t].cycleCount + 1 IN
    /\ alive /\ tasks[t].status = "pending"
    /\ SetTask(t, AfterClaim(tasks[t], 0, inst, 0))
    /\ IF ClaimResult(tasks[t], 0, 0) = "claimed"
       THEN Go(<<t, c>>, IF AsWake(t) THEN "turn" ELSE "ensure")
       ELSE UNCHANGED job
    /\ UNCHANGED <<alive, inst, ledger, orphan, sent, faults>>

Next0(t) == IF t \in Recurring THEN 0 ELSE NoTime

\* A wake turn closes its cycle before its explanation, if any, is delivered.
Turn(j) ==
    LET t == j[1] IN
    /\ job[j].pc = "turn"
    /\ \/ ClosesOr(t, j[2], CompletedCycle(tasks[t], Next0(t), 0)) /\ Go(j, "ensure")
       \/ ClosesOr(t, j[2], FailedCycle(tasks[t], NoTime, TRUE, 0)) /\ Leave(j)
    /\ UNCHANGED <<alive, inst, ledger, orphan, sent, faults>>

Ensure(j) ==
    /\ job[j].pc = "ensure"
    /\ MutationSucceeds(j)
    /\ Go(j, IF ledger[j].status = "delivered" THEN "complete"
             ELSE IF Kind[j[1]] = "watch" THEN "claim" ELSE "get")
    /\ UNCHANGED tasks

Get(j) ==
    /\ job[j].pc = "get"
    /\ Go(j, IF ledger[j].status = "delivered" THEN "complete" ELSE "claim")
    /\ UNCHANGED <<alive, inst, tasks, ledger, orphan, sent, faults>>

\* Mutant: one attempt too many.
OneAttemptMore(j) ==
    IF job[j].attempt < MaxAttempts
    THEN job' = [job EXCEPT ![j] = [pc |-> "get", attempt |-> job[j].attempt + 1]]
    ELSE Go(j, "throw")

\* The attempt after this one, or the end of the loop.
NextAttempt(j) ==
    IF job[j].attempt + 1 < MaxAttempts
    THEN job' = [job EXCEPT ![j] = [pc |-> "get", attempt |-> job[j].attempt + 1]]
    ELSE Go(j, "throw")

\* When the claim is refused the reminder looks again, the watch gives up and
\* the explanation tries again.
ClaimSending(j) ==
    /\ job[j].pc = "claim"
    /\ MutationSucceeds(j)
    /\ IF CanSend(ledger[j], RetryFailed(j)) THEN Go(j, "send")
       ELSE IF AsWake(j[1]) THEN NextAttempt(j)
       ELSE IF Kind[j[1]] = "watch" THEN Go(j, "throw")
       ELSE IF ledger[j].status = "delivered" THEN Go(j, "complete")
       ELSE IF ledger[j].status = "sending" THEN NextAttempt(j)
       ELSE Go(j, "throw")
    /\ UNCHANGED tasks

\* One call of the transport, telegram's twice: after any failure the message
\* is sent again without Markdown.
Transport(j, delivered) ==
    LET failed == IF job[j].pc = "send" /\ j[1] \in Telegram THEN "sendPlain" ELSE "markFailed" IN
    /\ \/ /\ sent' = [sent EXCEPT ![j] = sent[j] + 1]
          /\ Go(j, delivered)
          /\ UNCHANGED faults
       \/ /\ SendsMayFail
          /\ Go(j, failed)
          /\ UNCHANGED <<sent, faults>>
       \/ /\ AnswersGetLost /\ j[1] \in Telegram
          /\ sent' = [sent EXCEPT ![j] = sent[j] + 1]
          /\ faults' = [faults EXCEPT ![j] = faults[j] + 1]
          /\ Go(j, failed)
    /\ UNCHANGED <<alive, inst, tasks, ledger, orphan>>

\* Mutant: the fallback is sent after a success too.
SendTwice(j) ==
    \/ job[j].pc = "send" /\ Transport(j, "sendPlain")
    \/ job[j].pc = "sendPlain" /\ Transport(j, "markDelivered")

Send(j) == job[j].pc \in {"send", "sendPlain"} /\ Transport(j, "markDelivered")

\* Mutant: a delivery that could not be recorded counts as made.
MarkDeliveredUnchecked(j) ==
    /\ job[j].pc = "markDelivered"
    /\ (MutationSucceeds(j) \/ MutationThrows(j)) /\ Go(j, "complete")
    /\ UNCHANGED tasks

MarkDelivered(j) ==
    /\ job[j].pc = "markDelivered"
    /\ \/ MutationSucceeds(j) /\ Go(j, "complete")
       \/ MutationThrows(j) /\ Go(j, "markFailed")
    /\ UNCHANGED tasks

MarkFailed(j) ==
    /\ job[j].pc = "markFailed"
    /\ MutationSucceeds(j)
    /\ IF Kind[j[1]] = "watch" THEN Go(j, "throw") ELSE NextAttempt(j)
    /\ UNCHANGED tasks

\* A mutation outside the inner try: runClaim's catch block takes over.
LoopThrows(j) ==
    /\ job[j].pc \in MutationSteps \ {"markDelivered"}
    /\ MutationThrows(j)
    /\ Go(j, "throw")

\* The cycle is closed after the delivery.  completeCycle throws when the
\* cycle is no longer active, and so does the failCycle that follows.  The
\* target of a watch may have failed.
Complete(j) ==
    LET t == j[1] IN
    /\ job[j].pc = "complete"
    /\ IF AsWake(t) THEN UNCHANGED tasks
       ELSE \/ ClosesOr(t, j[2], CompletedCycle(tasks[t], Next0(t), 0))
            \/ /\ Kind[t] = "watch"
               /\ ClosesOr(t, j[2], FailedCycle(tasks[t], NoTime, TRUE, 0))
    /\ Leave(j)
    /\ UNCHANGED <<alive, inst, ledger, orphan, sent, faults>>

\* Mutant: the cycle is left as it is.
ThrowUnrecorded(j) ==
    /\ job[j].pc = "throw" /\ Leave(j)
    /\ UNCHANGED <<alive, inst, tasks, ledger, orphan, sent, faults>>

\* Attempts exhausted, or an exception: the cycle fails for good.  A wake has
\* closed its cycle already.
Throw(j) ==
    /\ job[j].pc = "throw"
    /\ ClosesOr(j[1], j[2], FailedCycle(tasks[j[1]], NoTime, TRUE, 0))
    /\ Leave(j)
    /\ UNCHANGED <<alive, inst, ledger, orphan, sent, faults>>

LoopStep(j) ==
    \/ Turn(j) \/ Ensure(j) \/ Get(j) \/ ClaimSending(j) \/ Send(j)
    \/ MarkDelivered(j) \/ MarkFailed(j) \/ LoopThrows(j) \/ Complete(j) \/ Throw(j)

-----------------------------------------------------------------------------
(* The process and its users. *)

Cancel(t) ==
    /\ alive /\ tasks[t].status # "absent"
    /\ SetTask(t, Cancelled(tasks[t], 0))
    /\ UNCHANGED <<alive, inst, ledger, orphan, job, sent, faults>>

\* start: recover() takes back the claims whose lease has expired.  No run
\* record is looked at: reminders and notifying watches have none, and a
\* wake's cycle is closed when its loop begins.
Boot ==
    /\ ~alive /\ inst < MaxBoots
    /\ alive' = TRUE /\ inst' = inst + 1
    /\ \E expired \in SUBSET Tasks :
         /\ LeasesMayHold \/ expired = Tasks
         /\ tasks' = [t \in Tasks |->
              IF t \in expired /\ IsActive(tasks[t])
              THEN Reconciled(tasks[t], tasks[t].activeCycleId, "reclaim", 0, 0)
              ELSE tasks[t]]
    /\ UNCHANGED <<ledger, orphan, job, sent, faults>>

Down ==
    /\ alive /\ alive' = FALSE
    /\ job' = [j \in Jobs |-> NoJob]
    /\ UNCHANGED <<inst, tasks, sent, faults>>

Crash == Down /\ UNCHANGED <<ledger, orphan>>

\* A crash between the creation of deliveries.lock and its removal, before or
\* after the rename: the lock stays, and nothing ever looks at its owner.
CrashInMutation(j) ==
    /\ job[j].pc \in MutationSteps /\ ~orphan
    /\ orphan' = TRUE
    /\ ledger' \in {ledger, [ledger EXCEPT ![j] = Mutated(j)]}
    /\ Down

Next ==
    \/ Boot \/ Crash
    \/ \E t \in Tasks : Claim(t) \/ Cancel(t)
    \/ \E j \in Jobs : LoopStep(j) \/ CrashInMutation(j)

Spec == Init /\ [][Next]_vars

\* The engine ticks, awaits return, the process is started again.  Nothing is
\* assumed of crashes, users and the transport.
Fairness ==
    /\ WF_vars(Boot)
    /\ \A t \in Tasks : WF_vars(Claim(t))
    /\ \A j \in Jobs : WF_vars(LoopStep(j))

FairSpec == Spec /\ Fairness

-----------------------------------------------------------------------------
(* Properties. *)

\* Every variable has its type; sends are counted, two per attempt at most.
TypeOK ==
    /\ alive \in BOOLEAN /\ inst \in 0..MaxBoots
    /\ tasks \in [Tasks -> TaskRecord]
    /\ ledger \in [Jobs -> Delivery]
    /\ orphan \in BOOLEAN
    /\ job \in [Jobs -> Job]
    /\ sent \in [Jobs -> 0..(2 * MaxAttempts)]
    /\ faults \in [Jobs -> Nat]

\* A reminder that is completed was delivered by its last cycle and reached
\* its destination; one that has failed was not delivered by it: no retry,
\* crash, reclaim or failed mutation separates the task from its delivery.
OutcomeMatchesLedger ==
    \A t \in Tasks :
        LET last == <<t, tasks[t].cycleCount>> IN
        Kind[t] = "reminder" =>
            /\ tasks[t].status = "completed" => ledger[last].status = "delivered" /\ sent[last] > 0
            /\ tasks[t].status = "failed" => ledger[last].status # "delivered"

\* The ledger is written before and after sending: a message that has reached
\* its destination belongs to a recorded attempt, whatever crashes.
SendsAreRecorded ==
    \A j \in Jobs :
        /\ sent[j] <= 2 * ledger[j].attempts
        /\ ledger[j].status = "delivered" => sent[j] > 0

\* Task, ledger and destination agree.
LedgerIsTrue == OutcomeMatchesLedger /\ SendsAreRecorded

\* One delivery repeats its message only because an answer was lost or the
\* record of it could not be written, once for each time: retries, Markdown
\* fallback, crashes and restarts alone never repeat it.
RepeatsNeedAFault ==
    \A j \in Jobs : sent[j] <= 1 + faults[j]

\* Every loop ends and settles the cycle it works for, and no due task waits
\* for ever, while the process lives: failed sends, thrown mutations, refused
\* claims and cancellations all lead out.  (A claim that a crash left behind
\* is another matter, see ClaimsAreClosed of SchedulerEngine.)
LoopsEnd ==
    <>[]alive => \A t \in Tasks :
        <>[](/\ tasks[t].status # "pending"
             /\ IsActive(tasks[t]) => tasks[t].claimOwner # inst
             /\ \A c \in Cycles : job[<<t, c>>].pc = "none")

-----------------------------------------------------------------------------
(* What the design documents say and the code does not do. *)

\* Recovery matrix: a crash before the notification is sent retries the same
\* delivery id, so a one-shot reminder has one delivery.
OneDeliveryPerReminder ==
    \A t \in Tasks \ Recurring : Kind[t] = "reminder" =>
        Cardinality({c \in Cycles : ledger[<<t, c>>].status # "absent"}) <= 1

\* Section 8.4: recovery retries only unresolved deliveries, so a reminder
\* recorded as delivered is not sent again.
DeliveredIsNotResent ==
    [][\A t \in Tasks \ Recurring, c \in Cycles :
         (Kind[t] = "reminder" /\ ledger[<<t, c>>].status = "delivered") =>
             \A d \in Cycles : sent'[<<t, d>>] = sent[<<t, d>>]]_vars

\* Section 8.5: unresolved notification deliveries are retried at startup.
UnresolvedIsRetried ==
    <>[]alive => \A j \in Jobs : []<>(ledger[j].status \notin {"pending", "sending"})

\* Acceptance scenario A: after a restart recovery sends the due reminder.
DueReminderIsSent ==
    <>[]alive => \A t \in Tasks : Kind[t] = "reminder" =>
        <>(tasks[t].status = "cancelled" \/ \E c \in Cycles : sent[<<t, c>>] > 0)
=============================================================================
