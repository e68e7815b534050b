----------------------------- MODULE TaskStore -----------------------------
(***************************************************************************)
(* The durable scheduler task of src/scheduler/taskStore.ts and the        *)
(* mutations the store applies to it.  Every mutation runs under           *)
(* mutationTail and tasks.lock and replaces tasks.json by a rename, so one *)
(* mutation is one operator from a task record to a task record and one    *)
(* atomic step of the modules that use it.                                 *)
(*                                                                         *)
(* Timestamps are natural numbers, an optional field that is undefined is  *)
(* one of the No... values below.  A cycleId "<taskId>:<n>" is the number  *)
(* n, a runId is the number of the cycle the run was created for, and      *)
(* instance ids are numbered in the order in which processes start.        *)
(* Labels, texts, digests and error codes are left out.                    *)
(***************************************************************************)
EXTENDS Integers

CONSTANTS
    CycleLimit,             \* SCHEDULER_MAX_CYCLES
    ClaimLease,             \* SCHEDULER_CLAIM_LEASE_MS
    MinDelay,               \* SCHEDULER_MIN_DELAY_MS
    MaxHorizon,             \* SCHEDULER_MAX_HORIZON_MS
    DefaultWatchLifetime,   \* SCHEDULER_DEFAULT_WATCH_LIFETIME_MS
    MaxWatchLifetime        \* SCHEDULER_MAX_WATCH_LIFETIME_MS

ASSUME StoreConstants ==
    /\ CycleLimit \in Nat \ {0}
    /\ ClaimLease \in Nat \ {0}
    /\ MinDelay \in Nat
    /\ MaxHorizon \in Nat
    /\ DefaultWatchLifetime \in Nat
    /\ MaxWatchLifetime \in Nat

NoTime  == -1
NoCycle == 0
NoRun   == 0
NoOwner == 0

Kinds  == {"reminder", "wake_turn", "watch", "event_subscription"}
Cycles == 1..CycleLimit

\* NoCycle and NoRun included.
CycleCounts  == 0..CycleLimit
OptionalTime == Nat \cup {NoTime}

ActiveStatuses   == {"claimed", "running"}
TerminalStatuses == {"completed", "failed", "cancelled", "expired"}

\* "absent" stands for a task that is not (yet) in the snapshot.
Statuses == {"absent", "pending"} \cup ActiveStatuses \cup TerminalStatuses

TaskRecord ==
    [ kind                : Kinds,
      status              : Statuses,
      dueAt               : Nat,
      expiresAt           : OptionalTime,
      interval            : Nat,
      maxCycles           : Cycles,
      cycleCount          : CycleCounts,
      consecutiveFailures : CycleCounts,
      activeCycleId       : CycleCounts,
      activeRunId         : CycleCounts,
      claimOwner          : Nat,
      leaseExpiresAt      : OptionalTime,
      updatedAt           : Nat ]

\* The part of a schedule request that the store's checks and steps read.
\* lifetime = NoTime is a request without expiresAt; interval = 0 is one
\* without intervalSeconds.
TaskRequest ==
    [ kind      : Kinds,
      delay     : Nat,
      lifetime  : OptionalTime,
      interval  : Nat,
      maxCycles : Cycles,
      principal : STRING,
      matches   : BOOLEAN ]

IsTerminal(k) == k.status \in TerminalStatuses
IsActive(k)   == k.status \in ActiveStatuses
IsOpen(k)     == k.status # "absent" /\ ~IsTerminal(k)

\* Mutant: any active cycle will do.
HasSomeActiveCycle(k, c) == IsActive(k)

\* requireActiveCycle: what completeCycle, failCycle and markRunning demand.
HasActiveCycle(k, c) == k.activeCycleId = c /\ IsActive(k)

ClearActiveState(k) ==
    [k EXCEPT !.activeCycleId  = NoCycle,
              !.activeRunId    = NoRun,
              !.claimOwner     = NoOwner,
              !.leaseExpiresAt = NoTime]

ToTerminal(k, status, now) ==
    [ClearActiveState(k) EXCEPT !.status = status, !.updatedAt = now]

ToPending(k, due, now) ==
    [ClearActiveState(k) EXCEPT !.status = "pending", !.dueAt = due, !.updatedAt = now]

\* Neither completion nor retry may put a task back at or past its expiry.
NotBeforeExpiry(k, at) == k.expiresAt # NoTime /\ at >= k.expiresAt

-----------------------------------------------------------------------------
\* create: the checks it throws on, and the record it pushes.
RequestExpiry(r, now) ==
    IF r.lifetime # NoTime THEN now + r.lifetime
    ELSE IF r.kind = "watch" THEN now + DefaultWatchLifetime
    ELSE NoTime

ValidRequest(r) ==
    /\ r.delay >= MinDelay
    /\ r.delay <= MaxHorizon
    /\ r.lifetime # NoTime => r.lifetime > r.delay
    /\ (r.kind = "watch" /\ r.lifetime # NoTime) => r.lifetime <= MaxWatchLifetime

NewTask(r, now) ==
    [ kind |-> r.kind, status |-> "pending", dueAt |-> now + r.delay,
      expiresAt |-> RequestExpiry(r, now), interval |-> r.interval,
      maxCycles |-> r.maxCycles, cycleCount |-> 0, consecutiveFailures |-> 0,
      activeCycleId |-> NoCycle, activeRunId |-> NoRun, claimOwner |-> NoOwner,
      leaseExpiresAt |-> NoTime, updatedAt |-> now ]

AbsentTask(r) == [NewTask(r, 0) EXCEPT !.status = "absent"]

-----------------------------------------------------------------------------
\* Mutant: the cycle cap is off by one.
ClaimResultOffByOne(k, stamp, now) ==
    IF k.status = "absent"           THEN "not_found"
    ELSE IF k.updatedAt # stamp      THEN "stale_update"
    ELSE IF k.status # "pending"     THEN "not_pending"
    ELSE IF k.dueAt > now            THEN "not_due"
    ELSE IF NotBeforeExpiry(k, now)  THEN "expired"
    ELSE IF k.cycleCount > k.maxCycles THEN "cycle_limit"
    ELSE "claimed"

\* claim: the reason of a refusal, in the order of the code's early returns.
ClaimResult(k, stamp, now) ==
    IF k.status = "absent"           THEN "not_found"
    ELSE IF k.updatedAt # stamp      THEN "stale_update"
    ELSE IF k.status # "pending"     THEN "not_pending"
    ELSE IF k.dueAt > now            THEN "not_due"
    ELSE IF NotBeforeExpiry(k, now)  THEN "expired"
    ELSE IF k.cycleCount >= k.maxCycles THEN "cycle_limit"
    ELSE "claimed"

\* Mutant: a reclaimed task keeps its cycle number.
ClaimedAgain(k, owner, now) ==
    LET n == IF k.cycleCount = 0 THEN 1 ELSE k.cycleCount IN
    [k EXCEPT !.cycleCount     = n,
              !.activeCycleId  = n,
              !.activeRunId    = NoRun,
              !.claimOwner     = owner,
              !.leaseExpiresAt = now + ClaimLease,
              !.status         = "claimed",
              !.updatedAt      = now]

Claimed(k, owner, now) ==
    [k EXCEPT !.cycleCount     = k.cycleCount + 1,
              !.activeCycleId  = k.cycleCount + 1,
              !.activeRunId    = NoRun,
              !.claimOwner     = owner,
              !.leaseExpiresAt = now + ClaimLease,
              !.status         = "claimed",
              !.updatedAt      = now]

\* The record claim leaves behind, whatever it returns.
AfterClaim(k, stamp, owner, now) ==
    LET result == ClaimResult(k, stamp, now) IN
    IF result = "claimed" THEN Claimed(k, owner, now)
    ELSE IF result \in {"expired", "cycle_limit"} THEN ToTerminal(k, "expired", now)
    ELSE k

\* Mutant: the status of the task is not looked at.
CanMarkRunningUnchecked(k, c, owner) == k.status # "absent"

CanMarkRunning(k, c, owner) == HasActiveCycle(k, c) /\ k.claimOwner = owner

\* markRunning; run = NoRun is the call without a runId.
MarkedRunning(k, run, now) ==
    [k EXCEPT !.status      = "running",
              !.activeRunId = IF run = NoRun THEN k.activeRunId ELSE run,
              !.updatedAt   = now]

CanRenew(k, c, owner) == HasActiveCycle(k, c) /\ k.claimOwner = owner

Renewed(k, now) == [k EXCEPT !.leaseExpiresAt = now + ClaimLease, !.updatedAt = now]

\* completeCycle; next = NoTime is the call without nextDueAt.
CompletedCycle(k, next, now) ==
    LET counted == [k EXCEPT !.consecutiveFailures = 0] IN
    IF next = NoTime \/ k.cycleCount >= k.maxCycles \/ NotBeforeExpiry(k, next)
    THEN ToTerminal(counted, "completed", now)
    ELSE ToPending(counted, next, now)

\* failCycle; retry = NoTime is the call without retryAt.
FailedCycle(k, retry, terminal, now) ==
    LET counted == [k EXCEPT !.consecutiveFailures =
                      IF k.consecutiveFailures < CycleLimit
                      THEN k.consecutiveFailures + 1 ELSE CycleLimit] IN
    IF terminal \/ retry = NoTime \/ k.cycleCount >= k.maxCycles \/ NotBeforeExpiry(k, retry)
    THEN ToTerminal(counted, "failed", now)
    ELSE ToPending(counted, retry, now)

Cancelled(k, now) == IF IsTerminal(k) THEN k ELSE ToTerminal(k, "cancelled", now)

Nudged(k, due, now) ==
    IF k.status = "pending" THEN [k EXCEPT !.dueAt = due, !.updatedAt = now] ELSE k

\* reconcile, for the actions the engine asks for: a task whose active cycle
\* is no longer the one in the caller's snapshot is left alone.
Reconciled(k, c, action, due, now) ==
    IF k.activeCycleId # c THEN k
    ELSE IF action = "reclaim" THEN ToPending(k, due, now)
    ELSE ToTerminal(k, IF action = "complete" THEN "completed" ELSE "failed", now)
=============================================================================
