-------------------------- MODULE TaskStoreProofs --------------------------
(***************************************************************************)
(* Lemmas about the mutations of TaskStore, for the proofs about the       *)
(* modules that use it: each keeps the record's type and shape, and        *)
(* changes it in one of a few ways.                                        *)
(***************************************************************************)
EXTENDS TaskStore, TLAPS

\* A task is active exactly while it names an active cycle, which is then the
\* latest one; whatever is not active has no owner; a task that does not exist
\* has spent no cycle.
Shaped(k) ==
    /\ IsActive(k) <=> k.activeCycleId # NoCycle
    /\ IsActive(k) => k.activeCycleId = k.cycleCount
    /\ ~IsActive(k) => k.claimOwner = NoOwner
    /\ k.cycleCount <= k.maxCycles
    /\ k.status = "absent" => k.cycleCount = 0

-----------------------------------------------------------------------------
(* How one store mutation may change a record. *)

\* The record stays in its stage: a renewal, a start, a nudge.
Stays(k, m) ==
    /\ m.cycleCount = k.cycleCount
    /\ m.activeCycleId = k.activeCycleId
    /\ m.claimOwner = k.claimOwner
    /\ \/ IsActive(k) /\ IsActive(m)
       \/ k.status = "pending" /\ m.status = "pending"

\* An open task is put back, or reaches a terminal status.
Leaves(k, m) ==
    /\ m.cycleCount = k.cycleCount
    /\ \/ IsActive(k) /\ m.status = "pending"
       \/ (IsActive(k) \/ k.status = "pending") /\ IsTerminal(m)

\* The next cycle of a pending task is claimed by owner.
Takes(k, m, owner) ==
    /\ k.status = "pending" /\ m.status = "claimed"
    /\ m.cycleCount = k.cycleCount + 1
    /\ m.claimOwner = owner

Creates(k, m) == k.status = "absent" /\ m.status = "pending" /\ m.cycleCount = 0

Sound(k, m) ==
    /\ m \in TaskRecord
    /\ Shaped(m)
    /\ m.maxCycles = k.maxCycles

-----------------------------------------------------------------------------
(* Types. *)

\* The operators of the store keep records well-formed; Zenon only has to
\* compare fields, the ranges of the new values are facts of their own.
LEMMA NoValues ==
    /\ NoCycle \in CycleCounts /\ NoRun \in CycleCounts
    /\ NoOwner \in Nat /\ NoTime \in OptionalTime
    /\ Nat \subseteq OptionalTime /\ Cycles \subseteq CycleCounts
    /\ TerminalStatuses \subseteq Statuses /\ ActiveStatuses \subseteq Statuses
    /\ "pending" \in Statuses /\ "absent" \in Statuses
  BY StoreConstants DEF CycleCounts, OptionalTime, NoCycle, NoRun, NoOwner, NoTime, Cycles,
     Statuses, TerminalStatuses, ActiveStatuses

LEMMA ToTerminalType ==
    ASSUME NEW k \in TaskRecord, NEW s \in Statuses, NEW at \in Nat
    PROVE  ToTerminal(k, s, at) \in TaskRecord
  BY NoValues, Zenon DEF TaskRecord, ToTerminal, ClearActiveState

LEMMA ToPendingType ==
    ASSUME NEW k \in TaskRecord, NEW due \in Nat, NEW at \in Nat
    PROVE  ToPending(k, due, at) \in TaskRecord
  BY NoValues, Zenon DEF TaskRecord, ToPending, ClearActiveState

LEMMA ClaimedType ==
    ASSUME NEW k \in TaskRecord, k.cycleCount + 1 \in CycleCounts, NEW owner \in Nat, NEW at \in Nat
    PROVE  Claimed(k, owner, at) \in TaskRecord
<1>1. at + ClaimLease \in OptionalTime
  BY StoreConstants, NoValues
<1>2. "claimed" \in Statuses
  BY DEF Statuses, ActiveStatuses
<1> QED
  BY <1>1, <1>2, NoValues, Zenon DEF TaskRecord, Claimed

LEMMA MarkedRunningType ==
    ASSUME NEW k \in TaskRecord, NEW run \in CycleCounts, NEW at \in Nat
    PROVE  MarkedRunning(k, run, at) \in TaskRecord
<1>1. "running" \in Statuses
  BY DEF Statuses, ActiveStatuses
<1>2. k.activeRunId \in CycleCounts
  BY DEF TaskRecord
<1> DEFINE r == IF run = NoRun THEN k.activeRunId ELSE run
<1>3. r \in CycleCounts
  BY <1>2
<1> HIDE DEF r
<1>4. [k EXCEPT !.status = "running", !.activeRunId = r, !.updatedAt = at] \in TaskRecord
  BY <1>1, <1>3, Zenon DEF TaskRecord
<1> QED
  BY <1>4, Zenon DEF MarkedRunning, r

LEMMA RenewedType ==
    ASSUME NEW k \in TaskRecord, NEW at \in Nat
    PROVE  Renewed(k, at) \in TaskRecord
<1>1. at + ClaimLease \in OptionalTime
  BY StoreConstants, NoValues
<1> QED
  BY <1>1, Zenon DEF TaskRecord, Renewed

LEMMA NudgedType ==
    ASSUME NEW k \in TaskRecord, NEW due \in Nat, NEW at \in Nat
    PROVE  Nudged(k, due, at) \in TaskRecord
<1>1. [k EXCEPT !.dueAt = due, !.updatedAt = at] \in TaskRecord
  BY Zenon DEF TaskRecord
<1> QED
  BY <1>1, Zenon DEF Nudged

LEMMA CountedType ==
    ASSUME NEW k \in TaskRecord, NEW n \in CycleCounts
    PROVE  [k EXCEPT !.consecutiveFailures = n] \in TaskRecord
  BY Zenon DEF TaskRecord

\* The principal of a request does not matter to the task's type.
LEMMA RequestedType ==
    ASSUME NEW r, NEW at \in Nat,
           r.kind \in Kinds, r.delay \in Nat, r.lifetime \in OptionalTime,
           r.interval \in Nat, r.maxCycles \in Cycles
    PROVE  /\ NewTask(r, at) \in TaskRecord
           /\ AbsentTask(r) \in TaskRecord
<1>1. ASSUME NEW t \in Nat PROVE NewTask(r, t) \in TaskRecord
  <2>1. RequestExpiry(r, t) \in OptionalTime /\ t + r.delay \in Nat
    BY StoreConstants DEF RequestExpiry, OptionalTime, NoTime
  <2>2. 0 \in CycleCounts
    BY NoValues DEF NoCycle
  <2> QED
    BY <2>1, <2>2, NoValues, Zenon DEF TaskRecord, NewTask
<1>2. [NewTask(r, 0) EXCEPT !.status = "absent"] \in TaskRecord
  <2>1. NewTask(r, 0) \in TaskRecord
    BY <1>1
  <2> QED
    BY <2>1, NoValues, Zenon DEF TaskRecord
<1> QED
  BY <1>1, <1>2 DEF AbsentTask

LEMMA NewTaskType ==
    ASSUME NEW r \in TaskRequest, NEW at \in Nat
    PROVE  /\ NewTask(r, at) \in TaskRecord
           /\ AbsentTask(r) \in TaskRecord
  BY RequestedType DEF TaskRequest

-----------------------------------------------------------------------------
(* How each mutation of the store changes a record that is shaped. *)

LEMMA ToTerminalLeaves ==
    ASSUME NEW k \in TaskRecord, Shaped(k), NEW s \in TerminalStatuses, NEW at \in Nat,
           IsActive(k) \/ k.status = "pending"
    PROVE  /\ Sound(k, ToTerminal(k, s, at))
           /\ Leaves(k, ToTerminal(k, s, at))
           /\ ToTerminal(k, s, at).status = s
<1> DEFINE m == ToTerminal(k, s, at)
<1>1. m \in TaskRecord
  BY NoValues, ToTerminalType
<1>2. /\ m.status = s /\ m.cycleCount = k.cycleCount /\ m.maxCycles = k.maxCycles
      /\ m.activeCycleId = NoCycle /\ m.claimOwner = NoOwner
  BY DEF TaskRecord, ToTerminal, ClearActiveState
<1>3. IsTerminal(m) /\ ~IsActive(m) /\ m.status # "absent"
  BY <1>2 DEF IsTerminal, IsActive, TerminalStatuses, ActiveStatuses
<1> HIDE DEF m
<1> QED
  BY <1>1, <1>2, <1>3 DEF Sound, Leaves, Shaped, m

LEMMA ToPendingLeaves ==
    ASSUME NEW k \in TaskRecord, Shaped(k), IsActive(k), NEW due \in Nat, NEW at \in Nat
    PROVE  /\ Sound(k, ToPending(k, due, at))
           /\ Leaves(k, ToPending(k, due, at))
           /\ ToPending(k, due, at).status = "pending"
<1> DEFINE m == ToPending(k, due, at)
<1>1. m \in TaskRecord
  BY ToPendingType
<1>2. /\ m.status = "pending" /\ m.cycleCount = k.cycleCount /\ m.maxCycles = k.maxCycles
      /\ m.activeCycleId = NoCycle /\ m.claimOwner = NoOwner
  BY DEF TaskRecord, ToPending, ClearActiveState
<1>3. ~IsActive(m)
  BY <1>2 DEF IsActive, ActiveStatuses
<1> HIDE DEF m
<1> QED
  BY <1>1, <1>2, <1>3 DEF Sound, Leaves, Shaped, m

\* Counting failures does not matter to the shape.
LEMMA CountedShaped ==
    ASSUME NEW k \in TaskRecord, Shaped(k), NEW n \in CycleCounts
    PROVE  LET m == [k EXCEPT !.consecutiveFailures = n] IN
           /\ m \in TaskRecord /\ Shaped(m)
           /\ IsActive(m) <=> IsActive(k)
           /\ m.cycleCount = k.cycleCount /\ m.maxCycles = k.maxCycles
<1> DEFINE m == [k EXCEPT !.consecutiveFailures = n]
<1>1. m \in TaskRecord
  BY CountedType
<1>2. /\ m.status = k.status /\ m.cycleCount = k.cycleCount /\ m.maxCycles = k.maxCycles
      /\ m.activeCycleId = k.activeCycleId /\ m.claimOwner = k.claimOwner
  BY DEF TaskRecord
<1> HIDE DEF m
<1>3. Shaped(m) /\ (IsActive(m) <=> IsActive(k))
  BY <1>2 DEF Shaped, IsActive
<1> QED
  BY <1>1, <1>2, <1>3 DEF m

LEMMA CompletedCycleLeaves ==
    ASSUME NEW k \in TaskRecord, Shaped(k), IsActive(k), NEW next \in OptionalTime, NEW at \in Nat
    PROVE  /\ Sound(k, CompletedCycle(k, next, at))
           /\ Leaves(k, CompletedCycle(k, next, at))
           /\ CompletedCycle(k, next, at).status \in {"completed", "pending"}
<1> DEFINE counted == [k EXCEPT !.consecutiveFailures = 0]
<1>1. /\ counted \in TaskRecord /\ Shaped(counted) /\ IsActive(counted)
      /\ counted.cycleCount = k.cycleCount /\ counted.maxCycles = k.maxCycles
  BY CountedShaped, NoValues DEF NoCycle
<1>2. next # NoTime => next \in Nat
  BY DEF OptionalTime
<1>3. "completed" \in TerminalStatuses
  BY DEF TerminalStatuses
<1> HIDE DEF counted
<1>4. CompletedCycle(k, next, at) \in {ToTerminal(counted, "completed", at), ToPending(counted, next, at)}
      /\ (next = NoTime => CompletedCycle(k, next, at) = ToTerminal(counted, "completed", at))
  BY DEF CompletedCycle, counted
<1>5. CASE CompletedCycle(k, next, at) = ToTerminal(counted, "completed", at)
  BY <1>1, <1>3, <1>5, ToTerminalLeaves DEF Sound, Leaves
<1>6. CASE CompletedCycle(k, next, at) = ToPending(counted, next, at) /\ next # NoTime
  BY <1>1, <1>2, <1>6, ToPendingLeaves DEF Sound, Leaves
<1> QED
  BY <1>4, <1>5, <1>6

LEMMA FailedCycleLeaves ==
    ASSUME NEW k \in TaskRecord, Shaped(k), IsActive(k), NEW retry \in OptionalTime,
           NEW terminal \in BOOLEAN, NEW at \in Nat
    PROVE  /\ Sound(k, FailedCycle(k, retry, terminal, at))
           /\ Leaves(k, FailedCycle(k, retry, terminal, at))
           /\ FailedCycle(k, retry, terminal, at).status \in {"failed", "pending"}
           /\ retry = NoTime => FailedCycle(k, retry, terminal, at).status = "failed"
<1> DEFINE n == IF k.consecutiveFailures < CycleLimit THEN k.consecutiveFailures + 1 ELSE CycleLimit
           counted == [k EXCEPT !.consecutiveFailures = n]
<1>0. n \in CycleCounts
  <2>1. k.consecutiveFailures \in CycleCounts
    BY DEF TaskRecord
  <2> QED
    BY <2>1, StoreConstants DEF CycleCounts
<1>1. /\ counted \in TaskRecord /\ Shaped(counted) /\ IsActive(counted)
      /\ counted.cycleCount = k.cycleCount /\ counted.maxCycles = k.maxCycles
  <2> HIDE DEF n
  <2> QED
    BY <1>0, CountedShaped
<1>2. retry # NoTime => retry \in Nat
  BY DEF OptionalTime
<1>3. "failed" \in TerminalStatuses
  BY DEF TerminalStatuses
<1>4. FailedCycle(k, retry, terminal, at) \in {ToTerminal(counted, "failed", at), ToPending(counted, retry, at)}
      /\ (retry = NoTime => FailedCycle(k, retry, terminal, at) = ToTerminal(counted, "failed", at))
  BY Zenon DEF FailedCycle
<1> HIDE DEF counted
<1>5. CASE FailedCycle(k, retry, terminal, at) = ToTerminal(counted, "failed", at)
  BY <1>1, <1>3, <1>5, ToTerminalLeaves DEF Sound, Leaves
<1>6. CASE FailedCycle(k, retry, terminal, at) = ToPending(counted, retry, at) /\ retry # NoTime
  BY <1>1, <1>2, <1>6, ToPendingLeaves DEF Sound, Leaves
<1> QED
  BY <1>4, <1>5, <1>6

LEMMA CancelledLeaves ==
    ASSUME NEW k \in TaskRecord, Shaped(k), k.status # "absent", NEW at \in Nat
    PROVE  \/ Cancelled(k, at) = k
           \/ /\ Sound(k, Cancelled(k, at)) /\ Leaves(k, Cancelled(k, at))
              /\ Cancelled(k, at).status = "cancelled"
<1>1. IsTerminal(k) \/ IsActive(k) \/ k.status = "pending"
  BY DEF TaskRecord, Statuses, IsTerminal, IsActive
<1>2. "cancelled" \in TerminalStatuses
  BY DEF TerminalStatuses
<1> QED
  BY <1>1, <1>2, ToTerminalLeaves DEF Cancelled

LEMMA NudgedStays ==
    ASSUME NEW k \in TaskRecord, Shaped(k), NEW due \in Nat, NEW at \in Nat
    PROVE  \/ Nudged(k, due, at) = k
           \/ Sound(k, Nudged(k, due, at)) /\ Stays(k, Nudged(k, due, at))
<1> DEFINE m == [k EXCEPT !.dueAt = due, !.updatedAt = at]
<1>1. CASE k.status # "pending"
  BY <1>1 DEF Nudged
<1>2. CASE k.status = "pending"
  <2>1. m \in TaskRecord
    BY <1>2, NudgedType DEF Nudged
  <2>2. /\ m.status = "pending" /\ m.cycleCount = k.cycleCount /\ m.maxCycles = k.maxCycles
        /\ m.activeCycleId = k.activeCycleId /\ m.claimOwner = k.claimOwner
    BY <1>2 DEF TaskRecord
  <2>3. Nudged(k, due, at) = m
    BY <1>2 DEF Nudged
  <2> HIDE DEF m
  <2> QED
    BY <1>2, <2>1, <2>2, <2>3 DEF Sound, Stays, Shaped, IsActive
<1> QED
  BY <1>1, <1>2

LEMMA MarkedRunningStays ==
    ASSUME NEW k \in TaskRecord, Shaped(k), IsActive(k), NEW run \in CycleCounts, NEW at \in Nat
    PROVE  Sound(k, MarkedRunning(k, run, at)) /\ Stays(k, MarkedRunning(k, run, at))
<1> DEFINE m == MarkedRunning(k, run, at)
<1>1. m \in TaskRecord
  BY MarkedRunningType
<1>2. /\ m.status = "running" /\ m.cycleCount = k.cycleCount /\ m.maxCycles = k.maxCycles
      /\ m.activeCycleId = k.activeCycleId /\ m.claimOwner = k.claimOwner
  BY DEF TaskRecord, MarkedRunning
<1> HIDE DEF m
<1> QED
  BY <1>1, <1>2 DEF Sound, Stays, Shaped, IsActive, ActiveStatuses, m

LEMMA RenewedStays ==
    ASSUME NEW k \in TaskRecord, Shaped(k), IsActive(k), NEW at \in Nat
    PROVE  Sound(k, Renewed(k, at)) /\ Stays(k, Renewed(k, at))
<1> DEFINE m == Renewed(k, at)
<1>1. m \in TaskRecord
  BY RenewedType
<1>2. /\ m.status = k.status /\ m.cycleCount = k.cycleCount /\ m.maxCycles = k.maxCycles
      /\ m.activeCycleId = k.activeCycleId /\ m.claimOwner = k.claimOwner
  BY DEF TaskRecord, Renewed
<1> HIDE DEF m
<1> QED
  BY <1>1, <1>2 DEF Sound, Stays, Shaped, IsActive, m

LEMMA ClaimedTakes ==
    ASSUME NEW k \in TaskRecord, Shaped(k), NEW owner \in Nat, NEW at \in Nat,
           k.status = "pending", k.cycleCount < k.maxCycles
    PROVE  /\ Sound(k, Claimed(k, owner, at)) /\ Takes(k, Claimed(k, owner, at), owner)
           /\ k.cycleCount + 1 \in Cycles
           /\ HasActiveCycle(Claimed(k, owner, at), k.cycleCount + 1)
<1> DEFINE m == Claimed(k, owner, at)
<1>0. k.cycleCount \in CycleCounts /\ k.maxCycles \in Cycles
  BY DEF TaskRecord
<1>1. k.cycleCount + 1 \in CycleCounts /\ k.cycleCount + 1 \in Cycles
  BY <1>0, StoreConstants DEF CycleCounts, Cycles
<1>2. m \in TaskRecord
  BY <1>1, ClaimedType
<1>3. /\ m.status = "claimed" /\ m.cycleCount = k.cycleCount + 1 /\ m.maxCycles = k.maxCycles
      /\ m.activeCycleId = k.cycleCount + 1 /\ m.claimOwner = owner
  BY DEF TaskRecord, Claimed
<1> HIDE DEF m
<1> QED
  BY <1>0, <1>1, <1>2, <1>3, StoreConstants
  DEF Sound, Takes, Shaped, IsActive, ActiveStatuses, HasActiveCycle, m, Cycles, CycleCounts, NoCycle

LEMMA ReconciledLeaves ==
    ASSUME NEW k \in TaskRecord, Shaped(k), NEW c \in Cycles, NEW action \in {"complete", "fail", "reclaim"},
           NEW due \in Nat, NEW at \in Nat
    PROVE  \/ Reconciled(k, c, action, due, at) = k
           \/ /\ k.activeCycleId = c /\ IsActive(k)
              /\ Sound(k, Reconciled(k, c, action, due, at))
              /\ Leaves(k, Reconciled(k, c, action, due, at))
              /\ action = "reclaim" => Reconciled(k, c, action, due, at).status = "pending"
<1>1. CASE k.activeCycleId # c
  BY <1>1 DEF Reconciled
<1>2. CASE k.activeCycleId = c
  <2>1. IsActive(k)
    BY <1>2 DEF Shaped, Cycles, NoCycle
  <2>2. {"completed", "failed"} \subseteq TerminalStatuses
    BY DEF TerminalStatuses
  <2> QED
    BY <1>2, <2>1, <2>2, ToTerminalLeaves, ToPendingLeaves DEF Reconciled
<1> QED
  BY <1>1, <1>2

\* claim: the cycle is taken, or the task expires, or nothing happens.
LEMMA AfterClaimTakes ==
    ASSUME NEW k \in TaskRecord, Shaped(k), NEW stamp, NEW owner \in Nat, NEW at \in Nat
    PROVE  LET m == AfterClaim(k, stamp, owner, at) IN
           IF ClaimResult(k, stamp, at) = "claimed"
           THEN /\ Sound(k, m) /\ Takes(k, m, owner)
                /\ k.cycleCount + 1 \in Cycles /\ HasActiveCycle(m, k.cycleCount + 1)
           ELSE m = k \/ (k.status = "pending" /\ Sound(k, m) /\ Leaves(k, m) /\ m.status = "expired")
<1>1. k.cycleCount \in Int /\ k.maxCycles \in Int
  BY StoreConstants DEF TaskRecord, CycleCounts, Cycles
<1>2. CASE ClaimResult(k, stamp, at) = "claimed"
  <2>1. k.status = "pending" /\ k.cycleCount < k.maxCycles
    BY <1>1, <1>2 DEF ClaimResult
  <2>2. AfterClaim(k, stamp, owner, at) = Claimed(k, owner, at)
    BY <1>2 DEF AfterClaim
  <2> QED
    BY <1>2, <2>1, <2>2, ClaimedTakes
<1>3. CASE ClaimResult(k, stamp, at) \in {"expired", "cycle_limit"}
  <2>1. k.status = "pending"
    BY <1>3 DEF ClaimResult
  <2>2. AfterClaim(k, stamp, owner, at) = ToTerminal(k, "expired", at)
    BY <1>3 DEF AfterClaim
  <2>3. "expired" \in TerminalStatuses
    BY DEF TerminalStatuses
  <2> QED
    BY <1>3, <2>1, <2>2, <2>3, ToTerminalLeaves
<1>4. CASE ClaimResult(k, stamp, at) \notin {"claimed", "expired", "cycle_limit"}
  BY <1>4 DEF AfterClaim
<1> QED
  BY <1>2, <1>3, <1>4
=============================================================================
