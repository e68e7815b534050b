-------------------------- MODULE DeliveriesProofs --------------------------
(***************************************************************************)
(* Proofs about Deliveries: its type invariant, that task, ledger and      *)
(* destination agree, and that only a fault repeats a message.  The        *)
(* inductive invariant says, for every step of a loop, what the ledger     *)
(* holds and how much has been sent.                                       *)
(***************************************************************************)
EXTENDS Deliveries, TaskStoreProofs, TLAPS

TasksShaped == \A t \in Tasks : Shaped(tasks[t])

NoDelivery == [status |-> "absent", attempts |-> 0]

\* A cycle that was not claimed yet has no loop, no delivery and no message.
FreshCycles ==
    \A t \in Tasks, c \in Cycles : c > tasks[t].cycleCount =>
        /\ job[<<t, c>>] = NoJob /\ ledger[<<t, c>>] = NoDelivery
        /\ sent[<<t, c>>] = 0 /\ faults[<<t, c>>] = 0

\* What a loop at step b.pc finds: the attempts a delivery d has behind it,
\* the messages s they may have sent, and the faults f that explain them.
InStep(b, d, s, f) ==
    /\ b.pc = "none" => b.attempt = 0
    /\ b.attempt < MaxAttempts
    /\ b.pc \in {"turn", "ensure", "get", "claim"} => d.attempts <= b.attempt
    /\ b.pc # "none" => d.attempts <= b.attempt + 1
    /\ s <= 2 * d.attempts
    /\ b.pc = "send" => s + 2 <= 2 * d.attempts
    /\ b.pc = "sendPlain" => s + 1 <= 2 * d.attempts
    /\ b.pc = "markDelivered" => s > 0
    /\ d.status = "delivered" => s > 0 /\ b.pc \in {"none", "complete"}
    /\ b.pc = "complete" => d.status = "delivered"
    /\ s <= 1 + f
    /\ b.pc \notin {"none", "complete", "markDelivered"} => s <= f

LoopsInStep == \A j \in Jobs : InStep(job[j], ledger[j], sent[j], faults[j])

\* Only a wake has a turn before its message.
TurnsAreWakes == \A j \in Jobs : job[j].pc = "turn" => AsWake(j[1])

\* A reminder that has come to its end has no loop that could still change
\* what its last cycle delivered.
EndsAreSettled ==
    \A t \in Tasks :
        (Kind[t] = "reminder" /\ tasks[t].status \in {"completed", "failed"}) =>
            LET last == <<t, tasks[t].cycleCount>> IN
            /\ tasks[t].cycleCount \in Cycles
            /\ job[last].pc = "none"
            /\ ledger[last].status = "delivered" <=> tasks[t].status = "completed"

IInv == TypeOK /\ TasksShaped /\ FreshCycles /\ LoopsInStep /\ TurnsAreWakes /\ EndsAreSettled

-----------------------------------------------------------------------------
(* The steps of a loop. *)

\* A step of the loop of j touches nothing of another delivery.
Touches(j) ==
    /\ job' \in [Jobs -> Job] /\ ledger' \in [Jobs -> Delivery]
    /\ sent' \in [Jobs -> Nat] /\ faults' \in [Jobs -> Nat]
    /\ \A i \in Jobs : i # j => /\ job'[i] = job[i] /\ ledger'[i] = ledger[i]
                              /\ sent'[i] = sent[i] /\ faults'[i] = faults[i]

KeepsStep(j) == Touches(j) /\ InStep(job'[j], ledger'[j], sent'[j], faults'[j]) /\ job'[j].pc # "turn"

LEMMA OldValues ==
    ASSUME IInv, NEW j \in Jobs
    PROVE  /\ job \in [Jobs -> Job] /\ ledger \in [Jobs -> Delivery]
           /\ sent \in [Jobs -> Nat] /\ faults \in [Jobs -> Nat]
           /\ job[j] \in Job /\ ledger[j] \in Delivery
           /\ job[j].attempt \in Nat /\ ledger[j].attempts \in Nat
           /\ sent[j] \in Nat /\ faults[j] \in Nat /\ MaxAttempts \in Nat \ {0}
           /\ InStep(job[j], ledger[j], sent[j], faults[j])
  BY DeliveryConstants DEF IInv, TypeOK, Job, Delivery, LoopsInStep

LEMMA GoEffect ==
    ASSUME job \in [Jobs -> Job], NEW j \in Jobs, NEW pc \in JobSteps, Go(j, pc)
    PROVE  /\ job' \in [Jobs -> Job]
           /\ job'[j] = [pc |-> pc, attempt |-> job[j].attempt]
           /\ \A i \in Jobs : i # j => job'[i] = job[i]
<1>1. job[j] \in Job /\ [job[j] EXCEPT !.pc = pc] = [pc |-> pc, attempt |-> job[j].attempt]
  BY DEF Job
<1>2. job' = [job EXCEPT ![j] = [pc |-> pc, attempt |-> job[j].attempt]]
  BY <1>1 DEF Go
<1>3. [pc |-> pc, attempt |-> job[j].attempt] \in Job
  BY <1>1 DEF Job
<1> QED
  BY <1>2, <1>3

LEMMA LeaveEffect ==
    ASSUME job \in [Jobs -> Job], NEW j \in Jobs, Leave(j)
    PROVE  /\ job' \in [Jobs -> Job] /\ job'[j] = NoJob
           /\ \A i \in Jobs : i # j => job'[i] = job[i]
<1>1. NoJob \in Job
  BY DeliveryConstants DEF NoJob, Job, JobSteps
<1> QED
  BY <1>1 DEF Leave

\* What a ledger mutation leaves of the record: the attempts fit their type
\* because a loop makes one attempt at a time.
LEMMA MutatedRecord ==
    ASSUME IInv, NEW j \in Jobs, job[j].pc \in MutationSteps
    PROVE  /\ Mutated(j) \in Delivery
           /\ job[j].pc = "ensure" => Mutated(j).attempts = ledger[j].attempts /\ Mutated(j).status # "delivered"
           /\ job[j].pc = "claim" =>
                IF CanSend(ledger[j], RetryFailed(j))
                THEN Mutated(j) = [status |-> "sending", attempts |-> ledger[j].attempts + 1]
                ELSE Mutated(j) = ledger[j]
           /\ job[j].pc = "markDelivered" => Mutated(j) = [status |-> "delivered", attempts |-> ledger[j].attempts]
           /\ job[j].pc = "markFailed" => Mutated(j) = [status |-> "failed", attempts |-> ledger[j].attempts]
<1> DEFINE d == ledger[j]
<1>1. /\ d \in Delivery /\ d.attempts \in Nat /\ job[j].attempt \in Nat /\ MaxAttempts \in Nat
      /\ InStep(job[j], d, sent[j], faults[j])
  BY OldValues
<1>2. d.attempts \in 0..MaxAttempts
  BY <1>1 DEF Delivery
<1>3. CASE job[j].pc = "ensure"
  BY <1>1, <1>3 DEF Mutated, Delivery, InStep
<1>4. CASE job[j].pc = "claim"
  <2>1. d.attempts + 1 \in 0..MaxAttempts
    BY <1>1, <1>4 DEF InStep
  <2>2. Mutated(j) = IF CanSend(d, RetryFailed(j)) THEN [status |-> "sending", attempts |-> d.attempts + 1] ELSE d
    BY <1>4 DEF Mutated
  <2>3. [status |-> "sending", attempts |-> d.attempts + 1] \in Delivery
    BY <2>1 DEF Delivery
  <2>4. Mutated(j) \in Delivery
    BY <1>1, <2>2, <2>3
  <2> QED
    BY <1>4, <2>2, <2>4
<1>5. CASE job[j].pc = "markDelivered"
  BY <1>1, <1>5 DEF Mutated, Delivery
<1>6. CASE job[j].pc = "markFailed"
  BY <1>1, <1>6 DEF Mutated, Delivery
<1> QED
  BY <1>3, <1>4, <1>5, <1>6 DEF MutationSteps

LEMMA MutationEffect ==
    ASSUME IInv, NEW j \in Jobs, job[j].pc \in MutationSteps, MutationSucceeds(j)
    PROVE  /\ ledger' \in [Jobs -> Delivery] /\ ledger'[j] = Mutated(j)
           /\ \A i \in Jobs : i # j => ledger'[i] = ledger[i]
           /\ UNCHANGED <<alive, inst, orphan, sent, faults>>
<1>1. Mutated(j) \in Delivery /\ ledger \in [Jobs -> Delivery]
  BY MutatedRecord, OldValues
<1> HIDE DEF Jobs, Delivery
<1> QED
  BY <1>1 DEF MutationSucceeds

\* The next attempt comes after everything the last one did.
LEMMA NextAttemptEffect ==
    ASSUME IInv, NEW j \in Jobs, NextAttempt(j)
    PROVE  /\ job' \in [Jobs -> Job] /\ \A i \in Jobs : i # j => job'[i] = job[i]
           /\ job'[j].attempt < MaxAttempts
           /\ \/ job'[j].pc = "get" /\ job'[j].attempt = job[j].attempt + 1
              \/ job'[j].pc = "throw" /\ job'[j].attempt = job[j].attempt
<1>0. /\ job \in [Jobs -> Job] /\ job[j] \in Job /\ job[j].attempt \in Nat /\ MaxAttempts \in Nat
      /\ job[j].attempt < MaxAttempts
  BY OldValues DEF InStep
<1>1. CASE job[j].attempt + 1 < MaxAttempts
  <2> DEFINE b == [pc |-> "get", attempt |-> job[j].attempt + 1]
  <2>1. b \in Job
    BY <1>0, <1>1 DEF Job, JobSteps
  <2>2. job' = [job EXCEPT ![j] = b]
    BY <1>1 DEF NextAttempt
  <2>3. job' \in [Jobs -> Job] /\ job'[j] = b /\ \A i \in Jobs : i # j => job'[i] = job[i]
    <3> HIDE DEF b
    <3> QED
      BY <1>0, <2>1, <2>2
  <2> QED
    BY <1>1, <2>3
<1>2. CASE ~(job[j].attempt + 1 < MaxAttempts)
  <2>1. Go(j, "throw") /\ "throw" \in JobSteps
    BY <1>2 DEF NextAttempt, JobSteps
  <2>2. /\ job' \in [Jobs -> Job] /\ job'[j] = [pc |-> "throw", attempt |-> job[j].attempt]
        /\ \A i \in Jobs : i # j => job'[i] = job[i]
    BY <1>0, <2>1, GoEffect
  <2> QED
    BY <1>0, <2>2
<1> QED
  BY <1>1, <1>2

\* A mutation that throws is a fault of its delivery.
LEMMA ThrowEffect ==
    ASSUME IInv, NEW j \in Jobs, MutationThrows(j)
    PROVE  /\ faults' \in [Jobs -> Nat] /\ faults'[j] = faults[j] + 1
           /\ \A i \in Jobs : i # j => faults'[i] = faults[i]
           /\ UNCHANGED <<alive, inst, tasks, ledger, orphan, sent>>
  BY OldValues DEF MutationThrows

\* Steps that write neither the ledger nor the counters.
LEMMA QuietKeeps ==
    ASSUME IInv, NEW j \in Jobs, UNCHANGED <<ledger, sent, faults>>,
           job' \in [Jobs -> Job], \A i \in Jobs : i # j => job'[i] = job[i],
           InStep(job'[j], ledger[j], sent[j], faults[j]), job'[j].pc # "turn"
    PROVE  KeepsStep(j)
  BY OldValues DEF KeepsStep, Touches

LEMMA TurnKeeps == ASSUME IInv, NEW j \in Jobs, Turn(j) PROVE KeepsStep(j)
<1>1. CASE Go(j, "ensure")
  <2>1. "ensure" \in JobSteps
    BY DEF JobSteps, MutationSteps
  <2>2. /\ job' \in [Jobs -> Job] /\ job'[j] = [pc |-> "ensure", attempt |-> job[j].attempt]
        /\ \A i \in Jobs : i # j => job'[i] = job[i]
    BY <1>1, <2>1, OldValues, GoEffect
  <2>3. InStep(job'[j], ledger[j], sent[j], faults[j])
    BY <2>2, OldValues DEF InStep, Turn
  <2> QED
    BY <2>2, <2>3, QuietKeeps DEF Turn
<1>2. CASE Leave(j)
  <2>1. InStep(NoJob, ledger[j], sent[j], faults[j])
    BY OldValues DEF InStep, Turn, NoJob
  <2> QED
    BY <1>2, <2>1, OldValues, LeaveEffect, QuietKeeps DEF Turn, NoJob
<1> QED
  BY <1>1, <1>2 DEF Turn

LEMMA GetKeeps == ASSUME IInv, NEW j \in Jobs, Get(j) PROVE KeepsStep(j)
<1>1. ledger[j].status # "delivered" /\ job[j].pc = "get"
  BY OldValues DEF InStep, Get
<1>2. Go(j, "claim") /\ "claim" \in JobSteps
  BY <1>1 DEF Get, JobSteps, MutationSteps
<1>3. /\ job' \in [Jobs -> Job] /\ job'[j] = [pc |-> "claim", attempt |-> job[j].attempt]
      /\ \A i \in Jobs : i # j => job'[i] = job[i]
  BY <1>2, OldValues, GoEffect
<1>4. InStep(job'[j], ledger[j], sent[j], faults[j])
  BY <1>1, <1>3, OldValues DEF InStep
<1> QED
  BY <1>3, <1>4, QuietKeeps DEF Get

LEMMA EnsureKeeps == ASSUME IInv, NEW j \in Jobs, Ensure(j) PROVE KeepsStep(j)
<1>1. job[j].pc = "ensure" /\ job[j].pc \in MutationSteps /\ MutationSucceeds(j)
  BY DEF Ensure, MutationSteps
<1>2. /\ ledger' \in [Jobs -> Delivery] /\ ledger'[j] \in Delivery
      /\ ledger'[j].attempts = ledger[j].attempts /\ ledger'[j].status # "delivered"
      /\ \A i \in Jobs : i # j => ledger'[i] = ledger[i]
      /\ UNCHANGED <<sent, faults>>
  BY <1>1, MutationEffect, MutatedRecord
<1>3. \E pc \in {"claim", "get"} : Go(j, pc)
  BY <1>1, OldValues DEF Ensure, InStep
<1>4. PICK pc \in {"claim", "get"} : Go(j, pc)
  BY <1>3
<1>5. /\ job' \in [Jobs -> Job] /\ job'[j] = [pc |-> pc, attempt |-> job[j].attempt]
      /\ \A i \in Jobs : i # j => job'[i] = job[i]
  BY <1>4, OldValues, GoEffect DEF JobSteps, MutationSteps
<1>6. InStep(job'[j], ledger'[j], sent[j], faults[j])
  BY <1>1, <1>2, <1>5, OldValues DEF InStep
<1> QED
  BY <1>2, <1>5, <1>6, OldValues DEF KeepsStep, Touches

LEMMA ClaimSendingKeeps == ASSUME IInv, NEW j \in Jobs, ClaimSending(j) PROVE KeepsStep(j)
<1> DEFINE granted == CanSend(ledger[j], RetryFailed(j))
<1>1. job[j].pc = "claim" /\ job[j].pc \in MutationSteps /\ MutationSucceeds(j)
  BY DEF ClaimSending, MutationSteps
<1>2. /\ ledger' \in [Jobs -> Delivery]
      /\ \A i \in Jobs : i # j => ledger'[i] = ledger[i]
      /\ UNCHANGED <<sent, faults>>
      /\ IF granted THEN ledger'[j] = [status |-> "sending", attempts |-> ledger[j].attempts + 1]
                    ELSE ledger'[j] = ledger[j]
  BY <1>1, MutationEffect, MutatedRecord
<1>3. ledger[j].status # "delivered"
  BY <1>1, OldValues DEF InStep
<1>4. CASE granted
  <2>1. Go(j, "send") /\ "send" \in JobSteps
    BY <1>4 DEF ClaimSending, JobSteps
  <2>2. /\ job' \in [Jobs -> Job] /\ job'[j] = [pc |-> "send", attempt |-> job[j].attempt]
        /\ \A i \in Jobs : i # j => job'[i] = job[i]
    BY <2>1, OldValues, GoEffect
  <2>3. ledger'[j].status = "sending" /\ ledger'[j].attempts = ledger[j].attempts + 1
    BY <1>2, <1>4
  <2>4. InStep(job'[j], ledger'[j], sent[j], faults[j])
    BY <1>1, <2>2, <2>3, OldValues DEF InStep
  <2> QED
    BY <1>2, <2>2, <2>4, OldValues DEF KeepsStep, Touches
<1>5. CASE ~granted
  <2>1. NextAttempt(j) \/ Go(j, "throw")
    BY <1>3, <1>5 DEF ClaimSending
  <2>2. "throw" \in JobSteps
    BY DEF JobSteps
  <2>3. /\ job' \in [Jobs -> Job] /\ \A i \in Jobs : i # j => job'[i] = job[i]
        /\ job'[j].attempt < MaxAttempts
        /\ \/ job'[j].pc = "get" /\ job'[j].attempt = job[j].attempt + 1
           \/ job'[j].pc = "throw" /\ job'[j].attempt = job[j].attempt
    <3>1. CASE Go(j, "throw")
      <4>1. /\ job' \in [Jobs -> Job] /\ job'[j] = [pc |-> "throw", attempt |-> job[j].attempt]
            /\ \A i \in Jobs : i # j => job'[i] = job[i]
        BY <2>2, <3>1, OldValues, GoEffect
      <4> QED
        BY <4>1, OldValues DEF InStep
    <3> QED
      BY <2>1, <3>1, NextAttemptEffect
  <2>4. InStep(job'[j], ledger'[j], sent[j], faults[j])
    BY <1>1, <1>2, <1>3, <1>5, <2>3, OldValues DEF InStep
  <2> QED
    BY <1>2, <2>3, <2>4, OldValues DEF KeepsStep, Touches
<1> QED
  BY <1>4, <1>5

LEMMA SendKeeps == ASSUME IInv, NEW j \in Jobs, Send(j) PROVE KeepsStep(j)
<1>1. job[j].pc \in {"send", "sendPlain"} /\ Transport(j, "markDelivered") /\ UNCHANGED ledger
  BY DEF Send, Transport
<1> DEFINE failed == IF job[j].pc = "send" /\ j[1] \in Telegram THEN "sendPlain" ELSE "markFailed"
<1>2. failed \in {"sendPlain", "markFailed"} /\ failed \in JobSteps /\ "markDelivered" \in JobSteps
      /\ (failed = "sendPlain" => job[j].pc = "send")
  BY DEF JobSteps, MutationSteps
<1>3. \/ Go(j, "markDelivered") /\ sent' = [sent EXCEPT ![j] = sent[j] + 1] /\ UNCHANGED faults
      \/ Go(j, failed) /\ UNCHANGED <<sent, faults>>
      \/ Go(j, failed) /\ sent' = [sent EXCEPT ![j] = sent[j] + 1] /\ faults' = [faults EXCEPT ![j] = faults[j] + 1]
  BY <1>1 DEF Transport
<1> HIDE DEF failed
<1>4. /\ sent' \in [Jobs -> Nat] /\ faults' \in [Jobs -> Nat]
      /\ \A i \in Jobs : i # j => sent'[i] = sent[i] /\ faults'[i] = faults[i]
  BY <1>3, OldValues
<1>5. /\ job' \in [Jobs -> Job] /\ \A i \in Jobs : i # j => job'[i] = job[i]
      /\ \/ /\ job'[j] = [pc |-> "markDelivered", attempt |-> job[j].attempt]
            /\ sent'[j] = sent[j] + 1 /\ faults'[j] = faults[j]
         \/ /\ job'[j] = [pc |-> failed, attempt |-> job[j].attempt]
            /\ \/ sent'[j] = sent[j] /\ faults'[j] = faults[j]
               \/ sent'[j] = sent[j] + 1 /\ faults'[j] = faults[j] + 1
  BY <1>2, <1>3, OldValues, GoEffect
<1>6. InStep(job'[j], ledger[j], sent'[j], faults'[j])
  BY <1>1, <1>2, <1>5, OldValues DEF InStep
<1> QED
  BY <1>1, <1>2, <1>4, <1>5, <1>6, OldValues DEF KeepsStep, Touches

LEMMA MarkDeliveredKeeps == ASSUME IInv, NEW j \in Jobs, MarkDelivered(j) PROVE KeepsStep(j)
<1>1. job[j].pc = "markDelivered" /\ job[j].pc \in MutationSteps
  BY DEF MarkDelivered, MutationSteps
<1>2. CASE MutationSucceeds(j) /\ Go(j, "complete")
  <2>1. /\ ledger' \in [Jobs -> Delivery] /\ \A i \in Jobs : i # j => ledger'[i] = ledger[i]
        /\ ledger'[j] = [status |-> "delivered", attempts |-> ledger[j].attempts]
        /\ UNCHANGED <<sent, faults>>
    BY <1>1, <1>2, MutationEffect, MutatedRecord
  <2>2. /\ job' \in [Jobs -> Job] /\ job'[j] = [pc |-> "complete", attempt |-> job[j].attempt]
        /\ \A i \in Jobs : i # j => job'[i] = job[i]
    BY <1>2, OldValues, GoEffect DEF JobSteps
  <2>3. InStep(job'[j], ledger'[j], sent[j], faults[j])
    BY <1>1, <2>1, <2>2, OldValues DEF InStep
  <2> QED
    BY <2>1, <2>2, <2>3, OldValues DEF KeepsStep, Touches
<1>3. CASE MutationThrows(j) /\ Go(j, "markFailed")
  <2>1. /\ faults' \in [Jobs -> Nat] /\ faults'[j] = faults[j] + 1
        /\ \A i \in Jobs : i # j => faults'[i] = faults[i]
        /\ UNCHANGED <<ledger, sent>>
    BY <1>3, ThrowEffect
  <2>2. /\ job' \in [Jobs -> Job] /\ job'[j] = [pc |-> "markFailed", attempt |-> job[j].attempt]
        /\ \A i \in Jobs : i # j => job'[i] = job[i]
    BY <1>3, OldValues, GoEffect DEF JobSteps, MutationSteps
  <2>3. InStep(job'[j], ledger[j], sent[j], faults'[j])
    BY <1>1, <2>1, <2>2, OldValues DEF InStep
  <2> QED
    BY <2>1, <2>2, <2>3, OldValues DEF KeepsStep, Touches
<1> QED
  BY <1>2, <1>3 DEF MarkDelivered

LEMMA MarkFailedKeeps == ASSUME IInv, NEW j \in Jobs, MarkFailed(j) PROVE KeepsStep(j)
<1>1. job[j].pc = "markFailed" /\ job[j].pc \in MutationSteps /\ MutationSucceeds(j)
  BY DEF MarkFailed, MutationSteps
<1>2. /\ ledger' \in [Jobs -> Delivery] /\ \A i \in Jobs : i # j => ledger'[i] = ledger[i]
      /\ ledger'[j] = [status |-> "failed", attempts |-> ledger[j].attempts]
      /\ UNCHANGED <<sent, faults>>
  BY <1>1, MutationEffect, MutatedRecord
<1>3. /\ job' \in [Jobs -> Job] /\ \A i \in Jobs : i # j => job'[i] = job[i]
      /\ job'[j].attempt < MaxAttempts
      /\ \/ job'[j].pc = "get" /\ job'[j].attempt = job[j].attempt + 1
         \/ job'[j].pc = "throw" /\ job'[j].attempt = job[j].attempt
  <2>1. CASE Go(j, "throw")
    <3>1. /\ job' \in [Jobs -> Job] /\ job'[j] = [pc |-> "throw", attempt |-> job[j].attempt]
          /\ \A i \in Jobs : i # j => job'[i] = job[i]
      BY <2>1, OldValues, GoEffect DEF JobSteps
    <3> QED
      BY <3>1, OldValues DEF InStep
  <2> QED
    BY <2>1, NextAttemptEffect DEF MarkFailed
<1>4. InStep(job'[j], ledger'[j], sent[j], faults[j])
  BY <1>1, <1>2, <1>3, OldValues DEF InStep
<1> QED
  BY <1>2, <1>3, <1>4, OldValues DEF KeepsStep, Touches

LEMMA LoopThrowsKeeps == ASSUME IInv, NEW j \in Jobs, LoopThrows(j) PROVE KeepsStep(j)
<1>1. job[j].pc \in {"ensure", "claim", "markFailed"} /\ Go(j, "throw") /\ "throw" \in JobSteps
  BY DEF LoopThrows, MutationSteps, JobSteps
<1>2. /\ faults' \in [Jobs -> Nat] /\ faults'[j] = faults[j] + 1
      /\ \A i \in Jobs : i # j => faults'[i] = faults[i]
      /\ UNCHANGED <<ledger, sent>>
  BY ThrowEffect DEF LoopThrows
<1>3. /\ job' \in [Jobs -> Job] /\ job'[j] = [pc |-> "throw", attempt |-> job[j].attempt]
      /\ \A i \in Jobs : i # j => job'[i] = job[i]
  BY <1>1, OldValues, GoEffect
<1>4. InStep(job'[j], ledger[j], sent[j], faults'[j])
  BY <1>1, <1>2, <1>3, OldValues DEF InStep
<1> QED
  BY <1>2, <1>3, <1>4, OldValues DEF KeepsStep, Touches

LEMMA EndKeeps == ASSUME IInv, NEW j \in Jobs, Complete(j) \/ Throw(j) PROVE KeepsStep(j)
<1>1. Leave(j) /\ UNCHANGED <<ledger, sent, faults>>
  BY DEF Complete, Throw
<1>2. InStep(NoJob, ledger[j], sent[j], faults[j])
  BY OldValues DEF InStep, NoJob
<1> QED
  BY <1>1, <1>2, OldValues, LeaveEffect, QuietKeeps DEF NoJob

LEMMA LoopKeepsStep == ASSUME IInv, NEW j \in Jobs, LoopStep(j) PROVE KeepsStep(j) /\ job[j].pc # "none"
<1>1. KeepsStep(j)
  BY TurnKeeps, EnsureKeeps, GetKeeps, ClaimSendingKeeps, SendKeeps, MarkDeliveredKeeps, MarkFailedKeeps,
     LoopThrowsKeeps, EndKeeps DEF LoopStep
<1>2. job[j].pc # "none"
  BY DEF LoopStep, Turn, Ensure, Get, ClaimSending, Send, MarkDelivered, MarkFailed, LoopThrows, Complete, Throw,
     MutationSteps
<1> QED
  BY <1>1, <1>2

\* A step of a loop closes its own cycle or leaves the task alone.  For a
\* reminder the loop ends with the cycle, which is completed when it was
\* delivered and has failed when it was not.
ClosesCycle(t, c) ==
    /\ tasks' = [tasks EXCEPT ![t] = tasks'[t]]
    /\ HasActiveCycle(tasks[t], c) /\ Sound(tasks[t], tasks'[t]) /\ Leaves(tasks[t], tasks'[t])
    /\ Kind[t] = "reminder" =>
         /\ job'[<<t, c>>].pc = "none"
         /\ tasks'[t].status = "completed" => ledger'[<<t, c>>].status = "delivered"
         /\ tasks'[t].status = "failed" => ledger'[<<t, c>>].status # "delivered"

LEMMA Closing ==
    ASSUME IInv, NEW t \in Tasks, NEW c \in Cycles, NEW m, ClosesOr(t, c, m),
           HasActiveCycle(tasks[t], c) =>
             /\ Sound(tasks[t], m) /\ Leaves(tasks[t], m)
             /\ Kind[t] = "reminder" =>
                  /\ job'[<<t, c>>].pc = "none"
                  /\ m.status = "completed" => ledger'[<<t, c>>].status = "delivered"
                  /\ m.status = "failed" => ledger'[<<t, c>>].status # "delivered"
    PROVE  UNCHANGED tasks \/ ClosesCycle(t, c)
<1>1. tasks \in [Tasks -> TaskRecord]
  BY DEF IInv, TypeOK
<1>2. CASE HasActiveCycle(tasks[t], c)
  <2>1. tasks' = [tasks EXCEPT ![t] = m] /\ tasks'[t] = m
    BY <1>1, <1>2 DEF ClosesOr, SetTask
  <2> QED
    BY <1>2, <2>1 DEF ClosesCycle
<1>3. CASE ~HasActiveCycle(tasks[t], c)
  BY <1>1, <1>3 DEF ClosesOr, SetTask
<1> QED
  BY <1>2, <1>3

LEMMA LoopCloses ==
    ASSUME IInv, NEW t \in Tasks, NEW c \in Cycles, LoopStep(<<t, c>>)
    PROVE  UNCHANGED tasks \/ ClosesCycle(t, c)
<1> DEFINE j == <<t, c>>
           completed == CompletedCycle(tasks[t], Next0(t), 0)
           failed == FailedCycle(tasks[t], NoTime, TRUE, 0)
<1>0. j \in Jobs /\ j[1] = t /\ j[2] = c
  BY DEF Jobs
<1>1. ASSUME HasActiveCycle(tasks[t], c)
      PROVE  /\ Sound(tasks[t], completed) /\ Leaves(tasks[t], completed)
             /\ completed.status \in {"completed", "pending"}
             /\ Sound(tasks[t], failed) /\ Leaves(tasks[t], failed) /\ failed.status = "failed"
  <2>1. tasks[t] \in TaskRecord /\ Shaped(tasks[t]) /\ IsActive(tasks[t])
    BY <1>1 DEF IInv, TypeOK, TasksShaped, HasActiveCycle
  <2>2. Next0(t) \in OptionalTime /\ NoTime \in OptionalTime
    BY NoValues DEF Next0
  <2> QED
    BY <2>1, <2>2, CompletedCycleLeaves, FailedCycleLeaves
<1>2. ASSUME Kind[t] # "reminder", ClosesOr(t, c, completed) \/ ClosesOr(t, c, failed)
      PROVE  UNCHANGED tasks \/ ClosesCycle(t, c)
  BY <1>1, <1>2, Closing
<1>3. ASSUME Leave(j), UNCHANGED ledger, Kind[t] = "reminder",
             \/ ledger[j].status = "delivered" /\ ClosesOr(t, c, completed)
             \/ ledger[j].status # "delivered" /\ ClosesOr(t, c, failed)
      PROVE  UNCHANGED tasks \/ ClosesCycle(t, c)
  <2>1. job'[j].pc = "none"
    BY <1>0, <1>3, OldValues, LeaveEffect DEF NoJob
  <2> QED
    BY <1>1, <1>3, <2>1, Closing
<1>4. CASE Turn(j)
  <2>1. AsWake(t)
    BY <1>0, <1>4 DEF Turn, IInv, TurnsAreWakes
  <2> QED
    BY <1>0, <1>2, <1>4, <2>1 DEF Turn, AsWake
<1>5. CASE Complete(j)
  <2>1. ledger[j].status = "delivered"
    BY <1>0, <1>5, OldValues DEF Complete, InStep
  <2>2. CASE AsWake(t)
    BY <1>0, <1>5, <2>2 DEF Complete
  <2>3. CASE ~AsWake(t) /\ Kind[t] # "reminder"
    BY <1>0, <1>2, <1>5, <2>3 DEF Complete
  <2>4. CASE Kind[t] = "reminder"
    BY <1>0, <1>3, <1>5, <2>1, <2>4 DEF Complete, AsWake
  <2> QED
    BY <2>2, <2>3, <2>4
<1>6. CASE Throw(j)
  <2>1. ledger[j].status # "delivered"
    BY <1>0, <1>6, OldValues DEF Throw, InStep
  <2> QED
    BY <1>0, <1>2, <1>3, <1>6, <2>1 DEF Throw
<1>7. CASE ~(Turn(j) \/ Complete(j) \/ Throw(j))
  BY <1>0, <1>7 DEF LoopStep, Ensure, Get, ClaimSending, Send, Transport, MarkDelivered, MarkFailed, LoopThrows,
     MutationThrows
<1> QED
  BY <1>4, <1>5, <1>6, <1>7

-----------------------------------------------------------------------------
(* Every step keeps the invariant. *)

\* The counts of messages fit their type, because the attempts do.
LEMMA SentFits ==
    ASSUME NEW d \in Delivery, NEW s \in Nat, s <= 2 * d.attempts
    PROVE  s \in 0..(2 * MaxAttempts)
<1>1. d.attempts \in 0..MaxAttempts /\ MaxAttempts \in Nat
  BY DeliveryConstants DEF Delivery
<1> QED
  BY <1>1

LEMMA Counts ==
    ASSUME IInv, NEW t \in Tasks
    PROVE  /\ tasks[t] \in TaskRecord /\ Shaped(tasks[t])
           /\ tasks[t].cycleCount \in Nat /\ tasks[t].cycleCount \in CycleCounts
           /\ IsActive(tasks[t]) => tasks[t].cycleCount \in Cycles
<1>1. tasks[t] \in TaskRecord /\ Shaped(tasks[t])
  BY DEF IInv, TypeOK, TasksShaped
<1>2. tasks[t].cycleCount \in CycleCounts
  BY <1>1 DEF TaskRecord
<1> QED
  BY <1>1, <1>2, StoreConstants DEF Shaped, CycleCounts, Cycles, NoCycle

\* A step of a loop, whatever becomes of its task.
LEMMA LoopKeeps == ASSUME IInv, NEW j \in Jobs, LoopStep(j) PROVE IInv'
<1> PICK t \in Tasks, c \in Cycles : j = <<t, c>>
  BY DEF Jobs
<1>1. KeepsStep(j) /\ job[j].pc # "none"
  BY LoopKeepsStep
<1>2. Touches(j)
  BY <1>1 DEF KeepsStep
<1>3. UNCHANGED tasks \/ ClosesCycle(t, c)
  BY LoopCloses
<1>4. UNCHANGED <<alive, inst, orphan>>
  BY DEF LoopStep, Turn, Ensure, Get, ClaimSending, Send, Transport, MarkDelivered, MarkFailed, LoopThrows,
     Complete, Throw, MutationSucceeds, MutationThrows
<1>5. /\ tasks' \in [Tasks -> TaskRecord] /\ TasksShaped'
      /\ \A u \in Tasks : tasks'[u].cycleCount = tasks[u].cycleCount
      /\ \A u \in Tasks : u # t => tasks'[u] = tasks[u]
  <2>1. CASE UNCHANGED tasks
    BY <2>1 DEF IInv, TypeOK, TasksShaped
  <2>2. CASE ClosesCycle(t, c)
    <3>1. tasks' = [tasks EXCEPT ![t] = tasks'[t]] /\ tasks'[t] \in TaskRecord /\ Shaped(tasks'[t])
          /\ tasks'[t].cycleCount = tasks[t].cycleCount
      BY <2>2 DEF ClosesCycle, Sound, Leaves
    <3>2. tasks' \in [Tasks -> TaskRecord] /\ \A u \in Tasks : u # t => tasks'[u] = tasks[u]
      BY <3>1 DEF IInv, TypeOK
    <3>3. \A u \in Tasks : Shaped(tasks'[u])
      BY <3>1, <3>2 DEF IInv, TasksShaped
    <3> QED
      BY <3>1, <3>2, <3>3 DEF TasksShaped, Shaped
  <2> QED
    BY <1>3, <2>1, <2>2
<1>6. LoopsInStep' /\ TurnsAreWakes'
  BY <1>1, <1>2 DEF KeepsStep, Touches, IInv, LoopsInStep, TurnsAreWakes, AsWake
<1>7. TypeOK'
  <2>1. \A i \in Jobs : sent'[i] \in 0..(2 * MaxAttempts)
    BY <1>2, <1>6, SentFits DEF Touches, LoopsInStep, InStep
  <2>2. sent' \in [Jobs -> 0..(2 * MaxAttempts)]
    BY <1>2, <2>1 DEF Touches
  <2> QED
    BY <1>2, <1>4, <1>5, <2>2 DEF Touches, IInv, TypeOK
<1>8. FreshCycles'
  <2> SUFFICES ASSUME NEW u \in Tasks, NEW d \in Cycles, d > tasks'[u].cycleCount
               PROVE  /\ job'[<<u, d>>] = NoJob /\ ledger'[<<u, d>>] = NoDelivery
                      /\ sent'[<<u, d>>] = 0 /\ faults'[<<u, d>>] = 0
    BY DEF FreshCycles
  <2>1. /\ job[<<u, d>>] = NoJob /\ ledger[<<u, d>>] = NoDelivery
        /\ sent[<<u, d>>] = 0 /\ faults[<<u, d>>] = 0
    BY <1>5 DEF IInv, FreshCycles
  <2>2. <<u, d>> \in Jobs /\ <<u, d>> # j
    BY <1>1, <2>1 DEF Jobs, NoJob
  <2> QED
    BY <1>2, <2>1, <2>2 DEF Touches
<1>9. EndsAreSettled'
  <2> SUFFICES ASSUME NEW u \in Tasks, Kind[u] = "reminder", tasks'[u].status \in {"completed", "failed"}
               PROVE  LET last == <<u, tasks'[u].cycleCount>> IN
                      /\ tasks'[u].cycleCount \in Cycles
                      /\ job'[last].pc = "none"
                      /\ ledger'[last].status = "delivered" <=> tasks'[u].status = "completed"
    BY DEF EndsAreSettled
  <2>1. CASE tasks'[u] = tasks[u]
    <3> DEFINE last == <<u, tasks[u].cycleCount>>
    <3>1. /\ tasks[u].cycleCount \in Cycles /\ job[last].pc = "none"
          /\ ledger[last].status = "delivered" <=> tasks[u].status = "completed"
      BY <2>1 DEF IInv, EndsAreSettled
    <3>2. last \in Jobs /\ last # j
      BY <1>1, <3>1 DEF Jobs
    <3> QED
      BY <1>2, <2>1, <3>1, <3>2 DEF Touches
  <2>2. CASE tasks'[u] # tasks[u]
    <3>1. u = t /\ ClosesCycle(t, c)
      BY <1>3, <1>5, <2>2
    <3>2. c = tasks[t].cycleCount /\ tasks'[t].cycleCount = c
      BY <1>5, <3>1, Counts DEF ClosesCycle, HasActiveCycle, Shaped
    <3> QED
      BY <3>1, <3>2 DEF ClosesCycle
  <2> QED
    BY <2>1, <2>2
<1> QED
  BY <1>5, <1>6, <1>7, <1>8, <1>9 DEF IInv

\* The process goes down, leaving the ledger as it is, or with a mutation of j
\* already published.
LEMMA DownKeeps ==
    ASSUME IInv, Down, orphan' \in BOOLEAN,
           \/ UNCHANGED ledger
           \/ \E j \in Jobs : job[j].pc \in MutationSteps /\ ledger' = [ledger EXCEPT ![j] = Mutated(j)]
    PROVE  IInv'
<1>1. /\ alive' = FALSE /\ UNCHANGED <<inst, tasks, sent, faults>>
      /\ job' \in [Jobs -> Job] /\ \A i \in Jobs : job'[i] = NoJob
  <2>1. NoJob \in Job
    BY DeliveryConstants DEF NoJob, Job, JobSteps
  <2> QED
    BY <2>1 DEF Down
<1>2. ledger' \in [Jobs -> Delivery] /\ \A i \in Jobs : job[i].pc = "none" => ledger'[i] = ledger[i]
  <2>1. ASSUME NEW j \in Jobs, job[j].pc \in MutationSteps, ledger' = [ledger EXCEPT ![j] = Mutated(j)]
        PROVE  ledger' \in [Jobs -> Delivery] /\ \A i \in Jobs : job[i].pc = "none" => ledger'[i] = ledger[i]
    <3>1. Mutated(j) \in Delivery /\ ledger \in [Jobs -> Delivery] /\ job[j].pc # "none"
      BY <2>1, MutatedRecord, OldValues DEF MutationSteps
    <3> HIDE DEF Jobs, Delivery
    <3> QED
      BY <2>1, <3>1
  <2> QED
    BY <2>1 DEF IInv, TypeOK
<1>3. \A i \in Jobs : InStep(NoJob, ledger'[i], sent[i], faults[i])
  <2>1. \A i \in Jobs : InStep(NoJob, ledger[i], sent[i], faults[i])
    BY OldValues DEF InStep, NoJob
  <2>2. ASSUME NEW j \in Jobs, job[j].pc \in MutationSteps, ledger' = [ledger EXCEPT ![j] = Mutated(j)]
        PROVE  \A i \in Jobs : InStep(NoJob, ledger'[i], sent[i], faults[i])
    <3>1. /\ ledger'[j] = Mutated(j) /\ \A i \in Jobs : i # j => ledger'[i] = ledger[i]
      BY <2>2, OldValues
    <3>2. /\ Mutated(j).attempts \in {ledger[j].attempts, ledger[j].attempts + 1}
          /\ Mutated(j).status = "delivered" => job[j].pc = "markDelivered" \/ ledger[j].status = "delivered"
      <4>1. CASE job[j].pc = "claim"
        BY <4>1, <2>2, MutatedRecord
      <4> QED
        BY <4>1, <2>2, MutatedRecord DEF MutationSteps
    <3>3. InStep(NoJob, Mutated(j), sent[j], faults[j])
      BY <3>2, OldValues DEF InStep, NoJob
    <3> QED
      BY <2>1, <3>1, <3>3
  <2> QED
    BY <2>1, <2>2
<1>4. LoopsInStep' /\ TurnsAreWakes'
  BY <1>1, <1>3 DEF LoopsInStep, TurnsAreWakes, NoJob
<1>5. TypeOK'
  BY <1>1, <1>2 DEF IInv, TypeOK
<1>6. FreshCycles'
  <2> SUFFICES ASSUME NEW u \in Tasks, NEW d \in Cycles, d > tasks[u].cycleCount
               PROVE  /\ job'[<<u, d>>] = NoJob /\ ledger'[<<u, d>>] = NoDelivery
                      /\ sent[<<u, d>>] = 0 /\ faults[<<u, d>>] = 0
    BY <1>1 DEF FreshCycles
  <2>1. <<u, d>> \in Jobs
    BY DEF Jobs
  <2> QED
    BY <1>1, <1>2, <2>1 DEF IInv, FreshCycles, NoJob
<1>7. EndsAreSettled'
  <2> SUFFICES ASSUME NEW u \in Tasks, Kind[u] = "reminder", tasks[u].status \in {"completed", "failed"}
               PROVE  LET last == <<u, tasks[u].cycleCount>> IN
                      /\ tasks[u].cycleCount \in Cycles
                      /\ job'[last].pc = "none"
                      /\ ledger'[last].status = "delivered" <=> tasks[u].status = "completed"
    BY <1>1 DEF EndsAreSettled
  <2>1. <<u, tasks[u].cycleCount>> \in Jobs /\ tasks[u].cycleCount \in Cycles
    BY DEF Jobs, IInv, EndsAreSettled
  <2> QED
    BY <1>1, <1>2, <2>1 DEF IInv, EndsAreSettled, NoJob
<1> QED
  BY <1>1, <1>4, <1>5, <1>6, <1>7 DEF IInv, TasksShaped

LEMMA BootKeeps == ASSUME IInv, Boot PROVE IInv'
<1>1. /\ UNCHANGED <<ledger, orphan, job, sent, faults>>
      /\ alive' \in BOOLEAN /\ inst' \in 0..MaxBoots
  BY DeliveryConstants DEF Boot, IInv, TypeOK
<1>2. PICK expired \in SUBSET Tasks :
        tasks' = [t \in Tasks |->
              IF t \in expired /\ IsActive(tasks[t])
              THEN Reconciled(tasks[t], tasks[t].activeCycleId, "reclaim", 0, 0)
              ELSE tasks[t]]
  BY DEF Boot
<1>3. ASSUME NEW t \in Tasks
      PROVE  /\ tasks'[t] \in TaskRecord /\ Shaped(tasks'[t]) /\ tasks'[t].cycleCount = tasks[t].cycleCount
             /\ tasks'[t] = tasks[t] \/ tasks'[t].status = "pending"
  <2>1. CASE tasks'[t] = tasks[t]
    BY <2>1, Counts
  <2>2. CASE /\ IsActive(tasks[t])
             /\ tasks'[t] = Reconciled(tasks[t], tasks[t].activeCycleId, "reclaim", 0, 0)
    <3>1. tasks[t].activeCycleId \in Cycles /\ tasks[t] \in TaskRecord /\ Shaped(tasks[t])
      BY <2>2, Counts DEF Shaped
    <3> DEFINE m == Reconciled(tasks[t], tasks[t].activeCycleId, "reclaim", 0, 0)
    <3>2. m = tasks[t] \/ (Sound(tasks[t], m) /\ Leaves(tasks[t], m) /\ m.status = "pending")
      BY <3>1, ReconciledLeaves
    <3>3. CASE m = tasks[t]
      BY <2>1, <2>2, <3>3
    <3> HIDE DEF m
    <3>4. tasks'[t] = m
      BY <2>2 DEF m
    <3>5. CASE Sound(tasks[t], m) /\ Leaves(tasks[t], m) /\ m.status = "pending"
      BY <3>4, <3>5 DEF Sound, Leaves
    <3> QED
      BY <3>2, <3>3, <3>5
  <2> QED
    BY <1>2, <2>1, <2>2
<1>4. tasks' \in [Tasks -> TaskRecord]
  BY <1>2, <1>3
<1>5. TypeOK'
  BY <1>1, <1>4 DEF IInv, TypeOK
<1>6. TasksShaped' /\ FreshCycles' /\ LoopsInStep' /\ TurnsAreWakes'
  BY <1>1, <1>3 DEF IInv, TasksShaped, FreshCycles, LoopsInStep, TurnsAreWakes, AsWake
<1>7. EndsAreSettled'
  <2>1. \A t \in Tasks : tasks'[t].status \in {"completed", "failed"} => tasks'[t] = tasks[t]
    BY <1>3
  <2> QED
    BY <1>1, <2>1 DEF IInv, EndsAreSettled
<1> QED
  BY <1>5, <1>6, <1>7 DEF IInv

\* A task is written outside a loop: it is cancelled, or its next cycle is
\* claimed, and then the loop of that cycle begins.
LEMMA ClaimKeeps == ASSUME IInv, NEW t \in Tasks, Claim(t) PROVE IInv'
<1> DEFINE c == tasks[t].cycleCount + 1
           j == <<t, c>>
           m == AfterClaim(tasks[t], 0, inst, 0)
           claimed == ClaimResult(tasks[t], 0, 0) = "claimed"
<1>1. /\ UNCHANGED <<alive, inst, ledger, orphan, sent, faults>>
      /\ tasks' = [tasks EXCEPT ![t] = m]
      /\ IF claimed THEN Go(j, IF AsWake(t) THEN "turn" ELSE "ensure") ELSE UNCHANGED job
  BY DEF Claim, SetTask
<1>2. inst \in Nat /\ tasks[t] \in TaskRecord /\ Shaped(tasks[t]) /\ tasks[t].cycleCount \in Nat
  BY DeliveryConstants, Counts DEF IInv, TypeOK
<1>3. /\ claimed => /\ Sound(tasks[t], m) /\ Takes(tasks[t], m, inst) /\ c \in Cycles
      /\ ~claimed => m = tasks[t] \/ (Sound(tasks[t], m) /\ Leaves(tasks[t], m) /\ m.status = "expired")
  BY <1>2, AfterClaimTakes
<1> HIDE DEF m, claimed
<1>4. /\ m \in TaskRecord /\ Shaped(m)
      /\ tasks' \in [Tasks -> TaskRecord] /\ tasks'[t] = m /\ \A u \in Tasks : u # t => tasks'[u] = tasks[u]
      /\ m.cycleCount = IF claimed THEN c ELSE tasks[t].cycleCount
      /\ m = tasks[t] \/ m.status \in {"claimed", "expired"}
  <2>1. m \in TaskRecord /\ Shaped(m)
    BY <1>2, <1>3 DEF Sound
  <2>2. tasks' \in [Tasks -> TaskRecord] /\ tasks'[t] = m /\ \A u \in Tasks : u # t => tasks'[u] = tasks[u]
    BY <1>1, <2>1 DEF IInv, TypeOK
  <2> QED
    BY <1>3, <2>1, <2>2 DEF Takes, Leaves
<1>5. /\ job' \in [Jobs -> Job] /\ \A i \in Jobs : i # j => job'[i] = job[i]
      /\ claimed => /\ j \in Jobs /\ job[j] = NoJob /\ ledger[j] = NoDelivery /\ sent[j] = 0 /\ faults[j] = 0
                    /\ job'[j] = [pc |-> IF AsWake(t) THEN "turn" ELSE "ensure", attempt |-> 0]
      /\ ~claimed => UNCHANGED job
  <2>1. CASE ~claimed
    BY <1>1, <2>1, OldValues DEF IInv, TypeOK
  <2>2. CASE claimed
    <3>1. /\ c \in Cycles /\ c > tasks[t].cycleCount
      BY <1>2, <1>3, <2>2
    <3>2. /\ j \in Jobs /\ job[j] = NoJob /\ ledger[j] = NoDelivery /\ sent[j] = 0 /\ faults[j] = 0
      BY <3>1 DEF IInv, FreshCycles, Jobs
    <3> DEFINE pc == IF AsWake(t) THEN "turn" ELSE "ensure"
    <3>3. pc \in JobSteps /\ Go(j, pc) /\ job[j].attempt = 0
      BY <1>1, <2>2, <3>2 DEF JobSteps, MutationSteps, NoJob
    <3> HIDE DEF pc
    <3>4. /\ job' \in [Jobs -> Job] /\ job'[j] = [pc |-> pc, attempt |-> job[j].attempt]
          /\ \A i \in Jobs : i # j => job'[i] = job[i]
      BY <3>2, <3>3, OldValues, GoEffect
    <3> QED
      BY <2>2, <3>2, <3>3, <3>4 DEF pc
  <2> QED
    BY <2>1, <2>2
<1>6. LoopsInStep' /\ TurnsAreWakes'
  <2>1. claimed => InStep(job'[j], ledger[j], sent[j], faults[j])
    BY <1>5, DeliveryConstants DEF InStep, NoDelivery
  <2>2. \A i \in Jobs : InStep(job'[i], ledger[i], sent[i], faults[i])
    BY <1>5, <2>1 DEF IInv, LoopsInStep
  <2>3. \A i \in Jobs : job'[i].pc = "turn" => AsWake(i[1])
    BY <1>5 DEF IInv, TurnsAreWakes
  <2> QED
    BY <1>1, <2>2, <2>3 DEF LoopsInStep, TurnsAreWakes, AsWake
<1>7. TypeOK'
  BY <1>1, <1>4, <1>5 DEF IInv, TypeOK
<1>8. TasksShaped'
  BY <1>4 DEF IInv, TasksShaped
<1>9. FreshCycles'
  <2> SUFFICES ASSUME NEW u \in Tasks, NEW d \in Cycles, d > tasks'[u].cycleCount
               PROVE  /\ job'[<<u, d>>] = NoJob /\ ledger[<<u, d>>] = NoDelivery
                      /\ sent[<<u, d>>] = 0 /\ faults[<<u, d>>] = 0
    BY <1>1 DEF FreshCycles
  <2>0. d \in Nat /\ tasks'[u].cycleCount >= tasks[u].cycleCount /\ tasks[u].cycleCount \in Nat
        /\ tasks'[u].cycleCount \in Nat
    BY <1>2, <1>4, StoreConstants, Counts DEF Cycles
  <2>1. d > tasks[u].cycleCount /\ <<u, d>> \in Jobs
    BY <2>0 DEF Jobs
  <2>2. /\ job[<<u, d>>] = NoJob /\ ledger[<<u, d>>] = NoDelivery
        /\ sent[<<u, d>>] = 0 /\ faults[<<u, d>>] = 0
    BY <2>1 DEF IInv, FreshCycles
  <2>3. claimed => <<u, d>> # j
    BY <1>2, <1>4
  <2> QED
    BY <1>5, <2>1, <2>2, <2>3
<1>10. EndsAreSettled'
  <2> SUFFICES ASSUME NEW u \in Tasks, Kind[u] = "reminder", tasks'[u].status \in {"completed", "failed"}
               PROVE  LET last == <<u, tasks'[u].cycleCount>> IN
                      /\ tasks'[u].cycleCount \in Cycles
                      /\ job'[last].pc = "none"
                      /\ ledger[last].status = "delivered" <=> tasks'[u].status = "completed"
    BY <1>1 DEF EndsAreSettled
  <2>1. tasks'[u] = tasks[u]
    BY <1>4
  <2> DEFINE last == <<u, tasks[u].cycleCount>>
  <2>2. /\ tasks[u].cycleCount \in Cycles /\ job[last].pc = "none"
        /\ ledger[last].status = "delivered" <=> tasks[u].status = "completed"
    BY <2>1 DEF IInv, EndsAreSettled
  <2>3. last \in Jobs /\ last # j
    BY <1>2, <2>2 DEF Jobs
  <2> QED
    BY <1>5, <2>1, <2>2, <2>3
<1> QED
  BY <1>6, <1>7, <1>8, <1>9, <1>10 DEF IInv

LEMMA CancelKeeps == ASSUME IInv, NEW t \in Tasks, Cancel(t) PROVE IInv'
<1> DEFINE m == Cancelled(tasks[t], 0)
<1>1. /\ UNCHANGED <<alive, inst, ledger, orphan, job, sent, faults>> /\ tasks[t].status # "absent"
      /\ tasks' = [tasks EXCEPT ![t] = m]
  BY DEF Cancel, SetTask
<1>2. m = tasks[t] \/ (Sound(tasks[t], m) /\ Leaves(tasks[t], m) /\ m.status = "cancelled")
  BY <1>1, Counts, CancelledLeaves
<1> HIDE DEF m
<1>3. m \in TaskRecord /\ Shaped(m) /\ m.cycleCount = tasks[t].cycleCount
      /\ (m = tasks[t] \/ m.status = "cancelled")
  BY <1>2, Counts DEF Sound, Leaves
<1>4. tasks' \in [Tasks -> TaskRecord] /\ tasks'[t] = m /\ \A u \in Tasks : u # t => tasks'[u] = tasks[u]
  BY <1>1, <1>3 DEF IInv, TypeOK
<1>5. TypeOK' /\ TasksShaped'
  BY <1>1, <1>3, <1>4 DEF IInv, TypeOK, TasksShaped
<1>6. FreshCycles' /\ LoopsInStep' /\ TurnsAreWakes'
  BY <1>1, <1>3, <1>4 DEF IInv, FreshCycles, LoopsInStep, TurnsAreWakes, AsWake
<1>7. EndsAreSettled'
  <2>1. \A u \in Tasks : tasks'[u].status \in {"completed", "failed"} => tasks'[u] = tasks[u]
    BY <1>3, <1>4
  <2> QED
    BY <1>1, <2>1 DEF IInv, EndsAreSettled
<1> QED
  BY <1>5, <1>6, <1>7 DEF IInv

-----------------------------------------------------------------------------
(* The invariant. *)

\* At the start every task is pending or unknown, and no cycle was claimed.
LEMMA InitHolds == Init => IInv
<1> SUFFICES ASSUME Init PROVE IInv
  OBVIOUS
<1>1. /\ alive = FALSE /\ inst = 0 /\ orphan = FALSE
      /\ ledger = [j \in Jobs |-> NoDelivery] /\ job = [j \in Jobs |-> NoJob]
      /\ sent = [j \in Jobs |-> 0] /\ faults = [j \in Jobs |-> 0]
  BY DEF Init, NoDelivery
<1>2. PICK mix \in Mixes :
        tasks = [t \in Tasks |-> [NewReminder(t) EXCEPT !.status = IF t \in mix THEN "pending" ELSE "absent"]]
  BY DEF Init
<1>3. ASSUME NEW t \in Tasks
      PROVE  /\ tasks[t] \in TaskRecord /\ Shaped(tasks[t])
             /\ tasks[t].status \in {"pending", "absent"} /\ tasks[t].cycleCount = 0
  <2> DEFINE r == [kind |-> Kind[t], delay |-> 0, lifetime |-> NoTime, interval |-> 0,
                   maxCycles |-> MaxCycles[t], principal |-> "p", matches |-> FALSE]
             s == IF t \in mix THEN "pending" ELSE "absent"
             k == NewReminder(t)
             m == [k EXCEPT !.status = s]
  <2>1. Kind[t] \in Kinds /\ MaxCycles[t] \in Cycles /\ 0 \in Nat /\ NoTime \in OptionalTime
    BY DeliveryConstants, NoValues
  <2>2. /\ r.kind \in Kinds /\ r.delay \in Nat /\ r.lifetime \in OptionalTime
        /\ r.interval \in Nat /\ r.maxCycles \in Cycles
    BY <2>1
  <2>3. k = AbsentTask(r)
    BY DEF NewReminder
  <2>4. k \in TaskRecord
    BY <2>2, <2>3, RequestedType
  <2>5. /\ k.cycleCount = 0 /\ k.activeCycleId = NoCycle /\ k.claimOwner = NoOwner
        /\ k.maxCycles = MaxCycles[t]
    BY <2>3 DEF AbsentTask, NewTask
  <2> HIDE DEF k
  <2>6. s \in Statuses /\ s \in {"pending", "absent"}
    BY NoValues
  <2> HIDE DEF s
  <2>7. m \in TaskRecord
    BY <2>4, <2>6, Zenon DEF TaskRecord
  <2>8. /\ m.status = s /\ m.cycleCount = 0 /\ m.activeCycleId = NoCycle /\ m.claimOwner = NoOwner
        /\ m.maxCycles = MaxCycles[t]
    BY <2>4, <2>5 DEF TaskRecord
  <2>9. tasks[t] = m
    BY <1>2 DEF k, s
  <2> HIDE DEF m
  <2>10. Shaped(m)
    BY <2>1, <2>6, <2>8, StoreConstants DEF Shaped, IsActive, ActiveStatuses, Cycles
  <2> QED
    BY <2>6, <2>7, <2>8, <2>9, <2>10
<1>4. TypeOK
  <2>1. NoDelivery \in Delivery /\ NoJob \in Job /\ 0 \in 0..MaxBoots /\ 0 \in 0..(2 * MaxAttempts)
    BY DeliveryConstants DEF NoDelivery, Delivery, NoJob, Job, JobSteps
  <2>2. tasks \in [Tasks -> TaskRecord]
    BY <1>2, <1>3
  <2> QED
    BY <1>1, <2>1, <2>2 DEF TypeOK
<1>5. TasksShaped /\ EndsAreSettled
  BY <1>3 DEF TasksShaped, EndsAreSettled
<1>6. FreshCycles
  BY <1>1 DEF FreshCycles, Jobs
<1>7. LoopsInStep /\ TurnsAreWakes
  BY <1>1, DeliveryConstants DEF LoopsInStep, TurnsAreWakes, InStep, NoJob, NoDelivery
<1> QED
  BY <1>4, <1>5, <1>6, <1>7 DEF IInv

LEMMA StepHolds == IInv /\ [Next]_vars => IInv'
<1> SUFFICES ASSUME IInv, [Next]_vars PROVE IInv'
  OBVIOUS
<1>1. CASE Boot
  BY <1>1, BootKeeps
<1>2. CASE Crash
  <2>1. orphan' \in BOOLEAN
    BY <1>2 DEF Crash, IInv, TypeOK
  <2> QED
    BY <1>2, <2>1, DownKeeps DEF Crash
<1>3. ASSUME NEW t \in Tasks, Claim(t) PROVE IInv'
  BY <1>3, ClaimKeeps
<1>4. ASSUME NEW t \in Tasks, Cancel(t) PROVE IInv'
  BY <1>4, CancelKeeps
<1>5. ASSUME NEW j \in Jobs, LoopStep(j) PROVE IInv'
  BY <1>5, LoopKeeps
<1>6. ASSUME NEW j \in Jobs, CrashInMutation(j) PROVE IInv'
  <2>1. /\ Down /\ orphan' \in BOOLEAN /\ job[j].pc \in MutationSteps
        /\ ledger' = ledger \/ ledger' = [ledger EXCEPT ![j] = Mutated(j)]
    BY <1>6 DEF CrashInMutation
  <2> QED
    BY <2>1, DownKeeps
<1>7. CASE UNCHANGED vars
  BY <1>7 DEF vars, IInv, TypeOK, TasksShaped, FreshCycles, LoopsInStep, TurnsAreWakes, AsWake, EndsAreSettled
<1> QED
  BY <1>1, <1>2, <1>3, <1>4, <1>5, <1>6, <1>7 DEF Next

\* Every reachable state satisfies the inductive invariant.
THEOREM InvariantHolds == Spec => []IInv
  BY InitHolds, StepHolds, PTL DEF Spec

-----------------------------------------------------------------------------
(* What follows. *)

\* The records keep their types: no delivery counts more attempts than
\* MaxAttempts, and no cycle sends more than two messages per attempt.
THEOREM TypesHold == Spec => []TypeOK
<1>1. IInv => TypeOK
  BY DEF IInv
<1> QED
  BY <1>1, InvariantHolds, PTL

\* Task, ledger and destination agree in every state: a completed reminder was
\* delivered by its last cycle, a failed one was not, and every message that
\* was sent belongs to a recorded attempt, whatever crashes.
THEOREM LedgerTells == Spec => []LedgerIsTrue
<1>1. IInv => SendsAreRecorded
  BY DEF IInv, LoopsInStep, InStep, SendsAreRecorded
<1>2. IInv => OutcomeMatchesLedger
  <2> SUFFICES ASSUME IInv, NEW t \in Tasks, Kind[t] = "reminder"
               PROVE  LET last == <<t, tasks[t].cycleCount>> IN
                      /\ tasks[t].status = "completed" => ledger[last].status = "delivered" /\ sent[last] > 0
                      /\ tasks[t].status = "failed" => ledger[last].status # "delivered"
    BY DEF OutcomeMatchesLedger
  <2> SUFFICES ASSUME tasks[t].status \in {"completed", "failed"}
               PROVE  LET last == <<t, tasks[t].cycleCount>> IN
                      /\ tasks[t].status = "completed" => ledger[last].status = "delivered" /\ sent[last] > 0
                      /\ tasks[t].status = "failed" => ledger[last].status # "delivered"
    OBVIOUS
  <2> DEFINE last == <<t, tasks[t].cycleCount>>
  <2>1. /\ tasks[t].cycleCount \in Cycles
        /\ ledger[last].status = "delivered" <=> tasks[t].status = "completed"
    BY DEF IInv, EndsAreSettled
  <2>2. last \in Jobs
    BY <2>1 DEF Jobs
  <2>3. ledger[last].status = "delivered" => sent[last] > 0
    BY <2>2 DEF IInv, LoopsInStep, InStep
  <2> QED
    BY <2>1, <2>3
<1> QED
  BY <1>1, <1>2, InvariantHolds, PTL DEF LedgerIsTrue

\* A delivery repeats its message at most once for every lost answer and every
\* ledger mutation that threw: retries, the Markdown fallback, crashes and
\* restarts alone never repeat it.
THEOREM FaultsExplainRepeats == Spec => []RepeatsNeedAFault
<1>1. IInv => RepeatsNeedAFault
  BY DEF IInv, LoopsInStep, InStep, RepeatsNeedAFault
<1> QED
  BY <1>1, InvariantHolds, PTL
=============================================================================
