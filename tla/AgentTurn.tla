------------------------------ MODULE AgentTurn ------------------------------
(***************************************************************************)
(* One turn of src/runtime/agentLoop.ts with the model call of the HTTP    *)
(* adapters (src/provider/openai-http.ts) and the tool envelope of         *)
(* src/tools/registry.ts.  The user may cancel and the deadline may pass   *)
(* between any two steps; store writes may fail.                           *)
(*                                                                         *)
(* A reply of the model is the set of actions its text claims to have      *)
(* done, or the tools it calls, or neither; which tool a claim needs is    *)
(* the tool itself.  No adapter that getActiveLlmProvider returns reports  *)
(* "cancelled" or looks at the abort signal, so the branch of the loop     *)
(* that handles it is left out.                                            *)
(***************************************************************************)
EXTENDS Naturals, Sequences

CONSTANTS
    Tools,              \* ordinary tools
    MaxIterations,      \* maxIterations of the profile or the specialist
    ToolLimit,          \* maxToolCalls
    MaxAttempts,        \* OPENAI_RETRY_POLICY.maxAttempts (1: Anthropic, Gemini)
    MaxBatch            \* bound: tool calls in one reply

Terminal == {"scheduler_task_complete", "scheduler_task_reschedule"}

ASSUME TurnConstants ==
    /\ Tools \cap Terminal = {}
    /\ MaxIterations \in Nat /\ ToolLimit \in Nat \ {0}
    /\ MaxAttempts \in Nat \ {0} /\ MaxBatch \in Nat \ {0}

VARIABLES
    origin,             \* options.executionProfile.origin
    pc,                 \* the await the turn is at
    iteration, attempt, \* the loop counters of agentLoop and of the adapter
    reply,              \* what the adapter returned
    batch,              \* tool calls of the reply still to be executed
    toolCallCount,
    repaired,           \* groundingRepairAttempts > 0
    successfulTools,    \* tools with an "ok" envelope
    artifacts,          \* state.artifacts is not empty
    action,             \* schedulerControl.action
    cancelRequested,    \* the run's cancel flag
    expired,            \* the deadline has passed
    outcome, answer     \* the RunOutcome, and the claims of its text

vars == <<origin, pc, iteration, attempt, reply, batch, toolCallCount, repaired,
          successfulTools, artifacts, action, cancelRequested, expired,
          outcome, answer>>

Calls == Tools \cup Terminal
Text(claims)  == [kind |-> "text", claims |-> claims, calls |-> <<>>]
CallTo(calls) == [kind |-> "calls", claims |-> {}, calls |-> calls]
Cut           == [kind |-> "cut", claims |-> {}, calls |-> <<>>]
Failure       == [kind |-> "failure", claims |-> {}, calls |-> <<>>]

Batches == UNION {[1..n -> Calls] : n \in 1..MaxBatch}
Answers == {Text(c) : c \in SUBSET Tools} \cup {CallTo(b) : b \in Batches} \cup {Cut}

Init ==
    /\ origin \in {"interactive", "scheduler"}
    /\ pc = "head" /\ iteration = 0 /\ attempt = 0
    /\ reply = Cut /\ batch = <<>> /\ toolCallCount = 0 /\ repaired = FALSE
    /\ successfulTools = {} /\ artifacts = FALSE /\ action = "none"
    /\ cancelRequested = FALSE /\ expired = FALSE
    /\ outcome = "none" /\ answer = {}

Scheduled   == origin = "scheduler"
userVars    == <<origin, cancelRequested, expired>>
toolVars    == <<batch, toolCallCount, successfulTools, artifacts>>
loopVars    == <<iteration, repaired>>
callVars    == <<attempt, reply>>
resultVars  == <<action, outcome, answer>>

-----------------------------------------------------------------------------
(* How a turn ends. *)

End(result, claims) == pc' = "done" /\ outcome' = result /\ answer' = claims

\* Mutant: the action the model selected is not looked at.
ForceTerminalActionAlways ==
    action' = "scheduler_task_reschedule" /\ End("completed", {})

\* forceSchedulerTerminalAction: an action the model selected stands.
ForceTerminalAction ==
    /\ action' = IF action = "none" THEN "scheduler_task_reschedule" ELSE action
    /\ End("completed", {})

\* A way out of the loop: a scheduled turn always selects an action.
EndWith(result, claims) ==
    IF Scheduled THEN ForceTerminalAction
    ELSE End(result, claims) /\ UNCHANGED action

-----------------------------------------------------------------------------
(* The loop: the deadline is looked at before the cancel flag. *)

Iterate ==
    /\ pc = "head"
    /\ IF iteration >= MaxIterations
       THEN EndWith("failed", {}) /\ UNCHANGED iteration
       ELSE /\ iteration' = iteration + 1
            /\ IF expired
               THEN EndWith(IF artifacts THEN "completed" ELSE "failed", {})
               ELSE IF cancelRequested THEN End("cancelled", {}) /\ UNCHANGED action
               ELSE pc' = "call" /\ UNCHANGED resultVars
    /\ UNCHANGED <<userVars, toolVars, repaired, callVars>>

CallModel ==
    /\ pc = "call"
    /\ pc' = "attempt" /\ attempt' = 1
    /\ UNCHANGED <<userVars, toolVars, loopVars, reply, resultVars>>

AttemptAnswers ==
    /\ pc = "attempt"
    /\ \E r \in Answers : reply' = r
    /\ pc' = "reply"
    /\ UNCHANGED <<userVars, toolVars, loopVars, attempt, resultVars>>

\* Mutant: one attempt too many.
OneMoreAttempt(transient) == transient /\ attempt <= MaxAttempts

MayRetry(transient) == transient /\ attempt < MaxAttempts

\* A failed fetch or an HTTP error.
AttemptFails(transient) ==
    /\ pc = "attempt"
    /\ IF MayRetry(transient)
       THEN pc' = "backoff" /\ UNCHANGED reply
       ELSE pc' = "reply" /\ reply' = Failure
    /\ UNCHANGED <<userVars, toolVars, loopVars, attempt, resultVars>>

Retry ==
    /\ pc = "backoff"
    /\ pc' = "attempt" /\ attempt' = attempt + 1
    /\ UNCHANGED <<userVars, toolVars, loopVars, reply, resultVars>>

-----------------------------------------------------------------------------
(* What the loop makes of a reply. *)

\* findUngroundedActionClaims
Ungrounded(claims) == ~(claims \subseteq successfulTools)

\* A text that claims what no tool did is sent back once, then replaced.
ReplyText ==
    /\ pc = "reply" /\ reply.kind = "text"
    /\ IF ~Scheduled /\ Ungrounded(reply.claims)
       THEN IF ~repaired /\ iteration < MaxIterations
            THEN repaired' = TRUE /\ pc' = "head" /\ UNCHANGED resultVars
            ELSE End("completed", {}) /\ UNCHANGED <<repaired, action>>
       ELSE EndWith("completed", reply.claims) /\ UNCHANGED repaired
    /\ UNCHANGED <<userVars, toolVars, iteration, callVars>>

ReplyFails ==
    /\ pc = "reply" /\ reply.kind \in {"failure", "cut"}
    /\ EndWith("failed", {})
    /\ UNCHANGED <<userVars, toolVars, loopVars, callVars>>

ReplyCalls ==
    /\ pc = "reply" /\ reply.kind = "calls"
    /\ batch' = reply.calls /\ pc' = "tools"
    /\ UNCHANGED <<userVars, toolCallCount, successfulTools, artifacts,
                   loopVars, callVars, resultVars>>

-----------------------------------------------------------------------------
(* The tool calls of a reply, one after the other. *)

IsTerminalAction(c) == Scheduled /\ c \in Terminal

\* Mutant: no call is kept for the terminal action.
OverBudgetUnreserved(c) == toolCallCount >= ToolLimit

\* The last call of a scheduled turn is kept for its terminal action.
OverBudget(c) ==
    \/ Scheduled /\ ~IsTerminalAction(c) /\ toolCallCount >= ToolLimit - 1
    \/ toolCallCount >= ToolLimit

DispatchTool ==
    /\ pc = "tools" /\ batch # <<>>
    /\ IF OverBudget(Head(batch))
       THEN EndWith("failed", {}) /\ UNCHANGED toolCallCount
       ELSE toolCallCount' = toolCallCount + 1 /\ pc' = "tool" /\ UNCHANGED resultVars
    /\ UNCHANGED <<userVars, batch, successfulTools, artifacts, loopVars, callVars>>

NextTool == pc' = "tools" /\ batch' = Tail(batch)

\* Unknown tool, bad input, approval required, or execute() throws: a terminal
\* action throws when one is selected already or the turn is not scheduled.
ToolFails ==
    /\ pc = "tool"
    /\ NextTool
    /\ UNCHANGED <<userVars, toolCallCount, successfulTools, artifacts,
                   loopVars, callVars, resultVars>>

ToolReturns ==
    LET c == Head(batch) IN
    /\ pc = "tool"
    /\ c \in Terminal => Scheduled /\ action = "none"
    /\ action' = IF c \in Terminal THEN c ELSE action
    /\ artifacts' \in IF c \in Terminal THEN {artifacts} ELSE {artifacts, TRUE}
    /\ pc' = "record"
    /\ UNCHANGED <<userVars, batch, toolCallCount, successfulTools, loopVars, callVars, outcome, answer>>

\* The call is recorded in the run; the terminal action ends the turn.
RecordTool ==
    LET c == Head(batch) IN
    /\ pc = "record"
    /\ successfulTools' = successfulTools \cup {c}
    /\ IF IsTerminalAction(c)
       THEN End("completed", {}) /\ batch' = batch
       ELSE NextTool /\ UNCHANGED <<outcome, answer>>
    /\ UNCHANGED <<userVars, toolCallCount, artifacts, loopVars, callVars, action>>

\* Recording fails: the catch block reports what was executed as an error.
RecordFails ==
    /\ pc = "record"
    /\ NextTool
    /\ UNCHANGED <<userVars, toolCallCount, successfulTools, artifacts,
                   loopVars, callVars, resultVars>>

BatchDone ==
    /\ pc = "tools" /\ batch = <<>>
    /\ pc' = "head"
    /\ UNCHANGED <<userVars, toolVars, loopVars, callVars, resultVars>>

\* A store write of the loop fails, or the body of a response is no JSON.
TurnThrows ==
    /\ pc # "done"
    /\ End("thrown", {})
    /\ UNCHANGED <<userVars, toolVars, loopVars, callVars, action>>

-----------------------------------------------------------------------------
(* The surroundings. *)

CancelRun ==
    /\ pc # "done" /\ ~cancelRequested
    /\ cancelRequested' = TRUE
    /\ UNCHANGED <<origin, pc, expired, toolVars, loopVars, callVars, resultVars>>

DeadlinePasses ==
    /\ pc # "done" /\ ~expired
    /\ expired' = TRUE
    /\ UNCHANGED <<origin, pc, cancelRequested, toolVars, loopVars, callVars, resultVars>>

Step ==
    \/ Iterate \/ CallModel \/ AttemptAnswers \/ Retry
    \/ \E transient \in BOOLEAN : AttemptFails(transient)
    \/ ReplyText \/ ReplyFails \/ ReplyCalls
    \/ DispatchTool \/ ToolFails \/ ToolReturns \/ RecordTool \/ RecordFails \/ BatchDone

Next == Step \/ TurnThrows \/ CancelRun \/ DeadlinePasses

Spec == Init /\ [][Next]_vars

\* Fetches and tools end (each has a hard timeout), timers fire.
Fairness == WF_vars(Step)
FairSpec == Spec /\ Fairness

-----------------------------------------------------------------------------
(* Properties. *)

\* Every variable has its type.
TypeOK ==
    /\ origin \in {"interactive", "scheduler"}
    /\ pc \in {"head", "call", "attempt", "backoff", "reply", "tools", "tool", "record", "done"}
    /\ iteration \in 0..MaxIterations /\ attempt \in 0..MaxAttempts
    /\ reply \in Answers \cup {Failure}
    /\ batch \in Seq(Calls)
    /\ toolCallCount \in 0..ToolLimit
    /\ repaired \in BOOLEAN /\ artifacts \in BOOLEAN
    /\ cancelRequested \in BOOLEAN /\ expired \in BOOLEAN
    /\ successfulTools \subseteq Calls
    /\ action \in Terminal \cup {"none"}
    /\ outcome \in {"none", "completed", "failed", "cancelled", "thrown"}
    /\ answer \subseteq Tools

\* However a scheduled turn leaves the loop - limits, deadline, failure, plain
\* text or its own choice - it completes with a terminal action selected, and
\* an action the model selected is never replaced; only cancellation and an
\* exception leave the cycle without one.
ScheduledTurnsSelect ==
    [][/\ (Scheduled /\ outcome' \in {"completed", "failed"})
            => (outcome' = "completed" /\ action' # "none")
       /\ action # "none" => action' = action]_vars

\* A scheduled turn that goes on can still afford its terminal action: probes
\* never use up the last call.
LastCallIsReserved ==
    (Scheduled /\ pc = "tool" /\ Head(batch) \notin Terminal) => toolCallCount < ToolLimit

TurnEnded == pc = "done"

\* Every turn ends, over retries, repairs and tool batches.
TurnsEnd == <>TurnEnded

-----------------------------------------------------------------------------
(* What the documents say and the code does not do. *)

\* README.md, ALFRED_AGENT_MAX_DURATION_MS: a hard deadline per run.  No fetch
\* and no tool is started after it.
DeadlineIsHard ==
    [][expired => ~(pc \in {"call", "backoff", "tools"} /\ pc' \in {"attempt", "tool"})]_vars
=============================================================================
