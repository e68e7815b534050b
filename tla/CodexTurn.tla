------------------------------ MODULE CodexTurn ------------------------------
(***************************************************************************)
(* One turn of src/runtime/codexAppServerRuntime.ts: the JSON-RPC client   *)
(* of a Codex App Server process (src/provider/codex/appServerClient.ts),  *)
(* the turn driven over it (appServerTurn.ts), and the dynamic tools the   *)
(* server calls back.                                                      *)
(*                                                                         *)
(* The client is made for the turn.  Promises resolve in a later step than *)
(* the event that settles them: several lines of one chunk, the death of   *)
(* the process and timers may come in between.                             *)
(***************************************************************************)
EXTENDS Naturals, FiniteSets

CONSTANTS
    Calls,          \* dynamic tool calls the server may make
    MaxToolCalls    \* maxToolCalls of the profile

\* What the constants may be.
CodexConstants == IsFiniteSet(Calls) /\ MaxToolCalls \in Nat

VARIABLES
    scheduled,      \* profile.origin is "scheduler"
    server,         \* the process: "unborn", "running", "dropped" (malformed
                    \* line; alive, but no longer the client's), "killed", "gone"
    closed, initialized,    \* fields of CodexAppServerClient
    phase,          \* the await runSafeAppServerTurn is at
    turnBegun,      \* the server knows of the turn (not in the code)
    request,        \* its request: "none", "pending", "ok", "error"
    completion,     \* the completion promise
    race,           \* Promise.race of completion, abort and timeout
    aborted,        \* controller.signal.reason
    cancelRequested,\* the run's cancel flag
    call,           \* progress of each tool call
    toolCallCount, limitReached,
    executed,       \* tool calls that were started (not in the code)
    action,         \* the turn selected a terminal action
    outcome,        \* status of the RunOutcome
    gateway         \* "up", or "died" of an unhandled rejection

serverVars == <<server, closed, initialized>>
turnVars   == <<phase, turnBegun, request, completion, race>>
toolVars   == <<call, toolCallCount, limitReached, executed>>
vars       == <<scheduled, serverVars, turnVars, toolVars, aborted, cancelRequested,
                action, outcome, gateway>>

Requests == {"init", "thread", "history", "turn", "interrupt"}
Results  == {"completed", "interrupted", "failed"}

Init ==
    /\ scheduled \in BOOLEAN
    /\ server = "unborn" /\ closed = FALSE /\ initialized = FALSE
    /\ phase = "start" /\ turnBegun = FALSE /\ request = "none" /\ completion = "none" /\ race = "none"
    /\ aborted = "no" /\ cancelRequested = FALSE
    /\ call = [c \in Calls |-> "unmade"] /\ toolCallCount = 0 /\ limitReached = FALSE
    /\ executed = {}
    /\ action = FALSE /\ outcome = "none" /\ gateway = "up"

Up        == gateway = "up"
Connected == server = "running" /\ ~closed      \* the client's child
Alive     == server \in {"running", "dropped", "killed"}

-----------------------------------------------------------------------------
(* The turn. *)

Return(result) == phase' = "closing" /\ request' = "none" /\ race' = result

\* request(): refused when uninitialized or aborted, else sent to the child.
Ask(method) ==
    IF initialized' /\ Connected /\ (aborted = "no" \/ method = "interrupt")
    THEN phase' = method /\ request' = "pending" /\ UNCHANGED race
    ELSE IF method = "interrupt" THEN Return(race) ELSE Return("failed")

Start ==
    /\ Up /\ phase = "start"
    /\ server' = "running" /\ phase' = "init" /\ request' = "pending"
    /\ UNCHANGED <<scheduled, closed, initialized, turnBegun, completion, race, toolVars, aborted,
                   cancelRequested, action, outcome, gateway>>

Following(method) ==
    CASE method = "init" -> {"thread"}
      [] method = "thread" -> {"history", "turn"}
      [] method = "history" -> {"turn"}

\* The await of a request returns; "initialized" is sent in the same step as
\* the next request, and fails without a child.
Continue ==
    /\ Up /\ request \in {"ok", "error"}
    /\ initialized' = (initialized \/ (phase = "init" /\ request = "ok" /\ Connected))
    /\ IF phase = "interrupt" THEN Return(race)
       ELSE IF request = "error" THEN Return("failed")
       ELSE IF phase = "turn"
       THEN phase' = "wait" /\ request' = "none" /\ race' = completion
       ELSE \E next \in Following(phase) : Ask(next)
    /\ turnBegun' = (turnBegun \/ phase' = "turn")
    /\ UNCHANGED <<scheduled, server, closed, completion, toolVars, aborted,
                   cancelRequested, action, outcome, gateway>>

\* Mutant: the race has no timeout.
TurnTimesOutNever == FALSE /\ race' = "timeout"

\* The timer of the turn; it is armed after the answer to turn/start.
TurnTimesOut == race = "none" /\ race' = "timeout"

TurnTimeout ==
    /\ Up /\ phase = "wait" /\ TurnTimesOut
    /\ UNCHANGED <<scheduled, serverVars, phase, turnBegun, request, completion, toolVars, aborted,
                   cancelRequested, action, outcome, gateway>>

EndWait ==
    /\ Up /\ phase = "wait" /\ race # "none"
    /\ initialized' = initialized
    /\ IF race \in {"interrupted", "timeout"} THEN Ask("interrupt") ELSE Return(race)
    /\ UNCHANGED <<scheduled, server, closed, turnBegun, completion, toolVars, aborted,
                   cancelRequested, action, outcome, gateway>>

\* close() kills the child the client still has.
Close ==
    /\ Up /\ phase = "closing"
    /\ closed' = TRUE /\ initialized' = FALSE
    /\ server' = IF server = "running" THEN "killed" ELSE server
    /\ phase' = "closed"
    /\ UNCHANGED <<scheduled, turnBegun, request, completion, race, toolVars, aborted,
                   cancelRequested, action, outcome, gateway>>

\* What runTurn makes of the result.
Conclude ==
    /\ Up /\ phase = "closed"
    /\ phase' = "done"
    /\ outcome' = IF cancelRequested THEN "cancelled"
                  ELSE IF race = "interrupted" /\ ~limitReached /\ aborted = "caller" THEN "cancelled"
                  ELSE IF race = "completed" THEN "completed"
                  ELSE IF race = "timeout" /\ scheduled THEN "completed"
                  ELSE "failed"
    /\ action' = (action \/ (race = "timeout" /\ scheduled /\ ~cancelRequested))
    /\ UNCHANGED <<scheduled, serverVars, turnBegun, request, completion, race, toolVars, aborted,
                   cancelRequested, gateway>>

-----------------------------------------------------------------------------
(* What the server does, and what the client makes of it. *)

Complete(result) ==
    /\ completion' = IF completion = "none" THEN result ELSE completion
    /\ race' = IF phase = "wait" /\ race = "none" THEN completion' ELSE race

\* handleCrash: nothing after close() or for a child that is not the client's.
Crash ==
    /\ initialized' = FALSE
    /\ request' = IF request = "pending" THEN "error" ELSE request
    /\ Complete("failed")

ServerAnswers ==
    /\ Up /\ server = "running" /\ request = "pending"
    /\ request' \in {"ok", "error"}
    /\ UNCHANGED <<scheduled, serverVars, phase, turnBegun, completion, race, toolVars, aborted,
                   cancelRequested, action, outcome, gateway>>

RequestTimesOut ==
    /\ Up /\ request = "pending"
    /\ request' = "error"
    /\ UNCHANGED <<scheduled, serverVars, phase, turnBegun, completion, race, toolVars, aborted,
                   cancelRequested, action, outcome, gateway>>

TurnCompleted ==
    /\ Up /\ Alive /\ turnBegun /\ completion = "none"
    /\ \E result \in Results : Complete(result)
    /\ UNCHANGED <<scheduled, serverVars, phase, turnBegun, request, toolVars, aborted,
                   cancelRequested, action, outcome, gateway>>

ServerDies ==
    /\ Up /\ Alive
    /\ server' = "gone"
    /\ IF Connected THEN Crash ELSE UNCHANGED <<initialized, turnVars>>
    /\ UNCHANGED <<scheduled, closed, phase, turnBegun, toolVars, aborted, cancelRequested, action,
                   outcome, gateway>>

\* A line that is no JSON: the child is dropped, not killed.
MalformedLine ==
    /\ Up /\ Connected
    /\ server' = "dropped" /\ Crash
    /\ UNCHANGED <<scheduled, closed, phase, turnBegun, toolVars, aborted, cancelRequested, action,
                   outcome, gateway>>

-----------------------------------------------------------------------------
(* Cancellation and dynamic tools. *)

\* controller.abort: the first reason stands; a request that listens is
\* rejected, the race is won.
Abort(reason) ==
    IF aborted # "no" THEN UNCHANGED <<aborted, request, race>>
    ELSE /\ aborted' = reason
         /\ request' = IF request = "pending" /\ phase \in {"thread", "history", "turn"}
                       THEN "error" ELSE request
         /\ race' = IF phase = "wait" /\ race = "none" THEN "interrupted" ELSE race

CancelRun ==
    /\ Up /\ ~cancelRequested /\ phase # "done"
    /\ cancelRequested' = TRUE
    /\ UNCHANGED <<scheduled, serverVars, turnVars, toolVars, aborted, action, outcome, gateway>>

\* The poll of runTurn, every 250 ms until it returns.
PollCancel ==
    /\ Up /\ cancelRequested /\ aborted = "no" /\ phase # "done"
    /\ Abort("caller")
    /\ UNCHANGED <<scheduled, serverVars, phase, turnBegun, completion, toolVars, cancelRequested,
                   action, outcome, gateway>>

\* item/tool/call, from any process whose output the client still reads.
ToolRequest(c) ==
    /\ Up /\ Alive /\ turnBegun /\ call[c] = "unmade"
    /\ call' = [call EXCEPT ![c] = "check"]
    /\ UNCHANGED <<scheduled, serverVars, turnVars, toolCallCount, limitReached, executed,
                   aborted, cancelRequested, action, outcome, gateway>>

\* isCancellationRequested reads the run.
ReadFlag(c) ==
    /\ Up /\ call[c] = "check"
    /\ call' = [call EXCEPT ![c] = IF cancelRequested THEN "reject" ELSE "admit"]
    /\ UNCHANGED <<scheduled, serverVars, turnVars, toolCallCount, limitReached, executed,
                   aborted, cancelRequested, action, outcome, gateway>>

RejectTool(c) ==
    /\ Up /\ call[c] = "reject"
    /\ call' = [call EXCEPT ![c] = "respond"]
    /\ Abort("caller")
    /\ UNCHANGED <<scheduled, serverVars, phase, turnBegun, completion, toolCallCount, limitReached,
                   executed, cancelRequested, action, outcome, gateway>>

\* Mutant: one call more.
LimitExceeded == toolCallCount > MaxToolCalls

\* Checked and counted in one step, after the await.
AtLimit == toolCallCount >= MaxToolCalls

AdmitTool(c) ==
    /\ Up /\ call[c] = "admit"
    /\ IF AtLimit
       THEN /\ call' = [call EXCEPT ![c] = "respond"]
            /\ limitReached' = TRUE /\ Abort("limit")
            /\ UNCHANGED <<toolCallCount, executed>>
       ELSE /\ call' = [call EXCEPT ![c] = "execute"]
            /\ toolCallCount' = toolCallCount + 1 /\ executed' = executed \cup {c}
            /\ UNCHANGED <<limitReached, aborted, request, race>>
    /\ UNCHANGED <<scheduled, serverVars, phase, turnBegun, completion, cancelRequested, action,
                   outcome, gateway>>

\* executeToolWithEnvelope; a terminal action may be among the tools.
ToolEnds(c) ==
    /\ Up /\ call[c] = "execute"
    /\ call' = [call EXCEPT ![c] = "respond"]
    /\ action' \in {action, scheduled}
    /\ UNCHANGED <<scheduled, serverVars, turnVars, toolCallCount, limitReached, executed,
                   aborted, cancelRequested, outcome, gateway>>

\* handleServerRequest: without a child the write throws, and so does the
\* write of the error in the catch block.
RespondTool(c) ==
    /\ Up /\ call[c] = "respond"
    /\ call' = [call EXCEPT ![c] = "answered"]
    /\ gateway' = IF Connected THEN "up" ELSE "died"
    /\ UNCHANGED <<scheduled, serverVars, turnVars, toolCallCount, limitReached, executed,
                   aborted, cancelRequested, action, outcome>>

-----------------------------------------------------------------------------
TurnStep ==
    \/ Start \/ Continue \/ TurnTimeout \/ EndWait \/ Close \/ Conclude \/ RequestTimesOut

Next ==
    \/ TurnStep
    \/ ServerAnswers \/ TurnCompleted \/ ServerDies \/ MalformedLine
    \/ CancelRun \/ PollCancel
    \/ \E c \in Calls :
        ToolRequest(c) \/ ReadFlag(c) \/ RejectTool(c) \/ AdmitTool(c) \/ ToolEnds(c) \/ RespondTool(c)

Spec == Init /\ [][Next]_vars

\* Promises continue and timers fire; the server need not answer, nor a
\* tool end.
Fairness == WF_vars(TurnStep)
FairSpec == Spec /\ Fairness

-----------------------------------------------------------------------------
(* Properties. *)

\* Every variable has its type.
TypeOK ==
    /\ scheduled \in BOOLEAN /\ closed \in BOOLEAN /\ initialized \in BOOLEAN
    /\ server \in {"unborn", "running", "dropped", "killed", "gone"}
    /\ phase \in Requests \cup {"start", "wait", "closing", "closed", "done"}
    /\ turnBegun \in BOOLEAN
    /\ request \in {"none", "pending", "ok", "error"}
    /\ completion \in Results \cup {"none"} /\ race \in Results \cup {"none", "timeout"}
    /\ aborted \in {"no", "caller", "limit"} /\ cancelRequested \in BOOLEAN
    /\ call \in [Calls -> {"unmade", "check", "reject", "admit", "execute", "respond", "answered"}]
    /\ toolCallCount \in Nat /\ limitReached \in BOOLEAN
    /\ executed \subseteq Calls /\ action \in BOOLEAN
    /\ outcome \in {"none", "completed", "failed", "cancelled"}
    /\ gateway \in {"up", "died"}

\* However many tool calls the server has in flight at once, and whatever
\* lies between the check and the execution of each, no more than
\* maxToolCalls are executed.
ToolBudgetKept == Cardinality(executed) <= MaxToolCalls

\* A turn is reported as cancelled only when its user asked for it: an
\* interrupt of the server or the tool limit is none.
CancelledOnRequest == outcome = "cancelled" => cancelRequested

TurnEnded == phase = "done" \/ gateway = "died"

\* A turn ends whatever the server does or leaves undone.
CodexTurnsEnd == <>TurnEnded

-----------------------------------------------------------------------------
(* What the documents say and the code does not do. *)

\* docs/changelog.md: crashed processes fail promptly - the turn, not Alfred.
GatewaySurvives == gateway = "up"

\* docs/architecture/chatgpt_subscription_app_server.md: "Cancellation
\* interrupts the active turn and cleans up pending tool calls."
CancelledTurnsAreCleanedUp ==
    outcome = "cancelled" => \A c \in Calls : call[c] # "execute"
=============================================================================
