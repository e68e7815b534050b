----------------------------- MODULE ChatTurns -----------------------------
(***************************************************************************)
(* Turns of a conversation in src/runner/chatService.ts: admission with    *)
(* durable request ids, the per-session execution mutex shared by queued,  *)
(* inline and scheduled turns, the run records of src/runs/runStore.ts,    *)
(* cancellation, and what a restart does to interrupted runs.              *)
(*                                                                         *)
(* A call is one handleTurn or handleScheduledTurn call; a client's retry  *)
(* is another call with the same request id.  The run a call creates has   *)
(* the call's name.  A SessionMutex is the sequence of the calls waiting   *)
(* for it, its head the holder.  What a scheduled turn does to its task is *)
(* module SchedulerEngine.                                                 *)
(***************************************************************************)
EXTENDS Integers, Sequences, FiniteSets

CONSTANTS
    Calls,          \* calls that clients and the scheduler may make
    Workloads,      \* which calls are made: functions c -> [kind, session, request, text]
    Concurrency,    \* InMemoryQueue concurrency
    MemoryMayFail,  \* whether updates of the session's memory may throw
    CancelCalls,    \* calls whose runs users cancel
    MaxBoots        \* bound: number of process starts

\* Kinds of calls: answered at once and executed later; executed before they
\* are answered; a message with a leading slash that is no command; a
\* command; a wake of the scheduler.  A call of no kind is never made.
Kinds     == {"queued", "inline", "slash", "command", "scheduled"}
NoRequest == "none"
Sessions  == UNION {{load[c].session : c \in Calls} : load \in Workloads}

ASSUME ChatConstants ==
    /\ IsFiniteSet(Calls)
    /\ \A load \in Workloads, c \in Calls : load[c].kind \in Kinds \cup {"unmade"}
    /\ Concurrency \in Nat \ {0} /\ MaxBoots \in Nat
    /\ MemoryMayFail \in BOOLEAN /\ CancelCalls \subseteq Calls

VARIABLES
    shape,      \* the workload of this behaviour, chosen at the start
    phase,      \* "down", "recovering" or "serving"
    boots,      \* number of process starts
    stale,      \* runs recoverInterruptedRuns has still to look at
    runs,       \* runs/state
    admission,  \* admissionMutex of each session
    execution,  \* sessionMutex of each session
    call,       \* progress of the call: "new", "admitting", "waiting", "answered", "lost"
    answer,     \* the run a queued call was answered with
    turn,       \* progress of executeTurn / executeScheduledTurn
    cancelling  \* requestRunCancellation calls past their status check

procVars == <<shape, phase, boots, stale>>
callVars == <<admission, call, answer>>
vars     == <<procVars, runs, callVars, execution, turn, cancelling>>

Kind(c)      == shape[c].kind
Session(c)   == shape[c].session
Scheduled(c) == Kind(c) = "scheduled"

Unfinished  == {"queued", "running"}
Finished    == {"completed", "failed", "cancelled", "needs_approval"}
RunStatuses == {"absent"} \cup Unfinished \cup Finished
Run         == [status : RunStatuses, createdAt : 0..Cardinality(Calls), cancelRequested : BOOLEAN]
NoCall      == "no call"

RunsOf(s) == {c \in Calls : Session(c) = s /\ runs[c].status # "absent"}

\* Mutant: off by one.
CreatedLate(c, status) ==
    [runs EXCEPT ![c] = [status |-> status, cancelRequested |-> FALSE,
                         createdAt |-> 2 + Cardinality(RunsOf(Session(c)))]]

\* createRun, under admission.lock: createdAt is later than that of every
\* other run of the session, whatever the clock says.
Created(c, status) ==
    [runs EXCEPT ![c] = [status |-> status, cancelRequested |-> FALSE,
                         createdAt |-> 1 + Cardinality(RunsOf(Session(c)))]]

SetStatus(c, status) == runs' = [runs EXCEPT ![c].status = status]

Init ==
    /\ shape \in Workloads
    /\ phase = "down" /\ boots = 0 /\ stale = {}
    /\ runs = [c \in Calls |-> [status |-> "absent", createdAt |-> 0, cancelRequested |-> FALSE]]
    /\ admission = [s \in Sessions |-> <<>>] /\ execution = [s \in Sessions |-> <<>>]
    /\ call = [c \in Calls |-> "new"] /\ answer = [c \in Calls |-> NoCall]
    /\ turn = [c \in Calls |-> "none"]
    /\ cancelling = {}

Serving == phase = "serving"
Holds(c, mutex) == mutex[Session(c)] # <<>> /\ Head(mutex[Session(c)]) = c

\* Mutant: the newest waiter goes first.
Overtake(c, mutex) ==
    [mutex EXCEPT ![Session(c)] = IF @ = <<>> THEN <<c>> ELSE <<Head(@), c>> \o Tail(@)]

Enter(c, mutex) == [mutex EXCEPT ![Session(c)] = Append(@, c)]
Exit(c, mutex)  == [mutex EXCEPT ![Session(c)] = Tail(@)]

-----------------------------------------------------------------------------
(* handleTurn and handleScheduledTurn: the call. *)

\* Every call but an admitted one joins the execution mutex at once.
CallArrives(c) ==
    /\ Serving /\ call[c] = "new" /\ Kind(c) \in Kinds
    /\ IF Kind(c) = "queued"
       THEN /\ admission' = Enter(c, admission)
            /\ call' = [call EXCEPT ![c] = "admitting"]
            /\ UNCHANGED <<execution, turn>>
       ELSE /\ execution' = Enter(c, execution)
            /\ call' = [call EXCEPT ![c] = "waiting"]
            /\ turn' = [turn EXCEPT ![c] = "waiting"]
            /\ UNCHANGED admission
    /\ UNCHANGED <<procVars, runs, answer, cancelling>>

\* findRequest: the run that carries the request id, of this or an earlier life.
SameRequest(c) ==
    {d \in RunsOf(Session(c)) : Kind(d) = "queued" /\ shape[c].request # NoRequest
                                  /\ shape[d].request = shape[c].request}

Answered(c, run) ==
    /\ call' = [call EXCEPT ![c] = "answered"]
    /\ answer' = [answer EXCEPT ![c] = run]

\* A retry is answered with the run it asked for before, or refused when its
\* text has changed (request_id_conflict).
AnswerRetry(c) ==
    /\ call[c] = "admitting" /\ Holds(c, admission)
    /\ \E d \in SameRequest(c) : Answered(c, IF shape[d].text = shape[c].text THEN d ELSE NoCall)
    /\ admission' = Exit(c, admission)
    /\ UNCHANGED <<procVars, runs, execution, turn, cancelling>>

\* Mutant: the requests already admitted are not looked at.
AdmitUnchecked(c) ==
    /\ call[c] = "admitting" /\ Holds(c, admission)
    /\ runs' = Created(c, "queued")
    /\ execution' = Enter(c, execution)
    /\ turn' = [turn EXCEPT ![c] = "waiting"]
    /\ Answered(c, c)
    /\ admission' = Exit(c, admission)
    /\ UNCHANGED <<procVars, cancelling>>

\* The run is persisted, its turn takes its place in the execution mutex in
\* the same synchronous step, and only then is the call answered.
Admit(c) ==
    /\ call[c] = "admitting" /\ Holds(c, admission)
    /\ SameRequest(c) = {}
    /\ runs' = Created(c, "queued")
    /\ execution' = Enter(c, execution)
    /\ turn' = [turn EXCEPT ![c] = "waiting"]
    /\ Answered(c, c)
    /\ admission' = Exit(c, admission)
    /\ UNCHANGED <<procVars, cancelling>>

\* The session does not exist.
AdmissionFails(c) ==
    /\ call[c] = "admitting" /\ Holds(c, admission)
    /\ Answered(c, NoCall)
    /\ admission' = Exit(c, admission)
    /\ UNCHANGED <<procVars, runs, execution, turn, cancelling>>

-----------------------------------------------------------------------------
(* executeTurn, executeScheduledTurn and executeRunCore: the turn. *)

TurnUnchanged == UNCHANGED <<procVars, admission, answer, cancelling>>

Continue(c, step) ==
    /\ turn' = [turn EXCEPT ![c] = step]
    /\ UNCHANGED <<execution, call>> /\ TurnUnchanged

\* The turn is over: the mutex is released and a waiting call is answered.
Leave(c) ==
    /\ turn' = [turn EXCEPT ![c] = "over"]
    /\ execution' = Exit(c, execution)
    /\ call' = [call EXCEPT ![c] = "answered"]
    /\ TurnUnchanged

\* Mutant: an early failure is not recorded in the run.
FailSilently(c) == UNCHANGED runs /\ Leave(c)

\* persist after an early failure: a turn that has no run yet records nothing.
FailEarly(c) ==
    /\ runs' = IF runs[c].status = "absent" THEN runs ELSE [runs EXCEPT ![c].status = "failed"]
    /\ Leave(c)

\* The session, the command, the live model selection and the subscription
\* limit; an inline turn creates its run here.
TurnBegins(c) ==
    /\ turn[c] = "waiting" /\ ~Scheduled(c) /\ Holds(c, execution)
    /\ \/ Kind(c) = "command" /\ UNCHANGED runs /\ Leave(c)
       \/ Kind(c) # "command" /\ FailEarly(c)
       \/ /\ Kind(c) # "command"
          /\ runs' = IF runs[c].status = "absent" THEN Created(c, "running") ELSE runs
          /\ Continue(c, "context")

\* The task's cycle is no longer active; or the run is created and then the
\* attachment fails or the subscription is blocked, and the run stays as it
\* is; or it is submitted.
ScheduledTurnBegins(c) ==
    /\ turn[c] = "waiting" /\ Scheduled(c) /\ Holds(c, execution)
    /\ \/ UNCHANGED runs /\ Leave(c)
       \/ runs' = Created(c, "queued") /\ Leave(c)
       \/ runs' = Created(c, "queued") /\ Continue(c, "submitted")

\* buildSessionContext and persistQueuedRunStart.
TurnBuildsContext(c) ==
    /\ turn[c] = "context"
    /\ \/ UNCHANGED runs /\ Continue(c, "submitted")
       \/ MemoryMayFail /\ FailEarly(c)

AgentsRunning == Cardinality({c \in Calls : turn[c] = "agent"})

\* executeRunCore, in a slot of the InMemoryQueue: a run cancelled while it
\* was queued does not start.
TurnStarts(c) ==
    /\ turn[c] = "submitted" /\ AgentsRunning < Concurrency
    /\ IF runs[c].cancelRequested
       THEN SetStatus(c, "cancelled") /\ Continue(c, "persist")
       ELSE SetStatus(c, "running") /\ Continue(c, "agent")

\* The agent returns, throws ("failed") or notices the cancellation.
AgentEnds(c) ==
    /\ turn[c] = "agent"
    /\ \E outcome \in Finished :
         /\ outcome = "cancelled" => runs[c].cancelRequested
         /\ SetStatus(c, outcome)
    /\ Continue(c, "persist")

\* persist: the outcome is written again and the session's memory updated; if
\* that throws, the catch block records a failure.  A scheduled turn goes on
\* to close its task's cycle instead.
TurnPersists(c) ==
    /\ turn[c] = "persist"
    /\ \/ UNCHANGED runs
       \/ MemoryMayFail /\ ~Scheduled(c) /\ SetStatus(c, "failed")
    /\ Leave(c)

-----------------------------------------------------------------------------
(* Cancellation: the status is read one await before the request is written. *)

CancelRequested(c) ==
    /\ c \in CancelCalls /\ Serving
    /\ runs[c].status \in Unfinished /\ ~runs[c].cancelRequested
    /\ cancelling' = cancelling \cup {c}
    /\ UNCHANGED <<procVars, runs, callVars, execution, turn>>

CancelAccepted(c) ==
    /\ c \in cancelling
    /\ cancelling' = cancelling \ {c}
    /\ runs' = [runs EXCEPT ![c].cancelRequested = TRUE]
    /\ UNCHANGED <<procVars, callVars, execution, turn>>

-----------------------------------------------------------------------------
(* The process. *)

Boot ==
    /\ phase = "down" /\ boots < MaxBoots
    /\ phase' = "recovering" /\ boots' = boots + 1
    /\ stale' = {c \in Calls : runs[c].status # "absent"}
    /\ UNCHANGED <<shape, runs, callVars, execution, turn, cancelling>>

\* Mutant: runs that never started are not recovered.
RecoverStarted(c) ==
    /\ c \in stale /\ stale' = stale \ {c}
    /\ IF ~Scheduled(c) /\ runs[c].status = "running"
       THEN SetStatus(c, "failed") ELSE UNCHANGED runs
    /\ UNCHANGED <<shape, phase, boots, callVars, execution, turn, cancelling>>

\* recoverInterruptedRuns looks at one run after the other, before the server
\* listens; runs of the scheduler are left to the engine.
Recover(c) ==
    /\ c \in stale /\ stale' = stale \ {c}
    /\ IF ~Scheduled(c) /\ runs[c].status \in Unfinished
       THEN SetStatus(c, "failed") ELSE UNCHANGED runs
    /\ UNCHANGED <<shape, phase, boots, callVars, execution, turn, cancelling>>

Serve ==
    /\ phase = "recovering" /\ stale = {}
    /\ phase' = "serving"
    /\ UNCHANGED <<shape, boots, stale, runs, callVars, execution, turn, cancelling>>

\* Calls in flight get no answer.
Crash ==
    /\ phase # "down" /\ phase' = "down" /\ stale' = {}
    /\ admission' = [s \in Sessions |-> <<>>] /\ execution' = [s \in Sessions |-> <<>>]
    /\ call' = [c \in Calls |-> IF call[c] \in {"admitting", "waiting"} THEN "lost" ELSE call[c]]
    /\ turn' = [c \in Calls |-> IF turn[c] = "none" THEN "none" ELSE "over"]
    /\ cancelling' = {}
    /\ UNCHANGED <<shape, boots, runs, answer>>

CallStep(c) == CallArrives(c) \/ AnswerRetry(c) \/ Admit(c) \/ AdmissionFails(c)
TurnStep(c) ==
    \/ TurnBegins(c) \/ ScheduledTurnBegins(c) \/ TurnBuildsContext(c)
    \/ TurnStarts(c) \/ AgentEnds(c) \/ TurnPersists(c)

Next ==
    \/ Boot \/ Serve \/ Crash
    \/ \E c \in Calls :
         CallStep(c) \/ TurnStep(c) \/ CancelRequested(c) \/ CancelAccepted(c) \/ Recover(c)

Spec == Init /\ [][Next]_vars

\* The server is started again and its steps return: the agent loop is bounded
\* by agentMaxDurationMs.  Nobody has to call or to cancel.
Fairness ==
    /\ WF_vars(Boot) /\ WF_vars(Serve)
    /\ \A c \in Calls :
         /\ WF_vars(Recover(c)) /\ WF_vars(TurnStep(c)) /\ WF_vars(CancelAccepted(c))
         /\ WF_vars(AnswerRetry(c) \/ Admit(c) \/ AdmissionFails(c))

FairSpec == Spec /\ Fairness

-----------------------------------------------------------------------------
(* Properties. *)

\* Every variable has its type.
TypeOK ==
    /\ shape \in Workloads
    /\ phase \in {"down", "recovering", "serving"} /\ boots \in 0..MaxBoots
    /\ stale \subseteq Calls /\ cancelling \subseteq Calls
    /\ runs \in [Calls -> Run]
    /\ \A c \in Calls : runs[c].createdAt <= Cardinality(RunsOf(Session(c)))
    /\ {admission, execution} \subseteq [Sessions -> Seq(Calls)]
    /\ call \in [Calls -> {"new", "admitting", "waiting", "answered", "lost"}]
    /\ answer \in [Calls -> Calls \cup {NoCall}]
    /\ turn \in [Calls -> {"none", "waiting", "context", "submitted", "agent", "persist", "over"}]

\* A request id has at most one run, and every call that was answered with a
\* run was answered with that one, over concurrent retries, crashes and
\* restarts: admission persists before it acknowledges.
OneRunPerRequest ==
    \A c, d \in Calls :
        (answer[c] # NoCall /\ answer[d] # NoCall /\ shape[c].request # NoRequest
           /\ Session(c) = Session(d) /\ shape[c].request = shape[d].request) =>
               answer[c] = answer[d] /\ runs[answer[c]].status # "absent"

\* Queued turns execute in the order of their admission, one at a time, and
\* the context of one is built after every earlier one has finished, although
\* inline and scheduled turns share the mutex.
ContextSeesPredecessors ==
    \A c, d \in Calls :
        (/\ turn[c] \in {"context", "submitted", "agent"}
         /\ Kind(c) = "queued" /\ Kind(d) = "queued" /\ Session(c) = Session(d)
         /\ runs[d].status # "absent" /\ runs[d].createdAt < runs[c].createdAt) =>
             runs[d].status \in Finished

\* While the server is serving, every unfinished ordinary run has a turn that
\* will finish it: no crash, early failure or lost call leaves one behind.
UnfinishedRunHasATurn ==
    Serving => \A c \in Calls :
        (~Scheduled(c) /\ runs[c].status \in Unfinished) =>
            turn[c] \notin {"none", "over"} /\ \E i \in 1..Len(execution[Session(c)]) : execution[Session(c)][i] = c

\* A finished run is never taken up again: no retry, recovery, cancellation or
\* late failure turns it back into an unfinished one.
FinishedStaysFinished ==
    [][\A c \in Calls : runs[c].status \in Finished => runs'[c].status \in Finished]_vars

\* Every ordinary run finishes while the server keeps serving.
OrdinaryRunsFinish ==
    <>[]Serving => \A c \in Calls : ~Scheduled(c) => <>[](runs[c].status \notin Unfinished)

\* Both: every ordinary run finishes, and no run twice.
RunsFinishOnce == FinishedStaysFinished /\ OrdinaryRunsFinish

-----------------------------------------------------------------------------
(* What the documentation says and the code does not do. *)

\* README: queued turns deduplicate retries.
RetriesRunOnce ==
    \A c, d \in Calls :
        (c # d /\ Session(c) = Session(d) /\ shape[c].request # NoRequest
           /\ shape[c].request = shape[d].request) =>
               ~(runs[c].status # "absent" /\ runs[d].status # "absent")

\* The answer to an accepted cancellation says that the run will stop.
AcceptedCancellationStops ==
    <>[]Serving => \A c \in Calls :
        [](runs[c].cancelRequested => <>(runs[c].status \notin Unfinished))
=============================================================================
