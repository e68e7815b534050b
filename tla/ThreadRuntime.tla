---------------------------- MODULE ThreadRuntime ----------------------------
(***************************************************************************)
(* How turns get to the agent: one ThreadRuntime per session               *)
(* (src/runtime/threadRuntime.ts), each draining its queue through a       *)
(* TurnRuntime (src/runtime/turnRuntime.ts) inside a task of the pool they *)
(* share (src/workers/inMemoryQueue.ts).                                   *)
(*                                                                         *)
(* Ops are user inputs, the only ones the program submits.  What the agent *)
(* does during a turn belongs to module ChatTurns.                         *)
(***************************************************************************)
EXTENDS Naturals, Sequences, FiniteSets

CONSTANTS
    Sessions,
    Ops,            \* user inputs; each is submitted once
    SessionOf,      \* SessionOf[o]
    Concurrency,    \* tasks the pool runs at a time
    EventsMayFail   \* whether emitting a lifecycle event may throw

\* What the constants may be.
ThreadConstants ==
    /\ IsFiniteSet(Sessions) /\ Ops # {}
    /\ SessionOf \in [Ops -> Sessions]
    /\ Concurrency \in Nat \ {0} /\ EventsMayFail \in BOOLEAN

VARIABLES
    queue,      \* the queue of each ThreadRuntime
    processing, \* the sessions whose flag is set
    backlog,    \* the pool's queue, as the sessions whose loop waits in it
    active,     \* the pool's activeCount
    ended,      \* tasks that ended and still count as active
    loop,       \* where the drain loop of each session is, and with which op
    turn,       \* state of each TurnRuntime
    op          \* how each op ended

vars == <<queue, processing, backlog, active, ended, loop, turn, op>>

\* Between two ops a loop holds the op it handled last.
LoopSteps == {"off", "waiting", "next", "begin", "execute", "complete", "abort"}
Executing(s) == loop[s].pc = "execute"

Init ==
    /\ queue = [s \in Sessions |-> <<>>] /\ processing = {}
    /\ backlog = <<>> /\ active = 0 /\ ended = 0
    /\ loop = [s \in Sessions |-> [pc |-> "off", op |-> CHOOSE o \in Ops : TRUE]]
    /\ turn = [s \in Sessions |-> "idle"]
    /\ op = [o \in Ops |-> "new"]

Go(s, pc) == loop' = [loop EXCEPT ![s].pc = pc]

-----------------------------------------------------------------------------
(* The pool. *)

\* A bug: only an idle pool starts a loop.
ScheduleIdle(n, waiting, steps) ==
    IF n = 0 /\ waiting # <<>>
    THEN /\ active' = n + 1 /\ backlog' = Tail(waiting)
         /\ loop' = [steps EXCEPT ![Head(waiting)].pc = "next"]
    ELSE /\ active' = n /\ backlog' = waiting
         /\ loop' = steps

\* A bug: a task ahead of a full pool is started.
ScheduleOver(n, waiting, steps) ==
    IF n <= Concurrency /\ waiting # <<>>
    THEN /\ active' = n + 1 /\ backlog' = Tail(waiting)
         /\ loop' = [steps EXCEPT ![Head(waiting)].pc = "next"]
    ELSE /\ active' = n /\ backlog' = waiting
         /\ loop' = steps

\* InMemoryQueue.schedule with n tasks running and the loops in waiting queued:
\* at most one of them is started.
Schedule(n, waiting, steps) ==
    IF n < Concurrency /\ waiting # <<>>
    THEN /\ active' = n + 1 /\ backlog' = Tail(waiting)
         /\ loop' = [steps EXCEPT ![Head(waiting)].pc = "next"]
    ELSE /\ active' = n /\ backlog' = waiting
         /\ loop' = steps

\* submit: the op is queued and a loop is enqueued unless there is one.
Submit(o) ==
    /\ op[o] = "new"
    /\ op' = [op EXCEPT ![o] = "queued"]
    /\ LET s == SessionOf[o]
       IN  /\ queue' = [queue EXCEPT ![s] = Append(@, o)]
           /\ IF s \in processing THEN UNCHANGED <<processing, backlog, active, loop>>
              ELSE /\ processing' = processing \cup {s}
                   /\ Schedule(active, Append(backlog, s), [loop EXCEPT ![s].pc = "waiting"])
    /\ UNCHANGED <<ended, turn>>

\* The loop finds its queue empty, clears the flag and its task ends.
LoopEnds(s) ==
    /\ loop[s].pc = "next" /\ queue[s] = <<>>
    /\ processing' = processing \ {s}
    /\ Go(s, "off")
    /\ ended' = ended + 1
    /\ UNCHANGED <<queue, backlog, active, turn, op>>

\* The finally the pool put on the task, some turns of the event loop later.
ReturnSlot ==
    /\ ended > 0
    /\ ended' = ended - 1
    /\ Schedule(active - 1, backlog, loop)
    /\ UNCHANGED <<queue, processing, turn, op>>

-----------------------------------------------------------------------------
(* A turn. *)

\* The loop takes an op and handleUserInput decides on it.
TakeOp(s) ==
    /\ loop[s].pc = "next" /\ queue[s] # <<>>
    /\ queue' = [queue EXCEPT ![s] = Tail(@)]
    /\ IF turn[s] = "running"
       THEN /\ op' = [op EXCEPT ![Head(queue[s])] = "refused"]
            /\ UNCHANGED <<loop, turn>>
       ELSE /\ turn' = [turn EXCEPT ![s] = "running"]
            /\ loop' = [loop EXCEPT ![s] = [pc |-> "begin", op |-> Head(queue[s])]]
            /\ op' = [op EXCEPT ![Head(queue[s])] = "running"]
    /\ UNCHANGED <<processing, backlog, active, ended>>

Outcome(s, how) == op' = [op EXCEPT ![loop[s].op] = how]
SetTurn(s, state) == turn' = [turn EXCEPT ![s] = state]

\* TurnStarted.  It is emitted outside the try, whose finally resets the state.
Begin(s) ==
    /\ loop[s].pc = "begin"
    /\ Go(s, "execute")
    /\ UNCHANGED <<queue, processing, backlog, active, ended, turn, op>>

BeginFails(s) ==
    /\ loop[s].pc = "begin" /\ EventsMayFail
    /\ Go(s, "next") /\ Outcome(s, "failed")
    /\ UNCHANGED <<queue, processing, backlog, active, ended, turn>>

\* executeUserInput returns or throws.
Execute(s, throws) ==
    /\ loop[s].pc = "execute"
    /\ IF throws THEN Go(s, "abort") /\ SetTurn(s, "aborted")
       ELSE /\ Go(s, "complete")
            /\ \E state \in {"completed", "aborted"} : SetTurn(s, state)
    /\ UNCHANGED <<queue, processing, backlog, active, ended, op>>

\* The terminal event.
Complete(s) ==
    /\ loop[s].pc = "complete"
    /\ Go(s, "next") /\ Outcome(s, "done") /\ SetTurn(s, "idle")
    /\ UNCHANGED <<queue, processing, backlog, active, ended>>

CompleteFails(s) ==
    /\ loop[s].pc = "complete" /\ EventsMayFail
    /\ Go(s, "abort") /\ SetTurn(s, "aborted")
    /\ UNCHANGED <<queue, processing, backlog, active, ended, op>>

\* The catch rethrows, whether or not its event could be emitted.
Abort(s) ==
    /\ loop[s].pc = "abort"
    /\ Go(s, "next") /\ Outcome(s, "failed") /\ SetTurn(s, "idle")
    /\ UNCHANGED <<queue, processing, backlog, active, ended>>

Run(s) ==
    \/ TakeOp(s) \/ LoopEnds(s) \/ Begin(s) \/ BeginFails(s)
    \/ \E throws \in BOOLEAN : Execute(s, throws)
    \/ Complete(s) \/ CompleteFails(s) \/ Abort(s)

Next == (\E o \in Ops : Submit(o)) \/ ReturnSlot \/ (\E s \in Sessions : Run(s))

Spec == Init /\ [][Next]_vars

\* A task the pool has started goes on, and the agent ends its turn.
Fairness == WF_vars(ReturnSlot) /\ \A s \in Sessions : WF_vars(Run(s))

FairSpec == Spec /\ Fairness

-----------------------------------------------------------------------------

\* Every variable has its type.
TypeOK ==
    /\ queue \in [Sessions -> Seq(Ops)] /\ processing \subseteq Sessions
    /\ backlog \in Seq(Sessions) /\ active \in 0..Concurrency /\ ended \in 0..Concurrency
    /\ loop \in [Sessions -> [pc : LoopSteps, op : Ops]]
    /\ turn \in [Sessions -> {"idle", "running", "completed", "aborted"}]
    /\ op \in [Ops -> {"new", "queued", "running", "done", "failed", "refused"}]

\* The flag of a session is set exactly while one loop of it is in the pool,
\* waiting or running, so that no queued op is left without a loop and no
\* session has two; a loop waits only while the pool is full.
OneLoopPerSession ==
    /\ \A s \in Sessions :
        /\ s \in processing <=> loop[s].pc # "off"
        /\ queue[s] # <<>> => s \in processing
        /\ Cardinality({i \in 1..Len(backlog) : backlog[i] = s})
             = IF loop[s].pc = "waiting" THEN 1 ELSE 0
    /\ active = ended + Cardinality({s \in Sessions : loop[s].pc \notin {"off", "waiting"}})
    /\ backlog # <<>> => active = Concurrency

\* Every op that was submitted ends, done, failed or refused.
OpsEnd == \A o \in Ops : []<>(op[o] \in {"new", "done", "failed", "refused"})

\* docs/changelog.md:327: "single active turn per session with queued op
\* processing": an op waits its turn and is not turned away.
NoOpIsRefused == \A o \in Ops : op[o] # "refused"
=============================================================================
