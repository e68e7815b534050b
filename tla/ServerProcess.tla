---------------------------- MODULE ServerProcess ----------------------------
(***************************************************************************)
(* The life of one gateway process: bootstrap and shutdown of              *)
(* src/gateway/server.ts, which may overlap, and the children it manages.  *)
(* The pid lock is only whether this process has it (see PidLock).         *)
(***************************************************************************)
EXTENDS Naturals, FiniteSets

CONSTANTS
    Children,        \* managed services with a start command
    Restarted,       \* those that are restarted when they exit (pinchtab)
    MaxRestarts,     \* how often (3)
    SignalsAt,       \* where bootstrap is when a signal may come
    FailsAt,         \* where a step of bootstrap may throw
    MaxExits         \* bound on exits of children

BootPlaces == {"lock", "recover", "serve", "engine", "up", "failed"}

ServerConstants ==
    /\ Restarted \subseteq Children
    /\ SignalsAt \subseteq BootPlaces /\ FailsAt \subseteq {"recover", "engine"}
    /\ {MaxRestarts, MaxExits} \subseteq Nat

VARIABLES
    boot,      \* where bootstrap is
    down,      \* where shutdown is
    pidLock,   \* whether server.pid is this process's
    serving,   \* whether the http server listens
    engine,    \* whether the scheduler engine runs
    apiKey,    \* the key: in the process, and in its file
    child,     \* each managed service: its last process and its restart timer
    tracked,   \* services in managedProcesses by their last process
    exits      \* exits of children so far

serverVars == <<boot, down, pidLock, serving, engine, apiKey, child, tracked, exits>>

Exited == down = "exited"

Init ==
    /\ boot = "lock" /\ down = "none"
    /\ pidLock = FALSE /\ serving = FALSE /\ engine = FALSE
    /\ apiKey \in {[process |-> FALSE, file |-> f] : f \in BOOLEAN}
    /\ child = [c \in Children |-> [alive |-> FALSE, timer |-> FALSE, attempt |-> 0]]
    /\ tracked = {} /\ exits = 0

-----------------------------------------------------------------------------
(* bootstrap: one step per stretch between two awaits. *)

Boots(from) == boot = from /\ ~Exited

AcquireLock ==
    /\ Boots("lock")
    /\ pidLock' = TRUE /\ boot' = "recover"
    \* ensureApiKey: a configured key, one kept from an earlier run, or a new one.
    /\ apiKey' = [process |-> TRUE, file |-> TRUE]
    /\ UNCHANGED <<down, serving, engine, child, tracked, exits>>

\* Another gateway has the lock: the process has nothing left to do.
LockRefused ==
    /\ Boots("lock")
    /\ boot' = "failed"
    /\ UNCHANGED <<down, pidLock, serving, engine, apiKey, child, tracked, exits>>

\* recoverInterruptedRuns, listSessions and the default session.
RecoverRuns ==
    /\ Boots("recover")
    /\ boot' = "serve"
    /\ UNCHANGED <<down, pidLock, serving, engine, apiKey, child, tracked, exits>>

SpawnManaged(c) == [alive |-> TRUE, timer |-> FALSE, attempt |-> child[c].attempt]

\* A bug: the children are not remembered.
ServeUntracked ==
    /\ Boots("serve")
    /\ child' = [c \in Children |-> SpawnManaged(c)]
    /\ serving' = TRUE
    /\ boot' = "engine"
    /\ UNCHANGED <<down, pidLock, engine, apiKey, tracked, exits>>

\* The children, the http server and Telegram, whose start does not wait.
Serve ==
    /\ Boots("serve")
    /\ child' = [c \in Children |-> SpawnManaged(c)]
    /\ tracked' = Children
    /\ serving' = TRUE
    /\ boot' = "engine"
    /\ UNCHANGED <<down, pidLock, engine, apiKey, exits>>

\* schedulerEngine.start
StartEngine ==
    /\ Boots("engine")
    /\ engine' = TRUE /\ boot' = "up"
    /\ UNCHANGED <<down, pidLock, serving, apiKey, child, tracked, exits>>

\* A step throws: the lock is given back, and the error ends bootstrap.  What
\* has been started stays and keeps the process alive.
BootFails ==
    /\ boot \in FailsAt /\ ~Exited
    /\ pidLock' = FALSE /\ boot' = "failed"
    /\ UNCHANGED <<down, serving, engine, apiKey, child, tracked, exits>>

-----------------------------------------------------------------------------
(* Children. *)

\* The exit handler arms a timer while restarts are left.
ChildExits(c) ==
    /\ child[c].alive /\ exits < MaxExits
    /\ exits' = exits + 1
    /\ child' = [child EXCEPT ![c] =
         [alive |-> FALSE, attempt |-> @.attempt,
          timer |-> c \in Restarted /\ down = "none" /\ @.attempt < MaxRestarts]]
    /\ UNCHANGED <<boot, down, pidLock, serving, engine, apiKey, tracked>>

RestartChild(c) ==
    /\ child[c].timer /\ ~Exited
    /\ child' = [child EXCEPT ![c] = [alive |-> TRUE, timer |-> FALSE, attempt |-> @.attempt + 1]]
    /\ tracked' = tracked \cup {c}
    /\ UNCHANGED <<boot, down, pidLock, serving, engine, apiKey, exits>>

-----------------------------------------------------------------------------
(* shutdown: a signal starts it once. *)

Signal ==
    /\ down = "none" /\ boot \in SignalsAt
    /\ down' = "stop"
    /\ engine' = FALSE
    /\ child' = [c \in Children |-> [child[c] EXCEPT !.timer = FALSE]]
    /\ UNCHANGED <<boot, pidLock, serving, apiKey, tracked, exits>>

\* The engine's jobs have settled: the children are told to end.
KillChildren ==
    /\ down = "stop"
    /\ child' = [c \in Children |-> IF c \in tracked THEN [child[c] EXCEPT !.alive = FALSE] ELSE child[c]]
    /\ down' = "close"
    /\ UNCHANGED <<boot, pidLock, serving, engine, apiKey, tracked, exits>>

\* The http server closes, or three seconds pass; then the provider's resources.
CloseServer ==
    /\ down = "close"
    /\ serving' = FALSE
    /\ down' = "release"
    /\ UNCHANGED <<boot, pidLock, engine, apiKey, child, tracked, exits>>

ReleaseAndExit ==
    /\ down = "release"
    /\ pidLock' = FALSE /\ serving' = FALSE /\ engine' = FALSE
    /\ apiKey' = [apiKey EXCEPT !.process = FALSE]
    /\ down' = "exited"
    /\ UNCHANGED <<boot, child, tracked, exits>>

ShutdownStep == KillChildren \/ CloseServer \/ ReleaseAndExit

Next ==
    \/ AcquireLock \/ LockRefused \/ RecoverRuns \/ Serve \/ StartEngine \/ BootFails
    \/ \E c \in Children : ChildExits(c) \/ RestartChild(c)
    \/ Signal \/ ShutdownStep

Spec == Init /\ [][Next]_serverVars

-----------------------------------------------------------------------------

\* Every variable has its type.
TypeOK ==
    /\ boot \in BootPlaces
    /\ down \in {"none", "stop", "close", "release", "exited"}
    /\ {pidLock, serving, engine} \subseteq BOOLEAN
    /\ apiKey \in [process : BOOLEAN, file : BOOLEAN]
    /\ child \in [Children -> [alive : BOOLEAN, timer : BOOLEAN, attempt : 0..MaxRestarts]]
    /\ tracked \subseteq Children /\ exits \in 0..MaxExits

\* server.ts:19: "Track child processes started by Alfred so they die when
\* Alfred dies".  It does not hold if a signal comes before the children are
\* started: shutdown has none to end, and bootstrap starts them before the exit.
ChildrenDieWithServer == Exited => \A c \in Children : ~child[c].alive

\* utils/fs.ts:43: "One gateway owns the workspace": what serves or runs tasks
\* holds the lock.  It does not hold if the engine's start throws: bootstrap
\* gives the lock back while the http server listens.
ServingHoldsLock == serving \/ engine => pidLock

\* A signal ends the process in the end, whatever bootstrap was doing.
SignalsEnd == []<>(down = "none" \/ Exited)
=============================================================================
