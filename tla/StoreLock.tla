------------------------------ MODULE StoreLock ------------------------------
(***************************************************************************)
(* tasks.lock: how mutations of the scheduler's task file exclude each     *)
(* other, in one process (a queue of promises) and between processes (a    *)
(* lock file with an expiry), from src/scheduler/taskStore.ts.  What a     *)
(* mutation does to a task is TaskStore's business: here it adds itself to *)
(* the file, so that a lost one is missed.                                 *)
(*                                                                         *)
(* A live holder ends within the lifetime of its lock unless SlowHolders.  *)
(***************************************************************************)
EXTENDS Naturals, Sequences, FiniteSets

CONSTANTS
    Gateways,       \* places a process with a task store runs in
    Mutations,      \* calls of mutate, each made once
    MaxTries,       \* attempts to take the lock (200)
    LockTtl,        \* SCHEDULER_LOCK_TTL_MS
    SlowHolders,    \* whether a live holder may outlast its lock
    MaxLockTime,    \* bound on the clock
    MaxProcesses    \* bound on the processes of each place

StoreLockConstants ==
    /\ {MaxTries, LockTtl, MaxProcesses} \subseteq Nat \ {0}
    /\ MaxLockTime \in Nat
    /\ SlowHolders \in BOOLEAN

VARIABLES
    lockTime,   \* nowMs
    tasksLock,  \* tasks.lock
    tasks,      \* tasks.json: the mutations it shows, or the quarantined file
    store,      \* the task store of each process
    calls,      \* what became of each mutation
    steals      \* history: how many locks were unlinked for their age

storeVars == <<lockTime, tasksLock, tasks, store, calls, steals>>

NoLock == [owner |-> "none"]
Holding == {"read", "write", "release"}

LockRecord == [owner : Gateways, process : 1..MaxProcesses, written : BOOLEAN,
               expires : 0..(MaxLockTime + LockTtl)]
Idle(n) == [process |-> n, pc |-> "idle", tail |-> <<>>, tries |-> 0, snapshot |-> {}]

Init ==
    /\ lockTime = 0 /\ steals = 0
    /\ tasksLock = NoLock
    /\ tasks = {}
    /\ store = [g \in Gateways |-> Idle(1)]
    /\ calls = [m \in Mutations |-> "new"]

Goes(g, pc) == store' = [store EXCEPT ![g].pc = pc]
Owns(g, l) == l # NoLock /\ l.owner = g /\ l.process = store[g].process
LiveOwner(l) == store[l.owner].process = l.process /\ store[l.owner].pc # "dead"

-----------------------------------------------------------------------------
(* Calls and the queue of one process. *)

\* mutate appends to mutationTail, whether what is before it fails or not.
Mutate(g, m) ==
    /\ calls[m] = "new" /\ store[g].pc # "dead"
    /\ calls' = [calls EXCEPT ![m] = "queued"]
    /\ store' = [store EXCEPT ![g].tail = Append(@, m)]
    /\ UNCHANGED <<lockTime, tasksLock, tasks, steals>>

Begin(g) ==
    /\ store[g].pc = "idle" /\ store[g].tail # <<>>
    /\ store' = [store EXCEPT ![g].pc = "try", ![g].tries = 0]
    /\ UNCHANGED <<lockTime, tasksLock, tasks, calls, steals>>

\* The promise of the first call settles, and the next one begins.
Settle(g, outcome) ==
    /\ calls' = [calls EXCEPT ![Head(store[g].tail)] = outcome]
    /\ store' = [store EXCEPT ![g].pc = "idle", ![g].tail = Tail(@)]

-----------------------------------------------------------------------------
(* tryAcquireLock and withLock. *)

\* A bug: a lock is taken for stale whoever holds it and whatever its age.
AnyLock(l, t) == l # NoLock /\ l.written

\* A lock that cannot be read is nobody's to judge.
Stale(l, t) == l # NoLock /\ l.written /\ l.expires <= t

Acquire(g) ==
    /\ store[g].pc = "try"
    /\ IF tasksLock = NoLock
       THEN /\ tasksLock' = [owner |-> g, process |-> store[g].process, written |-> FALSE,
                             expires |-> lockTime + LockTtl]
            /\ Goes(g, "record")
       ELSE Goes(g, "look") /\ UNCHANGED tasksLock
    /\ UNCHANGED <<lockTime, tasks, calls, steals>>

\* The record goes through the handle, into the lock of this process if it is
\* still there.
WriteRecord(g) ==
    /\ store[g].pc = "record"
    /\ tasksLock' = IF Owns(g, tasksLock) THEN [tasksLock EXCEPT !.written = TRUE] ELSE tasksLock
    /\ Goes(g, "read")
    /\ UNCHANGED <<lockTime, tasks, calls, steals>>

\* Writing fails: the lock stays as it is, and the mutation is rejected.
RecordFails(g) ==
    /\ store[g].pc = "record"
    /\ Settle(g, "failed")
    /\ UNCHANGED <<lockTime, tasksLock, tasks, steals>>

LookAt(g) ==
    /\ store[g].pc = "look"
    /\ Goes(g, IF Stale(tasksLock, lockTime) THEN "steal" ELSE "wait")
    /\ UNCHANGED <<lockTime, tasksLock, tasks, calls, steals>>

\* unlink takes whatever is at the path by now.
StealLock(g) ==
    /\ store[g].pc = "steal"
    /\ tasksLock' = NoLock
    /\ steals' = IF tasksLock = NoLock THEN steals ELSE steals + 1
    /\ Goes(g, "wait")
    /\ UNCHANGED <<lockTime, tasks, calls>>

TryAgain(g) ==
    /\ store[g].pc = "wait" /\ store[g].tries + 1 < MaxTries
    /\ store' = [store EXCEPT ![g].pc = "try", ![g].tries = @ + 1]
    /\ UNCHANGED <<lockTime, tasksLock, tasks, calls, steals>>

TimesOut(g) ==
    /\ store[g].pc = "wait" /\ store[g].tries + 1 = MaxTries
    /\ Settle(g, "failed")
    /\ UNCHANGED <<lockTime, tasksLock, tasks, steals>>

-----------------------------------------------------------------------------
(* The mutation, under the lock. *)

ReadSnapshot(g) ==
    /\ store[g].pc = "read"
    /\ store' = [store EXCEPT ![g].snapshot = tasks, ![g].pc = "write"]
    /\ UNCHANGED <<lockTime, tasksLock, tasks, calls, steals>>

\* writeSnapshot renames a complete file: readers see the old or the new one.
WriteSnapshot(g) ==
    /\ store[g].pc = "write"
    /\ tasks' = store[g].snapshot \cup {Head(store[g].tail)}
    /\ calls' = [calls EXCEPT ![Head(store[g].tail)] = "written"]
    /\ Goes(g, "release")
    /\ UNCHANGED <<lockTime, tasksLock, steals>>

\* The snapshot cannot be read, the mutation throws or breaks the schema, or
\* the file cannot be written: the lock is given back all the same.
MutationFails(g) ==
    /\ store[g].pc \in {"read", "write"}
    /\ calls' = [calls EXCEPT ![Head(store[g].tail)] = "failed"]
    /\ Goes(g, "release")
    /\ UNCHANGED <<lockTime, tasksLock, tasks, steals>>

ReleaseLock(g) ==
    /\ store[g].pc = "release"
    /\ tasksLock' = IF Owns(g, tasksLock) /\ tasksLock.written THEN NoLock ELSE tasksLock
    /\ Settle(g, IF calls[Head(store[g].tail)] = "written" THEN "returned" ELSE "failed")
    /\ UNCHANGED <<lockTime, tasks, steals>>

-----------------------------------------------------------------------------
(* The environment. *)

\* The process is killed with its queue; its lock stays.
Crash(g) ==
    /\ store[g].pc # "dead"
    /\ store' = [store EXCEPT ![g] = [Idle(store[g].process) EXCEPT !.pc = "dead"]]
    /\ calls' = [m \in Mutations |-> IF \E i \in 1..Len(store[g].tail) : store[g].tail[i] = m
                                     THEN "failed" ELSE calls[m]]
    /\ UNCHANGED <<lockTime, tasksLock, tasks, steals>>

Restart(g) ==
    /\ store[g].pc = "dead" /\ store[g].process < MaxProcesses
    /\ store' = [store EXCEPT ![g] = Idle(store[g].process + 1)]
    /\ UNCHANGED <<lockTime, tasksLock, tasks, calls, steals>>

Tick ==
    /\ lockTime < MaxLockTime
    /\ tasksLock # NoLock /\ LiveOwner(tasksLock) => SlowHolders
    /\ lockTime' = lockTime + 1
    /\ UNCHANGED <<tasksLock, tasks, store, calls, steals>>

StoreStep(g) ==
    \/ Begin(g) \/ Acquire(g) \/ WriteRecord(g) \/ LookAt(g) \/ StealLock(g) \/ TryAgain(g)
    \/ TimesOut(g) \/ ReadSnapshot(g) \/ WriteSnapshot(g) \/ MutationFails(g) \/ ReleaseLock(g)

Next ==
    \/ \E g \in Gateways : \/ \E m \in Mutations : Mutate(g, m)
                           \/ StoreStep(g) \/ RecordFails(g) \/ Crash(g) \/ Restart(g)
    \/ Tick

Spec == Init /\ [][Next]_storeVars

-----------------------------------------------------------------------------

\* Every variable has its type.
TypeOK ==
    /\ lockTime \in 0..MaxLockTime /\ steals \in Nat
    /\ tasksLock \in LockRecord \cup {NoLock}
    /\ tasks \in SUBSET Mutations
    /\ store \in [Gateways -> [process : 1..MaxProcesses, tries : 0..(MaxTries - 1),
                               pc : {"idle", "dead", "try", "record", "look", "steal", "wait"} \cup Holding,
                               tail : Seq(Mutations), snapshot : SUBSET Mutations]]
    /\ calls \in [Mutations -> {"new", "queued", "written", "failed", "returned"}]

\* A mutation whose promise resolved stays in the file, whatever crashes and
\* whoever takes over a lock, for as long as at most one lock was taken over.
UpdatesAreKept ==
    steals <= 1 => {m \in Mutations : calls[m] = "returned"} \subseteq tasks

\* The same without the proviso: two stores find the same expired lock, and the
\* second unlinks the lock that the first has taken meanwhile.
EveryUpdateIsKept == {m \in Mutations : calls[m] = "returned"} \subseteq tasks

\* A lock that is left behind is taken over in the end, or the task store is
\* closed to every later mutation.
LocksAreFreed == \A g \in Gateways : tasksLock.owner = g ~> tasksLock.owner # g
=============================================================================
