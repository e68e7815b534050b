------------------------------- MODULE PidLock -------------------------------
(***************************************************************************)
(* The lock that makes one gateway own a workspace: PidLock of             *)
(* src/gateway/pidLock.ts, as bootstrap and shutdown of server.ts use it.  *)
(* Processes share only the file; every call on it is a step.              *)
(*                                                                         *)
(* A record is identified by the process and its start, which stands for   *)
(* the random token and for a pid that is not used again.                  *)
(***************************************************************************)
EXTENDS Naturals, FiniteSets

CONSTANTS
    Procs,          \* places a gateway is started from
    MaxAttempts,    \* attempts to create the lock (8)
    StartsOverlap,  \* whether a gateway may be started while another acquires
    SlowWrites,     \* whether a new lock may be read before its record is in it
    WriteMayFail,   \* whether writing the record may fail
    MayCrash,       \* whether a process may be killed
    MaxStarts       \* bound: starts of each place

\* What the constants may be.
LockConstants ==
    /\ {MaxAttempts, MaxStarts} \subseteq Nat \ {0}
    /\ {StartsOverlap, SlowWrites, WriteMayFail, MayCrash} \subseteq BOOLEAN

VARIABLES
    file,   \* server.pid
    proc    \* the acquire or release of each process

vars == <<file, proc>>

Record == [proc : Procs, start : 1..MaxStarts, written : BOOLEAN]
NoFile == [written |-> FALSE]

Acquiring == {"open", "write", "read", "quarantine"}
Releasing == {"readOwn", "unlink"}

Init ==
    /\ file = NoFile
    /\ proc = [p \in Procs |-> [pc |-> "dead", start |-> 0, attempt |-> 0]]

Mine(p)   == file # NoFile /\ file.proc = p /\ file.start = proc[p].start
Runs(p)   == proc[p].pc \notin {"dead", "refused"}
Alive(r)  == proc[r.proc].start = r.start /\ Runs(r.proc)
Go(p, pc) == proc' = [proc EXCEPT ![p].pc = pc]

-----------------------------------------------------------------------------

Start(p) ==
    /\ ~Runs(p) /\ proc[p].start < MaxStarts
    /\ StartsOverlap \/ \A q \in Procs : proc[q].pc \notin Acquiring
    /\ proc' = [proc EXCEPT ![p] = [pc |-> "open", start |-> @.start + 1, attempt |-> 0]]
    /\ UNCHANGED file

\* open with wx: it creates the lock or fails with EEXIST.
Open(p) ==
    /\ proc[p].pc = "open"
    /\ IF file = NoFile
       THEN /\ file' = [proc |-> p, start |-> proc[p].start, written |-> FALSE]
            /\ Go(p, "write")
       ELSE Go(p, "read") /\ UNCHANGED file

\* The record goes through the handle: to a lock that was moved meanwhile if
\* there was one.  The process owns the lock from here.
Write(p) ==
    /\ proc[p].pc = "write"
    /\ file' = IF Mine(p) THEN [file EXCEPT !.written = TRUE] ELSE file
    /\ Go(p, "owns")

\* The path is unlinked, whoever's lock is there, and the start fails.
WriteFails(p) ==
    /\ WriteMayFail /\ proc[p].pc = "write"
    /\ file' = NoFile
    /\ Go(p, "dead")

\* readRecord, and the check of its owner.  A lock without a record is read
\* three times, which a prompt writer does not let happen.
Read(p) ==
    /\ proc[p].pc = "read"
    /\ file # NoFile /\ ~file.written /\ Alive(file) => SlowWrites
    /\ Go(p, IF file # NoFile /\ file.written /\ Alive(file) THEN "refused" ELSE "quarantine")
    /\ UNCHANGED file

\* quarantineStaleLock renames whatever is there.
Quarantine(p) ==
    /\ proc[p].pc = "quarantine"
    /\ file' = NoFile
    /\ proc' = [proc EXCEPT ![p].attempt = @ + 1,
                            ![p].pc = IF proc[p].attempt + 1 < MaxAttempts THEN "open" ELSE "refused"]

\* shutdown: release gives up ownership before it reads the lock.
Release(p) ==
    /\ proc[p].pc = "owns"
    /\ Go(p, "readOwn")
    /\ UNCHANGED file

ReadOwn(p) ==
    /\ proc[p].pc = "readOwn"
    /\ Go(p, IF Mine(p) /\ file.written THEN "unlink" ELSE "dead")
    /\ UNCHANGED file

Unlink(p) ==
    /\ proc[p].pc = "unlink"
    /\ file' = NoFile
    /\ Go(p, "dead")

Crash(p) ==
    /\ MayCrash /\ Runs(p)
    /\ Go(p, "dead")
    /\ UNCHANGED file

Next ==
    \E p \in Procs :
        \/ Start(p) \/ Open(p) \/ Write(p) \/ WriteFails(p) \/ Read(p)
        \/ Quarantine(p) \/ Release(p) \/ ReadOwn(p) \/ Unlink(p) \/ Crash(p)

Spec == Init /\ [][Next]_vars

-----------------------------------------------------------------------------

\* Every variable has its type.
TypeOK ==
    /\ file \in Record \cup {NoFile}
    /\ proc \in [Procs -> [pc : {"dead", "refused", "owns"} \cup Acquiring \cup Releasing,
                           start : 0..MaxStarts, attempt : 0..MaxAttempts]]

\* The lock is in its owner's name for as long as it is owned or being given
\* back, so that every other process that starts finds it.
OwnerHoldsLock ==
    \A p \in Procs : proc[p].pc \in {"owns"} \cup Releasing => Mine(p) /\ file.written

\* pidLock.ts:84: "An ownership-safe, atomic PID lock for one Alfred server
\* process."
OneOwner ==
    \A p, q \in Procs : proc[p].pc = "owns" /\ proc[q].pc = "owns" => p = q
=============================================================================
