----------------------------- MODULE AlfredHome -----------------------------
(***************************************************************************)
(* The commands that make Alfred's home: alfred setup (config/setup.ts),   *)
(* alfred migrate (config/homeMigration.ts) and alfred service             *)
(* (config/service.ts).  Every command is a process of its own, and may    *)
(* run while another does; launchd and the file system are external.       *)
(***************************************************************************)
EXTENDS Naturals, Sequences, FiniteSets

CONSTANTS
    Commands,         \* commands that may run at one time
    OldFiles,         \* what the old checkout has, of HomeFiles
    ServiceOverlaps,  \* whether two service commands may overlap
    MayBeKilled,      \* the commands that may be killed
    MaxCommands       \* bound on the commands

HomeFiles == {"config", "soul", "instructions", "workspace"}
HomeOps == {"setup", "migrate"}
ServiceOps == {"install", "restart", "uninstall"}

HomeConstants ==
    /\ OldFiles \subseteq HomeFiles /\ MayBeKilled \subseteq HomeOps \cup ServiceOps
    /\ ServiceOverlaps \in BOOLEAN /\ MaxCommands \in Nat

VARIABLES
    home,      \* the home directory and its files
    service,   \* the LaunchAgent: its file, and whether launchd has loaded it
    cmd,       \* the commands
    cmdCount   \* commands started so far

homeVars == <<home, service, cmd, cmdCount>>

NoFile == [state |-> "none", from |-> "none"]
NoCmd == [op |-> "none", at |-> "none", open |-> FALSE, staged |-> {}]

Init ==
    /\ home = [dir |-> "none", file |-> [f \in HomeFiles |-> NoFile]]
    /\ service = [plist |-> FALSE, loaded |-> FALSE]
    /\ cmd = [c \in Commands |-> NoCmd]
    /\ cmdCount = 0

Goes(c, at) == cmd' = [cmd EXCEPT ![c].at = at]
Ends(c) == cmd' = [cmd EXCEPT ![c] = NoCmd]

Start(c, op) ==
    /\ cmd[c] = NoCmd /\ cmdCount < MaxCommands /\ cmdCount' = cmdCount + 1
    /\ op \in ServiceOps => ServiceOverlaps \/ \A d \in Commands : cmd[d].op \notin ServiceOps
    /\ cmd' = [cmd EXCEPT ![c] = [NoCmd EXCEPT !.op = op, !.at = "begin"]]
    /\ UNCHANGED <<home, service>>

Killed(c) ==
    /\ cmd[c].op \in MayBeKilled
    /\ Ends(c) /\ UNCHANGED <<home, service, cmdCount>>

-----------------------------------------------------------------------------
(* setup. *)

SetupMakesHome(c) ==
    /\ cmd[c].op = "setup" /\ cmd[c].at \in {"begin", "dirs"}
    /\ home' = [home EXCEPT !.dir = IF cmd[c].at = "dirs" THEN "full" ELSE IF @ = "none" THEN "bare" ELSE @]
    /\ Goes(c, IF cmd[c].at = "begin" THEN "dirs" ELSE "config")
    /\ UNCHANGED <<service, cmdCount>>

After(f) == IF f = "config" THEN "soul" ELSE IF f = "soul" THEN "instructions" ELSE "done"

\* The file is created; its content is written next.
Creates(c, f) == [cmd[c] EXCEPT !.open = TRUE]

\* writeOnce: the flag wx creates the file or finds it there; its content comes
\* later.
WriteOnce(c, f) ==
    /\ cmd[c].op = "setup" /\ cmd[c].at = f /\ ~cmd[c].open
    /\ IF home.file[f] = NoFile
       THEN /\ home' = [home EXCEPT !.file[f] = [state |-> "empty", from |-> "setup"]]
            /\ cmd' = [cmd EXCEPT ![c] = Creates(c, f)]
       ELSE Goes(c, After(f)) /\ UNCHANGED home
    /\ UNCHANGED <<service, cmdCount>>

FileWritten(c, f) ==
    /\ cmd[c].op = "setup" /\ cmd[c].at = f /\ cmd[c].open
    /\ home' = [home EXCEPT !.file[f].state = "whole"]
    /\ cmd' = [cmd EXCEPT ![c].at = After(f), ![c].open = FALSE]
    /\ UNCHANGED <<service, cmdCount>>

CommandDone(c) ==
    /\ cmd[c].at = "done"
    /\ Ends(c) /\ UNCHANGED <<home, service, cmdCount>>

-----------------------------------------------------------------------------
(* migrate. *)

\* A home that exists is never touched.
MigrateBegins(c) ==
    /\ cmd[c].op = "migrate" /\ cmd[c].at = "begin"
    /\ IF home.dir = "none" THEN Goes(c, "copy") ELSE Ends(c)
    /\ UNCHANGED <<home, service, cmdCount>>

\* A copy that fails takes the staging directory away.
CopyEntry(c) ==
    /\ cmd[c].at = "copy"
    /\ \/ \E f \in OldFiles \ cmd[c].staged : cmd' = [cmd EXCEPT ![c].staged = @ \cup {f}]
       \/ OldFiles \ cmd[c].staged # {} /\ Ends(c)
    /\ UNCHANGED <<home, service, cmdCount>>

\* A bug: the rename does not wait for all entries.
AnyStaged(s) == TRUE

AllStaged(s) == s = OldFiles

\* The staging directory gets the name of the home, if there is none by then or
\* an empty directory.
RenameHome(c) ==
    /\ cmd[c].at = "copy" /\ AllStaged(cmd[c].staged)
    /\ home' = IF home.dir = "full" THEN home
               ELSE [dir |-> "full",
                     file |-> [f \in HomeFiles |-> IF f \in cmd[c].staged
                                                     THEN [state |-> "whole", from |-> "old"] ELSE NoFile]]
    /\ Ends(c)
    /\ UNCHANGED <<service, cmdCount>>

-----------------------------------------------------------------------------
(* service.  A launchctl that fails ends the command. *)

\* install: the checked file takes the place of the old one.
WritePlist(c) ==
    /\ cmd[c].op = "install" /\ cmd[c].at = "begin"
    /\ \/ service' = [service EXCEPT !.plist = TRUE] /\ Goes(c, "running?")
       \/ UNCHANGED service /\ Ends(c)
    /\ UNCHANGED <<home, cmdCount>>

\* isRunning, of install and of uninstall.
IsRunning(c) ==
    /\ \/ cmd[c].op = "uninstall" /\ cmd[c].at = "begin"
       \/ cmd[c].op = "install" /\ cmd[c].at = "running?"
    /\ Goes(c, IF service.loaded THEN "bootout" ELSE "next")
    /\ UNCHANGED <<home, service, cmdCount>>

Bootout(c) ==
    /\ cmd[c].at = "bootout"
    /\ IF service.loaded THEN service' = [service EXCEPT !.loaded = FALSE] /\ Goes(c, "next")
       ELSE UNCHANGED service /\ Ends(c)
    /\ UNCHANGED <<home, cmdCount>>

Bootstrap(c) ==
    /\ cmd[c].op = "install" /\ cmd[c].at = "next"
    /\ service' = IF service.plist THEN [service EXCEPT !.loaded = TRUE] ELSE service
    /\ Ends(c)
    /\ UNCHANGED <<home, cmdCount>>

Removed(s) == [s EXCEPT !.plist = FALSE]

RemovePlist(c) ==
    /\ cmd[c].op = "uninstall" /\ cmd[c].at = "next"
    /\ service' = Removed(service)
    /\ Ends(c)
    /\ UNCHANGED <<home, cmdCount>>

\* restart: kickstart needs a loaded service.
Kickstart(c) ==
    /\ cmd[c].op = "restart" /\ cmd[c].at = "begin"
    /\ Ends(c) /\ UNCHANGED <<home, service, cmdCount>>

CommandStep(c) ==
    \/ SetupMakesHome(c) \/ (\E f \in HomeFiles : WriteOnce(c, f) \/ FileWritten(c, f)) \/ CommandDone(c)
    \/ MigrateBegins(c) \/ CopyEntry(c) \/ RenameHome(c)
    \/ WritePlist(c) \/ IsRunning(c) \/ Bootout(c) \/ Bootstrap(c) \/ RemovePlist(c) \/ Kickstart(c)

Next ==
    \E c \in Commands :
        \/ CommandStep(c) \/ Killed(c)
        \/ \E op \in HomeOps \cup ServiceOps : Start(c, op)

Spec == Init /\ [][Next]_homeVars

-----------------------------------------------------------------------------
(* Properties. *)

Quiet(ops) == \A c \in Commands : cmd[c].op \notin ops
IsInitialized == home.file["config"] # NoFile /\ home.file["soul"] # NoFile

\* The home's files and the commands are what the code can make of them.
TypeOK ==
    /\ home.dir \in {"none", "bare", "full"}
    /\ home.dir # "full" => \A f \in HomeFiles : home.file[f] = NoFile
    /\ \A c \in Commands : cmd[c].staged \subseteq OldFiles

\* A migration arrives whole or not at all, killed or not, also if a setup makes
\* the home meanwhile (homeMigration.ts: staging and rename).
MigrationIsWhole ==
    (\E f \in HomeFiles : home.file[f].from = "old")
        => \A f \in OldFiles : home.file[f] = [state |-> "whole", from |-> "old"]

\* A home that isInitialized takes for initialized has its files written, once
\* no setup is under way.  It does not hold if a setup may be killed: the file it
\* had opened is preserved, empty, by every later setup.
InitializedIsWritten ==
    Quiet({"setup"}) /\ IsInitialized => \A f \in {"config", "soul"} : home.file[f].state = "whole"

\* launchd runs no service whose file was removed.  It does not hold if install
\* and uninstall overlap.
LoadedHasPlist == Quiet(ServiceOps) /\ service.loaded => service.plist

=============================================================================
