------------------------------ MODULE WebSearch ------------------------------
(***************************************************************************)
(* The search manager (tools/search/searchManager.ts): the primary         *)
(* provider with its health checks, grace period and start command, and    *)
(* the fallback.  Searches of several runs, the status route and the       *)
(* recover_search tool share one manager, with an await at every request.  *)
(***************************************************************************)
EXTENDS Naturals, FiniteSets

CONSTANTS
    Searches,     \* jobs of the manager: searches, status and recover calls
    Commands,     \* processes the start command may become
    HasCommand,   \* whether a start command is configured
    Retries,      \* primaryHealthRetries
    Grace,        \* primaryHealthGraceMs, in ticks
    ProbeGap,     \* ticks between two probes of an unhealthy primary
    MaxTime,      \* bound on the clock
    MaxJobs       \* bound on the jobs begun

SearchConstants ==
    /\ HasCommand \in BOOLEAN
    /\ {Retries, Grace, ProbeGap, MaxJobs} \subseteq Nat /\ MaxTime \in Nat \ {0}

VARIABLES
    command,   \* the processes of the start command, external: one that runs on
               \* is late if its start was given up, replaced if a later one counts
    manager,   \* the fields of SearchManager
    search,    \* the jobs
    now

searchVars == <<command, manager, search, now>>

NotYet == 0
Kinds == {"search", "status", "recover"}
Job(kind) == [kind |-> kind, at |-> "health", left |-> Retries, from |-> "health", child |-> "none"]
NoJob == [kind |-> "none", at |-> "idle"]

Init ==
    /\ command = [c \in Commands |-> "new"]
    /\ manager = [healthyAt |-> NotYet, probedAt |-> NotYet, child |-> "none", stopped |-> FALSE, begun |-> 0]
    /\ search = [s \in Searches |-> NoJob]
    /\ now = 1

Goes(s, at) == search' = [search EXCEPT ![s] = IF at = "ended" THEN NoJob ELSE [@ EXCEPT !.at = at]]
At(s, at) == search[s].at = at
Healthy(m) == [m EXCEPT !.healthyAt = now]  \* failures are only reported

-----------------------------------------------------------------------------
(* The world: a request of the primary succeeds or not, and what a start    *)
(* command started may exit.                                               *)

Runs(c) == command[c] \in {"running", "late", "replaced"}

CommandExits(c) ==
    /\ Runs(c)
    /\ command' = [command EXCEPT ![c] = "exited"]
    /\ UNCHANGED <<manager, search, now>>

Tick ==
    /\ now < MaxTime /\ now' = now + 1
    /\ UNCHANGED <<command, manager, search>>

-----------------------------------------------------------------------------
(* The jobs. *)

Begin(s, kind) ==
    /\ search[s] = NoJob
    /\ ~manager.stopped /\ manager.begun < MaxJobs
    /\ manager' = [manager EXCEPT !.begun = @ + 1]
    /\ search' = [search EXCEPT ![s] = IF kind = "recover" THEN [Job(kind) EXCEPT !.at = "start"] ELSE Job(kind)]
    /\ UNCHANGED <<command, now>>

\* checkPrimaryHealthWithRetry.
HealthCheck(s) ==
    /\ At(s, "health")
    /\ \/ Goes(s, "healthy")
       \/ search[s].left > 0 /\ search' = [search EXCEPT ![s].left = @ - 1]
       \/ search[s].left = 0 /\ Goes(s, "unhealthy")
    /\ UNCHANGED <<command, manager, now>>

InGrace == manager.healthyAt # NotYet /\ now - manager.healthyAt <= Grace

\* ensurePrimaryHealthy; getProviderStatus only looks.
HealthKnown(s) ==
    /\ search[s].at \in {"healthy", "unhealthy"}
    /\ LET status == search[s].kind = "status" IN
         IF At(s, "healthy")
         THEN manager' = Healthy(manager) /\ Goes(s, IF status THEN "ended" ELSE "primary")
         ELSE /\ UNCHANGED manager
              /\ Goes(s, IF status THEN "ended" ELSE IF InGrace THEN "primary" ELSE "start")
    /\ UNCHANGED <<command, now>>

\* Where a job goes on once recoverPrimary has returned.
Recovered(job, ok) ==
    CASE job.kind = "recover" -> "ended"
      [] job.from = "search" -> IF ok THEN "retry" ELSE "fallback"
      [] OTHER -> IF ok THEN "primary" ELSE "probe"

\* recoverPrimary, up to the first sleep.
StartPrimary(s) ==
    /\ At(s, "start")
    /\ \/ /\ HasCommand
          /\ \E c \in Commands :
               /\ command[c] = "new"
               /\ command' = [command EXCEPT ![c] = "running"]
               /\ search' = [search EXCEPT ![s].at = "starting", ![s].child = c]
       \* No command, or the command cannot be spawned.
       \/ /\ ~HasCommand \/ \A c \in Commands : command[c] # "new"
          /\ Goes(s, Recovered(search[s], FALSE))
          /\ UNCHANGED command
    /\ UNCHANGED <<manager, now>>

TakeCharge(m, c) == [m EXCEPT !.child = c]

\* The loop of recoverPrimary: a health check after every sleep, until the
\* process is gone or the time is up.  A process that is late is left alone, and
\* so is the one that was remembered before.
StartChecked(s) ==
    /\ At(s, "starting")
    /\ LET job == search[s]
           up == TakeCharge(manager, job.child)
       IN \/ /\ manager' = IF job.from = "health" /\ job.kind = "search" THEN Healthy(up) ELSE up
             /\ command' = [c \in Commands |-> IF c = manager.child /\ command[c] = "running"
                                                   THEN "replaced" ELSE command[c]]
             /\ Goes(s, Recovered(job, TRUE))
          \/ /\ command' = [command EXCEPT ![job.child] = IF @ = "running" THEN "late" ELSE @]
             /\ Goes(s, Recovered(job, FALSE))
             /\ UNCHANGED manager
    /\ UNCHANGED <<now>>

\* The search of the primary: at the first try, as a probe, or as the retry of
\* a recovered primary.  Recovery is tried once for a search that threw.
PrimarySearched(s) ==
    /\ search[s].at \in {"primary", "retry"}
    /\ \/ manager' = Healthy(manager) /\ Goes(s, "ended")
       \* No results.
       \/ Goes(s, "fallback") /\ UNCHANGED manager
       \* It throws.
       \/ /\ UNCHANGED manager
          /\ search' = [search EXCEPT ![s].at = IF @ = "primary" THEN "start" ELSE "fallback",
                                      ![s].from = "search"]
    /\ UNCHANGED <<command, now>>

ProbeIsDue == manager.probedAt = NotYet \/ now - manager.probedAt >= ProbeGap

ProbeBegins(s) ==
    /\ At(s, "probe")
    /\ IF ProbeIsDue THEN manager' = [manager EXCEPT !.probedAt = now] /\ Goes(s, "probing")
       ELSE Goes(s, "fallback") /\ UNCHANGED manager
    /\ UNCHANGED <<command, now>>

\* tryPrimarySearchProbe.
Probed(s) ==
    /\ At(s, "probing")
    /\ \/ manager' = Healthy(manager) /\ Goes(s, "ended")
       \/ Goes(s, "fallback") /\ UNCHANGED manager
    /\ UNCHANGED <<command, now>>

\* The fallback answers or throws; without one the search throws.
FallbackSearched(s) ==
    /\ At(s, "fallback") /\ Goes(s, "ended")
    /\ UNCHANGED <<command, manager, now>>

\* shutdown: the group of the remembered process is killed.
StopSearch ==
    /\ ~manager.stopped
    /\ command' = [c \in Commands |-> IF c = manager.child /\ command[c] = "running" THEN "killed" ELSE command[c]]
    /\ manager' = [manager EXCEPT !.child = "none", !.stopped = TRUE]
    /\ UNCHANGED <<search, now>>

JobStep(s) ==
    \/ HealthCheck(s) \/ HealthKnown(s) \/ StartPrimary(s) \/ StartChecked(s) \/ PrimarySearched(s)
    \/ ProbeBegins(s) \/ Probed(s) \/ FallbackSearched(s)

Next ==
    \/ Tick \/ StopSearch
    \/ \E c \in Commands : CommandExits(c)
    \/ \E s \in Searches : JobStep(s) \/ \E kind \in Kinds : Begin(s, kind)

Spec == Init /\ [][Next]_searchVars

-----------------------------------------------------------------------------
(* Properties. *)

\* The jobs and the manager's fields are what the code can make of them.
TypeOK ==
    /\ now \in 1..MaxTime
    /\ manager.healthyAt \in 0..now /\ manager.probedAt \in 0..now
    /\ manager.child \in Commands \cup {"none"}
    /\ \A s \in Searches : search[s] # NoJob => search[s].left \in 0..Retries /\ search[s].kind \in Kinds

\* The manager answers for what it started: a process of the start command
\* that runs is being started, is the one shutdown kills, or was given up for
\* one of two reasons, which leave a process behind after shutdown.
StartsAreOwned ==
    \A c \in Commands :
        command[c] = "running" =>
            manager.child = c \/ \E s \in Searches : At(s, "starting") /\ search[s].child = c

\* After shutdown nothing runs that a search started.  It does not hold: a start
\* that is late and one that was replaced are forgotten.
StopsWhatItStarted ==
    manager.stopped /\ (\A s \in Searches : search[s] = NoJob) => \A c \in Commands : ~Runs(c)

\* Every search ends, however the provider comes and goes.
SearchesEnd == \A s \in Searches : []<>(search[s] = NoJob)

=============================================================================
