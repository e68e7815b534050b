----------------------------- MODULE ServerParts -----------------------------
(***************************************************************************)
(* Twelve parts of the gateway and of its commands.  They share no state   *)
(* and never wait for each other, so their interleavings show nothing that *)
(* the parts do not show alone: a behaviour is one of one part, the others *)
(* stay as they begin.  Each module says what its constants mean.          *)
(***************************************************************************)
EXTENDS ThreadRuntime

CONSTANTS
    Procs, MaxAttempts, StartsOverlap, SlowWrites, WriteMayFail, MayCrash, MaxStarts,
    Producers, Flushers, EventsEach, MaxBufferedEvents, LowWatermark, SinkMayFail, None,
    ApprovalSessions, Actions, TTL, MaxTime, MaxRequests,
    Gateways, Mutations, MaxTries, LockTtl, SlowHolders, MaxLockTime, MaxProcesses,
    Blobs, SizeOf, MaxBytes, MaxEntries, MaxBlobOps, MaxBlobFaults,
    Children, Restarted, MaxRestarts, SignalsAt, FailsAt, MaxExits,
    Calls, Default, AttachMayRace, MaxFileFaults,
    Events, TokenIsSet, UsesTelegram, NotifierMayFail,
    Clients, RateLimitMax, Window, MaxBuckets, MaxRateTime,
    Commands, OldFiles, ServiceOverlaps, MayBeKilled, MaxCommands,
    Users, Versions, WritesOverlap, MaxUses

VARIABLES part,
          file, proc,
          push, settled, buffer, current, flush, awaited,
          now, request, pending, approved, granted, uses,
          lockTime, tasksLock, tasks, store, calls, steals,
          blobFile, metaFile, index, loaded, blobOp, blobClock, blobFaults, begun, returned,
          boot, down, pidLock, serving, engine, apiKey, child, tracked, exits,
          files, fileTails, call, undone, fileFaults,
          event, log, pushes, nudged,
          rateTime, buckets, passed,
          home, service, cmd, cmdCount,
          ext, use, extLoaded, approvals, useCount

lockVars      == <<file, proc>>
channelVars   == <<push, settled, buffer, current, flush, awaited>>
approvalVars  == <<now, request, pending, approved, granted, uses>>
storeVars     == <<lockTime, tasksLock, tasks, store, calls, steals>>
blobVars      == <<blobFile, metaFile, index, loaded, blobOp, blobClock, blobFaults, begun, returned>>
serverVars    == <<boot, down, pidLock, serving, engine, apiKey, child, tracked, exits>>
fileVars      == <<files, fileTails, call, undone, fileFaults>>
eventVars     == <<event, log, pushes, nudged>>
rateVars      == <<rateTime, buckets, passed>>
homeVars      == <<home, service, cmd, cmdCount>>
extensionVars == <<ext, use, extLoaded, approvals, useCount>>

-----------------------------------------------------------------------------
(* The parts; the thread runtime is this module's own. *)

Lock      == INSTANCE PidLock
Channel   == INSTANCE RunEventChannel WITH queue <- buffer
Approvals == INSTANCE ToolApprovals WITH Sessions <- ApprovalSessions
Store     == INSTANCE StoreLock
BlobFiles == INSTANCE BlobStore
Server    == INSTANCE ServerProcess
Files     == INSTANCE SessionFiles WITH Ops <- Calls
Ingress   == INSTANCE AgentEvents
Rate      == INSTANCE RateLimit
Home      == INSTANCE AlfredHome
Extension == INSTANCE Extensions WITH loaded <- extLoaded

PartConstants ==
    /\ Lock!LockConstants /\ Channel!ChannelConstants /\ ThreadConstants
    /\ Approvals!ApprovalConstants /\ Store!StoreLockConstants /\ BlobFiles!BlobConstants
    /\ Server!ServerConstants /\ Files!SessionFileConstants /\ Ingress!IngressConstants
    /\ Rate!RateConstants /\ Home!HomeConstants /\ Extension!ExtensionConstants

-----------------------------------------------------------------------------

PartsInit ==
    /\ part \in {"lock", "channel", "threads", "approvals", "store", "blobs", "server", "files",
                 "ingress", "rate", "home", "extension"}
    /\ Lock!Init /\ Channel!Init /\ Init /\ Approvals!Init /\ Store!Init /\ BlobFiles!Init
    /\ Server!Init /\ Files!Init /\ Ingress!Init /\ Rate!Init /\ Home!Init /\ Extension!Init
    /\ part # "server" => ~apiKey.file
    /\ part # "files" => files.bindings = Files!NoBinding

OthersStay ==
    /\ UNCHANGED part
    /\ part # "lock" => UNCHANGED lockVars
    /\ part # "channel" => UNCHANGED channelVars
    /\ part # "threads" => UNCHANGED vars
    /\ part # "approvals" => UNCHANGED approvalVars
    /\ part # "store" => UNCHANGED storeVars
    /\ part # "blobs" => UNCHANGED blobVars
    /\ part # "server" => UNCHANGED serverVars
    /\ part # "files" => UNCHANGED fileVars
    /\ part # "ingress" => UNCHANGED eventVars
    /\ part # "rate" => UNCHANGED rateVars
    /\ part # "home" => UNCHANGED homeVars
    /\ part # "extension" => UNCHANGED extensionVars

PartsNext ==
    \/ part = "lock" /\ Lock!Next /\ OthersStay
    \/ part = "channel" /\ Channel!Next /\ OthersStay
    \/ part = "threads" /\ Next /\ OthersStay
    \/ part = "approvals" /\ Approvals!Next /\ OthersStay
    \/ part = "store" /\ Store!Next /\ OthersStay
    \/ part = "blobs" /\ BlobFiles!Next /\ OthersStay
    \/ part = "server" /\ Server!Next /\ OthersStay
    \/ part = "files" /\ Files!Next /\ OthersStay
    \/ part = "ingress" /\ Ingress!Next /\ OthersStay
    \/ part = "rate" /\ Rate!Next /\ OthersStay
    \/ part = "home" /\ Home!Next /\ OthersStay
    \/ part = "extension" /\ Extension!Next /\ OthersStay

partVars == <<part, lockVars, channelVars, vars, approvalVars, storeVars, blobVars, serverVars,
          fileVars, eventVars, rateVars, homeVars, extensionVars>>

\* The fairness of each part, for the behaviours that are its own.
ChannelFairness ==
    /\ \A p \in Producers : /\ WF_channelVars(part = "channel" /\ Channel!Resume(p))
                              /\ WF_channelVars(part = "channel" /\ Channel!Enqueue(p))
    /\ WF_channelVars(part = "channel" /\ \E ok \in BOOLEAN : Channel!SinkEnds(ok))

ThreadFairness ==
    /\ WF_vars(part = "threads" /\ ReturnSlot)
    /\ \A s \in Sessions : WF_vars(part = "threads" /\ Run(s))

ServerFairness == WF_serverVars(part = "server" /\ Server!ShutdownStep)

FileFairness == \A o \in Calls : WF_fileVars(part = "files" /\ Files!FileStep(o))

FairParts ==
    /\ PartsInit /\ [][PartsNext]_partVars
    /\ ChannelFairness /\ ThreadFairness /\ ServerFairness /\ FileFairness

-----------------------------------------------------------------------------
(* The properties of the parts. *)

\* Every variable has its type.
PartsTypeOK ==
    /\ Lock!TypeOK /\ Channel!TypeOK /\ TypeOK /\ Approvals!TypeOK /\ Store!TypeOK
    /\ BlobFiles!TypeOK /\ Server!TypeOK /\ Files!TypeOK /\ Ingress!TypeOK /\ Rate!TypeOK
    /\ Home!TypeOK /\ Extension!TypeOK

\* The lock stays in its owner's name (server.ts, pidLock.ts), a gateway that
\* serves holds it, and no child outlives its gateway.
OneGateway == Lock!OwnerHoldsLock /\ Server!ServingHoldsLock /\ Server!ChildrenDieWithServer

\* What was acknowledged is kept, through crashes, overtaken locks and failed
\* writes: run events (eventChannel.ts), scheduler tasks (taskStore.ts), sessions,
\* memories, links and bindings (withFileLock), blobs within the caps
\* (channels/blobStore.ts), and agent events (dispatcher.ts).
NothingIsLost ==
    /\ Channel!EventsAreKept
    /\ Store!UpdatesAreKept
    /\ Files!FilesKeepUpdates
    /\ BlobFiles!IndexIsDisk
    /\ Ingress!AnsweredIsRouted

\* Files that belong together agree: the session of a chat and its binding, the
\* files of a home made by setup or migration, the plist and launchd.
FilesAgree ==
    /\ Files!OneSessionPerChat
    /\ Home!MigrationIsWhole /\ Home!InitializedIsWritten /\ Home!LoadedHasPlist

\* What runs was approved, as often and as long as the approval says: actions
\* of tools, and the code of extensions with the digest that was approved.
RunsAreApproved == Approvals!RunsAreApproved /\ Extension!LoadedIsApproved

\* The limits hold: an address gets less than two windows' worth of requests in
\* the length of one (gateway/app.ts); the blob store evicts what was used first,
\* across a restart, and a put or a load leaves it under its caps.
CapsAreKept == []Rate!WindowsAreKept /\ BlobFiles!EvictsOldest /\ BlobFiles!CapIsKept

\* What is begun ends: a push into the full buffer, an op that is submitted, a
\* call that waits for a file, a shutdown.
PartsEnd == Channel!PushesEnd /\ OpsEnd /\ Files!CallsEnd /\ Server!SignalsEnd
=============================================================================
