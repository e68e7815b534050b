# Alfred in TLA+

This directory models the concurrent and persistent parts of Alfred (`src/`): the
autonomous scheduler, the turns of a conversation and what they reach for outside,
what terminal, page and Telegram see of them, the locks, queues, buffers and files
between them, and the commands that make and serve a home. Every module is
translated from the TypeScript of `src/src/`; documents are quoted only where
the code is compared with what they say.

1. The system and its components
2. Modules
3. Runs: what each one checks, its bounds, its fairness
4. Proofs
5. Where documents and code disagree
6. Abstractions, what is only model-checked, what is not modelled
7. Plan

## 1. The system and its components

Alfred is one Node.js process, the *gateway*, that serves HTTP, a terminal
client (TUI) and Telegram, and keeps all its state in JSON files of a workspace.
JavaScript runs on one thread, so what can go wrong between two pieces of code is
what happens at an `await`: **every piece of code between two awaits is one step
of a model, and everything that another handler, a timer or a crash can do
between two such pieces is interleaved.** Files survive a crash, memory does not.

| Component | State | Operations | Hard behaviour | Correct when | Module |
|---|---|---|---|---|---|
| Task store (`scheduler/taskStore.ts`, `schemas.ts`) | `tasks.json`: status, cycle count, claim owner, lease, run | create, claim, markRunning, renewLease, completeCycle, failCycle, rescheduleCycle, cancel, reconcile, nudge | results of cycles that are over, stale compare-and-set stamps, validation that throws | only the active cycle of a task can close it; terminal is final; cycles are counted | `TaskStore` |
| Scheduler engine (`engine.ts`, `api.ts`) | timer, `ticking`, `activeCount`, last wake, active runs | start/recover, tick, runClaim, renew, handleAgentEvent, schedule, cancel, stop | ticks from timers and from events overlap jobs, cancellation, shutdown, crash; leases left by a crashed process | a claim has exactly one worker, slots are counted, the timer is always armed, every claim is closed, every due task is taken | `SchedulerEngine`, abstract: `TaskLifecycle` |
| Reminder, watch and wake delivery (`reminder.ts`, `watch.ts`, `notifier.ts`, `deliveryStore.ts`) | `deliveries.json`, `deliveries.lock` | ensure, claimSending, markDelivered, markFailed around a send | lost answers, failed ledger writes, crash between send and record, orphaned lock | task outcome agrees with the ledger, a message is only repeated after a fault, every loop ends | `Deliveries` |
| Probes, herdr terminals (`scheduler/probes`) | none of their own | observe | external | – | outcome is a choice in `SchedulerEngine` |
| Chat service (`runner/chatService.ts`, `chatControls.ts`) | admission and execution mutex per session | handleTurn, handleScheduledTurn, commands, cancel, recoverInterruptedRuns | retried requests, queued, inline, slash and scheduled turns on one mutex, failure before the agent starts, restart | one run per request id, turns see their predecessors, every run ends | `ChatTurns` |
| Run store (`runs/runStore.ts`, `storage/`) | run files, change journal, event files | createRun, updateRun, appendEvent | two files per write, crash between them | (with the stream) | `ChatTurns`, `ConversationStream` |
| Run event channel (`runs/eventChannel.ts`) | bounded buffer, waiters | push, flush | wakeups at the low-watermark, failing appends | no event lost or doubled, every push ends, flush means flushed | `RunEventChannel` |
| Conversation stream and TUI client (`gateway/conversationStream.ts`, `tui/client.ts`) | cursor, snapshot, replay | snapshot, replay, coalesce, reconnect | changes during a snapshot, cut journal, restart | nothing before the cursor is missed, nothing goes back | `ConversationStream` |
| Thread, turn runtime and pool (`runtime/threadRuntime.ts`, `turnRuntime.ts`, `workers/inMemoryQueue.ts`) | queue and flag per session, slots | submit, drain, run, return slot | op queued while the loop ends, failing lifecycle events | one loop per session, every op ends | `ThreadRuntime` |
| Tool approvals (`runtime/toolApprovalStore.ts`) | pending requests, approvals | gate, approve, reject, consume, prune | expiry against answers, repeated requests | an action runs only under an approval of its own that is still alive | `ToolApprovals` |
| Pid lock (`gateway/pidLock.ts`) | `server.pid` | acquire, quarantine, release | several starters, crash between steps | one owner | `PidLock` |
| Task lock (`scheduler/taskStore.ts`) | queue of mutations, `tasks.lock`, `tasks.json` | mutate, acquire, steal, read, write, release | crash of a holder, a lock that expires, two thieves, a broken file | no acknowledged mutation is lost | `StoreLock` |
| Server (`gateway/server.ts`) | places of bootstrap and shutdown, managed children, API key | bootstrap, restart a child, shutdown | signal at any await of bootstrap, failed steps | what serves holds the lock, children end with the gateway, a signal ends it | `ServerProcess`; also `Boot`, `Stop`, `Exit` of `SchedulerEngine` |
| JSON files (`utils/fs.ts`, `memory/sessionStore.ts`, `channels/channelSessionStore.ts`, `identityStore.ts`) | sessions, bindings, links; a lock per path | patch, reset, create, bind, attach, label, link, unlink | whole files read and written back, nested locks, crash | no update is lost, one session per chat | `SessionFiles` |
| Channel blobs (`channels/blobStore.ts`) | files, sidecars, index | load, put, get, evict | crash between blob, sidecar and eviction; files others touch | index is the disk, caps hold, the oldest goes first | `BlobStore` |
| Agent events (`gateway/app.ts`, `agentEvents/`) | log | post: append, route, notify, hook | notifier refuses or times out | what is answered with ok was pushed and handed on | `AgentEvents` |
| Rate limit (`gateway/app.ts`) | buckets | count, sweep | window boundaries | less than two windows' worth in one | `RateLimit` |
| Home and service (`config/setup.ts`, `homeMigration.ts`, `service.ts`) | home, LaunchAgent | setup, migrate, install, restart, uninstall | killed between files, overlap | a home is whole or absent | `AlfredHome` |
| Extensions (`extensions/manager.ts`, `tools/registry.ts`) | directory, `enabled.json` | scaffold, write, enable, disable, discover | file-by-file digests against writers | only approved code is loaded | `Extensions` |
| Agent loop, tool envelope, HTTP model call (`runtime/agentLoop.ts`, `groundingGuard.ts`, `tools/registry.ts`, `provider/openai-http.ts`) | loop counters, tools that succeeded, the selected scheduler action | iterate, call the model with retries, repair an ungrounded answer, run a batch of tools | deadline and cancellation between any two steps, failures while a tool is recorded, limits reached in the middle of a batch | limits hold, a scheduled turn ends with exactly one action, every turn ends | `AgentTurn` |
| Codex turn (`runtime/codexAppServerRuntime.ts`, `provider/codex/appServerTurn.ts`, `appServerClient.ts`) | child process, pending requests, abort controller, tool count | handshake, requests, notifications, dynamic tool calls, interrupt, close | the server answers, dies or emits nonsense at any moment; completion, abort and timeout race; tool calls overlap | a turn ends, the tool limit holds, only a user cancels | `CodexTurn` |
| Telegram adapter (`channels/telegram/adapter.ts`, `channelSessionStore.ts`) | deduper, reservations, confirmation, binding of the chat | update, commands, submit, poll, deliver | runs end in any order, sends fail, updates come twice, restart | replies keep the order of the messages, every message is answered | `TelegramChat` |
| Providers (`provider/router.ts`, `openai-http.ts`, `openai.ts`, `anthropic.ts`, `gemini.ts`, `utils/reliability.ts`) | attempts, trace, conversation | route, attempt, retry, fall back, translate | failure classes, broken bodies, cut answers | the next provider makes good a passing failure, results follow calls | `ProviderCalls` |
| Search (`tools/search/searchManager.ts`) | health, spawned child | search, status, recover, shutdown | concurrent starts, late processes | what was started is owned, searches end | `WebSearch` |
| Page fetches (`webFetch.tool.ts`, `pinchtabPool.ts`, `browserPool.ts`, `preferredBrowserPool.ts`) | queue, workers, pages | collect, choose a backend, store | deadline in a batch, backend fails later | each address once, what was read is stored | `WebFetch` |
| Browsers (`browserController.ts`) | controllers of chats, tabs | navigate, tabs, close, sweep | launch, close and sweep overlap calls | every browser can be closed | `BrowserSessions` |
| OpenAI account (`accountService.ts`, `subscriptionService.ts`, `appServerClient.ts`, `webui/app.js`) | logins, cached limits, the pipe, the page's interval | sign in, wait, cancel, sign out, read limits, poll | events before answers, crash, timeouts | an ended login stays ended, polling and calls end | `CodexAccount` |
| Web page (`webui/app.js`) | chosen session, runs, run that is polled | select, create, send, open, refresh, poll, cancel | answers arrive after the user went on | what is shown is the session's, polling ends | `WebClient` |
| Other HTTP routes, contents of memory and pages, tools on files and shell, environment, evaluations | – | – | – | – | not modelled, section 6 |

How they interact: HTTP routes and channels call the chat service; it admits a
message under a session lock, creates a run in the run store, and hands the turn
to the thread runtime, whose loop runs the agent in a pool slot: the agent loop
over a provider's HTTP calls, or a Codex App Server process. The agent writes
run events through the event channel and runs tools, some of which ask for an
approval, others schedule tasks. The engine claims due tasks, and per kind sends a
reminder, probes a watch, or calls back into the chat service
(`executeScheduledTurn`), whose run record recovery later inspects. The run
store's journal feeds the streams of the terminal clients; the page polls. The pid
lock keeps a second gateway away from all of these files; the commands of setup,
service and extensions are processes of their own beside it.

## 2. Modules

`TaskStore` is a library without variables: the record of a task and, for every
mutation, the condition under which the code performs it and the record after.
`SchedulerEngine` and `Deliveries` both extend it and so use the *same* store:
the first puts the engine around it and reduces an executor to the call it ends
with, the second details the executors and reduces the engine to `Claim` and
`Recover`. `TaskLifecycle` is the promise to a user of the scheduler; it knows
nothing of leases, ticks, processes or runs, and `SchedulerEngine` is shown to
implement it (`Lifecycle`, an instance with a refinement mapping).

| Module | Code | Correspondence |
|---|---|---|
| `TaskStore` | `taskStore.ts`, `schemas.ts` | one operator per store method; `AbsentTask` before create |
| `SchedulerEngine` | `engine.ts`, `api.ts`, `executeScheduledTurn` of `chatService.ts` | `Tick*`: tick; `Job*`, `*Ends`: runClaim and executors; `Turn*`: a scheduled turn; `Recover*`, `Boot`: start; `Event*`: handleAgentEvent; `Schedule*`, `Cancel*`: the API |
| `TaskLifecycle` | – | abstract specification |
| `TaskStoreProofs` | – | lemmas about the store's mutations, for the proofs about the modules that extend it |
| `SchedulerEngineProofs` | – | its inductive invariant and theorems: claims and refinement, then slots, timer, wake interval, recovery and runs |
| `Deliveries` | `deliveryStore.ts`, `reminder.ts`, `watch.ts`, `notifier.ts`, `deliverWakeExplanation` | one action per ledger mutation or send of each loop; `CrashInMutation` leaves the lock |
| `DeliveriesProofs` | – | its inductive invariant and theorems |
| `ChatTurns` | `chatService.ts`, `chatControls.ts`, `runStore.ts` | a call's progress (`call`), a turn's progress (`turn`), mutexes as sequences |
| `ChatTurnsProofs` | – | its inductive invariant and theorems |
| `ConversationStream` | `jsonFileRunStorage.ts`, `conversationStream.ts`, `tui/client.ts` | writers, stream loop, client |
| `GatewayClientsProofs` | – | inductive invariants and theorems of `ConversationStream`, `WebClient`, `CodexAccount` and of the clients put together |
| `RunEventChannel` | `eventChannel.ts` | `Push`/`Resume`/`Enqueue`: push; `SinkEnds`: one turn of flushLoop; `Flush` |
| `ThreadRuntime` | `threadRuntime.ts`, `turnRuntime.ts`, `inMemoryQueue.ts` | `Submit`, the drain loop, `Schedule` and `ReturnSlot` of the pool |
| `ServerFilesProofs` | – | inductive invariants and theorems of `SessionFiles`, `BlobStore` and `AlfredHome`, and lemmas about sums over finite sets |
| `ServerPartsProofs` | – | those of `ThreadRuntime`, `PidLock`, `StoreLock`, `RunEventChannel`, `ServerProcess`, `AgentEvents`, `Extensions`, `ToolApprovals` and `RateLimit`, and of the composition of all twelve |
| `ToolApprovals` | `toolApprovalStore.ts`, the gates, `/approve`, `/reject` | every call prunes first |
| `PidLock` | `pidLock.ts`, `processIdentity.ts`, start and end of `server.ts` | one action per file operation |
| `AgentTurn` | `agentLoop.ts`, `executeToolWithEnvelope` of `registry.ts`, `openai-http.ts` | `pc` is the await the turn is at; a model's reply is chosen freely |
| `TurnsProofs` | – | inductive invariants and theorems of `AgentTurn`, `CodexTurn`, `TelegramChat`, `ProviderCalls`, `WebSearch`, `WebFetch`, `BrowserSessions` and of the turns put together, and lemmas about the recursive functions they use |
| `CodexTurn` | `codexAppServerRuntime.ts`, `appServerTurn.ts`, `appServerClient.ts` | `phase` is the await of the turn, `call` that of each tool call; the server acts at will |
| `TelegramChat` | `adapter.ts`, `channelSessionStore.ts`, `handleTurn` of `chatService.ts` | one handler per accepted update, one action per await |
| `StoreLock` | `mutate`, `withLock`, `readSnapshot`, `writeSnapshot` of `taskStore.ts` | `store[g].pc` is the file operation a store is at; what a mutation changes is only its own mark |
| `ServerProcess` | `server.ts` | `boot` and `down` are the awaits of bootstrap and shutdown, which overlap |
| `SessionFiles` | `utils/fs.ts`, `sessionStore.ts`, `channelSessionStore.ts`, `identityStore.ts` and their routes | a call is a sequence of updates, each under the lock of its path |
| `BlobStore` | `blobStore.ts` | one action per file operation of the call that holds the lock |
| `AgentEvents` | the route of `app.ts`, `dispatcher.ts`, `eventStore.ts`, `notifier.ts`, `auth.ts` | one action per await of a post |
| `RateLimit` | `rateLimitExceeded` of `app.ts` | one action, and the clock |
| `AlfredHome` | `setup.ts`, `homeMigration.ts`, `service.ts` | one action per file operation of a command |
| `Extensions` | `manager.ts`, `discoverTools` of `registry.ts`, `extensionWrite.tool.ts` | one action per file read or written |
| `ProviderCalls` | `router.ts`, `openai-http.ts`, `openai.ts`, `anthropic.ts`, `gemini.ts`, `reliability.ts` | `ask` is the call under way, `convo` the conversation, `ToWire` what a format makes of it |
| `Filters` | `Array.filter` | `Those`, what a filter leaves, as a recursive function |
| `WebSearch` | `searchManager.ts` | one action per await of a job |
| `WebFetch` | `webFetch.tool.ts` and the three pools | workers take addresses from `todo`, `BatchDone` is the tool |
| `BrowserSessions` | `browserController.ts` | `use[u].at` is the await of a tool call |
| `CodexAccount` | `accountService.ts`, `subscriptionService.ts`, the shared `appServerClient.ts`, account routes, login polling of `app.js` | lines of the pipe are read in order; what they settle goes on afterwards |
| `WebClient` | `app.js` | a function that awaits is a job, and goes on with the page as it is then |

`MCSchedulerEngine`, `MCDeliveries` and `MCChatTurns` give the constants of one model
its values. Three modules put several models into one specification: `ServerParts`
(twelve parts of the gateway and its commands), `Turns` (what happens inside a turn:
`AgentTurn`, `CodexTurn`, `TelegramChat`, `ProviderCalls`, `WebSearch`, `WebFetch`,
`BrowserSessions`) and `GatewayClients` (stream, page and account). All three leave the
constants of their parts open, so that theorems can be stated of them. `MCServerParts`
and `MCTurns` only name the model values their configurations use, and assume the
same `PartConstants` as the theorems; the values of `GatewayClients` are in
`MCClients.cfg`, and its assumption is `ClientAssumption`. The parts of one share no
state and do not wait for each other, so each behaviour is a behaviour of one part,
chosen in the variable `part`, instead of a product of state spaces. Where they do meet
in the code, one hides in the other's choices: what a turn does inside is its outcome
in `ChatTurns` and `SchedulerEngine`, an agent event's hook is `EventArrives` of
`SchedulerEngine`, the answer of a provider is a choice of `AgentTurn`.

Operators commented "A bug" or "Mutant" are used by no action. Each is a faulty
variant of the definition that follows it: with it in the definition's place the
property it is meant for fails, which shows that the property sees the code.

## 3. Runs

`tlc -config X.cfg M`. All but the violation runs pass. Deadlock is not checked
anywhere: users may stop calling, and every clock and counter has a bound, so
every system may stop.

| Run | Checks | Instance, and why it is enough |
|---|---|---|
| `engine_one_wake` | `TypeOK`, `LiveJobsOwnClaim`, `ClaimsAreAttended`, `CyclesAreBounded`, `TerminalIsFinal`, `ImplementsLifecycle` | One wake task with two cycles, two process lives, time 0–2, a lease of 1, renewal after 1: a lease can expire, be held, or end at the very instant recovery looks; the second cycle can be lost to a crash, reclaimed, and meet the cycle cap at the third claim; a first cycle's late result can meet the second cycle; crash, stop and owner cancellation at every await. |
| `engine_two_tasks` | `SlotsAreCounted`, `EngineNeverSleeps`, `WakesAreSpaced` | A wake rescheduling itself at once and a watch for one slot, timer and event ticks, failing log appends. Two tasks and one slot are what it takes for a tick to find the slot taken; a wake with delay 0 is held back by the interval. |
| `engine_live` | `ClaimsAreClosed`, `DueTasksAreTaken` | The same wake and a reminder under fairness, one process life. |
| `deliveries` | `TypeOK`, `LedgerIsTrue`, `RepeatsNeedAFault`, `LoopsEnd` | A Telegram reminder alone with two cycles, or a web watch beside a Telegram wake (they share the ledger and its lock); two attempts, two lives, every failure enabled. |
| `chat` | `TypeOK`, `OneRunPerRequest`, `ContextSeesPredecessors`, `UnfinishedRunHasATurn`, `RunsFinishOnce` | Three workloads of at most four calls over two lives: a submission with a retry, a changed retry and a successor; an inline turn between two queued ones; an unknown slash message, a command and a wake with a second session sharing the one slot. |
| `clients` | `PartsTypeOK`, `CursorCovers`, `ShownIsOfSession`, `RevisionsNeverGoBack`, `ClientsEnd` | *Stream:* two runs, two revisions each, a journal of two entries (so it is cut), a snapshot of one run (so a run falls off), a gateway crash, a dropped connection or restarted client. *Page:* two sessions, two runs, two jobs at once, two acts of the user or an act and a failed request. *Account:* two logins, two calls at once, a refusal, a crash of the App Server, several lines in one chunk. |
| `server_parts` | `PartsTypeOK`, `OneGateway`, `NothingIsLost`, `FilesAgree`, `OneLoopPerSession`, `RunsAreApproved`, `CapsAreKept`, `PartsEnd` | *Pid lock:* three gateways with two starts each, one after the other. *Channel:* four producers over a buffer of two (more waiters than room). *Threads:* three sessions over two slots, one with two ops. *Approvals:* two sessions asking for one action over two lives of a request. *Task lock:* two stores, two mutations, two lives each, a lock that expires after one tick. *Blobs:* two small and a large one, so that each cap is met alone; four operations, a fault. *Server:* two children, one restarted twice, four exits. *Files:* two calls, a fault. *Events:* one post, every outcome. *Rate:* two addresses, two windows, a sweep. *Home:* two commands at once, four in all, over an old checkout with two files. *Extensions:* two users, two versions, four uses. |
| `turns` | `PartsTypeOK`, `ToolBudgetsKept`, `ProcessesAreHeld`, `AnswersAreWhole`, `ScheduledTurnsSelect`, `RepliesKeepOrder`, `EveryTurnEnds` | *Agent:* three iterations, two attempts per model call, batches of up to two of two ordinary and two terminal tools, a limit of three calls (the reserved one can be reached in a batch). *Telegram:* three workloads of up to three messages, a deduper of two entries, a repeated update, a crash. *Codex:* two tool calls compete for one. *Providers:* four chains, two attempts, broken bodies, two rounds of a conversation. *Search:* two jobs, a start command that may become two processes. *Fetch:* up to three addresses, two workers. *Browsers:* two calls for different chats, three controllers, two tabs. |
| `engine_stuck_claim` | `ClaimsAreClosed` violated | section 5 |
| `deliveries_orphaned_lock` | `DueReminderIsSent` violated | section 5 |
| `pid_lock_two_owners` | `OneOwner` violated | section 5 |
| `codex_gateway_dies` | `GatewaySurvives` violated | section 5 |

What a property says is in the comment over it; those of the composed runs are
conjunctions of the properties of the parts, named there (`OneGateway` is
`OwnerHoldsLock` of `PidLock`, `ServingHoldsLock` and `ChildrenDieWithServer` of
`ServerProcess`, and so on).

**Bounds.** `MaxTime`, `MaxBoots`, `MaxCycles`, `MaxAttempts`, `MaxRevision`,
`MaxCrashes`, `MaxDrops`, `MaxStarts`, `MaxRequests`, `EventsEach`, `MaxBatch`,
`MaxMessages`, `MaxParts`, `MaxRepeats`, `MaxLockTime`, `MaxProcesses`, `MaxBlobOps`,
`MaxBlobFaults`, `MaxExits`, `MaxFileFaults`, `MaxRateTime`, `MaxCommands`, `MaxUses`,
`MaxRounds`, `MaxJobs`, `MaxTabs`, `MaxToolCalls`, `MaxActs`, `MaxErrors`, `MaxCalls`,
`MaxRefusals` and `MaxLimits` stand in the guards of the actions they limit. Real limits of the code that the instances make
small are `CycleLimit` (10000), `ClaimLease` (120 s), `MaxConcurrency` (3),
`Retained` (512), `HistoryLimit` (100), `MaxTries` and `LockTtl` of the task lock,
`MaxBytes` and `MaxEntries` of the blobs, `RateLimitMax` (300) and `MaxBuckets` (5000), `MaxBufferedEvents` (400), the deduper's
`MaxEntries`, and the agent's `MaxIterations`, `ToolLimit`, `MaxToolCalls` and
`MaxAttempts` (3).

**Fairness.** Weak fairness is assumed of what the process has itself started:
a pending promise resolves (the agent loop is bounded by `agentMaxDurationMs`,
sends and probes by timeouts, file operations return), an armed timer fires once
its time has come, a started queue task runs; of the supervisor that starts the
gateway again, while starts are left; and of a client's reconnect loop. A fetch
and a tool end in `AgentTurn` (hard timeouts); in `CodexTurn` neither the server
nor a tool need do anything, the timers of the client do; in `TelegramChat` turns
end, as the other two show (a command waits for them). The agent's tools, searches and
fetches have timeouts, and so have the account's requests; of the page, a request is
answered or fails, its intervals fire, and the runs it polls end. Nothing is assumed
of users, of agent events, of signals, of crashes, of failures, nor of one outcome
among several. The clock of `SchedulerEngine` stops at
`MaxTime`, so `DueTasksAreTaken` excuses a wake held back at that instant and
those it hides. `ClaimsAreClosed`, `LoopsEnd` and `OrdinaryRunsFinish` speak of a
process that stays up from some point on.

**Switches.** Some constants turn on a circumstance in which the code is known to
break a property; they are off in the composed runs, so that every other behaviour is
still checked, and each is stated at the property it breaks:

| Module, constant | In the run | Otherwise violated |
|---|---|---|
| `PidLock`, `StartsOverlap` | FALSE | `OneOwner`: section 5 |
| `StoreLock`, `SlowHolders` | FALSE | `UpdatesAreKept`: a holder that outlasts its lock writes an old file back. With or without, `EveryUpdateIsKept` is violated (two thieves), and `LocksAreFreed` when a process dies between making the lock file and writing its record |
| `ServerProcess`, `SignalsAt` | `engine`, `up`, `failed` | `ChildrenDieWithServer`: a signal while bootstrap is at `lock`, `recover` or `serve` finds no child to end, and bootstrap starts them before the exit |
| `ServerProcess`, `FailsAt` | `recover` | `ServingHoldsLock`: a failed engine start gives the lock back, the port stays open |
| `AlfredHome`, `MayBeKilled` | all but `setup` | `InitializedIsWritten`: `writeOnce` of a killed setup leaves an empty file that every later setup preserves |
| `AlfredHome`, `ServiceOverlaps` | FALSE | `LoadedHasPlist`: install and uninstall at once leave a loaded service without its file |
| `Extensions`, `WritesOverlap` | FALSE | `LoadedIsApproved`: a write between the digest and the import |
| `BrowserSessions`, `Shared` | FALSE | `BrowsersAreHeld`: two calls for one chat, `forSession` replaces a controller that is being launched |
| `ProviderCalls`, `Judged` | the OpenAI-like | `FallsBack`, `TruncatedTurnsFail`, `InstructionsAreSent` of Gemini and Anthropic: every failure is `unknown`, a cut answer is a stop, the last instruction replaces the others |
| `WebFetch`, `PlaywrightWorks` | TRUE | `ReadPagesAreStored`: the second batch throws, the pages of the first are lost |
| `WebClient`, `Overlaps`, `Reorders` | FALSE | `ShownIsOfSession`, `SendComesBack`: an answer for one session is shown in another |
| `CodexAccount`, `Overlaps` | FALSE | `LoginPollsEnd`: a second sign-in forgets the interval of the first |

Four properties are in no run because the code breaks them in any instance that has
the case: `LabelsAreKept` of `SessionFiles` (attach writes back a label it read before
it waited), `OutcomeNeedsNoNotifier` of `AgentEvents` (the dispatcher says at line 11
that the outcome never depends on delivery; a notifier that throws makes the post
fail), `StopsWhatItStarted` of `WebSearch` (a late or replaced start is forgotten) and
`CacheIsNewest` of `CodexAccount` (an answer read before an event is cached after it;
needs `MaxLimits` 1).

## 4. Proofs

The assumptions of the theorems are those that the modules make of their constants
(`StoreConstants`, `EngineConstants` and so on): types, positive limits, finite sets of
tasks, calls or sessions. TLC evaluates them in the runs. Where a theorem has a further
hypothesis, it is a switch of section 3 in the position of the run: in the other one
the property is known to be violated. An invariant that was proved inductive was first given to TLC
on the instance of the component's run.

### The scheduler

`SchedulerEngineProofs` proves for any finite set of tasks, any requests, limits,
delays, lease, clock bound and number of restarts (`StoreConstants`,
`EngineConstants`):

| Theorem | States |
|---|---|
| `TypeCorrect` | `[]TypeOK` |
| `JobsOwnTheirClaim` | `[]LiveJobsOwnClaim`: work in progress holds the durable claim for this process, or the user cancelled |
| `CyclesBounded` | `[]CyclesAreBounded` |
| `TerminalFinal` | `TerminalIsFinal`: nothing that is late revives a finished task |
| `EngineImplementsLifecycle` | the engine with its store implements `TaskLifecycle` |

All follow from `InvariantHolds == Spec => []IInv`. `LiveJobsOwnClaim` is not
inductive: a second tick could claim the task again, an old cycle's job could be
there when a new cycle gets the same number, recovery could take the claim of the
living process. `IInv` adds what excludes each of these:

- `TasksShaped`: an active task has an owner, a lease and its latest cycle as the
  active one; an inactive one has none of them; counts are within `maxCycles`.
- `ClaimedNotStarted`: a tick about to log holds a claim of this process whose
  job has not started; `TicksExclude`: only the ticker that set `ticking` is past
  its first step, so there is at most one such claim.
- `JobsShaped`: jobs exist only for cycles up to the count, none in a dead
  process; a cycle number above the count has no job, so a new one starts clean.
- `RecoveryShaped`: while recovery runs no tick and no job does, and its snapshot
  only names claims of earlier instances; `OwnersKnown`: no claim is from an
  instance that has not started yet.
- `CallsShaped`, `ProcessShaped`: calls in flight name existing tasks; a process
  that is down has no volatile state.

The argument runs in three layers. First, what each *store* operator does to one
record (`...Leaves`, `...Stays`, `...Takes`): every mutation either keeps a
terminal record, or closes the active cycle it names, or takes a pending one; they are
in `TaskStoreProofs`, for the delivery ledger works on the same records.
Second, `NextEvolves`: every step of the engine changes each record in one of
these ways only, which gives `TasksShaped`, `TerminalFinal`, `CyclesBounded` and
the steps of `TaskLifecycle` without looking at the engine again. Third, one lemma
per conjunct for the process's own state.

The theorems about the engine's own work build on it, one small invariant at a time:

| Theorem | States |
|---|---|
| `EngineStaysAwake` | `[]EngineNeverSleeps` |
| `SlotsCounted` | `[]SlotsAreCounted` |
| `WakesSpaced` | `WakesAreSpaced` |
| `RecoverySwept` | `[]RecoverySweepsExpired`, a conjunct of `ClaimsAreAttended` |
| `CyclesBeginFresh` | `[]FreshCycleHasNoRun`, another |
| `ClaimsAttended` | `[]ClaimsAreAttended`, if `~LogMayFail` |

Each says what an await leaves behind. A tick finds a free slot, and counts it two
awaits later: `SlotReserved` says that the slot is still free at each of them, which
holds because ticks exclude each other and nothing else takes one; that the count is
the *number* of jobs is an argument about finite sets, one job joining or leaving at a
time. The same tick has compared the clock with the last wake before it claims
(`WakeAllowed`), of a task whose kind never changes (`KindsFixed`). While recovery
runs, every expired claim of an earlier process is still on its list (`SweepShaped`):
leases do not move without their owner, and nothing claims meanwhile. A cycle whose run
has not begun has none from earlier (`RunsShaped`), as cycle numbers only grow.
`ClaimHasWorker`, last, needs `~LogMayFail`: the tick of an agent event that fails to
append to the log gives up with the claim made, which then is recovery's to take back,
and no job's. The instance of `engine_one_wake` has it FALSE, that of
`engine_two_tasks` TRUE.

### Deliveries

`DeliveriesProofs` proves for any set of tasks of any kinds, any number of attempts,
cycles and process lives, and every failure (`DeliveryConstants`):

| Theorem | States |
|---|---|
| `TypesHold` | `[]TypeOK`, where the types bound attempts by `MaxAttempts` and messages by two per attempt |
| `LedgerTells` | `[]LedgerIsTrue`: a reminder's outcome is what its last delivery says, and what was sent is on record |
| `FaultsExplainRepeats` | `[]RepeatsNeedAFault` |

The ledger, the messages sent and the faults are written by different steps of a loop,
so none of these is inductive. `InStep` says for each step of a loop how far the three
may be apart: before an attempt is claimed the ledger has no more attempts than the
loop has made; with a send still to come its message is not yet counted; a loop that
goes on although a message is out has met a fault for it; nothing but `complete` goes
on from a delivered record. `FreshCycles` says that the next cycle, which begins at
attempt 0, has no delivery yet, after any number of crashes and reclaims.
`EndsAreSettled` relates the task to the ledger: a reminder that has come to its end
has no loop at work that could still change what its last cycle delivered, because only
the loop of the active cycle can close it, in the step in which it ends; `TurnsAreWakes`
keeps apart the one loop that closes its cycle first. A crash leaves `InStep` true
without a loop, and `CrashInMutation` too, with the record written or not.

### Turns of a conversation

`ChatTurnsProofs` proves for any finite set of calls of every kind, on any sessions,
any number of slots and process lives (`ChatConstants`):

| Theorem | States |
|---|---|
| `TypesHold` | `[]TypeOK` |
| `RequestsRunOnce` | `[]OneRunPerRequest` |
| `RunsHaveTurns` | `[]UnfinishedRunHasATurn` |
| `PredecessorsSeen` | `[]ContextSeesPredecessors` |
| `FinishedRunsStay` | `FinishedStaysFinished`, the safety half of `RunsFinishOnce` |

The property behind them is what the execution mutex holds: exactly the turns of its
session that wait or are at work (`MutexHoldsTurns`, `TurnsWait`), none twice, the
queued ones in the order in which their runs were created, and only its head at work.
A queued turn that builds its context is at the head; a queued predecessor that is unfinished
would have a turn (`NoRunIsForgotten`), which stands in the mutex (`TurnsWait`), before
it in the order (`MutexIsOrdered`). Under the admission mutex,
`Admit` looks for an earlier run, creates one and enters the execution mutex without
another admission of the session between: that keeps the order, and it is why a
request gets no second run (`RequestsAreUnique`). After a crash a run may have no turn:
`NoRunIsForgotten` says that while the server recovers each such run is still in the
list that `recoverInterruptedRuns` works through.

### The clients of the gateway

`GatewayClientsProofs` proves of the stream for any finite set of runs, any clients, size of the
journal and of a snapshot's page, number of crashes and dropped connections
(`StreamConstants`):

| Theorem | States |
|---|---|
| `TypesHold` | `[]TypeOK` |
| `NothingIsPassed` | `[]CursorCovers` |
| `RevisionsStay` | `RevisionsNeverGoBack` |
| `ClientsMissNothing` | both, of every behaviour of the clients put together |

`CursorCovers` speaks of the client; what makes it true is in the loop that serves it.
`ClientCovers` says for each step of that loop what it has still to do for the
client. A replay (`ReplayCovers`) has shown, or has on its list, or leaves to the next
round, the latest change of every run it has passed. A snapshot (`SnapshotCovers`) has
taken its watermark before it reads the first file, so each file is read at least as new
as every change up to the watermark and as what the client already shows. A loop
about to read the journal (`PollCovers`) starts from a cursor that could be the
client's. `FilesAhead` relates the two writes of `writeRun`: a run file is never
older than its journal entries. `LatestFollows` is where the journal's limit comes in: unless
`readChanges` answers with a reset, the last entry of every run after the cursor
is still there. `Grows` and `PageStays` are why all this survives the steps of
writers and of other clients: entries and creation times stay, revisions only grow,
and a run that fell off the page stays off it.

Of the page it proves, for any sessions, runs, jobs and acts of the user
(`WebConstants`), if the user does not act while the page awaits an answer
(`~Overlaps`):

| Theorem | States |
|---|---|
| `SessionIsShown` | `[]ShownIsOfSession` of `WebClient` |
| `PageShowsSession` | the same of every behaviour of the clients put together |

`ShownIsOfSession` speaks of a page that awaits nothing; what it shows was decided
when the jobs that brought it were begun. `HereInv` says what every job in flight
was asked for, and what it was told: runs of the session on display, and so is the
run that is polled. A job that changes the session (a new session, or a choice until its
runs are listed) is alone, and only until it is over may the list be of another
session. That needs no order of the answers: `Reorders` may be either. That a request
may fail is why the property has the premise `errors = 0`, and why `WebInv` claims only
types of a page that has met an error.

Of the account it proves `EndsOfLoginsStay`: every behaviour of the clients put together
satisfies `EndedStaysEnded`. A terminal may be waiting, the page polling, a timeout and a
cancellation under way; each says what it found through `publish`, and only `startLogin`
could say that an ended login is under way, which is why it looks first.

| Theorem | States |
|---|---|
| `WebTypeCorrect` | `[]TypeOK` of `WebClient`, whether or not the user's acts overlap |
| `AccountTypeCorrect` | `[]TypeOK` of `CodexAccount` |
| `ClientTypesHold` | `[]PartsTypeOK` of the clients put together |

That a login with a status was opened, and that the cached limits are none the App
Server has yet to tell, takes the whole way from a call to its answer: `AccountInv` says of
every call what it awaits, that no line in the pipe answers a call twice or one
that awaits nothing, and that this stays so when a refusal takes the lines
about a login out of the pipe (`ThoseStayApart`).

### Inside a turn

`TurnsProofs` proves for any tools, any number of iterations, attempts and
tool calls, any messages, searches, addresses, workers, chats and browsers:

| Theorem | States |
|---|---|
| `TurnTypeCorrect` | `[]TypeOK` of `AgentTurn`, which includes the limits on attempts, iterations and tool calls |
| `LastCallReserved` | `[]LastCallIsReserved` |
| `TurnsSelect` | `ScheduledTurnsSelect`: every end of a scheduled turn has its action, and a selected action stands |
| `CodexBudgetHolds`, `CodexCancelsOnRequest` | `[]ToolBudgetKept` and `[]CancelledOnRequest` of `CodexTurn` |
| `BudgetsHold` | `[]ToolBudgetsKept` of the turns put together |
| `RepliesInOrder`, `ChatKeepsOrder` | `RepliesKeepOrder`, of `TelegramChat` and of the turns put together |
| `StartsHaveOwners` | `[]StartsAreOwned` of `WebSearch` |
| `BrowsersStayHeld` | `[](BrowsersAreHeld /\ CurrentTabIsOpen)` of `BrowserSessions`, if `~Shared` |
| `ProcessesStayHeld` | `[]ProcessesAreHeld` of the turns put together, if `~Shared` |
| `AddressesAreShared` | `[]AddressesAreReadOnce` of `WebFetch` |
| `PagesStayStored` | `[]ReadPagesAreStored` of `WebFetch`, if `PlaywrightWorks` |
| `RoutedCallsFallBack` | `[](FallsBack /\ TruncatedTurnsFail)` of `ProviderCalls`, if `Judged` has no native format |
| `ConversationsStayWhole` | `[](ResultsFollowCalls /\ InstructionsAreSent)` of `ProviderCalls`, under the same condition |
| `AnswersStayWhole` | `[]AnswersAreWhole` of the turns put together, under both conditions |
| `CodexTypeCorrect`, `TelegramTypeCorrect`, `SearchTypeCorrect`, `BrowserTypeCorrect`, `FetchTypeCorrect`, `ProviderTypeCorrect` | `[]TypeOK` of the other parts |
| `TurnTypesHold` | `[]PartsTypeOK` of the turns put together |

- *Agent loop.* The invariant adds to the types what an await may rely on
  (`AwaitsInv`): a turn that goes on has no outcome yet, a back-off has an attempt left, a
  tool being recorded is the head of its batch, and a terminal action being recorded
  has been selected. The last is what `RecordTool` needs: it ends a scheduled turn
  without `forceSchedulerTerminalAction`.
- *Codex turn.* Calls overlap, so the counter is compared with the set of those ever
  started (`CountInv`): a call is in it from the step that passes the limit on. Every
  place where a cancellation is acted on comes after the flag (`FlagInv`).
- *Telegram.* A reply is sent in several parts, between which other handlers run.
  `SendersAreFirst`: who is sending is the first of those that hold a reservation, and
  nobody before it can get one again, since numbers only grow. Reservations are given
  back in any order, when a run fails or a message turns out to be a command. The first is a
  minimum, which `LeastNumber` gives by well-founded induction over a set.
- *Search.* `SearchInv` is that a start command that runs is being started by a job or is
  the child that shutdown kills: a job that loses its process has replaced it first.
- *Browsers.* `CallsFit` says what a call may rely on over its awaits: its chat keeps the
  controller, which no sweep takes; `ChatsAreApart` that no other call has it; `OpenFits`
  that an open controller has the browser it launched last.
- *Fetches.* That the numbers of `AddressesAreReadOnce` add up needs that an address is
  never in two places (`PlacesApart`), or a failure would be counted once where it
  happened twice; that needs batches without repetitions, also the second, which is cut from
  what the first left (`RestIsApart`, `FewAreApart`). `StoredInv` goes on to what is kept:
  what a fetch stores is of the usable pages, and there are some if there were any.
- *Providers.* `RouterInv` says of the trace of a routed call what each entry was, and that a
  passing failure of the OpenAI format is the last only if its provider was the last of
  the chain; and of a turn that completed, that its last answer was whole. `ConvoInv` is
  about the conversation: whatever each format makes of it, the results of an answer's
  calls are behind it. Each format is a function of one message after the other
  (`ToWire`), so what a round adds to a conversation only adds to what is sent
  (`FollowOn`).
- *Types.* For most parts the invariants above imply them. The Telegram chat numbers its
  sessions, and `SessionsHaveUpdates` gives each the update it was made for, or a handler
  that is about to make it: so there are no more sessions than updates. A
  request of a Codex turn is only answered where the turn awaits one (`WaitTypes`).
  `SearchTimes` says that nothing was found healthy later than now. `RegistryTyped` does without
  `~Shared`: two calls of one chat may lose a browser, not a type.
- *Recursive functions.* What a filter leaves, what a wire format makes of a conversation
  and which pages are usable are recursive functions on `0..Len(s)`. `NumbersInduct` is induction stated of a
  set of numbers instead of a predicate, from the least number that is not in it;
  `IterationExists` says that such a function exists for every step, so that the `CHOOSE`
  that stands for it may be used. `FilterExists`, `ThoseAreMembers` and the lemmas about
  `ToWire` follow from the two.

### Approvals

`ServerPartsProofs` proves for any sessions, actions, clock bound and lifetime
(`ApprovalConstants`):

| Theorem | States |
|---|---|
| `ApprovalsTypeCorrect` | `[]TypeOK` |
| `ActionsAreApproved` | `[]RunsAreApproved`: every run of an action has a granted request of its own, made for it and not yet expired |

`RunsAreApproved` counts the runs of an action against its grants, so a step that
runs one needs a grant not yet used up: `GrantsCover` counts an approval that
stands as one more use, and `ApprovalsAreGranted` says from which request it has
its time. That runs fall into the lifetime needs `RequestsAreShort`, and that a new
request has a new token, `TokensInOrder`.

### The parts of the gateway

`ServerFilesProofs` (what is kept in files) and `ServerPartsProofs` (the rest, and
the parts together) prove of each part, for all its constants:

| Theorem | States | If |
|---|---|---|
| `ThreadsTypeCorrect`, `LoopsAreSingle` | `[]TypeOK` (no more loops than slots) and `[]OneLoopPerSession` of `ThreadRuntime` | |
| `LockStaysWithOwner`, `OneGatewayOwns` | `[]OwnerHoldsLock` and `[]OneOwner` of `PidLock` | `~StartsOverlap` |
| `UpdatesStay` | `[]UpdatesAreKept` of `StoreLock` | `~SlowHolders` |
| `EventsStay` | `[]EventsAreKept` of `RunEventChannel` | |
| `ServingIsLocked` | `[]ServingHoldsLock` of `ServerProcess` | only recovery throws |
| `ChildrenEnd` | `[]ChildrenDieWithServer` of `ServerProcess` | signals come once the children are started |
| `FilesKeep`, `ChatsHaveOneSession` | `[]FilesKeepUpdates` and `[]OneSessionPerChat` of `SessionFiles` | |
| `IndexStaysDisk`, `BlobsKeepTheirCaps` | `[]IndexIsDisk`, and `EvictsOldest` and `CapIsKept` (properties of steps) of `BlobStore` | |
| `WindowsStayKept` | `[]WindowsAreKept` of `RateLimit` | |
| `AnswersAreRouted` | `[]AnsweredIsRouted` of `AgentEvents` | |
| `HomeIsSound` | `[]MigrationIsWhole`, `[]InitializedIsWritten` and `[]LoadedHasPlist` of `AlfredHome` | no setup is killed, `~ServiceOverlaps` |
| `ApprovedIsLoaded` | `[]LoadedIsApproved` of `Extensions` | `~WritesOverlap` |

and of the parts put together, as `server_parts` checks them:

| Theorem | States | From |
|---|---|---|
| `GatewayIsOne` | `[]OneGateway` | lock and server |
| `AcknowledgedIsKept` | `[]NothingIsLost` | channel, task lock, files, blobs, events |
| `FilesStayTogether` | `[]FilesAgree` | files and home |
| `OnlyApprovedRuns` | `[]RunsAreApproved` | approvals and extensions |
| `CapsStayKept` | `CapsAreKept` | rate limit and blobs |
| `ServerTypesHold` | `[]PartsTypeOK` | all parts, whatever overlaps, is slow, fails or is killed |

The step from the parts to the whole is `PartsBehave`: every behaviour of the
composition is a behaviour of each part. The inductive invariants:

- *Threads.* `OneLoopPerSession` counts the places of a session in the backlog, and
  `Schedule` takes one from its head. `Lists` says instead that the backlog names the
  waiting loops, each once. `ScheduleKeeps` is the argument about the pool: one call of
  `schedule` starts at most one loop, which is enough because a call comes with at most
  one slot or one loop too many: when more than one loop waits, at most one slot is free.
- *Pid lock.* With one starter at a time (`OneAcquires`), a lock is only moved away
  while nobody owns it (`NoneToMove`), and who writes the record has the lock
  (`WriterHasLock`).
- *Task lock.* While at most one lock was taken over: a live holder's lock has not expired
  (`LiveIsFresh`), so a thief finds a dead one's (`StealersFindDead`), so what is read
  under a lock is still in the file when it is written back (`SnapshotsFresh`), so
  what was written stays (`WrittenStay`).
- *Run event channel.* `BufferInv`: an event is in the buffer or on its way to the disk
  exactly while its push is queued; `AwaitedInv`: what a flush waits for is settled, but
  for the one in the channel.
- *Server.* `LockCoversBoot` and `ChildrenInv` say for each await of bootstrap and
  of shutdown, which overlap, what holds there: no timer of a child is armed once shutdown
  began, no child lives once it has ended them.
- *Session files.* `WritersHold`: who is about to write holds the lock of its file and has
  read what is in it. So what a call has left is still there (`Settled`, `MadeIt`), and a
  binding names a session that exists (`BoundExists`). `BindInv` counts the sessions made
  for the chat: one, while it is bound or being bound (`Credit`), and one for each fault.
- *Blobs.* Blob, sidecar and index agree (`Agrees`) but for the blob at which the
  operation is (`OpAgrees`); an operation that is not loading never evicts its own.
  What is evicted was used first because what has returned is remembered with its date:
  by the index while there was at most one fault (`IndexRemembers`), and by the disk,
  from which a restarted gateway reads its index (`DiskRemembers`). The cap holds
  because every file that counts for it is in the index (`CapCounts`). Beyond one fault
  that is so of the undamaged ones only: a second look at a damaged blob drops it from
  the index, and when writing it anew fails its file stays on the disk, uncounted.
  `CapIsKept` says so.
- *Rate limit.* A stretch of one window's length meets at most two windows. `Open` says
  that a window lets no more through than it counts, and that what came before it was
  less than a limit in any stretch that reaches into it; `Idle` that the same holds of the
  window that begins next. So two neighbours never add up to two limits.
- *Sums* of requests and of sizes are folds over sets. `Totals` describes them without
  recursion, as the sums of all subsets at once; `SubsetsInduct` is induction over the
  subsets of a finite set, stated of a set of subsets instead of a predicate, so that it
  follows from the least number of a set of numbers (`LeastNumber`).
- *Agent events.* `RoutedInv` says at each await how often the event was pushed.
- *Home.* `FilesFit`: a file that is there is whole, or a setup has it open; `ServiceFits`:
  service commands follow each other.
- *Extensions.* `ReadersAlone`, and `LoadsSeeFiles`: what a load has read so far is still in
  the files, and was approved when it goes on to import.
- *Types.* The theorems above assume the switches that their properties need; the types hold without
  them, so they have invariants of their own. `RateFits`: no moment sees more requests than
  a window lets through, which needs that a window begins only where no request has passed
  (`Idle`). `PushesFit`: an event is posted once as Markdown and once as plain text at most.
  `ServerFits`: a restart timer is armed only while restarts are left. `HomeHolds`: a file
  comes only when the directories are there, also if a migration renames its home in
  between. `ExtHolds`: what is enabled was approved, and files lie in a directory, also if
  writes overlap.

## 5. Where documents and code disagree

Four are runs, with the quoted lines in PROJECT.json:

- **A late Codex tool call ends the gateway** (`codex_gateway_dies`). When a client
  is closed, or loses its process, while a tool is at work, the write of the tool's
  answer throws, and so does the write of that error in the `catch` block
  (appServerClient.ts:316); the promise is `void`, nothing handles its rejection,
  and Node ends the process.
- **A claim can stay for ever** (`engine_stuck_claim`). `recover()` runs once and
  skips leases still held; after a quick restart nothing looks at them again.
- **A crash inside a ledger mutation silences reminders**
  (`deliveries_orphaned_lock`). Nobody examines the age or owner of
  `deliveries.lock`.
- **Two gateways can own a workspace** (`pid_lock_two_owners`). Between reading a
  stale lock and renaming it, another starter's fresh lock may have taken its
  place. Hence `StartsOverlap` is FALSE in `server_parts`.

More questions stand beside these; run by hand, each ends in a counterexample. Those
without a configuration of their own take that of the run named, with their property
in the place of its properties and the constants given:

| Configuration (module) | Property | What the code does |
|---|---|---|
| `MCEngineStop` (`MCSchedulerEngine`) | `NoClaimAfterStop` | a tick suspended in listDue claims after `stop()` (rfc:391) |
| `MCEngineQuota` (`MCSchedulerEngine`) | `QuotaIsEnforced` | concurrent schedule calls all pass the quota check (README.md:250) |
| `MCEngineStop` (`MCSchedulerEngine`) | `AcceptedCompletionIsRecorded` | an accepted summary longer than 256 characters fails the task |
| `MCEngineStuck` (`MCSchedulerEngine`), `SPECIFICATION Spec` | `NoSecondUnfinishedRun` | after recovery a second run is created beside an unfinished one (plan:698-700) |
| `MCDeliveriesLock` (`MCDeliveries`) | `DeliveredIsNotResent` | recovery reclaims a crashed cycle under a new number, so a delivered reminder is sent again under a new delivery id |
| `MCDeliveriesLock` (`MCDeliveries`) | `OneDeliveryPerReminder` | the retry after a crash has another delivery id (plan:701-702) |
| `MCDeliveriesLock` (`MCDeliveries`), one recurring wake: `OneTurn`, `JustTurn`, `TwoTurns` | `UnresolvedIsRetried` | `listPending` has no caller, unresolved deliveries stay (rfc:374) |
| `MCChat` (`MCChatTurns`), `Workloads` `SlashRetried` | `RetriesRunOnce` | a message with a leading slash goes round admission (README.md:90-91) |
| `MCChat` (`MCChatTurns`), `Workloads` `OneWake` | `AcceptedCancellationStops` | a blocked wake's run stays queued and accepts a cancellation |
| `ConversationStream`, `SPECIFICATION FairSpec`, the constants of `MCClients` but `Retained = 4`, `HistoryLimit = 2`, `MaxDrops = 0` | `ClientsCatchUp` | a crash between run file and journal loses the change for every stream (tui.md:35) |
| `RunEventChannel`, four producers of two events each, a buffer of two | `BufferBounded` | pushes that passed the check together overfill the buffer (changelog:332) |
| `MCServerParts` | `NoOpIsRefused` | a failed `TurnStarted` leaves the state `running` for good (changelog:327) |
| `MCTurns` | `OneTurnPerMessage` | an update delivered again after a restart and a `/newsession` runs again, for requests are looked up by session (changelog:95) |
| `MCTurns` | `CancelledTurnsAreCleanedUp` | a cancelled turn is over while its tool still executes (chatgpt_subscription_app_server.md:53) |
| `MCTurns` | `DeadlineIsHard` | the rest of a batch and the retries of a call are started after the deadline (README.md:291) |

(rfc, plan: `docs/rfc-autonomous-wake-and-reminders.md`,
`docs/plan-autonomous-wake-and-reminders.md`.)

One more cannot be a property, because the record needed to state it does not
exist: a wake turn that chose to reschedule and crashed after its run completed is
taken for finished by `recover()` (engine.ts:140), and its task is completed.

## 6. Abstractions and limits

- **SchedulerEngine.** `listDue` and `canStartWake` are read in one step. Due
  tasks of equal time come in any order. An executor is the store call it ends
  with. Store I/O fails only where validation throws, and the log append. A
  failed append on the timer's path is an unhandled rejection, which ends the
  process: it is covered by `Crash`; on the event's path it is `TickLogFails`. A
  reschedule computes its next due time at the close. Cancelling a finished task
  changes nothing and is left out.
- **Deliveries.** Time is left out: a pending task is due, recovery may find any
  lease expired. A ledger mutation is atomic, but for a crash in the middle of it.
- **ChatTurns.** A mutex is the queue of those who wait. `createdAt` is the place
  in the session's order, which is what `createRun` makes it. Contents of
  messages, contexts and answers are left out. The task side of a scheduled turn
  is in `SchedulerEngine`.
- **ConversationStream.** The content of a run is its revision. Heartbeats and
  session metadata are left out.
- **RunEventChannel.** Promise reactions run before the sink's next completion,
  as the event loop has it.
- **PidLock.** A pid is not used again, so a record is a (place, start) pair.
- **ThreadRuntime.** User inputs are the only ops a caller submits.
- **ToolApprovals.** Store calls are synchronous, one step each.
- **AgentTurn.** A text is the set of actions it claims, each of which needs one
  tool (the code accepts any of a few). The abort signal is left out, since no
  adapter of the loop looks at it. Events and usage that are only written are left
  out, their failure is `TurnThrows`. A tool that adds an artifact does not fail
  after it.
- **CodexTurn.** One thread, one turn, one client per turn, as
  `codexAppServerRuntime.ts` makes them. The checks before the turn (limits, model
  catalogue, the first look at the cancel flag) are left out: they return before
  there is a server. Text and usage are left out.
- **StoreLock.** A mutation's effect is its own mark in the file. Identities of
  locks are those of the process that wrote them, as the code's `pid` and `nonce` are.
- **ServerProcess.** Closing channels and browsers is part of the step that waits for
  it. A child is alive or not.
- **SessionFiles.** One chat, one session to be patched, one user to be linked: the
  files are shared, and so every pair of updates meets.
- **BlobStore.** Time moves with each operation. Contents are what their digest says,
  or damaged.
- **AgentEvents.** Posts share nothing but the log; one is enough.
- **AlfredHome, Extensions.** A file is written in one step where the code renames a
  temporary one, in two where it does not. launchd is external.
- **ProviderCalls.** A back-off is a step; its length is left out. A text is one of a
  few kinds of body. Usage is left out.
- **WebSearch, WebFetch, BrowserSessions.** What a page or a search says is whether it
  is usable. Tabs are numbers. A timeout is a failure at any moment.
- **CodexAccount.** The App Server is external: it answers, refuses, tells of events
  in any order its protocol allows, and crashes. Mappings of its answers are left out.
- **WebClient.** Drawing is a function of the state and is left out; so are the pages
  for skills, files and settings, which keep no runs.
- **TelegramChat.** One chat and one user. Reservations are the set of handlers that
  hold one, which are numbered as their messages came. Progress messages, typing and heartbeats
  are left out, so are entries that Telegram gives no key. Sending is one step that
  works or fails; `Deliveries` has what a lost answer does. The rest of the life of a
  run is in `ChatTurns`.

Only model-checked:

- liveness: `ClaimsAreClosed`, `DueTasksAreTaken`, `LoopsEnd`, `PartsEnd`,
  `ClientsEnd`, `EveryTurnEnds`, and of `RunsFinishOnce` that runs finish. The prover
  does not handle fairness or ENABLED;
The library's induction theorems take an operator as a parameter, which the installed provers
cannot instantiate. Where a proof needs induction over data, it is stated of a set of numbers
or of subsets (`NumbersInduct`, `SubsetsInduct`), and what the models filter is written with
`Those` of `Filters`, a recursive function, since `SelectSeq` has no definition that the
provers can expand.

Not modelled, with reasons, is what PROJECT.json calls `not_modelled`. The main
ones: probes of the scheduler (external answers, choices in the models); logs and
transcripts for people; what a page, a prompt, a command or a context says; tools on
files and shell, whose effects are outside Alfred; reading of the environment.

## 7. Plan

In order of importance; each is one component module, an instance, its
properties, then what of it can be proved.

1. Done: the scheduler (`TaskStore`, `SchedulerEngine`, `TaskLifecycle` and proofs,
   `Deliveries` with proofs, `StoreLock`), turns (`CodexTurn`, `TelegramChat`, and
   `ChatTurns`, `ThreadRuntime`, `AgentTurn` and `ToolApprovals` with proofs), what they reach for
   (`ProviderCalls`, `WebSearch`, `WebFetch`, `BrowserSessions`, `Extensions`), the
   gateway's own parts (`PidLock`, `ServerProcess`, `RunEventChannel`, `SessionFiles`,
   `BlobStore`, `AgentEvents`, `RateLimit`, `AlfredHome`) and its clients
   (`ConversationStream` with proofs, `WebClient`, `CodexAccount`).
2. Proofs: done for the scheduler, its deliveries, the turns of a conversation, what
   happens inside a turn, the parts of the gateway and its clients: every invariant and
   action property that a run finds to hold is the subject of a theorem.
3. That `AgentTurn` and `CodexTurn` implement what `ChatTurns` and `SchedulerEngine`
   let a turn do, by refinement; and `ProviderCalls` what `AgentTurn` lets a model do.
4. Memory: the session store's summaries and the conversation history of group chats.
5. The routes of `app.ts` that compose stores (deleting a session with its runs and
   files), and the terminal application's input queue.
