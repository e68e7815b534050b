-------------------------------- MODULE Turns --------------------------------
(***************************************************************************)
(* The turns of the two agent runtimes, the chat that submits them, and    *)
(* what turns reach for outside (models, search, pages, browsers).         *)
(* ChatTurns and SchedulerEngine say how turns are started and what        *)
(* becomes of their outcomes; inside, a turn shares no state with another  *)
(* one, a chat or a tool's manager, so a behaviour is one of one part and  *)
(* the others stay as they begin.  Each module says what its constants     *)
(* mean.                                                                   *)
(***************************************************************************)
EXTENDS AgentTurn, FiniteSets

CONSTANTS
    Workloads, MaxMessages, MaxEntries, MaxParts, MaxRepeats, MaxCrashes,
    CodexCalls, CodexMaxCalls,
    Chains, NoKey, Judged, ProviderAttempts, BodiesBreak, MaxRounds,
    Searches, Commands, HasCommand, Retries, Grace, ProbeGap, MaxTime, MaxJobs,
    Urls, Workers, MaxPages, PlaywrightWorks,
    Chats, Users, Controllers, Shared, MaxTabs, MaxToolCalls

VARIABLES part,
          kind, sent, repeats, crashes, seen, pendingConfirm, reserved, handlers,
          bound, label, sessions, runs, lastSent,
          scheduled, server, closed, initialized, phase, turnBegun, request, completion,
          race, aborted, cancelFlag, call, calledTools, limitReached, startedTools,
          selected, status, gateway,
          ask, trace, answered, convo, rounds,
          command, manager, search, now,
          fetch, todo, worker, got,
          registry, control, browsers, use, toolCalls

chatVars  == <<kind, sent, repeats, crashes, seen, pendingConfirm, reserved, handlers,
               bound, label, sessions, runs, lastSent>>
codexVars == <<scheduled, server, closed, initialized, phase, turnBegun, request, completion,
               race, aborted, cancelFlag, call, calledTools, limitReached, startedTools,
               selected, status, gateway>>
providerVars == <<ask, trace, answered, convo, rounds>>
searchVars   == <<command, manager, search, now>>
fetchVars    == <<fetch, todo, worker, got>>
browserVars  == <<registry, control, browsers, use, toolCalls>>

-----------------------------------------------------------------------------
(* The parts; the agent loop is this module's own. *)

Telegram  == INSTANCE TelegramChat
Codex     == INSTANCE CodexTurn WITH
    Calls <- CodexCalls, MaxToolCalls <- CodexMaxCalls, cancelRequested <- cancelFlag,
    toolCallCount <- calledTools, executed <- startedTools, action <- selected, outcome <- status
Providers == INSTANCE ProviderCalls WITH
    MaxAttempts <- ProviderAttempts, reply <- answered, turn <- rounds
Search    == INSTANCE WebSearch
Fetch     == INSTANCE WebFetch
Browser   == INSTANCE BrowserSessions

PartConstants ==
    /\ Telegram!TelegramConstants /\ Codex!CodexConstants /\ Providers!ProviderConstants
    /\ Search!SearchConstants /\ Fetch!FetchConstants /\ Browser!BrowserConstants

PartsInit ==
    /\ part \in {"agent", "telegram", "codex", "providers", "search", "fetch", "browser"}
    /\ Init /\ Telegram!Init /\ Codex!Init /\ Providers!Init /\ Search!Init /\ Fetch!Init
    /\ Browser!Init
    /\ part # "agent" => ~Scheduled
    /\ part # "telegram" => kind = <<"task", "task">>
    /\ part # "codex" => ~scheduled
    /\ part # "fetch" => fetch.urls = <<>>

OthersStay ==
    /\ UNCHANGED part
    /\ part # "agent" => UNCHANGED vars
    /\ part # "telegram" => UNCHANGED chatVars
    /\ part # "codex" => UNCHANGED codexVars
    /\ part # "providers" => UNCHANGED providerVars
    /\ part # "search" => UNCHANGED searchVars
    /\ part # "fetch" => UNCHANGED fetchVars
    /\ part # "browser" => UNCHANGED browserVars

PartsNext ==
    \/ part = "agent" /\ Next /\ OthersStay
    \/ part = "telegram" /\ Telegram!Next /\ OthersStay
    \/ part = "codex" /\ Codex!Next /\ OthersStay
    \/ part = "providers" /\ Providers!Next /\ OthersStay
    \/ part = "search" /\ Search!Next /\ OthersStay
    \/ part = "fetch" /\ Fetch!Next /\ OthersStay
    \/ part = "browser" /\ Browser!Next /\ OthersStay

\* The fairness of each part, for the behaviours that are its own.
PartsFairness ==
    /\ WF_vars(part = "agent" /\ Step)
    /\ WF_chatVars(part = "telegram" /\ Telegram!HandlersGoOn)
    /\ WF_chatVars(part = "telegram" /\ Telegram!RunsGoOn)
    /\ WF_codexVars(part = "codex" /\ Codex!TurnStep)
    /\ WF_providerVars(part = "providers" /\ Providers!ProviderStep)
    /\ WF_searchVars(part = "search" /\ \E i \in Searches : Search!JobStep(i))
    /\ WF_fetchVars(part = "fetch" /\ (Fetch!ToolStep \/ \E i \in Workers : Fetch!FetchStep(i)))

partVars == <<part, vars, chatVars, codexVars, providerVars, searchVars, fetchVars, browserVars>>

FairParts == PartsInit /\ [][PartsNext]_partVars /\ PartsFairness

-----------------------------------------------------------------------------
(* The properties of the parts. *)

\* Every variable has its type.
PartsTypeOK ==
    /\ part = "agent" => TypeOK
    /\ part = "telegram" => Telegram!TypeOK
    /\ part = "codex" => Codex!TypeOK
    /\ part = "providers" => Providers!TypeOK
    /\ part = "search" => Search!TypeOK
    /\ part = "fetch" => Fetch!TypeOK
    /\ part = "browser" => Browser!TypeOK

\* Telegram replies keep the order of the messages (telegram/adapter.ts).
RepliesKeepOrder == Telegram!RepliesKeepOrder

\* The agent loop and the Codex turn end whatever models, servers and tools do;
\* every Telegram message that is handled is answered; calls of a provider,
\* searches and fetches end.
EveryTurnEnds ==
    []<>CASE part = "agent" -> TurnEnded
          [] part = "telegram" -> Telegram!AllAnswered
          [] part = "codex" -> Codex!TurnEnded
          [] part = "providers" -> ask.at \in {"idle", "done"}
          [] part = "search" -> \A i \in Searches : search[i] = Search!NoJob
          [] part = "fetch" -> fetch.at \in {"ended", "failed"}
          [] part = "browser" -> TRUE

\* Every process has an owner that can end it: what the search manager started,
\* and the browsers of the chats, whose current tab is open.
ProcessesAreHeld ==
    /\ part = "search" => Search!StartsAreOwned
    /\ part = "browser" => Browser!BrowsersAreHeld /\ Browser!CurrentTabIsOpen

\* Answers are whole: every address of a batch is read once and what was read is
\* stored; a provider's passing failure is made good by the next one, the results
\* of an answer's calls follow it, every instruction is sent, and a turn whose
\* answer was cut off fails.
AnswersAreWhole ==
    /\ part = "fetch" => Fetch!AddressesAreReadOnce /\ Fetch!ReadPagesAreStored
    /\ part = "providers" =>
         /\ Providers!FallsBack /\ Providers!ResultsFollowCalls
         /\ Providers!TruncatedTurnsFail /\ Providers!InstructionsAreSent

\* Tools stay within the limits of the turn, over concurrent calls of a Codex
\* server, and a scheduled turn can always afford its terminal action.
ToolBudgetsKept == LastCallIsReserved /\ Codex!ToolBudgetKept /\ Codex!CancelledOnRequest

\* What docs/changelog.md:95 says and the code does not do.
OneTurnPerMessage == Telegram!OneTurnPerMessage

\* What docs/changelog.md:391 says and the code does not do.
GatewaySurvives == Codex!GatewaySurvives

\* What docs/architecture/chatgpt_subscription_app_server.md:53 says and the
\* code does not do.
CancelledTurnsAreCleanedUp == Codex!CancelledTurnsAreCleanedUp
=============================================================================
