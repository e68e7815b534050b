----------------------------- MODULE AgentEvents -----------------------------
(***************************************************************************)
(* The webhook of agent events (src/gateway/app.ts) with its dispatcher,   *)
(* log and notifier (src/agentEvents/).  What the scheduler does with an   *)
(* event is SchedulerEngine's EventArrives.                                *)
(***************************************************************************)
EXTENDS Naturals

CONSTANTS
    Events,         \* posts of producers
    TokenIsSet,     \* agentEventToken is configured
    UsesTelegram,   \* a bot token and an alert chat are configured
    NotifierMayFail \* whether Telegram may refuse a message

IngressConstants ==
    {TokenIsSet, UsesTelegram, NotifierMayFail} \subseteq BOOLEAN

VARIABLES
    event,     \* each post
    log,       \* the agent-events files
    pushes,    \* messages that reached the user
    nudged     \* events handed to the scheduler's hook

eventVars == <<event, log, pushes, nudged>>

Types == {"needs_approval", "failed", "completed", "progress"}

Init ==
    /\ event = [e \in Events |-> [pc |-> "new"]]
    /\ log = {} /\ nudged = {}
    /\ pushes = [e \in Events |-> 0]

-----------------------------------------------------------------------------
(* POST /api/events/agent *)

Goes(e, pc) == event' = [event EXCEPT ![e].pc = pc]

\* authorizeAgentEvent: a configured token always wins over the loopback.
Authorized(token, loopback) == IF TokenIsSet THEN token ELSE loopback

\* The body may not be JSON or break the schema: 400.
Post(e) ==
    /\ event[e].pc = "new"
    /\ \E token, loopback, valid, ping \in BOOLEAN, type \in Types :
         event' = [event EXCEPT ![e] =
             [type |-> type, ping |-> ping,
              pc |-> CASE ~Authorized(token, loopback) -> "unauthorized"
                       [] Authorized(token, loopback) /\ ~valid -> "invalid"
                       [] OTHER -> "append"]]
    /\ UNCHANGED <<log, pushes, nudged>>

\* Best effort: an append that fails is passed over.
AppendEvent(e) ==
    /\ event[e].pc = "append"
    /\ \E ok \in BOOLEAN : log' = IF ok THEN log \cup {e} ELSE log
    /\ Goes(e, "route")
    /\ UNCHANGED <<pushes, nudged>>

Pushes(ev) ==
    \/ ev.type \in {"needs_approval", "failed"}
    \/ ev.type = "completed" /\ ev.ping

Route(e) ==
    /\ event[e].pc = "route"
    /\ Goes(e, IF Pushes(event[e]) THEN "markdown" ELSE "hook")
    /\ UNCHANGED <<log, pushes, nudged>>

\* Markdown first; without Telegram the console takes it.
Notify(e) ==
    /\ event[e].pc \in {"markdown", "plain"}
    /\ pushes' = [pushes EXCEPT ![e] = @ + 1]
    /\ Goes(e, "hook")
    /\ UNCHANGED <<log, nudged>>

\* A refused message is tried once more as plain text; then dispatch throws.
\* A call that timed out may have delivered the message.
NotifyFails(e) ==
    /\ UsesTelegram /\ NotifierMayFail /\ event[e].pc \in {"markdown", "plain"}
    /\ \E arrived \in BOOLEAN : pushes' = IF arrived THEN [pushes EXCEPT ![e] = @ + 1] ELSE pushes
    /\ Goes(e, IF event[e].pc = "markdown" THEN "plain" ELSE "error")
    /\ UNCHANGED <<log, nudged>>

\* A hook that throws does not change the answer.
CallHook(e) ==
    /\ event[e].pc = "hook"
    /\ nudged' = nudged \cup {e}
    /\ Goes(e, "ok")
    /\ UNCHANGED <<log, pushes>>

EventStep(e) == AppendEvent(e) \/ Route(e) \/ Notify(e) \/ NotifyFails(e) \/ CallHook(e)

Next ==
    \E e \in Events : Post(e) \/ EventStep(e)

Spec == Init /\ [][Next]_eventVars

-----------------------------------------------------------------------------

\* Every variable has its type.
TypeOK ==
    /\ \A e \in Events : event[e].pc \in {"new", "unauthorized", "invalid", "append", "route", "markdown",
                                          "plain", "hook", "ok", "error"}
    /\ log \subseteq Events /\ nudged \subseteq Events
    /\ pushes \in [Events -> 0..2]

\* What is answered with ok has been pushed when it had to be, and only then,
\* and the scheduler knows of it.
AnsweredIsRouted ==
    \A e \in Events : event[e].pc = "ok" =>
        /\ e \in nudged
        /\ (pushes[e] > 0) = (event[e].type \in {"needs_approval", "failed"}
                               \/ (event[e].type = "completed" /\ event[e].ping))

\* dispatcher.ts:11: "the dispatch outcome never depends on notification
\* delivery".
OutcomeNeedsNoNotifier == \A e \in Events : event[e].pc # "error"
=============================================================================
