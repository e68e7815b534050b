---------------------------- MODULE ProviderCalls ----------------------------
(***************************************************************************)
(* Calls of the model providers: the router and its fallback order         *)
(* (provider/router.ts), the OpenAI wire format with its retries           *)
(* (openai-http.ts, utils/reliability.ts, openai.ts), the formats of       *)
(* Gemini and Anthropic (gemini.ts, anthropic.ts), and the conversation    *)
(* that the agent loop sends.  The providers are external: they answer as  *)
(* they like.                                                              *)
(***************************************************************************)
EXTENDS Integers, Sequences, SequencesExt, Filters

CONSTANTS
    Chains,        \* the sequences of providers that callers give the router
    NoKey,         \* the providers of the OpenAI format that have no key
    Judged,        \* the providers whose calls the properties are about
    MaxAttempts,   \* attempts that a request allows a provider
    BodiesBreak,   \* whether reading the body of an answer may fail
    MaxRounds      \* bound on the answers of one conversation

Native == {"gemini", "anthropic"}
Statuses == {400, 401, 408, 409, 429, 500}
Markers == {"timeout", "network", "other"}    \* what the error of a request says
Bodies == {"whole", "calls", "truncated", "empty", "mismatch", "broken"}
ProviderConstants ==
    /\ MaxAttempts \in 1..6 /\ MaxRounds \in Nat /\ BodiesBreak \in BOOLEAN
    /\ \A chain \in Chains : chain \in Seq(ToSet(chain))

VARIABLES
    ask,      \* the call under way: its mode, providers, attempt and step
    trace,    \* how the providers that were tried did
    reply,    \* what the call returned
    convo,    \* the messages of the agent loop
    turn      \* how the agent loop took the answers

providerVars == <<ask, trace, reply, convo, turn>>

-----------------------------------------------------------------------------
(* Budgets of a request, in milliseconds. *)

Clamp(n, low, high) == IF n < low THEN low ELSE IF n > high THEN high ELSE n
SoftTimeout(requested) == Clamp(requested, 1000, 120000)
Larger(i, j) == IF i > j THEN i ELSE j

\* Two and a quarter times the soft one, rounded.
HardTimeout(soft) == Clamp(Larger(soft + 15000, (9 * soft + 2) \div 4), soft + 1000, 180000)
Attempts(requested) == Clamp(requested, 1, 6)

\* The delay before the next attempt; wish is the server's, 0 for none.
RetryDelay(expDelay, jitter, wish, maxDelay) ==
    IF wish > 0 THEN Clamp(Larger(expDelay + jitter, wish), 0, maxDelay) ELSE expDelay + jitter

Retryable(status) == status \in {408, 409, 425, 429} \/ status >= 500

\* classifyStructuredFailure.
HttpClass(status) ==
    CASE status \in {401, 403} -> "policy_block"
      [] status \in {408, 429} -> "timeout"
      [] status >= 500 \/ status \in {409, 425} -> "network"
      [] OTHER -> "unknown"
NetworkClass(marker) == IF marker = "timeout" THEN "timeout" ELSE "network"

-----------------------------------------------------------------------------
(* What a conversation becomes on the wire. *)

Message(role, text, calls) == [role |-> role, text |-> text, calls |-> calls]
Wire(system, messages) == [system |-> system, messages |-> messages]

\* The last message takes one more result.
Joined(messages, result) == Front(messages) \o <<[Last(messages) EXCEPT !.calls = Append(@, result)]>>

\* Results join the user message that is last; Anthropic's only if it holds
\* results.
Joins(kind, messages) ==
    messages # <<>> /\ Last(messages).role = "user" /\ (kind = "gemini" \/ Last(messages).calls # <<>>)

NativeMessage(kind, sent, m) ==
    CASE m.role = "system" -> Wire({m.text}, sent.messages)
      [] m.role = "tool" ->
            Wire(sent.system, IF Joins(kind, sent.messages) THEN Joined(sent.messages, m.calls[1])
                              ELSE Append(sent.messages, Message("user", "none", m.calls)))
      [] OTHER -> Wire(sent.system, Append(sent.messages, m))

OpenAiMessage(sent, m) ==
    Wire(IF m.role = "system" THEN sent.system \cup {m.text} ELSE sent.system, Append(sent.messages, m))

ToWire(kind, messages) ==
    LET sent[n \in 0..Len(messages)] ==
            IF n = 0 THEN Wire({}, <<>>)
            ELSE IF kind \in Native THEN NativeMessage(kind, sent[n - 1], messages[n])
                 ELSE OpenAiMessage(sent[n - 1], messages[n])
    IN sent[Len(messages)]

-----------------------------------------------------------------------------
(* The router. *)

NoAsk == [mode |-> "none", order |-> <<>>, i |-> 1, attempt |-> 0, at |-> "idle"]
NoReply == [status |-> "none", code |-> "none", class |-> "none", body |-> "none"]
Provider == ask.order[ask.i]

Init ==
    /\ ask = NoAsk /\ trace = <<>> /\ reply = NoReply
    /\ convo = <<Message("system", "prompt", <<>>), Message("user", "none", <<>>)>>
    /\ turn = [at |-> "open", rounds |-> 0, repaired |-> FALSE]

\* orderProviders.
Ordered(chain, preferred) ==
    IF preferred \notin ToSet(chain) THEN chain
    ELSE <<preferred>> \o Those(chain, ToSet(chain) \ {preferred})

Returns(status, code, class, body) ==
    /\ reply' = [status |-> status, code |-> code, class |-> class, body |-> body]
    /\ ask' = [ask EXCEPT !.at = "done"]

\* runTextWithFallback and runStructuredWithFallback.
Route(mode, chain, preferred) ==
    /\ ask.at = "idle" /\ turn.at = "open"
    /\ IF chain = <<>>
       THEN Returns("failed", "missing_provider", "policy_block", "none")
       ELSE /\ ask' = [mode |-> mode, order |-> Ordered(chain, preferred), i |-> 1, attempt |-> 1, at |-> "ask"]
            /\ UNCHANGED reply
    /\ UNCHANGED <<trace, convo, turn>>

\* The agent loop asks one provider, and no router.
AskTools(p) ==
    /\ ask.at = "idle" /\ turn.at = "open"
    /\ ask' = [mode |-> "tools", order |-> <<p>>, i |-> 1, attempt |-> 1, at |-> "ask"]
    /\ UNCHANGED <<trace, reply, convo, turn>>

TriesNext(code, class) == class # "policy_block" /\ (class \in {"network", "timeout"} \/ code = "network_error")

\* A bug: every failure ends the call.
NeverNext(code, class) == FALSE

\* shouldTryNextProvider, of the providers that are left.
GoesOn(code, class) == TriesNext(code, class)

\* The provider failed: the router takes the next one or gives up.
Fails(code, class, passing) ==
    /\ trace' = Append(trace, [provider |-> Provider, passing |-> passing])
    /\ IF ask.mode # "tools" /\ GoesOn(code, class) /\ ask.i < Len(ask.order)
       THEN ask' = [ask EXCEPT !.i = @ + 1, !.attempt = 1, !.at = "ask"] /\ UNCHANGED reply
       ELSE Returns("failed", code, class, "none")

Succeeds(body) ==
    /\ trace' = Append(trace, [provider |-> Provider, passing |-> FALSE])
    /\ Returns("ok", "none", "none", body)

-----------------------------------------------------------------------------
(* The providers. *)

Begin ==
    /\ ask.at = "ask"
    /\ IF Provider \in NoKey THEN Fails("missing_api_key", "policy_block", FALSE)
       ELSE ask' = [ask EXCEPT !.at = "fetch"] /\ UNCHANGED <<trace, reply>>
    /\ UNCHANGED <<convo, turn>>

MayRetry(passing) == Provider \notin Native /\ ask.attempt < Attempts(MaxAttempts) /\ passing

Waits == ask' = [ask EXCEPT !.at = "wait"] /\ UNCHANGED <<trace, reply>>

\* The request fails before there is an answer, or is aborted by its timer.
\* Gemini and Anthropic report an HTTP error.
NetworkFails(marker) ==
    /\ ask.at = "fetch"
    /\ IF MayRetry(marker # "other") THEN Waits
       ELSE IF Provider \in Native THEN Fails("http_error", "unknown", TRUE)
       ELSE Fails("network_error", NetworkClass(marker), TRUE)
    /\ UNCHANGED <<convo, turn>>

HttpFails(status) ==
    /\ ask.at = "fetch"
    /\ IF MayRetry(Retryable(status)) THEN Waits
       ELSE Fails("http_error", IF Provider \in Native THEN "unknown" ELSE HttpClass(status), Retryable(status))
    /\ UNCHANGED <<convo, turn>>

Retry ==
    /\ ask.at = "wait"
    /\ ask' = [ask EXCEPT !.attempt = @ + 1, !.at = "fetch"]
    /\ UNCHANGED <<trace, reply, convo, turn>>

\* The body of an answer breaks off: Gemini's and Anthropic's is an empty one,
\* the OpenAI format throws, past the router too.
BodyBreaks ==
    /\ ask.at = "fetch" /\ BodiesBreak
    /\ IF Provider \notin Native THEN Returns("thrown", "none", "none", "broken") /\ UNCHANGED trace
       ELSE IF ask.mode = "tools" THEN Succeeds("empty")
       ELSE Fails("empty_content", "unknown", FALSE)
    /\ UNCHANGED <<convo, turn>>

TextAnswer(body) ==
    /\ ask.mode = "text" /\ body \in {"whole", "truncated", "empty"}
    /\ IF body = "empty" THEN Fails("empty_content", "unknown", FALSE) ELSE Succeeds(body)

\* A truncated object is no JSON.
OpenAiObject(body) ==
    CASE body = "whole" -> Succeeds(body)
      [] body = "empty" -> Fails("empty_content", "unknown", FALSE)
      [] body = "truncated" -> Fails("json_parse_error", "schema", FALSE)
      [] body = "mismatch" -> Fails("zod_validation_error", "schema", FALSE)

\* Gemini and Anthropic answer with the arguments of a forced call.
NativeObject(body) ==
    CASE body = "whole" -> Succeeds(body)
      [] body \in {"empty", "truncated"} -> Fails("empty_content", "unknown", FALSE)
      [] body = "mismatch" -> Fails("zod_validation_error", "unknown", FALSE)

StructuredAnswer(body) ==
    /\ ask.mode = "structured" /\ body \in {"whole", "truncated", "empty", "mismatch"}
    /\ IF Provider \in Native THEN NativeObject(body) ELSE OpenAiObject(body)

ToolAnswer(body) ==
    /\ ask.mode = "tools" /\ body \in {"whole", "calls", "truncated", "empty"}
    /\ IF body = "empty" /\ Provider \notin Native THEN Fails("empty_response", "unknown", FALSE) ELSE Succeeds(body)

Answer(body) ==
    /\ ask.at = "fetch"
    /\ TextAnswer(body) \/ StructuredAnswer(body) \/ ToolAnswer(body)
    /\ UNCHANGED <<convo, turn>>

-----------------------------------------------------------------------------
(* The callers. *)

\* What the adapters tell the agent loop about how an answer ended.
FinishReason(p, body) ==
    CASE body = "calls" -> "tool_calls"
      [] body = "truncated" /\ p \notin Native -> "length"
      [] OTHER -> "stop"

\* Writers and extractors take the result and forget the call.
Taken ==
    /\ ask.at = "done" /\ ask.mode # "tools"
    /\ ask' = NoAsk /\ trace' = <<>> /\ reply' = NoReply
    /\ turn' = [turn EXCEPT !.at = "completed"]
    /\ UNCHANGED convo

TurnEnds(how) == turn' = [turn EXCEPT !.at = how] /\ UNCHANGED <<ask, trace, reply, convo>>

Continues(messages, repaired) ==
    /\ convo' = convo \o messages
    /\ turn' = [turn EXCEPT !.rounds = @ + 1, !.repaired = repaired]
    /\ ask' = NoAsk /\ trace' = <<>> /\ reply' = NoReply

ToolDone == ask.at = "done" /\ ask.mode = "tools" /\ turn.at = "open"
Finish == FinishReason(Provider, reply.body)

TurnFails == ToolDone /\ (reply.status # "ok" \/ Finish = "length") /\ TurnEnds("failed")

TurnCompletes == ToolDone /\ reply.status = "ok" /\ Finish = "stop" /\ TurnEnds("completed")

\* A claim without evidence: the model is told so, once.
TurnRepairs ==
    /\ ToolDone /\ reply.status = "ok" /\ Finish = "stop"
    /\ ~turn.repaired /\ turn.rounds < MaxRounds
    /\ Continues(<<Message("assistant", "none", <<>>), Message("system", "repair", <<>>)>>, TRUE)

\* The calls of one answer run one after the other; each has a result.
TurnRunsTools(n) ==
    /\ ToolDone /\ reply.status = "ok" /\ Finish = "tool_calls" /\ turn.rounds < MaxRounds
    /\ LET calls == [j \in 1..n |-> <<turn.rounds, j>>]
       IN Continues(<<Message("assistant", "none", calls)>>
                        \o [j \in 1..n |-> Message("tool", "none", <<calls[j]>>)], turn.repaired)

ProviderStep ==
    \/ Begin \/ Retry \/ BodyBreaks \/ Taken
    \/ \E marker \in Markers : NetworkFails(marker)
    \/ \E status \in Statuses : HttpFails(status)
    \/ \E body \in Bodies : Answer(body)

Next ==
    \/ ProviderStep
    \/ \E mode \in {"text", "structured"}, chain \in Chains, p \in {"none", "gemini"} : Route(mode, chain, p)
    \/ \E chain \in Chains : \E p \in ToSet(chain) : AskTools(p)
    \/ TurnFails \/ TurnCompletes \/ TurnRepairs
    \/ \E n \in 1..2 : TurnRunsTools(n)

-----------------------------------------------------------------------------
(* Properties. *)

\* The call, its trace and its answer are what the router makes of them.
TypeOK ==
    /\ ask.at \in {"idle", "ask", "fetch", "wait", "done"}
    /\ ask.attempt <= Attempts(MaxAttempts)
    /\ Len(trace) <= Len(ask.order) /\ (ask.at = "done" <=> reply # NoReply)

\* A failure in passing (the network, a timeout, a retryable status) does not
\* end a routed call while there are other providers (router.ts:23-31).  It does
\* not hold of Gemini and Anthropic, whose failures all are "unknown".
FallsBack ==
    ask.at = "done" /\ ask.mode # "tools" /\ reply.status = "failed" =>
        \A j \in DOMAIN trace :
            trace[j].provider \in Judged /\ trace[j].passing => j < Len(trace) \/ j = Len(ask.order)

\* On every wire the results of an answer's calls are right behind them, all of
\* them and in their order (anthropic.ts:64, gemini.ts:128).
ResultsFollowCalls ==
    \A kind \in {"openai"} \cup Native :
        LET sent == ToWire(kind, convo).messages
            Results(k, calls) ==
                IF kind \in Native THEN k < Len(sent) /\ sent[k + 1].calls = calls
                ELSE /\ k + Len(calls) <= Len(sent)
                     /\ \A j \in DOMAIN calls : sent[k + j].calls = <<calls[j]>>
        IN \A k \in DOMAIN sent :
               sent[k].role = "assistant" /\ sent[k].calls # <<>> => Results(k, sent[k].calls)

\* A turn whose last answer was cut off at the model's limit is not completed
\* (agentLoop.ts:646-648).  It does not hold of Gemini and Anthropic, which tell
\* of no limit.
TruncatedTurnsFail ==
    turn.at = "completed" /\ ask.mode = "tools" /\ Provider \in Judged
        => reply.body # "truncated"

\* Every instruction of the conversation reaches the model.  It does not hold of
\* Gemini and Anthropic once a repair was asked for: the repair takes the place
\* of the prompt.
InstructionsAreSent ==
    \A p \in Judged : ToWire(p, convo).system = {convo[k].text : k \in {j \in DOMAIN convo : convo[j].role = "system"}}

\* A call ends.
ProviderCallsEnd == []<>(ask.at \in {"idle", "done"})

Spec == Init /\ [][Next]_providerVars

=============================================================================
