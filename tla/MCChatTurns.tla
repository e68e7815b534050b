----------------------------- MODULE MCChatTurns -----------------------------
(* Instances of ChatTurns for TLC: which calls are made.                     *)
EXTENDS ChatTurns, TLC

CONSTANTS a, b, c, d

Queued(request, text) == [kind |-> "queued", session |-> "s", request |-> request, text |-> text]
Other(kind)           == [kind |-> kind, session |-> "s", request |-> NoRequest, text |-> "hello"]
Unmade                == Other("unmade")

\* A submission, its retry, a retry with another text and a second submission.
Retries ==
    (a :> Queued("r1", "hello")) @@ (b :> Queued("r1", "hello")) @@
    (c :> Queued("r1", "changed")) @@ (d :> Queued("r2", "hello"))

\* Two queued turns with an inline one between them.
Mixed ==
    (a :> Queued("r1", "hello")) @@ (b :> Other("inline")) @@ (c :> Queued("r2", "hello")) @@
    (d :> Unmade)

\* An unknown slash message, a command and a wake, and a second session that
\* shares the pool with them.
TwoSessions ==
    (a :> Other("slash")) @@ (b :> Other("command")) @@ (c :> Other("scheduled")) @@
    (d :> [Queued("r1", "hello") EXCEPT !.session = "other"])

\* A message with a leading slash, submitted twice under one request id.
SlashRetry ==
    LET Slash == [Other("slash") EXCEPT !.request = "r1"] IN
    (a :> Slash) @@ (b :> Slash) @@ (c :> Unmade) @@ (d :> Unmade)

OneScheduled ==
    (a :> Other("scheduled")) @@ (b :> Unmade) @@ (c :> Unmade) @@ (d :> Unmade)

FourCalls    == {a, b, c, d}
AllWorkloads == {Retries, Mixed, TwoSessions}
SlashRetried == {SlashRetry}
OneWake      == {OneScheduled}
=============================================================================
