---------------------------- MODULE CodexAccount ----------------------------
(***************************************************************************)
(* Signing in to OpenAI through the Codex App Server: the client's pipe    *)
(* (appServerClient.ts), CodexAccountService and CodexSubscriptionService, *)
(* the account routes and the login polling of the page (webui/app.js).    *)
(* A line of the pipe settles a request or tells of an event.  A settled   *)
(* request goes on in a microtask, and the lines of one chunk are all read *)
(* before that: an event can overtake the answer read before it.           *)
(***************************************************************************)
EXTENDS Naturals, Sequences, FiniteSets, SequencesExt, Filters

CONSTANTS
    Logins,       \* logins the App Server may open
    Calls,        \* calls of the services and of the page at one time
    OneChunk,     \* whether several lines may come in one chunk
    Overlaps,     \* whether the user acts while the page awaits an answer
    MayCrash,     \* whether the App Server may crash
    MaxCalls,     \* bound on what the user and the terminal ask for
    MaxRefusals,  \* bound on requests the App Server refuses or lets time out
    MaxLimits     \* bound on the versions of the account's rate limits

AccountConstants ==
    {OneChunk, Overlaps, MayCrash} \subseteq BOOLEAN /\ {MaxCalls, MaxRefusals, MaxLimits} \subseteq Nat

VARIABLES
    remote,   \* what the App Server knows: of the logins, and the limits
    link,     \* the client: its process and the lines it has not read
    login,    \* loginProgress
    cache,    \* rateLimitCache, as the version of the limits it holds
    calls,    \* calls that wait for the App Server or for the route's answer
    form,     \* the page: openAiLogin, openAiLoginPollTimer and all intervals
    asked,    \* calls made so far
    refused   \* requests refused so far

accountVars == <<remote, link, login, cache, calls, form, asked, refused>>

Ended == {"completed", "failed", "cancelled"}
Idle == [op |-> "none", at |-> "idle", page |-> FALSE]
Call(op, l, page) == [op |-> op, login |-> l, page |-> page, at |-> "asked", seen |-> "none", limits |-> 0]
Set(i, c) == calls' = [calls EXCEPT ![i] = c]
Go(i, at) == Set(i, [calls[i] EXCEPT !.at = at])

Init ==
    /\ remote = [open |-> {}, ended |-> {}, limits |-> 0]
    /\ link = [state |-> "down", lines |-> <<>>]
    /\ login = [l \in Logins |-> "none"]
    /\ cache = 0
    /\ calls = [i \in Calls |-> Idle]
    /\ form = [login |-> "none", status |-> "none", timer |-> "none", ticks |-> {}]
    /\ asked = 0 /\ refused = 0

-----------------------------------------------------------------------------
(* The client.  Every call initializes first: the handshake is shared, and *)
(* after a crash the next call starts another process.                     *)

Sent(i) ==
    /\ calls[i].at = "asked"
    /\ IF link.state = "up" THEN Go(i, "sent") /\ UNCHANGED link
       ELSE Go(i, "shaking") /\ link' = [link EXCEPT !.state = "shaking"]
    /\ UNCHANGED <<remote, login, cache, form, asked, refused>>

HandshakeDone ==
    /\ link.state = "shaking"
    /\ link' = [link EXCEPT !.state = "up"]
    /\ calls' = [i \in Calls |->
                    IF calls[i].at = "shaking" THEN [calls[i] EXCEPT !.at = "sent"] ELSE calls[i]]
    /\ UNCHANGED <<remote, login, cache, form, asked, refused>>

Write(line) == link' = [link EXCEPT !.lines = Append(@, line)]
Answer(i, l) == [kind |-> "answer", call |-> i, login |-> l, limits |-> remote.limits]

\* The App Server, external.
AppAnswers(i) ==
    /\ calls[i].at = "sent" /\ Go(i, "answered")
    /\ \/ \E l \in Logins \ (remote.open \cup remote.ended) :
             /\ calls[i].op = "start"
             /\ remote' = [remote EXCEPT !.open = @ \cup {l}]
             /\ Write(Answer(i, l))
       \/ /\ calls[i].op \in {"cancel", "timeout"}
          /\ remote' = [remote EXCEPT !.open = @ \ {calls[i].login}, !.ended = @ \cup {calls[i].login}]
          /\ Write(Answer(i, calls[i].login))
       \/ /\ calls[i].op = "limits"
          /\ Write(Answer(i, "none")) /\ UNCHANGED remote
    /\ UNCHANGED <<login, cache, form, asked, refused>>

AppTells ==
    /\ link.state = "up"
    /\ \/ \E l \in remote.open, success \in BOOLEAN :
             /\ remote' = [remote EXCEPT !.open = @ \ {l}, !.ended = @ \cup {l}]
             /\ Write([kind |-> "login", login |-> l, success |-> success])
       \/ /\ remote.limits < MaxLimits
          /\ remote' = [remote EXCEPT !.limits = @ + 1]
          /\ Write([kind |-> "limits", limits |-> remote.limits + 1])
    /\ UNCHANGED <<login, cache, calls, form, asked, refused>>

\* requestRaw: an error response, or the timeout; a late answer finds nobody, and is
\* dropped here.
AppRefuses(i) ==
    /\ calls[i].at \in {"sent", "answered"}
    /\ \/ refused < MaxRefusals /\ refused' = refused + 1
       \/ calls[i].op = "start" /\ remote.open \cup remote.ended = Logins /\ UNCHANGED refused
    /\ Go(i, "refused")
    /\ link' = [link EXCEPT !.lines = Those(@, {n \in ToSet(@) : n.kind # "answer" \/ n.call # i})]
    /\ UNCHANGED <<remote, login, cache, form, asked>>

\* handleCrash: every pending request is rejected.
AppCrashes ==
    /\ MayCrash /\ link.state # "down"
    /\ refused < MaxRefusals /\ refused' = refused + 1
    /\ link' = [state |-> "down", lines |-> <<>>]
    /\ remote' = [remote EXCEPT !.open = {}, !.ended = @ \cup remote.open]
    /\ calls' = [i \in Calls |->
                    IF calls[i].at \in {"shaking", "sent", "answered"}
                    THEN [calls[i] EXCEPT !.at = "refused"] ELSE calls[i]]
    /\ UNCHANGED <<login, cache, form, asked>>

\* publish: the calls of waitForLogin are subscribers.
Publish(l, status, then) ==
    /\ login' = [login EXCEPT ![l] = status]
    /\ calls' = [i \in Calls |->
                    IF then[i].op \in {"wait", "timeout"} /\ then[i].login = l /\ status \in Ended
                    THEN IF then[i].op = "wait" THEN Idle ELSE [then[i] EXCEPT !.seen = status]
                    ELSE then[i]]

\* handleLine and handleNotification.
ReadLine ==
    /\ link.lines # <<>>
    /\ OneChunk \/ \A i \in Calls : calls[i].at \notin {"settled", "refused"}
    /\ link' = [link EXCEPT !.lines = Tail(@)]
    /\ LET line == Head(link.lines) IN
         \/ /\ line.kind = "answer"
            /\ Set(line.call, [calls[line.call] EXCEPT !.at = "settled", !.login = line.login,
                                                       !.limits = line.limits])
            /\ UNCHANGED <<login, cache>>
         \/ /\ line.kind = "login"
            /\ Publish(line.login, IF line.success THEN "completed" ELSE "failed", calls)
            /\ UNCHANGED cache
         \/ line.kind = "limits" /\ cache' = line.limits /\ UNCHANGED <<login, calls>>
    /\ UNCHANGED <<remote, form, asked, refused>>

-----------------------------------------------------------------------------
(* The services.  A call of the page goes back over HTTP.                  *)

Done(c) == IF c.page THEN [c EXCEPT !.at = "reply"] ELSE Idle

StartedAs(l) == IF login[l] \in Ended THEN login[l] ELSE "started"

\* startLogin; the terminal goes on to wait for the login.
LoginStarted(i) ==
    /\ calls[i].op = "start" /\ calls[i].at = "settled"
    /\ LET l == calls[i].login IN
         Publish(l, StartedAs(l),
                 [calls EXCEPT ![i] = IF calls[i].page THEN [@ EXCEPT !.at = "reply", !.seen = "started"]
                                      ELSE IF StartedAs(l) \in Ended THEN Idle
                                      ELSE [@ EXCEPT !.op = "wait", !.at = "waiting"]])
    /\ UNCHANGED <<remote, link, cache, form, asked, refused>>

\* waitForLogin runs out of time or is aborted by the user.
WaitTimesOut(i) ==
    /\ calls[i].op = "wait"
    /\ Set(i, Call("timeout", calls[i].login, FALSE))
    /\ UNCHANGED <<remote, link, login, cache, form, asked, refused>>

\* cancelLogin; a wait that cannot cancel calls its login failed.
LoginCancelled(i) ==
    /\ calls[i].op \in {"cancel", "timeout"} /\ calls[i].at = "settled"
    /\ Publish(calls[i].login, "cancelled", [calls EXCEPT ![i] = Done([@ EXCEPT !.seen = "cancelled"])])
    /\ UNCHANGED <<remote, link, cache, form, asked, refused>>

\* readRateLimits.
LimitsRead(i) ==
    /\ calls[i].op = "limits" /\ calls[i].at = "settled"
    /\ cache' = calls[i].limits
    /\ Set(i, Idle)
    /\ UNCHANGED <<remote, link, login, form, asked, refused>>

CallFails(i) ==
    /\ calls[i].at = "refused"
    /\ LET then == [calls EXCEPT ![i] = Done([@ EXCEPT !.seen = "error"])] IN
         IF calls[i].op = "timeout" THEN Publish(calls[i].login, "failed", then)
         ELSE calls' = then /\ UNCHANGED login
    /\ UNCHANGED <<remote, link, cache, form, asked, refused>>

\* getLogin, for a poll of the page.
LoginSeen(i) ==
    /\ calls[i].op = "poll" /\ calls[i].at = "asked"
    /\ Set(i, [calls[i] EXCEPT !.at = "reply", !.seen = login[calls[i].login]])
    /\ UNCHANGED <<remote, link, login, cache, form, asked, refused>>

-----------------------------------------------------------------------------
(* The page and the terminal. *)

Acts(i) ==
    /\ calls[i] = Idle
    /\ asked < MaxCalls /\ asked' = asked + 1
    /\ UNCHANGED <<remote, link, login, cache, refused>>

Calm == Overlaps \/ \A i \in Calls : ~calls[i].page
StopPolling(p) == [p EXCEPT !.timer = "none", !.ticks = @ \ {p.timer}]

TerminalSignsIn(i) == Acts(i) /\ Set(i, Call("start", "none", FALSE)) /\ UNCHANGED form
RuntimeReadsLimits(i) ==
    /\ Acts(i) /\ UNCHANGED form
    /\ Set(i, Call("limits", "none", FALSE))

StartOpenAiLogin(i) ==
    /\ Acts(i) /\ Calm
    /\ form' = StopPolling(form)
    /\ Set(i, Call("start", "none", TRUE))

CancelOpenAiLogin(i) ==
    /\ Acts(i) /\ Calm /\ form.status = "started"
    /\ form' = StopPolling(form)
    /\ Set(i, Call("cancel", form.login, TRUE))

\* The interval of a login, named after the login it asks for.
PollTick(i, l) ==
    /\ calls[i] = Idle /\ l \in form.ticks
    /\ \A x \in Calls : calls[x].op # "poll"
    /\ Set(i, Call("poll", l, TRUE))
    /\ UNCHANGED <<remote, link, login, cache, form, asked, refused>>

\* pollOpenAiLogin; the poll of startOpenAiLogin comes before its interval.
Seen(p, c) ==
    LET shown == IF c.seen = "error" THEN p ELSE [p EXCEPT !.login = c.login, !.status = c.seen]
    IN IF c.seen \in Ended \cup {"error"} THEN StopPolling(shown) ELSE shown

PageAnswered(i) ==
    /\ calls[i].at = "reply"
    /\ LET c == calls[i] IN
         \/ /\ c.op = "start" /\ c.seen # "error"
            /\ form' = [form EXCEPT !.login = c.login, !.status = "started"]
            /\ Set(i, Call("first", c.login, TRUE))
         \/ /\ c.op = "cancel" /\ c.seen # "error"
            /\ form' = [form EXCEPT !.login = c.login, !.status = "cancelled"]
            /\ Set(i, Idle)
         \/ /\ c.op \in {"start", "cancel"} /\ c.seen = "error"
            /\ Set(i, Idle) /\ UNCHANGED form
         \/ c.op = "poll" /\ form' = Seen(form, c) /\ Set(i, Idle)
    /\ UNCHANGED <<remote, link, login, cache, asked, refused>>

\* The first poll ends whatever it saw, and the interval starts.
PollingStarts(i) ==
    /\ calls[i].op = "first"
    /\ LET l == calls[i].login
           seen == Seen(form, [calls[i] EXCEPT !.seen = login[l]])
       IN form' = [seen EXCEPT !.timer = l, !.ticks = @ \cup {l}]
    /\ Set(i, Idle)
    /\ UNCHANGED <<remote, link, login, cache, asked, refused>>

-----------------------------------------------------------------------------
CallStep(i) ==
    \/ Sent(i) /\ calls[i].op \notin {"poll", "first"}
    \/ LoginStarted(i) \/ LoginCancelled(i) \/ LimitsRead(i) \/ CallFails(i)
    \/ LoginSeen(i) \/ PageAnswered(i) \/ PollingStarts(i)
Answered(i) == AppAnswers(i) \/ AppRefuses(i)
Asks(i) ==
    \/ TerminalSignsIn(i) \/ RuntimeReadsLimits(i) \/ StartOpenAiLogin(i) \/ CancelOpenAiLogin(i)
    \/ WaitTimesOut(i)

\* What a call does without the user.
FairCall(i) == CallStep(i) \/ Answered(i) \/ WaitTimesOut(i)

Next ==
    \/ HandshakeDone \/ AppTells \/ AppCrashes \/ ReadLine
    \/ \E i \in Calls : CallStep(i) \/ Answered(i) \/ Asks(i)
    \/ \E i \in Calls, l \in Logins : PollTick(i, l)

-----------------------------------------------------------------------------
(* Properties. *)

\* The requests, the logins and the page are what the code can make of them.
TypeOK ==
    /\ remote.open \cap remote.ended = {} /\ remote.open \cup remote.ended \subseteq Logins
    /\ link.state \in {"down", "shaking", "up"}
    /\ \A l \in Logins : login[l] # "none" => l \in remote.open \cup remote.ended
    /\ cache \in 0..remote.limits
    /\ form.ticks \subseteq Logins /\ form.timer \in Logins \cup {"none"}

\* A login that ended is never under way again, whichever of the answer of
\* account/login/start and the event of its end is handled first
\* (accountService.ts:168, "Preserve that terminal state").
EndedStaysEnded ==
    [][\A l \in Logins : login[l] \in Ended => login'[l] \in Ended]_accountVars

\* The cached limits never go back to an older version.  With several lines in
\* one chunk they do: readRateLimits caches its answer after a newer event.
CacheIsNewest == [][cache' >= cache]_accountVars

\* Every call ends, waitForLogin and the page's too, whatever the App Server
\* does: requests and waits have timeouts, a crash rejects what is pending.
AccountCallsEnd == \A i \in Calls : []<>(calls[i] = Idle)

\* The page stops polling a login that is known to have ended, also when the App
\* Server crashed meanwhile.  It does not when the user starts a second login
\* while the first is being started: the interval of the first is forgotten, and
\* what its polls see of the first stops the second's.
LoginPollsEnd == \A l \in Logins : []<>(login[l] \in Ended => l \notin form.ticks)

=============================================================================
