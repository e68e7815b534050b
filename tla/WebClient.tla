------------------------------ MODULE WebClient ------------------------------
(***************************************************************************)
(* The page of the web UI (webui/app.js): sessions, runs, the composer and *)
(* the polling of a run.  Each function that awaits an answer is a job,    *)
(* which goes on from the page's state as it is by then.  Drawing is left  *)
(* out: what the user sees is a function of the state (getSelectedRunRecord, *)
(* renderChatHistory).  The list of sessions shows all of them.            *)
(***************************************************************************)
EXTENDS Naturals, FiniteSets

CONSTANTS
    Sessions,   \* sessions of the server
    WebRuns,    \* runs there may ever be
    Slots,      \* jobs of the page at one time
    Overlaps,   \* whether the user acts while answers are awaited
    Reorders,   \* whether answers may overtake each other
    MaxActs,    \* bound on what the user does and on requests that fail, together
    MaxErrors   \* bound on requests that fail

WebConstants ==
    /\ {Overlaps, Reorders} \subseteq BOOLEAN /\ {MaxActs, MaxErrors} \subseteq Nat
    /\ "none" \notin Sessions \cup WebRuns

VARIABLES
    webRun,   \* the server's runs
    page,     \* state: what the page knows and shows
    jobs,     \* calls of the page's functions that wait for an answer
    acts,     \* what the user did so far
    errors    \* requests that failed so far

webVars == <<webRun, page, jobs, acts, errors>>

NoRun == [run |-> "none", ended |-> TRUE]
Absent == [session |-> "none"]
Idle == [fn |-> "none", ask |-> "none", back |-> FALSE]

Server(session, ended) == [session |-> session, ended |-> ended]
SeenRun(r) == [run |-> r, ended |-> webRun[r].ended]
RunsOf(s) == {r \in WebRuns : webRun[r].session = s}

\* A job asks for the turn of a message, the runs of a session, its scheduled
\* tasks, one run, a cancellation or a new session.
Ask(fn, ask, s, r, live) ==
    [fn |-> fn, ask |-> ask, session |-> s, run |-> r, live |-> live, back |-> FALSE,
     reply |-> NoRun, rows |-> {}]
Put(i, j) == jobs' = [jobs EXCEPT ![i] = j]
Waits(i) == jobs[i] # Idle /\ ~jobs[i].back
Replied(i, ask) == jobs[i].ask = ask /\ jobs[i].back
Quiet == \A i \in Slots : jobs[i] = Idle

\* init, as far as the sessions: it lists the runs of the first one.
Init ==
    /\ \E old \in SUBSET WebRuns, of \in [WebRuns -> Sessions], done \in SUBSET WebRuns :
         /\ old # WebRuns /\ done \subseteq old
         /\ webRun = [r \in WebRuns |-> IF r \in old THEN Server(of[r], r \in done) ELSE Absent]
    /\ \E s \in Sessions, i \in Slots :
         /\ page = [here |-> s, chosen |-> "none", listed |-> {}, payload |-> NoRun,
                    polled |-> "none", sending |-> FALSE, busy |-> FALSE]
         /\ jobs = [x \in Slots |-> IF x = i THEN Ask("init", "runs", s, "none", FALSE) ELSE Idle]
    /\ acts = 0 /\ errors = 0

-----------------------------------------------------------------------------
(* The server. *)

Answer(i) ==
    /\ Waits(i)
    /\ Reorders \/ \A x \in Slots : ~jobs[x].back
    /\ LET j == jobs[i]
           Reply(v) == Put(i, [j EXCEPT !.reply = v, !.back = TRUE])
       IN \/ /\ j.ask = "runs" /\ UNCHANGED webRun
             /\ Put(i, [j EXCEPT !.rows = {SeenRun(r) : r \in RunsOf(j.session)}, !.back = TRUE])
          \/ j.ask \in {"tasks", "create"} /\ Reply(NoRun) /\ UNCHANGED webRun
          \/ j.ask \in {"run", "cancel"} /\ Reply(SeenRun(j.run)) /\ UNCHANGED webRun
          \* A queued run, one that was answered at once, or only a text.
          \/ /\ j.ask = "turn"
             /\ \/ Reply(NoRun) /\ UNCHANGED webRun
                \/ \E r \in WebRuns, ended \in BOOLEAN :
                      /\ webRun[r] = Absent
                      /\ webRun' = [webRun EXCEPT ![r] = Server(j.session, ended)]
                      /\ Reply([run |-> r, ended |-> ended])
    /\ UNCHANGED <<page, acts, errors>>

RunEnds(r) ==
    /\ webRun[r] # Absent /\ ~webRun[r].ended
    /\ webRun' = [webRun EXCEPT ![r].ended = TRUE]
    /\ UNCHANGED <<page, jobs, acts, errors>>

-----------------------------------------------------------------------------
(* What the user does. *)

UserActs(i) ==
    /\ acts + errors < MaxActs /\ acts' = acts + 1
    /\ Overlaps \/ Quiet
    /\ UNCHANGED <<webRun, errors>>

\* A bug: the polling of the session that is left goes on.
SelectKeepsPolling(p, s) == [p EXCEPT !.here = s, !.chosen = "none", !.payload = NoRun]

Selected(p, s) == [p EXCEPT !.here = s, !.chosen = "none", !.payload = NoRun, !.polled = "none"]

SelectSession(i, s) ==
    /\ UserActs(i) /\ jobs[i] = Idle
    /\ page' = Selected(page, s)
    /\ Put(i, Ask("select", "runs", s, "none", FALSE))

\* createSession; the new session is one that has no runs yet.  Polling goes on
\* while it is made.
CreateSession(i, s) ==
    /\ UserActs(i) /\ jobs[i] = Idle /\ RunsOf(s) = {}
    /\ Overlaps \/ page.polled = "none"
    /\ Put(i, Ask("create", "create", s, "none", FALSE))
    /\ UNCHANGED page

\* submitComposerTurn and, without a look at isSending, resetSessionContext.
SendTurn(i, reset) ==
    /\ UserActs(i) /\ jobs[i] = Idle
    /\ reset \/ ~page.sending
    /\ page' = [page EXCEPT !.sending = TRUE, !.busy = TRUE]
    /\ Put(i, Ask("send", "turn", page.here, "none", FALSE))

\* A card of the chat, the telemetry list or the inspector; only the first and
\* the last go on to poll.
OpenRun(i, r, fn) ==
    /\ UserActs(i) /\ jobs[i] = Idle
    /\ r \in {x.run : x \in page.listed}
    /\ Put(i, IF fn = "cancel" THEN Ask(fn, "cancel", page.here, r, FALSE)
              ELSE Ask(fn, "run", page.here, r, FALSE))
    /\ UNCHANGED page

RefreshRuns(i) ==
    /\ UserActs(i) /\ jobs[i] = Idle
    /\ Put(i, Ask("refresh", "runs", page.here, "none", FALSE))
    /\ UNCHANGED page

UserStep(i) ==
    \/ \E s \in Sessions : SelectSession(i, s) \/ CreateSession(i, s)
    \/ \E reset \in BOOLEAN : SendTurn(i, reset)
    \/ \E r \in WebRuns, fn \in {"open", "peek", "cancel"} : OpenRun(i, r, fn)
    \/ RefreshRuns(i)

-----------------------------------------------------------------------------
(* What the page does with answers. *)

\* startRunPolling asks at once and then at every interval, whether the last
\* answer has come or not.
PollTick(i) ==
    /\ jobs[i] = Idle /\ page.polled # "none"
    /\ Put(i, Ask("tick", "run", page.here, page.polled, FALSE))
    /\ UNCHANGED <<webRun, page, acts, errors>>

\* The finally of sendTurn.
Sent(p) == [p EXCEPT !.sending = FALSE, !.busy = @ /\ p.polled # "none"]

TurnTaken(i) ==
    /\ Replied(i, "turn")
    /\ LET r == jobs[i].reply IN
         /\ page' = [page EXCEPT !.here = jobs[i].session,
                                 !.chosen = IF r.run = "none" THEN @ ELSE r.run]
         /\ Put(i, Ask("send", "runs", jobs[i].session, r.run, ~r.ended))
    /\ UNCHANGED <<webRun, acts, errors>>

Created(i) ==
    /\ Replied(i, "create")
    /\ page' = Selected(page, jobs[i].session)
    /\ Put(i, Ask("select", "runs", jobs[i].session, "none", FALSE))
    /\ UNCHANGED <<webRun, acts, errors>>

\* refreshSessionRuns shows what it gets, whatever session is shown by now; the
\* first run, which is the one updated last, is chosen if the chosen one is not
\* among them.
ListRuns(i) ==
    /\ Replied(i, "runs")
    /\ LET j == jobs[i]
           got == {x.run : x \in j.rows}
       IN \E first \in IF page.chosen \in got THEN {page.chosen}
                       ELSE IF got = {} THEN {"none"} ELSE got :
            LET shown == [page EXCEPT !.listed = j.rows, !.chosen = first] IN
            /\ page' = IF j.fn = "send" /\ j.run = "none" THEN Sent([shown EXCEPT !.busy = FALSE])
                       ELSE shown
            /\ Put(i, CASE j.fn = "select" -> Ask("select", "tasks", j.session, "none", FALSE)
                        [] j.fn = "send" /\ j.run # "none" -> Ask("send", "run", j.session, j.run, j.live)
                        [] j.fn \in {"init", "refresh"} /\ first # "none" ->
                               Ask(j.fn, "run", j.session, first, FALSE)
                        [] OTHER -> Idle)
    /\ UNCHANGED <<webRun, acts, errors>>

\* refreshScheduledTasks; selectSession goes on with the run chosen by now.
ListTasks(i) ==
    /\ Replied(i, "tasks")
    /\ Put(i, IF page.chosen = "none" THEN Idle
              ELSE Ask("select", "run", page.here, page.chosen, FALSE))
    /\ UNCHANGED <<webRun, page, acts, errors>>

\* loadRun and patchRunSummary.
Loaded(p, x) ==
    [p EXCEPT !.chosen = x.run, !.payload = x,
              !.listed = {y \in @ : y.run # x.run} \cup {x}]

\* A bug: an ended run is polled on.
TickPollsOn(p, x) == [p EXCEPT !.busy = @ /\ ~x.ended]

AfterTick(p, x) ==
    IF x.ended THEN [p EXCEPT !.polled = "none", !.busy = FALSE] ELSE p

ShowRun(i) ==
    /\ Replied(i, "run")
    /\ LET j == jobs[i]
           x == j.reply
           p == Loaded(page, x)
           Poll(q) == [q EXCEPT !.polled = x.run]
       IN /\ page' = CASE j.fn = "tick" -> AfterTick(p, x)
                       [] j.fn = "send" -> Sent(IF j.live THEN Poll(p)
                                                ELSE [p EXCEPT !.polled = "none", !.busy = FALSE])
                       [] j.fn = "cancel" -> IF j.live THEN Poll(p) ELSE p
                       [] j.fn \in {"init", "select", "open"} -> IF x.ended THEN p ELSE Poll(p)
                       [] j.fn \in {"peek", "refresh"} -> p
          /\ Put(i, IF j.fn = "tick" /\ x.ended THEN Ask("tick", "runs", page.here, "none", FALSE)
                    ELSE Idle)
    /\ UNCHANGED <<webRun, acts, errors>>

CancelTaken(i) ==
    /\ Replied(i, "cancel")
    /\ Put(i, Ask("cancel", "run", jobs[i].session, jobs[i].run, ~jobs[i].reply.ended))
    /\ UNCHANGED <<webRun, page, acts, errors>>

\* A tick that fails stops whatever is polled by then.
RequestFails(i) ==
    /\ errors < MaxErrors /\ acts + errors < MaxActs /\ errors' = errors + 1
    /\ Waits(i)
    /\ page' = CASE jobs[i].fn = "tick" -> [page EXCEPT !.polled = "none", !.busy = FALSE]
                 [] jobs[i].fn = "send" -> Sent(page)
                 [] OTHER -> page
    /\ Put(i, Idle)
    /\ UNCHANGED <<webRun, acts>>

PageStep(i) ==
    \/ TurnTaken(i) \/ Created(i) \/ ListRuns(i) \/ ListTasks(i) \/ ShowRun(i) \/ CancelTaken(i)

JobStep(i) == Answer(i) \/ PageStep(i) \/ PollTick(i)

Next ==
    \/ \E i \in Slots : JobStep(i) \/ UserStep(i) \/ RequestFails(i)
    \/ \E r \in WebRuns : RunEnds(r)

Spec == Init /\ [][Next]_webVars

-----------------------------------------------------------------------------

Seen == [run : WebRuns \cup {"none"}, ended : BOOLEAN]

\* Every variable has its type.
TypeOK ==
    /\ webRun \in [WebRuns -> [session : Sessions, ended : BOOLEAN] \cup {Absent}]
    /\ page \in [here : Sessions, chosen : WebRuns \cup {"none"}, listed : SUBSET Seen, payload : Seen,
                 polled : WebRuns \cup {"none"}, sending : BOOLEAN, busy : BOOLEAN]
    /\ acts \in 0..MaxActs /\ errors \in 0..MaxErrors

\* When no answer is awaited and none was missed, the runs on display are the session's, and so is
\* the one that is polled.
ShownIsOfSession ==
    Quiet /\ errors = 0 =>
             /\ \A x \in page.listed : webRun[x.run].session = page.here
             /\ page.polled # "none" => webRun[page.polled].session = page.here

\* Polling ends with the run that is polled, or with another choice.
PollingEnds == \A r \in WebRuns : []<>(page.polled # r)

\* The send button is enabled again.
SendComesBack == page.busy ~> ~page.busy
=============================================================================
