--------------------------- MODULE GatewayClients ---------------------------
(***************************************************************************)
(* The clients of the gateway: the change stream with a terminal client,   *)
(* the page, and the OpenAI account with both.  They share no state and    *)
(* never wait for each other: a behaviour is one of one part, the others   *)
(* stay as they begin.  Each module says what its constants mean;          *)
(* MCClients.cfg gives them their values.                                  *)
(***************************************************************************)
EXTENDS ConversationStream

CONSTANTS
    Sessions, WebRuns, Slots, Reorders, MaxActs, MaxErrors,
    Logins, Calls, OneChunk, MayCrash, MaxCalls, MaxRefusals, MaxLimits,
    Overlaps    \* whether the user acts while the page awaits an answer

VARIABLES part,
          webRun, page, jobs, acts, errors,
          remote, link, login, cache, calls, form, asked, refused

webVars     == <<webRun, page, jobs, acts, errors>>
accountVars == <<remote, link, login, cache, calls, form, asked, refused>>

-----------------------------------------------------------------------------
(* The parts; the stream is this module's own. *)

Web     == INSTANCE WebClient
Account == INSTANCE CodexAccount

PartConstants == StreamConstants /\ Web!WebConstants /\ Account!AccountConstants

ASSUME ClientAssumption == PartConstants

-----------------------------------------------------------------------------

PartsInit ==
    /\ part \in {"stream", "web", "account"}
    /\ Init /\ Web!Init /\ Account!Init
    /\ part # "web" => /\ \A r \in WebRuns : webRun[r] = Web!Absent
                       /\ page.here = CHOOSE s \in Sessions : TRUE
                       /\ jobs[CHOOSE i \in Slots : TRUE] # Web!Idle

OthersStay ==
    /\ UNCHANGED part
    /\ part # "stream" => UNCHANGED vars
    /\ part # "web" => UNCHANGED webVars
    /\ part # "account" => UNCHANGED accountVars

PartsNext ==
    \/ part = "stream" /\ Next /\ OthersStay
    \/ part = "web" /\ Web!Next /\ OthersStay
    \/ part = "account" /\ Account!Next /\ OthersStay

partVars == <<part, vars, webVars, accountVars>>

\* The fairness of each part, for the behaviours that are its own: its actors
\* never stop for good.  The user, crashes and the App Server's events owe no step.
StreamFairness ==
    /\ WF_vars(part = "stream" /\ \E w \in writes : Journal(w))
    /\ WF_vars(part = "stream" /\ (Boot \/ Serve \/ \E r \in Runs : Recover(r)))
    /\ \A c \in Clients : WF_vars(part = "stream" /\ (Connect(c) \/ Streaming(c)))

WebFairness ==
    /\ \A i \in Slots : WF_webVars(part = "web" /\ Web!JobStep(i))
    /\ WF_webVars(part = "web" /\ \E r \in WebRuns : Web!RunEnds(r))

AccountFairness ==
    /\ WF_accountVars(part = "account" /\ (Account!HandshakeDone \/ Account!ReadLine))
    /\ \A i \in Calls : WF_accountVars(part = "account" /\ Account!FairCall(i))
    /\ \A l \in Logins : WF_accountVars(part = "account" /\ \E i \in Calls : Account!PollTick(i, l))

FairParts == PartsInit /\ [][PartsNext]_partVars /\ StreamFairness /\ WebFairness /\ AccountFairness

-----------------------------------------------------------------------------
(* The properties of the parts. *)

\* Every variable has its type.
PartsTypeOK ==
    /\ part = "stream" => TypeOK
    /\ part = "web" => Web!TypeOK
    /\ part = "account" => Account!TypeOK

\* Once no answer is awaited, the page lists and polls runs of its session.
ShownIsOfSession == Web!ShownIsOfSession

\* Every journalled change reaches the clients that watch, polling ends with the
\* run or the login it is for, account calls end whatever the App Server does,
\* and the end of a login is final.
ClientsEnd ==
    /\ JournalReachesClients
    /\ Web!PollingEnds
    /\ Account!AccountCallsEnd /\ Account!LoginPollsEnd /\ Account!EndedStaysEnded
=============================================================================
