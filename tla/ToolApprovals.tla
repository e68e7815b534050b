---------------------------- MODULE ToolApprovals ----------------------------
(***************************************************************************)
(* Approvals of single tool actions: the store of                          *)
(* src/runtime/toolApprovalStore.ts, the gate in front of an action        *)
(* (shellExec.tool.ts, processStop.tool.ts, tools/registry.ts) and the     *)
(* /approve and /reject commands of chatService.ts.  The store lives in    *)
(* memory and each of its calls is synchronous, one step.                  *)
(***************************************************************************)
EXTENDS Naturals, FiniteSets

CONSTANTS
    Sessions,
    Actions,        \* tool and input, as the action key tells them apart
    TTL,            \* life of a request (10 minutes)
    MaxTime,        \* bound: time
    MaxRequests     \* bound: tokens handed out

\* What the constants may be.
ApprovalConstants == TTL \in Nat \ {0} /\ {MaxTime, MaxRequests} \subseteq Nat

Tokens == 1..MaxRequests

VARIABLES
    now,
    request,    \* what each token handed out so far was for, and until when
    pending,    \* tokens waiting for an answer
    approved,   \* until when each action of each session may run; 0: it may not
    granted,    \* tokens that were approved
    uses        \* the times each action of each session ran

vars == <<now, request, pending, approved, granted, uses>>

Keys     == Sessions \X Actions
Request  == [key : Keys, expiresAt : Nat]
Given    == DOMAIN request

Init ==
    /\ now = 0 /\ request = [t \in {} |-> 0] /\ pending = {}
    /\ approved = [k \in Keys |-> 0]
    /\ granted = {} /\ uses = [k \in Keys |-> {}]

\* prune, which every call begins with.
Pending       == {t \in pending : request[t].expiresAt > now}
Approved      == [k \in Keys |-> IF approved[k] > now THEN approved[k] ELSE 0]

-----------------------------------------------------------------------------

\* The gate asks for an approval unless the action has one, and hands out the
\* token of the request that is pending for it, if there is one.
Gate(k) ==
    /\ Approved[k] = 0
    /\ IF \E t \in Pending : request[t].key = k
       THEN pending' = Pending /\ UNCHANGED request
       ELSE LET token == Cardinality(Given) + 1
            IN  /\ token \in Tokens
                /\ request' = [t \in Given \cup {token} |->
                        IF t \in Given THEN request[t] ELSE [key |-> k, expiresAt |-> now + TTL]]
                /\ pending' = Pending \cup {token}
    /\ approved' = Approved
    /\ UNCHANGED <<now, granted, uses>>

\* The gate finds an approval, which it consumes, and the action runs.
Run(k) ==
    /\ Approved[k] # 0
    /\ approved' = [Approved EXCEPT ![k] = 0]
    /\ pending' = Pending
    /\ uses' = [uses EXCEPT ![k] = @ \cup {<<now, Cardinality(@)>>}]
    /\ UNCHANGED <<now, request, granted>>

\* /approve in session s, with a token of that session.
Approve(s, t) ==
    /\ t \in Pending /\ request[t].key[1] = s
    /\ pending' = Pending \ {t}
    /\ approved' = [Approved EXCEPT ![request[t].key] = request[t].expiresAt]
    /\ granted' = granted \cup {t}
    /\ UNCHANGED <<now, request, uses>>

\* /reject in session s, with a token of that session.
Reject(s, t) ==
    /\ t \in Pending /\ request[t].key[1] = s
    /\ pending' = Pending \ {t}
    /\ approved' = Approved
    /\ UNCHANGED <<now, request, granted, uses>>

\* A token that is unknown, expired or of another session: nothing but prune.
RefuseAnswer(s, t) ==
    /\ ~(t \in Pending /\ request[t].key[1] = s)
    /\ pending' = Pending /\ approved' = Approved
    /\ UNCHANGED <<now, request, granted, uses>>

Tick == now < MaxTime /\ now' = now + 1 /\ UNCHANGED <<request, pending, approved, granted, uses>>

Next ==
    \/ \E k \in Keys : Gate(k) \/ Run(k)
    \/ \E s \in Sessions, t \in Tokens : Approve(s, t) \/ Reject(s, t) \/ RefuseAnswer(s, t)
    \/ Tick

Spec == Init /\ [][Next]_vars

-----------------------------------------------------------------------------

\* Every variable has its type.
TypeOK ==
    /\ now \in 0..MaxTime
    /\ Given \subseteq Tokens /\ request \in [Given -> Request]
    /\ pending \subseteq Given /\ granted \subseteq Given \ pending
    /\ approved \in [Keys -> 0..(MaxTime + TTL)]
    /\ uses \in [Keys -> SUBSET ((0..MaxTime) \X Nat)]

GrantsOf(k) == {t \in granted : request[t].key = k}

\* docs/getting-started.md:44: an approval "is session-bound, expires, and is
\* consumed once".  An action never runs more often than requests for exactly
\* it, in its session, were approved, and each time it runs within the life
\* of such a request: the time the user took to answer counts.
RunsAreApproved ==
    \A k \in Keys :
        /\ Cardinality(uses[k]) <= Cardinality(GrantsOf(k))
        /\ \A u \in uses[k] :
            \E t \in GrantsOf(k) : u[1] < request[t].expiresAt /\ request[t].expiresAt <= u[1] + TTL
=============================================================================
