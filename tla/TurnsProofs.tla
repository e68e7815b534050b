----------------------------- MODULE TurnsProofs -----------------------------
(***************************************************************************)
(* What holds of a turn of the agent loop and of a turn over a Codex App   *)
(* Server for all tools and limits, of a Telegram chat for all messages,   *)
(* of the processes that searches and browsers start, of the pages that a  *)
(* fetch reads, of the calls that fall back to another provider, and of a  *)
(* conversation in the formats of the providers.  Every variable has its   *)
(* type.                                                                   *)
(***************************************************************************)
EXTENDS Turns, FiniteSetTheorems, WellFoundedInduction, TLAPS

\* What each await of the loop may rely on.
AwaitsInv ==
    /\ pc # "done" => outcome = "none"
    /\ pc = "backoff" => attempt < MaxAttempts
    /\ pc \in {"tool", "record"} => batch # <<>>
    /\ (pc = "record" /\ Head(batch) \in Terminal) => action # "none"

\* A scheduled turn that came to an end has chosen its action.
EndInv ==
    (Scheduled /\ outcome \in {"completed", "failed"}) => (outcome = "completed" /\ action # "none")

IInv == TypeOK /\ AwaitsInv /\ EndInv /\ LastCallIsReserved

-----------------------------------------------------------------------------
(* What the replies of a model are. *)

\* The parts of an answer are claims about tools and a batch of calls.
LEMMA AnswerParts ==
    ASSUME NEW r \in Answers \cup {Failure}
    PROVE  /\ r.kind \in {"text", "calls", "cut", "failure"}
           /\ r.claims \subseteq Tools
           /\ r.calls \in Seq(Calls)
<1> USE DEF Text, CallTo, Cut, Failure
<1>1. CASE r \in {Text(c) : c \in SUBSET Tools}
    <2>1. PICK c \in SUBSET Tools : r = Text(c)
        BY <1>1
    <2> QED BY <2>1
<1>2. CASE r \in {CallTo(b) : b \in Batches}
    <2>1. PICK b \in Batches : r = CallTo(b)
        BY <1>2
    <2>2. PICK n \in 1..MaxBatch : b \in [1..n -> Calls]
        BY <2>1 DEF Batches
    <2>3. b \in Seq(Calls)
        BY <2>2, TurnConstants DEF TurnConstants
    <2> QED BY <2>1, <2>3
<1>3. CASE r = Cut \/ r = Failure
    <2>1. r.kind \in {"cut", "failure"} /\ r.claims = {} /\ r.calls = <<>>
        BY <1>3
    <2>2. <<>> \in Seq(Calls)
        OBVIOUS
    <2> QED BY <2>1, <2>2
<1> QED BY <1>1, <1>2, <1>3 DEF Answers

\* What is left of a batch is a batch.
LEMMA BatchTail ==
    ASSUME NEW b \in Seq(Calls), b # <<>>
    PROVE  Head(b) \in Calls /\ Tail(b) \in Seq(Calls)
OBVIOUS

-----------------------------------------------------------------------------
(* The invariant. *)

LEMMA InitInvariant == Init => IInv
<1> SUFFICES ASSUME Init PROVE IInv
    OBVIOUS
<1>1. Cut \in Answers
    BY DEF Answers
<1>2. <<>> \in Seq(Calls)
    OBVIOUS
<1>3. iteration \in 0..MaxIterations /\ attempt \in 0..MaxAttempts /\ toolCallCount \in 0..ToolLimit
    BY TurnConstants DEF Init, TurnConstants
<1>4. reply \in Answers \cup {Failure} /\ batch \in Seq(Calls)
    BY <1>1, <1>2 DEF Init
<1>5. TypeOK
    BY <1>3, <1>4 DEF Init, TypeOK
<1> QED BY <1>5 DEF Init, IInv, AwaitsInv, EndInv, LastCallIsReserved

\* The ways out of the loop leave a scheduled turn with an action.
LEMMA EndWithSelects ==
    ASSUME NEW result \in {"completed", "failed"}, NEW claims \in SUBSET Tools,
           IInv, pc # "done", EndWith(result, claims)
    PROVE  /\ pc' = "done" /\ outcome' \in {"completed", "failed"} /\ answer' \in SUBSET Tools
           /\ action' \in Terminal \cup {"none"}
           /\ action # "none" => action' = action
           /\ Scheduled => outcome' = "completed" /\ action' # "none"
BY DEF EndWith, End, ForceTerminalAction, IInv, TypeOK, Terminal

LEMMA StepInvariant == IInv /\ [Next]_vars => IInv'
<1> SUFFICES ASSUME IInv, [Next]_vars PROVE IInv'
    OBVIOUS
<1> USE TurnConstants
<1>1. CASE Iterate
    <2> USE <1>1 DEF Iterate, userVars, toolVars, callVars
    <2>1. CASE iteration >= MaxIterations
        <3>1. EndWith("failed", {})
            BY <2>1
        <3> QED BY <2>1, <3>1, EndWithSelects
                DEF IInv, TypeOK, AwaitsInv, EndInv, LastCallIsReserved, Scheduled
    <2>2. CASE iteration < MaxIterations /\ expired
        <3>1. EndWith(IF artifacts THEN "completed" ELSE "failed", {})
            BY <2>2 DEF IInv, TypeOK, TurnConstants
        <3>2. iteration' \in 0..MaxIterations
            BY <2>2 DEF IInv, TypeOK, TurnConstants
        <3> QED BY <3>1, <3>2, EndWithSelects
                DEF IInv, TypeOK, AwaitsInv, EndInv, LastCallIsReserved, Scheduled
    <2>3. CASE iteration < MaxIterations /\ ~expired
        BY <2>3 DEF IInv, TypeOK, AwaitsInv, EndInv, LastCallIsReserved, Scheduled, End,
                    resultVars, TurnConstants
    <2> QED BY <2>1, <2>2, <2>3 DEF IInv, TypeOK, TurnConstants
<1>2. CASE CallModel
    BY <1>2 DEF CallModel, IInv, TypeOK, AwaitsInv, EndInv, LastCallIsReserved, Scheduled,
                userVars, toolVars, loopVars, resultVars, TurnConstants
<1>3. CASE AttemptAnswers
    BY <1>3 DEF AttemptAnswers, IInv, TypeOK, AwaitsInv, EndInv, LastCallIsReserved, Scheduled,
                userVars, toolVars, loopVars, resultVars
<1>4. CASE \E transient \in BOOLEAN : AttemptFails(transient)
    BY <1>4 DEF AttemptFails, MayRetry, IInv, TypeOK, AwaitsInv, EndInv, LastCallIsReserved,
                Scheduled, userVars, toolVars, loopVars, resultVars, TurnConstants
<1>5. CASE Retry
    BY <1>5 DEF Retry, IInv, TypeOK, AwaitsInv, EndInv, LastCallIsReserved, Scheduled,
                userVars, toolVars, loopVars, resultVars, TurnConstants
<1>6. CASE ReplyText
    <2> USE <1>6 DEF ReplyText, userVars, toolVars, callVars
    <2>1. reply.claims \in SUBSET Tools
        BY AnswerParts DEF IInv, TypeOK
    <2>2. CASE ~Scheduled /\ Ungrounded(reply.claims)
        BY <2>2 DEF IInv, TypeOK, AwaitsInv, EndInv, LastCallIsReserved, Scheduled, End, resultVars
    <2>3. CASE Scheduled \/ ~Ungrounded(reply.claims)
        <3>1. EndWith("completed", reply.claims)
            BY <2>3
        <3> QED BY <2>1, <2>3, <3>1, EndWithSelects
                DEF IInv, TypeOK, AwaitsInv, EndInv, LastCallIsReserved, Scheduled
    <2> QED BY <2>2, <2>3
<1>7. CASE ReplyFails
    <2>1. EndWith("failed", {})
        BY <1>7 DEF ReplyFails
    <2> QED BY <1>7, <2>1, EndWithSelects
            DEF ReplyFails, userVars, toolVars, loopVars, callVars,
                IInv, TypeOK, AwaitsInv, EndInv, LastCallIsReserved, Scheduled
<1>8. CASE ReplyCalls
    <2>1. reply.calls \in Seq(Calls)
        BY AnswerParts DEF IInv, TypeOK
    <2> QED BY <1>8, <2>1
            DEF ReplyCalls, userVars, loopVars, callVars, resultVars,
                IInv, TypeOK, AwaitsInv, EndInv, LastCallIsReserved, Scheduled
<1>9. CASE DispatchTool
    <2> USE <1>9 DEF DispatchTool, userVars, loopVars, callVars
    <2>1. CASE OverBudget(Head(batch))
        <3>1. EndWith("failed", {})
            BY <2>1
        <3> QED BY <2>1, <3>1, EndWithSelects
                DEF IInv, TypeOK, AwaitsInv, EndInv, LastCallIsReserved, Scheduled
    <2>2. CASE ~OverBudget(Head(batch))
        BY <2>2 DEF OverBudget, IsTerminalAction, IInv, TypeOK, AwaitsInv, EndInv,
                    LastCallIsReserved, Scheduled, resultVars, TurnConstants
    <2> QED BY <2>1, <2>2
<1>10. CASE ToolFails
    <2>1. Tail(batch) \in Seq(Calls)
        BY <1>10, BatchTail DEF ToolFails, IInv, TypeOK, AwaitsInv
    <2> QED BY <1>10, <2>1
            DEF ToolFails, NextTool, userVars, loopVars, callVars, resultVars,
                IInv, TypeOK, AwaitsInv, EndInv, LastCallIsReserved, Scheduled
<1>11. CASE ToolReturns
    BY <1>11 DEF ToolReturns, userVars, loopVars, callVars, Terminal,
                 IInv, TypeOK, AwaitsInv, EndInv, LastCallIsReserved, Scheduled
<1>12. CASE RecordTool
    <2>1. Head(batch) \in Calls /\ Tail(batch) \in Seq(Calls)
        BY <1>12, BatchTail DEF RecordTool, IInv, TypeOK, AwaitsInv
    <2> QED BY <1>12, <2>1
            DEF RecordTool, NextTool, End, IsTerminalAction, userVars, loopVars, callVars,
                IInv, TypeOK, AwaitsInv, EndInv, LastCallIsReserved, Scheduled
<1>13. CASE RecordFails
    <2>1. Tail(batch) \in Seq(Calls)
        BY <1>13, BatchTail DEF RecordFails, IInv, TypeOK, AwaitsInv
    <2> QED BY <1>13, <2>1
            DEF RecordFails, NextTool, userVars, loopVars, callVars, resultVars,
                IInv, TypeOK, AwaitsInv, EndInv, LastCallIsReserved, Scheduled
<1>14. CASE BatchDone
    BY <1>14 DEF BatchDone, userVars, toolVars, loopVars, callVars, resultVars,
                 IInv, TypeOK, AwaitsInv, EndInv, LastCallIsReserved, Scheduled
<1>15. CASE TurnThrows
    BY <1>15 DEF TurnThrows, End, userVars, toolVars, loopVars, callVars,
                 IInv, TypeOK, AwaitsInv, EndInv, LastCallIsReserved, Scheduled
<1>16. CASE CancelRun \/ DeadlinePasses
    BY <1>16 DEF CancelRun, DeadlinePasses, toolVars, loopVars, callVars, resultVars,
                 IInv, TypeOK, AwaitsInv, EndInv, LastCallIsReserved, Scheduled
<1>17. CASE UNCHANGED vars
    BY <1>17 DEF vars, IInv, TypeOK, AwaitsInv, EndInv, LastCallIsReserved, Scheduled
<1> QED
    BY <1>1, <1>2, <1>3, <1>4, <1>5, <1>6, <1>7, <1>8, <1>9, <1>10, <1>11, <1>12, <1>13,
       <1>14, <1>15, <1>16, <1>17 DEF Next, Step

LEMMA Invariant == Spec => []IInv
BY InitInvariant, StepInvariant, PTL DEF Spec

-----------------------------------------------------------------------------
(* The theorems. *)

\* Every reachable state of a turn has its type: the retries of a call, the
\* iterations and the tool calls keep their limits.
THEOREM TurnTypeCorrect == Spec => []TypeOK
BY Invariant, PTL DEF IInv

\* A scheduled turn never spends its last tool call on anything but its
\* terminal action.
THEOREM LastCallReserved == Spec => []LastCallIsReserved
BY Invariant, PTL DEF IInv

LEMMA SelectsOnce ==
    ASSUME IInv, [Next]_vars
    PROVE  /\ action # "none" => action' = action
           /\ origin' = origin
<1>1. CASE Iterate
    BY <1>1 DEF Iterate, EndWith, ForceTerminalAction, End, resultVars, userVars
<1>2. CASE ReplyText
    BY <1>2 DEF ReplyText, EndWith, ForceTerminalAction, End, resultVars, userVars
<1>3. CASE ReplyFails \/ DispatchTool
    BY <1>3 DEF ReplyFails, DispatchTool, EndWith, ForceTerminalAction, End, resultVars, userVars
<1>4. CASE ToolReturns
    BY <1>4 DEF ToolReturns, userVars
<1>5. CASE \/ CallModel \/ AttemptAnswers \/ Retry \/ ReplyCalls \/ ToolFails \/ RecordTool
           \/ RecordFails \/ BatchDone \/ TurnThrows \/ CancelRun \/ DeadlinePasses
           \/ \E transient \in BOOLEAN : AttemptFails(transient)
    BY <1>5 DEF CallModel, AttemptAnswers, Retry, ReplyCalls, ToolFails, RecordTool, RecordFails,
                BatchDone, TurnThrows, CancelRun, DeadlinePasses, AttemptFails, resultVars, userVars
<1>6. CASE UNCHANGED vars
    BY <1>6 DEF vars
<1> QED BY <1>1, <1>2, <1>3, <1>4, <1>5, <1>6 DEF Next, Step

\* However a scheduled turn leaves the loop, it has selected a terminal action,
\* and an action once selected stands.
THEOREM TurnsSelect == Spec => ScheduledTurnsSelect
<1>1. IInv /\ IInv' /\ [Next]_vars =>
        [/\ (Scheduled /\ outcome' \in {"completed", "failed"})
                => (outcome' = "completed" /\ action' # "none")
         /\ action # "none" => action' = action]_vars
    BY SelectsOnce DEF IInv, EndInv, Scheduled
<1> QED BY <1>1, Invariant, PTL DEF Spec, ScheduledTurnsSelect

-----------------------------------------------------------------------------
(* The turn over a Codex App Server. *)

\* The counter counts the calls that were started, each once: a call is
\* started when it leaves "admit" below the limit, and never goes back.
CountInv ==
    /\ startedTools \subseteq CodexCalls
    /\ call \in [CodexCalls ->
            {"unmade", "check", "reject", "admit", "execute", "respond", "answered"}]
    /\ \A c \in startedTools : call[c] \in {"execute", "respond", "answered"}
    /\ calledTools = Cardinality(startedTools)
    /\ calledTools \in Nat
    /\ calledTools <= CodexMaxCalls

\* The flag of the run stands before a call is turned away for it, the turn is
\* aborted for it, or the outcome tells of it.
FlagInv ==
    /\ cancelFlag \in BOOLEAN
    /\ call \in [CodexCalls ->
            {"unmade", "check", "reject", "admit", "execute", "respond", "answered"}]
    /\ (\E c \in CodexCalls : call[c] = "reject") => cancelFlag
    /\ aborted = "caller" => cancelFlag
    /\ status = "cancelled" => cancelFlag

\* CodexTurn means the finite sets and the cardinality of FiniteSets.
LEMMA FiniteSetsAgree ==
    ASSUME NEW S
    PROVE  /\ Codex!IsFiniteSet(S) <=> IsFiniteSet(S)
           /\ Codex!Cardinality(S) = Cardinality(S)
BY DEF Codex!IsFiniteSet, Codex!Cardinality, IsFiniteSet, Cardinality

\* Only three kinds of steps change the calls, the counter or the calls started.
LEMMA CountStep ==
    ASSUME Codex!CodexConstants, CountInv, [Codex!Next]_(Codex!vars)
    PROVE  CountInv'
<1>1. CASE UNCHANGED <<call, calledTools, startedTools>>
    BY <1>1 DEF CountInv
<1>2. ASSUME NEW c \in CodexCalls,
             \/ Codex!ToolRequest(c) \/ Codex!ReadFlag(c) \/ Codex!RejectTool(c)
             \/ Codex!ToolEnds(c) \/ Codex!RespondTool(c)
      PROVE  CountInv'
    <2>1. /\ UNCHANGED <<calledTools, startedTools>>
          /\ \E at \in {"check", "reject", "admit", "respond", "answered"} :
                call' = [call EXCEPT ![c] = at]
          /\ call[c] \in {"execute", "respond"} => call'[c] \in {"respond", "answered"}
          /\ call[c] # "answered"
        BY <1>2 DEF Codex!ToolRequest, Codex!ReadFlag, Codex!RejectTool, Codex!ToolEnds,
                    Codex!RespondTool, CountInv
    <2> QED BY <2>1 DEF CountInv
<1>3. ASSUME NEW c \in CodexCalls, Codex!AdmitTool(c)
      PROVE  CountInv'
    <2>1. CASE Codex!AtLimit
        BY <1>3, <2>1 DEF Codex!AdmitTool, CountInv
    <2>2. CASE ~Codex!AtLimit
        <3>1. /\ call[c] = "admit" /\ call' = [call EXCEPT ![c] = "execute"]
              /\ calledTools' = calledTools + 1 /\ startedTools' = startedTools \cup {c}
            BY <1>3, <2>2 DEF Codex!AdmitTool
        <3>2. c \notin startedTools
            BY <3>1 DEF CountInv
        <3>3. IsFiniteSet(startedTools)
            BY FS_Subset, FiniteSetsAgree DEF Codex!CodexConstants, CountInv
        <3>4. Cardinality(startedTools \cup {c}) = Cardinality(startedTools) + 1
            BY <3>2, <3>3, FS_AddElement
        <3>5. calledTools' <= CodexMaxCalls
            BY <2>2, <3>1 DEF Codex!AtLimit, Codex!CodexConstants, CountInv
        <3> QED BY <3>1, <3>4, <3>5 DEF CountInv
    <2> QED BY <2>1, <2>2
<1>4. CASE \/ Codex!TurnStep \/ Codex!ServerAnswers \/ Codex!TurnCompleted \/ Codex!ServerDies
           \/ Codex!MalformedLine \/ Codex!CancelRun \/ Codex!PollCancel
    <2>1. UNCHANGED <<call, calledTools, startedTools>>
        BY <1>4 DEF Codex!TurnStep, Codex!Start, Codex!Continue, Codex!TurnTimeout, Codex!EndWait,
                    Codex!Close, Codex!Conclude, Codex!RequestTimesOut, Codex!ServerAnswers,
                    Codex!TurnCompleted, Codex!ServerDies, Codex!MalformedLine, Codex!CancelRun,
                    Codex!PollCancel, Codex!toolVars
    <2> QED BY <1>1, <2>1
<1>5. CASE UNCHANGED Codex!vars
    BY <1>1, <1>5 DEF Codex!vars, Codex!toolVars
<1> QED BY <1>2, <1>3, <1>4, <1>5 DEF Codex!Next

\* However many calls the server has in flight at once, and whatever lies
\* between the check and the start of each, no more than maxToolCalls are
\* started (a conjunct of the runs' ToolBudgetsKept).
THEOREM CodexBudgetHolds ==
    ASSUME Codex!CodexConstants
    PROVE  Codex!Spec => []Codex!ToolBudgetKept
<1>1. Codex!Init => CountInv
    BY FS_EmptySet DEF Codex!Init, Codex!CodexConstants, CountInv
<1>2. CountInv /\ [Codex!Next]_(Codex!vars) => CountInv'
    BY CountStep
<1>3. CountInv => Codex!ToolBudgetKept
    BY FiniteSetsAgree DEF CountInv, Codex!ToolBudgetKept
<1> QED BY <1>1, <1>2, <1>3, PTL DEF Codex!Spec

LEMMA FlagStep ==
    ASSUME FlagInv, [Codex!Next]_(Codex!vars)
    PROVE  FlagInv'
<1>1. CASE UNCHANGED <<cancelFlag, call, aborted, status>>
    BY <1>1 DEF FlagInv
<1>2. CASE Codex!CancelRun
    BY <1>2 DEF Codex!CancelRun, Codex!toolVars, FlagInv
<1>3. CASE Codex!PollCancel
    BY <1>3 DEF Codex!PollCancel, Codex!toolVars, FlagInv
<1>4. CASE Codex!Conclude
    BY <1>4 DEF Codex!Conclude, Codex!toolVars, FlagInv
<1>5. ASSUME NEW c \in CodexCalls, Codex!ToolRequest(c) \/ Codex!ToolEnds(c) \/ Codex!RespondTool(c)
      PROVE  FlagInv'
    BY <1>5 DEF Codex!ToolRequest, Codex!ToolEnds, Codex!RespondTool, FlagInv
<1>6. ASSUME NEW c \in CodexCalls, Codex!ReadFlag(c)
      PROVE  FlagInv'
    BY <1>6 DEF Codex!ReadFlag, FlagInv
<1>7. ASSUME NEW c \in CodexCalls, Codex!RejectTool(c)
      PROVE  FlagInv'
    BY <1>7 DEF Codex!RejectTool, Codex!Abort, FlagInv
<1>8. ASSUME NEW c \in CodexCalls, Codex!AdmitTool(c)
      PROVE  FlagInv'
    BY <1>8 DEF Codex!AdmitTool, Codex!Abort, FlagInv
<1>9. CASE \/ Codex!Start \/ Codex!Continue \/ Codex!TurnTimeout \/ Codex!EndWait \/ Codex!Close
           \/ Codex!RequestTimesOut \/ Codex!ServerAnswers \/ Codex!TurnCompleted
           \/ Codex!ServerDies \/ Codex!MalformedLine
    BY <1>1, <1>9 DEF Codex!Start, Codex!Continue, Codex!TurnTimeout, Codex!EndWait, Codex!Close,
                      Codex!RequestTimesOut, Codex!ServerAnswers, Codex!TurnCompleted,
                      Codex!ServerDies, Codex!MalformedLine, Codex!toolVars
<1>10. CASE UNCHANGED Codex!vars
    BY <1>1, <1>10 DEF Codex!vars, Codex!toolVars
<1> QED BY <1>2, <1>3, <1>4, <1>5, <1>6, <1>7, <1>8, <1>9, <1>10 DEF Codex!Next, Codex!TurnStep

\* A turn is reported as cancelled only when its user asked for it, in whatever
\* order the poll, the tool calls and the end of the turn read the flag (a
\* conjunct of the runs' ToolBudgetsKept).
THEOREM CodexCancelsOnRequest == Codex!Spec => []Codex!CancelledOnRequest
<1>1. Codex!Init => FlagInv
    BY DEF Codex!Init, FlagInv
<1>2. FlagInv /\ [Codex!Next]_(Codex!vars) => FlagInv'
    BY FlagStep
<1>3. FlagInv => Codex!CancelledOnRequest
    BY DEF FlagInv, Codex!CancelledOnRequest
<1> QED BY <1>1, <1>2, <1>3, PTL DEF Codex!Spec

-----------------------------------------------------------------------------
(* The turn over a Codex App Server: its types. *)

\* Only the await of a request has a request, so that what follows it is known.
WaitTypes ==
    /\ phase \in Codex!Requests \cup {"start", "wait", "closing", "closed", "done"}
    /\ request \in {"none", "pending", "ok", "error"}
    /\ completion \in Codex!Results \cup {"none"}
    /\ race \in Codex!Results \cup {"none", "timeout"}
    /\ request # "none" => phase \in Codex!Requests

SwitchTypes ==
    /\ scheduled \in BOOLEAN /\ closed \in BOOLEAN /\ initialized \in BOOLEAN
    /\ turnBegun \in BOOLEAN /\ cancelFlag \in BOOLEAN /\ limitReached \in BOOLEAN /\ selected \in BOOLEAN

StateTypes ==
    /\ server \in {"unborn", "running", "dropped", "killed", "gone"}
    /\ aborted \in {"no", "caller", "limit"}
    /\ status \in {"none", "completed", "failed", "cancelled"}
    /\ gateway \in {"up", "died"}

LEMMA AskTyped ==
    ASSUME WaitTypes, NEW m \in Codex!Requests, Codex!Ask(m)
    PROVE  /\ phase' \in {"closing", m} /\ race' \in Codex!Results \cup {"none", "timeout"}
           /\ request' \in {"none", "pending"} /\ (request' = "pending" => phase' = m)
<1>1. CASE phase' = m /\ request' = "pending" /\ UNCHANGED race
    BY <1>1 DEF WaitTypes
<1>2. CASE Codex!Return(race)
    BY <1>2 DEF Codex!Return, WaitTypes
<1>3. CASE Codex!Return("failed")
    BY <1>3 DEF Codex!Return, WaitTypes, Codex!Results
<1> QED BY <1>1, <1>2, <1>3 DEF Codex!Ask

LEMMA AwaitStep ==
    ASSUME WaitTypes, [Codex!Next]_(Codex!vars)
    PROVE  WaitTypes'
<1> USE DEF Codex!Requests, Codex!Results
<1>1. CASE UNCHANGED Codex!turnVars
    BY <1>1 DEF Codex!turnVars, WaitTypes
<1>2. CASE Codex!Start
    BY <1>2 DEF Codex!Start, WaitTypes
<1>3. CASE Codex!Continue
    <2>1. UNCHANGED completion /\ request \in {"ok", "error"} /\ phase \in Codex!Requests
        BY <1>3 DEF Codex!Continue, WaitTypes
    <2>2. CASE phase = "interrupt" \/ request = "error"
        <3>1. Codex!Return(race) \/ Codex!Return("failed")
            BY <1>3, <2>2 DEF Codex!Continue
        <3> QED BY <2>1, <3>1 DEF Codex!Return, WaitTypes
    <2>3. CASE phase = "turn" /\ request # "error"
        <3>1. phase' = "wait" /\ request' = "none" /\ race' = completion
            BY <1>3, <2>3 DEF Codex!Continue
        <3> QED BY <2>1, <3>1 DEF WaitTypes
    <2>4. CASE phase \in {"init", "thread", "history"} /\ request # "error"
        <3>1. \E next \in Codex!Following(phase) : Codex!Ask(next)
            BY <1>3, <2>4 DEF Codex!Continue
        <3>2. Codex!Following(phase) \subseteq {"thread", "history", "turn"}
            BY <2>4 DEF Codex!Following
        <3>3. PICK next \in {"thread", "history", "turn"} : Codex!Ask(next)
            BY <3>1, <3>2
        <3>4. /\ phase' \in {"closing", next} /\ race' \in Codex!Results \cup {"none", "timeout"}
              /\ request' \in {"none", "pending"} /\ (request' = "pending" => phase' = next)
            BY <3>3, AskTyped
        <3> QED BY <2>1, <3>4 DEF WaitTypes
    <2> QED BY <2>1, <2>2, <2>3, <2>4
<1>4. CASE Codex!TurnTimeout
    BY <1>4 DEF Codex!TurnTimeout, Codex!TurnTimesOut, WaitTypes
<1>5. CASE Codex!EndWait
    <2>1. UNCHANGED completion /\ (Codex!Ask("interrupt") \/ Codex!Return(race))
        BY <1>5 DEF Codex!EndWait
    <2>2. CASE Codex!Ask("interrupt")
        <3>1. /\ phase' \in {"closing", "interrupt"} /\ race' \in Codex!Results \cup {"none", "timeout"}
              /\ request' \in {"none", "pending"} /\ (request' = "pending" => phase' = "interrupt")
            BY <2>2, AskTyped
        <3> QED BY <2>1, <3>1 DEF WaitTypes
    <2>3. CASE Codex!Return(race)
        BY <2>1, <2>3 DEF Codex!Return, WaitTypes
    <2> QED BY <2>1, <2>2, <2>3
<1>6. CASE Codex!Close
    BY <1>6 DEF Codex!Close, WaitTypes
<1>7. CASE Codex!Conclude
    BY <1>7 DEF Codex!Conclude, WaitTypes
<1>8. CASE Codex!RequestTimesOut \/ Codex!ServerAnswers
    BY <1>8 DEF Codex!RequestTimesOut, Codex!ServerAnswers, WaitTypes
<1>9. ASSUME NEW r \in Codex!Results, Codex!Complete(r)
      PROVE  completion' \in Codex!Results \cup {"none"} /\ race' \in Codex!Results \cup {"none", "timeout"}
    BY <1>9 DEF Codex!Complete, WaitTypes
<1>10. CASE Codex!TurnCompleted
    <2>1. UNCHANGED <<phase, request>> /\ \E r \in Codex!Results : Codex!Complete(r)
        BY <1>10 DEF Codex!TurnCompleted
    <2> QED BY <1>9, <2>1 DEF WaitTypes
<1>11. ASSUME Codex!Crash, UNCHANGED phase PROVE WaitTypes'
    <2>1. /\ request' = IF request = "pending" THEN "error" ELSE request
          /\ Codex!Complete("failed")
        BY <1>11 DEF Codex!Crash
    <2> QED BY <1>9, <1>11, <2>1 DEF WaitTypes
<1>12. CASE Codex!ServerDies \/ Codex!MalformedLine
    <2>1. UNCHANGED phase /\ (Codex!Crash \/ UNCHANGED Codex!turnVars)
        BY <1>12 DEF Codex!ServerDies, Codex!MalformedLine
    <2> QED BY <1>1, <1>11, <2>1
<1>13. ASSUME NEW r, Codex!Abort(r), UNCHANGED <<phase, completion>>
       PROVE  WaitTypes'
    BY <1>13 DEF Codex!Abort, WaitTypes
<1>14. CASE Codex!PollCancel
    BY <1>13, <1>14 DEF Codex!PollCancel
<1>15. ASSUME NEW c \in CodexCalls,
              \/ Codex!ToolRequest(c) \/ Codex!ReadFlag(c) \/ Codex!ToolEnds(c) \/ Codex!RespondTool(c)
       PROVE  WaitTypes'
    <2>1. UNCHANGED Codex!turnVars
        BY <1>15 DEF Codex!ToolRequest, Codex!ReadFlag, Codex!ToolEnds, Codex!RespondTool
    <2> QED BY <1>1, <2>1
<1>16. ASSUME NEW c \in CodexCalls, Codex!RejectTool(c)
       PROVE  WaitTypes'
    BY <1>13, <1>16 DEF Codex!RejectTool
<1>17. ASSUME NEW c \in CodexCalls, Codex!AdmitTool(c)
       PROVE  WaitTypes'
    <2>1. UNCHANGED <<phase, completion>> /\ (Codex!Abort("limit") \/ UNCHANGED <<request, race>>)
        BY <1>17 DEF Codex!AdmitTool
    <2>2. CASE UNCHANGED <<request, race>>
        BY <2>1, <2>2 DEF WaitTypes
    <2> QED BY <1>13, <2>1, <2>2
<1>18. CASE Codex!CancelRun
    BY <1>1, <1>18 DEF Codex!CancelRun
<1>19. CASE UNCHANGED Codex!vars
    BY <1>1, <1>19 DEF Codex!vars
<1> QED BY <1>2, <1>3, <1>4, <1>5, <1>6, <1>7, <1>8, <1>10, <1>12, <1>14, <1>15, <1>16, <1>17, <1>18, <1>19
        DEF Codex!Next, Codex!TurnStep

LEMMA SwitchStep ==
    ASSUME SwitchTypes, [Codex!Next]_(Codex!vars)
    PROVE  SwitchTypes'
<1>1. scheduled' \in BOOLEAN
    <2>1. UNCHANGED scheduled
        BY Zenon DEF Codex!vars, Codex!Next, Codex!TurnStep, Codex!Start, Codex!Continue, Codex!TurnTimeout,
                     Codex!EndWait, Codex!Close, Codex!Conclude, Codex!RequestTimesOut, Codex!ServerAnswers,
                     Codex!TurnCompleted, Codex!ServerDies, Codex!MalformedLine, Codex!CancelRun,
                     Codex!PollCancel, Codex!ToolRequest, Codex!ReadFlag, Codex!RejectTool,
                     Codex!AdmitTool, Codex!ToolEnds, Codex!RespondTool
    <2> QED BY <2>1 DEF SwitchTypes
<1>2. closed' \in BOOLEAN
    <2>1. closed' = closed \/ closed' = TRUE
        BY Zenon DEF Codex!vars, Codex!serverVars, Codex!Next, Codex!TurnStep, Codex!Start, Codex!Continue,
                     Codex!TurnTimeout, Codex!EndWait, Codex!Close, Codex!Conclude, Codex!RequestTimesOut,
                     Codex!ServerAnswers, Codex!TurnCompleted, Codex!ServerDies, Codex!MalformedLine,
                     Codex!CancelRun, Codex!PollCancel, Codex!ToolRequest, Codex!ReadFlag,
                     Codex!RejectTool, Codex!AdmitTool, Codex!ToolEnds, Codex!RespondTool
    <2> QED BY Zenon, <2>1 DEF SwitchTypes
<1>3. initialized' \in BOOLEAN
    <2>1. \/ initialized' = initialized \/ initialized' = FALSE
          \/ initialized' = (initialized \/ (phase = "init" /\ request = "ok" /\ Codex!Connected))
        BY Zenon DEF Codex!vars, Codex!serverVars, Codex!Next, Codex!TurnStep, Codex!Start, Codex!Continue,
                     Codex!TurnTimeout, Codex!EndWait, Codex!Close, Codex!Conclude, Codex!RequestTimesOut,
                     Codex!ServerAnswers, Codex!TurnCompleted, Codex!ServerDies, Codex!MalformedLine,
                     Codex!Crash, Codex!CancelRun, Codex!PollCancel, Codex!ToolRequest, Codex!ReadFlag,
                     Codex!RejectTool, Codex!AdmitTool, Codex!ToolEnds, Codex!RespondTool
    <2> QED BY Zenon, <2>1 DEF SwitchTypes
<1>4. turnBegun' \in BOOLEAN
    <2>1. turnBegun' = turnBegun \/ turnBegun' = (turnBegun \/ phase' = "turn")
        BY Zenon DEF Codex!vars, Codex!turnVars, Codex!Next, Codex!TurnStep, Codex!Start, Codex!Continue,
                     Codex!TurnTimeout, Codex!EndWait, Codex!Close, Codex!Conclude, Codex!RequestTimesOut,
                     Codex!ServerAnswers, Codex!TurnCompleted, Codex!ServerDies, Codex!MalformedLine,
                     Codex!CancelRun, Codex!PollCancel, Codex!ToolRequest, Codex!ReadFlag,
                     Codex!RejectTool, Codex!AdmitTool, Codex!ToolEnds, Codex!RespondTool
    <2> QED BY Zenon, <2>1 DEF SwitchTypes
<1>5. cancelFlag' \in BOOLEAN
    <2>1. cancelFlag' = cancelFlag \/ cancelFlag' = TRUE
        BY Zenon DEF Codex!vars, Codex!Next, Codex!TurnStep, Codex!Start, Codex!Continue, Codex!TurnTimeout,
                     Codex!EndWait, Codex!Close, Codex!Conclude, Codex!RequestTimesOut, Codex!ServerAnswers,
                     Codex!TurnCompleted, Codex!ServerDies, Codex!MalformedLine, Codex!CancelRun,
                     Codex!PollCancel, Codex!ToolRequest, Codex!ReadFlag, Codex!RejectTool,
                     Codex!AdmitTool, Codex!ToolEnds, Codex!RespondTool
    <2> QED BY Zenon, <2>1 DEF SwitchTypes
<1>6. limitReached' \in BOOLEAN
    <2>1. limitReached' = limitReached \/ limitReached' = TRUE
        BY Zenon DEF Codex!vars, Codex!toolVars, Codex!Next, Codex!TurnStep, Codex!Start, Codex!Continue,
                     Codex!TurnTimeout, Codex!EndWait, Codex!Close, Codex!Conclude, Codex!RequestTimesOut,
                     Codex!ServerAnswers, Codex!TurnCompleted, Codex!ServerDies, Codex!MalformedLine,
                     Codex!CancelRun, Codex!PollCancel, Codex!ToolRequest, Codex!ReadFlag,
                     Codex!RejectTool, Codex!AdmitTool, Codex!ToolEnds, Codex!RespondTool
    <2> QED BY Zenon, <2>1 DEF SwitchTypes
<1>7. selected' \in BOOLEAN
    <2>1. \/ selected' = selected \/ selected' \in {selected, scheduled}
          \/ selected' = (selected \/ (race = "timeout" /\ scheduled /\ ~cancelFlag))
        BY Zenon DEF Codex!vars, Codex!Next, Codex!TurnStep, Codex!Start, Codex!Continue, Codex!TurnTimeout,
                     Codex!EndWait, Codex!Close, Codex!Conclude, Codex!RequestTimesOut, Codex!ServerAnswers,
                     Codex!TurnCompleted, Codex!ServerDies, Codex!MalformedLine, Codex!CancelRun,
                     Codex!PollCancel, Codex!ToolRequest, Codex!ReadFlag, Codex!RejectTool,
                     Codex!AdmitTool, Codex!ToolEnds, Codex!RespondTool
    <2>2. selected' = selected \/ selected' = scheduled \/ selected' = TRUE \/ selected' = FALSE
        BY Zenon, <2>1 DEF SwitchTypes
    <2> QED BY Zenon, <2>2 DEF SwitchTypes
<1> QED BY <1>1, <1>2, <1>3, <1>4, <1>5, <1>6, <1>7 DEF SwitchTypes

LEMMA StateStep ==
    ASSUME StateTypes, [Codex!Next]_(Codex!vars)
    PROVE  StateTypes'
<1>1. CASE UNCHANGED <<server, aborted, status, gateway>>
    BY <1>1 DEF StateTypes
<1>2. CASE Codex!Start
    BY <1>2 DEF Codex!Start, StateTypes
<1>3. CASE Codex!Close
    BY <1>3 DEF Codex!Close, StateTypes
<1>4. CASE Codex!Conclude
    BY <1>4 DEF Codex!Conclude, Codex!serverVars, StateTypes
<1>5. CASE Codex!ServerDies \/ Codex!MalformedLine
    BY <1>5 DEF Codex!ServerDies, Codex!MalformedLine, StateTypes
<1>6. CASE Codex!PollCancel
    BY <1>6 DEF Codex!PollCancel, Codex!Abort, Codex!serverVars, StateTypes
<1>7. ASSUME NEW c \in CodexCalls, Codex!RejectTool(c)
      PROVE  StateTypes'
    BY <1>7 DEF Codex!RejectTool, Codex!Abort, Codex!serverVars, StateTypes
<1>8. ASSUME NEW c \in CodexCalls, Codex!AdmitTool(c)
      PROVE  StateTypes'
    BY <1>8 DEF Codex!AdmitTool, Codex!Abort, Codex!serverVars, StateTypes
<1>9. ASSUME NEW c \in CodexCalls, Codex!RespondTool(c)
      PROVE  StateTypes'
    BY <1>9 DEF Codex!RespondTool, Codex!serverVars, StateTypes
<1>10. ASSUME NEW c \in CodexCalls, Codex!ToolRequest(c) \/ Codex!ReadFlag(c) \/ Codex!ToolEnds(c)
       PROVE  StateTypes'
    BY <1>1, <1>10 DEF Codex!ToolRequest, Codex!ReadFlag, Codex!ToolEnds, Codex!serverVars
<1>11. CASE \/ Codex!Continue \/ Codex!TurnTimeout \/ Codex!EndWait \/ Codex!RequestTimesOut
            \/ Codex!ServerAnswers \/ Codex!TurnCompleted \/ Codex!CancelRun \/ UNCHANGED Codex!vars
    <2>1. UNCHANGED <<server, aborted, status, gateway>>
        BY <1>11 DEF Codex!Continue, Codex!TurnTimeout, Codex!EndWait, Codex!RequestTimesOut,
                     Codex!ServerAnswers, Codex!TurnCompleted, Codex!CancelRun, Codex!vars, Codex!serverVars
    <2> QED BY <1>1, <2>1
<1> QED BY <1>2, <1>3, <1>4, <1>5, <1>6, <1>7, <1>8, <1>9, <1>10, <1>11 DEF Codex!Next, Codex!TurnStep

\* Every variable of a turn over a Codex App Server keeps its type
\* (provider/codex/appServerTurn.ts): in particular only the awaits of requests have
\* one, whatever the server answers, drops or leaves undone.
THEOREM CodexTypeCorrect ==
    ASSUME Codex!CodexConstants
    PROVE  Codex!Spec => []Codex!TypeOK
<1> DEFINE Typed == CountInv /\ WaitTypes /\ SwitchTypes /\ StateTypes
<1>1. Codex!Init => Typed
    <2> SUFFICES ASSUME Codex!Init PROVE Typed
        OBVIOUS
    <2>1. CountInv
        BY FS_EmptySet DEF Codex!Init, Codex!CodexConstants, CountInv
    <2>2. WaitTypes
        BY DEF Codex!Init, WaitTypes, Codex!Requests, Codex!Results
    <2>3. SwitchTypes
        BY DEF Codex!Init, SwitchTypes
    <2>4. StateTypes
        BY DEF Codex!Init, StateTypes
    <2> QED BY <2>1, <2>2, <2>3, <2>4
<1>2. Typed /\ [Codex!Next]_(Codex!vars) => Typed'
    BY CountStep, AwaitStep, SwitchStep, StateStep
<1>3. Typed => Codex!TypeOK
    BY DEF CountInv, WaitTypes, SwitchTypes, StateTypes, Codex!TypeOK
<1> HIDE DEF Typed
<1> QED BY <1>1, <1>2, <1>3, PTL DEF Codex!Spec

-----------------------------------------------------------------------------
(* A Telegram chat: the order of the replies. *)

HandlerRecord ==
    [msg : Nat, session : Nat, label : BOOLEAN, error : BOOLEAN, parts : Nat,
     pc : {"bind", "setLabel", "confirm", "tell", "readLabel", "submit", "poll", "ready", "deliver", "done"}]

ChatType ==
    /\ handlers \in Seq(HandlerRecord) /\ reserved \subseteq DOMAIN handlers
    /\ sent \in Nat /\ bound \in Nat /\ sessions \in Nat /\ label \in BOOLEAN
    /\ lastSent \in Nat

\* What sends is the first of those that hold a reservation, and none of them is
\* before what was sent last.
SendersAreFirst ==
    /\ \A h \in DOMAIN handlers : handlers[h].pc = "deliver" => Telegram!MayDeliver(h)
    /\ \A h \in reserved : lastSent <= h
    /\ lastSent <= Len(handlers)

ReplyInv == ChatType /\ SendersAreFirst

\* A handler goes on, and what it holds stays.
LEMMA HandlerGoesOn ==
    ASSUME ReplyInv, NEW h \in DOMAIN handlers, NEW r \in HandlerRecord,
           handlers' = [handlers EXCEPT ![h] = r],
           r.pc = "deliver" => Telegram!MayDeliver(h), UNCHANGED <<reserved, lastSent, sent>>,
           bound' \in Nat, sessions' \in Nat, label' \in BOOLEAN
    PROVE  ReplyInv'
<1>1. /\ handlers' \in Seq(HandlerRecord) /\ DOMAIN handlers' = DOMAIN handlers
      /\ Len(handlers') = Len(handlers) /\ handlers'[h] = r
      /\ \A g \in DOMAIN handlers \ {h} : handlers'[g] = handlers[g]
    BY DEF ReplyInv, ChatType
<1>2. ChatType'
    BY <1>1 DEF ReplyInv, ChatType
<1>3. SendersAreFirst'
    BY <1>1 DEF ReplyInv, SendersAreFirst, Telegram!MayDeliver
<1> QED BY <1>2, <1>3 DEF ReplyInv

LEMMA UpdatesQueue ==
    ASSUME ReplyInv, NEW m \in Nat, Telegram!Update(m), sent' \in Nat
    PROVE  ReplyInv'
<1>1. CASE m \in Telegram!ToSet(seen)
    BY <1>1 DEF Telegram!Update, Telegram!durable, ReplyInv, ChatType, SendersAreFirst, Telegram!MayDeliver
<1>2. CASE m \notin Telegram!ToSet(seen)
    <2> DEFINE n == Len(handlers) + 1
               r == Telegram!Handler(m, Telegram!Starts(m))
    <2>1. r \in HandlerRecord /\ r.pc # "deliver"
        BY DEF Telegram!Handler, Telegram!Starts, HandlerRecord
    <2>2. /\ handlers' = Append(handlers, r) /\ UNCHANGED <<bound, label, sessions, lastSent>>
          /\ reserved' = reserved \/ reserved' = reserved \cup {n}
        BY <1>2 DEF Telegram!Update, Telegram!Handle, Telegram!durable
    <2> HIDE DEF r
    <2>3. /\ handlers' \in Seq(HandlerRecord) /\ Len(handlers') = n /\ n \in Nat
          /\ DOMAIN handlers = 1..(n - 1) /\ DOMAIN handlers' = 1..n
          /\ handlers'[n] = r /\ \A g \in 1..(n - 1) : handlers'[g] = handlers[g]
        BY <2>1, <2>2 DEF ReplyInv, ChatType
    <2>4. ChatType'
        BY <2>2, <2>3 DEF ReplyInv, ChatType
    <2>5. ASSUME NEW h \in DOMAIN handlers', handlers'[h].pc = "deliver"
          PROVE  Telegram!MayDeliver(h)'
        <3>1. h \in 1..(n - 1) /\ Telegram!MayDeliver(h)
            BY <2>1, <2>3, <2>5 DEF ReplyInv, SendersAreFirst
        <3> QED BY <2>2, <2>3, <3>1 DEF Telegram!MayDeliver
    <2>6. lastSent <= Len(handlers) /\ lastSent \in Nat /\ Len(handlers) \in Nat
        BY DEF ReplyInv, SendersAreFirst, ChatType
    <2>7. \A h \in reserved' : lastSent <= h
        BY <2>2, <2>6 DEF ReplyInv, SendersAreFirst
    <2> QED BY <2>2, <2>3, <2>4, <2>5, <2>6, <2>7 DEF ReplyInv, SendersAreFirst
<1> QED BY <1>1, <1>2

\* Until its reply is ready.
LEMMA HandlersWork ==
    ASSUME ReplyInv, NEW h \in DOMAIN handlers,
           \/ Telegram!Bind(h) \/ Telegram!SetLabel(h) \/ Telegram!NewSession(h) \/ Telegram!Tell(h)
           \/ Telegram!ReadLabel(h) \/ Telegram!SubmitCommand(h) \/ Telegram!Submit(h)
           \/ Telegram!Poll(h) \/ Telegram!HandlerFails(h)
    PROVE  ReplyInv'
<1> DEFINE w == handlers[h]
<1>1. w \in HandlerRecord /\ bound \in Nat /\ sessions \in Nat /\ label \in BOOLEAN
    BY DEF ReplyInv, ChatType
<1>2. UNCHANGED <<reserved, lastSent, sent>>
    BY DEF Telegram!Bind, Telegram!SetLabel, Telegram!NewSession, Telegram!Tell, Telegram!ReadLabel,
           Telegram!SubmitCommand, Telegram!Submit, Telegram!Poll, Telegram!HandlerFails,
           Telegram!idle, Telegram!ingress
<1>7. label' \in BOOLEAN
    <2>1. label' = label \/ label' = (bound # 0)
        BY DEF Telegram!Bind, Telegram!SetLabel, Telegram!NewSession, Telegram!Tell, Telegram!ReadLabel,
               Telegram!SubmitCommand, Telegram!Submit, Telegram!Poll, Telegram!HandlerFails,
               Telegram!durable
    <2> QED BY <1>1, <2>1, Zenon
<1>3. bound' \in Nat /\ sessions' \in Nat
    <2>1. bound + 1 \in Nat /\ sessions + 1 \in Nat
        BY <1>1
    <2>2. CASE Telegram!Bind(h)
        BY <1>1, <2>1, <2>2 DEF Telegram!Bind
    <2>3. CASE Telegram!NewSession(h)
        BY <1>1, <2>1, <2>3 DEF Telegram!NewSession
    <2>4. CASE ~Telegram!Bind(h) /\ ~Telegram!NewSession(h)
        <3>1. UNCHANGED <<bound, sessions>>
            BY <2>4 DEF Telegram!SetLabel, Telegram!Tell, Telegram!ReadLabel, Telegram!SubmitCommand,
                        Telegram!Submit, Telegram!Poll, Telegram!HandlerFails, Telegram!durable
        <3> QED BY <1>1, <3>1
    <2> QED BY <2>2, <2>3, <2>4
<1>4. /\ \A m \in Nat : Telegram!Handler(m, "done") \in HandlerRecord /\ Telegram!Handler(m, "done").pc = "done"
      /\ \A at \in {"tell", "ready", "poll"} : LET r == [w EXCEPT !.pc = at] IN
            r \in HandlerRecord /\ r.pc = at
    BY <1>1 DEF HandlerRecord, Telegram!Handler
<1>5. \E r \in HandlerRecord : r.pc # "deliver" /\ handlers' = [handlers EXCEPT ![h] = r]
    <2>1. CASE Telegram!Bind(h)
        <3> DEFINE r == [w EXCEPT !.pc = IF Telegram!Kind(h) = "label" THEN "setLabel" ELSE "readLabel",
                                  !.session = bound']
        <3>1. r \in HandlerRecord /\ r.pc # "deliver"
            BY <1>1, <1>3 DEF HandlerRecord
        <3>2. handlers' = [handlers EXCEPT ![h] = r]
            BY <2>1 DEF Telegram!Bind, Telegram!To
        <3> QED BY <3>1, <3>2
    <2>2. CASE Telegram!SetLabel(h) \/ Telegram!NewSession(h) \/ Telegram!SubmitCommand(h)
        <3>1. \E at \in {"tell", "ready"} : handlers' = [handlers EXCEPT ![h] = [w EXCEPT !.pc = at]]
            BY <2>2 DEF Telegram!SetLabel, Telegram!NewSession, Telegram!SubmitCommand, Telegram!Go,
                        Telegram!To
        <3> QED BY <1>4, <3>1
    <2>3. CASE Telegram!Return(h)
        BY <1>1, <1>4, <2>3 DEF Telegram!Return, Telegram!To, HandlerRecord
    <2>4. CASE Telegram!ReadLabel(h)
        <3> DEFINE r == [w EXCEPT !.pc = "submit", !.label = label /\ Telegram!Kind(h) # "command"]
        <3>1. r \in HandlerRecord /\ r.pc # "deliver"
            BY <1>1 DEF HandlerRecord
        <3>2. handlers' = [handlers EXCEPT ![h] = r]
            BY <2>4 DEF Telegram!ReadLabel, Telegram!To
        <3> QED BY <3>1, <3>2
    <2>5. ASSUME NEW e \in BOOLEAN, Telegram!To(h, [w EXCEPT !.pc = "ready", !.error = e])
          PROVE  \E r \in HandlerRecord : r.pc # "deliver" /\ handlers' = [handlers EXCEPT ![h] = r]
        <3> DEFINE r == [w EXCEPT !.pc = "ready", !.error = e]
        <3>1. r \in HandlerRecord /\ r.pc # "deliver"
            BY <1>1 DEF HandlerRecord
        <3>2. handlers' = [handlers EXCEPT ![h] = r]
            BY <2>5 DEF Telegram!To
        <3> QED BY <3>1, <3>2
    <2>6. CASE Telegram!Submit(h)
        <3>1. CASE Telegram!Go(h, "poll")
            <4>1. handlers' = [handlers EXCEPT ![h] = [w EXCEPT !.pc = "poll"]]
                BY <3>1 DEF Telegram!Go, Telegram!To
            <4> QED BY <1>4, <4>1
        <3> QED BY <2>5, <2>6, <3>1 DEF Telegram!Submit
    <2>7. CASE Telegram!Poll(h)
        BY <2>5, <2>7 DEF Telegram!Poll
    <2>8. CASE Telegram!HandlerFails(h)
        BY <2>3, <2>5, <2>8 DEF Telegram!HandlerFails
    <2> QED BY <2>1, <2>2, <2>3, <2>4, <2>6, <2>7, <2>8 DEF Telegram!Tell
<1> HIDE DEF w
<1>6. PICK r \in HandlerRecord : r.pc # "deliver" /\ handlers' = [handlers EXCEPT ![h] = r]
    BY <1>5
<1> QED BY <1>2, <1>3, <1>6, <1>7, HandlerGoesOn

\* The reply itself.
LEMMA HandlersSend ==
    ASSUME ReplyInv, NEW h \in DOMAIN handlers,
           Telegram!StartDelivery(h) \/ Telegram!SendPart(h) \/ Telegram!SendFails(h)
    PROVE  ReplyInv' /\ (lastSent' = lastSent \/ (lastSent' = h /\ lastSent <= h))
<1> DEFINE w == handlers[h]
           d == Telegram!Handler(w.msg, "done")
<1>1. /\ w \in HandlerRecord /\ d \in HandlerRecord /\ d.pc = "done"
      /\ bound \in Nat /\ sessions \in Nat /\ label \in BOOLEAN
      /\ handlers \in Seq(HandlerRecord) /\ lastSent \in Nat /\ h \in Nat /\ h <= Len(handlers)
    <2>1. /\ w \in HandlerRecord /\ bound \in Nat /\ sessions \in Nat /\ label \in BOOLEAN
          /\ handlers \in Seq(HandlerRecord) /\ lastSent \in Nat /\ h \in Nat /\ h <= Len(handlers)
        BY DEF ReplyInv, ChatType
    <2>2. d \in HandlerRecord /\ d.pc = "done"
        BY <2>1 DEF Telegram!Handler, HandlerRecord
    <2> QED BY <2>1, <2>2
<1>2. CASE Telegram!StartDelivery(h)
    <2> DEFINE r == [w EXCEPT !.pc = "deliver"]
    <2>1. r \in HandlerRecord
        BY <1>1 DEF HandlerRecord
    <2>2. /\ handlers' = [handlers EXCEPT ![h] = r] /\ Telegram!MayDeliver(h)
          /\ UNCHANGED <<reserved, lastSent, sent, bound, sessions, label>>
        BY <1>2 DEF Telegram!StartDelivery, Telegram!Go, Telegram!To, Telegram!idle, Telegram!ingress,
                    Telegram!durable
    <2>3. bound' \in Nat /\ sessions' \in Nat /\ label' \in BOOLEAN
        BY <1>1, <2>2, Zenon
    <2> HIDE DEF r, w, d
    <2>4. ReplyInv'
        BY <2>1, <2>2, <2>3, HandlerGoesOn
    <2> QED BY <2>2, <2>4
<1>3. CASE w.pc = "deliver"
    <2>1. h \in reserved /\ (\A x \in reserved : h <= x) /\ lastSent <= h /\ reserved \subseteq Nat
        BY <1>1, <1>3 DEF ReplyInv, ChatType, SendersAreFirst, Telegram!MayDeliver
    <2>2. /\ lastSent' = lastSent \/ lastSent' = h
          /\ UNCHANGED <<sent, bound, sessions, label>>
          /\ \/ \E r \in HandlerRecord : handlers' = [handlers EXCEPT ![h] = r] /\ reserved' = reserved
             \/ handlers' = [handlers EXCEPT ![h] = d] /\ reserved' = reserved \ {h}
        <3>1. \A e \in BOOLEAN : [w EXCEPT !.error = e] \in HandlerRecord
            BY <1>1 DEF HandlerRecord
        <3>2. [w EXCEPT !.parts = @ + 1] \in HandlerRecord
            <4>1. w.parts + 1 \in Nat
                BY <1>1 DEF HandlerRecord
            <4> QED BY <1>1, <4>1 DEF HandlerRecord
        <3>3. CASE Telegram!SendPart(h)
            BY <3>2, <3>3 DEF Telegram!SendPart, Telegram!To, Telegram!Return, Telegram!Release,
                              Telegram!ingress, Telegram!durable
        <3>4. CASE Telegram!SendFails(h)
            BY <3>1, <3>4 DEF Telegram!SendFails, Telegram!To, Telegram!Return, Telegram!Release,
                              Telegram!ingress, Telegram!durable
        <3>5. ~Telegram!StartDelivery(h)
            BY <1>3 DEF Telegram!StartDelivery, Telegram!At
        <3> QED BY <3>3, <3>4, <3>5
    <2>3. \A g \in DOMAIN handlers \ {h} : handlers[g].pc # "deliver"
        <3>1. SUFFICES ASSUME NEW g \in DOMAIN handlers \ {h}, handlers[g].pc = "deliver" PROVE FALSE
            OBVIOUS
        <3>2. g \in reserved /\ g <= h
            BY <2>1, <3>1 DEF ReplyInv, SendersAreFirst, Telegram!MayDeliver
        <3>3. h <= g /\ g \in Nat
            BY <2>1, <3>2
        <3> QED BY <1>1, <3>1, <3>2, <3>3
    <2> HIDE DEF w, d
    <2>4. ASSUME NEW r \in HandlerRecord, handlers' = [handlers EXCEPT ![h] = r],
                 \/ reserved' = reserved
                 \/ r.pc = "done" /\ reserved' = reserved \ {h}
          PROVE  ReplyInv'
        <3>1. /\ handlers' \in Seq(HandlerRecord) /\ DOMAIN handlers' = DOMAIN handlers
              /\ Len(handlers') = Len(handlers) /\ handlers'[h] = r
              /\ \A g \in DOMAIN handlers \ {h} : handlers'[g] = handlers[g]
            BY <1>1, <2>4
        <3>2. lastSent' \in Nat /\ lastSent' <= h
            BY <1>1, <2>1, <2>2
        <3>3. ChatType'
            BY <1>1, <2>2, <2>4, <3>1, <3>2 DEF ReplyInv, ChatType
        <3>4. \A g \in DOMAIN handlers' : handlers'[g].pc = "deliver" => Telegram!MayDeliver(g)'
            BY <2>1, <2>3, <2>4, <3>1 DEF Telegram!MayDeliver
        <3>5. \A g \in reserved' : lastSent' <= g
            BY <1>1, <2>1, <2>4, <3>2
        <3>6. lastSent' <= Len(handlers')
            BY <1>1, <3>1, <3>2
        <3> QED BY <3>3, <3>4, <3>5, <3>6 DEF ReplyInv, SendersAreFirst
    <2> QED BY <1>1, <2>1, <2>2, <2>4
<1>4. Telegram!SendPart(h) \/ Telegram!SendFails(h) => w.pc = "deliver"
    BY DEF Telegram!SendPart, Telegram!SendFails, Telegram!At
<1> QED BY <1>2, <1>3, <1>4

LEMMA ChatStep ==
    ASSUME ReplyInv, [Telegram!Next]_(Telegram!vars)
    PROVE  ReplyInv' /\ (lastSent' # 0 => lastSent' >= lastSent)
<1>0. lastSent \in Nat /\ handlers \in Seq(HandlerRecord) /\ reserved \subseteq Nat
    BY DEF ReplyInv, ChatType
<1>1. CASE UNCHANGED Telegram!vars
    BY <1>0, <1>1 DEF Telegram!vars, Telegram!ingress, Telegram!durable, ReplyInv, ChatType,
                      SendersAreFirst, Telegram!MayDeliver
<1>2. CASE Telegram!NewUpdate
    <2>1. sent + 1 \in Nat /\ sent' = sent + 1 /\ Telegram!Update(sent + 1)
        BY <1>2 DEF Telegram!NewUpdate, ReplyInv, ChatType
    <2> QED BY <1>0, <2>1, UpdatesQueue DEF Telegram!Update
<1>3. CASE Telegram!RepeatUpdate
    <2>1. PICK m \in 1..sent : Telegram!Update(m) /\ UNCHANGED sent
        BY <1>3 DEF Telegram!RepeatUpdate
    <2>2. m \in Nat /\ sent \in Nat
        BY DEF ReplyInv, ChatType
    <2> QED BY <1>0, <2>1, <2>2, UpdatesQueue DEF Telegram!Update
<1>4. CASE Telegram!ForgetUpdate
    BY <1>0, <1>4 DEF Telegram!ForgetUpdate, Telegram!durable, ReplyInv, ChatType, SendersAreFirst,
                      Telegram!MayDeliver
<1>5. CASE Telegram!Crash
    <2>1. /\ handlers' = <<>> /\ reserved' = {} /\ lastSent' = 0
          /\ UNCHANGED <<sent, bound, label, sessions>>
        BY <1>5 DEF Telegram!Crash
    <2> QED BY <2>1 DEF ReplyInv, ChatType, SendersAreFirst
<1>6. ASSUME NEW h \in DOMAIN handlers, Telegram!HandlerStep(h) \/ Telegram!HandlerFails(h)
      PROVE  ReplyInv' /\ (lastSent' # 0 => lastSent' >= lastSent)
    <2>1. CASE Telegram!StartDelivery(h) \/ Telegram!SendPart(h) \/ Telegram!SendFails(h)
        <3>1. ReplyInv' /\ (lastSent' = lastSent \/ (lastSent' = h /\ lastSent <= h))
            BY <2>1, HandlersSend
        <3> QED BY <1>0, <3>1
    <2>2. CASE ~(Telegram!StartDelivery(h) \/ Telegram!SendPart(h) \/ Telegram!SendFails(h))
        <3>1. \/ Telegram!Bind(h) \/ Telegram!SetLabel(h) \/ Telegram!NewSession(h) \/ Telegram!Tell(h)
              \/ Telegram!ReadLabel(h) \/ Telegram!SubmitCommand(h) \/ Telegram!Submit(h)
              \/ Telegram!Poll(h) \/ Telegram!HandlerFails(h)
            BY <1>6, <2>2 DEF Telegram!HandlerStep
        <3>2. UNCHANGED lastSent
            BY <3>1 DEF Telegram!Bind, Telegram!SetLabel, Telegram!NewSession, Telegram!Tell,
                        Telegram!ReadLabel, Telegram!SubmitCommand, Telegram!Submit, Telegram!Poll,
                        Telegram!HandlerFails, Telegram!idle
        <3> QED BY <1>0, <3>1, <3>2, HandlersWork
    <2> QED BY <2>1, <2>2
<1>7. CASE Telegram!RunsGoOn
    <2>1. UNCHANGED <<handlers, reserved, lastSent, sent, bound, label, sessions>>
        BY <1>7 DEF Telegram!RunsGoOn, Telegram!RunEnds, Telegram!idle, Telegram!ingress
    <2> QED BY <1>0, <2>1 DEF ReplyInv, ChatType, SendersAreFirst, Telegram!MayDeliver
<1> QED BY <1>1, <1>2, <1>3, <1>4, <1>5, <1>6, <1>7 DEF Telegram!Next, Telegram!HandlersGoOn, Telegram!Handling

LEMMA ChatBegins == Telegram!Init => ReplyInv
<1>1. SUFFICES ASSUME Telegram!Init PROVE ReplyInv
    OBVIOUS
<1>2. handlers = <<>> /\ reserved = {} /\ lastSent = 0 /\ sent = 0 /\ bound = 0 /\ sessions = 0
      /\ label = FALSE
    BY <1>1 DEF Telegram!Init
<1>3. ChatType
    <2>1. label \in BOOLEAN
        BY <1>2, Zenon
    <2>2. <<>> \in Seq(HandlerRecord)
        OBVIOUS
    <2> QED BY <1>2, <2>1, <2>2 DEF ChatType
<1>4. SendersAreFirst
    BY <1>2 DEF SendersAreFirst
<1> QED BY <1>3, <1>4 DEF ReplyInv

\* The replies of a chat keep the order of its messages (telegram/adapter.ts), and
\* no part of one comes between the parts of another, for any messages, repeated
\* updates and crashes, and whichever runs and sends fail or end first.
THEOREM RepliesInOrder == Telegram!Spec => Telegram!RepliesKeepOrder
<1>1. Telegram!Init => ReplyInv
    BY ChatBegins
<1>2. ReplyInv /\ [Telegram!Next]_(Telegram!vars)
        => ReplyInv' /\ [lastSent' # 0 => lastSent' >= lastSent]_(Telegram!vars)
    BY ChatStep
<1> QED BY <1>1, <1>2, PTL DEF Telegram!Spec, Telegram!RepliesKeepOrder

-----------------------------------------------------------------------------
(* Searches: who answers for the processes of the start command. *)

JobPlaces ==
    {"health", "healthy", "unhealthy", "primary", "start", "starting", "retry", "fallback",
     "probe", "probing", "ended"}
CommandStates == {"new", "running", "late", "replaced", "exited", "killed"}

Jobs ==
    [kind : Search!Kinds, at : JobPlaces, left : Nat, from : {"health", "search"}, child : Commands \cup {"none"}]

SearchInv ==
    /\ command \in [Commands -> CommandStates]
    /\ manager \in [healthyAt : Nat, probedAt : Nat, child : Commands \cup {"none"}, stopped : BOOLEAN,
                    begun : Nat]
    /\ search \in [Searches -> Jobs \cup {Search!NoJob}]
    /\ now \in Nat
    /\ Search!StartsAreOwned

\* A job that starts no process leaves the owners as they are.
LEMMA JobGoesOn ==
    ASSUME SearchInv, NEW s \in Searches, search[s].at # "starting",
           NEW r \in Jobs \cup {Search!NoJob}, search' = [search EXCEPT ![s] = r],
           manager' \in [healthyAt : Nat, probedAt : Nat, child : Commands \cup {"none"}, stopped : BOOLEAN,
                         begun : Nat],
           manager'.child = manager.child, UNCHANGED <<command, now>>
    PROVE  SearchInv'
<1>1. search' \in [Searches -> Jobs \cup {Search!NoJob}] /\ \A t \in Searches \ {s} : search'[t] = search[t]
    BY DEF SearchInv
<1>2. Search!StartsAreOwned'
    <2>1. SUFFICES ASSUME NEW c \in Commands, command'[c] = "running", manager'.child # c
                   PROVE  \E t \in Searches : search'[t].at = "starting" /\ search'[t].child = c
        BY DEF Search!StartsAreOwned, Search!At
    <2>2. PICK t \in Searches : search[t].at = "starting" /\ search[t].child = c
        BY <2>1 DEF SearchInv, Search!StartsAreOwned, Search!At
    <2> QED BY <1>1, <2>2
<1> QED BY <1>1, <1>2 DEF SearchInv

\* Where Goes takes a job.
LEMMA JobMoves ==
    ASSUME SearchInv, NEW s \in Searches, search[s] # Search!NoJob, NEW at \in JobPlaces, Search!Goes(s, at)
    PROVE  \E r \in Jobs \cup {Search!NoJob} : search' = [search EXCEPT ![s] = r]
<1> DEFINE r == IF at = "ended" THEN Search!NoJob ELSE [search[s] EXCEPT !.at = at]
<1>1. r \in Jobs \cup {Search!NoJob}
    BY DEF SearchInv, Jobs
<1>2. search' = [search EXCEPT ![s] = r]
    BY DEF SearchInv, Search!Goes
<1> QED BY <1>1, <1>2

LEMMA SearchStep ==
    ASSUME Search!SearchConstants, SearchInv, [Search!Next]_<<command, manager, search, now>>
    PROVE  SearchInv'
<1> DEFINE M == [healthyAt : Nat, probedAt : Nat, child : Commands \cup {"none"}, stopped : BOOLEAN, begun : Nat]
<1>m. manager \in M /\ Retries \in Nat
    BY DEF SearchInv, Search!SearchConstants
<1>h. Search!Healthy(manager) \in M /\ Search!Healthy(manager).child = manager.child
    BY <1>m DEF Search!Healthy, SearchInv
<1>0. CASE UNCHANGED <<command, manager, search, now>>
    BY <1>0 DEF SearchInv, Search!StartsAreOwned, Search!At
<1>1. CASE Search!Tick
    <2>1. now' \in Nat /\ UNCHANGED <<command, manager, search>>
        BY <1>1 DEF SearchInv, Search!Tick
    <2> QED BY <2>1 DEF SearchInv, Search!StartsAreOwned, Search!At
<1>2. CASE Search!StopSearch
    <2>1. command' \in [Commands -> CommandStates] /\ manager' \in M /\ UNCHANGED <<search, now>>
        BY <1>2 DEF SearchInv, Search!StopSearch, CommandStates
    <2>2. Search!StartsAreOwned'
        BY <1>2 DEF SearchInv, Search!StopSearch, Search!StartsAreOwned, Search!At
    <2> QED BY <2>1, <2>2 DEF SearchInv
<1>3. ASSUME NEW c \in Commands, Search!CommandExits(c) PROVE SearchInv'
    <2>1. command' \in [Commands -> CommandStates] /\ UNCHANGED <<manager, search, now>>
        BY <1>3 DEF SearchInv, Search!CommandExits, CommandStates
    <2>2. Search!StartsAreOwned'
        BY <1>3 DEF SearchInv, Search!CommandExits, Search!StartsAreOwned, Search!At
    <2> QED BY <2>1, <2>2 DEF SearchInv
<1>4. ASSUME NEW s \in Searches, NEW what \in Search!Kinds, Search!Begin(s, what) PROVE SearchInv'
    <2> DEFINE r == IF what = "recover" THEN [Search!Job(what) EXCEPT !.at = "start"] ELSE Search!Job(what)
    <2>1. r \in Jobs /\ search' = [search EXCEPT ![s] = r] /\ search[s].at # "starting"
        BY <1>m, <1>4 DEF Search!Begin, Search!Job, Search!NoJob, Jobs, JobPlaces
    <2>2. manager' \in M /\ manager'.child = manager.child /\ UNCHANGED <<command, now>>
        BY <1>m, <1>4 DEF Search!Begin
    <2> HIDE DEF r
    <2> QED BY <2>1, <2>2, JobGoesOn
<1>5. ASSUME NEW s \in Searches, Search!HealthCheck(s) PROVE SearchInv'
    <2>1. search[s] \in Jobs /\ search[s].at = "health" /\ UNCHANGED <<command, manager, now>>
        BY <1>5 DEF SearchInv, Search!HealthCheck, Search!At, Search!NoJob
    <2>2. \E r \in Jobs \cup {Search!NoJob} : search' = [search EXCEPT ![s] = r]
        <3>1. CASE \E at \in {"healthy", "unhealthy"} : Search!Goes(s, at)
            BY <2>1, <3>1, JobMoves DEF Search!NoJob, JobPlaces
        <3>2. CASE search[s].left > 0 /\ search' = [search EXCEPT ![s].left = @ - 1]
            <4> DEFINE r == [search[s] EXCEPT !.left = @ - 1]
            <4>1. r \in Jobs /\ search' = [search EXCEPT ![s] = r]
                BY <2>1, <3>2 DEF Jobs, JobPlaces
            <4> QED BY <4>1
        <3> QED BY <1>5, <3>1, <3>2 DEF Search!HealthCheck
    <2> QED BY <1>m, <2>1, <2>2, JobGoesOn
<1>6. ASSUME NEW s \in Searches,
             \/ Search!HealthKnown(s) \/ Search!ProbeBegins(s) \/ Search!Probed(s) \/ Search!FallbackSearched(s)
      PROVE  SearchInv'
    <2>1. search[s] \in Jobs /\ search[s] # Search!NoJob /\ search[s].at # "starting" /\ UNCHANGED <<command, now>>
        BY <1>6 DEF SearchInv, Search!HealthKnown, Search!ProbeBegins, Search!Probed,
                    Search!FallbackSearched, Search!At, Search!NoJob
    <2>2. \E at \in JobPlaces : Search!Goes(s, at)
        BY <1>6 DEF Search!HealthKnown, Search!ProbeBegins, Search!Probed, Search!FallbackSearched,
                    JobPlaces
    <2>3. manager' \in M /\ manager'.child = manager.child
        <3>1. [manager EXCEPT !.probedAt = now] \in M
              /\ [manager EXCEPT !.probedAt = now].child = manager.child
            BY <1>m DEF SearchInv
        <3> QED BY <1>6, <1>m, <1>h, <3>1 DEF Search!HealthKnown, Search!ProbeBegins, Search!Probed,
                                          Search!FallbackSearched
    <2>4. \E r \in Jobs \cup {Search!NoJob} : search' = [search EXCEPT ![s] = r]
        BY <2>1, <2>2, JobMoves
    <2> QED BY <2>1, <2>3, <2>4, JobGoesOn
<1>7. ASSUME NEW s \in Searches, Search!PrimarySearched(s) PROVE SearchInv'
    <2>1. search[s] \in Jobs /\ search[s].at # "starting" /\ UNCHANGED <<command, now>>
        BY <1>7 DEF SearchInv, Search!PrimarySearched, Search!NoJob
    <2>2. manager' \in M /\ manager'.child = manager.child
        BY <1>7, <1>m, <1>h DEF Search!PrimarySearched
    <2>3. \E r \in Jobs \cup {Search!NoJob} : search' = [search EXCEPT ![s] = r]
        <3>1. CASE \E at \in {"ended", "fallback"} : Search!Goes(s, at)
            BY <2>1, <1>7, <3>1, JobMoves DEF Search!NoJob, Search!PrimarySearched, JobPlaces
        <3>2. CASE search' = [search EXCEPT ![s].at = IF @ = "primary" THEN "start" ELSE "fallback",
                                            ![s].from = "search"]
            <4> DEFINE r == [search[s] EXCEPT !.at = IF @ = "primary" THEN "start" ELSE "fallback",
                                              !.from = "search"]
            <4>1. r \in Jobs
                BY <2>1 DEF Jobs, JobPlaces
            <4>2. search' = [search EXCEPT ![s] = r]
                BY <2>1, <3>2 DEF SearchInv
            <4> QED BY <4>1, <4>2
        <3> QED BY <1>7, <3>1, <3>2 DEF Search!PrimarySearched
    <2> QED BY <2>1, <2>2, <2>3, JobGoesOn
<1>8. ASSUME NEW s \in Searches, Search!StartPrimary(s) PROVE SearchInv'
    <2>1. search[s] \in Jobs /\ search[s].at = "start" /\ search[s] # Search!NoJob /\ UNCHANGED <<manager, now>>
        BY <1>8 DEF SearchInv, Search!StartPrimary, Search!At, Search!NoJob
    <2>2. CASE UNCHANGED command /\ Search!Goes(s, Search!Recovered(search[s], FALSE))
        <3>1. Search!Recovered(search[s], FALSE) \in JobPlaces
            BY DEF Search!Recovered, JobPlaces
        <3>2. \E r \in Jobs \cup {Search!NoJob} : search' = [search EXCEPT ![s] = r]
            BY <2>1, <2>2, <3>1, JobMoves
        <3> QED BY <1>m, <2>1, <2>2, <3>2, JobGoesOn
    <2>3. ASSUME NEW c \in Commands, command[c] = "new", command' = [command EXCEPT ![c] = "running"],
                 search' = [search EXCEPT ![s].at = "starting", ![s].child = c]
          PROVE  SearchInv'
        <3> DEFINE r == [search[s] EXCEPT !.at = "starting", !.child = c]
        <3>1. r \in Jobs /\ r.at = "starting" /\ r.child = c
            BY <2>1 DEF Jobs, JobPlaces
        <3>2. search' = [search EXCEPT ![s] = r]
            BY <2>1, <2>3 DEF SearchInv
        <3> HIDE DEF r
        <3>5. command' \in [Commands -> CommandStates]
            BY <2>3 DEF SearchInv, CommandStates
        <3>3. /\ search'[s] = r /\ \A t \in Searches \ {s} : search'[t] = search[t]
              /\ search' \in [Searches -> Jobs \cup {Search!NoJob}]
            BY <3>1, <3>2 DEF SearchInv
        <3>4. Search!StartsAreOwned'
            <4>1. SUFFICES ASSUME NEW d \in Commands, command'[d] = "running", manager'.child # d
                           PROVE  \E t \in Searches : search'[t].at = "starting" /\ search'[t].child = d
                BY DEF Search!StartsAreOwned, Search!At
            <4>2. CASE d = c
                BY <3>1, <3>3, <4>2
            <4>3. CASE d # c
                <5>1. PICK t \in Searches : search[t].at = "starting" /\ search[t].child = d
                    BY <2>1, <2>3, <4>1, <4>3 DEF SearchInv, Search!StartsAreOwned, Search!At
                <5> QED BY <2>1, <3>3, <5>1
            <4> QED BY <4>2, <4>3
        <3> QED BY <2>1, <3>3, <3>4, <3>5 DEF SearchInv
    <2> QED BY <1>8, <2>2, <2>3 DEF Search!StartPrimary
<1>9. ASSUME NEW s \in Searches, Search!StartChecked(s) PROVE SearchInv'
    <2>1. search[s] \in Jobs /\ search[s].at = "starting" /\ search[s] # Search!NoJob /\ UNCHANGED now
        BY <1>9 DEF SearchInv, Search!StartChecked, Search!At, Search!NoJob
    <2>2. search[s].child \in Commands \cup {"none"}
        BY <2>1 DEF Jobs, JobPlaces
    <2>3. PICK ok \in BOOLEAN : Search!Goes(s, Search!Recovered(search[s], ok))
        BY <1>9 DEF Search!StartChecked
    <2>4. Search!Recovered(search[s], ok) \in JobPlaces
        BY DEF Search!Recovered, JobPlaces
    <2>5. \E r \in Jobs \cup {Search!NoJob} : search' = [search EXCEPT ![s] = r]
        BY <2>1, <2>3, <2>4, JobMoves
    <2>6. /\ search' \in [Searches -> Jobs \cup {Search!NoJob}]
          /\ \A t \in Searches \ {s} : search'[t] = search[t]
        BY <2>5 DEF SearchInv
    <2>7. ASSUME NEW d \in Commands, command[d] = "running", manager.child # d, search[s].child # d
          PROVE  \E t \in Searches : search'[t].at = "starting" /\ search'[t].child = d
        BY <2>6, <2>7 DEF SearchInv, Search!StartsAreOwned, Search!At
    <2>8. CASE /\ manager' = IF search[s].from = "health" /\ search[s].kind = "search"
                             THEN Search!Healthy(Search!TakeCharge(manager, search[s].child))
                             ELSE Search!TakeCharge(manager, search[s].child)
               /\ command' = [c \in Commands |-> IF c = manager.child /\ command[c] = "running"
                                                   THEN "replaced" ELSE command[c]]
        <3>1. manager' \in M /\ manager'.child = search[s].child
            BY <1>m, <2>2, <2>8 DEF Search!TakeCharge, Search!Healthy, SearchInv
        <3>2. command' \in [Commands -> CommandStates]
              /\ \A d \in Commands : command'[d] = "running" => command[d] = "running" /\ d # manager.child
            BY <2>8 DEF SearchInv, CommandStates
        <3>3. Search!StartsAreOwned'
            BY <2>7, <3>1, <3>2 DEF Search!StartsAreOwned, Search!At
        <3> QED BY <2>1, <2>6, <3>1, <3>2, <3>3 DEF SearchInv
    <2>9. CASE /\ UNCHANGED manager
               /\ command' = [command EXCEPT ![search[s].child] = IF @ = "running" THEN "late" ELSE @]
        <3>1. command' \in [Commands -> CommandStates]
              /\ \A d \in Commands : command'[d] = "running" => command[d] = "running" /\ d # search[s].child
            BY <2>2, <2>9 DEF SearchInv, CommandStates
        <3>2. Search!StartsAreOwned'
            BY <2>7, <2>9, <3>1 DEF Search!StartsAreOwned, Search!At
        <3> QED BY <1>m, <2>1, <2>6, <2>9, <3>1, <3>2 DEF SearchInv
    <2> QED BY <1>9, <2>8, <2>9 DEF Search!StartChecked
<1> QED BY <1>0, <1>1, <1>2, <1>3, <1>4, <1>5, <1>6, <1>7, <1>8, <1>9 DEF Search!Next, Search!JobStep

\* A process of the start command that runs is being started or is the one that
\* shutdown kills (searchManager.ts), for any searches and processes: what is
\* given up or replaced is known by name (a conjunct of ProcessesAreHeld).
THEOREM StartsHaveOwners ==
    ASSUME Search!SearchConstants
    PROVE  Search!Spec => []Search!StartsAreOwned
<1>1. Search!Init => SearchInv
    <2>1. SUFFICES ASSUME Search!Init PROVE SearchInv
        OBVIOUS
    <2> QED BY <2>1 DEF Search!Init, SearchInv, Search!StartsAreOwned, Search!NotYet, CommandStates
<1>2. SearchInv /\ [Search!Next]_<<command, manager, search, now>> => SearchInv'
    BY SearchStep
<1>3. SearchInv => Search!StartsAreOwned
    BY DEF SearchInv
<1> QED BY <1>1, <1>2, <1>3, PTL DEF Search!Spec, Search!searchVars

\* The clock is ahead of what the manager remembers, and no job checks more often
\* than it may.
SearchTimes ==
    /\ now \in 1..MaxTime
    /\ manager.healthyAt <= now /\ manager.probedAt <= now
    /\ \A s \in Searches : search[s] # Search!NoJob => search[s].left <= Retries

LEMMA ManagerRemembers ==
    ASSUME SearchInv, SearchTimes, [Search!Next]_<<command, manager, search, now>>
    PROVE  /\ manager'.healthyAt \in {manager.healthyAt, now}
           /\ manager'.probedAt \in {manager.probedAt, now}
<1> DEFINE M == [healthyAt : Nat, probedAt : Nat, child : Commands \cup {"none"}, stopped : BOOLEAN, begun : Nat]
<1>m. manager \in M
    BY DEF SearchInv
<1>h. /\ Search!Healthy(manager).healthyAt = now /\ Search!Healthy(manager).probedAt = manager.probedAt
      /\ [manager EXCEPT !.probedAt = now].healthyAt = manager.healthyAt
      /\ [manager EXCEPT !.probedAt = now].probedAt = now
    BY <1>m DEF Search!Healthy
<1>0. CASE UNCHANGED manager
    BY <1>0
<1>1. CASE manager' = Search!Healthy(manager) \/ manager' = [manager EXCEPT !.probedAt = now]
    BY <1>1, <1>h
<1>2. CASE Search!StopSearch
    BY <1>2, <1>m DEF Search!StopSearch
<1>3. ASSUME NEW s \in Searches, NEW what \in Search!Kinds, Search!Begin(s, what)
      PROVE  /\ manager'.healthyAt \in {manager.healthyAt, now}
             /\ manager'.probedAt \in {manager.probedAt, now}
    BY <1>3, <1>m DEF Search!Begin
<1>4. ASSUME NEW s \in Searches, Search!StartChecked(s)
      PROVE  /\ manager'.healthyAt \in {manager.healthyAt, now}
             /\ manager'.probedAt \in {manager.probedAt, now}
    <2> DEFINE up == Search!TakeCharge(manager, search[s].child)
    <2>1. \/ UNCHANGED manager \/ manager' = up \/ manager' = Search!Healthy(up)
        BY <1>4 DEF Search!StartChecked
    <2>2. up.healthyAt = manager.healthyAt /\ up.probedAt = manager.probedAt
          /\ Search!Healthy(up).healthyAt = now /\ Search!Healthy(up).probedAt = manager.probedAt
        BY <1>m DEF Search!TakeCharge, Search!Healthy
    <2> HIDE DEF up
    <2> QED BY <2>1, <2>2
<1>5. ASSUME NEW s \in Searches,
             \/ Search!HealthCheck(s) \/ Search!HealthKnown(s) \/ Search!StartPrimary(s)
             \/ Search!PrimarySearched(s) \/ Search!ProbeBegins(s) \/ Search!Probed(s)
             \/ Search!FallbackSearched(s)
      PROVE  \/ UNCHANGED manager \/ manager' = Search!Healthy(manager)
             \/ manager' = [manager EXCEPT !.probedAt = now]
    BY <1>5, Zenon DEF Search!HealthCheck, Search!HealthKnown, Search!StartPrimary, Search!PrimarySearched,
                       Search!ProbeBegins, Search!Probed, Search!FallbackSearched
<1>6. CASE Search!Tick \/ \E c \in Commands : Search!CommandExits(c)
    BY <1>6 DEF Search!Tick, Search!CommandExits
<1> QED BY <1>0, <1>1, <1>2, <1>3, <1>4, <1>5, <1>6 DEF Search!Next, Search!JobStep

\* A job never has more checks left than it had.
LEMMA JobsCheckLess ==
    ASSUME Search!SearchConstants, SearchInv, SearchTimes, [Search!Next]_<<command, manager, search, now>>
    PROVE  \A t \in Searches : search'[t] # Search!NoJob => search'[t].left <= Retries
<1> SUFFICES ASSUME NEW t \in Searches, search'[t] # Search!NoJob PROVE search'[t].left <= Retries
    OBVIOUS
<1>m. search \in [Searches -> Jobs \cup {Search!NoJob}] /\ Retries \in Nat
    BY DEF SearchInv, Search!SearchConstants
<1>k. search[t] # Search!NoJob => search[t] \in Jobs /\ search[t].left <= Retries
    BY <1>m DEF SearchTimes
<1>0. CASE search'[t] = search[t]
    BY <1>0, <1>k
<1>1. ASSUME NEW s \in Searches, NEW what \in Search!Kinds, Search!Begin(s, what)
      PROVE  search'[t].left <= Retries
    <2> DEFINE r == IF what = "recover" THEN [Search!Job(what) EXCEPT !.at = "start"] ELSE Search!Job(what)
    <2>1. r.left = Retries
        BY DEF Search!Job
    <2>2. search' = [search EXCEPT ![s] = r]
        BY <1>1 DEF Search!Begin
    <2> HIDE DEF r
    <2>3. t = s => search'[t] = r
        BY <1>m, <2>2
    <2>4. t # s => search'[t] = search[t]
        BY <1>m, <2>2
    <2> QED BY <1>0, <1>m, <2>1, <2>3, <2>4
<1>2. ASSUME NEW s \in Searches, Search!JobStep(s)
      PROVE  search'[t].left <= Retries
    <2>1. search[s] # Search!NoJob
        <3>1. search[s].at \in {"health", "healthy", "unhealthy", "start", "starting", "primary", "retry",
                                "probe", "probing", "fallback"}
            BY Zenon, <1>2 DEF Search!JobStep, Search!HealthCheck, Search!HealthKnown, Search!StartPrimary,
                               Search!StartChecked, Search!PrimarySearched, Search!ProbeBegins,
                               Search!Probed, Search!FallbackSearched, Search!At
        <3>2. Search!NoJob.at = "idle"
            BY DEF Search!NoJob
        <3> QED BY <3>1, <3>2
    <2>2. search[s] \in Jobs
        BY <1>m, <2>1
    <2>3. ASSUME NEW at, Search!Goes(s, at) PROVE search'[t].left <= Retries
        <3> DEFINE r == IF at = "ended" THEN Search!NoJob ELSE [search[s] EXCEPT !.at = at]
        <3>1. search' = [search EXCEPT ![s] = r]
            BY <1>m, <2>3 DEF Search!Goes
        <3>2. at # "ended" => r.left = search[s].left
            BY <2>2 DEF Jobs
        <3>3. at = "ended" => r = Search!NoJob
            OBVIOUS
        <3> HIDE DEF r
        <3>4. t = s => search'[t] = r
            BY <1>m, <3>1
        <3>5. t # s => search'[t] = search[t]
            BY <1>m, <3>1
        <3> QED BY <1>0, <1>k, <2>1, <3>2, <3>3, <3>4, <3>5
    <2>4. CASE search' = [search EXCEPT ![s].left = @ - 1]
        <3> DEFINE r == [search[s] EXCEPT !.left = @ - 1]
        <3>1. search' = [search EXCEPT ![s] = r]
            BY <1>m, <2>4
        <3>2. r.left = search[s].left - 1 /\ search[s].left \in Nat
            BY <2>2 DEF Jobs
        <3> HIDE DEF r
        <3>3. t = s => search'[t] = r
            BY <1>m, <3>1
        <3>4. t # s => search'[t] = search[t]
            BY <1>m, <3>1
        <3> QED BY <1>0, <1>k, <1>m, <2>1, <3>2, <3>3, <3>4
    <2>5. ASSUME NEW c, search' = [search EXCEPT ![s].at = "starting", ![s].child = c]
          PROVE  search'[t].left <= Retries
        <3> DEFINE r == [search[s] EXCEPT !.at = "starting", !.child = c]
        <3>1. search' = [search EXCEPT ![s] = r]
            BY <1>m, <2>5
        <3>2. r.left = search[s].left
            BY <2>2 DEF Jobs
        <3> HIDE DEF r
        <3>3. t = s => search'[t] = r
            BY <1>m, <3>1
        <3>4. t # s => search'[t] = search[t]
            BY <1>m, <3>1
        <3> QED BY <1>0, <1>k, <2>1, <3>2, <3>3, <3>4
    <2>6. CASE search' = [search EXCEPT ![s].at = IF @ = "primary" THEN "start" ELSE "fallback",
                                        ![s].from = "search"]
        <3> DEFINE r == [search[s] EXCEPT !.at = IF @ = "primary" THEN "start" ELSE "fallback",
                                          !.from = "search"]
        <3>1. search' = [search EXCEPT ![s] = r]
            BY <1>m, <2>6
        <3>2. r.left = search[s].left
            BY <2>2 DEF Jobs
        <3> HIDE DEF r
        <3>3. t = s => search'[t] = r
            BY <1>m, <3>1
        <3>4. t # s => search'[t] = search[t]
            BY <1>m, <3>1
        <3> QED BY <1>0, <1>k, <2>1, <3>2, <3>3, <3>4
    <2>7. CASE Search!HealthCheck(s)
        BY <2>3, <2>4, <2>7 DEF Search!HealthCheck
    <2>8. CASE \/ Search!HealthKnown(s) \/ Search!ProbeBegins(s) \/ Search!Probed(s)
               \/ Search!FallbackSearched(s) \/ Search!StartChecked(s)
        BY <2>3, <2>8 DEF Search!HealthKnown, Search!ProbeBegins, Search!Probed, Search!FallbackSearched,
                          Search!StartChecked
    <2>9. CASE Search!PrimarySearched(s)
        BY <2>3, <2>6, <2>9 DEF Search!PrimarySearched
    <2>10. CASE Search!StartPrimary(s)
        BY <2>3, <2>5, <2>10 DEF Search!StartPrimary
    <2> QED BY <1>2, <2>7, <2>8, <2>9, <2>10 DEF Search!JobStep
<1>3. CASE Search!Tick \/ Search!StopSearch \/ \E c \in Commands : Search!CommandExits(c)
    BY <1>0, <1>3 DEF Search!Tick, Search!StopSearch, Search!CommandExits
<1> QED BY <1>0, <1>1, <1>2, <1>3 DEF Search!Next

LEMMA SearchTimesStep ==
    ASSUME Search!SearchConstants, SearchInv, SearchTimes, [Search!Next]_<<command, manager, search, now>>
    PROVE  SearchTimes'
<1>1. now \in Nat \ {0} /\ now <= MaxTime /\ MaxTime \in Nat
    BY DEF SearchTimes, Search!SearchConstants
<1>2. now' = now \/ (now < MaxTime /\ now' = now + 1)
    BY Zenon DEF Search!Next, Search!JobStep, Search!Tick, Search!StopSearch, Search!CommandExits, Search!Begin,
                 Search!HealthCheck, Search!HealthKnown, Search!StartPrimary, Search!StartChecked,
                 Search!PrimarySearched, Search!ProbeBegins, Search!Probed, Search!FallbackSearched
<1>3. now' \in 1..MaxTime /\ now <= now'
    BY <1>1, <1>2
<1>4. manager'.healthyAt <= now' /\ manager'.probedAt <= now'
    <2>1. manager.healthyAt \in Nat /\ manager.probedAt \in Nat
        BY DEF SearchInv
    <2>2. manager.healthyAt <= now /\ manager.probedAt <= now
        BY DEF SearchTimes
    <2>3. manager'.healthyAt \in {manager.healthyAt, now} /\ manager'.probedAt \in {manager.probedAt, now}
        BY ManagerRemembers
    <2> QED BY <1>1, <1>3, <2>1, <2>2, <2>3
<1>5. \A t \in Searches : search'[t] # Search!NoJob => search'[t].left <= Retries
    BY JobsCheckLess
<1>6. Search!NoJob' = Search!NoJob
    BY DEF Search!NoJob
<1> QED BY <1>3, <1>4, <1>5, <1>6 DEF SearchTimes

\* The jobs and the manager's fields are what the code can make of them
\* (searchManager.ts): what the manager remembers lies in the past, and no job
\* checks the health of the primary more often than primaryHealthRetries says.
THEOREM SearchTypeCorrect ==
    ASSUME Search!SearchConstants
    PROVE  Search!Spec => []Search!TypeOK
<1>1. Search!Init => SearchInv /\ SearchTimes
    <2> SUFFICES ASSUME Search!Init PROVE SearchInv /\ SearchTimes
        OBVIOUS
    <2>1. SearchInv
        BY DEF Search!Init, SearchInv, Search!StartsAreOwned, Search!NotYet, CommandStates
    <2>2. SearchTimes
        BY DEF Search!Init, SearchTimes, Search!NotYet, Search!SearchConstants
    <2> QED BY <2>1, <2>2
<1>2. SearchInv /\ SearchTimes /\ [Search!Next]_<<command, manager, search, now>>
        => SearchInv' /\ SearchTimes'
    BY SearchStep, SearchTimesStep
<1>3. SearchInv /\ SearchTimes => Search!TypeOK
    <2> SUFFICES ASSUME SearchInv, SearchTimes PROVE Search!TypeOK
        OBVIOUS
    <2>1. now \in 1..MaxTime /\ manager.child \in Commands \cup {"none"}
          /\ manager.healthyAt \in Nat /\ manager.probedAt \in Nat
        BY DEF SearchInv, SearchTimes
    <2>2. manager.healthyAt \in 0..now /\ manager.probedAt \in 0..now
        BY <2>1 DEF SearchTimes
    <2>3. \A s \in Searches : search[s] # Search!NoJob => search[s].left \in Nat /\ search[s].kind \in Search!Kinds
        BY DEF SearchInv, Jobs
    <2>4. Retries \in Nat
        BY DEF Search!SearchConstants
    <2> QED BY <2>1, <2>2, <2>3, <2>4 DEF SearchTimes, Search!TypeOK
<1> QED BY <1>1, <1>2, <1>3, PTL DEF Search!Spec, Search!searchVars

-----------------------------------------------------------------------------
(* Browsers. *)

LEMMA LeastNumber ==
    ASSUME NEW T, T \subseteq Nat, T # {}
    PROVE  \E x \in T : \A y \in T : x <= y
<1>1. PICK x \in T : \A y \in T : <<y, x>> \notin OpToRel(<, Nat)
    BY NatLessThanWellFounded, WFMin, Zenon
<1>2. \A y \in T : ~(y < x)
    BY <1>1, Zenon DEF OpToRel
<1> QED BY <1>2

LEMMA MinIsMember ==
    ASSUME NEW T, T \subseteq Nat, T # {}
    PROVE  Browser!Min(T) \in T
BY LeastNumber DEF Browser!Min

UsePlaces ==
    {"none", "session", "begin", "launch", "navigate", "read", "openTab", "activateTab", "closeTab",
     "activated", "closing"}

ControlRecord == [open : BOOLEAN, tab : Nat, used : Nat, idle : BOOLEAN]
\* A call under way is of some kind.
UseRecord ==
    {w \in [at : UsePlaces, chat : Chats \cup {"none"}, kind : Browser!CallKinds \cup {"none"},
            by : Controllers \cup {"none"}, tab : Nat] :
        w.at # "none" => w.kind \in Browser!CallKinds}

BrowserType ==
    /\ registry \in [Chats -> Controllers \cup {"none"}]
    /\ control \in [Controllers -> ControlRecord]
    /\ browsers \in [Controllers -> Seq(SUBSET Nat)]
    /\ use \in [Users -> UseRecord]

\* A chat has one call at a time, and no two chats share a controller.
ChatsAreApart ==
    /\ \A u, x \in Users : use[u].chat # "none" /\ use[u].chat = use[x].chat => u = x
    /\ \A c, d \in Chats : registry[c] # "none" /\ registry[c] = registry[d] => c = d

\* What a call may rely on: its chat keeps the controller, which no sweep takes.
CallsFit ==
    \A u \in Users :
        /\ use[u].chat = "none" => use[u].at = "none"
        /\ use[u].at \in {"none", "session"} => use[u].by = "none"
        /\ use[u].by # "none" =>
             /\ use[u].chat # "none" /\ registry[use[u].chat] = use[u].by
             /\ ~control[use[u].by].idle
        /\ use[u].at \notin {"none", "session"} => use[u].by # "none"
        /\ use[u].at = "launch" => ~control[use[u].by].open
        /\ use[u].at \in {"activated", "closing"} => use[u].tab \in Browser!Tabs(use[u].by)
        /\ use[u].at = "closing" => control[use[u].by].tab # use[u].tab

\* An open controller has a browser, the last it launched, and is some chat's.
OpenFits ==
    \A k \in Controllers :
        control[k].open => Browser!Current(k) > 0 /\ \E c \in Chats : registry[c] = k

BrowserInv ==
    /\ BrowserType /\ ChatsAreApart /\ CallsFit /\ OpenFits
    /\ Browser!BrowsersAreHeld /\ Browser!CurrentTabIsOpen

LEMMA OneCallPerController ==
    ASSUME BrowserInv, NEW u \in Users, NEW x \in Users, use[u].by # "none", use[u].by = use[x].by
    PROVE  u = x
<1>1. /\ use[u].chat # "none" /\ use[x].chat # "none"
      /\ registry[use[u].chat] = registry[use[x].chat] /\ registry[use[u].chat] # "none"
    BY DEF BrowserInv, CallsFit
<1>2. use[u].chat \in Chats /\ use[x].chat \in Chats
    BY <1>1 DEF BrowserInv, BrowserType, UseRecord
<1> QED BY <1>1, <1>2 DEF BrowserInv, ChatsAreApart

LEMMA UseFacts ==
    ASSUME BrowserInv, NEW u \in Users
    PROVE  /\ use[u] \in UseRecord /\ Browser!NoUse \in UseRecord /\ Browser!NoUse.at = "none"
           /\ Browser!NoUse.by = "none" /\ Browser!NoUse.chat = "none"
           /\ use[u].at # "none" => use[u].kind \in Browser!CallKinds
<1>1. use[u] \in UseRecord
    BY DEF BrowserInv, BrowserType
<1>2. Browser!NoUse \in UseRecord
    BY DEF Browser!NoUse, UseRecord, UsePlaces
<1>3. Browser!NoUse.at = "none" /\ Browser!NoUse.by = "none" /\ Browser!NoUse.chat = "none"
    BY DEF Browser!NoUse
<1>4. use[u].at # "none" => use[u].kind \in Browser!CallKinds
    BY <1>1 DEF UseRecord
<1> QED BY <1>1, <1>2, <1>3, <1>4

\* A call goes on, or ends, and the browsers stay.
LEMMA UseStays ==
    ASSUME BrowserInv, NEW u \in Users, NEW r \in UseRecord, use' = [use EXCEPT ![u] = r],
           UNCHANGED <<registry, control, browsers>>,
           \/ r.at = "none" /\ r.by = "none" /\ r.chat = "none"
           \/ /\ r.chat = use[u].chat /\ r.by = use[u].by /\ r.by # "none"
              /\ r.at \notin {"none", "session", "closing"}
              /\ r.at = "launch" => ~control[r.by].open
              /\ r.at = "activated" => r.tab \in Browser!Tabs(r.by)
    PROVE  BrowserInv'
<1>1. use' \in [Users -> UseRecord] /\ use'[u] = r /\ \A x \in Users \ {u} : use'[x] = use[x]
    BY DEF BrowserInv, BrowserType
<1>2. BrowserType'
    BY <1>1 DEF BrowserInv, BrowserType
<1>3. ChatsAreApart'
    BY <1>1 DEF BrowserInv, ChatsAreApart
<1>4. CallsFit'
    <2>1. \A k : Browser!Tabs(k)' = Browser!Tabs(k)
        BY DEF Browser!Tabs, Browser!Current
    <2> QED BY <1>1, <2>1 DEF BrowserInv, CallsFit
<1>5. OpenFits' /\ Browser!BrowsersAreHeld' /\ Browser!CurrentTabIsOpen'
    BY DEF BrowserInv, OpenFits, Browser!BrowsersAreHeld, Browser!CurrentTabIsOpen, Browser!Tabs,
           Browser!Current
<1> QED BY <1>2, <1>3, <1>4, <1>5 DEF BrowserInv

\* A call changes the browser of its controller.
LEMMA BrowserChanges ==
    ASSUME BrowserInv, NEW u \in Users, NEW k \in Controllers, use[u].by = k, k # "none",
           NEW r \in UseRecord, use' = [use EXCEPT ![u] = r],
           NEW q \in ControlRecord, control' = [control EXCEPT ![k] = q], q.open, ~q.idle,
           NEW bs \in Seq(SUBSET Nat), browsers' = [browsers EXCEPT ![k] = bs], UNCHANGED registry,
           Len(bs) > 0, q.tab \in bs[Len(bs)], \A i \in 1..(Len(bs) - 1) : bs[i] = {},
           \/ r.at = "none" /\ r.by = "none" /\ r.chat = "none"
           \/ /\ r.chat = use[u].chat /\ r.by = k /\ r.at \notin {"none", "session", "launch"}
              /\ r.at \in {"activated", "closing"} => r.tab \in bs[Len(bs)]
              /\ r.at = "closing" => q.tab # r.tab
    PROVE  BrowserInv'
<1>1. /\ use' \in [Users -> UseRecord] /\ use'[u] = r /\ \A x \in Users \ {u} : use'[x] = use[x]
      /\ control' \in [Controllers -> ControlRecord] /\ control'[k] = q
      /\ \A j \in Controllers \ {k} : control'[j] = control[j]
      /\ browsers' \in [Controllers -> Seq(SUBSET Nat)] /\ browsers'[k] = bs
      /\ \A j \in Controllers \ {k} : browsers'[j] = browsers[j]
    BY DEF BrowserInv, BrowserType
<1>2. /\ Browser!Tabs(k)' = bs[Len(bs)] /\ Browser!Current(k)' = Len(bs)
      /\ \A j \in Controllers \ {k} : Browser!Tabs(j)' = Browser!Tabs(j) /\ Browser!Current(j)' = Browser!Current(j)
    BY <1>1 DEF Browser!Tabs, Browser!Current
<1>3. use[u].chat \in Chats /\ registry[use[u].chat] = k
    <2>1. use[u].chat # "none" /\ use[u] \in UseRecord /\ registry[use[u].chat] = k
        BY DEF BrowserInv, CallsFit, BrowserType
    <2> QED BY <2>1 DEF UseRecord
<1>4. \A x \in Users \ {u} : use[x].by # k
    BY OneCallPerController
<1>5. BrowserType'
    BY <1>1 DEF BrowserInv, BrowserType
<1>6. ChatsAreApart'
    BY <1>1 DEF BrowserInv, ChatsAreApart
<1>7. CallsFit'
    <2>1. ASSUME NEW x \in Users \ {u}, use[x].by # "none"
          PROVE  use[x].by \in Controllers \ {k}
        BY <1>4, <2>1 DEF BrowserInv, BrowserType, UseRecord
    <2>2. \A x \in Users \ {u} :
            /\ use'[x].chat = "none" => use'[x].at = "none"
            /\ use'[x].at \in {"none", "session"} => use'[x].by = "none"
            /\ use'[x].by # "none" =>
                 /\ use'[x].chat # "none" /\ registry'[use'[x].chat] = use'[x].by
                 /\ ~control'[use'[x].by].idle
            /\ use'[x].at \notin {"none", "session"} => use'[x].by # "none"
            /\ use'[x].at = "launch" => ~control'[use'[x].by].open
            /\ use'[x].at \in {"activated", "closing"} => use'[x].tab \in Browser!Tabs(use[x].by)'
            /\ use'[x].at = "closing" => control'[use'[x].by].tab # use'[x].tab
        BY <1>1, <1>2, <2>1 DEF BrowserInv, CallsFit
    <2>3. CASE r.at = "none" /\ r.by = "none" /\ r.chat = "none"
        BY <1>1, <2>2, <2>3 DEF CallsFit
    <2>4. CASE r.chat = use[u].chat /\ r.by = k
        <3>1. r.chat # "none" /\ registry'[r.chat] = k
            BY <1>3, <2>4 DEF BrowserInv, CallsFit
        <3> QED BY <1>1, <1>2, <2>2, <2>4, <3>1 DEF CallsFit
    <2> QED BY <2>3, <2>4
<1>8. OpenFits'
    BY <1>1, <1>2, <1>3 DEF BrowserInv, OpenFits
<1>9. Browser!BrowsersAreHeld'
    <2>1. ASSUME NEW j \in Controllers, NEW i \in DOMAIN browsers'[j], browsers'[j][i] # {}
          PROVE  i = Browser!Current(j)' /\ control'[j].open /\ \E c \in Chats : registry'[c] = j
        <3>1. CASE j = k
            BY <1>1, <1>2, <1>3, <2>1, <3>1
        <3>2. CASE j # k
            BY <1>1, <1>2, <2>1, <3>2 DEF BrowserInv, Browser!BrowsersAreHeld
        <3> QED BY <3>1, <3>2
    <2> QED BY <2>1 DEF Browser!BrowsersAreHeld
<1>10. Browser!CurrentTabIsOpen'
    BY <1>1, <1>2 DEF BrowserInv, Browser!CurrentTabIsOpen
<1> QED BY <1>5, <1>6, <1>7, <1>8, <1>9, <1>10 DEF BrowserInv

-----------------------------------------------------------------------------
LEMMA Emptied ==
    ASSUME NEW s \in Seq(SUBSET Nat), NEW n \in 1..Len(s)
    PROVE  /\ [s EXCEPT ![n] = {}] \in Seq(SUBSET Nat)
           /\ DOMAIN [s EXCEPT ![n] = {}] = DOMAIN s
           /\ \A i \in DOMAIN s : [s EXCEPT ![n] = {}][i] = IF i = n THEN {} ELSE s[i]
OBVIOUS

\* A controller that closes leaves no tab.
LEMMA ClosedIsGone ==
    ASSUME BrowserInv, NEW k \in Controllers
    PROVE  /\ Browser!Gone(k)[k] \in Seq(SUBSET Nat)
           /\ \A i \in DOMAIN Browser!Gone(k)[k] : Browser!Gone(k)[k][i] = {}
<1> DEFINE swept(j) == Browser!Gone(j)[j]
<1>1. browsers[k] \in Seq(SUBSET Nat) /\ browsers \in [Controllers -> Seq(SUBSET Nat)]
    BY DEF BrowserInv, BrowserType
<1>2. CASE control[k].open
    <2>1. Browser!Current(k) \in 1..Len(browsers[k])
        <3>1. Browser!Current(k) > 0 /\ Browser!Current(k) = Len(browsers[k])
            BY <1>2 DEF BrowserInv, OpenFits, Browser!Current
        <3>2. Len(browsers[k]) \in Nat
            BY <1>1
        <3> HIDE DEF swept
        <3> QED BY <3>1, <3>2
    <2>2. swept(k) = [browsers[k] EXCEPT ![Browser!Current(k)] = {}]
        BY <1>1, <1>2 DEF Browser!Gone
    <2>3. \A i \in DOMAIN browsers[k] : i # Browser!Current(k) => browsers[k][i] = {}
        BY <1>1 DEF BrowserInv, Browser!BrowsersAreHeld
    <2> DEFINE n == Browser!Current(k)
               l == browsers[k]
    <2>4. l \in Seq(SUBSET Nat) /\ n \in 1..Len(l)
        BY <1>1, <2>1
    <2>5. swept(k) = [l EXCEPT ![n] = {}] /\ \A i \in DOMAIN l : i # n => l[i] = {}
        BY <2>2, <2>3
    <2> HIDE DEF n, l
    <2> QED BY <2>4, <2>5, Emptied
<1>3. CASE ~control[k].open
    <2>1. swept(k) = browsers[k]
        BY <1>3 DEF Browser!Gone
    <2> QED BY <1>1, <1>3, <2>1 DEF BrowserInv, Browser!BrowsersAreHeld
<1> QED BY <1>2, <1>3

\* Controllers that no call works with are closed and leave the registry.
LEMMA Sweeps ==
    ASSUME Browser!BrowserConstants, BrowserInv, NEW ks \in SUBSET Controllers,
           \A x \in Users : use[x].by \notin ks,
           registry' = [x \in Chats |-> IF registry[x] \in ks THEN "none" ELSE registry[x]],
           browsers' = Browser!Swept(ks),
           control' = [k \in Controllers |-> IF k \in ks THEN Browser!Closed(k) ELSE control[k]],
           use' \in [Users -> UseRecord],
           \A x \in Users :
               \/ use'[x] = use[x]
               \/ use'[x].at = "session" /\ use'[x].by = "none" /\ use'[x].chat \in Chats,
           \A x, y \in Users : use'[x].chat # "none" /\ use'[x].chat = use'[y].chat => x = y
    PROVE  BrowserInv'
<1> DEFINE swept(k) == Browser!Gone(k)[k]
<1>1. /\ registry' \in [Chats -> Controllers \cup {"none"}]
      /\ \A c \in Chats : registry'[c] # "none" => registry'[c] = registry[c] /\ registry'[c] \notin ks
      /\ \A c \in Chats : registry[c] \notin ks => registry'[c] = registry[c]
    BY DEF BrowserInv, BrowserType
<1>2. \A k \in Controllers : Browser!Closed(k) \in ControlRecord /\ ~Browser!Closed(k).open
    BY DEF BrowserInv, BrowserType, ControlRecord, Browser!Closed, Browser!Shut
<1>3. /\ control' \in [Controllers -> ControlRecord]
      /\ \A k \in ks : ~control'[k].open
      /\ \A k \in Controllers \ ks : control'[k] = control[k]
    BY <1>2 DEF BrowserInv, BrowserType
<1>4. \A k \in Controllers : swept(k) \in Seq(SUBSET Nat) /\ \A i \in DOMAIN swept(k) : swept(k)[i] = {}
    BY ClosedIsGone
<1>5. /\ browsers' \in [Controllers -> Seq(SUBSET Nat)]
      /\ \A k \in ks : \A i \in DOMAIN browsers'[k] : browsers'[k][i] = {}
      /\ \A k \in Controllers \ ks : browsers'[k] = browsers[k]
    BY <1>4 DEF Browser!Swept, BrowserInv, BrowserType
<1>7. \A k \in Controllers \ ks :
        Browser!Tabs(k)' = Browser!Tabs(k) /\ Browser!Current(k)' = Browser!Current(k)
    BY <1>3, <1>5 DEF Browser!Tabs, Browser!Current
<1>8. BrowserType'
    BY <1>1, <1>3, <1>5 DEF BrowserType
<1>9. ChatsAreApart'
    BY <1>1 DEF BrowserInv, ChatsAreApart
<1>10. CallsFit'
    <2> SUFFICES ASSUME NEW x \in Users
                 PROVE  /\ use'[x].chat = "none" => use'[x].at = "none"
                        /\ use'[x].at \in {"none", "session"} => use'[x].by = "none"
                        /\ use'[x].by # "none" =>
                             /\ use'[x].chat # "none" /\ registry'[use'[x].chat] = use'[x].by
                             /\ ~control'[use'[x].by].idle
                        /\ use'[x].at \notin {"none", "session"} => use'[x].by # "none"
                        /\ use'[x].at = "launch" => ~control'[use'[x].by].open
                        /\ use'[x].at \in {"activated", "closing"} => use'[x].tab \in Browser!Tabs(use[x].by)'
                        /\ use'[x].at = "closing" => control'[use'[x].by].tab # use'[x].tab
                        /\ use'[x].at \in {"activated", "closing"} => use'[x].by = use[x].by
        BY DEF CallsFit
    <2>1. CASE use'[x].at = "session" /\ use'[x].by = "none" /\ use'[x].chat \in Chats
        BY <2>1 DEF Browser!BrowserConstants
    <2>2. CASE use'[x] = use[x] /\ use[x].by = "none"
        BY <2>2 DEF BrowserInv, CallsFit
    <2>3. CASE use'[x] = use[x] /\ use[x].by # "none"
        <3>1. use[x].by \in Controllers \ ks /\ use[x].chat \in Chats
            <4>1. use[x] \in UseRecord /\ use[x].chat # "none"
                BY <2>3 DEF BrowserInv, BrowserType, CallsFit
            <4> QED BY <2>3, <4>1 DEF UseRecord
        <3>2. registry'[use[x].chat] = use[x].by
            <4>1. registry[use[x].chat] = use[x].by
                BY <2>3 DEF BrowserInv, CallsFit
            <4> QED BY <1>1, <3>1, <4>1
        <3>3. /\ control'[use[x].by] = control[use[x].by] /\ Browser!Tabs(use[x].by)' = Browser!Tabs(use[x].by)
              /\ use'[x] = use[x]
            BY <1>3, <1>7, <2>3, <3>1
        <3>4. /\ use[x].at \notin {"none", "session"} /\ use[x].chat # "none" /\ ~control[use[x].by].idle
              /\ use[x].at = "launch" => ~control[use[x].by].open
              /\ use[x].at \in {"activated", "closing"} => use[x].tab \in Browser!Tabs(use[x].by)
              /\ use[x].at = "closing" => control[use[x].by].tab # use[x].tab
            BY <2>3 DEF BrowserInv, CallsFit
        <3> QED BY <2>3, <3>2, <3>3, <3>4
    <2> QED BY <2>1, <2>2, <2>3
<1>11. OpenFits'
    <2>1. ASSUME NEW k \in Controllers, control'[k].open
          PROVE  Browser!Current(k)' > 0 /\ \E c \in Chats : registry'[c] = k
        <3>1. k \notin ks /\ control[k].open
            BY <1>3, <2>1
        <3>2. Browser!Current(k) > 0 /\ \E c \in Chats : registry[c] = k
            BY <3>1 DEF BrowserInv, OpenFits
        <3> QED BY <1>1, <1>7, <3>1, <3>2
    <2> QED BY <2>1 DEF OpenFits
<1>12. Browser!BrowsersAreHeld'
    <2>1. ASSUME NEW k \in Controllers, NEW i \in DOMAIN browsers'[k], browsers'[k][i] # {}
          PROVE  i = Browser!Current(k)' /\ control'[k].open /\ \E c \in Chats : registry'[c] = k
        <3>1. k \notin ks /\ browsers'[k] = browsers[k]
            BY <1>5, <2>1
        <3>2. i = Browser!Current(k) /\ control[k].open /\ \E c \in Chats : registry[c] = k
            BY <2>1, <3>1 DEF BrowserInv, Browser!BrowsersAreHeld
        <3> QED BY <1>1, <1>3, <1>7, <3>1, <3>2
    <2> QED BY <2>1 DEF Browser!BrowsersAreHeld
<1>13. Browser!CurrentTabIsOpen'
    BY <1>3, <1>7 DEF BrowserInv, Browser!CurrentTabIsOpen
<1> QED BY <1>8, <1>9, <1>10, <1>11, <1>12, <1>13 DEF BrowserInv

LEMMA SessionStep ==
    ASSUME Browser!BrowserConstants, ~Shared, BrowserInv, NEW u \in Users, NEW c \in Chats,
           \/ Browser!CloseSession(u, c)
           \/ \E kd \in Browser!CallKinds : Browser!ForSession(u, c, kd)
    PROVE  BrowserInv'
<1>1. CASE Browser!CloseSession(u, c)
    <2> DEFINE k == registry[c]
    <2>1. k \in Controllers /\ registry[c] = k /\ \A x \in Users : use[x].chat # c
        BY <1>1 DEF Browser!CloseSession, BrowserInv, BrowserType
    <2>2. \A d \in Chats : registry[d] = k => d = c
        BY <2>1 DEF BrowserInv, ChatsAreApart, Browser!BrowserConstants
    <2>3. \A x \in Users : use[x].by # k
        <3>1. ASSUME NEW x \in Users, use[x].by = k
              PROVE  FALSE
            <4>1. use[x].chat # "none" /\ registry[use[x].chat] = k /\ use[x] \in UseRecord
                BY <2>1, <3>1 DEF BrowserInv, BrowserType, CallsFit, Browser!BrowserConstants
            <4>2. use[x].chat \in Chats
                BY <4>1 DEF UseRecord
            <4> QED BY <2>1, <2>2, <4>1, <4>2
        <3> QED BY <3>1
    <2>4. /\ browsers' = Browser!Swept({k}) /\ UNCHANGED use
          /\ control' = [control EXCEPT ![k] = Browser!Closed(k)]
          /\ registry' = [registry EXCEPT ![c] = "none"]
        BY <1>1 DEF Browser!CloseSession
    <2> HIDE DEF k
    <2>5. registry' = [x \in Chats |-> IF registry[x] \in {k} THEN "none" ELSE registry[x]]
        BY <2>1, <2>2, <2>4 DEF BrowserInv, BrowserType
    <2>6. control' = [j \in Controllers |-> IF j \in {k} THEN Browser!Closed(j) ELSE control[j]]
        BY <2>1, <2>4 DEF BrowserInv, BrowserType
    <2>7. {k} \in SUBSET Controllers /\ \A x \in Users : use[x].by \notin {k}
        BY <2>1, <2>3
    <2>8. /\ use' \in [Users -> UseRecord] /\ \A x \in Users : use'[x] = use[x]
          /\ \A x, y \in Users : use'[x].chat # "none" /\ use'[x].chat = use'[y].chat => x = y
        BY <2>4 DEF BrowserInv, BrowserType, ChatsAreApart
    <2> QED BY <2>4, <2>5, <2>6, <2>7, <2>8, Sweeps
<1>2. ASSUME NEW kd \in Browser!CallKinds, Browser!ForSession(u, c, kd)
      PROVE  BrowserInv'
    <2> DEFINE ks == {registry[x] : x \in {y \in Chats : registry[y] # "none" /\ control[registry[y]].idle}}
    <2>1. ks \in SUBSET Controllers /\ \A x \in Users : use[x].by \notin ks
        <3>1. ks \subseteq Controllers
            BY DEF BrowserInv, BrowserType
        <3>2. \A j \in ks : control[j].idle /\ j # "none"
            OBVIOUS
        <3> QED BY <3>1, <3>2 DEF BrowserInv, CallsFit
    <2>2. /\ registry' = [x \in Chats |-> IF registry[x] \in ks THEN "none" ELSE registry[x]]
          /\ browsers' = Browser!Swept(ks)
          /\ control' = [k \in Controllers |-> IF k \in ks THEN Browser!Closed(k) ELSE control[k]]
          /\ \A x \in Users : use[x].chat # c
          /\ use' = [use EXCEPT ![u] = [Browser!NoUse EXCEPT !.at = "session", !.chat = c, !.kind = kd]]
        BY <1>2 DEF Browser!ForSession
    <2> DEFINE r == [Browser!NoUse EXCEPT !.at = "session", !.chat = c, !.kind = kd]
    <2>3. r \in UseRecord /\ r.at = "session" /\ r.by = "none" /\ r.chat = c
        BY DEF Browser!NoUse, UseRecord, UsePlaces
    <2>4. use' = [use EXCEPT ![u] = r]
        BY <2>2
    <2> HIDE DEF ks, r
    <2>5. use' \in [Users -> UseRecord] /\ use'[u] = r /\ \A x \in Users \ {u} : use'[x] = use[x]
        BY <2>3, <2>4 DEF BrowserInv, BrowserType
    <2>6. \A x \in Users :
              \/ use'[x] = use[x]
              \/ use'[x].at = "session" /\ use'[x].by = "none" /\ use'[x].chat \in Chats
        BY <2>3, <2>5
    <2>7. \A x, y \in Users : use'[x].chat # "none" /\ use'[x].chat = use'[y].chat => x = y
        BY <2>2, <2>3, <2>5 DEF BrowserInv, ChatsAreApart
    <2> QED BY <2>1, <2>2, <2>5, <2>6, <2>7, Sweeps
<1> QED BY <1>1, <1>2

\* A browser that no call has used for long is idle.
LEMMA IdleStep ==
    ASSUME BrowserInv, NEW k \in Controllers, Browser!GrowsIdle(k)
    PROVE  BrowserInv'
<1> DEFINE q == [control[k] EXCEPT !.idle = TRUE]
<1>1. q \in ControlRecord /\ q.open = control[k].open /\ q.tab = control[k].tab
    BY DEF BrowserInv, BrowserType, ControlRecord
<1>2. control' = [control EXCEPT ![k] = q] /\ UNCHANGED <<registry, browsers, use>>
    BY DEF Browser!GrowsIdle
<1> HIDE DEF q
<1>3. /\ control' \in [Controllers -> ControlRecord]
      /\ \A j \in Controllers : control'[j].open = control[j].open /\ control'[j].tab = control[j].tab
      /\ \A j \in Controllers \ {k} : control'[j] = control[j]
    BY <1>1, <1>2 DEF BrowserInv, BrowserType
<1>4. \A j \in Controllers : Browser!Tabs(j)' = Browser!Tabs(j) /\ Browser!Current(j)' = Browser!Current(j)
    BY <1>2, <1>3 DEF Browser!Tabs, Browser!Current
<1>5. \A u \in Users : use[u].by # "none" => use[u].by \in Controllers \ {k}
    BY DEF BrowserInv, BrowserType, UseRecord, Browser!GrowsIdle, Browser!Busy
<1>6. BrowserType' /\ ChatsAreApart'
    BY <1>2, <1>3 DEF BrowserInv, BrowserType, ChatsAreApart
<1>7. CallsFit'
    <2>1. \A u \in Users : use[u].at \in {"activated", "closing"} =>
            Browser!Tabs(use[u].by)' = Browser!Tabs(use[u].by)
        <3>1. \A u \in Users : use[u].at \in {"activated", "closing"} => use[u].by # "none"
            BY DEF BrowserInv, CallsFit
        <3> QED BY <1>2, <1>4, <1>5, <3>1
    <2> QED BY <1>2, <1>3, <1>5, <2>1 DEF BrowserInv, CallsFit
<1>8. OpenFits' /\ Browser!BrowsersAreHeld' /\ Browser!CurrentTabIsOpen'
    BY <1>2, <1>3, <1>4 DEF BrowserInv, OpenFits, Browser!BrowsersAreHeld, Browser!CurrentTabIsOpen
<1> QED BY <1>6, <1>7, <1>8 DEF BrowserInv

\* A call comes to a controller: its chat's, or a new one.
LEMMA ControlledStep ==
    ASSUME Browser!BrowserConstants, BrowserInv, NEW u \in Users, Browser!Controlled(u)
    PROVE  BrowserInv'
<1> DEFINE c == use[u].chat
           old == registry[c]
<1>1. use[u] \in UseRecord /\ use[u].at = "session" /\ use[u].by = "none" /\ c # "none"
    BY DEF Browser!Controlled, BrowserInv, BrowserType, CallsFit
<1>2. c \in Chats /\ old \in Controllers \cup {"none"}
    BY <1>1 DEF UseRecord, BrowserInv, BrowserType
<1>3. PICK k \in IF old # "none" /\ control[old].open THEN {old} ELSE Browser!New :
        /\ registry' = [registry EXCEPT ![c] = k]
        /\ control' = [control EXCEPT ![k].idle = FALSE]
        /\ use' = [use EXCEPT ![u].by = k, ![u].at = "begin"]
    BY DEF Browser!Controlled
<1> DEFINE r == [use[u] EXCEPT !.by = k, !.at = "begin"]
           q == [control[k] EXCEPT !.idle = FALSE]
<1>4. k \in Controllers /\ k # "none"
    BY <1>2, <1>3 DEF Browser!New, Browser!BrowserConstants
<1>5. \A x \in Users \ {u} : use[x].by # k
    <2>1. CASE k = old
        <3>1. ASSUME NEW x \in Users \ {u}, use[x].by = k
              PROVE  FALSE
            <4>1. use[x] \in UseRecord /\ use[x].chat # "none" /\ registry[use[x].chat] = k
                BY <1>4, <3>1 DEF BrowserInv, BrowserType, CallsFit
            <4>2. use[x].chat \in Chats
                BY <4>1 DEF UseRecord
            <4>3. use[x].chat = c
                BY <1>2, <1>4, <2>1, <4>1, <4>2 DEF BrowserInv, ChatsAreApart
            <4> QED BY <1>1, <4>3 DEF BrowserInv, ChatsAreApart
        <3> QED BY <3>1
    <2>2. CASE k \in Browser!New
        BY <2>2 DEF Browser!New
    <2> QED BY <1>3, <2>1, <2>2
<1>6. \A d \in Chats \ {c} : registry[d] # k
    BY <1>2, <1>3, <1>4 DEF BrowserInv, ChatsAreApart, Browser!New
<1>7. r \in UseRecord /\ r.at = "begin" /\ r.by = k /\ r.chat = c
    BY <1>1, <1>4 DEF UseRecord, UsePlaces
<1>8. q \in ControlRecord /\ q.open = control[k].open /\ q.tab = control[k].tab /\ ~q.idle
    BY <1>4 DEF BrowserInv, BrowserType, ControlRecord
<1>9. control' = [control EXCEPT ![k] = q] /\ use' = [use EXCEPT ![u] = r]
    <2>1. control' = [control EXCEPT ![k] = q]
        BY <1>3
    <2>2. use' = [use EXCEPT ![u] = r]
        BY <1>3
    <2> QED BY <2>1, <2>2
<1>10. UNCHANGED browsers
    BY DEF Browser!Controlled
<1>11. ~control[old].open \/ k = old \/ old = "none"
    BY <1>3
<1> HIDE DEF r, q
<1>12. /\ registry' \in [Chats -> Controllers \cup {"none"}] /\ registry'[c] = k
       /\ \A d \in Chats \ {c} : registry'[d] = registry[d]
    BY <1>2, <1>3, <1>4 DEF BrowserInv, BrowserType
<1>13. /\ use' \in [Users -> UseRecord] /\ use'[u] = r /\ \A x \in Users \ {u} : use'[x] = use[x]
       /\ control' \in [Controllers -> ControlRecord] /\ ~control'[k].idle
       /\ \A j \in Controllers : control'[j].open = control[j].open /\ control'[j].tab = control[j].tab
       /\ \A j \in Controllers \ {k} : control'[j] = control[j]
    BY <1>4, <1>7, <1>8, <1>9 DEF BrowserInv, BrowserType
<1> HIDE DEF old, c
<1>14. \A j \in Controllers : Browser!Tabs(j)' = Browser!Tabs(j) /\ Browser!Current(j)' = Browser!Current(j)
    BY <1>10, <1>13 DEF Browser!Tabs, Browser!Current
<1>15. BrowserType'
    BY <1>10, <1>12, <1>13 DEF BrowserInv, BrowserType
<1>16. ChatsAreApart'
    <2>1. \A x, y \in Users : use'[x].chat # "none" /\ use'[x].chat = use'[y].chat => x = y
        BY <1>7, <1>13 DEF BrowserInv, ChatsAreApart, c
    <2>2. \A a, d \in Chats : registry'[a] # "none" /\ registry'[a] = registry'[d] => a = d
        BY <1>2, <1>6, <1>12 DEF BrowserInv, ChatsAreApart
    <2> QED BY <2>1, <2>2 DEF ChatsAreApart
<1>17. CallsFit'
    <2>1. ASSUME NEW x \in Users \ {u}
          PROVE  /\ use[x].by # "none" => use[x].by \in Controllers \ {k} /\ use[x].chat \in Chats \ {c}
        <3>1. use[x] \in UseRecord /\ (use[x].by # "none" => use[x].chat # "none")
            BY DEF BrowserInv, BrowserType, CallsFit
        <3>2. use[x].chat # c
            BY <1>1 DEF BrowserInv, ChatsAreApart, c
        <3> QED BY <1>5, <3>1, <3>2 DEF UseRecord
    <2>2. ASSUME NEW x \in Users \ {u}
          PROVE  /\ use'[x].chat = "none" => use'[x].at = "none"
                 /\ use'[x].at \in {"none", "session"} => use'[x].by = "none"
                 /\ use'[x].by # "none" =>
                      /\ use'[x].chat # "none" /\ registry'[use'[x].chat] = use'[x].by
                      /\ ~control'[use'[x].by].idle
                 /\ use'[x].at \notin {"none", "session"} => use'[x].by # "none"
                 /\ use'[x].at = "launch" => ~control'[use'[x].by].open
                 /\ use'[x].at \in {"activated", "closing"} =>
                      use'[x].by \in Controllers /\ use'[x].tab \in Browser!Tabs(use[x].by)'
                 /\ use'[x].at = "closing" => control'[use'[x].by].tab # use'[x].tab
        <3>1. CASE use[x].by = "none"
            BY <1>13, <3>1 DEF BrowserInv, CallsFit
        <3>2. CASE use[x].by # "none"
            <4>1. use[x].by \in Controllers \ {k} /\ use[x].chat \in Chats \ {c}
                BY <2>1, <3>2
            <4>2. /\ Browser!Tabs(use[x].by)' = Browser!Tabs(use[x].by)
                  /\ registry'[use[x].chat] = registry[use[x].chat]
                  /\ control'[use[x].by] = control[use[x].by] /\ use'[x] = use[x]
                <5>1. use'[x] = use[x] /\ use'[x].by \in Controllers
                    BY <1>13, <4>1
                <5>2. Browser!Tabs(use[x].by)' = Browser!Tabs(use[x].by)
                    BY <1>14, <5>1
                <5> QED BY <1>12, <1>13, <4>1, <5>1, <5>2
            <4>3. /\ use[x].at \notin {"none", "session"} /\ use[x].chat # "none" /\ ~control[use[x].by].idle
                  /\ registry[use[x].chat] = use[x].by
                  /\ use[x].at = "launch" => ~control[use[x].by].open
                  /\ use[x].at \in {"activated", "closing"} => use[x].tab \in Browser!Tabs(use[x].by)
                  /\ use[x].at = "closing" => control[use[x].by].tab # use[x].tab
                BY <3>2 DEF BrowserInv, CallsFit
            <4> QED BY <3>2, <4>1, <4>2, <4>3
        <3> QED BY <3>1, <3>2
    <2>3. /\ use'[u].chat # "none" /\ use'[u].at = "begin" /\ use'[u].by = k /\ use'[u].by # "none"
          /\ registry'[use'[u].chat] = k /\ ~control'[k].idle
        BY <1>1, <1>4, <1>7, <1>12, <1>13
    <2> QED BY <2>2, <2>3 DEF CallsFit
<1>18. \A j \in Controllers : control[j].open /\ (\E d \in Chats : registry[d] = j) =>
            \E d \in Chats : registry'[d] = j
    BY <1>2, <1>4, <1>11, <1>12 DEF old, Browser!BrowserConstants
<1>19. OpenFits' /\ Browser!BrowsersAreHeld' /\ Browser!CurrentTabIsOpen'
    BY <1>10, <1>13, <1>14, <1>18 DEF BrowserInv, OpenFits, Browser!BrowsersAreHeld, Browser!CurrentTabIsOpen
<1> QED BY <1>15, <1>16, <1>17, <1>19 DEF BrowserInv

\* What a call under way may rely on.
LEMMA CallFacts ==
    ASSUME Browser!BrowserConstants, BrowserInv, NEW u \in Users, use[u].at \notin {"none", "session"}
    PROVE  /\ use[u].by \in Controllers /\ use[u].by # "none" /\ use[u].chat # "none"
           /\ control[use[u].by] \in ControlRecord /\ browsers[use[u].by] \in Seq(SUBSET Nat)
           /\ ~control[use[u].by].idle
           /\ control[use[u].by].open =>
                /\ Browser!Current(use[u].by) = Len(browsers[use[u].by]) /\ Len(browsers[use[u].by]) > 0
                /\ Browser!Tabs(use[u].by) = browsers[use[u].by][Len(browsers[use[u].by])]
                /\ Browser!Tabs(use[u].by) \subseteq Nat
                /\ control[use[u].by].tab \in Browser!Tabs(use[u].by)
           /\ ~control[use[u].by].open => Browser!Tabs(use[u].by) = {}
           /\ \A i \in DOMAIN browsers[use[u].by] :
                i # Len(browsers[use[u].by]) \/ ~control[use[u].by].open => browsers[use[u].by][i] = {}
<1> DEFINE k == use[u].by
<1>1. k # "none" /\ use[u].chat # "none" /\ ~control[k].idle /\ use[u] \in UseRecord
    BY DEF BrowserInv, BrowserType, CallsFit
<1>2. k \in Controllers
    BY <1>1 DEF UseRecord
<1> HIDE DEF k
<1>3. control[k] \in ControlRecord /\ browsers[k] \in Seq(SUBSET Nat)
    BY <1>2 DEF BrowserInv, BrowserType
<1>4. Browser!Current(k) = Len(browsers[k])
    BY DEF Browser!Current
<1>5. control[k].open => Len(browsers[k]) > 0 /\ control[k].tab \in Browser!Tabs(k)
    BY <1>2, <1>4 DEF BrowserInv, OpenFits, Browser!CurrentTabIsOpen
<1>6. control[k].open => Browser!Tabs(k) = browsers[k][Len(browsers[k])] /\ Browser!Tabs(k) \subseteq Nat
    <2>1. ASSUME NEW s \in Seq(SUBSET Nat), Len(s) > 0
          PROVE  s[Len(s)] \subseteq Nat
        BY <2>1
    <2> QED BY <1>3, <1>4, <1>5, <2>1 DEF Browser!Tabs
<1>7. ~control[k].open => Browser!Tabs(k) = {}
    BY DEF Browser!Tabs
<1>8. \A i \in DOMAIN browsers[k] : i # Len(browsers[k]) \/ ~control[k].open => browsers[k][i] = {}
    BY <1>2, <1>4 DEF BrowserInv, Browser!BrowsersAreHeld
<1> QED BY <1>1, <1>2, <1>3, <1>4, <1>5, <1>6, <1>7, <1>8 DEF k

\* Steps of a call that change no browser.
LEMMA WaitStep ==
    ASSUME Browser!BrowserConstants, BrowserInv, NEW u \in Users,
           \/ Browser!CallBegins(u) \/ Browser!LaunchFails(u) \/ Browser!PageUsed(u) \/ Browser!ActivateTab(u)
    PROVE  BrowserInv'
<1>1. use[u].at \notin {"none", "session"} /\ UNCHANGED <<registry, control, browsers>>
    BY DEF Browser!CallBegins, Browser!LaunchFails, Browser!PageUsed, Browser!ActivateTab
<1>2. use[u].by # "none" /\ use[u] \in UseRecord
    BY <1>1, CallFacts, UseFacts
<1>3. CASE use' = [use EXCEPT ![u] = Browser!NoUse]
    BY <1>1, <1>3, UseFacts, UseStays
<1>4. ASSUME NEW at \in Browser!CallKinds \cup {"launch"}, use' = [use EXCEPT ![u].at = at],
             at = "launch" => ~control[use[u].by].open
      PROVE  BrowserInv'
    <2> DEFINE r == [use[u] EXCEPT !.at = at]
    <2>1. r \in UseRecord /\ r.at = at /\ r.by = use[u].by /\ r.chat = use[u].chat
        BY <1>1, <1>2 DEF UseRecord, UsePlaces, Browser!CallKinds
    <2>2. use' = [use EXCEPT ![u] = r]
        BY <1>4
    <2>3. at \notin {"none", "session", "closing", "activated"}
        BY DEF Browser!CallKinds
    <2> HIDE DEF r
    <2> QED BY <1>1, <1>2, <1>4, <2>1, <2>2, <2>3, UseStays
<1>5. ASSUME NEW t \in Browser!Tabs(use[u].by), use' = [use EXCEPT ![u].at = "activated", ![u].tab = t]
      PROVE  BrowserInv'
    <2> DEFINE r == [use[u] EXCEPT !.at = "activated", !.tab = t]
    <2>1. t \in Nat
        BY <1>1, CallFacts
    <2>2. r \in UseRecord /\ r.at = "activated" /\ r.by = use[u].by /\ r.chat = use[u].chat /\ r.tab = t
        BY <1>1, <1>2, <2>1 DEF UseRecord, UsePlaces
    <2>3. use' = [use EXCEPT ![u] = r]
        BY <1>5
    <2> HIDE DEF r
    <2> QED BY <1>1, <1>2, <2>2, <2>3, UseStays
<1>6. CASE Browser!CallBegins(u)
    <2>1. use[u].kind \in Browser!CallKinds /\ use[u].kind # "launch"
        BY <1>1, UseFacts DEF Browser!CallKinds
    <2>2. CASE Browser!Goes(u, use[u].kind)
        BY <1>4, <2>1, <2>2 DEF Browser!Goes
    <2>3. CASE ~control[use[u].by].open /\ Browser!Goes(u, "launch")
        BY <1>4, <2>3 DEF Browser!Goes
    <2> QED BY <1>3, <1>6, <2>2, <2>3 DEF Browser!CallBegins
<1> QED BY <1>3, <1>5, <1>6 DEF Browser!LaunchFails, Browser!PageUsed, Browser!ActivateTab

\* A new browser has one tab.
LEMMA LaunchedStep ==
    ASSUME Browser!BrowserConstants, BrowserInv, NEW u \in Users, Browser!Launched(u)
    PROVE  BrowserInv'
<1> DEFINE k == use[u].by
           l == browsers[k]
           bs == Append(l, {1})
           r == [use[u] EXCEPT !.at = use[u].kind]
           q == [control[k] EXCEPT !.open = TRUE, !.tab = 1, !.used = 1]
<1>1. use[u].at = "launch" /\ ~control[k].open /\ UNCHANGED registry
    BY DEF Browser!Launched, BrowserInv, CallsFit
<1>2. /\ k \in Controllers /\ k # "none" /\ control[k] \in ControlRecord /\ l \in Seq(SUBSET Nat)
      /\ ~control[k].idle /\ \A i \in DOMAIN l : l[i] = {}
    BY <1>1, CallFacts
<1>3. use[u] \in UseRecord /\ use[u].kind \in Browser!CallKinds
    BY <1>1, UseFacts
<1>4. /\ r \in UseRecord /\ r.chat = use[u].chat /\ r.by = k
      /\ r.at \notin {"none", "session", "launch", "activated", "closing"}
    BY <1>3 DEF UseRecord, UsePlaces, Browser!CallKinds
<1>5. q \in ControlRecord /\ q.open /\ ~q.idle /\ q.tab = 1
    BY <1>2 DEF ControlRecord
<1>6. use' = [use EXCEPT ![u] = r] /\ browsers' = [browsers EXCEPT ![k] = bs]
    BY DEF Browser!Launched, Browser!Goes
<1>7. control' = [control EXCEPT ![k] = q]
    BY DEF Browser!Launched
<1> HIDE DEF l
<1>8. /\ bs \in Seq(SUBSET Nat) /\ Len(bs) > 0 /\ bs[Len(bs)] = {1}
      /\ \A i \in 1..(Len(bs) - 1) : bs[i] = {}
    BY <1>2
<1>9. k = use[u].by /\ r.at \notin {"activated", "closing"} /\ q.tab \in bs[Len(bs)]
    BY <1>4, <1>5, <1>8
<1> HIDE DEF r, q, bs, k
<1> QED BY <1>1, <1>2, <1>4, <1>5, <1>6, <1>7, <1>8, <1>9, BrowserChanges

\* The calls that change the tabs of an open browser, or end.
LEMMA TabStep ==
    ASSUME Browser!BrowserConstants, BrowserInv, NEW u \in Users,
           Browser!OpenTab(u) \/ Browser!TabActivated(u) \/ Browser!CloseTab(u) \/ Browser!TabClosed(u)
    PROVE  BrowserInv'
<1> DEFINE k == use[u].by
           l == browsers[k]
           tabs == l[Len(l)]
<1>1. use[u].at \notin {"none", "session"} /\ UNCHANGED registry
    BY DEF Browser!OpenTab, Browser!TabActivated, Browser!CloseTab, Browser!TabClosed
<1>2. /\ k \in Controllers /\ k # "none" /\ control[k] \in ControlRecord /\ l \in Seq(SUBSET Nat)
      /\ ~control[k].idle /\ (~control[k].open => Browser!Tabs(k) = {})
    BY <1>1, CallFacts
<1>3. control[k].open =>
        /\ Browser!Current(k) = Len(l) /\ Len(l) > 0 /\ Browser!Tabs(k) = tabs /\ tabs \subseteq Nat
        /\ control[k].tab \in tabs /\ \A i \in 1..(Len(l) - 1) : l[i] = {}
    <2>1. control[k].open => \A i \in DOMAIN l : i # Len(l) => l[i] = {}
        BY <1>1, CallFacts
    <2>2. control[k].open =>
            /\ Browser!Current(k) = Len(l) /\ Len(l) > 0 /\ Browser!Tabs(k) = tabs /\ tabs \subseteq Nat
            /\ control[k].tab \in tabs
        BY <1>1, CallFacts
    <2> HIDE DEF l, k
    <2>3. ASSUME NEW i \in 1..(Len(l) - 1)
          PROVE  i \in DOMAIN l /\ i # Len(l)
        BY <1>2
    <2> QED BY <2>1, <2>2, <2>3
<1>4. /\ use[u] \in UseRecord /\ Browser!NoUse \in UseRecord /\ Browser!NoUse.at = "none"
      /\ Browser!NoUse.by = "none" /\ Browser!NoUse.chat = "none"
    BY UseFacts
<1>5. CASE use' = [use EXCEPT ![u] = Browser!NoUse] /\ UNCHANGED <<control, browsers>>
    BY <1>1, <1>4, <1>5, UseStays
<1>6. browsers = [browsers EXCEPT ![k] = l]
    BY <1>2 DEF BrowserInv, BrowserType
<1>7. ASSUME NEW q \in ControlRecord, q.open, ~q.idle, control' = [control EXCEPT ![k] = q],
             NEW r \in UseRecord, use' = [use EXCEPT ![u] = r],
             NEW left \in SUBSET Nat, browsers' = [browsers EXCEPT ![k][Len(l)] = left],
             q.tab \in left, control[k].open,
             \/ r.at = "none" /\ r.by = "none" /\ r.chat = "none"
             \/ r.chat = use[u].chat /\ r.by = k /\ r.at = "closing" /\ r.tab \in left /\ q.tab # r.tab
      PROVE  BrowserInv'
    <2> DEFINE bs == [l EXCEPT ![Len(l)] = left]
    <2>1. browsers' = [browsers EXCEPT ![k] = bs]
        BY <1>7
    <2>2. l \in Seq(SUBSET Nat) /\ Len(l) > 0 /\ \A i \in 1..(Len(l) - 1) : l[i] = {}
        BY <1>2, <1>3, <1>7
    <2> HIDE DEF l, k
    <2>3. /\ bs \in Seq(SUBSET Nat) /\ Len(bs) > 0 /\ bs[Len(bs)] = left
          /\ \A i \in 1..(Len(bs) - 1) : bs[i] = {}
        BY <2>2
    <2>4. k = use[u].by /\ q.tab \in bs[Len(bs)]
        BY <1>7, <2>3 DEF k
    <2>5. CASE r.at = "none" /\ r.by = "none" /\ r.chat = "none"
        <3>1. q.open /\ ~q.idle /\ r \in UseRecord /\ q \in ControlRecord
            BY <1>7
        <3>2. control' = [control EXCEPT ![k] = q] /\ use' = [use EXCEPT ![u] = r]
            BY <1>7
        <3>3. r.chat \in {"none", use[u].chat} /\ r.at \notin {"activated", "closing"}
            BY <2>5
        <3> HIDE DEF bs
        <3> QED BY <1>1, <1>2, <2>1, <2>3, <2>4, <2>5, <3>1, <3>2, <3>3, BrowserChanges
    <2>6. CASE r.chat = use[u].chat /\ r.by = k /\ r.at = "closing" /\ r.tab \in bs[Len(bs)] /\ q.tab # r.tab
        <3>1. /\ r.chat = use[u].chat /\ r.by = k /\ r.at \notin {"none", "session", "launch"}
              /\ r.at \in {"activated", "closing"} => r.tab \in bs[Len(bs)]
              /\ r.at = "closing" => q.tab # r.tab
            BY <2>6
        <3>2. q.open /\ ~q.idle /\ r \in UseRecord /\ q \in ControlRecord
            BY <1>7
        <3>3. control' = [control EXCEPT ![k] = q] /\ use' = [use EXCEPT ![u] = r]
            BY <1>7
        <3> HIDE DEF bs
        <3> QED BY <1>1, <1>2, <2>1, <2>3, <2>4, <3>1, <3>2, <3>3, BrowserChanges
    <2> QED BY <1>7, <2>3, <2>5, <2>6
<1>8. CASE Browser!OpenTab(u)
    <2> DEFINE t == control[k].used + 1
               q == [control[k] EXCEPT !.tab = t, !.used = t]
    <2>1. CASE control[k].open /\ t <= MaxTabs
        <3>1. browsers' = [browsers EXCEPT ![k][Len(l)] = tabs \cup {t}]
            BY <1>3, <1>8, <2>1 DEF Browser!OpenTab
        <3>2. control' = [control EXCEPT ![k] = q] /\ use' = [use EXCEPT ![u] = Browser!NoUse]
            BY <1>8, <2>1 DEF Browser!OpenTab
        <3>3. t \in Nat
            BY <1>2 DEF ControlRecord
        <3> HIDE DEF t
        <3>4. q \in ControlRecord /\ q.open /\ ~q.idle /\ q.tab = t
            BY <1>2, <2>1, <3>3 DEF ControlRecord
        <3> HIDE DEF q, k, l, tabs
        <3>5. tabs \cup {t} \in SUBSET Nat
            BY <1>3, <2>1, <3>3
        <3> QED BY <1>4, <1>7, <2>1, <3>1, <3>2, <3>4, <3>5
    <2>2. CASE ~(control[k].open /\ t <= MaxTabs)
        BY <1>5, <1>8, <2>2 DEF Browser!OpenTab
    <2> QED BY <2>1, <2>2
<1>9. CASE Browser!TabActivated(u)
    <2> DEFINE q == [control[k] EXCEPT !.tab = use[u].tab]
    <2>1. use[u].tab \in Browser!Tabs(k)
        BY <1>9 DEF Browser!TabActivated, BrowserInv, CallsFit
    <2>2. control[k].open /\ use[u].tab \in tabs /\ tabs \in SUBSET Nat
        BY <1>2, <1>3, <2>1
    <2>3. q \in ControlRecord /\ q.open /\ ~q.idle /\ q.tab = use[u].tab
        BY <1>2, <2>2 DEF ControlRecord
    <2>4. control' = [control EXCEPT ![k] = q] /\ use' = [use EXCEPT ![u] = Browser!NoUse] /\ browsers' = browsers
        BY <1>9 DEF Browser!TabActivated
    <2>5. browsers' = [browsers EXCEPT ![k][Len(l)] = tabs]
        BY <1>2, <1>3, <1>6, <2>2, <2>4
    <2> HIDE DEF q, k, l, tabs
    <2> QED BY <1>4, <1>7, <2>2, <2>3, <2>4, <2>5
<1>10. CASE Browser!CloseTab(u)
    <2>1. ASSUME NEW t \in Browser!Tabs(k), Browser!Tabs(k) # {t},
                 control' = [control EXCEPT ![k].tab = Browser!Leave(Browser!Tabs(k), t, @)],
                 use' = [use EXCEPT ![u].at = "closing", ![u].tab = t]
          PROVE  BrowserInv'
        <3> DEFINE q == [control[k] EXCEPT !.tab = Browser!Leave(tabs, t, control[k].tab)]
                   r == [use[u] EXCEPT !.at = "closing", !.tab = t]
        <3>1. control[k].open /\ t \in tabs /\ tabs \in SUBSET Nat /\ control[k].tab \in tabs /\ tabs # {t}
              /\ Browser!Tabs(k) = tabs
            BY <1>2, <1>3, <2>1
        <3>2. Browser!Min(tabs \ {t}) \in tabs \ {t}
            BY <3>1, MinIsMember
        <3>3. Browser!Leave(tabs, t, control[k].tab) \in tabs \ {t}
            BY <3>1, <3>2 DEF Browser!Leave
        <3>4. q \in ControlRecord /\ q.open /\ ~q.idle /\ q.tab \in tabs /\ q.tab # t
            BY <1>2, <3>1, <3>3 DEF ControlRecord
        <3>5. use[u].at = "closeTab"
            BY <1>10 DEF Browser!CloseTab
        <3>6. r \in UseRecord /\ r.at = "closing" /\ r.tab = t /\ r.by = k /\ r.chat = use[u].chat
            BY <1>4, <3>1, <3>5 DEF UseRecord, UsePlaces
        <3>7. control' = [control EXCEPT ![k] = q] /\ use' = [use EXCEPT ![u] = r]
            BY <2>1, <3>1
        <3>8. browsers' = browsers
            BY <1>10 DEF Browser!CloseTab
        <3>9. browsers' = [browsers EXCEPT ![k][Len(l)] = tabs]
            BY <1>2, <1>3, <1>6, <3>1, <3>8
        <3> HIDE DEF q, r, k, l, tabs
        <3> QED BY <1>7, <3>1, <3>4, <3>6, <3>7, <3>9
    <2>2. UNCHANGED browsers
        BY <1>10 DEF Browser!CloseTab
    <2> QED BY <1>5, <1>10, <2>1, <2>2 DEF Browser!CloseTab
<1>11. CASE Browser!TabClosed(u)
    <2> DEFINE t == use[u].tab
    <2>1. t \in Browser!Tabs(k) /\ control[k].tab # t
        BY <1>11 DEF Browser!TabClosed, BrowserInv, CallsFit
    <2>2. control[k].open /\ tabs \ {t} \in SUBSET Nat /\ control[k].tab \in tabs \ {t}
        BY <1>2, <1>3, <2>1
    <2>3. /\ control' = control /\ use' = [use EXCEPT ![u] = Browser!NoUse]
          /\ browsers' = [browsers EXCEPT ![k][Len(l)] = tabs \ {t}]
        BY <1>3, <1>11, <2>2 DEF Browser!TabClosed
    <2>4. control' = [control EXCEPT ![k] = control[k]]
        BY <1>2, <2>3 DEF BrowserInv, BrowserType
    <2> HIDE DEF k, l, tabs, t
    <2> QED BY <1>2, <1>4, <1>7, <2>2, <2>3, <2>4
<1> QED BY <1>8, <1>9, <1>10, <1>11

LEMMA BrowserInit ==
    ASSUME Browser!BrowserConstants, Browser!Init
    PROVE  BrowserInv
<1>1. BrowserType
    <2>1. Browser!Shut \in ControlRecord /\ Browser!NoUse \in UseRecord /\ <<>> \in Seq(SUBSET Nat)
        BY DEF Browser!Shut, ControlRecord, Browser!NoUse, UseRecord, UsePlaces
    <2> QED BY <2>1 DEF BrowserType, Browser!Init
<1>2. \A k \in Controllers : ~control[k].open /\ browsers[k] = <<>>
    BY DEF Browser!Init, Browser!Shut
<1>3. \A u \in Users : use[u].at = "none" /\ use[u].chat = "none" /\ use[u].by = "none"
    BY DEF Browser!Init, Browser!NoUse
<1>4. ChatsAreApart
    BY <1>3 DEF ChatsAreApart, Browser!Init
<1>5. CallsFit
    BY <1>3 DEF CallsFit
<1>6. OpenFits /\ Browser!BrowsersAreHeld /\ Browser!CurrentTabIsOpen
    BY <1>2 DEF OpenFits, Browser!BrowsersAreHeld, Browser!CurrentTabIsOpen
<1> QED BY <1>1, <1>4, <1>5, <1>6 DEF BrowserInv

LEMMA BrowserStep ==
    ASSUME Browser!BrowserConstants, ~Shared, BrowserInv, [Browser!Next]_(Browser!browserVars)
    PROVE  BrowserInv'
<1>1. CASE UNCHANGED Browser!browserVars
    <2>1. UNCHANGED <<registry, control, browsers, use>>
        BY <1>1 DEF Browser!browserVars
    <2> QED BY <2>1 DEF BrowserInv, BrowserType, ChatsAreApart, CallsFit, OpenFits, Browser!BrowsersAreHeld,
                        Browser!CurrentTabIsOpen, Browser!Tabs, Browser!Current
<1>2. ASSUME NEW u \in Users, Browser!BrowserStep(u)
      PROVE  BrowserInv'
    BY <1>2, ControlledStep, WaitStep, LaunchedStep, TabStep DEF Browser!BrowserStep
<1> QED BY <1>1, <1>2, IdleStep, SessionStep DEF Browser!Next

\* Calls that work for different chats never lose a browser: one that runs is
\* the registry's, its controller can close it, and its current tab is open,
\* whatever was awaited when (the calls of one chat are apart: ~Shared).
THEOREM BrowsersStayHeld ==
    ASSUME Browser!BrowserConstants, ~Shared
    PROVE  Browser!Spec => [](Browser!BrowsersAreHeld /\ Browser!CurrentTabIsOpen)
<1>1. Browser!Init => BrowserInv
    BY BrowserInit
<1>2. BrowserInv /\ [Browser!Next]_(Browser!browserVars) => BrowserInv'
    BY BrowserStep
<1>3. BrowserInv => Browser!BrowsersAreHeld /\ Browser!CurrentTabIsOpen
    BY DEF BrowserInv
<1> QED BY <1>1, <1>2, <1>3, PTL DEF Browser!Spec

\* The types of the registry and the controllers, whether or not two calls work
\* for one chat.
IsControl(r) ==
    /\ r = [f \in {"open", "tab", "used", "idle"} |-> r[f]]
    /\ r.open \in BOOLEAN /\ r.used \in 0..MaxTabs

RegistryTyped ==
    /\ registry \in [Chats -> Controllers \cup {"none"}]
    /\ DOMAIN control = Controllers /\ control = [k \in Controllers |-> control[k]]
    /\ \A k \in Controllers : IsControl(control[k])

LEMMA ControlChanges ==
    ASSUME RegistryTyped, NEW k, NEW q, k \in Controllers => IsControl(q),
           control' = [control EXCEPT ![k] = q], registry' \in [Chats -> Controllers \cup {"none"}]
    PROVE  RegistryTyped'
<1>1. DOMAIN control' = Controllers /\ control' = [j \in Controllers |-> control'[j]]
    BY DEF RegistryTyped
<1>2. \A j \in Controllers : control'[j] = IF j = k THEN q ELSE control[j]
    BY DEF RegistryTyped
<1>3. \A j \in Controllers : IsControl(control'[j])
    BY <1>2 DEF RegistryTyped
<1> QED BY <1>1, <1>3 DEF RegistryTyped, IsControl

\* What the steps make of a controller.
Idled(r, b) == [r EXCEPT !.idle = b]
Tabbed(r, t) == [r EXCEPT !.tab = t]
Opened(r, t) == [r EXCEPT !.tab = t, !.used = t]
Started(r) == [r EXCEPT !.open = TRUE, !.tab = 1, !.used = 1]

LEMMA ControlsStayTyped ==
    ASSUME NEW r, IsControl(r)
    PROVE  /\ \A b : IsControl(Idled(r, b))
           /\ \A t : IsControl(Tabbed(r, t))
           /\ \A t \in 0..MaxTabs : IsControl(Opened(r, t))
           /\ 1 \in 0..MaxTabs => IsControl(Started(r))
           /\ IsControl([Browser!Shut EXCEPT !.used = r.used])
<1>1. ASSUME NEW b PROVE IsControl(Idled(r, b))
    BY DEF IsControl, Idled
<1>2. ASSUME NEW t PROVE IsControl(Tabbed(r, t))
    BY DEF IsControl, Tabbed
<1>3. ASSUME NEW t \in 0..MaxTabs PROVE IsControl(Opened(r, t))
    BY DEF IsControl, Opened
<1>4. ASSUME 1 \in 0..MaxTabs PROVE IsControl(Started(r))
    BY <1>4 DEF IsControl, Started
<1>5. IsControl([Browser!Shut EXCEPT !.used = r.used])
    <2> DEFINE q == [Browser!Shut EXCEPT !.used = r.used]
    <2>1. r.used \in 0..MaxTabs
        BY DEF IsControl
    <2>2. q.open \in BOOLEAN /\ q.used = r.used
        BY DEF Browser!Shut
    <2>3. q = [f \in {"open", "tab", "used", "idle"} |-> q[f]]
        BY DEF Browser!Shut
    <2> HIDE DEF q
    <2>4. IsControl(q)
        BY <2>1, <2>2, <2>3 DEF IsControl
    <2> QED BY <2>4 DEF q
<1> QED BY <1>1, <1>2, <1>3, <1>4, <1>5

LEMMA RegistryStep ==
    ASSUME Browser!BrowserConstants, RegistryTyped, [Browser!Next]_(Browser!browserVars)
    PROVE  RegistryTyped'
<1> DEFINE R == [Chats -> Controllers \cup {"none"}]
<1>r. registry \in R /\ \A k \in Controllers : IsControl(control[k])
    BY DEF RegistryTyped
<1>n. MaxTabs \in Nat \ {0} /\ 1 \in 0..MaxTabs
    BY DEF Browser!BrowserConstants
<1>0. CASE UNCHANGED <<registry, control>>
    BY <1>0 DEF RegistryTyped, IsControl
<1>1. ASSUME NEW k \in Controllers, Browser!GrowsIdle(k) PROVE RegistryTyped'
    <2> DEFINE q == Idled(control[k], TRUE)
    <2>1. IsControl(q)
        BY <1>r, ControlsStayTyped
    <2>2. control' = [control EXCEPT ![k] = q] /\ UNCHANGED registry
        BY <1>1 DEF Browser!GrowsIdle, Idled
    <2> HIDE DEF q
    <2> QED BY <1>r, <2>1, <2>2, ControlChanges
<1>2. ASSUME NEW u \in Users, NEW c \in Chats, NEW what, Browser!ForSession(u, c, what) PROVE RegistryTyped'
    <2>1. PICK swept :
            /\ registry' = [x \in Chats |-> IF registry[x] \in swept THEN "none" ELSE registry[x]]
            /\ control' = [k \in Controllers |-> IF k \in swept THEN Browser!Closed(k) ELSE control[k]]
        BY <1>2 DEF Browser!ForSession
    <2>2. registry' \in R
        BY <1>r, <2>1
    <2>3. \A k \in Controllers : IsControl(Browser!Closed(k))
        BY <1>r, ControlsStayTyped DEF Browser!Closed
    <2>4. DOMAIN control' = Controllers /\ control' = [k \in Controllers |-> control'[k]]
        BY <2>1
    <2>5. ASSUME NEW k \in Controllers PROVE IsControl(control'[k])
        <3>1. control'[k] = Browser!Closed(k) \/ control'[k] = control[k]
            BY <2>1
        <3> QED BY <1>r, <2>3, <3>1
    <2> QED BY <2>2, <2>4, <2>5 DEF RegistryTyped, IsControl
<1>3. ASSUME NEW u \in Users, Browser!Controlled(u) PROVE RegistryTyped'
    <2> DEFINE c == use[u].chat
               old == registry[c]
    <2>1. PICK k \in IF old # "none" /\ control[old].open THEN {old} ELSE Browser!New :
            /\ registry' = [registry EXCEPT ![c] = k]
            /\ control' = [control EXCEPT ![k].idle = FALSE]
        BY <1>3 DEF Browser!Controlled
    <2>2. c \in Chats => k \in Controllers \cup {"none"}
        BY <1>r, <2>1 DEF Browser!New
    <2>3. registry' \in R
        BY <1>r, <2>1, <2>2
    <2> DEFINE q == Idled(control[k], FALSE)
    <2>4. k \in Controllers => IsControl(q)
        BY <1>r, ControlsStayTyped
    <2>5. control' = [control EXCEPT ![k] = q]
        BY <2>1 DEF Idled
    <2> HIDE DEF q
    <2> QED BY <2>3, <2>4, <2>5, ControlChanges
<1>4. ASSUME NEW u \in Users, NEW c \in Chats, Browser!CloseSession(u, c) PROVE RegistryTyped'
    <2> DEFINE k == registry[c]
               q == Browser!Closed(k)
    <2>1. registry' = [registry EXCEPT ![c] = "none"] /\ control' = [control EXCEPT ![k] = q]
        BY <1>4 DEF Browser!CloseSession
    <2>2. registry' \in R
        BY <1>r, <2>1
    <2>3. k \in Controllers => IsControl(q)
        BY <1>r, ControlsStayTyped DEF Browser!Closed
    <2> HIDE DEF q, k
    <2> QED BY <2>1, <2>2, <2>3, ControlChanges
<1>5. ASSUME NEW u \in Users, Browser!Launched(u) PROVE RegistryTyped'
    <2> DEFINE k == use[u].by
               q == Started(control[k])
    <2>1. UNCHANGED registry /\ control' = [control EXCEPT ![k] = q]
        BY <1>5 DEF Browser!Launched, Started
    <2>2. k \in Controllers => IsControl(q)
        BY <1>r, <1>n, ControlsStayTyped
    <2> HIDE DEF q, k
    <2> QED BY <1>r, <2>1, <2>2, ControlChanges
<1>6. ASSUME NEW u \in Users, Browser!OpenTab(u) PROVE RegistryTyped'
    <2> DEFINE k == use[u].by
               t == control[k].used + 1
               q == Opened(control[k], t)
    <2>1. CASE control[k].open /\ t <= MaxTabs
        <3>1. UNCHANGED registry /\ control' = [control EXCEPT ![k] = q]
            BY <1>6, <2>1 DEF Browser!OpenTab, Opened
        <3>2. k \in Controllers => t \in 0..MaxTabs
            <4>1. SUFFICES ASSUME k \in Controllers PROVE t \in 0..MaxTabs
                OBVIOUS
            <4>2. IsControl(control[k])
                BY <1>r, <4>1
            <4>3. control[k].used \in 0..MaxTabs
                BY <4>2 DEF IsControl
            <4> QED BY <1>n, <2>1, <4>3
        <3>3. k \in Controllers => IsControl(q)
            <4> HIDE DEF t
            <4> QED BY <1>r, <3>2, ControlsStayTyped
        <3> HIDE DEF q, k
        <3> QED BY <1>r, <3>1, <3>3, ControlChanges
    <2>2. CASE ~(control[k].open /\ t <= MaxTabs)
        BY <1>0, <1>6, <2>2 DEF Browser!OpenTab
    <2> QED BY <2>1, <2>2
<1>7. ASSUME NEW u, NEW t, control' = [control EXCEPT ![use[u].by].tab = t], UNCHANGED registry
      PROVE  RegistryTyped'
    <2> DEFINE k == use[u].by
               q == Tabbed(control[k], t)
    <2>1. control' = [control EXCEPT ![k] = q]
        BY <1>7 DEF Tabbed
    <2>2. k \in Controllers => IsControl(q)
        BY <1>r, ControlsStayTyped
    <2> HIDE DEF q, k
    <2> QED BY <1>r, <1>7, <2>1, <2>2, ControlChanges
<1>8. ASSUME NEW u \in Users, Browser!TabActivated(u) \/ Browser!CloseTab(u) PROVE RegistryTyped'
    <2>1. UNCHANGED registry
        BY <1>8 DEF Browser!TabActivated, Browser!CloseTab
    <2>2. UNCHANGED control \/ \E t : control' = [control EXCEPT ![use[u].by].tab = t]
        BY <1>8 DEF Browser!TabActivated, Browser!CloseTab
    <2> QED BY <1>0, <1>7, <2>1, <2>2
<1>9. ASSUME NEW u \in Users,
             \/ Browser!CallBegins(u) \/ Browser!LaunchFails(u) \/ Browser!PageUsed(u)
             \/ Browser!ActivateTab(u) \/ Browser!TabClosed(u)
      PROVE  RegistryTyped'
    BY <1>0, <1>9 DEF Browser!CallBegins, Browser!LaunchFails, Browser!PageUsed, Browser!ActivateTab,
                      Browser!TabClosed
<1>10. CASE UNCHANGED Browser!browserVars
    BY <1>0, <1>10 DEF Browser!browserVars
<1> QED BY <1>1, <1>2, <1>3, <1>4, <1>5, <1>6, <1>8, <1>9, <1>10 DEF Browser!Next, Browser!BrowserStep

\* The registry and the controllers are what the code can make of them
\* (browserController.ts), also if two calls work for one chat.
THEOREM BrowserTypeCorrect ==
    ASSUME Browser!BrowserConstants
    PROVE  Browser!Spec => []Browser!TypeOK
<1>1. Browser!Init => RegistryTyped
    <2> SUFFICES ASSUME Browser!Init PROVE RegistryTyped
        OBVIOUS
    <2>1. IsControl(Browser!Shut)
        BY DEF IsControl, Browser!Shut, Browser!BrowserConstants
    <2> QED BY <2>1 DEF Browser!Init, RegistryTyped
<1>2. RegistryTyped /\ [Browser!Next]_(Browser!browserVars) => RegistryTyped'
    BY RegistryStep
<1>3. RegistryTyped => Browser!TypeOK
    BY DEF RegistryTyped, IsControl, Browser!TypeOK
<1> QED BY <1>1, <1>2, <1>3, PTL DEF Browser!Spec

-----------------------------------------------------------------------------
(* Recursive functions over lists. *)

LEMMA NumbersInduct ==
    ASSUME NEW Good, 0 \in Good, \A n \in Nat : n \in Good => n + 1 \in Good
    PROVE  Nat \subseteq Good
<1> SUFFICES ASSUME Nat \ Good # {} PROVE FALSE
    OBVIOUS
<1>1. PICK m \in Nat \ Good : \A k \in Nat \ Good : m <= k
    BY LeastNumber
<1>2. m - 1 \in Nat /\ m - 1 \in Good
    BY <1>1
<1>3. (m - 1) + 1 \in Good
    BY <1>2
<1> QED BY <1>1, <1>3

\* g is what a step makes of base, n times.
Iterates(g, base, step, L) ==
    g = [n \in 0..L |-> IF n = 0 THEN base ELSE step[<<g[n - 1], n>>]]

\* Whatever the step, there is such a function, as far as one likes.
LEMMA IterationExists ==
    ASSUME NEW base, NEW step, NEW L \in Nat
    PROVE  \E g : Iterates(g, base, step, L)
<1> DEFINE Good == {n \in Nat : \E g : Iterates(g, base, step, n)}
<1>1. 0 \in Good
    <2> DEFINE g == [n \in 0..0 |-> base]
    <2>1. g = [n \in 0..0 |-> IF n = 0 THEN base ELSE step[<<g[n - 1], n>>]]
        OBVIOUS
    <2> QED BY <2>1 DEF Iterates
<1>2. ASSUME NEW n \in Nat, n \in Good PROVE n + 1 \in Good
    <2>1. PICK g : Iterates(g, base, step, n)
        BY <1>2
    <2> DEFINE h == [k \in 0..(n + 1) |-> IF k <= n THEN g[k] ELSE step[<<g[n], n + 1>>]]
    <2>2. ASSUME NEW k \in 0..(n + 1)
          PROVE  h[k] = IF k = 0 THEN base ELSE step[<<h[k - 1], k>>]
        <3>1. CASE k <= n
            <4>1. k \in 0..n /\ h[k] = g[k] /\ (k # 0 => k - 1 \in 0..(n + 1) /\ h[k - 1] = g[k - 1])
                BY <3>1
            <4>2. g[k] = IF k = 0 THEN base ELSE step[<<g[k - 1], k>>]
                BY <2>1, <4>1 DEF Iterates
            <4> QED BY <4>1, <4>2
        <3>2. CASE k = n + 1
            <4>1. k # 0 /\ ~(k <= n) /\ k - 1 = n /\ n \in 0..(n + 1)
                BY <3>2
            <4>2. h[n] = g[n] /\ h[k] = step[<<g[n], n + 1>>]
                BY <3>2, <4>1
            <4> QED BY <3>2, <4>1, <4>2
        <3> QED BY <3>1, <3>2
    <2>3. h = [k \in 0..(n + 1) |-> h[k]]
        OBVIOUS
    <2> HIDE DEF h
    <2>4. h = [k \in 0..(n + 1) |-> IF k = 0 THEN base ELSE step[<<h[k - 1], k>>]]
        BY <2>2, <2>3
    <2> QED BY <2>4 DEF Iterates
<1> HIDE DEF Good
<1>3. Nat \subseteq Good
    BY <1>1, <1>2, NumbersInduct
<1> QED BY <1>3 DEF Good

\* What a filter leaves, by the number of members it has seen.
Filtered(f, s, T) ==
    f = [n \in 0..Len(s) |->
            IF n = 0 THEN <<>>
            ELSE IF s[n] \in T THEN Append(f[n - 1], s[n]) ELSE f[n - 1]]

LEMMA FilterExists ==
    ASSUME NEW S, NEW s \in Seq(S), NEW T
    PROVE  \E f \in [0..Len(s) -> Seq(S)] : Filtered(f, s, T)
<1> DEFINE step == [vn \in Seq(S) \X (1..Len(s)) |->
                       IF s[vn[2]] \in T THEN Append(vn[1], s[vn[2]]) ELSE vn[1]]
<1>1. Len(s) \in Nat
    OBVIOUS
<1>2. \A v \in Seq(S), n \in 1..Len(s) :
          /\ step[<<v, n>>] = IF s[n] \in T THEN Append(v, s[n]) ELSE v
          /\ step[<<v, n>>] \in Seq(S)
    OBVIOUS
<1> HIDE DEF step
<1>3. PICK g : Iterates(g, <<>>, step, Len(s))
    BY <1>1, IterationExists
<1>4. \A n \in 0..Len(s) : g[n] = IF n = 0 THEN <<>> ELSE step[<<g[n - 1], n>>]
    BY <1>3 DEF Iterates
<1> DEFINE Good == {n \in Nat : n <= Len(s) => g[n] \in Seq(S)}
<1>5. 0 \in Good
    <2>1. 0 \in 0..Len(s) /\ <<>> \in Seq(S)
        BY <1>1
    <2>2. g[0] = <<>>
        BY <1>4, <2>1
    <2> QED BY <2>1, <2>2
<1>6. ASSUME NEW n \in Nat, n \in Good PROVE n + 1 \in Good
    <2> SUFFICES ASSUME n + 1 <= Len(s) PROVE g[n + 1] \in Seq(S)
        OBVIOUS
    <2>1. g[n] \in Seq(S) /\ n + 1 \in 1..Len(s)
        BY <1>1, <1>6
    <2>2. g[n + 1] = step[<<g[n], n + 1>>]
        BY <1>1, <1>4, <2>1
    <2> QED BY <1>2, <2>1, <2>2
<1> HIDE DEF Good
<1>7. Nat \subseteq Good
    BY <1>5, <1>6, NumbersInduct
<1>8. ASSUME NEW n \in 0..Len(s)
      PROVE  /\ g[n] \in Seq(S)
             /\ g[n] = IF n = 0 THEN <<>>
                       ELSE IF s[n] \in T THEN Append(g[n - 1], s[n]) ELSE g[n - 1]
    <2>1. \A k \in 0..Len(s) : g[k] \in Seq(S)
        BY <1>1, <1>7 DEF Good
    <2>2. CASE n # 0
        <3>1. n - 1 \in 0..Len(s) /\ n \in 1..Len(s)
            BY <1>1, <2>2
        <3> QED BY <1>2, <1>4, <2>1, <2>2, <3>1
    <2> QED BY <1>4, <2>1, <2>2
<1>9. g = [n \in 0..Len(s) |-> g[n]]
    BY <1>3 DEF Iterates
<1> QED BY <1>8, <1>9 DEF Filtered

\* A filter's result is a list of what it was given.
LEMMA ThoseAreMembers ==
    ASSUME NEW S, NEW s \in Seq(S), NEW T
    PROVE  Fetch!Those(s, T) \in Seq(S) /\ Providers!Those(s, T) \in Seq(S)
<1>1. PICK f \in [0..Len(s) -> Seq(S)] : Filtered(f, s, T)
    BY FilterExists
<1>2. \A g : Filtered(g, s, T) => g[Len(s)] \in Seq(S)
    <2> SUFFICES ASSUME NEW g, Filtered(g, s, T) PROVE g[Len(s)] \in Seq(S)
        OBVIOUS
    <2>1. \A n \in 0..Len(s) :
              g[n] = IF n = 0 THEN <<>>
                     ELSE IF s[n] \in T THEN Append(g[n - 1], s[n]) ELSE g[n - 1]
        BY DEF Filtered
    <2> DEFINE Good == {n \in Nat : n <= Len(s) => g[n] \in Seq(S)}
    <2>2. 0 \in Good
        <3>1. 0 \in 0..Len(s) /\ <<>> \in Seq(S)
            OBVIOUS
        <3>2. g[0] = <<>>
            BY <2>1, <3>1
        <3> QED BY <3>1, <3>2
    <2>3. ASSUME NEW n \in Nat, n \in Good PROVE n + 1 \in Good
        <3> SUFFICES ASSUME n + 1 <= Len(s) PROVE g[n + 1] \in Seq(S)
            OBVIOUS
        <3>1. g[n] \in Seq(S) /\ s[n + 1] \in S
            BY <2>3
        <3>2. g[n + 1] = IF s[n + 1] \in T THEN Append(g[n], s[n + 1]) ELSE g[n]
            BY <2>1
        <3> QED BY <3>1, <3>2
    <2> HIDE DEF Good
    <2>4. Nat \subseteq Good
        BY <2>2, <2>3, NumbersInduct
    <2> QED BY <2>4 DEF Good
<1> DEFINE those == CHOOSE g : Filtered(g, s, T)
<1>3. those[Len(s)] \in Seq(S)
    BY <1>1, <1>2
<1> QED BY <1>3 DEF Fetch!Those, Providers!Those, Filtered

-----------------------------------------------------------------------------
(* Fetches of pages: the inductive invariant. *)

FetchPage == [url : Fetch!Fetchable, usable : BOOLEAN]
FetchSteps == {"choose", "collect", "ended", "failed"}

\* Each address once.
Apart(s) == \A i, j \in 1..Len(s) : s[i] = s[j] => i = j

FetchType ==
    /\ fetch \in [at : FetchSteps, backend : {"none", "pinchtab", "playwright"},
                  urls : Seq(Fetch!Fetchable), batch : Seq(Fetch!Fetchable),
                  round : {1, 2}, late : BOOLEAN]
    /\ Apart(fetch.urls) /\ Apart(fetch.batch)
    /\ todo \in Seq(Fetch!Fetchable) /\ Apart(todo)
    /\ worker \in [Workers -> [at : {"off", "free"}] \cup [at : {"loading"}, url : Fetch!Fetchable]]
    /\ got = [pages |-> got.pages, failures |-> got.failures, kept |-> got.kept, stored |-> got.stored]
    /\ got.pages \in Seq(FetchPage) /\ got.kept \in Seq(FetchPage)
    /\ got.failures \in SUBSET Fetch!Fetchable /\ IsFiniteSet(got.failures)

Loading    == {w \in Workers : worker[w].at = "loading"}
LoadedUrls == {worker[w].url : w \in Loading}

\* An address is in one place: it waits, or one worker has it, or it failed.
PlacesApart ==
    /\ \A w, v \in Loading : worker[w].url = worker[v].url => w = v
    /\ LoadedUrls \cap (Fetch!ToSet(todo) \cup got.failures) = {}
    /\ got.failures \cap Fetch!ToSet(todo) = {}

\* What becomes of a batch, and how many of it.
Places == Fetch!ToSet(todo) \cup LoadedUrls \cup Fetch!UrlsOf(got.pages) \cup got.failures
Amount == Len(todo) + Cardinality(Loading) + Len(got.pages) + Cardinality(got.failures)
BatchCovered ==
    fetch.at = "collect" =>
        Fetch!ToSet(fetch.batch) = Places /\ Len(fetch.batch) = Amount

FetchInv == FetchType /\ PlacesApart /\ BatchCovered

\* WebFetch means the finite sets and the cardinality of FiniteSets.
LEMMA FetchSetsAgree ==
    ASSUME NEW S
    PROVE  /\ Fetch!IsFiniteSet(S) <=> IsFiniteSet(S)
           /\ Fetch!Cardinality(S) = Cardinality(S)
BY DEF Fetch!IsFiniteSet, Fetch!Cardinality, IsFiniteSet, Cardinality

LEMMA FewAreApart ==
    ASSUME NEW S, NEW s \in Seq(S), Apart(s), NEW n \in Nat
    PROVE  Fetch!Few(s, n) \in Seq(S) /\ Apart(Fetch!Few(s, n))
<1> DEFINE m == IF Len(s) < n THEN Len(s) ELSE n
<1>1. m \in Nat /\ m <= Len(s)
    OBVIOUS
<1>2. /\ SubSeq(s, 1, m) \in Seq(S) /\ Len(SubSeq(s, 1, m)) = m
      /\ \A i \in 1..m : SubSeq(s, 1, m)[i] = s[i]
    BY <1>1
<1> QED BY <1>1, <1>2 DEF Fetch!Few, Apart

LEMMA RestIsApart ==
    ASSUME NEW S, NEW s \in Seq(S), Apart(s), NEW n \in Nat
    PROVE  SubSeq(s, n + 1, Len(s)) \in Seq(S) /\ Apart(SubSeq(s, n + 1, Len(s)))
<1> DEFINE t == SubSeq(s, n + 1, Len(s))
<1>1. CASE n >= Len(s)
    BY <1>1 DEF Apart
<1>2. CASE n < Len(s)
    <2>1. t \in Seq(S) /\ Len(t) = Len(s) - n /\ \A i \in 1..Len(t) : t[i] = s[n + i]
        BY <1>2
    <2> QED BY <2>1, <1>2 DEF Apart
<1> QED BY <1>1, <1>2

LEMMA FetchInit ==
    ASSUME Fetch!FetchConstants, Fetch!Init
    PROVE  FetchInv
<1>1. Urls \in Seq(Fetch!Fetchable) /\ Apart(Urls) /\ MaxPages \in Nat
    BY DEF Fetch!FetchConstants, Fetch!Fetchable, Fetch!IsInjective, Apart
<1>2. PICK n \in 0..Len(Urls) :
          fetch = [at |-> IF n = 0 THEN "ended" ELSE "choose", backend |-> "none",
                   urls |-> SubSeq(Urls, 1, n),
                   batch |-> SubSeq(SubSeq(Urls, 1, n), 1, IF n < MaxPages THEN n ELSE MaxPages),
                   round |-> 1, late |-> FALSE]
    BY DEF Fetch!Init
<1> DEFINE urls == SubSeq(Urls, 1, n)
<1>3. urls \in Seq(Fetch!Fetchable) /\ Len(urls) = n /\ Apart(urls)
    <2>1. /\ urls \in Seq(Fetch!Fetchable) /\ Len(urls) = n
          /\ \A i \in 1..n : urls[i] = Urls[i] /\ i \in 1..Len(Urls)
        BY <1>1
    <2> HIDE DEF urls
    <2> QED BY <1>1, <2>1 DEF Apart
<1>4. Fetch!Few(urls, MaxPages) = SubSeq(urls, 1, IF n < MaxPages THEN n ELSE MaxPages)
    BY <1>3 DEF Fetch!Few
<1>5. Fetch!Few(urls, MaxPages) \in Seq(Fetch!Fetchable) /\ Apart(Fetch!Few(urls, MaxPages))
    BY <1>1, <1>3, FewAreApart
<1>6. /\ fetch \in [at : FetchSteps, backend : {"none", "pinchtab", "playwright"},
                    urls : Seq(Fetch!Fetchable), batch : Seq(Fetch!Fetchable),
                    round : {1, 2}, late : BOOLEAN]
      /\ Apart(fetch.urls) /\ Apart(fetch.batch) /\ fetch.at # "collect"
    BY <1>2, <1>3, <1>4, <1>5 DEF FetchSteps
<1>7. /\ todo = <<>> /\ got = [pages |-> <<>>, failures |-> {}, kept |-> <<>>, stored |-> <<>>]
      /\ worker = [w \in Workers |-> [at |-> "off"]]
    BY DEF Fetch!Init, Fetch!Off
<1>8. FetchType
    BY <1>6, <1>7, FS_EmptySet DEF FetchType, FetchPage, Apart
<1>9. Loading = {} /\ got.failures = {}
    BY <1>7 DEF Loading
<1> QED BY <1>6, <1>8, <1>9 DEF FetchInv, PlacesApart, LoadedUrls, BatchCovered

-----------------------------------------------------------------------------
(* Steps of a fetch. *)

\* A batch begins with all of it waiting.
LEMMA CollectStep ==
    ASSUME FetchInv, NEW backend \in {"pinchtab", "playwright"}, Fetch!Collect(backend)
    PROVE  FetchInv'
<1>1. /\ fetch' = [fetch EXCEPT !.at = "collect", !.backend = backend]
      /\ todo' = fetch.batch
      /\ worker' \in [Workers -> [at : {"off", "free"}]]
      /\ got' = [got EXCEPT !.pages = <<>>, !.failures = {}]
    BY DEF Fetch!Collect, Fetch!Off
<1>2. got'.pages = <<>> /\ got'.failures = {} /\ got'.kept = got.kept
      /\ got' = [pages |-> <<>>, failures |-> {}, kept |-> got.kept, stored |-> got.stored]
    BY <1>1 DEF FetchInv, FetchType
<1>3. FetchType'
    <2>1. fetch' \in [at : FetchSteps, backend : {"none", "pinchtab", "playwright"},
                      urls : Seq(Fetch!Fetchable), batch : Seq(Fetch!Fetchable),
                      round : {1, 2}, late : BOOLEAN]
        BY <1>1 DEF FetchInv, FetchType, FetchSteps
    <2>2. fetch'.urls = fetch.urls /\ fetch'.batch = fetch.batch
        BY <1>1 DEF FetchInv, FetchType
    <2>3. Apart(fetch.urls)' /\ Apart(fetch.batch)' /\ Apart(todo)'
        BY <1>1, <2>2 DEF FetchInv, FetchType, Apart
    <2>4. todo' \in Seq(Fetch!Fetchable) /\ got'.kept \in Seq(FetchPage)
        BY <1>1, <1>2 DEF FetchInv, FetchType
    <2>5. worker' \in [Workers -> [at : {"off", "free"}] \cup [at : {"loading"}, url : Fetch!Fetchable]]
        BY <1>1
    <2>6. /\ got'.pages \in Seq(FetchPage) /\ got'.failures \in SUBSET Fetch!Fetchable
          /\ IsFiniteSet(got'.failures)
        BY <1>2, FS_EmptySet
    <2> QED BY <1>1, <1>2, <2>1, <2>3, <2>4, <2>5, <2>6 DEF FetchType
<1>4. Loading' = {} /\ LoadedUrls' = {}
    BY <1>1 DEF Loading, LoadedUrls
<1>5. fetch'.batch = fetch.batch
    BY <1>1 DEF FetchInv, FetchType
<1>6. Fetch!UrlsOf(<<>>) = {}
    BY DEF Fetch!UrlsOf
<1>7. Places' = Fetch!ToSet(fetch.batch) /\ Amount' = Len(fetch.batch)
    BY <1>1, <1>2, <1>4, <1>6, FS_EmptySet DEF Places, Amount, FetchInv, FetchType
<1> QED BY <1>1, <1>2, <1>3, <1>4, <1>5, <1>7 DEF FetchInv, PlacesApart, BatchCovered

\* Where nothing but the tool's own step changes.
LEMMA ToolMoves ==
    ASSUME FetchInv, UNCHANGED <<todo, worker>>,
           got'.pages = got.pages, got'.failures = got.failures, got'.kept \in Seq(FetchPage),
           got' = [pages |-> got'.pages, failures |-> got'.failures, kept |-> got'.kept,
                   stored |-> got'.stored],
           fetch' \in [at : FetchSteps, backend : {"none", "pinchtab", "playwright"},
                       urls : Seq(Fetch!Fetchable), batch : Seq(Fetch!Fetchable),
                       round : {1, 2}, late : BOOLEAN],
           fetch'.urls = fetch.urls, Apart(fetch'.batch),
           fetch'.at = "collect" => fetch.at = "collect" /\ fetch'.batch = fetch.batch
    PROVE  FetchInv'
<1>1. FetchType'
    BY DEF FetchInv, FetchType, Apart
<1>2. Loading' = Loading /\ LoadedUrls' = LoadedUrls
    BY DEF Loading, LoadedUrls
<1>3. PlacesApart'
    BY <1>2 DEF FetchInv, PlacesApart, Loading
<1>4. Places' = Places /\ Amount' = Amount
    BY <1>2 DEF Places, Amount
<1> QED BY <1>1, <1>3, <1>4 DEF FetchInv, BatchCovered

LEMMA PlaywrightStep ==
    ASSUME FetchInv, Fetch!UsePlaywright
    PROVE  FetchInv'
<1>1. CASE Fetch!Collect("playwright")
    BY <1>1, CollectStep
<1>2. CASE fetch' = [fetch EXCEPT !.at = "failed"] /\ UNCHANGED <<todo, worker, got>>
    BY <1>2, ToolMoves DEF FetchInv, FetchType, FetchSteps
<1> QED BY <1>1, <1>2 DEF Fetch!UsePlaywright

LEMMA ChooseStep ==
    ASSUME FetchInv, Fetch!ChooseBackend
    PROVE  FetchInv'
<1>1. CASE fetch.backend # "none" /\ Fetch!Collect(fetch.backend)
    BY <1>1, CollectStep DEF FetchInv, FetchType
<1>2. CASE Fetch!Collect("pinchtab") \/ Fetch!UsePlaywright
    BY <1>2, CollectStep, PlaywrightStep
<1> QED BY <1>1, <1>2 DEF Fetch!ChooseBackend

\* A second batch is of addresses not yet read.
LEMMA BatchStep ==
    ASSUME Fetch!FetchConstants, FetchInv, Fetch!BatchDone
    PROVE  FetchInv'
<1> DEFINE pages == got.kept \o got.pages
           more == Fetch!Few(Fetch!Few(Fetch!Unread(fetch), Fetch!Degraded(got.pages)), MaxPages)
<1>1. CASE Fetch!UsePlaywright
    BY <1>1, PlaywrightStep
<1>2. pages \in Seq(FetchPage)
    BY DEF FetchInv, FetchType
<1>3. CASE /\ fetch' = [fetch EXCEPT !.at = "choose", !.round = 2, !.batch = more]
           /\ got' = [got EXCEPT !.kept = pages]
           /\ UNCHANGED <<todo, worker>>
    <2>1. /\ Fetch!Unread(fetch) \in Seq(Fetch!Fetchable) /\ Apart(Fetch!Unread(fetch))
        <3>1. /\ fetch.urls \in Seq(Fetch!Fetchable) /\ Apart(fetch.urls)
              /\ Len(fetch.batch) \in Nat
            BY DEF FetchInv, FetchType
        <3> QED BY <3>1, RestIsApart DEF Fetch!Unread
    <2>2. Fetch!Degraded(got.pages) \in Nat
        <3>1. IsFiniteSet(1..Len(got.pages))
            <4>1. Len(got.pages) \in Nat
                BY DEF FetchInv, FetchType
            <4> QED BY <4>1, FS_Interval
        <3>2. {i \in DOMAIN got.pages : ~got.pages[i].usable} \in SUBSET (1..Len(got.pages))
            BY DEF FetchInv, FetchType
        <3> DEFINE degraded == {i \in DOMAIN got.pages : ~got.pages[i].usable}
        <3> HIDE DEF degraded
        <3>3. IsFiniteSet(degraded)
            BY <3>1, <3>2, FS_Subset DEF degraded
        <3>4. Cardinality(degraded) \in Nat
            BY <3>3, FS_CardinalityType
        <3> QED BY <3>4, FetchSetsAgree DEF Fetch!Degraded, degraded
    <2>3. /\ Fetch!Few(Fetch!Unread(fetch), Fetch!Degraded(got.pages)) \in Seq(Fetch!Fetchable)
          /\ Apart(Fetch!Few(Fetch!Unread(fetch), Fetch!Degraded(got.pages)))
        BY <2>1, <2>2, FewAreApart
    <2>4. more \in Seq(Fetch!Fetchable) /\ Apart(more)
        BY <2>3, FewAreApart DEF Fetch!FetchConstants
    <2> HIDE DEF more, pages
    <2>5. /\ fetch' \in [at : FetchSteps, backend : {"none", "pinchtab", "playwright"},
                         urls : Seq(Fetch!Fetchable), batch : Seq(Fetch!Fetchable),
                         round : {1, 2}, late : BOOLEAN]
          /\ fetch'.urls = fetch.urls /\ fetch'.batch = more /\ fetch'.at = "choose"
        BY <1>3, <2>4 DEF FetchInv, FetchType, FetchSteps
    <2>6. /\ got'.pages = got.pages /\ got'.failures = got.failures /\ got'.kept = pages
          /\ got' = [pages |-> got'.pages, failures |-> got'.failures, kept |-> got'.kept,
                     stored |-> got'.stored]
        BY <1>3 DEF FetchInv, FetchType
    <2> QED BY <1>2, <1>3, <2>4, <2>5, <2>6, ToolMoves
<1>4. CASE Fetch!Store(pages) /\ UNCHANGED <<todo, worker>>
    <2> HIDE DEF pages
    <2>1. /\ fetch' \in [at : FetchSteps, backend : {"none", "pinchtab", "playwright"},
                         urls : Seq(Fetch!Fetchable), batch : Seq(Fetch!Fetchable),
                         round : {1, 2}, late : BOOLEAN]
          /\ fetch'.urls = fetch.urls /\ fetch'.batch = fetch.batch /\ fetch'.at = "ended"
        BY <1>4 DEF Fetch!Store, FetchInv, FetchType, FetchSteps
    <2>2. /\ got'.pages = got.pages /\ got'.failures = got.failures /\ got'.kept = pages
          /\ got' = [pages |-> got'.pages, failures |-> got'.failures, kept |-> got'.kept,
                     stored |-> got'.stored]
        BY <1>4 DEF Fetch!Store, FetchInv, FetchType
    <2> QED BY <1>2, <1>4, <2>1, <2>2, ToolMoves DEF FetchInv, FetchType
<1> QED BY <1>1, <1>3, <1>4 DEF Fetch!BatchDone

-----------------------------------------------------------------------------
(* Steps of its workers. *)

LEMMA LoadingIsFinite ==
    ASSUME Fetch!FetchConstants
    PROVE  IsFiniteSet(Loading)
<1>1. Loading \in SUBSET Workers
    BY DEF Loading
<1>2. IsFiniteSet(Workers)
    BY FetchSetsAgree DEF Fetch!FetchConstants
<1> QED BY <1>1, <1>2, FS_Subset

LEMMA TakesStep ==
    ASSUME Fetch!FetchConstants, FetchInv, NEW w \in Workers, Fetch!WorkerTakes(w)
    PROVE  FetchInv'
<1>1. worker[w].at = "free" /\ UNCHANGED <<fetch, got>> /\ w \notin Loading
    BY DEF Fetch!WorkerTakes, Loading
<1>2. CASE worker' = [worker EXCEPT ![w] = Fetch!Off] /\ UNCHANGED todo
    <2>1. FetchType'
        BY <1>1, <1>2 DEF FetchInv, FetchType, Fetch!Off, Apart
    <2>2. Loading' = Loading /\ \A v \in Loading : worker'[v] = worker[v]
        BY <1>1, <1>2 DEF FetchInv, FetchType, Fetch!Off, Loading
    <2>3. LoadedUrls' = LoadedUrls
        BY <2>2 DEF LoadedUrls
    <2> QED BY <1>1, <1>2, <2>1, <2>2, <2>3 DEF FetchInv, PlacesApart, BatchCovered, Places, Amount
<1>3. CASE /\ todo # <<>> /\ todo' = Tail(todo)
           /\ worker' = [worker EXCEPT ![w] = [at |-> "loading", url |-> Head(todo)]]
    <2>1. /\ Head(todo) \in Fetch!Fetchable /\ todo' \in Seq(Fetch!Fetchable)
          /\ Len(todo') = Len(todo) - 1 /\ Len(todo) \in Nat
          /\ \A i \in 1..Len(todo') : todo'[i] = todo[i + 1]
          /\ Head(todo) = todo[1]
          /\ DOMAIN todo = 1..Len(todo) /\ DOMAIN todo' = 1..Len(todo')
        BY <1>3 DEF FetchInv, FetchType
    <2>2. Apart(todo')
        <3> SUFFICES ASSUME NEW i \in 1..Len(todo'), NEW j \in 1..Len(todo'), todo'[i] = todo'[j]
                     PROVE  i = j
            BY DEF Apart
        <3>1. i + 1 \in 1..Len(todo) /\ j + 1 \in 1..Len(todo) /\ todo[i + 1] = todo[j + 1]
            BY <2>1
        <3>2. i + 1 = j + 1
            BY <3>1 DEF FetchInv, FetchType, Apart
        <3> QED BY <2>1, <3>2
    <2>3. FetchType'
        BY <1>1, <1>3, <2>1, <2>2 DEF FetchInv, FetchType, Apart
    <2>4. Fetch!ToSet(todo) = {Head(todo)} \cup Fetch!ToSet(todo') /\ Head(todo) \notin Fetch!ToSet(todo')
        <3>1. Fetch!ToSet(todo) = {todo[i] : i \in 1..Len(todo)}
              /\ Fetch!ToSet(todo') = {todo'[i] : i \in 1..Len(todo')}
            BY <2>1 DEF Fetch!ToSet
        <3>2. ASSUME NEW i \in 1..Len(todo) PROVE todo[i] \in {Head(todo)} \cup Fetch!ToSet(todo')
            <4>1. CASE i # 1
                <5>1. i - 1 \in 1..Len(todo') /\ todo'[i - 1] = todo[i]
                    BY <2>1, <4>1
                <5> QED BY <3>1, <5>1
            <4> QED BY <2>1, <4>1
        <3>3. ASSUME NEW i \in 1..Len(todo')
              PROVE  todo'[i] \in Fetch!ToSet(todo) /\ todo'[i] # Head(todo)
            <4>1. i + 1 \in 1..Len(todo) /\ 1 \in 1..Len(todo)
                BY <2>1
            <4> QED BY <2>1, <3>1, <4>1 DEF FetchInv, FetchType, Apart
        <3>4. Head(todo) \in Fetch!ToSet(todo)
            <4>1. 1 \in 1..Len(todo)
                BY <2>1, <1>3 DEF FetchInv, FetchType
            <4> QED BY <2>1, <3>1, <4>1
        <3> QED BY <3>1, <3>2, <3>3, <3>4
    <2>5. /\ Loading' = Loading \cup {w} /\ worker'[w].url = Head(todo)
          /\ \A v \in Loading : worker'[v] = worker[v]
        BY <1>1, <1>3 DEF FetchInv, FetchType, Loading
    <2>6. LoadedUrls' = LoadedUrls \cup {Head(todo)}
        BY <1>1, <2>5 DEF LoadedUrls
    <2>7. PlacesApart'
        BY <1>1, <2>4, <2>5, <2>6 DEF FetchInv, PlacesApart, LoadedUrls
    <2>8. Places' = Places
        BY <1>1, <2>4, <2>6 DEF Places
    <2>9. Amount' = Amount
        <3>1. IsFiniteSet(Loading)
            BY LoadingIsFinite
        <3>2. Cardinality(Loading') = Cardinality(Loading) + 1
            BY <1>1, <2>5, <3>1, FS_AddElement
        <3>3. Cardinality(Loading) \in Nat
            BY <3>1, FS_CardinalityType
        <3>4. Len(got.pages) \in Nat /\ Cardinality(got.failures) \in Nat
            BY FS_CardinalityType DEF FetchInv, FetchType
        <3> QED BY <1>1, <2>1, <3>2, <3>3, <3>4 DEF Amount
    <2> QED BY <1>1, <2>3, <2>7, <2>8, <2>9 DEF FetchInv, BatchCovered
<1> QED BY <1>2, <1>3 DEF Fetch!WorkerTakes, Fetch!AfterTaken

LEMMA GetsStep ==
    ASSUME Fetch!FetchConstants, FetchInv, NEW w \in Workers, Fetch!WorkerGets(w)
    PROVE  FetchInv'
<1> DEFINE u == worker[w].url
<1>1. /\ w \in Loading /\ worker' = [worker EXCEPT ![w] = [at |-> "free"]] /\ UNCHANGED <<fetch, todo>>
      /\ u \in Fetch!Fetchable
    BY DEF Fetch!WorkerGets, Loading, FetchInv, FetchType
<1>2. Loading' = Loading \ {w} /\ \A v \in Loading' : worker'[v] = worker[v]
    BY <1>1 DEF FetchInv, FetchType, Loading
<1>3. LoadedUrls' = LoadedUrls \ {u} /\ u \in LoadedUrls
    BY <1>1, <1>2 DEF LoadedUrls, FetchInv, PlacesApart
<1>4. u \notin Fetch!ToSet(todo) \cup got.failures
    BY <1>3 DEF FetchInv, PlacesApart
<1>5. /\ IsFiniteSet(Loading) /\ Cardinality(Loading') = Cardinality(Loading) - 1
      /\ Cardinality(Loading) \in Nat /\ Cardinality(got.failures) \in Nat
    <2>1. IsFiniteSet(Loading)
        BY LoadingIsFinite
    <2> QED BY <1>1, <1>2, <2>1, FS_RemoveElement, FS_CardinalityType DEF FetchInv, FetchType
<1>6. Len(todo) \in Nat /\ Len(got.pages) \in Nat
    BY DEF FetchInv, FetchType
<1>7. CASE \E usable \in BOOLEAN : got' = [got EXCEPT !.pages = Append(@, Fetch!Page(u, usable))]
    <2>1. PICK usable \in BOOLEAN : got' = [got EXCEPT !.pages = Append(@, Fetch!Page(u, usable))]
        BY <1>7
    <2> DEFINE p == [url |-> u, usable |-> usable]
    <2>2. p \in FetchPage
        BY <1>1 DEF FetchPage
    <2>3. got' = [pages |-> Append(got.pages, p), failures |-> got.failures, kept |-> got.kept,
                  stored |-> got.stored]
        BY <2>1 DEF Fetch!Page, FetchInv, FetchType
    <2> HIDE DEF p
    <2>4. FetchType'
        BY <1>1, <2>2, <2>3 DEF FetchInv, FetchType, Apart
    <2>5. /\ Len(got'.pages) = Len(got.pages) + 1 /\ got'.pages[Len(got.pages) + 1] = p
          /\ \A i \in 1..Len(got.pages) : got'.pages[i] = got.pages[i]
          /\ DOMAIN got.pages = 1..Len(got.pages) /\ DOMAIN got'.pages = 1..(Len(got.pages) + 1)
        BY <2>2, <2>3 DEF FetchInv, FetchType
    <2>6. Fetch!UrlsOf(got'.pages) = Fetch!UrlsOf(got.pages) \cup {u}
        <3>1. p.url = u
            BY DEF p
        <3>2. 1..(Len(got.pages) + 1) = (1..Len(got.pages)) \cup {Len(got.pages) + 1}
            BY <1>6
        <3> QED BY <2>5, <3>1, <3>2 DEF Fetch!UrlsOf
    <2>7. PlacesApart'
        BY <1>1, <1>2, <1>3, <2>3 DEF FetchInv, PlacesApart
    <2>8. Places' = Places
        BY <1>1, <1>3, <2>3, <2>6 DEF Places
    <2>9. Amount' = Amount
        BY <1>1, <1>5, <1>6, <2>3, <2>5 DEF Amount
    <2> QED BY <1>1, <2>4, <2>7, <2>8, <2>9 DEF FetchInv, BatchCovered
<1>8. CASE got' = [got EXCEPT !.failures = @ \cup {u}]
    <2>1. got' = [pages |-> got.pages, failures |-> got.failures \cup {u}, kept |-> got.kept,
                  stored |-> got.stored]
        BY <1>8 DEF FetchInv, FetchType
    <2>2. IsFiniteSet(got.failures \cup {u})
          /\ Cardinality(got.failures \cup {u}) = Cardinality(got.failures) + 1
        BY <1>4, FS_AddElement DEF FetchInv, FetchType
    <2>3. FetchType'
        BY <1>1, <2>1, <2>2 DEF FetchInv, FetchType, Apart
    <2>4. PlacesApart'
        BY <1>1, <1>2, <1>3, <1>4, <2>1 DEF FetchInv, PlacesApart
    <2>5. Places' = Places
        BY <1>1, <1>3, <2>1 DEF Places
    <2>6. Amount' = Amount
        <3>1. /\ got'.pages = got.pages
              /\ Cardinality(got'.failures) = Cardinality(got.failures) + 1
            BY <2>1, <2>2
        <3>2. Amount' = Len(todo) + (Cardinality(Loading) - 1) + Len(got.pages)
                        + (Cardinality(got.failures) + 1)
            BY <1>1, <1>5, <3>1 DEF Amount
        <3> DEFINE a == Len(todo)
                   b == Cardinality(Loading)
                   c == Len(got.pages)
                   d == Cardinality(got.failures)
        <3>3. /\ a \in Nat /\ b \in Nat /\ c \in Nat /\ d \in Nat
              /\ Amount' = a + (b - 1) + c + (d + 1)
            BY <1>5, <1>6, <3>2
        <3> HIDE DEF a, b, c, d
        <3>5. Amount' = a + b + c + d
            BY <3>3
        <3>4. Amount' = Len(todo) + Cardinality(Loading) + Len(got.pages) + Cardinality(got.failures)
            BY <3>5 DEF a, b, c, d
        <3> QED BY <3>4 DEF Amount
    <2> QED BY <1>1, <2>3, <2>4, <2>5, <2>6 DEF FetchInv, BatchCovered
<1> QED BY <1>7, <1>8 DEF Fetch!WorkerGets

LEMMA FetchStays ==
    ASSUME Fetch!FetchConstants, FetchInv, [Fetch!Next]_(Fetch!fetchVars)
    PROVE  FetchInv'
<1>1. CASE UNCHANGED Fetch!fetchVars
    BY <1>1, ToolMoves DEF Fetch!fetchVars, FetchInv, FetchType
<1>2. CASE Fetch!DeadlinePasses
    BY <1>2, ToolMoves DEF Fetch!DeadlinePasses, FetchInv, FetchType, FetchSteps
<1> QED BY <1>1, <1>2, ChooseStep, BatchStep, TakesStep, GetsStep
        DEF Fetch!Next, Fetch!ToolStep, Fetch!FetchStep

\* Every address of a batch is read once, however many workers share it and
\* whatever fails, and in the second batch too: it waits, or one worker has it, or
\* it has its page or its failure (webFetch.tool.ts, pinchtabPool.ts).
THEOREM AddressesAreShared ==
    ASSUME Fetch!FetchConstants
    PROVE  Fetch!Spec => []Fetch!AddressesAreReadOnce
<1>1. Fetch!Init => FetchInv
    BY FetchInit
<1>2. FetchInv /\ [Fetch!Next]_(Fetch!fetchVars) => FetchInv'
    BY FetchStays
<1>3. FetchInv => Fetch!AddressesAreReadOnce
    <2> SUFFICES ASSUME FetchInv, fetch.at = "collect"
                 PROVE  Fetch!AddressesAreReadOnce
        BY DEF Fetch!AddressesAreReadOnce
    <2> DEFINE here == <<Fetch!ToSet(todo), LoadedUrls, Fetch!UrlsOf(got.pages), got.failures>>
    <2>1. Fetch!ToSet(here) = {Fetch!ToSet(todo), LoadedUrls, Fetch!UrlsOf(got.pages), got.failures}
        <3>1. DOMAIN here = {1, 2, 3, 4}
            OBVIOUS
        <3> QED BY <3>1 DEF Fetch!ToSet
    <2>2. UNION Fetch!ToSet(here) = Places
        BY <2>1 DEF Places
    <2>3. /\ Fetch!ToSet(fetch.batch) = UNION Fetch!ToSet(here)
          /\ Len(fetch.batch) = Len(todo) + Cardinality(Loading) + Len(got.pages)
                                 + Cardinality(got.failures)
        BY <2>2 DEF FetchInv, BatchCovered, Amount
    <2> QED BY <2>3, FetchSetsAgree DEF Loading, LoadedUrls, Fetch!AddressesAreReadOnce
<1> QED BY <1>1, <1>2, <1>3, PTL DEF Fetch!Spec

\* What is stored once the tool has ended.
StoredIsKept ==
    /\ got.kept # <<>> => got.stored # <<>>
    /\ Fetch!Usable(got.kept) # <<>> => Fetch!ToSet(got.stored) \subseteq Fetch!ToSet(Fetch!Usable(got.kept))

StoredInv ==
    /\ got.stored \in Seq(FetchPage) /\ Len(got.stored) <= MaxPages
    /\ PlaywrightWorks => fetch.at # "failed"
    /\ fetch.at = "ended" => StoredIsKept

LEMMA FewAreSome ==
    ASSUME NEW S, NEW s \in Seq(S), NEW n \in Nat \ {0}
    PROVE  /\ Fetch!Few(s, n) \in Seq(S) /\ Len(Fetch!Few(s, n)) <= n
           /\ Fetch!ToSet(Fetch!Few(s, n)) \subseteq Fetch!ToSet(s)
           /\ s # <<>> => Fetch!Few(s, n) # <<>>
<1> DEFINE m == IF Len(s) < n THEN Len(s) ELSE n
           few == SubSeq(s, 1, m)
<1>1. m \in Nat /\ m <= Len(s) /\ m <= n /\ Len(s) \in Nat /\ (s # <<>> => m > 0)
    OBVIOUS
<1>2. /\ few \in Seq(S) /\ Len(few) = m /\ DOMAIN few = 1..m /\ DOMAIN s = 1..Len(s)
      /\ \A i \in 1..m : few[i] = s[i] /\ i \in 1..Len(s)
    BY <1>1
<1>3. Fetch!Few(s, n) = few
    BY DEF Fetch!Few
<1> HIDE DEF few, m
<1>4. Fetch!ToSet(few) \subseteq Fetch!ToSet(s)
    BY <1>2 DEF Fetch!ToSet
<1>5. s # <<>> => few # <<>>
    BY <1>1, <1>2
<1> QED BY <1>1, <1>2, <1>3, <1>4, <1>5

LEMMA SelectionIsStored ==
    ASSUME Fetch!FetchConstants, NEW pages \in Seq(FetchPage)
    PROVE  /\ Fetch!Select(pages) \in Seq(FetchPage) /\ Len(Fetch!Select(pages)) <= MaxPages
           /\ pages # <<>> => Fetch!Select(pages) # <<>>
           /\ Fetch!Usable(pages) # <<>> =>
                  Fetch!ToSet(Fetch!Select(pages)) \subseteq Fetch!ToSet(Fetch!Usable(pages))
<1> DEFINE usable == Fetch!Usable(pages)
<1>1. usable \in Seq(FetchPage)
    BY ThoseAreMembers DEF Fetch!Usable
<1> HIDE DEF usable
<1>2. MaxPages \in Nat \ {0}
    BY DEF Fetch!FetchConstants
<1>3. Fetch!Select(pages) = Fetch!Few(IF usable # <<>> THEN usable ELSE pages, MaxPages)
    BY DEF Fetch!Select, usable
<1>4. CASE usable # <<>>
    BY <1>1, <1>2, <1>3, <1>4, FewAreSome DEF usable
<1>5. CASE usable = <<>>
    BY <1>2, <1>3, <1>5, FewAreSome DEF usable
<1> QED BY <1>4, <1>5

LEMMA StoredStays ==
    ASSUME Fetch!FetchConstants, FetchInv, StoredInv, [Fetch!Next]_(Fetch!fetchVars)
    PROVE  StoredInv'
<1>1. ASSUME UNCHANGED got, fetch'.at = fetch.at PROVE StoredInv'
    BY <1>1 DEF StoredInv, StoredIsKept
<1>2. ASSUME got'.stored = got.stored, fetch'.at \notin {"ended", "failed"} PROVE StoredInv'
    BY <1>2 DEF StoredInv
<1>3. ASSUME NEW backend, Fetch!Collect(backend) PROVE StoredInv'
    BY <1>2, <1>3 DEF Fetch!Collect, FetchInv, FetchType
<1>4. CASE Fetch!UsePlaywright
    <2>1. CASE PlaywrightWorks
        BY <1>3, <1>4, <2>1 DEF Fetch!UsePlaywright
    <2>2. CASE ~PlaywrightWorks
        BY <1>4, <2>2 DEF Fetch!UsePlaywright, StoredInv, FetchInv, FetchType
    <2> QED BY <2>1, <2>2
<1>5. CASE Fetch!ChooseBackend
    BY <1>3, <1>4, <1>5 DEF Fetch!ChooseBackend
<1>6. CASE Fetch!BatchDone
    <2> DEFINE pages == got.kept \o got.pages
               more == Fetch!Few(Fetch!Few(Fetch!Unread(fetch), Fetch!Degraded(got.pages)), MaxPages)
    <2>1. pages \in Seq(FetchPage)
        BY DEF FetchInv, FetchType
    <2>2. CASE /\ fetch' = [fetch EXCEPT !.at = "choose", !.round = 2, !.batch = more]
               /\ got' = [got EXCEPT !.kept = pages]
        BY <1>2, <2>2 DEF FetchInv, FetchType
    <2>3. CASE Fetch!Store(pages)
        <3> HIDE DEF pages
        <3>1. got'.stored = Fetch!Select(pages) /\ got'.kept = pages /\ fetch'.at = "ended"
            BY <2>3 DEF Fetch!Store, FetchInv, FetchType
        <3> QED BY <2>1, <3>1, SelectionIsStored DEF StoredInv, StoredIsKept
    <2> QED BY <1>4, <1>6, <2>2, <2>3 DEF Fetch!BatchDone
<1>7. ASSUME NEW w \in Workers, Fetch!WorkerTakes(w) PROVE StoredInv'
    BY <1>1, <1>7 DEF Fetch!WorkerTakes
<1>8. ASSUME NEW w \in Workers, Fetch!WorkerGets(w) PROVE StoredInv'
    <2>1. got'.kept = got.kept /\ got'.stored = got.stored /\ fetch' = fetch
        BY <1>8 DEF Fetch!WorkerGets, FetchInv, FetchType
    <2> QED BY <2>1 DEF StoredInv, StoredIsKept
<1>9. CASE Fetch!DeadlinePasses \/ UNCHANGED Fetch!fetchVars
    BY <1>1, <1>9 DEF Fetch!DeadlinePasses, Fetch!fetchVars, FetchInv, FetchType
<1> QED BY <1>5, <1>6, <1>7, <1>8, <1>9 DEF Fetch!Next, Fetch!ToolStep, Fetch!FetchStep

LEMMA StoredBegins ==
    ASSUME Fetch!FetchConstants, Fetch!Init
    PROVE  StoredInv
<1>1. got.kept = <<>> /\ got.stored = <<>> /\ fetch.at # "failed"
    BY DEF Fetch!Init
<1>2. Fetch!ToSet(<<>>) = {}
    BY DEF Fetch!ToSet
<1> QED BY <1>1, <1>2 DEF StoredInv, StoredIsKept, Fetch!FetchConstants

\* Pages that were read are stored, and none that could be used is crowded out by
\* one that could not (webFetch.tool.ts:81-103), whatever fails in either batch, if
\* Playwright starts when it is needed.
THEOREM PagesStayStored ==
    ASSUME Fetch!FetchConstants, PlaywrightWorks
    PROVE  Fetch!Spec => []Fetch!ReadPagesAreStored
<1>1. Fetch!Init => FetchInv /\ StoredInv
    BY FetchInit, StoredBegins
<1>2. FetchInv /\ StoredInv /\ [Fetch!Next]_(Fetch!fetchVars) => FetchInv' /\ StoredInv'
    BY FetchStays, StoredStays
<1>3. StoredInv => Fetch!ReadPagesAreStored
    BY DEF StoredInv, StoredIsKept, Fetch!ReadPagesAreStored
<1> QED BY <1>1, <1>2, <1>3, PTL DEF Fetch!Spec

\* The steps and results of a fetch have their types, and no more is stored than
\* a fetch may keep.
THEOREM FetchTypeCorrect ==
    ASSUME Fetch!FetchConstants
    PROVE  Fetch!Spec => []Fetch!TypeOK
<1>1. Fetch!Init => FetchInv /\ StoredInv
    BY FetchInit, StoredBegins
<1>2. FetchInv /\ StoredInv /\ [Fetch!Next]_(Fetch!fetchVars) => FetchInv' /\ StoredInv'
    BY FetchStays, StoredStays
<1>3. FetchInv /\ StoredInv => Fetch!TypeOK
    <2> SUFFICES ASSUME FetchInv, StoredInv PROVE Fetch!TypeOK
        OBVIOUS
    <2> DEFINE pages == got.pages \o got.kept
    <2>1. pages \in Seq(FetchPage)
        BY DEF FetchInv, FetchType
    <2> HIDE DEF pages
    <2>2. \A i \in DOMAIN pages : pages[i].url \in Fetch!Fetchable
        <3>1. DOMAIN pages = 1..Len(pages) /\ \A i \in 1..Len(pages) : pages[i] \in FetchPage
            BY <2>1
        <3> QED BY <3>1 DEF FetchPage
    <2>3. Fetch!UrlsOf(pages) \subseteq Fetch!Fetchable
        BY <2>2 DEF Fetch!UrlsOf
    <2> QED BY <2>3 DEF pages, FetchInv, FetchType, FetchSteps, StoredInv, Fetch!TypeOK
<1> QED BY <1>1, <1>2, <1>3, PTL DEF Fetch!Spec

-----------------------------------------------------------------------------
(* Calls of providers: what a conversation becomes on the wire. *)

CallIds == Nat \X Nat
SentMessages ==
    [role : {"system", "user", "assistant", "tool"}, text : {"none", "prompt", "repair"}, calls : Seq(CallIds)]

\* A tool's message has one result.
ConvoMessages == {m \in SentMessages : m.role = "tool" => Len(m.calls) = 1}
Wires == [system : SUBSET {"none", "prompt", "repair"}, messages : Seq(SentMessages)]

\* A wire takes one more message.
OneMore(p, w, m) ==
    IF p \in Providers!Native THEN Providers!NativeMessage(p, w, m) ELSE Providers!OpenAiMessage(w, m)

\* g is the wire by the number of messages that are on it.
Sends(g, p, ms) ==
    g = [n \in 0..Len(ms) |->
            IF n = 0 THEN Providers!Wire({}, <<>>)
            ELSE IF p \in Providers!Native THEN Providers!NativeMessage(p, g[n - 1], ms[n])
                 ELSE Providers!OpenAiMessage(g[n - 1], ms[n])]

LEMMA SameLists ==
    ASSUME NEW S, NEW s \in Seq(S), NEW t \in Seq(S), Len(s) = Len(t),
           \A i \in 1..Len(s) : s[i] = t[i]
    PROVE  s = t
<1>1. s \in [1..Len(s) -> S] /\ t \in [1..Len(s) -> S]
    OBVIOUS
<1> QED BY <1>1

LEMMA WireFields ==
    ASSUME NEW system, NEW ms
    PROVE  Providers!Wire(system, ms).system = system /\ Providers!Wire(system, ms).messages = ms
BY DEF Providers!Wire

LEMMA MessageFields ==
    ASSUME NEW role \in {"system", "user", "assistant", "tool"}, NEW text \in {"none", "prompt", "repair"},
           NEW calls \in Seq(CallIds)
    PROVE  /\ Providers!Message(role, text, calls) \in SentMessages
           /\ Providers!Message(role, text, calls).role = role
           /\ Providers!Message(role, text, calls).text = text
           /\ Providers!Message(role, text, calls).calls = calls
BY DEF Providers!Message, SentMessages

\* A message that takes a result is the last one, with one call more.
LEMMA JoinedIsLonger ==
    ASSUME NEW ms \in Seq(SentMessages), ms # <<>>, NEW result \in CallIds
    PROVE  /\ Providers!Joined(ms, result) \in Seq(SentMessages)
           /\ Len(Providers!Joined(ms, result)) = Len(ms)
           /\ \A k \in 1..(Len(ms) - 1) : Providers!Joined(ms, result)[k] = ms[k]
           /\ Providers!Joined(ms, result)[Len(ms)] = [ms[Len(ms)] EXCEPT !.calls = Append(@, result)]
<1> DEFINE front == SubSeq(ms, 1, Len(ms) - 1)
           last == [ms[Len(ms)] EXCEPT !.calls = Append(@, result)]
<1>1. Len(ms) \in Nat \ {0} /\ ms[Len(ms)] \in SentMessages
    OBVIOUS
<1>2. last \in SentMessages
    <2>1. Append(ms[Len(ms)].calls, result) \in Seq(CallIds)
        BY <1>1 DEF SentMessages
    <2> QED BY <1>1, <2>1 DEF SentMessages
<1>3. /\ front \in Seq(SentMessages) /\ Len(front) = Len(ms) - 1
      /\ \A k \in 1..(Len(ms) - 1) : front[k] = ms[k]
    <2>1. Len(ms) - 1 \in Nat /\ Len(ms) - 1 <= Len(ms)
        BY <1>1
    <2>2. \A n \in Nat : n <= Len(ms) =>
              /\ SubSeq(ms, 1, n) \in Seq(SentMessages) /\ Len(SubSeq(ms, 1, n)) = n
              /\ \A k \in 1..n : SubSeq(ms, 1, n)[k] = ms[k]
        OBVIOUS
    <2> QED BY <2>1, <2>2
<1>4. Providers!Joined(ms, result) = front \o <<last>>
    BY DEF Providers!Joined, Providers!Front, Providers!Last
<1> HIDE DEF front, last
<1>5. <<last>> \in Seq(SentMessages) /\ Len(<<last>>) = 1 /\ <<last>>[1] = last
    BY <1>2
<1>6. /\ front \o <<last>> \in Seq(SentMessages) /\ Len(front \o <<last>>) = Len(ms)
      /\ \A k \in 1..(Len(ms) - 1) : (front \o <<last>>)[k] = ms[k]
      /\ (front \o <<last>>)[Len(ms)] = last
    BY <1>1, <1>3, <1>5
<1> QED BY <1>4, <1>6 DEF last

\* A wire with one message more is a wire.
LEMMA OneMoreIsWire ==
    ASSUME NEW p, NEW w \in Wires, NEW m \in ConvoMessages
    PROVE  OneMore(p, w, m) \in Wires
<1>1. /\ w.system \in SUBSET {"none", "prompt", "repair"} /\ w.messages \in Seq(SentMessages)
      /\ m \in SentMessages /\ m.text \in {"none", "prompt", "repair"} /\ m.calls \in Seq(CallIds)
    BY DEF Wires, ConvoMessages, SentMessages
<1>2. \A system \in SUBSET {"none", "prompt", "repair"}, ms \in Seq(SentMessages) :
          Providers!Wire(system, ms) \in Wires
    BY DEF Providers!Wire, Wires
<1>3. Append(w.messages, m) \in Seq(SentMessages)
    BY <1>1
<1>4. CASE p \notin Providers!Native
    BY <1>1, <1>2, <1>3, <1>4 DEF OneMore, Providers!OpenAiMessage
<1>5. CASE p \in Providers!Native /\ m.role = "tool"
    <2>1. m.calls[1] \in CallIds
        BY <1>1, <1>5 DEF ConvoMessages
    <2>2. CASE Providers!Joins(p, w.messages)
        <3>1. Providers!Joined(w.messages, m.calls[1]) \in Seq(SentMessages)
            BY <1>1, <2>1, <2>2, JoinedIsLonger DEF Providers!Joins
        <3> QED BY <1>1, <1>2, <1>5, <2>2, <3>1 DEF OneMore, Providers!NativeMessage
    <2>3. CASE ~Providers!Joins(p, w.messages)
        <3>1. Append(w.messages, Providers!Message("user", "none", m.calls)) \in Seq(SentMessages)
            BY <1>1, MessageFields
        <3> QED BY <1>1, <1>2, <1>5, <2>3, <3>1 DEF OneMore, Providers!NativeMessage
    <2> QED BY <2>2, <2>3
<1>6. CASE p \in Providers!Native /\ m.role # "tool"
    <2>1. CASE m.role = "system"
        BY <1>1, <1>2, <1>6, <2>1 DEF OneMore, Providers!NativeMessage
    <2>2. CASE m.role # "system"
        BY <1>1, <1>2, <1>3, <1>6, <2>2 DEF OneMore, Providers!NativeMessage
    <2> QED BY <2>1, <2>2
<1> QED BY <1>4, <1>5, <1>6

\* The wire of every conversation exists, and is a wire at each message.
LEMMA WireExists ==
    ASSUME NEW p, NEW ms \in Seq(ConvoMessages)
    PROVE  \E g : Sends(g, p, ms) /\ \A n \in 0..Len(ms) : g[n] \in Wires
<1> DEFINE step == [vn \in Wires \X (1..Len(ms)) |-> OneMore(p, vn[1], ms[vn[2]])]
           base == Providers!Wire({}, <<>>)
<1>1. Len(ms) \in Nat /\ base \in Wires /\ \A n \in 1..Len(ms) : ms[n] \in ConvoMessages
    BY DEF Providers!Wire, Wires
<1>2. \A v \in Wires, n \in 1..Len(ms) :
          step[<<v, n>>] = OneMore(p, v, ms[n]) /\ step[<<v, n>>] \in Wires
    BY <1>1, OneMoreIsWire
<1> HIDE DEF step, base
<1>3. PICK g : Iterates(g, base, step, Len(ms))
    BY <1>1, IterationExists
<1>4. \A n \in 0..Len(ms) : g[n] = IF n = 0 THEN base ELSE step[<<g[n - 1], n>>]
    BY <1>3 DEF Iterates
<1> DEFINE Good == {n \in Nat : n <= Len(ms) => g[n] \in Wires}
<1>5. 0 \in Good
    <2>1. 0 \in 0..Len(ms)
        BY <1>1
    <2> QED BY <1>1, <1>4, <2>1
<1>6. ASSUME NEW n \in Nat, n \in Good PROVE n + 1 \in Good
    <2> SUFFICES ASSUME n + 1 <= Len(ms) PROVE g[n + 1] \in Wires
        OBVIOUS
    <2>1. g[n] \in Wires /\ n + 1 \in 1..Len(ms)
        BY <1>1, <1>6
    <2>2. g[n + 1] = step[<<g[n], n + 1>>]
        BY <1>1, <1>4, <2>1
    <2> QED BY <1>2, <2>1, <2>2
<1> HIDE DEF Good
<1>7. Nat \subseteq Good
    BY <1>5, <1>6, NumbersInduct
<1>8. \A n \in 0..Len(ms) : g[n] \in Wires
    BY <1>1, <1>7 DEF Good
<1>9. \A n \in 0..Len(ms) : g[n] = IF n = 0 THEN base ELSE OneMore(p, g[n - 1], ms[n])
    <2> SUFFICES ASSUME NEW n \in 0..Len(ms), n # 0 PROVE g[n] = OneMore(p, g[n - 1], ms[n])
        BY <1>4
    <2>1. n - 1 \in 0..Len(ms) /\ n \in 1..Len(ms)
        BY <1>1
    <2> QED BY <1>2, <1>4, <1>8, <2>1
<1>10. g = [n \in 0..Len(ms) |-> g[n]]
    BY <1>3 DEF Iterates
<1>11. g = [n \in 0..Len(ms) |-> IF n = 0 THEN base ELSE OneMore(p, g[n - 1], ms[n])]
    BY <1>9, <1>10
<1> QED BY <1>8, <1>11 DEF Sends, OneMore, base

\* Two wires agree as far as their conversations do.
LEMMA WiresAgree ==
    ASSUME NEW p, NEW ms, NEW more, Len(ms) \in Nat, Len(more) \in Nat, Len(ms) <= Len(more),
           \A n \in 1..Len(ms) : more[n] = ms[n],
           NEW g, Sends(g, p, ms), NEW h, Sends(h, p, more)
    PROVE  \A n \in 0..Len(ms) : h[n] = g[n]
<1>1. \A n \in 0..Len(ms) :
          g[n] = IF n = 0 THEN Providers!Wire({}, <<>>) ELSE OneMore(p, g[n - 1], ms[n])
    BY DEF Sends, OneMore
<1>2. \A n \in 0..Len(more) :
          h[n] = IF n = 0 THEN Providers!Wire({}, <<>>) ELSE OneMore(p, h[n - 1], more[n])
    BY DEF Sends, OneMore
<1> DEFINE Good == {n \in Nat : n <= Len(ms) => h[n] = g[n]}
<1>3. 0 \in Good
    <2>1. 0 \in 0..Len(ms) /\ 0 \in 0..Len(more)
        OBVIOUS
    <2> QED BY <1>1, <1>2, <2>1
<1>4. ASSUME NEW n \in Nat, n \in Good PROVE n + 1 \in Good
    <2> SUFFICES ASSUME n + 1 <= Len(ms) PROVE h[n + 1] = g[n + 1]
        OBVIOUS
    <2>1. h[n] = g[n] /\ n + 1 \in 1..Len(ms) /\ n + 1 \in 0..Len(ms) /\ n + 1 \in 0..Len(more)
          /\ n + 1 # 0 /\ (n + 1) - 1 = n
        BY <1>4
    <2>2. g[n + 1] = OneMore(p, g[n], ms[n + 1]) /\ h[n + 1] = OneMore(p, h[n], more[n + 1])
        BY <1>1, <1>2, <2>1
    <2> QED BY <2>1, <2>2
<1> HIDE DEF Good
<1>5. Nat \subseteq Good
    BY <1>3, <1>4, NumbersInduct
<1> QED BY <1>5 DEF Good

\* What ToWire is of no message, and of one message more.
LEMMA ToWireIsSent ==
    ASSUME NEW p, NEW ms \in Seq(ConvoMessages)
    PROVE  \E g : /\ Sends(g, p, ms) /\ Providers!ToWire(p, ms) = g[Len(ms)]
                  /\ \A n \in 0..Len(ms) : g[n] \in Wires
<1> DEFINE wires == CHOOSE g : Sends(g, p, ms)
<1>1. PICK g : Sends(g, p, ms) /\ \A n \in 0..Len(ms) : g[n] \in Wires
    BY WireExists
<1>2. Sends(wires, p, ms)
    BY <1>1
<1>3. Providers!ToWire(p, ms) = wires[Len(ms)]
    BY DEF Providers!ToWire, Sends
<1> HIDE DEF wires
<1>4. Len(ms) \in Nat
    OBVIOUS
<1>5. \A n \in 0..Len(ms) : wires[n] = g[n]
    <2>1. Len(ms) \in Nat /\ Len(ms) <= Len(ms) /\ \A n \in 1..Len(ms) : ms[n] = ms[n]
        BY <1>4
    <2> HIDE DEF Sends
    <2>2. Sends(g, p, ms)
        BY <1>1
    <2> QED BY <1>2, <2>1, <2>2, WiresAgree
<1> QED BY <1>1, <1>2, <1>3, <1>5

LEMMA ToWireGrows ==
    ASSUME NEW p, NEW ms \in Seq(ConvoMessages), NEW m \in ConvoMessages
    PROVE  /\ Providers!ToWire(p, ms) \in Wires
           /\ Append(ms, m) \in Seq(ConvoMessages)
           /\ Providers!ToWire(p, Append(ms, m)) = OneMore(p, Providers!ToWire(p, ms), m)
<1> DEFINE more == Append(ms, m)
<1>1. /\ more \in Seq(ConvoMessages) /\ Len(more) = Len(ms) + 1 /\ Len(ms) \in Nat
      /\ more[Len(ms) + 1] = m /\ \A n \in 1..Len(ms) : more[n] = ms[n]
    OBVIOUS
<1> HIDE DEF more
<1>2. PICK g : /\ Sends(g, p, ms) /\ Providers!ToWire(p, ms) = g[Len(ms)]
               /\ \A n \in 0..Len(ms) : g[n] \in Wires
    BY ToWireIsSent
<1>3. PICK h : Sends(h, p, more) /\ Providers!ToWire(p, more) = h[Len(more)]
    BY <1>1, ToWireIsSent
<1>4. \A n \in 0..Len(ms) : h[n] = g[n]
    BY <1>1, <1>2, <1>3, WiresAgree
<1>5. \A n \in 0..Len(more) :
          h[n] = IF n = 0 THEN Providers!Wire({}, <<>>) ELSE OneMore(p, h[n - 1], more[n])
    BY <1>3 DEF Sends, OneMore
<1>6. h[Len(ms) + 1] = OneMore(p, h[Len(ms)], m)
    <2>1. /\ Len(ms) + 1 \in 0..Len(more) /\ Len(ms) + 1 # 0 /\ (Len(ms) + 1) - 1 = Len(ms)
        BY <1>1
    <2> QED BY <1>1, <1>5, <2>1
<1>7. Len(ms) \in 0..Len(ms)
    BY <1>1
<1> QED BY <1>1, <1>2, <1>3, <1>4, <1>6, <1>7 DEF more

LEMMA ToWireBegins ==
    ASSUME NEW p
    PROVE  Providers!ToWire(p, <<>>) = Providers!Wire({}, <<>>)
<1>1. <<>> \in Seq(ConvoMessages) /\ Len(<<>>) = 0 /\ 0 \in 0..Len(<<>>)
    OBVIOUS
<1>2. PICK g : Sends(g, p, <<>>) /\ Providers!ToWire(p, <<>>) = g[Len(<<>>)]
    BY <1>1, ToWireIsSent
<1> QED BY <1>1, <1>2 DEF Sends

-----------------------------------------------------------------------------
(* Calls of providers: what is kept of a conversation on the wire. *)

\* The results of the calls at k are right behind them.
ResultsAt(p, sofar, k) ==
    IF p \in Providers!Native THEN k < Len(sofar) /\ sofar[k + 1].calls = sofar[k].calls
    ELSE /\ k + Len(sofar[k].calls) <= Len(sofar)
         /\ \A j \in DOMAIN sofar[k].calls : sofar[k + j].calls = <<sofar[k].calls[j]>>

HasCalls(m) == m.role = "assistant" /\ m.calls # <<>>
Follow(p, sofar) == \A k \in 1..Len(sofar) : HasCalls(sofar[k]) => ResultsAt(p, sofar, k)

Instructions(ms) == {ms[k].text : k \in {j \in DOMAIN ms : ms[j].role = "system"}}

ConvoInv ==
    /\ convo \in Seq(ConvoMessages) /\ rounds.rounds \in Nat
    /\ \A p \in {"openai"} \cup Providers!Native : Follow(p, Providers!ToWire(p, convo).messages)
    /\ \A p \in Judged : Providers!ToWire(p, convo).system = Instructions(convo)

\* Messages that are put behind others leave them as they were.
LEMMA FollowOn ==
    ASSUME NEW p, NEW sofar \in Seq(SentMessages), NEW more \in Seq(SentMessages),
           Len(sofar) <= Len(more), \A k \in 1..Len(sofar) : more[k] = sofar[k],
           Follow(p, sofar),
           \A k \in (Len(sofar) + 1)..Len(more) : HasCalls(more[k]) => ResultsAt(p, more, k)
    PROVE  Follow(p, more)
<1> SUFFICES ASSUME NEW k \in 1..Len(more), HasCalls(more[k]) PROVE ResultsAt(p, more, k)
    BY DEF Follow
<1>1. Len(sofar) \in Nat /\ Len(more) \in Nat
    OBVIOUS
<1>2. CASE k \in (Len(sofar) + 1)..Len(more)
    BY <1>2
<1>3. CASE k \in 1..Len(sofar)
    <2>1. more[k] = sofar[k] /\ ResultsAt(p, sofar, k) /\ sofar[k] \in SentMessages
        BY <1>3 DEF Follow
    <2>2. sofar[k].calls \in Seq(CallIds)
        BY <2>1 DEF SentMessages
    <2>3. CASE p \in Providers!Native
        <3>1. k < Len(sofar) /\ sofar[k + 1].calls = sofar[k].calls
            BY <2>1, <2>3 DEF ResultsAt
        <3>2. more[k + 1] = sofar[k + 1] /\ k < Len(more)
            BY <1>1, <1>3, <3>1
        <3> QED BY <2>1, <2>3, <3>1, <3>2 DEF ResultsAt
    <2>4. CASE p \notin Providers!Native
        <3>1. /\ k + Len(sofar[k].calls) <= Len(sofar)
              /\ \A j \in DOMAIN sofar[k].calls : sofar[k + j].calls = <<sofar[k].calls[j]>>
            BY <2>1, <2>4 DEF ResultsAt
        <3>2. \A j \in DOMAIN sofar[k].calls : more[k + j] = sofar[k + j]
            <4>1. DOMAIN sofar[k].calls = 1..Len(sofar[k].calls) /\ Len(sofar[k].calls) \in Nat
                BY <2>2
            <4> SUFFICES ASSUME NEW j \in 1..Len(sofar[k].calls) PROVE more[k + j] = sofar[k + j]
                BY <4>1
            <4>2. k + j \in 1..Len(sofar)
                BY <1>1, <1>3, <3>1, <4>1
            <4> QED BY <4>2
        <3>3. k + Len(more[k].calls) <= Len(more)
            <4>1. Len(sofar[k].calls) \in Nat
                BY <2>2
            <4> QED BY <1>1, <1>3, <2>1, <3>1, <4>1
        <3> QED BY <2>1, <2>4, <3>1, <3>2, <3>3 DEF ResultsAt
    <2> QED BY <2>3, <2>4
<1> QED BY <1>1, <1>2, <1>3

\* What one message does to a wire.
LEMMA WireTakes ==
    ASSUME NEW p, p \notin Providers!Native, NEW w, NEW m
    PROVE  OneMore(p, w, m).messages = Append(w.messages, m)
BY DEF OneMore, Providers!OpenAiMessage, Providers!Wire

LEMMA WireTakesInstruction ==
    ASSUME NEW p, p \notin Providers!Native, NEW w, NEW m
    PROVE  OneMore(p, w, m).system = IF m.role = "system" THEN w.system \cup {m.text} ELSE w.system
BY DEF OneMore, Providers!OpenAiMessage, Providers!Wire

LEMMA NativeTakesWords ==
    ASSUME NEW p, p \in Providers!Native, NEW w, NEW m, m.role = "assistant"
    PROVE  OneMore(p, w, m).messages = Append(w.messages, m)
<1>1. OneMore(p, w, m) = Providers!NativeMessage(p, w, m)
    BY DEF OneMore
<1>2. m.role # "system" /\ m.role # "tool"
    OBVIOUS
<1>3. Providers!NativeMessage(p, w, m) = Providers!Wire(w.system, Append(w.messages, m))
    BY <1>2, Zenon DEF Providers!NativeMessage
<1>4. Providers!Wire(w.system, Append(w.messages, m)).messages = Append(w.messages, m)
    BY WireFields, Zenon
<1> QED BY <1>1, <1>3, <1>4, Zenon

LEMMA NativeTakesInstruction ==
    ASSUME NEW p, p \in Providers!Native, NEW w, NEW m, m.role = "system"
    PROVE  OneMore(p, w, m).messages = w.messages
<1>1. OneMore(p, w, m) = Providers!NativeMessage(p, w, m)
    BY DEF OneMore
<1>2. Providers!NativeMessage(p, w, m) = Providers!Wire({m.text}, w.messages)
    BY Zenon DEF Providers!NativeMessage
<1>3. Providers!Wire({m.text}, w.messages).messages = w.messages
    BY DEF Providers!Wire
<1> QED BY <1>1, <1>2, <1>3, Zenon

LEMMA NativeTakesResult ==
    ASSUME NEW p, p \in Providers!Native, NEW w, NEW m, m.role = "tool"
    PROVE  OneMore(p, w, m).messages =
               IF Providers!Joins(p, w.messages) THEN Providers!Joined(w.messages, m.calls[1])
               ELSE Append(w.messages, Providers!Message("user", "none", m.calls))
<1>1. OneMore(p, w, m) = Providers!NativeMessage(p, w, m)
    BY DEF OneMore
<1>2. m.role # "system"
    OBVIOUS
<1> DEFINE joined == Providers!Joined(w.messages, m.calls[1])
           longer == Append(w.messages, Providers!Message("user", "none", m.calls))
           next == IF Providers!Joins(p, w.messages) THEN joined ELSE longer
<1>3. Providers!NativeMessage(p, w, m) = Providers!Wire(w.system, next)
    BY <1>2, Zenon DEF Providers!NativeMessage
<1>4. Providers!Wire(w.system, next).messages = next
    BY WireFields, Zenon
<1>5. OneMore(p, w, m).messages = next
    BY <1>1, <1>3, <1>4, Zenon
<1> QED BY <1>5, Zenon

LEMMA NativeJoins ==
    ASSUME NEW p, p \in Providers!Native, NEW w, NEW m, m.role = "tool", Providers!Joins(p, w.messages)
    PROVE  OneMore(p, w, m).messages = Providers!Joined(w.messages, m.calls[1])
BY NativeTakesResult, Zenon

LEMMA NativeAdds ==
    ASSUME NEW p, p \in Providers!Native, NEW w, NEW m, m.role = "tool", ~Providers!Joins(p, w.messages)
    PROVE  OneMore(p, w, m).messages = Append(w.messages, Providers!Message("user", "none", m.calls))
BY NativeTakesResult, Zenon

LEMMA InstructionsGrow ==
    ASSUME NEW p, p \notin Providers!Native, NEW ms \in Seq(ConvoMessages), NEW m \in ConvoMessages,
           Providers!ToWire(p, ms).system = Instructions(ms)
    PROVE  Providers!ToWire(p, Append(ms, m)).system = Instructions(Append(ms, m))
<1> DEFINE more == Append(ms, m)
<1>1. /\ Providers!ToWire(p, ms) \in Wires
      /\ Providers!ToWire(p, Append(ms, m)) = OneMore(p, Providers!ToWire(p, ms), m)
    BY ToWireGrows
<1>2. Providers!ToWire(p, Append(ms, m)).system =
          IF m.role = "system" THEN Instructions(ms) \cup {m.text} ELSE Instructions(ms)
    <2> DEFINE w == Providers!ToWire(p, ms)
    <2>1. OneMore(p, w, m).system = IF m.role = "system" THEN w.system \cup {m.text} ELSE w.system
        BY WireTakesInstruction, Zenon
    <2> QED BY <1>1, <2>1, Zenon
<1>3. /\ DOMAIN ms = 1..Len(ms) /\ DOMAIN more = 1..(Len(ms) + 1) /\ Len(ms) \in Nat
      /\ more[Len(ms) + 1] = m /\ \A k \in 1..Len(ms) : more[k] = ms[k]
    OBVIOUS
<1>4. 1..(Len(ms) + 1) = 1..Len(ms) \cup {Len(ms) + 1}
    BY <1>3
<1> HIDE DEF more
<1>5. Instructions(more) = IF m.role = "system" THEN Instructions(ms) \cup {m.text} ELSE Instructions(ms)
    BY <1>3, <1>4 DEF Instructions
<1> QED BY <1>2, <1>5 DEF more

\* A claim is made good: the model's words and the instruction.
LEMMA RepairFollows ==
    ASSUME NEW p, NEW ms \in Seq(ConvoMessages),
           Follow(p, Providers!ToWire(p, ms).messages),
           NEW said \in ConvoMessages, said.role = "assistant", said.calls = <<>>,
           NEW told \in ConvoMessages, told.role = "system"
    PROVE  Follow(p, Providers!ToWire(p, Append(Append(ms, said), told)).messages)
<1> DEFINE sofar == Providers!ToWire(p, ms).messages
           next == Append(ms, said)
           more == Providers!ToWire(p, Append(next, told)).messages
<1>1. /\ Providers!ToWire(p, ms) \in Wires /\ next \in Seq(ConvoMessages)
      /\ Providers!ToWire(p, next) = OneMore(p, Providers!ToWire(p, ms), said)
    BY ToWireGrows
<1> HIDE DEF next
<1>2. /\ Providers!ToWire(p, next) \in Wires
      /\ Providers!ToWire(p, Append(next, told)) = OneMore(p, Providers!ToWire(p, next), told)
    BY <1>1, ToWireGrows
<1>3. sofar \in Seq(SentMessages) /\ said \in SentMessages /\ told \in SentMessages
    BY <1>1 DEF Wires, ConvoMessages
<1>4. more = Append(sofar, said) \/ more = Append(Append(sofar, said), told)
    <2>1. CASE p \in Providers!Native
        <3>1. Providers!ToWire(p, next).messages = Append(sofar, said)
            BY <1>1, <2>1, NativeTakesWords
        <3> QED BY <1>2, <2>1, <3>1, NativeTakesInstruction
    <2>2. CASE p \notin Providers!Native
        <3>1. Providers!ToWire(p, next).messages = Append(sofar, said)
            BY <1>1, <2>2, WireTakes
        <3> QED BY <1>2, <2>2, <3>1, WireTakes
    <2> QED BY <2>1, <2>2
<1>5. ~HasCalls(said) /\ ~HasCalls(told)
    BY DEF HasCalls
<1> HIDE DEF sofar, more
<1>6. /\ more \in Seq(SentMessages) /\ Len(sofar) <= Len(more) /\ \A k \in 1..Len(sofar) : more[k] = sofar[k]
      /\ \A k \in (Len(sofar) + 1)..Len(more) : more[k] = said \/ more[k] = told
    <2>1. /\ Append(sofar, said) \in Seq(SentMessages) /\ Len(Append(sofar, said)) = Len(sofar) + 1
          /\ Append(Append(sofar, said), told) \in Seq(SentMessages)
          /\ Len(Append(Append(sofar, said), told)) = Len(sofar) + 2 /\ Len(sofar) \in Nat
        BY <1>3
    <2>2. /\ \A k \in 1..Len(sofar) : /\ Append(sofar, said)[k] = sofar[k]
                                      /\ Append(Append(sofar, said), told)[k] = sofar[k]
          /\ Append(sofar, said)[Len(sofar) + 1] = said
          /\ Append(Append(sofar, said), told)[Len(sofar) + 1] = said
          /\ Append(Append(sofar, said), told)[Len(sofar) + 2] = told
        BY <1>3
    <2>3. CASE more = Append(sofar, said)
        <3>1. \A k \in (Len(sofar) + 1)..(Len(sofar) + 1) : k = Len(sofar) + 1
            BY <2>1
        <3> QED BY <2>1, <2>2, <2>3, <3>1
    <2>4. CASE more = Append(Append(sofar, said), told)
        <3>1. \A k \in (Len(sofar) + 1)..(Len(sofar) + 2) : k = Len(sofar) + 1 \/ k = Len(sofar) + 2
            BY <2>1
        <3> QED BY <2>1, <2>2, <2>4, <3>1
    <2> QED BY <1>4, <2>3, <2>4
<1>7. Follow(p, sofar)
    BY DEF sofar
<1>8. \A k \in (Len(sofar) + 1)..Len(more) : ~HasCalls(more[k])
    BY <1>5, <1>6
<1>9. Follow(p, more)
    BY <1>3, <1>6, <1>7, <1>8, FollowOn
<1> QED BY <1>9 DEF more, next

\* The model calls a tool and is told the result.
LEMMA CallFollows ==
    ASSUME NEW p, NEW w \in Wires, Follow(p, w.messages), NEW c \in CallIds,
           NEW said \in ConvoMessages, said.role = "assistant", said.calls = <<c>>,
           NEW first \in ConvoMessages, first.role = "tool", first.calls = <<c>>
    PROVE  Follow(p, OneMore(p, OneMore(p, w, said), first).messages)
<1> DEFINE sofar == w.messages
           asked == OneMore(p, w, said)
           more == OneMore(p, asked, first).messages
<1>1. sofar \in Seq(SentMessages) /\ said \in SentMessages /\ first \in SentMessages
    BY DEF Wires, ConvoMessages
<1>2. asked.messages = Append(sofar, said)
    <2>1. CASE p \in Providers!Native
        BY <2>1, NativeTakesWords, Zenon
    <2>2. CASE p \notin Providers!Native
        BY <2>2, WireTakes, Zenon
    <2> QED BY <2>1, <2>2
<1>3. \E m \in SentMessages :
          /\ more = Append(Append(sofar, said), m) /\ m.calls = <<c>>
          /\ m.role = IF p \in Providers!Native THEN "user" ELSE "tool"
    <2>1. CASE p \in Providers!Native
        <3>1. Append(sofar, said) \in Seq(SentMessages) /\ Append(sofar, said) # <<>>
              /\ Len(Append(sofar, said)) = Len(sofar) + 1 /\ Append(sofar, said)[Len(sofar) + 1] = said
            BY <1>1
        <3>2. ~Providers!Joins(p, asked.messages)
            BY <1>2, <3>1 DEF Providers!Joins, Providers!Last
        <3>3. more = Append(asked.messages, Providers!Message("user", "none", first.calls))
            BY <2>1, <3>2, NativeAdds, Zenon
        <3>4. first.calls \in Seq(CallIds)
            BY <1>1 DEF SentMessages
        <3>5. /\ Providers!Message("user", "none", first.calls) \in SentMessages
              /\ Providers!Message("user", "none", first.calls).calls = <<c>>
              /\ Providers!Message("user", "none", first.calls).role = "user"
            BY <3>4 DEF Providers!Message, SentMessages
        <3> QED BY <1>2, <2>1, <3>3, <3>5, Zenon
    <2>2. CASE p \notin Providers!Native
        <3>1. more = Append(asked.messages, first)
            BY <2>2, WireTakes, Zenon
        <3> QED BY <1>1, <1>2, <2>2, <3>1, Zenon
    <2> QED BY <2>1, <2>2
<1>4. PICK m \in SentMessages :
          /\ more = Append(Append(sofar, said), m) /\ m.calls = <<c>>
          /\ m.role = IF p \in Providers!Native THEN "user" ELSE "tool"
    BY <1>3
<1> HIDE DEF sofar, asked, more
<1>5. /\ more \in Seq(SentMessages) /\ Len(more) = Len(sofar) + 2 /\ Len(sofar) \in Nat
      /\ \A k \in 1..Len(sofar) : more[k] = sofar[k]
      /\ more[Len(sofar) + 1] = said /\ more[Len(sofar) + 2] = m
    BY <1>1, <1>4
<1>6. ASSUME NEW k \in (Len(sofar) + 1)..Len(more), HasCalls(more[k]) PROVE ResultsAt(p, more, k)
    <2>1. k = Len(sofar) + 1 \/ k = Len(sofar) + 2
        BY <1>5
    <2>2. ~HasCalls(m)
        BY <1>4 DEF HasCalls
    <2>3. k = Len(sofar) + 1
        BY <1>5, <1>6, <2>1, <2>2
    <2>4. /\ more[k].calls = <<c>> /\ more[k + 1].calls = <<c>> /\ k + 1 = Len(more)
          /\ Len(<<c>>) = 1 /\ DOMAIN <<c>> = {1} /\ <<c>>[1] = c /\ k \in Nat
        BY <1>4, <1>5, <2>3
    <2>5. k < Len(more) /\ k + 1 <= Len(more)
        BY <2>4
    <2> QED BY <2>4, <2>5 DEF ResultsAt
<1>7. Follow(p, sofar)
    BY DEF sofar
<1>8. Len(sofar) <= Len(more)
    BY <1>5
<1>9. Follow(p, more)
    BY <1>1, <1>5, <1>6, <1>7, <1>8, FollowOn
<1> QED BY <1>9 DEF more, asked

\* The model calls two tools and is told both results.
LEMMA CallsFollow ==
    ASSUME NEW p, NEW w \in Wires, Follow(p, w.messages), NEW c \in CallIds, NEW d \in CallIds,
           NEW said \in ConvoMessages, said.role = "assistant", said.calls = <<c, d>>,
           NEW first \in ConvoMessages, first.role = "tool", first.calls = <<c>>,
           NEW second \in ConvoMessages, second.role = "tool", second.calls = <<d>>
    PROVE  Follow(p, OneMore(p, OneMore(p, OneMore(p, w, said), first), second).messages)
<1> DEFINE sofar == w.messages
           asked == OneMore(p, w, said)
           told == OneMore(p, asked, first)
           more == OneMore(p, told, second).messages
<1>1. /\ sofar \in Seq(SentMessages) /\ said \in SentMessages
      /\ first \in SentMessages /\ second \in SentMessages
    BY DEF Wires, ConvoMessages
<1>2. asked.messages = Append(sofar, said)
    <2>1. CASE p \in Providers!Native
        BY <2>1, NativeTakesWords, Zenon
    <2>2. CASE p \notin Providers!Native
        BY <2>2, WireTakes, Zenon
    <2> QED BY <2>1, <2>2
<1>3. CASE p \in Providers!Native
    <2> DEFINE one == Providers!Message("user", "none", first.calls)
               both == [one EXCEPT !.calls = Append(@, d)]
    <2>1. Append(sofar, said) \in Seq(SentMessages) /\ Append(sofar, said) # <<>>
          /\ Len(Append(sofar, said)) = Len(sofar) + 1 /\ Append(sofar, said)[Len(sofar) + 1] = said
        BY <1>1
    <2>2. ~Providers!Joins(p, asked.messages)
        BY <1>2, <2>1 DEF Providers!Joins, Providers!Last
    <2>3. told.messages = Append(asked.messages, one)
        <3> HIDE DEF asked
        <3> QED BY <1>3, <2>2, NativeAdds, Zenon
    <2>4. first.calls \in Seq(CallIds)
        BY <1>1 DEF SentMessages
    <2>5. one \in SentMessages /\ one.calls = <<c>> /\ one.role = "user"
        BY <2>4 DEF Providers!Message, SentMessages
    <2> HIDE DEF one
    <2>6. /\ told.messages \in Seq(SentMessages) /\ told.messages # <<>>
          /\ Len(told.messages) = Len(sofar) + 2 /\ told.messages[Len(sofar) + 2] = one
          /\ told.messages[Len(sofar) + 1] = said
          /\ \A k \in 1..Len(sofar) : told.messages[k] = sofar[k]
        <3>1. \A S : \A s \in Seq(S), a, b \in S :
                  /\ Append(Append(s, a), b) \in Seq(S) /\ Append(Append(s, a), b) # <<>>
                  /\ Len(Append(Append(s, a), b)) = Len(s) + 2
                  /\ Append(Append(s, a), b)[Len(s) + 2] = b /\ Append(Append(s, a), b)[Len(s) + 1] = a
                  /\ \A k \in 1..Len(s) : Append(Append(s, a), b)[k] = s[k]
            OBVIOUS
        <3>2. told.messages = Append(Append(sofar, said), one)
            BY <1>2, <2>3, Zenon
        <3> HIDE DEF sofar, asked, told
        <3> QED BY <1>1, <2>5, <3>1, <3>2
    <2>7. Providers!Joins(p, told.messages)
        <3>1. <<c>> # <<>> /\ Len(told.messages) = Len(sofar) + 2
            BY <2>6
        <3>2. Providers!Last(told.messages) = one
            BY <2>6, <3>1 DEF Providers!Last
        <3> QED BY <2>5, <2>6, <3>1, <3>2 DEF Providers!Joins
    <2>8. more = Providers!Joined(told.messages, d)
        <3>1. second.calls[1] = d
            OBVIOUS
        <3>2. more = Providers!Joined(told.messages, second.calls[1])
            <4> HIDE DEF told
            <4> QED BY <1>3, <2>7, NativeJoins, Zenon
        <3> QED BY <3>1, <3>2
    <2> HIDE DEF sofar, asked, told, more
    <2>9. both.calls = <<c, d>> /\ both.role = "user"
        <3>1. Append(one.calls, d) = <<c, d>>
            <4>1. Append(<<c>>, d) = <<c, d>>
                <5>1. /\ <<c>> \in Seq(CallIds) /\ Len(<<c>>) = 1 /\ <<c>>[1] = c
                      /\ <<c, d>> \in Seq(CallIds) /\ Len(<<c, d>>) = 2
                      /\ <<c, d>>[1] = c /\ <<c, d>>[2] = d
                    OBVIOUS
                <5>2. /\ Append(<<c>>, d) \in Seq(CallIds) /\ Len(Append(<<c>>, d)) = 2
                      /\ Append(<<c>>, d)[1] = c /\ Append(<<c>>, d)[2] = d
                    BY <5>1
                <5> DEFINE s == Append(<<c>>, d)
                           t == <<c, d>>
                <5>3. /\ s \in Seq(CallIds) /\ t \in Seq(CallIds) /\ Len(s) = 2 /\ Len(t) = 2
                      /\ s[1] = t[1] /\ s[2] = t[2]
                    BY <5>1, <5>2
                <5> HIDE DEF s, t
                <5>4. \A i \in 1..Len(s) : s[i] = t[i]
                    BY <5>3
                <5>5. s = t
                    BY <5>3, <5>4, SameLists
                <5> QED BY <5>5 DEF s, t
            <4> QED BY <2>5, <4>1
        <3>2. both.calls = Append(one.calls, d) /\ both.role = one.role
            BY <2>5 DEF SentMessages
        <3> QED BY <2>5, <3>1, <3>2
    <2>10. /\ more \in Seq(SentMessages) /\ Len(more) = Len(told.messages)
           /\ \A k \in 1..(Len(told.messages) - 1) : more[k] = told.messages[k]
           /\ more[Len(told.messages)] = both
        <3>1. told.messages[Len(told.messages)] = one
            BY <2>6
        <3> DEFINE last == told.messages[Len(told.messages)]
                   joined == Providers!Joined(told.messages, d)
        <3>2. /\ joined \in Seq(SentMessages) /\ Len(joined) = Len(told.messages)
              /\ \A k \in 1..(Len(told.messages) - 1) : joined[k] = told.messages[k]
              /\ joined[Len(told.messages)] = [last EXCEPT !.calls = Append(@, d)]
            BY <2>6, JoinedIsLonger
        <3>3. last = one
            BY <3>1
        <3> HIDE DEF last, joined
        <3> QED BY <2>8, <3>2, <3>3 DEF joined
    <2> HIDE DEF both
    <2>11. /\ Len(sofar) \in Nat /\ Len(more) = Len(sofar) + 2 /\ more[Len(sofar) + 2] = both
           /\ more[Len(sofar) + 1] = said /\ \A k \in 1..Len(sofar) : more[k] = sofar[k]
        BY <1>1, <2>6, <2>10
    <2>12. ASSUME NEW k \in (Len(sofar) + 1)..Len(more), HasCalls(more[k]) PROVE ResultsAt(p, more, k)
        <3>1. k = Len(sofar) + 1 \/ k = Len(sofar) + 2
            BY <2>11
        <3>2. ~HasCalls(both)
            BY <2>9 DEF HasCalls
        <3>3. k = Len(sofar) + 1
            BY <2>11, <2>12, <3>1, <3>2
        <3>4. k < Len(more) /\ more[k + 1] = both /\ more[k] = said
            BY <2>11, <3>3
        <3> QED BY <1>3, <2>9, <3>4 DEF ResultsAt
    <2>13. Follow(p, sofar) /\ Len(sofar) <= Len(more)
        BY <2>11 DEF sofar
    <2>14. Follow(p, more)
        BY <1>1, <2>10, <2>11, <2>12, <2>13, FollowOn
    <2> QED BY <2>14 DEF more, told, asked
<1>4. CASE p \notin Providers!Native
    <2>1. more = Append(Append(Append(sofar, said), first), second)
        <3>1. told.messages = Append(asked.messages, first) /\ more = Append(told.messages, second)
            BY <1>4, WireTakes, Zenon
        <3> QED BY <1>2, <3>1, Zenon
    <2> HIDE DEF sofar, asked, told, more
    <2>2. /\ more \in Seq(SentMessages) /\ Len(sofar) \in Nat /\ Len(more) = Len(sofar) + 3
          /\ more[Len(sofar) + 1] = said /\ more[Len(sofar) + 2] = first /\ more[Len(sofar) + 3] = second
          /\ \A k \in 1..Len(sofar) : more[k] = sofar[k]
        BY <1>1, <2>1
    <2>3. ASSUME NEW k \in (Len(sofar) + 1)..Len(more), HasCalls(more[k]) PROVE ResultsAt(p, more, k)
        <3>1. k = Len(sofar) + 1 \/ k = Len(sofar) + 2 \/ k = Len(sofar) + 3
            BY <2>2
        <3>2. ~HasCalls(first) /\ ~HasCalls(second)
            BY DEF HasCalls
        <3>3. k = Len(sofar) + 1
            BY <2>2, <2>3, <3>1, <3>2
        <3>4. k + 2 <= Len(more) /\ more[k + 1] = first /\ more[k + 2] = second /\ more[k] = said
            BY <2>2, <3>3
        <3>5. Len(<<c, d>>) = 2 /\ DOMAIN <<c, d>> = {1, 2} /\ <<c, d>>[1] = c /\ <<c, d>>[2] = d
            OBVIOUS
        <3>6. k + Len(more[k].calls) <= Len(more)
            BY <3>4, <3>5
        <3>7. \A j \in DOMAIN more[k].calls : more[k + j].calls = <<more[k].calls[j]>>
            BY <3>4, <3>5
        <3> QED BY <1>4, <3>6, <3>7 DEF ResultsAt
    <2>4. Follow(p, sofar) /\ Len(sofar) <= Len(more)
        BY <2>2 DEF sofar
    <2>5. Follow(p, more)
        BY <1>1, <2>2, <2>3, <2>4, FollowOn
    <2> QED BY <2>5 DEF more, told, asked
<1> QED BY <1>3, <1>4

\* The conversation goes on: a claim is made good, or tools are run.
LEMMA RepairStep ==
    ASSUME ConvoInv, Judged \cap Providers!Native = {}, Providers!TurnRepairs
    PROVE  ConvoInv'
<1> DEFINE said == Providers!Message("assistant", "none", <<>>)
           told == Providers!Message("system", "repair", <<>>)
<1>1. /\ said \in ConvoMessages /\ said.role = "assistant" /\ said.calls = <<>>
      /\ told \in ConvoMessages /\ told.role = "system"
    <2>1. <<>> \in Seq(CallIds)
        OBVIOUS
    <2> QED BY <2>1 DEF Providers!Message, ConvoMessages, SentMessages
<1>2. convo' = convo \o <<said, told>> /\ rounds'.rounds = rounds.rounds + 1
    <2>1. convo' = convo \o <<said, told>> /\ rounds' = [rounds EXCEPT !.rounds = @ + 1, !.repaired = TRUE]
        BY DEF Providers!TurnRepairs, Providers!Continues
    <2> QED BY <2>1 DEF ConvoInv
<1> HIDE DEF said, told
<1>3. convo' = Append(Append(convo, said), told)
    <2> DEFINE s == convo \o <<said, told>>
               t == Append(Append(convo, said), told)
    <2>1. /\ <<said, told>> \in Seq(ConvoMessages) /\ Len(<<said, told>>) = 2
          /\ <<said, told>>[1] = said /\ <<said, told>>[2] = told
        BY <1>1
    <2>2. /\ s \in Seq(ConvoMessages) /\ Len(s) = Len(convo) + 2 /\ Len(convo) \in Nat
          /\ \A k \in 1..Len(convo) : s[k] = convo[k]
          /\ s[Len(convo) + 1] = said /\ s[Len(convo) + 2] = told
        BY <2>1 DEF ConvoInv
    <2>3. /\ t \in Seq(ConvoMessages) /\ Len(t) = Len(convo) + 2
          /\ \A k \in 1..Len(convo) : t[k] = convo[k]
          /\ t[Len(convo) + 1] = said /\ t[Len(convo) + 2] = told
        BY <1>1 DEF ConvoInv
    <2> HIDE DEF s, t
    <2>4. \A k \in 1..Len(s) : s[k] = t[k]
        BY <2>2, <2>3
    <2>5. s = t
        BY <2>2, <2>3, <2>4, SameLists
    <2> QED BY <1>2, <2>5 DEF s, t
<1>4. convo \in Seq(ConvoMessages) /\ rounds.rounds \in Nat
    BY DEF ConvoInv
<1>5. Append(convo, said) \in Seq(ConvoMessages) /\ Append(Append(convo, said), told) \in Seq(ConvoMessages)
    BY <1>1, <1>4
<1>6. ASSUME NEW p \in {"openai"} \cup Providers!Native
      PROVE  Follow(p, Providers!ToWire(p, Append(Append(convo, said), told)).messages)
    BY <1>1, <1>4, RepairFollows DEF ConvoInv
<1>7. ASSUME NEW p \in Judged
      PROVE  Providers!ToWire(p, Append(Append(convo, said), told)).system =
                 Instructions(Append(Append(convo, said), told))
    <2>1. p \notin Providers!Native /\ Providers!ToWire(p, convo).system = Instructions(convo)
        BY <1>7 DEF ConvoInv
    <2>2. Providers!ToWire(p, Append(convo, said)).system = Instructions(Append(convo, said))
        BY <1>1, <1>4, <2>1, InstructionsGrow
    <2> QED BY <1>1, <1>5, <2>1, <2>2, InstructionsGrow
<1>8. rounds'.rounds \in Nat
    BY <1>2, <1>4
<1> QED BY <1>3, <1>5, <1>6, <1>7, <1>8 DEF ConvoInv

LEMMA ToolsStep ==
    ASSUME ConvoInv, Judged \cap Providers!Native = {}, NEW n \in 1..2, Providers!TurnRunsTools(n)
    PROVE  ConvoInv'
<1> DEFINE calls == [j \in 1..n |-> <<rounds.rounds, j>>]
           said == Providers!Message("assistant", "none", calls)
           tools == [j \in 1..n |-> Providers!Message("tool", "none", <<calls[j]>>)]
           block == <<said>> \o tools
           c == <<rounds.rounds, 1>>
           d == <<rounds.rounds, 2>>
           first == Providers!Message("tool", "none", <<c>>)
           second == Providers!Message("tool", "none", <<d>>)
<1>1. convo \in Seq(ConvoMessages) /\ rounds.rounds \in Nat
    BY DEF ConvoInv
<1>2. convo' = convo \o block /\ rounds'.rounds \in Nat
    <2>1. /\ convo' = convo \o block
          /\ rounds' = [rounds EXCEPT !.rounds = @ + 1, !.repaired = rounds.repaired]
        BY DEF Providers!TurnRunsTools, Providers!Continues
    <2>2. rounds'.rounds \in {rounds.rounds + 1, rounds.rounds}
        BY <2>1
    <2> QED BY <1>1, <2>1, <2>2
<1>3. c \in CallIds /\ d \in CallIds
    BY <1>1 DEF CallIds
<1>4. /\ <<c>> \in Seq(CallIds) /\ Len(<<c>>) = 1 /\ <<d>> \in Seq(CallIds) /\ Len(<<d>>) = 1
      /\ calls \in Seq(CallIds) /\ Len(calls) = n /\ calls[1] = c /\ (n = 2 => calls[2] = d)
    <2>1. calls \in [1..n -> CallIds]
        BY <1>1 DEF CallIds
    <2>2. calls[1] = c /\ (n = 2 => calls[2] = d)
        OBVIOUS
    <2> HIDE DEF calls, c, d
    <2> QED BY <1>3, <2>1, <2>2
<1>5. /\ said \in ConvoMessages /\ said.role = "assistant" /\ said.calls = calls
      /\ first \in ConvoMessages /\ first.role = "tool" /\ first.calls = <<c>>
      /\ second \in ConvoMessages /\ second.role = "tool" /\ second.calls = <<d>>
    <2> HIDE DEF calls, c, d
    <2> QED BY <1>4 DEF Providers!Message, ConvoMessages, SentMessages
<1>6. /\ tools \in Seq(ConvoMessages) /\ Len(tools) = n /\ tools[1] = first
      /\ n = 2 => tools[2] = second
    <2>1. \A j \in 1..n : calls[j] = IF j = 1 THEN c ELSE d
        OBVIOUS
    <2> HIDE DEF calls, c, d
    <2>2. \A j \in 1..n : tools[j] = IF j = 1 THEN first ELSE second
        BY <2>1
    <2>3. tools = [j \in 1..n |-> tools[j]]
        OBVIOUS
    <2> HIDE DEF tools, first, second
    <2>4. tools \in [1..n -> ConvoMessages]
        BY <1>5, <2>2, <2>3
    <2> QED BY <2>2, <2>4
<1> HIDE DEF calls, said, tools, c, d, first, second
<1>7. /\ block \in Seq(ConvoMessages) /\ Len(block) = n + 1 /\ block[1] = said
      /\ block[2] = first /\ (n = 2 => block[3] = second)
    <2>1. <<said>> \in Seq(ConvoMessages) /\ Len(<<said>>) = 1 /\ <<said>>[1] = said
        BY <1>5
    <2> QED BY <1>6, <2>1
<1> HIDE DEF block
<1> DEFINE one == Append(convo, said)
           two == Append(one, first)
           new == convo \o block
<1>8. /\ Append(convo, said) \in Seq(ConvoMessages) /\ two \in Seq(ConvoMessages)
      /\ Append(two, second) \in Seq(ConvoMessages)
    BY <1>1, <1>5
<1>9. new = IF n = 1 THEN two ELSE Append(two, second)
    <2>1. /\ new \in Seq(ConvoMessages) /\ Len(new) = Len(convo) + n + 1 /\ Len(convo) \in Nat
          /\ \A k \in 1..Len(convo) : new[k] = convo[k]
          /\ new[Len(convo) + 1] = said /\ new[Len(convo) + 2] = first
          /\ n = 2 => new[Len(convo) + 3] = second
        BY <1>1, <1>7
    <2>2. /\ Len(two) = Len(convo) + 2 /\ \A k \in 1..Len(convo) : two[k] = convo[k]
          /\ two[Len(convo) + 1] = said /\ two[Len(convo) + 2] = first
        BY <1>1, <1>5
    <2> HIDE DEF two, new
    <2>3. CASE n = 1
        <3>1. \A k \in 1..Len(new) : new[k] = two[k]
            BY <2>1, <2>2, <2>3
        <3> QED BY <1>8, <2>1, <2>2, <2>3, <3>1, SameLists
    <2>4. CASE n = 2
        <3> DEFINE three == Append(two, second)
        <3>1. /\ Len(three) = Len(convo) + 3 /\ \A k \in 1..Len(convo) : three[k] = convo[k]
              /\ three[Len(convo) + 1] = said /\ three[Len(convo) + 2] = first
              /\ three[Len(convo) + 3] = second
            BY <1>5, <1>8, <2>1, <2>2
        <3>2. three \in Seq(ConvoMessages)
            BY <1>8
        <3> HIDE DEF three
        <3>3. \A k \in 1..Len(new) : new[k] = three[k]
            BY <2>1, <2>4, <3>1
        <3>4. new = three
            BY <2>1, <2>4, <3>1, <3>2, <3>3, SameLists
        <3> QED BY <2>4, <3>4 DEF three
    <2> QED BY <2>3, <2>4
<1>10. calls = IF n = 1 THEN <<c>> ELSE <<c, d>>
    <2>1. CASE n = 1
        <3>1. \A k \in 1..Len(calls) : calls[k] = <<c>>[k]
            BY <1>4, <2>1
        <3> QED BY <1>4, <2>1, <3>1, SameLists
    <2>2. CASE n = 2
        <3>1. <<c, d>> \in Seq(CallIds) /\ Len(<<c, d>>) = 2 /\ <<c, d>>[1] = c /\ <<c, d>>[2] = d
            BY <1>3
        <3>2. \A k \in 1..Len(calls) : calls[k] = <<c, d>>[k]
            BY <1>4, <2>2, <3>1
        <3> QED BY <1>4, <2>2, <3>1, <3>2, SameLists
    <2> QED BY <2>1, <2>2
<1>11. ASSUME NEW p \in {"openai"} \cup Providers!Native PROVE Follow(p, Providers!ToWire(p, new).messages)
    <2> DEFINE w == Providers!ToWire(p, convo)
    <2>1. w \in Wires /\ Follow(p, w.messages)
        BY <1>1, <1>5, ToWireGrows DEF ConvoInv
    <2>2. Providers!ToWire(p, Append(convo, said)) = OneMore(p, w, said)
        BY <1>1, <1>5, ToWireGrows
    <2>3. Providers!ToWire(p, two) = OneMore(p, OneMore(p, w, said), first)
        <3>1. one \in Seq(ConvoMessages) /\ Providers!ToWire(p, one) = OneMore(p, w, said)
            BY <1>8, <2>2
        <3> HIDE DEF one, w
        <3>2. Providers!ToWire(p, Append(one, first)) = OneMore(p, Providers!ToWire(p, one), first)
            BY <1>5, <3>1, ToWireGrows
        <3> QED BY <3>1, <3>2 DEF two
    <2>4. Providers!ToWire(p, Append(two, second)) = OneMore(p, OneMore(p, OneMore(p, w, said), first), second)
        <3> HIDE DEF two, w
        <3>1. Providers!ToWire(p, Append(two, second)) = OneMore(p, Providers!ToWire(p, two), second)
            BY <1>5, <1>8, ToWireGrows
        <3> QED BY <2>3, <3>1
    <2> HIDE DEF w, two, new
    <2>5. CASE n = 1
        <3>1. said.calls = <<c>> /\ new = two
            BY <1>5, <1>9, <1>10, <2>5
        <3>2. Follow(p, OneMore(p, OneMore(p, w, said), first).messages)
            BY <1>3, <1>5, <2>1, <3>1, CallFollows
        <3> QED BY <2>3, <3>1, <3>2
    <2>6. CASE n = 2
        <3>1. said.calls = <<c, d>> /\ new = Append(two, second)
            BY <1>5, <1>9, <1>10, <2>6
        <3>2. Follow(p, OneMore(p, OneMore(p, OneMore(p, w, said), first), second).messages)
            BY <1>3, <1>5, <2>1, <3>1, CallsFollow
        <3> QED BY <2>4, <3>1, <3>2
    <2> QED BY <2>5, <2>6
<1>12. ASSUME NEW p \in Judged PROVE Providers!ToWire(p, new).system = Instructions(new)
    <2>1. p \notin Providers!Native /\ Providers!ToWire(p, convo).system = Instructions(convo)
        BY <1>12 DEF ConvoInv
    <2>2. Providers!ToWire(p, Append(convo, said)).system = Instructions(Append(convo, said))
        BY <1>1, <1>5, <2>1, InstructionsGrow
    <2>3. Providers!ToWire(p, two).system = Instructions(two)
        BY <1>5, <1>8, <2>1, <2>2, InstructionsGrow
    <2> HIDE DEF two, new
    <2>4. Providers!ToWire(p, Append(two, second)).system = Instructions(Append(two, second))
        BY <1>5, <1>8, <2>1, <2>3, InstructionsGrow
    <2> QED BY <1>9, <2>3, <2>4
<1>13. convo' = new /\ new \in Seq(ConvoMessages)
    BY <1>1, <1>2, <1>7
<1> HIDE DEF new
<1> QED BY <1>2, <1>11, <1>12, <1>13 DEF ConvoInv

LEMMA ConvoBegins ==
    ASSUME Providers!Init, Judged \cap Providers!Native = {}
    PROVE  ConvoInv
<1> DEFINE prompt == Providers!Message("system", "prompt", <<>>)
           user == Providers!Message("user", "none", <<>>)
           one == Append(<<>>, prompt)
<1>1. /\ prompt \in ConvoMessages /\ ~HasCalls(prompt) /\ user \in ConvoMessages /\ ~HasCalls(user)
      /\ prompt.role = "system" /\ user.role = "user"
    <2>1. <<>> \in Seq(CallIds)
        OBVIOUS
    <2> QED BY <2>1 DEF Providers!Message, ConvoMessages, SentMessages, HasCalls
<1>2. convo = <<prompt, user>> /\ rounds.rounds = 0
    BY DEF Providers!Init
<1> HIDE DEF prompt, user
<1>3. <<>> \in Seq(ConvoMessages) /\ one \in Seq(ConvoMessages)
    BY <1>1
<1>4. convo = Append(one, user)
    <2>1. /\ <<prompt, user>> \in Seq(ConvoMessages) /\ Len(<<prompt, user>>) = 2
          /\ <<prompt, user>>[1] = prompt /\ <<prompt, user>>[2] = user
        BY <1>1
    <2>2. /\ Append(one, user) \in Seq(ConvoMessages) /\ Len(Append(one, user)) = 2
          /\ Append(one, user)[1] = prompt /\ Append(one, user)[2] = user
        BY <1>1, <1>3
    <2> DEFINE s == <<prompt, user>>
               t == Append(one, user)
    <2>3. /\ s \in Seq(ConvoMessages) /\ t \in Seq(ConvoMessages) /\ Len(s) = 2 /\ Len(t) = 2
          /\ s[1] = t[1] /\ s[2] = t[2]
        BY <2>1, <2>2
    <2> HIDE DEF s, t
    <2>4. \A k \in 1..Len(s) : s[k] = t[k]
        BY <2>3
    <2>5. s = t
        BY <2>3, <2>4, SameLists
    <2> QED BY <1>2, <2>5 DEF s, t
<1>5. ASSUME NEW p PROVE Follow(p, Providers!ToWire(p, convo).messages)
    <2> DEFINE none == Providers!Wire({}, <<>>)
               w == OneMore(p, none, prompt)
               more == OneMore(p, w, user).messages
    <2>1. Providers!ToWire(p, one) = w
        <3>1. \A ms \in Seq(ConvoMessages) :
                  Providers!ToWire(p, Append(ms, prompt)) = OneMore(p, Providers!ToWire(p, ms), prompt)
            BY <1>1, ToWireGrows
        <3>2. Providers!ToWire(p, Append(<<>>, prompt)) = OneMore(p, Providers!ToWire(p, <<>>), prompt)
            BY <1>3, <3>1
        <3> QED BY <3>2, ToWireBegins
    <2>2. Providers!ToWire(p, convo) = OneMore(p, w, user) /\ w \in Wires
        <3> HIDE DEF w, one
        <3> QED BY <1>1, <1>3, <1>4, <2>1, ToWireGrows
    <2>3. none.messages = <<>> /\ none.system = {}
        BY DEF Providers!Wire
    <2> HIDE DEF none
    <2>4. w.messages = <<>> \/ w.messages = Append(<<>>, prompt)
        <3>1. CASE p \in Providers!Native
            <4>1. w.messages = none.messages
                BY <1>1, <3>1, NativeTakesInstruction, Zenon
            <4> QED BY <2>3, <4>1
        <3>2. CASE p \notin Providers!Native
            <4>1. w.messages = Append(none.messages, prompt)
                BY <3>2, WireTakes, Zenon
            <4> QED BY <2>3, <4>1
        <3> QED BY <3>1, <3>2
    <2>5. more = Append(w.messages, user)
        <3>1. CASE p \in Providers!Native
            <4>1. user.role # "system" /\ user.role # "tool"
                BY <1>1
            <4>2. OneMore(p, w, user) = Providers!Wire(w.system, Append(w.messages, user))
                BY <3>1, <4>1, Zenon DEF OneMore, Providers!NativeMessage
            <4>3. Providers!Wire(w.system, Append(w.messages, user)).messages = Append(w.messages, user)
                BY DEF Providers!Wire
            <4> HIDE DEF w
            <4> QED BY <4>2, <4>3
        <3>2. CASE p \notin Providers!Native
            <4> HIDE DEF w
            <4> QED BY <3>2, WireTakes, Zenon
        <3> QED BY <3>1, <3>2
    <2> HIDE DEF w, more
    <2>6. \A k \in 1..Len(more) : more[k] = prompt \/ more[k] = user
        <3>1. prompt \in SentMessages /\ user \in SentMessages
            BY <1>1 DEF ConvoMessages
        <3>2. CASE w.messages = <<>>
            <4>1. /\ Append(<<>>, user) \in Seq(SentMessages) /\ Len(Append(<<>>, user)) = 1
                  /\ Append(<<>>, user)[1] = user /\ \A k \in 1..1 : k = 1
                BY <3>1
            <4> QED BY <2>5, <3>2, <4>1
        <3>3. CASE w.messages = Append(<<>>, prompt)
            <4>1. /\ Append(<<>>, prompt) \in Seq(SentMessages) /\ Len(Append(<<>>, prompt)) = 1
                  /\ Append(<<>>, prompt)[1] = prompt
                BY <3>1
            <4>2. /\ Len(Append(Append(<<>>, prompt), user)) = 2
                  /\ Append(Append(<<>>, prompt), user)[1] = prompt
                  /\ Append(Append(<<>>, prompt), user)[2] = user /\ \A k \in 1..2 : k = 1 \/ k = 2
                BY <3>1, <4>1
            <4> QED BY <2>5, <3>3, <4>2
        <3> QED BY <2>4, <3>2, <3>3
    <2>7. Follow(p, more)
        BY <1>1, <2>6 DEF Follow
    <2> QED BY <2>2, <2>7 DEF more
<1>6. ASSUME NEW p \in Judged PROVE Providers!ToWire(p, convo).system = Instructions(convo)
    <2>1. p \notin Providers!Native
        BY <1>6
    <2>2. Providers!ToWire(p, <<>>).system = {}
        BY ToWireBegins DEF Providers!Wire
    <2>3. Instructions(<<>>) = {}
        BY DEF Instructions
    <2>4. Providers!ToWire(p, one).system = Instructions(one)
        <3>1. \A ms \in Seq(ConvoMessages) :
                  Providers!ToWire(p, ms).system = Instructions(ms) =>
                      Providers!ToWire(p, Append(ms, prompt)).system = Instructions(Append(ms, prompt))
            BY <1>1, <2>1, InstructionsGrow
        <3> QED BY <1>3, <2>2, <2>3, <3>1
    <2> HIDE DEF one
    <2> QED BY <1>1, <1>3, <1>4, <2>1, <2>4, InstructionsGrow
<1>7. convo \in Seq(ConvoMessages)
    <2> HIDE DEF one
    <2> QED BY <1>1, <1>3, <1>4
<1> QED BY <1>2, <1>5, <1>6, <1>7 DEF ConvoInv

\* No other step changes the conversation.
LEMMA ConvoStays ==
    ASSUME ConvoInv, Judged \cap Providers!Native = {}, [Providers!Next]_(Providers!providerVars)
    PROVE  ConvoInv'
<1>1. ASSUME UNCHANGED convo, rounds'.rounds = rounds.rounds PROVE ConvoInv'
    <2>1. \A p : Providers!ToWire(p, convo)' = Providers!ToWire(p, convo)
        BY <1>1
    <2>2. Instructions(convo)' = Instructions(convo)
        BY <1>1 DEF Instructions
    <2> QED BY <1>1, <2>1, <2>2 DEF ConvoInv
<1>2. CASE Providers!TurnRepairs \/ \E n \in 1..2 : Providers!TurnRunsTools(n)
    BY <1>2, RepairStep, ToolsStep
<1>3. ASSUME NEW how, Providers!TurnEnds(how) PROVE UNCHANGED convo /\ rounds'.rounds = rounds.rounds
    BY <1>3 DEF Providers!TurnEnds
<1>4. CASE Providers!TurnFails \/ Providers!TurnCompletes
    BY <1>1, <1>3, <1>4 DEF Providers!TurnFails, Providers!TurnCompletes
<1>5. CASE Providers!Taken
    BY <1>1, <1>5 DEF Providers!Taken
<1>6. CASE \/ Providers!Begin \/ Providers!Retry \/ Providers!BodyBreaks
           \/ \E marker \in Providers!Markers : Providers!NetworkFails(marker)
           \/ \E status_ \in Providers!Statuses : Providers!HttpFails(status_)
           \/ \E body \in Providers!Bodies : Providers!Answer(body)
           \/ \E mode, chain, p : Providers!Route(mode, chain, p) \/ Providers!AskTools(p)
           \/ UNCHANGED Providers!providerVars
    <2>1. UNCHANGED <<convo, rounds>>
        BY <1>6, Zenon DEF Providers!Begin, Providers!Retry, Providers!BodyBreaks, Providers!NetworkFails,
              Providers!HttpFails, Providers!Answer, Providers!Route, Providers!AskTools,
              Providers!providerVars
    <2> QED BY <1>1, <2>1
<1> QED BY <1>2, <1>4, <1>5, <1>6, Zenon DEF Providers!Next, Providers!ProviderStep

-----------------------------------------------------------------------------
(* Calls of providers: the router. *)

\* The names of the providers that are asked.
Names == UNION {Providers!ToSet(chain) : chain \in Chains} \cup {"gemini"}
AskSteps == {"idle", "ask", "fetch", "wait", "done"}
Trials == [provider : Names, passing : BOOLEAN]

AskType ==
    /\ ask \in [mode : {"none", "text", "structured", "tools"}, order : Seq(Names),
                i : Nat, attempt : Nat, at : AskSteps]
    /\ trace \in Seq(Trials)
    /\ ask.attempt <= Providers!Attempts(ProviderAttempts)

\* A call asks one provider after the other; a failure that was not the last one
\* is behind it.
AskInv ==
    /\ ask.at = "idle" => ask = Providers!NoAsk /\ trace = <<>> /\ answered = Providers!NoReply
    /\ ask.at \in {"ask", "fetch", "wait"} =>
           /\ ask.i \in 1..Len(ask.order) /\ Len(trace) = ask.i - 1 /\ ask.mode # "none"
           /\ answered = Providers!NoReply
    /\ ask.at = "wait" => ask.attempt < Providers!Attempts(ProviderAttempts)
    /\ ask.at = "done" =>
           Len(trace) <= Len(ask.order) /\ answered.status \in {"ok", "failed", "thrown"}

\* A turn that is over asks no more, and one that completed got a whole answer.
OverInv ==
    ask.mode = "tools" =>
        /\ rounds.at # "open" => ask.at = "done"
        /\ rounds.at = "completed" /\ ask.order[ask.i] \notin Providers!Native => answered.body # "truncated"

\* The providers that the properties are about have the OpenAI format.
OpenAiOnly == Judged \cap Providers!Native = {}

RouterInv == AskType /\ AskInv /\ (OpenAiOnly => Providers!FallsBack) /\ OverInv

LEMMA OrderIsTyped ==
    ASSUME Providers!ProviderConstants, NEW chain \in Chains, NEW p \in {"none", "gemini"}
    PROVE  /\ Providers!Ordered(chain, p) \in Seq(Names)
           /\ chain # <<>> => Len(Providers!Ordered(chain, p)) >= 1
<1>1. chain \in Seq(Providers!ToSet(chain)) /\ Providers!ToSet(chain) \subseteq Names
    BY DEF Providers!ProviderConstants, Names
<1>2. chain \in Seq(Names)
    BY <1>1
<1>3. CASE p \notin Providers!ToSet(chain)
    <2>1. Providers!Ordered(chain, p) = chain
        BY <1>3 DEF Providers!Ordered
    <2>2. chain # <<>> => Len(chain) >= 1
        BY <1>2
    <2> QED BY <1>2, <2>1, <2>2
<1>4. CASE p \in Providers!ToSet(chain)
    <2> DEFINE others == Providers!Those(chain, Providers!ToSet(chain) \ {p})
    <2>1. others \in Seq(Names) /\ p \in Names
        BY <1>1, <1>2, <1>4, ThoseAreMembers
    <2>2. Providers!Ordered(chain, p) = <<p>> \o others
        BY <1>4 DEF Providers!Ordered
    <2> HIDE DEF others
    <2>3. <<p>> \in Seq(Names) /\ Len(<<p>>) = 1 /\ Len(others) \in Nat
        BY <2>1
    <2>4. <<p>> \o others \in Seq(Names) /\ Len(<<p>> \o others) = 1 + Len(others)
        BY <2>1, <2>3
    <2> QED BY <2>2, <2>3, <2>4
<1> QED BY <1>3, <1>4

\* The call is over.
LEMMA Over ==
    ASSUME RouterInv, ask.at \in {"ask", "fetch", "wait"}, UNCHANGED rounds,
           NEW status_ \in {"ok", "failed", "thrown"}, NEW code, NEW class, NEW body,
           Providers!Returns(status_, code, class, body),
           UNCHANGED trace \/ \E t \in Trials : trace' = Append(trace, t),
           OpenAiOnly => Providers!FallsBack'
    PROVE  RouterInv'
<1>1. /\ ask' = [ask EXCEPT !.at = "done"]
      /\ answered' = [status |-> status_, code |-> code, class |-> class, body |-> body]
    BY DEF Providers!Returns
<1>2. /\ ask'.at = "done" /\ ask'.order = ask.order /\ ask'.i = ask.i /\ ask'.mode = ask.mode
      /\ ask'.attempt = ask.attempt
      /\ ask' \in [mode : {"none", "text", "structured", "tools"}, order : Seq(Names),
                   i : Nat, attempt : Nat, at : AskSteps]
    BY <1>1 DEF RouterInv, AskType, AskSteps
<1>3. /\ ask.order \in Seq(Names) /\ trace \in Seq(Trials)
      /\ ask.i \in 1..Len(ask.order) /\ Len(trace) = ask.i - 1
    BY DEF RouterInv, AskType, AskInv
<1>4. trace' \in Seq(Trials) /\ Len(trace') <= Len(ask.order)
    <2>1. CASE UNCHANGED trace
        BY <1>3, <2>1
    <2>2. ASSUME NEW t \in Trials, trace' = Append(trace, t) PROVE <1>4
        <3>1. Append(trace, t) \in Seq(Trials) /\ Len(Append(trace, t)) = Len(trace) + 1
            BY <1>3
        <3> QED BY <1>3, <2>2, <3>1
    <2> QED BY <2>1, <2>2
<1>5. answered'.status = status_
    BY <1>1
<1>6. ask.mode = "tools" => rounds'.at = "open"
    BY DEF RouterInv, OverInv
<1>7. AskType'
    BY <1>2, <1>4 DEF RouterInv, AskType
<1>8. AskInv'
    BY <1>2, <1>4, <1>5 DEF AskInv
<1>9. OverInv'
    BY <1>2, <1>6 DEF OverInv
<1> QED BY <1>7, <1>8, <1>9 DEF RouterInv

\* A provider failed; if it did so in passing, the next one is asked while there
\* is one.
LEMMA FailsStep ==
    ASSUME Providers!ProviderConstants, RouterInv, ask.at \in {"ask", "fetch", "wait"}, UNCHANGED rounds,
           NEW code, NEW class, NEW passing \in BOOLEAN, Providers!Fails(code, class, passing),
           OpenAiOnly /\ passing /\ Providers!Provider \in Judged => Providers!GoesOn(code, class)
    PROVE  RouterInv'
<1> DEFINE trial == [provider |-> Providers!Provider, passing |-> passing]
<1>1. /\ ask.order \in Seq(Names) /\ trace \in Seq(Trials) /\ ask.i \in 1..Len(ask.order)
      /\ Len(trace) = ask.i - 1 /\ ask.mode # "none" /\ Len(ask.order) \in Nat
    BY DEF RouterInv, AskType, AskInv
<1>2. Providers!Provider \in Names /\ trial \in Trials
    BY <1>1 DEF Providers!Provider, Trials
<1>3. trace' = Append(trace, trial)
    BY DEF Providers!Fails
<1> HIDE DEF trial
<1>4. /\ trace' \in Seq(Trials) /\ Len(trace') = ask.i /\ trace'[ask.i] = trial
      /\ DOMAIN trace' = 1..ask.i
    BY <1>1, <1>2, <1>3
<1>5. CASE ask.mode # "tools" /\ Providers!GoesOn(code, class) /\ ask.i < Len(ask.order)
    <2>1. ask' = [ask EXCEPT !.i = @ + 1, !.attempt = 1, !.at = "ask"] /\ UNCHANGED answered
        BY <1>5 DEF Providers!Fails
    <2>2. /\ ask'.at = "ask" /\ ask'.order = ask.order /\ ask'.i = ask.i + 1 /\ ask'.mode = ask.mode
          /\ ask'.attempt = 1
          /\ ask' \in [mode : {"none", "text", "structured", "tools"}, order : Seq(Names),
                       i : Nat, attempt : Nat, at : AskSteps]
        <3>1. ask.i + 1 \in Nat /\ 1 \in Nat
            BY <1>1
        <3> QED BY <2>1, <3>1 DEF RouterInv, AskType, AskSteps
    <2>3. 1 <= Providers!Attempts(ProviderAttempts)
        BY DEF Providers!ProviderConstants, Providers!Attempts, Providers!Clamp
    <2>4. AskType'
        BY <1>4, <2>2, <2>3 DEF AskType
    <2>5. ask.i + 1 \in 1..Len(ask.order) /\ Len(trace') = (ask.i + 1) - 1
        BY <1>1, <1>4, <1>5
    <2>6. AskInv'
        BY <1>1, <2>1, <2>2, <2>5 DEF RouterInv, AskInv
    <2>7. Providers!FallsBack' /\ OverInv'
        BY <1>5, <2>2 DEF Providers!FallsBack, OverInv
    <2> QED BY <2>4, <2>6, <2>7 DEF RouterInv
<1>6. CASE ~(ask.mode # "tools" /\ Providers!GoesOn(code, class) /\ ask.i < Len(ask.order))
    <2>1. Providers!Returns("failed", code, class, "none")
        BY <1>6 DEF Providers!Fails
    <2>2. ask'.mode = ask.mode /\ ask'.order = ask.order
        BY <2>1 DEF Providers!Returns, RouterInv, AskType
    <2>3. ASSUME OpenAiOnly, ask.mode # "tools", NEW j \in 1..ask.i, trace'[j].provider \in Judged, trace'[j].passing
          PROVE  j < ask.i \/ j = Len(ask.order)
        <3> SUFFICES ASSUME j = ask.i PROVE j = Len(ask.order)
            BY <1>1, <2>3
        <3>1. Providers!Provider \in Judged /\ passing
            BY <1>4, <2>3 DEF trial
        <3>2. ~(ask.i < Len(ask.order))
            BY <1>6, <2>3, <3>1
        <3> QED BY <1>1, <3>2
    <2>4. OpenAiOnly => Providers!FallsBack'
        BY <1>4, <2>2, <2>3 DEF Providers!FallsBack
    <2> QED BY <1>2, <1>3, <2>1, <2>4, Over
<1> QED BY <1>5, <1>6

LEMMA SucceedsStep ==
    ASSUME RouterInv, ask.at \in {"ask", "fetch", "wait"}, UNCHANGED rounds,
           NEW body, Providers!Succeeds(body)
    PROVE  RouterInv'
<1> DEFINE trial == [provider |-> Providers!Provider, passing |-> FALSE]
<1>1. ask.order \in Seq(Names) /\ ask.i \in 1..Len(ask.order)
    BY DEF RouterInv, AskType, AskInv
<1>2. trial \in Trials
    BY <1>1 DEF Providers!Provider, Trials
<1>3. trace' = Append(trace, trial) /\ Providers!Returns("ok", "none", "none", body)
    BY DEF Providers!Succeeds
<1> HIDE DEF trial
<1>4. answered'.status = "ok"
    BY <1>3 DEF Providers!Returns
<1>5. Providers!FallsBack'
    BY <1>4 DEF Providers!FallsBack
<1> QED BY <1>2, <1>3, <1>5, Over

\* The provider goes on, with its n-th attempt.
AskMoves(n, at_) == ask' = [ask EXCEPT !.attempt = n, !.at = at_]

LEMMA AttemptStep ==
    ASSUME RouterInv, UNCHANGED <<trace, answered, rounds>>, ask.at \in {"ask", "fetch", "wait"},
           NEW at_ \in {"ask", "fetch", "wait"}, NEW n \in Nat, n <= Providers!Attempts(ProviderAttempts),
           at_ = "wait" => n < Providers!Attempts(ProviderAttempts),
           AskMoves(n, at_)
    PROVE  RouterInv'
<1>1. /\ ask'.at = at_ /\ ask'.order = ask.order /\ ask'.i = ask.i /\ ask'.mode = ask.mode
      /\ ask'.attempt = n
      /\ ask' \in [mode : {"none", "text", "structured", "tools"}, order : Seq(Names),
                   i : Nat, attempt : Nat, at : AskSteps]
    BY DEF AskMoves, RouterInv, AskType, AskSteps
<1>2. AskType'
    BY <1>1 DEF RouterInv, AskType
<1>3. AskInv'
    BY <1>1 DEF RouterInv, AskInv
<1>4. Providers!FallsBack' /\ OverInv'
    BY <1>1 DEF Providers!FallsBack, RouterInv, OverInv
<1> QED BY <1>2, <1>3, <1>4 DEF RouterInv

LEMMA WaitsStep ==
    ASSUME RouterInv, ask.at = "fetch", UNCHANGED rounds, NEW passing,
           Providers!MayRetry(passing), Providers!Waits
    PROVE  RouterInv'
<1>1. AskMoves(ask.attempt, "wait")
    <2>1. ask' = [ask EXCEPT !.at = "wait"]
        BY DEF Providers!Waits
    <2> QED BY <2>1 DEF AskMoves, RouterInv, AskType
<1>2. ask.attempt \in Nat /\ ask.attempt < Providers!Attempts(ProviderAttempts)
    BY DEF Providers!MayRetry, RouterInv, AskType
<1>3. ask.attempt <= Providers!Attempts(ProviderAttempts)
    BY DEF RouterInv, AskType
<1>4. UNCHANGED <<trace, answered, rounds>>
    BY DEF Providers!Waits
<1> QED BY <1>1, <1>2, <1>3, <1>4, AttemptStep

\* Which failures of the OpenAI format the router goes on after.
LEMMA PassingGoesOn ==
    /\ \A marker \in Providers!Markers :
           Providers!GoesOn("network_error", Providers!NetworkClass(marker))
    /\ \A status_ \in Providers!Statuses :
           Providers!Retryable(status_) => Providers!GoesOn("http_error", Providers!HttpClass(status_))
BY DEF Providers!Markers, Providers!Statuses, Providers!GoesOn, Providers!TriesNext,
       Providers!NetworkClass, Providers!Retryable, Providers!HttpClass

LEMMA RouteStep ==
    ASSUME Providers!ProviderConstants, RouterInv,
           NEW mode \in {"text", "structured"}, NEW chain \in Chains, NEW p \in {"none", "gemini"},
           Providers!Route(mode, chain, p)
    PROVE  RouterInv'
<1>1. ask = Providers!NoAsk /\ trace = <<>> /\ trace' = <<>> /\ rounds' = rounds
    BY DEF Providers!Route, RouterInv, AskInv
<1>2. CASE chain = <<>>
    <2>1. ask' = [Providers!NoAsk EXCEPT !.at = "done"] /\ answered'.status = "failed"
        BY <1>1, <1>2 DEF Providers!Route, Providers!Returns
    <2>2. /\ ask'.at = "done" /\ ask'.mode = "none" /\ ask'.order = <<>> /\ ask'.attempt = 0
          /\ ask' \in [mode : {"none", "text", "structured", "tools"}, order : Seq(Names),
                       i : Nat, attempt : Nat, at : AskSteps]
        <3>1. ask' = [mode |-> "none", order |-> <<>>, i |-> 1, attempt |-> 0, at |-> "done"]
            BY <2>1 DEF Providers!NoAsk
        <3>2. <<>> \in Seq(Names) /\ 0 \in Nat /\ 1 \in Nat
            OBVIOUS
        <3> QED BY <3>1, <3>2 DEF AskSteps
    <2>3. 0 <= Providers!Attempts(ProviderAttempts)
        BY DEF Providers!ProviderConstants, Providers!Attempts, Providers!Clamp
    <2>4. trace' \in Seq(Trials) /\ Len(trace') = 0 /\ Len(ask'.order) = 0 /\ DOMAIN trace' = {}
        BY <1>1, <2>2
    <2>5. AskType' /\ AskInv'
        BY <2>1, <2>2, <2>3, <2>4 DEF AskType, AskInv
    <2>6. Providers!FallsBack' /\ OverInv'
        BY <2>2, <2>4 DEF Providers!FallsBack, OverInv
    <2> QED BY <2>5, <2>6 DEF RouterInv
<1>3. CASE chain # <<>>
    <2> DEFINE order == Providers!Ordered(chain, p)
    <2>1. order \in Seq(Names) /\ Len(order) >= 1 /\ Len(order) \in Nat
        BY <1>3, OrderIsTyped
    <2>2. ask' = [mode |-> mode, order |-> order, i |-> 1, attempt |-> 1, at |-> "ask"]
          /\ UNCHANGED answered
        BY <1>3 DEF Providers!Route
    <2> HIDE DEF order
    <2>3. 1 <= Providers!Attempts(ProviderAttempts)
        BY DEF Providers!ProviderConstants, Providers!Attempts, Providers!Clamp
    <2>4. answered' = Providers!NoReply
        BY <1>1, <2>2 DEF RouterInv, AskInv, Providers!NoAsk
    <2>5. trace' \in Seq(Trials) /\ Len(trace') = 0
        BY <1>1
    <2>6. AskType'
        BY <2>1, <2>2, <2>3, <2>5 DEF AskType, AskSteps
    <2>7. AskInv'
        BY <2>1, <2>2, <2>4, <2>5 DEF AskInv
    <2>8. Providers!FallsBack' /\ OverInv'
        BY <2>2 DEF Providers!FallsBack, OverInv
    <2> QED BY <2>6, <2>7, <2>8 DEF RouterInv
<1> QED BY <1>2, <1>3

LEMMA AskToolsStep ==
    ASSUME Providers!ProviderConstants, RouterInv,
           NEW chain \in Chains, NEW p \in Providers!ToSet(chain), Providers!AskTools(p)
    PROVE  RouterInv'
<1>1. /\ trace' = <<>> /\ answered' = Providers!NoReply /\ rounds'.at = "open"
      /\ ask' = [mode |-> "tools", order |-> <<p>>, i |-> 1, attempt |-> 1, at |-> "ask"]
    BY DEF Providers!AskTools, RouterInv, AskInv, Providers!NoAsk
<1>2. p \in Names
    BY DEF Names
<1>3. <<p>> \in Seq(Names) /\ Len(<<p>>) = 1
    BY <1>2
<1>4. 1 <= Providers!Attempts(ProviderAttempts)
    BY DEF Providers!ProviderConstants, Providers!Attempts, Providers!Clamp
<1>5. trace' \in Seq(Trials) /\ Len(trace') = 0
    BY <1>1
<1>6. AskType' /\ AskInv'
    BY <1>1, <1>3, <1>4, <1>5 DEF AskType, AskInv, AskSteps
<1>7. Providers!FallsBack' /\ OverInv'
    BY <1>1 DEF Providers!FallsBack, OverInv
<1> QED BY <1>6, <1>7 DEF RouterInv

\* No call, before the first one and after each.
LEMMA NoCall ==
    ASSUME Providers!ProviderConstants, ask = Providers!NoAsk, trace = <<>>, answered = Providers!NoReply
    PROVE  RouterInv
<1>1. trace \in Seq(Trials) /\ <<>> \in Seq(Names)
    OBVIOUS
<1>2. 0 <= Providers!Attempts(ProviderAttempts)
    BY DEF Providers!ProviderConstants, Providers!Attempts, Providers!Clamp
<1>3. /\ ask.at = "idle" /\ ask.mode = "none" /\ ask.attempt = 0
      /\ ask \in [mode : {"none", "text", "structured", "tools"}, order : Seq(Names),
                  i : Nat, attempt : Nat, at : AskSteps]
    BY <1>1 DEF Providers!NoAsk, AskSteps
<1> QED BY <1>1, <1>2, <1>3 DEF RouterInv, AskType, AskInv, OverInv, Providers!FallsBack

LEMMA Forgotten ==
    ASSUME Providers!ProviderConstants,
           ask' = Providers!NoAsk, trace' = <<>>, answered' = Providers!NoReply
    PROVE  RouterInv'
<1>1. trace' \in Seq(Trials) /\ <<>> \in Seq(Names)
    OBVIOUS
<1>2. 0 <= Providers!Attempts(ProviderAttempts)
    BY DEF Providers!ProviderConstants, Providers!Attempts, Providers!Clamp
<1>3. /\ ask'.at = "idle" /\ ask'.mode = "none" /\ ask'.attempt = 0
      /\ ask' \in [mode : {"none", "text", "structured", "tools"}, order : Seq(Names),
                   i : Nat, attempt : Nat, at : AskSteps]
    BY <1>1 DEF Providers!NoAsk, AskSteps
<1> QED BY <1>1, <1>2, <1>3 DEF RouterInv, AskType, AskInv, OverInv, Providers!FallsBack

\* The turn takes the answer.
LEMMA TurnStep ==
    ASSUME Providers!ProviderConstants, RouterInv,
           Providers!TurnFails \/ Providers!TurnCompletes \/ Providers!TurnRepairs
           \/ Providers!Taken \/ \E n \in 1..2 : Providers!TurnRunsTools(n)
    PROVE  RouterInv'
<1>1. ASSUME ask' = Providers!NoAsk, trace' = <<>>, answered' = Providers!NoReply PROVE RouterInv'
    BY <1>1, Forgotten
<1>2. CASE Providers!TurnRepairs \/ Providers!Taken \/ \E n \in 1..2 : Providers!TurnRunsTools(n)
    BY <1>1, <1>2 DEF Providers!TurnRepairs, Providers!Taken, Providers!TurnRunsTools, Providers!Continues
<1>3. ASSUME NEW how, Providers!ToolDone, Providers!TurnEnds(how),
             how = "completed" => Providers!Finish = "stop"
      PROVE  RouterInv'
    <2>1. UNCHANGED <<ask, trace, answered>> /\ ask.at = "done"
        BY <1>3 DEF Providers!TurnEnds, Providers!ToolDone
    <2>2. rounds'.at \in {how, rounds.at}
        BY <1>3 DEF Providers!TurnEnds
    <2>3. rounds.at = "open"
        BY <1>3 DEF Providers!ToolDone
    <2>4. rounds'.at = "completed" /\ ask.order[ask.i] \notin Providers!Native => answered.body # "truncated"
        BY <1>3, <2>2, <2>3 DEF Providers!Finish, Providers!FinishReason, Providers!Provider
    <2>5. OverInv'
        BY <2>1, <2>4 DEF OverInv
    <2> QED BY <2>1, <2>5 DEF RouterInv, AskType, AskInv, Providers!FallsBack
<1>4. CASE Providers!TurnFails
    BY <1>3, <1>4 DEF Providers!TurnFails
<1>5. CASE Providers!TurnCompletes
    BY <1>3, <1>5 DEF Providers!TurnCompletes
<1> QED BY <1>2, <1>4, <1>5

\* The steps of a provider.
LEMMA ProviderMoves ==
    ASSUME Providers!ProviderConstants, RouterInv,
           \/ Providers!Begin \/ Providers!Retry \/ Providers!BodyBreaks
           \/ \E marker \in Providers!Markers : Providers!NetworkFails(marker)
           \/ \E status_ \in Providers!Statuses : Providers!HttpFails(status_)
    PROVE  RouterInv'
<1>1. CASE Providers!Begin
    <2>1. CASE Providers!Provider \in NoKey
        <3>1. /\ ask.at = "ask" /\ UNCHANGED rounds
              /\ Providers!Fails("missing_api_key", "policy_block", FALSE)
            BY <1>1, <2>1 DEF Providers!Begin
        <3> QED BY <3>1, FailsStep
    <2>2. CASE Providers!Provider \notin NoKey
        <3>1. /\ ask' = [ask EXCEPT !.at = "fetch"] /\ UNCHANGED <<trace, answered, rounds>>
              /\ ask.at = "ask"
            BY <1>1, <2>2 DEF Providers!Begin
        <3>2. AskMoves(ask.attempt, "fetch")
            BY <3>1 DEF AskMoves, RouterInv, AskType
        <3>3. ask.attempt \in Nat /\ ask.attempt <= Providers!Attempts(ProviderAttempts)
            BY DEF RouterInv, AskType
        <3> QED BY <3>1, <3>2, <3>3, AttemptStep
    <2> QED BY <2>1, <2>2
<1>2. CASE Providers!Retry
    <2>1. /\ AskMoves(ask.attempt + 1, "fetch") /\ ask.at = "wait"
          /\ UNCHANGED <<trace, answered, rounds>>
        BY <1>2 DEF Providers!Retry, AskMoves
    <2>2. ask.attempt \in Nat /\ ask.attempt < Providers!Attempts(ProviderAttempts)
        BY <2>1 DEF RouterInv, AskType, AskInv
    <2>3. Providers!Attempts(ProviderAttempts) \in Nat
        BY DEF Providers!ProviderConstants, Providers!Attempts, Providers!Clamp
    <2>4. ask.attempt + 1 \in Nat /\ ask.attempt + 1 <= Providers!Attempts(ProviderAttempts)
        BY <2>2, <2>3
    <2> QED BY <2>1, <2>4, AttemptStep
<1>3. CASE Providers!BodyBreaks
    <2>1. ask.at = "fetch" /\ UNCHANGED rounds
        BY <1>3 DEF Providers!BodyBreaks
    <2>2. CASE Providers!Provider \notin Providers!Native
        <3>1. Providers!Returns("thrown", "none", "none", "broken") /\ UNCHANGED trace
            BY <1>3, <2>2 DEF Providers!BodyBreaks
        <3>2. answered'.status = "thrown"
            BY <3>1 DEF Providers!Returns
        <3>3. Providers!FallsBack'
            BY <3>2 DEF Providers!FallsBack
        <3> QED BY <2>1, <3>1, <3>3, Over
    <2>3. CASE Providers!Provider \in Providers!Native /\ ask.mode = "tools"
        BY <1>3, <2>1, <2>3, SucceedsStep DEF Providers!BodyBreaks
    <2>4. CASE Providers!Provider \in Providers!Native /\ ask.mode # "tools"
        <3>1. Providers!Fails("empty_content", "unknown", FALSE)
            BY <1>3, <2>4 DEF Providers!BodyBreaks
        <3> QED BY <2>1, <3>1, FailsStep
    <2> QED BY <2>2, <2>3, <2>4
<1>4. ASSUME NEW marker \in Providers!Markers, Providers!NetworkFails(marker) PROVE RouterInv'
    <2>1. ask.at = "fetch" /\ UNCHANGED rounds
        BY <1>4 DEF Providers!NetworkFails
    <2>2. CASE Providers!MayRetry(marker # "other")
        BY <1>4, <2>1, <2>2, WaitsStep DEF Providers!NetworkFails
    <2>3. CASE ~Providers!MayRetry(marker # "other") /\ Providers!Provider \in Providers!Native
        <3>1. Providers!Fails("http_error", "unknown", TRUE)
            BY <1>4, <2>3 DEF Providers!NetworkFails
        <3>2. OpenAiOnly => Providers!Provider \notin Judged
            BY <2>3 DEF OpenAiOnly
        <3> QED BY <2>1, <3>1, <3>2, FailsStep
    <2>4. CASE ~Providers!MayRetry(marker # "other") /\ Providers!Provider \notin Providers!Native
        <3>1. Providers!Fails("network_error", Providers!NetworkClass(marker), TRUE)
            BY <1>4, <2>4 DEF Providers!NetworkFails
        <3> QED BY <2>1, <3>1, PassingGoesOn, FailsStep
    <2> QED BY <2>2, <2>3, <2>4
<1>5. ASSUME NEW status_ \in Providers!Statuses, Providers!HttpFails(status_) PROVE RouterInv'
    <2>1. /\ ask.at = "fetch" /\ UNCHANGED rounds
        BY <1>5 DEF Providers!HttpFails
    <2>2. Providers!Retryable(status_) \in BOOLEAN
        BY DEF Providers!Retryable, Providers!Statuses
    <2>3. CASE Providers!MayRetry(Providers!Retryable(status_))
        BY <1>5, <2>1, <2>3, WaitsStep DEF Providers!HttpFails
    <2>4. CASE ~Providers!MayRetry(Providers!Retryable(status_)) /\ Providers!Provider \in Providers!Native
        <3>1. Providers!Fails("http_error", "unknown", Providers!Retryable(status_))
            BY <1>5, <2>4 DEF Providers!HttpFails
        <3>2. OpenAiOnly => Providers!Provider \notin Judged
            BY <2>4 DEF OpenAiOnly
        <3> QED BY <2>1, <2>2, <3>1, <3>2, FailsStep
    <2>5. CASE ~Providers!MayRetry(Providers!Retryable(status_)) /\ Providers!Provider \notin Providers!Native
        <3>1. Providers!Fails("http_error", Providers!HttpClass(status_), Providers!Retryable(status_))
            BY <1>5, <2>5 DEF Providers!HttpFails
        <3> QED BY <2>1, <2>2, <3>1, PassingGoesOn, FailsStep
    <2> QED BY <2>3, <2>4, <2>5
<1> QED BY <1>1, <1>2, <1>3, <1>4, <1>5

LEMMA AnswerStep ==
    ASSUME Providers!ProviderConstants, RouterInv, NEW body \in Providers!Bodies, Providers!Answer(body)
    PROVE  RouterInv'
<1>1. ask.at = "fetch" /\ UNCHANGED rounds
    BY DEF Providers!Answer
<1>2. (\E code, class : Providers!Fails(code, class, FALSE)) \/ Providers!Succeeds(body)
    <2>1. CASE Providers!TextAnswer(body)
        BY <2>1 DEF Providers!TextAnswer
    <2>2. CASE Providers!ToolAnswer(body)
        BY <2>2 DEF Providers!ToolAnswer
    <2>3. CASE Providers!StructuredAnswer(body)
        <3>1. body \in {"whole", "truncated", "empty", "mismatch"}
            BY <2>3 DEF Providers!StructuredAnswer
        <3>2. CASE Providers!NativeObject(body)
            BY <3>1, <3>2 DEF Providers!NativeObject
        <3>3. CASE Providers!OpenAiObject(body)
            BY <3>1, <3>3 DEF Providers!OpenAiObject
        <3> QED BY <2>3, <3>2, <3>3 DEF Providers!StructuredAnswer
    <2> QED BY <2>1, <2>2, <2>3 DEF Providers!Answer
<1> QED BY <1>1, <1>2, FailsStep, SucceedsStep

LEMMA RouterStays ==
    ASSUME Providers!ProviderConstants, RouterInv,
           [Providers!Next]_(Providers!providerVars)
    PROVE  RouterInv'
<1>1. CASE UNCHANGED Providers!providerVars
    BY <1>1 DEF Providers!providerVars, RouterInv, AskType, AskInv, OverInv, Providers!FallsBack
<1>2. CASE Providers!ProviderStep
    <2>1. CASE \/ Providers!Begin \/ Providers!Retry \/ Providers!BodyBreaks
               \/ \E marker \in Providers!Markers : Providers!NetworkFails(marker)
               \/ \E status_ \in Providers!Statuses : Providers!HttpFails(status_)
        BY <2>1, ProviderMoves
    <2>2. CASE Providers!Taken
        BY <2>2, TurnStep
    <2>3. CASE \E body \in Providers!Bodies : Providers!Answer(body)
        BY <2>3, AnswerStep
    <2> QED BY <1>2, <2>1, <2>2, <2>3, Zenon DEF Providers!ProviderStep
<1>3. CASE \/ \E mode \in {"text", "structured"}, chain \in Chains, p \in {"none", "gemini"} :
                  Providers!Route(mode, chain, p)
           \/ \E chain \in Chains : \E p \in Providers!ToSet(chain) : Providers!AskTools(p)
    BY <1>3, RouteStep, AskToolsStep
<1> QED BY <1>1, <1>2, <1>3, TurnStep DEF Providers!Next

\* A routed call falls back on the next provider after every passing failure of
\* the OpenAI format (router.ts:23-31), and a turn whose last answer was cut off
\* is not completed (agentLoop.ts:646-648), for every chain of providers; of
\* Gemini and Anthropic neither holds.
THEOREM RoutedCallsFallBack ==
    ASSUME Providers!ProviderConstants, Judged \cap Providers!Native = {}
    PROVE  Providers!Spec => [](Providers!FallsBack /\ Providers!TruncatedTurnsFail)
<1>1. Providers!Init => RouterInv
    BY NoCall DEF Providers!Init
<1>2. RouterInv /\ [Providers!Next]_(Providers!providerVars) => RouterInv'
    BY RouterStays
<1>3. RouterInv => Providers!FallsBack /\ Providers!TruncatedTurnsFail
    BY DEF RouterInv, OverInv, OpenAiOnly, Providers!TruncatedTurnsFail, Providers!Provider
<1> QED BY <1>1, <1>2, <1>3, PTL DEF Providers!Spec

\* The call, its trace and its answer are what the router makes of them, and no
\* provider gets more attempts than a request allows.
THEOREM ProviderTypeCorrect ==
    ASSUME Providers!ProviderConstants
    PROVE  Providers!Spec => []Providers!TypeOK
<1>1. Providers!Init => RouterInv
    BY NoCall DEF Providers!Init
<1>2. RouterInv /\ [Providers!Next]_(Providers!providerVars) => RouterInv'
    BY RouterStays
<1>3. RouterInv => Providers!TypeOK
    <2> SUFFICES ASSUME RouterInv PROVE Providers!TypeOK
        OBVIOUS
    <2>1. ask.at \in AskSteps /\ ask.order \in Seq(Names) /\ trace \in Seq(Trials)
        BY DEF RouterInv, AskType
    <2>2. Len(trace) <= Len(ask.order)
        <3>1. CASE ask.at = "idle"
            BY <3>1 DEF RouterInv, AskInv, Providers!NoAsk
        <3>2. CASE ask.at \in {"ask", "fetch", "wait"}
            BY <2>1, <3>2 DEF RouterInv, AskInv
        <3>3. CASE ask.at = "done"
            BY <3>3 DEF RouterInv, AskInv
        <3> QED BY <2>1, <3>1, <3>2, <3>3 DEF AskSteps
    <2>3. ask.at = "done" <=> answered # Providers!NoReply
        <3>1. ask.at # "done" => answered = Providers!NoReply
            BY <2>1 DEF RouterInv, AskInv, AskSteps
        <3>2. ask.at = "done" => answered # Providers!NoReply
            BY DEF RouterInv, AskInv, Providers!NoReply
        <3> QED BY <3>1, <3>2
    <2> QED BY <2>1, <2>2, <2>3 DEF RouterInv, AskType, AskSteps, Providers!TypeOK
<1> QED BY <1>1, <1>2, <1>3, PTL DEF Providers!Spec

\* On every wire the results of an answer's calls are right behind them, and on
\* that of the OpenAI format every instruction is sent (anthropic.ts:64,
\* gemini.ts:128), however long the conversation.
THEOREM ConversationsStayWhole ==
    ASSUME Judged \cap Providers!Native = {}
    PROVE  Providers!Spec => [](Providers!ResultsFollowCalls /\ Providers!InstructionsAreSent)
<1>1. Providers!Init => ConvoInv
    BY ConvoBegins
<1>2. ConvoInv /\ [Providers!Next]_(Providers!providerVars) => ConvoInv'
    BY ConvoStays
<1>3. ConvoInv => Providers!ResultsFollowCalls /\ Providers!InstructionsAreSent
    <2> SUFFICES ASSUME ConvoInv PROVE Providers!ResultsFollowCalls /\ Providers!InstructionsAreSent
        OBVIOUS
    <2>1. Providers!InstructionsAreSent
        BY DEF ConvoInv, Instructions, Providers!InstructionsAreSent
    <2>2. \A p : DOMAIN Providers!ToWire(p, convo).messages = 1..Len(Providers!ToWire(p, convo).messages)
        <3>1. \A p : Providers!ToWire(p, convo) \in Wires
            BY ToWireIsSent DEF ConvoInv
        <3> QED BY <3>1 DEF Wires
    <2>3. Providers!ResultsFollowCalls
        BY <2>2 DEF ConvoInv, Follow, HasCalls, ResultsAt, Providers!ResultsFollowCalls
    <2> QED BY <2>1, <2>3
<1> QED BY <1>1, <1>2, <1>3, PTL DEF Providers!Spec

-----------------------------------------------------------------------------
(* A Telegram chat: its types and the sessions it makes. *)

LEMMA ThoseAreFewer ==
    ASSUME NEW S, NEW s \in Seq(S), NEW T
    PROVE  Telegram!Those(s, T) \in Seq(S) /\ Len(Telegram!Those(s, T)) <= Len(s)
<1>1. PICK f \in [0..Len(s) -> Seq(S)] : Filtered(f, s, T)
    BY FilterExists
<1>2. \A g : Filtered(g, s, T) => g[Len(s)] \in Seq(S) /\ Len(g[Len(s)]) <= Len(s)
    <2> SUFFICES ASSUME NEW g, Filtered(g, s, T)
                 PROVE  g[Len(s)] \in Seq(S) /\ Len(g[Len(s)]) <= Len(s)
        OBVIOUS
    <2>1. \A n \in 0..Len(s) :
              g[n] = IF n = 0 THEN <<>>
                     ELSE IF s[n] \in T THEN Append(g[n - 1], s[n]) ELSE g[n - 1]
        BY DEF Filtered
    <2> DEFINE Good == {n \in Nat : n <= Len(s) => g[n] \in Seq(S) /\ Len(g[n]) <= n}
    <2>2. 0 \in Good
        <3>1. 0 \in 0..Len(s) /\ <<>> \in Seq(S) /\ Len(<<>>) = 0
            OBVIOUS
        <3>2. g[0] = <<>>
            BY <2>1, <3>1
        <3>3. g[0] \in Seq(S) /\ Len(g[0]) <= 0 /\ 0 \in Nat
            BY <3>1, <3>2
        <3> QED BY <3>3
    <2>3. ASSUME NEW n \in Nat, n \in Good PROVE n + 1 \in Good
        <3> SUFFICES ASSUME n + 1 <= Len(s) PROVE g[n + 1] \in Seq(S) /\ Len(g[n + 1]) <= n + 1
            OBVIOUS
        <3>1. g[n] \in Seq(S) /\ Len(g[n]) <= n /\ s[n + 1] \in S
            BY <2>3
        <3>2. g[n + 1] = IF s[n + 1] \in T THEN Append(g[n], s[n + 1]) ELSE g[n]
            BY <2>1
        <3>3. Append(g[n], s[n + 1]) \in Seq(S) /\ Len(Append(g[n], s[n + 1])) = Len(g[n]) + 1
              /\ Len(g[n]) \in Nat
            BY <3>1
        <3> QED BY <3>1, <3>2, <3>3
    <2> HIDE DEF Good
    <2>4. Nat \subseteq Good
        BY <2>2, <2>3, NumbersInduct
    <2> QED BY <2>4 DEF Good
<1> DEFINE those == CHOOSE g : Filtered(g, s, T)
<1>3. those[Len(s)] \in Seq(S) /\ Len(those[Len(s)]) <= Len(s)
    BY <1>1, <1>2
<1> QED BY <1>3 DEF Telegram!Those, Filtered

Pcs == {"bind", "setLabel", "confirm", "tell", "readLabel", "submit", "poll", "ready", "deliver", "done"}
Handled(n) ==
    [msg : Telegram!Messages, session : 0..n, label : BOOLEAN, error : BOOLEAN, parts : 0..(MaxParts - 1),
     pc : Pcs]

\* A handler that may yet make a session, and one that has one.
Makes == {"bind", "confirm"}
Has == {"readLabel", "submit", "poll"}
Makers == {h \in DOMAIN handlers : handlers[h].pc \in Makes}

ChatState ==
    /\ kind \in Workloads /\ sent \in 0..Len(kind)
    /\ repeats \in 0..MaxRepeats /\ crashes \in 0..MaxCrashes
    /\ seen \in Seq(Telegram!Messages) /\ Len(seen) <= MaxEntries
    /\ pendingConfirm \in BOOLEAN /\ label \in BOOLEAN
    /\ sessions \in Nat /\ bound \in 0..sessions
    /\ DOMAIN runs \subseteq (1..sessions) \X Telegram!Messages
    /\ \A r \in DOMAIN runs : runs[r] \in [ended : BOOLEAN, label : BOOLEAN]

HandlerStates ==
    /\ handlers \in Seq(Handled(sessions))
    /\ \A h \in DOMAIN handlers : handlers[h].pc \in Has => handlers[h].session >= 1

\* Every session has an update that it was made for.
SessionsHaveUpdates == sessions + Cardinality(Makers) <= sent + repeats

ChatInv == ChatState /\ HandlerStates /\ SessionsHaveUpdates

LEMMA MakersAreFinite ==
    ASSUME HandlerStates
    PROVE  IsFiniteSet(Makers) /\ Cardinality(Makers) \in Nat
<1>1. DOMAIN handlers = 1..Len(handlers) /\ Len(handlers) \in Nat
    BY DEF HandlerStates
<1>2. IsFiniteSet(DOMAIN handlers)
    BY <1>1, FS_Interval
<1>3. Makers \in SUBSET (DOMAIN handlers)
    BY DEF Makers
<1>4. IsFiniteSet(Makers)
    BY <1>2, <1>3, FS_Subset
<1> QED BY <1>4, FS_CardinalityType

\* A handler goes on; only one that may make a session makes one.
LEMMA HandlerMoves ==
    ASSUME ChatInv, ChatState', NEW h \in DOMAIN handlers, NEW r \in Handled(sessions'),
           handlers' = [handlers EXCEPT ![h] = r],
           r.pc \notin Makes, r.pc \in Has => r.session >= 1,
           sessions' = sessions \/ (sessions' = sessions + 1 /\ handlers[h].pc \in Makes),
           UNCHANGED <<kind, sent, repeats>>
    PROVE  ChatInv'
<1>1. sessions \in Nat /\ sessions' \in Nat /\ sent \in Nat /\ repeats \in Nat
    BY DEF ChatInv, ChatState
<1>2. handlers \in Seq(Handled(sessions)) /\ h \in 1..Len(handlers)
    BY DEF ChatInv, HandlerStates
<1>3. Handled(sessions) \subseteq Handled(sessions')
    <2>1. 0..sessions \subseteq 0..sessions'
        BY <1>1
    <2> QED BY <2>1 DEF Handled
<1>4. /\ handlers' \in Seq(Handled(sessions')) /\ DOMAIN handlers' = DOMAIN handlers
      /\ handlers'[h] = r /\ \A g \in DOMAIN handlers \ {h} : handlers'[g] = handlers[g]
    <2>1. handlers \in Seq(Handled(sessions'))
        <3>1. \A S, T : S \subseteq T => \A s \in Seq(S) : s \in Seq(T)
            OBVIOUS
        <3> QED BY <1>2, <1>3, <3>1
    <2> HIDE DEF Handled
    <2> QED BY <1>2, <2>1
<1>5. HandlerStates'
    <2>1. Handled(sessions)' = Handled(sessions')
        BY DEF Handled, Telegram!Messages
    <2> QED BY <1>4, <2>1 DEF ChatInv, HandlerStates
<1>6. Makers' = Makers \ {h}
    BY <1>4 DEF Makers
<1>7. IsFiniteSet(Makers) /\ Cardinality(Makers) \in Nat
    BY MakersAreFinite DEF ChatInv
<1>8. Cardinality(Makers') = IF h \in Makers THEN Cardinality(Makers) - 1 ELSE Cardinality(Makers)
    BY <1>6, <1>7, FS_RemoveElement
<1>9. sessions' = sessions + 1 => h \in Makers
    BY <1>1 DEF Makers
<1>10. sessions + Cardinality(Makers) <= sent + repeats
    BY DEF ChatInv, SessionsHaveUpdates
<1>11. SessionsHaveUpdates'
    <2>1. \A a, b, c, e \in Nat : a + b <= c + e => (a + 1) + (b - 1) <= c + e /\ a + (b - 1) <= c + e
        OBVIOUS
    <2>2. sessions' + Cardinality(Makers') <= sent + repeats
        BY <1>1, <1>7, <1>8, <1>9, <1>10, <2>1
    <2> QED BY <2>2 DEF SessionsHaveUpdates
<1> QED BY <1>5, <1>11 DEF ChatInv

\* What the steps of a handler leave in its record.
Going(w, p) == [w EXCEPT !.pc = p]
Failing(w, p, e) == [w EXCEPT !.pc = p, !.error = e]
Labelled(w, p, b) == [w EXCEPT !.pc = p, !.label = b]
Apologising(w) == [w EXCEPT !.error = TRUE]
Bound(w, p, n) == [w EXCEPT !.pc = p, !.session = n]

LEMMA HandlerWith ==
    ASSUME NEW n \in Nat, NEW w \in Handled(n)
    PROVE  /\ \A p \in Pcs : /\ Going(w, p) \in Handled(n)
                            /\ Going(w, p).pc = p /\ Going(w, p).session = w.session
           /\ \A p \in Pcs, e \in BOOLEAN : /\ Failing(w, p, e) \in Handled(n)
                                           /\ Failing(w, p, e).pc = p /\ Failing(w, p, e).session = w.session
           /\ \A p \in Pcs, b \in BOOLEAN : /\ Labelled(w, p, b) \in Handled(n)
                                           /\ Labelled(w, p, b).pc = p /\ Labelled(w, p, b).session = w.session
           /\ Apologising(w) \in Handled(n)
           /\ Apologising(w).pc = w.pc /\ Apologising(w).session = w.session
<1>1. ASSUME NEW p \in Pcs
      PROVE  Going(w, p) \in Handled(n) /\ Going(w, p).pc = p /\ Going(w, p).session = w.session
    BY DEF Handled, Going
<1>2. ASSUME NEW p \in Pcs, NEW e \in BOOLEAN
      PROVE  Failing(w, p, e) \in Handled(n) /\ Failing(w, p, e).pc = p /\ Failing(w, p, e).session = w.session
    BY DEF Handled, Failing
<1>3. ASSUME NEW p \in Pcs, NEW b \in BOOLEAN
      PROVE  Labelled(w, p, b) \in Handled(n) /\ Labelled(w, p, b).pc = p /\ Labelled(w, p, b).session = w.session
    BY DEF Handled, Labelled
<1>4. Apologising(w) \in Handled(n) /\ Apologising(w).pc = w.pc /\ Apologising(w).session = w.session
    BY DEF Handled, Apologising
<1> QED BY <1>1, <1>2, <1>3, <1>4

LEMMA HandlerReturns ==
    ASSUME MaxParts \in Nat \ {0}, NEW n \in Nat, NEW m \in Telegram!Messages, NEW p \in Pcs
    PROVE  Telegram!Handler(m, p) \in Handled(n) /\ Telegram!Handler(m, p).pc = p
<1>1. 0 \in 0..(MaxParts - 1) /\ 0 \in 0..n
    OBVIOUS
<1> QED BY <1>1 DEF Handled, Telegram!Handler

LEMMA HandlerBinds ==
    ASSUME NEW n \in Nat, NEW w \in Handled(n), NEW m \in Nat, n <= m, NEW p \in Pcs, NEW b \in 0..m
    PROVE  Bound(w, p, b) \in Handled(m) /\ Bound(w, p, b).pc = p /\ Bound(w, p, b).session = b
<1>1. 0..n \subseteq 0..m
    OBVIOUS
<1> QED BY <1>1 DEF Handled, Bound

LEMMA ChatStays ==
    ASSUME ChatState, UNCHANGED <<Telegram!ingress, Telegram!durable>>
    PROVE  ChatState'
<1>1. UNCHANGED <<kind, sent, repeats, crashes, seen, pendingConfirm, bound, label, sessions, runs>>
    BY DEF Telegram!ingress, Telegram!durable
<1> QED BY <1>1 DEF ChatState, Telegram!Messages

\* A handler goes on without a session being made.
LEMMA HandlerGoes ==
    ASSUME ChatInv, ChatState', NEW h \in DOMAIN handlers, NEW r \in Handled(sessions),
           handlers' = [handlers EXCEPT ![h] = r],
           r.pc \notin Makes, r.pc \in Has => r.session >= 1,
           UNCHANGED <<kind, sent, repeats, sessions>>
    PROVE  ChatInv'
<1>1. Handled(sessions') = Handled(sessions)
    BY DEF Handled, Telegram!Messages
<1>2. r \in Handled(sessions')
    BY <1>1
<1> QED BY <1>2, HandlerMoves

\* The bound handler and the stored fields.
LEMMA HandlerKnown ==
    ASSUME ChatInv, NEW h \in DOMAIN handlers
    PROVE  /\ handlers[h] \in Handled(sessions) /\ sessions \in Nat
           /\ handlers[h].pc \in Has => handlers[h].session >= 1
<1>1. handlers \in Seq(Handled(sessions)) /\ sessions \in Nat
    BY DEF ChatInv, HandlerStates, ChatState
<1> HIDE DEF Handled
<1>2. handlers[h] \in Handled(sessions)
    BY <1>1
<1> QED BY <1>1, <1>2 DEF ChatInv, HandlerStates

LEMMA BindTyped ==
    ASSUME ChatInv, NEW h \in DOMAIN handlers, Telegram!Bind(h)
    PROVE  ChatInv'
<1>1. /\ sessions \in Nat /\ bound \in 0..sessions /\ handlers[h] \in Handled(sessions)
      /\ handlers[h].pc = "bind"
    BY HandlerKnown DEF ChatInv, ChatState, Telegram!Bind, Telegram!At
<1>2. /\ sessions' \in Nat /\ sessions <= sessions' /\ bound' \in 1..sessions'
      /\ sessions' = sessions \/ sessions' = sessions + 1
    BY <1>1 DEF Telegram!Bind
<1> DEFINE p == IF Telegram!Kind(h) = "label" THEN "setLabel" ELSE "readLabel"
           r == Bound(handlers[h], p, bound')
<1>3. handlers' = [handlers EXCEPT ![h] = r]
    BY DEF Telegram!Bind, Telegram!To, Bound
<1>4. p \in Pcs /\ p \notin Makes
    BY DEF Pcs, Makes
<1>5. r \in Handled(sessions') /\ r.pc = p /\ r.session = bound'
    <2> HIDE DEF p
    <2>1. bound' \in 0..sessions'
        BY <1>2
    <2> QED BY <1>1, <1>2, <1>4, <2>1, HandlerBinds
<1>6. UNCHANGED <<kind, sent, repeats, crashes, seen, pendingConfirm, label, runs>>
    BY DEF Telegram!Bind, Telegram!idle, Telegram!ingress
<1>7. ChatState'
    <2>1. 1..sessions \subseteq 1..sessions' /\ bound' \in 0..sessions'
        BY <1>1, <1>2
    <2>2. DOMAIN runs \subseteq (1..sessions') \X Telegram!Messages
        BY <2>1 DEF ChatInv, ChatState
    <2> QED BY <1>2, <1>6, <2>1, <2>2 DEF ChatInv, ChatState, Telegram!Messages
<1>8. r.pc \in Has => r.session >= 1
    BY <1>2, <1>5
<1>9. handlers[h].pc \in Makes /\ r.pc \notin Makes
    BY <1>1, <1>4, <1>5 DEF Makes
<1> HIDE DEF r, p
<1> QED BY <1>2, <1>3, <1>5, <1>6, <1>7, <1>8, <1>9, HandlerMoves

LEMMA NewSessionTyped ==
    ASSUME ChatInv, NEW h \in DOMAIN handlers, Telegram!NewSession(h)
    PROVE  ChatInv'
<1>1. /\ sessions \in Nat /\ bound \in 0..sessions /\ handlers[h] \in Handled(sessions)
      /\ handlers[h].pc = "confirm"
    BY HandlerKnown DEF ChatInv, ChatState, Telegram!NewSession, Telegram!At
<1>2. sessions' = sessions + 1 /\ sessions' \in Nat /\ bound' \in 0..sessions'
    BY <1>1 DEF Telegram!NewSession
<1> DEFINE r == Going(handlers[h], "tell")
<1>3. handlers' = [handlers EXCEPT ![h] = r]
    BY DEF Telegram!NewSession, Telegram!Go, Telegram!To, Going
<1>4. r \in Handled(sessions) /\ r.pc = "tell"
    BY <1>1, HandlerWith DEF Pcs
<1>5. r \in Handled(sessions')
    <2>1. 0..sessions \subseteq 0..sessions'
        BY <1>1, <1>2
    <2> QED BY <1>4, <2>1 DEF Handled
<1>6. UNCHANGED <<kind, sent, repeats, crashes, seen, pendingConfirm, label, runs>>
    BY DEF Telegram!NewSession, Telegram!idle, Telegram!ingress
<1>7. ChatState'
    <2>1. 1..sessions \subseteq 1..sessions'
        BY <1>1, <1>2
    <2>2. DOMAIN runs \subseteq (1..sessions') \X Telegram!Messages
        BY <2>1 DEF ChatInv, ChatState
    <2> QED BY <1>2, <1>6, <2>2 DEF ChatInv, ChatState, Telegram!Messages
<1>8. handlers[h].pc \in Makes /\ r.pc \notin Makes /\ r.pc \notin Has
    BY <1>1, <1>4 DEF Makes, Has
<1> HIDE DEF r
<1> QED BY <1>2, <1>3, <1>5, <1>6, <1>7, <1>8, HandlerMoves

\* The steps of a handler that change no store.
LEMMA QuietStepsTyped ==
    ASSUME ChatInv, MaxParts \in Nat \ {0}, NEW h \in DOMAIN handlers,
           \/ Telegram!Tell(h) \/ Telegram!ReadLabel(h) \/ Telegram!SubmitCommand(h) \/ Telegram!Poll(h)
           \/ Telegram!StartDelivery(h) \/ Telegram!SendFails(h) \/ Telegram!HandlerFails(h)
    PROVE  ChatInv'
<1> DEFINE w == handlers[h]
           done == Telegram!Handler(w.msg, "done")
<1>1. w \in Handled(sessions) /\ sessions \in Nat /\ (w.pc \in Has => w.session >= 1)
    BY HandlerKnown
<1>2. UNCHANGED <<kind, sent, repeats, crashes, seen, pendingConfirm, bound, label, sessions, runs>>
    <2>1. UNCHANGED <<Telegram!ingress, Telegram!durable>>
        BY Zenon DEF Telegram!Tell, Telegram!ReadLabel, Telegram!SubmitCommand, Telegram!Poll,
                     Telegram!StartDelivery, Telegram!SendFails, Telegram!HandlerFails, Telegram!idle
    <2> QED BY <2>1 DEF Telegram!ingress, Telegram!durable
<1>3. ChatState'
    BY <1>2 DEF ChatInv, ChatState, Telegram!Messages
<1>4. ASSUME NEW r, r \in Handled(sessions), handlers' = [handlers EXCEPT ![h] = r],
             r.pc \notin Makes, r.pc \in Has => r.session >= 1
      PROVE  ChatInv'
    BY <1>2, <1>3, <1>4, HandlerGoes
<1>5. handlers' = [handlers EXCEPT ![h] = done] => ChatInv'
    <2>0. w.msg \in Telegram!Messages /\ "done" \in Pcs
        BY <1>1 DEF Handled, Pcs
    <2>1. done \in Handled(sessions) /\ done.pc = "done"
        BY <1>1, <2>0, HandlerReturns
    <2>2. done.pc \notin Makes /\ done.pc \notin Has
        BY <2>1 DEF Makes, Has
    <2> HIDE DEF done
    <2> QED BY <1>4, <2>1, <2>2
<1>6. ASSUME NEW p \in Pcs \ Makes, NEW e \in BOOLEAN, p \in Has => w.pc \in Has,
             handlers' = [handlers EXCEPT ![h] = Failing(w, p, e)]
      PROVE  ChatInv'
    <2> DEFINE r == Failing(w, p, e)
    <2>1. r \in Handled(sessions) /\ r.pc = p /\ r.session = w.session
        BY <1>1, HandlerWith
    <2>2. handlers' = [handlers EXCEPT ![h] = r]
        BY <1>6
    <2> HIDE DEF r
    <2> QED BY <1>1, <1>4, <1>6, <2>1, <2>2
<1>7. ASSUME NEW p \in Pcs \ Makes, p \in Has => w.pc \in Has,
             handlers' = [handlers EXCEPT ![h] = Going(w, p)]
      PROVE  ChatInv'
    <2> DEFINE r == Going(w, p)
    <2>1. r \in Handled(sessions) /\ r.pc = p /\ r.session = w.session
        BY <1>1, HandlerWith
    <2>2. handlers' = [handlers EXCEPT ![h] = r]
        BY <1>7
    <2> HIDE DEF r
    <2> QED BY <1>1, <1>4, <1>7, <2>1, <2>2
<1>8. "ready" \in Pcs \ Makes /\ "deliver" \in Pcs \ Makes /\ "ready" \notin Has /\ "deliver" \notin Has
    BY DEF Pcs, Makes, Has
<1>9. CASE Telegram!Tell(h)
    BY <1>5, <1>9 DEF Telegram!Tell, Telegram!Return, Telegram!To
<1>10. CASE Telegram!ReadLabel(h)
    <2> DEFINE b == label /\ Telegram!Kind(h) # "command"
               r == Labelled(w, "submit", b)
    <2>1. handlers' = [handlers EXCEPT ![h] = r] /\ w.pc = "readLabel"
        BY <1>10 DEF Telegram!ReadLabel, Telegram!To, Telegram!At, Labelled
    <2>2. b \in BOOLEAN /\ "submit" \in Pcs
        BY DEF ChatInv, ChatState, Pcs
    <2> HIDE DEF b
    <2>3. r \in Handled(sessions) /\ r.pc = "submit" /\ r.session = w.session
        BY <1>1, <2>2, HandlerWith
    <2>4. r.pc \notin Makes /\ (r.pc \in Has => r.session >= 1)
        BY <1>1, <2>1, <2>3 DEF Makes, Has
    <2> HIDE DEF r
    <2> QED BY <1>4, <2>1, <2>3, <2>4
<1>11. CASE Telegram!SubmitCommand(h)
    BY <1>7, <1>8, <1>11 DEF Telegram!SubmitCommand, Telegram!Go, Telegram!To, Going
<1>12. CASE Telegram!Poll(h)
    <2>1. \E e \in BOOLEAN : handlers' = [handlers EXCEPT ![h] = Failing(w, "ready", e)]
        BY Zenon, <1>12 DEF Telegram!Poll, Telegram!To, Failing
    <2> QED BY <1>6, <1>8, <2>1
<1>13. CASE Telegram!StartDelivery(h)
    BY <1>7, <1>8, <1>13 DEF Telegram!StartDelivery, Telegram!Go, Telegram!To, Going
<1>14. CASE Telegram!SendFails(h)
    <2>1. w.pc = "deliver"
        BY <1>14 DEF Telegram!SendFails, Telegram!At
    <2> DEFINE r == Apologising(w)
    <2>2. handlers' = [handlers EXCEPT ![h] = done] \/ handlers' = [handlers EXCEPT ![h] = r]
        BY <1>14 DEF Telegram!SendFails, Telegram!Return, Telegram!To, Apologising
    <2>3. r \in Handled(sessions) /\ r.pc = w.pc /\ r.session = w.session
        BY <1>1, HandlerWith
    <2>4. r.pc \notin Makes /\ r.pc \notin Has
        BY <2>1, <2>3 DEF Makes, Has
    <2> HIDE DEF r, done
    <2> QED BY <1>4, <1>5, <2>2, <2>3, <2>4
<1>15. CASE Telegram!HandlerFails(h)
    <2>1. \/ handlers' = [handlers EXCEPT ![h] = done]
          \/ handlers' = [handlers EXCEPT ![h] = Failing(w, "ready", TRUE)]
        BY <1>15 DEF Telegram!HandlerFails, Telegram!Return, Telegram!To, Failing
    <2> HIDE DEF done
    <2> QED BY <1>5, <1>6, <1>8, <2>1
<1> QED BY <1>9, <1>10, <1>11, <1>12, <1>13, <1>14, <1>15

\* No handler moves.
LEMMA HandlersStay ==
    ASSUME ChatInv, ChatState', UNCHANGED <<kind, sent, repeats, handlers, sessions>>
    PROVE  ChatInv'
<1>1. HandlerStates'
    BY DEF ChatInv, HandlerStates, Handled, Telegram!Messages
<1>2. SessionsHaveUpdates'
    BY DEF ChatInv, SessionsHaveUpdates, Makers
<1> QED BY <1>1, <1>2 DEF ChatInv

LEMMA SetLabelTyped ==
    ASSUME ChatInv, NEW h \in DOMAIN handlers, Telegram!SetLabel(h)
    PROVE  ChatInv'
<1> DEFINE r == Going(handlers[h], "tell")
<1>1. handlers[h] \in Handled(sessions) /\ sessions \in Nat
    BY HandlerKnown
<1>2. r \in Handled(sessions) /\ r.pc = "tell"
    BY <1>1, HandlerWith DEF Pcs
<1>3. handlers' = [handlers EXCEPT ![h] = r]
    BY DEF Telegram!SetLabel, Telegram!Go, Telegram!To, Going
<1>4. UNCHANGED <<kind, sent, repeats, crashes, seen, pendingConfirm, bound, sessions, runs>>
    BY DEF Telegram!SetLabel, Telegram!idle, Telegram!ingress
<1>5. label' \in BOOLEAN
    BY DEF Telegram!SetLabel
<1>6. ChatState'
    BY <1>4, <1>5 DEF ChatInv, ChatState, Telegram!Messages
<1>7. r.pc \notin Makes /\ r.pc \notin Has
    BY <1>2 DEF Makes, Has
<1> HIDE DEF r
<1> QED BY <1>2, <1>3, <1>4, <1>6, <1>7, HandlerGoes

LEMMA SubmitTyped ==
    ASSUME ChatInv, NEW h \in DOMAIN handlers, Telegram!Submit(h)
    PROVE  ChatInv'
<1> DEFINE w == handlers[h]
           key == <<w.session, w.msg>>
           new == [ended |-> FALSE, label |-> w.label]
<1>1. w \in Handled(sessions) /\ sessions \in Nat /\ (w.pc \in Has => w.session >= 1)
    BY HandlerKnown
<1>2. w.pc = "submit" /\ w.session >= 1
    BY <1>1 DEF Telegram!Submit, Telegram!At, Has
<1>3. key \in (1..sessions) \X Telegram!Messages /\ new \in [ended : BOOLEAN, label : BOOLEAN]
    <2>1. w.session \in 0..sessions /\ w.msg \in Telegram!Messages /\ w.label \in BOOLEAN
        BY <1>1 DEF Handled
    <2>2. w.session \in 1..sessions
        BY <1>1, <1>2, <2>1
    <2> QED BY <2>1, <2>2
<1>4. UNCHANGED <<kind, sent, repeats, crashes, seen, pendingConfirm, bound, label, sessions>>
    BY DEF Telegram!Submit, Telegram!idle, Telegram!ingress
<1>5. /\ DOMAIN runs' \subseteq (1..sessions) \X Telegram!Messages
      /\ \A r \in DOMAIN runs' : runs'[r] \in [ended : BOOLEAN, label : BOOLEAN]
    <2>1. CASE UNCHANGED runs
        BY <2>1 DEF ChatInv, ChatState
    <2>2. CASE runs' = [r \in DOMAIN runs \cup {key} |-> IF r = key THEN new ELSE runs[r]]
        <3> HIDE DEF key, new
        <3> QED BY <1>3, <2>2 DEF ChatInv, ChatState
    <2> QED BY <2>1, <2>2 DEF Telegram!Submit
<1>6. ChatState'
    BY <1>4, <1>5 DEF ChatInv, ChatState, Telegram!Messages
<1>7. \/ handlers' = [handlers EXCEPT ![h] = Going(w, "poll")]
      \/ handlers' = [handlers EXCEPT ![h] = Failing(w, "ready", TRUE)]
    BY DEF Telegram!Submit, Telegram!Go, Telegram!To, Going, Failing
<1>8. /\ Going(w, "poll") \in Handled(sessions) /\ Going(w, "poll").pc = "poll"
      /\ Going(w, "poll").session = w.session
      /\ Failing(w, "ready", TRUE) \in Handled(sessions) /\ Failing(w, "ready", TRUE).pc = "ready"
    <2>1. "poll" \in Pcs /\ "ready" \in Pcs /\ TRUE \in BOOLEAN
        BY DEF Pcs
    <2> HIDE DEF w
    <2>2. \A p \in Pcs, e \in BOOLEAN : /\ Failing(w, p, e) \in Handled(sessions)
                                      /\ Failing(w, p, e).pc = p
        BY <1>1, HandlerWith
    <2>3. Failing(w, "ready", TRUE) \in Handled(sessions) /\ Failing(w, "ready", TRUE).pc = "ready"
        BY Zenon, <2>1, <2>2
    <2>4. /\ Going(w, "poll") \in Handled(sessions) /\ Going(w, "poll").pc = "poll"
          /\ Going(w, "poll").session = w.session
        BY <1>1, <2>1, HandlerWith
    <2> QED BY <2>3, <2>4
<1>9. "poll" \notin Makes /\ "ready" \notin Makes /\ "ready" \notin Has
    BY DEF Makes, Has
<1> HIDE DEF w
<1> QED BY <1>2, <1>4, <1>6, <1>7, <1>8, <1>9, HandlerGoes

LEMMA SendPartTyped ==
    ASSUME ChatInv, MaxParts \in Nat \ {0}, NEW h \in DOMAIN handlers, Telegram!SendPart(h)
    PROVE  ChatInv'
<1> DEFINE w == handlers[h]
           r == [w EXCEPT !.parts = @ + 1]
           done == Telegram!Handler(w.msg, "done")
<1>1. w \in Handled(sessions) /\ sessions \in Nat /\ w.pc = "deliver"
    BY HandlerKnown DEF Telegram!SendPart, Telegram!At
<1>2. UNCHANGED <<kind, sent, repeats, crashes, seen, pendingConfirm, bound, label, sessions, runs>>
    BY DEF Telegram!SendPart, Telegram!ingress, Telegram!durable
<1>3. ChatState'
    BY <1>2 DEF ChatInv, ChatState, Telegram!Messages
<1>4. \/ handlers' = [handlers EXCEPT ![h] = done]
      \/ handlers' = [handlers EXCEPT ![h] = r] /\ w.parts + 1 < MaxParts
    BY DEF Telegram!SendPart, Telegram!Return, Telegram!To
<1>5. done \in Handled(sessions) /\ done.pc = "done"
    <2>1. w.msg \in Telegram!Messages /\ "done" \in Pcs
        BY <1>1 DEF Handled, Pcs
    <2> QED BY <1>1, <2>1, HandlerReturns
<1>6. w.parts + 1 < MaxParts => r \in Handled(sessions) /\ r.pc = "deliver"
    <2>1. w.parts \in 0..(MaxParts - 1)
        BY <1>1 DEF Handled
    <2>2. w.parts + 1 < MaxParts => w.parts + 1 \in 0..(MaxParts - 1)
        BY <2>1
    <2> QED BY <1>1, <2>2 DEF Handled
<1>7. "done" \notin Makes /\ "done" \notin Has /\ "deliver" \notin Makes /\ "deliver" \notin Has
    BY DEF Makes, Has
<1> HIDE DEF r, done, w
<1> QED BY <1>2, <1>3, <1>4, <1>5, <1>6, <1>7, HandlerGoes

LEMMA UpdateTyped ==
    ASSUME Telegram!TelegramConstants, ChatInv, NEW m \in Telegram!Messages, Telegram!Update(m),
           sent' \in 0..Len(kind), repeats' \in 0..MaxRepeats, sent' + repeats' = sent + repeats + 1
    PROVE  ChatInv'
<1>1. /\ kind \in Seq(Telegram!Kinds) /\ Len(kind) \in Nat /\ MaxRepeats \in Nat
      /\ MaxEntries \in Nat \ {0} /\ MaxParts \in Nat \ {0}
    BY DEF Telegram!TelegramConstants, ChatInv, ChatState
<1>2. sessions \in Nat /\ sent \in Nat /\ repeats \in Nat
    BY <1>1 DEF ChatInv, ChatState
<1>3. UNCHANGED <<kind, crashes, bound, label, sessions, runs>>
    BY DEF Telegram!Update, Telegram!durable
<1>4. seen' \in Seq(Telegram!Messages) /\ Len(seen') <= MaxEntries
    <2> DEFINE those == Telegram!Those(seen, Telegram!ToSet(seen) \ {m})
               kept == Append(those, m)
    <2>1. seen \in Seq(Telegram!Messages) /\ Len(seen) <= MaxEntries
        BY DEF ChatInv, ChatState
    <2>2. those \in Seq(Telegram!Messages) /\ Len(those) <= Len(seen)
        BY <2>1, ThoseAreFewer
    <2>3. kept \in Seq(Telegram!Messages) /\ Len(kept) = Len(those) + 1 /\ Len(those) \in Nat
        <3> HIDE DEF those
        <3> QED BY <2>2
    <2>4. seen' = IF Len(kept) > MaxEntries THEN Tail(kept) ELSE kept
        BY DEF Telegram!Update, Telegram!Remember
    <2> HIDE DEF kept, those
    <2>5. Len(seen) \in Nat
        BY <2>1
    <2>6. kept # <<>> => Tail(kept) \in Seq(Telegram!Messages) /\ Len(Tail(kept)) = Len(kept) - 1
        BY <2>3
    <2>7. kept # <<>>
        BY <2>3
    <2>8. CASE Len(kept) > MaxEntries
        <3>1. seen' \in Seq(Telegram!Messages) /\ Len(seen') = Len(kept) - 1
            BY <2>4, <2>6, <2>7, <2>8
        <3>2. \A a, b, c, d, e \in Nat : a = b + 1 /\ b <= c /\ c <= d /\ e = a - 1 => e <= d
            OBVIOUS
        <3>3. Len(kept) \in Nat /\ Len(seen') \in Nat /\ MaxEntries \in Nat
            BY <1>1, <2>3, <3>1
        <3>4. Len(seen') <= MaxEntries
            BY <2>1, <2>2, <2>3, <2>5, <3>1, <3>2, <3>3
        <3> QED BY <3>1, <3>4
    <2>9. CASE ~(Len(kept) > MaxEntries)
        <3>1. seen' = kept
            BY <2>4, <2>9
        <3>2. \A a, b \in Nat : ~(a > b) => a <= b
            OBVIOUS
        <3>3. Len(kept) \in Nat /\ MaxEntries \in Nat
            BY <1>1, <2>3
        <3> QED BY <2>3, <2>9, <3>1, <3>2, <3>3
    <2> QED BY <2>8, <2>9
<1>5. pendingConfirm' \in BOOLEAN
    BY DEF Telegram!Update, Telegram!Handle, ChatInv, ChatState
<1>6. ChatState'
    BY <1>3, <1>4, <1>5 DEF ChatInv, ChatState, Telegram!Messages
<1>7. sessions + Cardinality(Makers) <= sent + repeats
    BY DEF ChatInv, SessionsHaveUpdates
<1>8. IsFiniteSet(Makers) /\ Cardinality(Makers) \in Nat
    BY MakersAreFinite DEF ChatInv
<1>11. sent' + repeats' \in Nat /\ sent + repeats \in Nat
    <2>1. sent' \in Nat /\ repeats' \in Nat
        BY <1>1
    <2>2. \A a, b \in Nat : a + b \in Nat
        OBVIOUS
    <2> QED BY Zenon, <1>2, <2>1, <2>2
<1>9. CASE UNCHANGED handlers
    <2>1. HandlerStates'
        BY <1>3, <1>9 DEF ChatInv, HandlerStates, Handled, Telegram!Messages
    <2>2. Makers' = Makers
        BY <1>9 DEF Makers
    <2>3. \A a, b, c, e, k \in Nat : a + b <= c /\ k = c + 1 => a + b <= k
        OBVIOUS
    <2>4. sent' + repeats' \in Nat /\ sent + repeats \in Nat
        BY <1>11
    <2>5. SessionsHaveUpdates'
        BY <1>2, <1>3, <1>7, <1>8, <2>2, <2>3, <2>4 DEF SessionsHaveUpdates
    <2> QED BY <1>6, <2>1, <2>5 DEF ChatInv
<1>10. CASE Telegram!Handle(m)
    <2> DEFINE n == Len(handlers) + 1
               r == Telegram!Handler(m, Telegram!Starts(m))
    <2>1. handlers \in Seq(Handled(sessions))
        BY DEF ChatInv, HandlerStates
    <2>2. handlers' = Append(handlers, r)
        BY <1>10 DEF Telegram!Handle
    <2>3. r \in Handled(sessions) /\ r.pc \notin Has
        <3>1. Telegram!Starts(m) \in Pcs /\ Telegram!Starts(m) \notin Has
            BY DEF Telegram!Starts, Pcs, Has
        <3> QED BY <1>1, <1>2, <3>1, HandlerReturns
    <2> HIDE DEF r, Handled
    <2>4. /\ handlers' \in Seq(Handled(sessions)) /\ n \in Nat
          /\ DOMAIN handlers = 1..(n - 1) /\ DOMAIN handlers' = 1..n
          /\ handlers'[n] = r /\ \A g \in 1..(n - 1) : handlers'[g] = handlers[g]
        BY <2>1, <2>2, <2>3
    <2>5. HandlerStates'
        <3>1. Handled(sessions)' = Handled(sessions)
            BY <1>3 DEF Handled, Telegram!Messages
        <3>2. \A h \in DOMAIN handlers' : handlers'[h].pc \in Has => handlers'[h].session >= 1
            BY <2>3, <2>4 DEF ChatInv, HandlerStates
        <3> QED BY <2>4, <3>1, <3>2 DEF HandlerStates
    <2>6. Makers' \subseteq Makers \cup {n}
        <3> SUFFICES ASSUME NEW g \in DOMAIN handlers', handlers'[g].pc \in Makes
                     PROVE  g \in Makers \cup {n}
            BY DEF Makers
        <3>1. g \in 1..n
            BY <2>4
        <3>2. g # n => g \in DOMAIN handlers /\ handlers'[g] = handlers[g]
            BY <2>4, <3>1
        <3>3. g # n => g \in Makers
            BY <3>2 DEF Makers
        <3> HIDE DEF n
        <3> QED BY <3>3
    <2>7. Cardinality(Makers') <= Cardinality(Makers) + 1 /\ Cardinality(Makers') \in Nat
        <3>1. IsFiniteSet(Makers \cup {n}) /\ Cardinality(Makers \cup {n}) <= Cardinality(Makers) + 1
            <4>1. IsFiniteSet(Makers \cup {n})
                BY <1>8, FS_AddElement
            <4>2. \/ Cardinality(Makers \cup {n}) = Cardinality(Makers)
                  \/ Cardinality(Makers \cup {n}) = Cardinality(Makers) + 1
                BY <1>8, FS_AddElement
            <4>3. \A a \in Nat : a <= a + 1 /\ a + 1 <= a + 1
                OBVIOUS
            <4> QED BY Zenon, <1>8, <4>1, <4>2, <4>3
        <3>2. Cardinality(Makers \cup {n}) \in Nat
            BY <3>1, FS_CardinalityType
        <3>3. Makers' \in SUBSET (Makers \cup {n})
            BY <2>6
        <3>4. /\ Cardinality(Makers') <= Cardinality(Makers \cup {n})
              /\ IsFiniteSet(Makers')
            BY <3>1, <3>3, FS_Subset
        <3>5. Cardinality(Makers') \in Nat
            BY <3>4, FS_CardinalityType
        <3>6. \A a, b, c \in Nat : a <= b /\ b <= c + 1 => a <= c + 1
            OBVIOUS
        <3> QED BY <1>8, <3>1, <3>2, <3>4, <3>5, <3>6
    <2>8. \A a, b, c, e, k \in Nat : a + b <= c /\ e <= b + 1 /\ k = c + 1 => a + e <= k
        OBVIOUS
    <2>9. sent' + repeats' \in Nat /\ sent + repeats \in Nat
        BY <1>11
    <2>10. SessionsHaveUpdates'
        BY <1>2, <1>3, <1>7, <1>8, <2>7, <2>8, <2>9 DEF SessionsHaveUpdates
    <2> QED BY <1>6, <2>5, <2>10 DEF ChatInv
<1> QED BY <1>9, <1>10 DEF Telegram!Update

LEMMA ChatTypesStep ==
    ASSUME Telegram!TelegramConstants, ChatInv, [Telegram!Next]_(Telegram!vars)
    PROVE  ChatInv'
<1>1. /\ kind \in Seq(Telegram!Kinds) /\ Len(kind) \in Nat /\ MaxRepeats \in Nat /\ MaxCrashes \in Nat
      /\ MaxParts \in Nat \ {0}
    BY DEF Telegram!TelegramConstants, ChatInv, ChatState
<1>2. sent \in 0..Len(kind) /\ repeats \in 0..MaxRepeats /\ crashes \in 0..MaxCrashes /\ sessions \in Nat
    BY DEF ChatInv, ChatState
<1>3. CASE UNCHANGED Telegram!vars
    <2>1. UNCHANGED <<Telegram!ingress, Telegram!durable, handlers>>
        BY <1>3 DEF Telegram!vars
    <2>2. ChatState'
        BY <2>1, ChatStays DEF ChatInv
    <2> QED BY <2>1, <2>2, HandlersStay DEF Telegram!ingress, Telegram!durable
<1>4. CASE Telegram!NewUpdate
    <2>1. sent + 1 \in 1..Len(kind) /\ sent' = sent + 1 /\ repeats' = repeats /\ Telegram!Update(sent + 1)
        BY <1>1, <1>2, <1>4 DEF Telegram!NewUpdate
    <2>2. sent + 1 \in Telegram!Messages /\ sent' + repeats' = sent + repeats + 1 /\ sent' \in 0..Len(kind)
        BY <1>1, <1>2, <2>1 DEF Telegram!Messages
    <2> QED BY <1>2, <2>1, <2>2, UpdateTyped
<1>5. CASE Telegram!RepeatUpdate
    <2>1. PICK m \in 1..sent : repeats < MaxRepeats /\ repeats' = repeats + 1 /\ Telegram!Update(m)
        BY <1>5 DEF Telegram!RepeatUpdate
    <2>2. m \in Telegram!Messages /\ sent' = sent /\ repeats' \in 0..MaxRepeats
        BY <1>1, <1>2, <1>5, <2>1 DEF Telegram!Messages, Telegram!RepeatUpdate
    <2>3. sent' + repeats' = sent + repeats + 1 /\ sent' \in 0..Len(kind)
        BY <1>1, <1>2, <2>1, <2>2
    <2> QED BY <2>1, <2>2, <2>3, UpdateTyped
<1>6. CASE Telegram!ForgetUpdate
    <2>1. UNCHANGED <<kind, sent, repeats, crashes, pendingConfirm, bound, label, sessions, runs, handlers>>
        BY <1>6 DEF Telegram!ForgetUpdate, Telegram!durable
    <2>2. seen' \in Seq(Telegram!Messages) /\ Len(seen') <= MaxEntries
        <3>1. seen \in Seq(Telegram!Messages) /\ Len(seen) <= MaxEntries /\ seen # <<>> /\ MaxEntries \in Nat
            BY <1>6 DEF ChatInv, ChatState, Telegram!ForgetUpdate, Telegram!TelegramConstants
        <3>2. Tail(seen) \in Seq(Telegram!Messages) /\ Len(Tail(seen)) = Len(seen) - 1 /\ Len(seen) \in Nat
            BY <3>1
        <3> QED BY <1>6, <3>1, <3>2 DEF Telegram!ForgetUpdate
    <2>3. ChatState'
        BY <2>1, <2>2 DEF ChatInv, ChatState, Telegram!Messages
    <2> QED BY <2>1, <2>3, HandlersStay
<1>7. CASE Telegram!Crash
    <2>1. /\ UNCHANGED <<kind, sent, repeats, bound, label, sessions>>
          /\ handlers' = <<>> /\ seen' = <<>> /\ pendingConfirm' = FALSE /\ crashes' \in 0..MaxCrashes
        BY <1>1, <1>2, <1>7 DEF Telegram!Crash
    <2>2. seen' \in Seq(Telegram!Messages) /\ Len(seen') <= MaxEntries
        BY <2>1 DEF Telegram!TelegramConstants
    <2>3. /\ DOMAIN runs' \subseteq (1..sessions) \X Telegram!Messages
          /\ \A r \in DOMAIN runs' : runs'[r] \in [ended : BOOLEAN, label : BOOLEAN]
        BY <1>7 DEF Telegram!Crash, ChatInv, ChatState
    <2>4. ChatState'
        BY <2>1, <2>2, <2>3 DEF ChatInv, ChatState, Telegram!Messages
    <2>5. Makers' = {}
        BY <2>1 DEF Makers
    <2>6. Cardinality(Makers') = 0
        BY <2>5, FS_EmptySet
    <2>7. IsFiniteSet(Makers) /\ Cardinality(Makers) \in Nat
        BY MakersAreFinite DEF ChatInv
    <2>8. SessionsHaveUpdates'
        <3>1. sessions + Cardinality(Makers) <= sent + repeats
            BY DEF ChatInv, SessionsHaveUpdates
        <3>2. \A a, b, c \in Nat : a + b <= c => a + 0 <= c
            OBVIOUS
        <3>3. sent + repeats \in Nat
            BY <1>1, <1>2
        <3> QED BY <1>2, <2>1, <2>6, <2>7, <3>1, <3>2, <3>3 DEF SessionsHaveUpdates
    <2>9. HandlerStates'
        BY <2>1 DEF HandlerStates
    <2> QED BY <2>4, <2>8, <2>9 DEF ChatInv
<1>8. ASSUME NEW h \in DOMAIN handlers, Telegram!HandlerStep(h) \/ Telegram!HandlerFails(h)
      PROVE  ChatInv'
    BY <1>1, <1>8, BindTyped, NewSessionTyped, SetLabelTyped, SubmitTyped, SendPartTyped, QuietStepsTyped
       DEF Telegram!HandlerStep
<1>9. ASSUME NEW r \in DOMAIN runs, Telegram!RunEnds(r)
      PROVE  ChatInv'
    <2>1. UNCHANGED <<kind, sent, repeats, crashes, seen, pendingConfirm, bound, label, sessions, handlers>>
        BY <1>9 DEF Telegram!RunEnds, Telegram!idle, Telegram!ingress
    <2>2. /\ DOMAIN runs' \subseteq (1..sessions) \X Telegram!Messages
          /\ \A t \in DOMAIN runs' : runs'[t] \in [ended : BOOLEAN, label : BOOLEAN]
        BY <1>9 DEF Telegram!RunEnds, ChatInv, ChatState
    <2>3. ChatState'
        BY <2>1, <2>2 DEF ChatInv, ChatState, Telegram!Messages
    <2> QED BY <2>1, <2>3, HandlersStay
<1> QED BY <1>3, <1>4, <1>5, <1>6, <1>7, <1>8, <1>9
        DEF Telegram!Next, Telegram!HandlersGoOn, Telegram!RunsGoOn, Telegram!Handling

\* Every variable of a chat keeps its type; in particular the chat has no more
\* sessions than it had updates (src/channels/telegram/adapter.ts).
THEOREM TelegramTypeCorrect ==
    ASSUME Telegram!TelegramConstants
    PROVE  Telegram!Spec => []Telegram!TypeOK
<1>1. Telegram!Init => ReplyInv /\ ChatInv
    <2> SUFFICES ASSUME Telegram!Init PROVE ReplyInv /\ ChatInv
        OBVIOUS
    <2>1. ReplyInv
        BY ChatBegins
    <2>2. /\ kind \in Workloads /\ kind \in Seq(Telegram!Kinds) /\ Len(kind) \in Nat
          /\ MaxRepeats \in Nat /\ MaxCrashes \in Nat /\ MaxEntries \in Nat
        BY DEF Telegram!Init, Telegram!TelegramConstants
    <2>3. ChatState
        <3>1. /\ sent \in 0..Len(kind) /\ repeats \in 0..MaxRepeats /\ crashes \in 0..MaxCrashes
              /\ sessions \in Nat /\ bound \in 0..sessions
            BY <2>2 DEF Telegram!Init
        <3>2. seen \in Seq(Telegram!Messages) /\ Len(seen) <= MaxEntries
            BY <2>2 DEF Telegram!Init
        <3>3. DOMAIN runs = {}
            BY DEF Telegram!Init
        <3>4. pendingConfirm \in BOOLEAN /\ label \in BOOLEAN
            BY DEF Telegram!Init
        <3> QED BY <2>2, <3>1, <3>2, <3>3, <3>4 DEF ChatState
    <2>4. HandlerStates
        BY DEF Telegram!Init, HandlerStates
    <2>5. Makers = {}
        BY DEF Telegram!Init, Makers
    <2>6. SessionsHaveUpdates
        BY <2>5, FS_EmptySet DEF Telegram!Init, SessionsHaveUpdates
    <2> QED BY <2>1, <2>3, <2>4, <2>6 DEF ChatInv
<1>2. ReplyInv /\ ChatInv /\ [Telegram!Next]_(Telegram!vars) => ReplyInv' /\ ChatInv'
    BY ChatStep, ChatTypesStep
<1>3. ReplyInv /\ ChatInv => Telegram!TypeOK
    <2> SUFFICES ASSUME ReplyInv, ChatInv PROVE Telegram!TypeOK
        OBVIOUS
    <2>1. /\ kind \in Seq(Telegram!Kinds) /\ Len(kind) \in Nat /\ MaxRepeats \in Nat
        BY DEF Telegram!TelegramConstants, ChatInv, ChatState
    <2>2. Telegram!ToSet(seen) \subseteq Telegram!Messages
        BY DEF Telegram!ToSet, ChatInv, ChatState
    <2>3. reserved \subseteq DOMAIN handlers /\ lastSent \in {0} \cup DOMAIN handlers
        BY DEF ReplyInv, ChatType, SendersAreFirst
    <2>4. sessions <= Len(kind) + MaxRepeats
        <3>1. sessions + Cardinality(Makers) <= sent + repeats
            BY DEF ChatInv, SessionsHaveUpdates
        <3>2. Cardinality(Makers) \in Nat
            BY MakersAreFinite DEF ChatInv
        <3>3. \A a, b, c, d, e, f \in Nat : a + b <= c + d /\ c <= e /\ d <= f => a <= e + f
            OBVIOUS
        <3> QED BY <2>1, <3>1, <3>2, <3>3 DEF ChatInv, ChatState
    <2>5. \A h \in DOMAIN handlers : handlers[h] \in Handled(sessions)
        BY HandlerKnown
    <2> QED BY <2>1, <2>2, <2>3, <2>4, <2>5
            DEF ChatInv, ChatState, Telegram!TypeOK, Telegram!Handling, Handled, Pcs
<1> QED BY <1>1, <1>2, <1>3, PTL DEF Telegram!Spec

-----------------------------------------------------------------------------
(* The turns put together: a behaviour of the parts is one of each. *)

\* Tools stay within the limits of a turn of either runtime: the agent loop
\* keeps a scheduled turn's last call for its terminal action, and a Codex
\* server gets no call above the limit, however many it has in flight.
THEOREM BudgetsHold ==
    ASSUME PartConstants PROVE FairParts => []ToolBudgetsKept
<1>1. PartsInit => Init /\ Codex!Init
    BY DEF PartsInit
<1>2. [PartsNext]_partVars => [Next]_vars
    BY DEF PartsNext, OthersStay, partVars, vars
<1>3. [PartsNext]_partVars => [Codex!Next]_(Codex!vars)
    BY DEF PartsNext, OthersStay, partVars, codexVars, Codex!vars, Codex!serverVars,
           Codex!turnVars, Codex!toolVars
<1>4. FairParts => Spec /\ Codex!Spec
    BY <1>1, <1>2, <1>3, PTL DEF FairParts, Spec, Codex!Spec
<1> QED BY <1>4, LastCallReserved, CodexBudgetHolds, CodexCancelsOnRequest, PTL
        DEF PartConstants, ToolBudgetsKept

\* The variables of every part keep their types: the loop's budget, the sessions of
\* a chat, the awaits of a Codex turn, the attempts of a call, the checks of a
\* search, the pages of a batch and the controllers of the browsers are bounded as
\* the code bounds them, for all values of the constants.
THEOREM TurnTypesHold ==
    ASSUME PartConstants PROVE FairParts => []PartsTypeOK
<1>1. PartsInit => /\ Init /\ Telegram!Init /\ Codex!Init /\ Providers!Init
                   /\ Search!Init /\ Fetch!Init /\ Browser!Init
    BY DEF PartsInit
<1>2. [PartsNext]_partVars => [Next]_vars
    BY DEF PartsNext, OthersStay, partVars, vars
<1>3. [PartsNext]_partVars => [Telegram!Next]_(Telegram!vars)
    BY DEF PartsNext, OthersStay, partVars, chatVars, Telegram!vars, Telegram!ingress, Telegram!durable
<1>4. [PartsNext]_partVars => [Codex!Next]_(Codex!vars)
    BY DEF PartsNext, OthersStay, partVars, codexVars, Codex!vars, Codex!serverVars,
           Codex!turnVars, Codex!toolVars
<1>5. [PartsNext]_partVars => [Providers!Next]_(Providers!providerVars)
    BY DEF PartsNext, OthersStay, partVars, providerVars, Providers!providerVars
<1>6. [PartsNext]_partVars => [Search!Next]_(Search!searchVars)
    BY DEF PartsNext, OthersStay, partVars, searchVars, Search!searchVars
<1>7. [PartsNext]_partVars => [Fetch!Next]_(Fetch!fetchVars)
    BY DEF PartsNext, OthersStay, partVars, fetchVars, Fetch!fetchVars
<1>8. [PartsNext]_partVars => [Browser!Next]_(Browser!browserVars)
    BY DEF PartsNext, OthersStay, partVars, browserVars, Browser!browserVars
<1>9. FairParts => /\ Spec /\ Telegram!Spec /\ Codex!Spec /\ Providers!Spec
                   /\ Search!Spec /\ Fetch!Spec /\ Browser!Spec
    BY <1>1, <1>2, <1>3, <1>4, <1>5, <1>6, <1>7, <1>8, PTL
       DEF FairParts, Spec, Telegram!Spec, Codex!Spec, Providers!Spec, Search!Spec, Fetch!Spec, Browser!Spec
<1>10. (TypeOK /\ Telegram!TypeOK /\ Codex!TypeOK /\ Providers!TypeOK)
       /\ (Search!TypeOK /\ Fetch!TypeOK /\ Browser!TypeOK) => PartsTypeOK
    BY DEF PartsTypeOK
<1>11. /\ Telegram!TelegramConstants /\ Codex!CodexConstants /\ Providers!ProviderConstants
       /\ Search!SearchConstants /\ Fetch!FetchConstants /\ Browser!BrowserConstants
    BY DEF PartConstants
<1> QED BY <1>9, <1>10, <1>11, TurnTypeCorrect, TelegramTypeCorrect, CodexTypeCorrect, ProviderTypeCorrect,
           SearchTypeCorrect, FetchTypeCorrect, BrowserTypeCorrect, PTL

\* Telegram replies keep the order of the messages, whatever the other parts do.
THEOREM ChatKeepsOrder == FairParts => RepliesKeepOrder
<1>1. PartsInit => Telegram!Init
    BY DEF PartsInit
<1>2. [PartsNext]_partVars => [Telegram!Next]_(Telegram!vars)
    BY DEF PartsNext, OthersStay, partVars, chatVars, Telegram!vars, Telegram!ingress, Telegram!durable
<1>3. FairParts => Telegram!Spec
    BY <1>1, <1>2, PTL DEF FairParts, Telegram!Spec
<1> QED BY <1>3, RepliesInOrder DEF RepliesKeepOrder

\* Every process that turns start has an owner that can end it: those of the
\* search manager's start command, and the browsers, if the calls of a chat are
\* apart.
THEOREM ProcessesStayHeld ==
    ASSUME PartConstants, ~Shared PROVE FairParts => []ProcessesAreHeld
<1>1. PartsInit => Search!Init /\ Browser!Init
    BY DEF PartsInit
<1>2. [PartsNext]_partVars => [Search!Next]_(Search!searchVars)
    BY DEF PartsNext, OthersStay, partVars, searchVars, Search!searchVars
<1>3. [PartsNext]_partVars => [Browser!Next]_(Browser!browserVars)
    BY DEF PartsNext, OthersStay, partVars, browserVars, Browser!browserVars
<1>4. FairParts => Search!Spec /\ Browser!Spec
    BY <1>1, <1>2, <1>3, PTL DEF FairParts, Search!Spec, Browser!Spec
<1>5. Search!StartsAreOwned /\ Browser!BrowsersAreHeld /\ Browser!CurrentTabIsOpen => ProcessesAreHeld
    BY DEF ProcessesAreHeld
<1> QED BY <1>4, <1>5, StartsHaveOwners, BrowsersStayHeld, PTL DEF PartConstants

\* Answers are whole, for all addresses, workers and chains of providers: every
\* address is read once and what was read is stored, if Playwright starts when it
\* is needed; a passing failure is made good by the next provider, results follow
\* their calls, every instruction is sent and a cut answer fails the turn, if the
\* providers that the properties are about have the OpenAI format.
THEOREM AnswersStayWhole ==
    ASSUME PartConstants, PlaywrightWorks, Judged \cap Providers!Native = {}
    PROVE  FairParts => []AnswersAreWhole
<1>1. PartsInit => Fetch!Init /\ Providers!Init
    BY DEF PartsInit
<1>2. [PartsNext]_partVars => [Fetch!Next]_(Fetch!fetchVars)
    BY DEF PartsNext, OthersStay, partVars, fetchVars, Fetch!fetchVars
<1>3. [PartsNext]_partVars => [Providers!Next]_(Providers!providerVars)
    BY DEF PartsNext, OthersStay, partVars, providerVars, Providers!providerVars
<1>4. FairParts => Fetch!Spec /\ Providers!Spec
    BY <1>1, <1>2, <1>3, PTL DEF FairParts, Fetch!Spec, Providers!Spec
<1>5. Fetch!AddressesAreReadOnce /\ Fetch!ReadPagesAreStored
      /\ (Providers!FallsBack /\ Providers!TruncatedTurnsFail)
      /\ (Providers!ResultsFollowCalls /\ Providers!InstructionsAreSent) => AnswersAreWhole
    BY DEF AnswersAreWhole
<1> QED BY <1>4, <1>5, AddressesAreShared, PagesStayStored, RoutedCallsFallBack,
           ConversationsStayWhole, PTL DEF PartConstants

=============================================================================
