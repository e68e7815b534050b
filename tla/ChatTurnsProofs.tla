-------------------------- MODULE ChatTurnsProofs --------------------------
(***************************************************************************)
(* Proofs about ChatTurns: its type invariant, that a request id has one   *)
(* run, that a queued turn finds every earlier one finished, that the      *)
(* serving process has a turn for every unfinished run, and that a         *)
(* finished run stays finished.  The inductive invariant says how calls,   *)
(* turns, runs and the execution mutex go together.                        *)
(***************************************************************************)
EXTENDS ChatTurns, FiniteSetTheorems, TLAPS

InTurn(c)   == turn[c] \notin {"none", "over"}
Ordinary(c) == ~Scheduled(c)

\* A call has nothing before it is admitted; only a serving process has turns.
CallsFollowTurns ==
    \A c \in Calls :
        /\ call[c] \in {"new", "admitting"} =>
             runs[c].status = "absent" /\ turn[c] = "none" /\ answer[c] = NoCall
        /\ call[c] = "admitting" => Kind(c) = "queued"
        /\ ~Serving => ~InTurn(c) /\ call[c] # "admitting"

\* Where a turn is and what its run says.
RunsFollowTurns ==
    \A c \in Calls :
        /\ turn[c] = "waiting" =>
             IF Kind(c) = "queued" THEN runs[c].status \in Unfinished ELSE runs[c].status = "absent"
        /\ turn[c] \in {"context", "submitted", "agent"} => runs[c].status \in Unfinished
        /\ turn[c] = "persist" => runs[c].status \in Finished

\* The mutex of a session holds turns of that session, and only its head has
\* begun.
MutexHoldsTurns ==
    \A s \in Sessions : \A i \in 1..Len(execution[s]) :
        /\ Session(execution[s][i]) = s /\ InTurn(execution[s][i])
        /\ i > 1 => turn[execution[s][i]] = "waiting"

\* No turn waits twice, and queued turns wait in the order of their runs.
MutexIsOrdered ==
    \A s \in Sessions : \A i, j \in 1..Len(execution[s]) : i < j =>
        /\ execution[s][i] # execution[s][j]
        /\ (Kind(execution[s][i]) = "queued" /\ Kind(execution[s][j]) = "queued") =>
              runs[execution[s][i]].createdAt < runs[execution[s][j]].createdAt

InMutex(c) == \E i \in 1..Len(execution[Session(c)]) : execution[Session(c)][i] = c
TurnsWait  == \A c \in Calls : InTurn(c) => InMutex(c)

\* An unfinished ordinary run has a turn, or recovery has still to see it.
NoRunIsForgotten ==
    /\ stale # {} => phase = "recovering"
    /\ \A c \in Calls : (Ordinary(c) /\ runs[c].status \in Unfinished) =>
         /\ phase = "recovering" => c \in stale
         /\ Serving => InTurn(c)

RequestsAreUnique ==
    \A c, d \in Calls :
        (/\ Kind(c) = "queued" /\ runs[c].status # "absent"
         /\ Kind(d) = "queued" /\ runs[d].status # "absent"
         /\ Session(c) = Session(d)
         /\ shape[c].request # NoRequest /\ shape[c].request = shape[d].request) => c = d

\* The run a call was answered with is that of its request.
AnswersAreRuns ==
    \A c \in Calls : answer[c] # NoCall =>
        /\ answer[c] \in RunsOf(Session(c)) /\ Kind(answer[c]) = "queued"
        /\ shape[answer[c]].request = shape[c].request

IInv ==
    /\ TypeOK /\ CallsFollowTurns /\ RunsFollowTurns /\ MutexHoldsTurns /\ MutexIsOrdered
    /\ TurnsWait /\ NoRunIsForgotten /\ RequestsAreUnique /\ AnswersAreRuns

-----------------------------------------------------------------------------
(* Runs and how a step writes one. *)

LEMMA SessionKnown == ASSUME TypeOK, NEW c \in Calls PROVE Session(c) \in Sessions
BY DEF TypeOK, Session, Sessions

LEMMA SomeCalls ==
    ASSUME NEW S \in SUBSET Calls
    PROVE  IsFiniteSet(S) /\ Cardinality(S) \in Nat /\ Cardinality(S) <= Cardinality(Calls)
           /\ Cardinality(Calls) \in Nat
BY ChatConstants, FS_Subset, FS_CardinalityType DEF ChatConstants

\* A step writes one run: it creates it, changes its status or flags it.
Writes(c) ==
    \/ UNCHANGED runs
    \/ runs[c].status = "absent" /\ \E status \in Unfinished : runs' = Created(c, status)
    \/ runs[c].status # "absent" /\ \E status \in Unfinished \cup Finished : SetStatus(c, status)
    \/ runs' = [runs EXCEPT ![c].cancelRequested = TRUE]

\* A new run is created later than every run of its session.
LEMMA CreatedLast ==
    ASSUME TypeOK, UNCHANGED shape, NEW c \in Calls, runs[c].status = "absent",
           NEW status \in Unfinished, runs' = Created(c, status)
    PROVE  /\ runs' \in [Calls -> Run]
           /\ runs'[c].status = status
           /\ \A d \in Calls : d # c => runs'[d] = runs[d]
           /\ \A d \in Calls : runs'[d].createdAt <= Cardinality(RunsOf(Session(d)))'
           /\ \A d \in RunsOf(Session(c)) : runs[d].createdAt < runs'[c].createdAt
<1> DEFINE n == 1 + Cardinality(RunsOf(Session(c)))
           new == [status |-> status, cancelRequested |-> FALSE, createdAt |-> n]
<1>1. RunsOf(Session(c)) \subseteq Calls /\ c \notin RunsOf(Session(c))
  BY DEF RunsOf
<1>2. /\ Cardinality(RunsOf(Session(c))) \in Nat
      /\ Cardinality(RunsOf(Session(c)) \cup {c}) = n
      /\ n <= Cardinality(Calls) /\ Cardinality(Calls) \in Nat
  <2>1. IsFiniteSet(RunsOf(Session(c))) /\ Cardinality(RunsOf(Session(c))) \in Nat
    BY <1>1, SomeCalls
  <2>2. Cardinality(RunsOf(Session(c)) \cup {c}) = n
    <3>1. \A S : IsFiniteSet(S) /\ c \notin S => Cardinality(S \cup {c}) = Cardinality(S) + 1
      BY FS_AddElement
    <3>2. Cardinality(RunsOf(Session(c)) \cup {c}) = Cardinality(RunsOf(Session(c))) + 1
      BY <1>1, <2>1, <3>1
    <3> QED
      BY <2>1, <3>2
  <2> QED
    BY <1>1, <2>1, <2>2, SomeCalls
<1>3. runs' = [runs EXCEPT ![c] = new]
  BY DEF Created
<1>4. new \in Run
  BY <1>2 DEF Run, Unfinished, RunStatuses
<1> HIDE DEF new
<1>5. runs' \in [Calls -> Run] /\ runs'[c] = new /\ \A d \in Calls : d # c => runs'[d] = runs[d]
  BY <1>3, <1>4 DEF TypeOK
<1>6. new.status = status /\ new.createdAt = n /\ status # "absent"
  BY DEF new, Unfinished
<1>7. \A s : RunsOf(s)' = IF s = Session(c) THEN RunsOf(s) \cup {c} ELSE RunsOf(s)
  BY <1>5, <1>6 DEF RunsOf, Session
<1>8. \A d \in Calls : runs'[d].createdAt <= Cardinality(RunsOf(Session(d)))'
  <2> SUFFICES ASSUME NEW d \in Calls PROVE runs'[d].createdAt <= Cardinality(RunsOf(Session(d))')
    BY DEF Session
  <2>1. Cardinality(RunsOf(Session(d))') = IF Session(d) = Session(c) THEN n ELSE Cardinality(RunsOf(Session(d)))
    BY <1>2, <1>7 DEF Session
  <2>2. d # c => runs[d].createdAt <= Cardinality(RunsOf(Session(d))) /\ runs[d].createdAt \in Nat
    BY DEF TypeOK, Run
  <2> QED
    BY <1>2, <1>5, <1>6, <2>1, <2>2
<1>9. \A d \in RunsOf(Session(c)) : runs[d].createdAt < n
  <2> SUFFICES ASSUME NEW d \in RunsOf(Session(c)) PROVE runs[d].createdAt < n
    OBVIOUS
  <2>1. d \in Calls /\ Session(d) = Session(c)
    BY DEF RunsOf
  <2>2. runs[d].createdAt <= Cardinality(RunsOf(Session(c))) /\ runs[d].createdAt \in Nat
    BY <2>1 DEF TypeOK, Run
  <2> QED
    BY <1>2, <2>2
<1> QED
  BY <1>5, <1>6, <1>8, <1>9

\* What every write keeps: the types, the other runs, and, once the run is
\* there, its place in the order.
LEMMA WriteKeeps ==
    ASSUME TypeOK, UNCHANGED shape, NEW c \in Calls, Writes(c)
    PROVE  /\ runs' \in [Calls -> Run]
           /\ \A d \in Calls : d # c => runs'[d] = runs[d]
           /\ \A d \in Calls : runs'[d].createdAt <= Cardinality(RunsOf(Session(d)))'
           /\ \A d \in Calls : runs[d].status # "absent" =>
                 runs'[d].status # "absent" /\ runs'[d].createdAt = runs[d].createdAt
<1>1. CASE runs[c].status = "absent" /\ \E status \in Unfinished : runs' = Created(c, status)
  BY <1>1, CreatedLast
<1>2. CASE \/ UNCHANGED runs
           \/ runs[c].status # "absent" /\ \E status \in Unfinished \cup Finished : SetStatus(c, status)
           \/ runs' = [runs EXCEPT ![c].cancelRequested = TRUE]
  <2> DEFINE Kept == /\ runs' \in [Calls -> Run] /\ \A d \in Calls : d # c => runs'[d] = runs[d]
                     /\ runs'[c].createdAt = runs[c].createdAt
                     /\ runs'[c].status = "absent" <=> runs[c].status = "absent"
  <2>0. runs \in [Calls -> Run]
    BY DEF TypeOK
  <2>1. Kept
    <3>1. CASE UNCHANGED runs
      BY <2>0, <3>1
    <3>2. ASSUME NEW status \in Unfinished \cup Finished, runs[c].status # "absent", SetStatus(c, status)
          PROVE  Kept
      BY <2>0, <3>2 DEF SetStatus, Run, RunStatuses, Unfinished, Finished
    <3>3. CASE runs' = [runs EXCEPT ![c].cancelRequested = TRUE]
      BY <2>0, <3>3 DEF Run
    <3> QED
      BY <1>2, <3>1, <3>2, <3>3
  <2>2. \A d \in Calls : /\ runs'[d].createdAt = runs[d].createdAt
                         /\ runs'[d].status = "absent" <=> runs[d].status = "absent"
    BY <2>1
  <2>3. \A s : RunsOf(s)' = RunsOf(s)
    BY <2>2 DEF RunsOf, Session
  <2>4. \A d \in Calls : Cardinality(RunsOf(Session(d)))' = Cardinality(RunsOf(Session(d)))
    BY <2>3 DEF Session
  <2> QED
    BY <2>1, <2>2, <2>4 DEF TypeOK
<1> QED
  BY <1>1, <1>2 DEF Writes

\* Waiting queued turns have their runs, which keep their place.
LEMMA WaitingKeepPlace ==
    ASSUME IInv, UNCHANGED shape, NEW c \in Calls, Writes(c)
    PROVE  \A d \in Calls : InTurn(d) /\ Kind(d) = "queued" =>
             d \in RunsOf(Session(d)) /\ runs'[d].createdAt = runs[d].createdAt
<1> SUFFICES ASSUME NEW d \in Calls, InTurn(d), Kind(d) = "queued"
             PROVE  d \in RunsOf(Session(d)) /\ runs'[d].createdAt = runs[d].createdAt
  OBVIOUS
<1>1. runs[d].status # "absent"
  BY DEF IInv, TypeOK, RunsFollowTurns, InTurn, Unfinished, Finished
<1> QED
  BY <1>1, WriteKeeps DEF IInv, RunsOf

-----------------------------------------------------------------------------
(* The execution mutex. *)

\* What is stated of the mutex of one session.
Orderly(queue, s) ==
    /\ \A i \in 1..Len(queue) :
         /\ Session(queue[i]) = s /\ InTurn(queue[i])
         /\ i > 1 => turn[queue[i]] = "waiting"
    /\ \A i, j \in 1..Len(queue) : i < j =>
         /\ queue[i] # queue[j]
         /\ (Kind(queue[i]) = "queued" /\ Kind(queue[j]) = "queued") =>
               runs[queue[i]].createdAt < runs[queue[j]].createdAt

LEMMA MutexIsOrderly ==
    (\A s \in Sessions : Orderly(execution[s], s)) <=> MutexHoldsTurns /\ MutexIsOrdered
BY DEF Orderly, MutexHoldsTurns, MutexIsOrdered

\* Joining the mutex.
LEMMA MutexEntered ==
    ASSUME IInv, UNCHANGED shape, NEW c \in Calls, ~InTurn(c), Writes(c),
           execution' = Enter(c, execution), turn' = [turn EXCEPT ![c] = "waiting"],
           Kind(c) = "queued" => \A d \in RunsOf(Session(c)) : runs[d].createdAt < runs'[c].createdAt
    PROVE  /\ execution' \in [Sessions -> Seq(Calls)]
           /\ MutexHoldsTurns' /\ MutexIsOrdered' /\ TurnsWait'
<1> DEFINE t == Session(c)
           q == execution[t]
<1>0. /\ t \in Sessions /\ execution \in [Sessions -> Seq(Calls)] /\ q \in Seq(Calls)
      /\ turn' [c] = "waiting" /\ \A d \in Calls : d # c => turn'[d] = turn[d]
  BY SessionKnown DEF IInv, TypeOK
<1>1. /\ execution' \in [Sessions -> Seq(Calls)]
      /\ execution'[t] = Append(q, c)
      /\ \A s \in Sessions : s # t => execution'[s] = execution[s]
  BY <1>0 DEF Enter
<1>2. /\ Len(execution'[t]) = Len(q) + 1 /\ Len(q) \in Nat
      /\ execution'[t][Len(q) + 1] = c
      /\ \A i \in 1..Len(q) : execution'[t][i] = q[i] /\ q[i] \in Calls
  BY <1>0, <1>1
<1>3. \A s \in Sessions : Orderly(execution[s], s)
  BY MutexIsOrderly DEF IInv
<1>4. \A s \in Sessions : \A i \in 1..Len(execution[s]) : execution[s][i] \in Calls /\ execution[s][i] # c
  <2> SUFFICES ASSUME NEW s \in Sessions, NEW i \in 1..Len(execution[s])
               PROVE  execution[s][i] \in Calls /\ execution[s][i] # c
    OBVIOUS
  <2>1. execution[s][i] \in Calls
    BY <1>0
  <2>2. InTurn(execution[s][i])
    BY <1>3 DEF Orderly
  <2> QED
    BY <2>1, <2>2
<1>5. \A d \in Calls : InTurn(d) /\ Kind(d) = "queued" =>
             d \in RunsOf(Session(d)) /\ runs'[d].createdAt = runs[d].createdAt
  BY WaitingKeepPlace
<1>6. \A s \in Sessions : Orderly(execution[s], s)'
  <2> SUFFICES ASSUME NEW s \in Sessions PROVE Orderly(execution[s], s)'
    OBVIOUS
  <2>1. \A i \in 1..Len(execution[s]) :
           /\ execution[s][i] \in Calls /\ execution[s][i] # c
           /\ turn'[execution[s][i]] = turn[execution[s][i]]
           /\ Kind(execution[s][i]) = "queued" => execution[s][i] \in RunsOf(s) /\
                 runs'[execution[s][i]].createdAt = runs[execution[s][i]].createdAt
    BY <1>0, <1>3, <1>4, <1>5 DEF Orderly
  <2>2. CASE s # t
    <3>1. execution'[s] = execution[s]
      BY <1>1, <2>2
    <3> QED
      BY <1>3, <2>1, <3>1 DEF Orderly, InTurn, Session, Kind
  <2>3. CASE s = t
    <3>1. \A i \in 1..Len(execution'[t]) : i \in 1..Len(q) \/ i = Len(q) + 1
      BY <1>2
    <3>2. \A i \in 1..Len(execution'[t]) :
            /\ Session(execution'[t][i]) = t /\ turn'[execution'[t][i]] \notin {"none", "over"}
            /\ i > 1 => turn'[execution'[t][i]] = "waiting"
      <4> SUFFICES ASSUME NEW i \in 1..Len(execution'[t])
                   PROVE  /\ Session(execution'[t][i]) = t /\ turn'[execution'[t][i]] \notin {"none", "over"}
                          /\ i > 1 => turn'[execution'[t][i]] = "waiting"
        OBVIOUS
      <4>1. CASE i \in 1..Len(q)
        BY <1>2, <1>3, <2>1, <2>3, <4>1 DEF Orderly, InTurn
      <4>2. CASE i = Len(q) + 1
        BY <1>0, <1>2, <4>2 DEF InTurn
      <4> QED
        BY <3>1, <4>1, <4>2
    <3>3. \A i, j \in 1..Len(execution'[t]) : i < j =>
            /\ execution'[t][i] # execution'[t][j]
            /\ (Kind(execution'[t][i]) = "queued" /\ Kind(execution'[t][j]) = "queued") =>
                  runs'[execution'[t][i]].createdAt < runs'[execution'[t][j]].createdAt
      <4> SUFFICES ASSUME NEW i \in 1..Len(execution'[t]), NEW j \in 1..Len(execution'[t]), i < j
                   PROVE  /\ execution'[t][i] # execution'[t][j]
                          /\ (Kind(execution'[t][i]) = "queued" /\ Kind(execution'[t][j]) = "queued") =>
                                runs'[execution'[t][i]].createdAt < runs'[execution'[t][j]].createdAt
        OBVIOUS
      <4>1. i \in 1..Len(q)
        BY <1>2, <3>1
      <4>0. /\ execution'[t][i] = q[i] /\ q[i] # c
            /\ Kind(q[i]) = "queued" =>
                  q[i] \in RunsOf(t) /\ runs'[q[i]].createdAt = runs[q[i]].createdAt
        BY <1>2, <2>1, <2>3, <4>1
      <4>2. CASE j \in 1..Len(q)
        <5>1. /\ execution'[t][j] = q[j]
              /\ Kind(q[j]) = "queued" => runs'[q[j]].createdAt = runs[q[j]].createdAt
          BY <1>2, <2>1, <2>3, <4>2
        <5>2. /\ q[i] # q[j]
              /\ (Kind(q[i]) = "queued" /\ Kind(q[j]) = "queued") =>
                    runs[q[i]].createdAt < runs[q[j]].createdAt
          BY <1>0, <1>3, <4>1, <4>2 DEF Orderly
        <5> QED
          BY <4>0, <5>1, <5>2
      <4>3. CASE j = Len(q) + 1
        BY <1>2, <4>0, <4>3
      <4> QED
        BY <3>1, <4>2, <4>3
    <3> QED
      BY <2>3, <3>2, <3>3 DEF Orderly, InTurn, Session, Kind
  <2> QED
    BY <2>2, <2>3
<1>7. TurnsWait'
  <2> SUFFICES ASSUME NEW d \in Calls, InTurn(d)' PROVE InMutex(d)'
    BY DEF TurnsWait
  <2>1. CASE d = c
    BY <1>2, <2>1 DEF InMutex, Session
  <2>2. CASE d # c
    <3>1. InMutex(d) /\ Session(d) \in Sessions
      BY <1>0, <2>2, SessionKnown DEF IInv, TurnsWait, InTurn
    <3>2. PICK i \in 1..Len(execution[Session(d)]) : execution[Session(d)][i] = d
      BY <3>1 DEF InMutex
    <3>3. execution[Session(d)] \in Seq(Calls)
      BY <1>0, <3>1
    <3>4. i \in 1..Len(execution'[Session(d)]) /\ execution'[Session(d)][i] = d
      <4>1. CASE Session(d) = t
        BY <1>2, <3>2, <4>1
      <4>2. CASE Session(d) # t
        BY <1>1, <3>1, <3>2, <4>2
      <4> QED
        BY <4>1, <4>2
    <3>5. Session(d)' = Session(d)
      BY DEF Session
    <3> QED
      BY <3>4, <3>5 DEF InMutex
  <2> QED
    BY <2>1, <2>2
<1> QED
  BY <1>1, <1>6, <1>7 DEF Orderly, MutexHoldsTurns, MutexIsOrdered

\* A turn that has begun holds the mutex.
LEMMA BegunHolds ==
    ASSUME IInv, NEW c \in Calls, InTurn(c), turn[c] # "waiting"
    PROVE  Holds(c, execution)
<1>1. Session(c) \in Sessions /\ execution[Session(c)] \in Seq(Calls)
  BY SessionKnown DEF IInv, TypeOK
<1>2. PICK i \in 1..Len(execution[Session(c)]) : execution[Session(c)][i] = c
  BY DEF IInv, TurnsWait, InMutex
<1>3. ~(i > 1)
  BY <1>1, <1>2 DEF IInv, MutexHoldsTurns
<1>4. i = 1
  BY <1>1, <1>2, <1>3
<1> QED
  BY <1>1, <1>2, <1>4 DEF Holds

\* Leaving it.
LEMMA MutexLeft ==
    ASSUME IInv, UNCHANGED shape, NEW c \in Calls, Holds(c, execution), Writes(c),
           execution' = Exit(c, execution), turn' = [turn EXCEPT ![c] = "over"]
    PROVE  /\ execution' \in [Sessions -> Seq(Calls)]
           /\ MutexHoldsTurns' /\ MutexIsOrdered' /\ TurnsWait'
<1> DEFINE t == Session(c)
           q == execution[t]
<1>0. /\ t \in Sessions /\ execution \in [Sessions -> Seq(Calls)] /\ q \in Seq(Calls)
      /\ turn' [c] = "over" /\ \A d \in Calls : d # c => turn'[d] = turn[d]
  BY SessionKnown DEF IInv, TypeOK
<1>1. q # <<>> /\ q[1] = c
  BY <1>0 DEF Holds
<1>2. /\ execution' \in [Sessions -> Seq(Calls)]
      /\ execution'[t] = Tail(q)
      /\ \A s \in Sessions : s # t => execution'[s] = execution[s]
  BY <1>0, <1>1 DEF Exit
<1>3. /\ Len(q) \in Nat \ {0} /\ Len(execution'[t]) = Len(q) - 1
      /\ \A i \in 1..(Len(q) - 1) : execution'[t][i] = q[i + 1]
      /\ \A i \in 1..Len(q) : q[i] \in Calls
  BY <1>0, <1>1, <1>2
<1>4. \A s \in Sessions : Orderly(execution[s], s)
  BY MutexIsOrderly DEF IInv
<1>5. \A i \in 1..Len(q) : i > 1 => q[i] # c
  <2> SUFFICES ASSUME NEW i \in 1..Len(q), i > 1 PROVE q[i] # q[1]
    BY <1>1
  <2>1. 1 \in 1..Len(q) /\ 1 < i
    BY <1>3
  <2> QED
    BY <1>0, <1>4, <2>1 DEF Orderly
<1>6. \A d \in Calls : InTurn(d) /\ Kind(d) = "queued" => runs'[d].createdAt = runs[d].createdAt
  BY WaitingKeepPlace
<1>7. ASSUME NEW s \in Sessions PROVE Orderly(execution[s], s)'
  <2>1. \A i \in 1..Len(execution[s]) :
           /\ execution[s][i] \in Calls
           /\ Kind(execution[s][i]) = "queued" =>
                 runs'[execution[s][i]].createdAt = runs[execution[s][i]].createdAt
    BY <1>0, <1>4, <1>6 DEF Orderly
  <2>2. CASE s # t
    <3>1. execution'[s] = execution[s]
      BY <1>2, <2>2
    <3>2. \A i \in 1..Len(execution[s]) : execution[s][i] # c
      BY <1>4, <2>2 DEF Orderly
    <3> QED
      BY <1>0, <1>4, <2>1, <3>1, <3>2 DEF Orderly, InTurn, Session, Kind
  <2>3. CASE s = t
    <3>1. \A i \in 1..Len(execution'[t]) :
             i + 1 \in 1..Len(q) /\ i + 1 > 1 /\ execution'[t][i] = q[i + 1] /\ q[i + 1] # c
      BY <1>3, <1>5
    <3>2. \A i \in 1..Len(execution'[t]) :
            /\ Session(execution'[t][i]) = t /\ turn'[execution'[t][i]] \notin {"none", "over"}
            /\ i > 1 => turn'[execution'[t][i]] = "waiting"
      <4> SUFFICES ASSUME NEW i \in 1..Len(execution'[t])
                   PROVE  /\ Session(q[i + 1]) = t /\ turn'[q[i + 1]] \notin {"none", "over"}
                          /\ turn'[q[i + 1]] = "waiting"
        BY <3>1
      <4>1. i + 1 \in 1..Len(q) /\ i + 1 > 1 /\ turn'[q[i + 1]] = turn[q[i + 1]]
        BY <1>0, <1>3, <3>1
      <4> QED
        BY <1>0, <1>4, <4>1 DEF Orderly, InTurn
    <3>3. \A i, j \in 1..Len(execution'[t]) : i < j =>
            /\ execution'[t][i] # execution'[t][j]
            /\ (Kind(execution'[t][i]) = "queued" /\ Kind(execution'[t][j]) = "queued") =>
                  runs'[execution'[t][i]].createdAt < runs'[execution'[t][j]].createdAt
      <4> SUFFICES ASSUME NEW i \in 1..Len(execution'[t]), NEW j \in 1..Len(execution'[t]), i < j
                   PROVE  /\ execution'[t][i] # execution'[t][j]
                          /\ (Kind(execution'[t][i]) = "queued" /\ Kind(execution'[t][j]) = "queued") =>
                                runs'[execution'[t][i]].createdAt < runs'[execution'[t][j]].createdAt
        OBVIOUS
      <4>0. execution'[t][i] = q[i + 1] /\ execution'[t][j] = q[j + 1]
        BY <3>1
      <4>1. i + 1 \in 1..Len(q) /\ j + 1 \in 1..Len(q) /\ i + 1 < j + 1
        BY <1>3, <3>1
      <4>2. /\ q[i + 1] # q[j + 1]
            /\ (Kind(q[i + 1]) = "queued" /\ Kind(q[j + 1]) = "queued") =>
                  runs[q[i + 1]].createdAt < runs[q[j + 1]].createdAt
        BY <1>0, <1>4, <4>1 DEF Orderly
      <4> QED
        BY <2>1, <2>3, <4>0, <4>1, <4>2
    <3> QED
      BY <2>3, <3>2, <3>3 DEF Orderly, InTurn, Session, Kind
  <2> QED
    BY <2>2, <2>3
<1>8. TurnsWait'
  <2> SUFFICES ASSUME NEW d \in Calls, InTurn(d)' PROVE InMutex(d)'
    BY DEF TurnsWait
  <2>1. d # c /\ InTurn(d) /\ Session(d) \in Sessions /\ Session(d)' = Session(d)
    BY <1>0, SessionKnown DEF IInv, InTurn, Session
  <2>2. PICK i \in 1..Len(execution[Session(d)]) : execution[Session(d)][i] = d
    BY <2>1 DEF IInv, TurnsWait, InMutex
  <2>3. CASE Session(d) = t
    <3>1. i - 1 \in 1..Len(execution'[t]) /\ execution'[t][i - 1] = d
      BY <1>1, <1>3, <2>1, <2>2, <2>3
    <3> QED
      BY <2>1, <2>3, <3>1 DEF InMutex
  <2>4. CASE Session(d) # t
    BY <1>2, <2>1, <2>2, <2>4 DEF InMutex
  <2> QED
    BY <2>3, <2>4
<1> QED
  BY <1>2, <1>7, <1>8 DEF Orderly, MutexHoldsTurns, MutexIsOrdered

\* While the mutex stays as it is, only its head may go on.
LEMMA MutexKept ==
    ASSUME IInv, UNCHANGED <<shape, execution>>, NEW c \in Calls, Writes(c),
           \/ UNCHANGED turn
           \/ /\ Holds(c, execution)
              /\ \E step : step \notin {"none", "over"} /\ turn' = [turn EXCEPT ![c] = step]
    PROVE  MutexHoldsTurns' /\ MutexIsOrdered' /\ TurnsWait'
<1>1. execution \in [Sessions -> Seq(Calls)] /\ Session(c) \in Sessions /\ DOMAIN turn = Calls
  BY SessionKnown DEF IInv, TypeOK
<1>2. /\ \A d \in Calls : InTurn(d) <=> InTurn(d)'
      /\ \A d \in Calls : d # c => turn'[d] = turn[d]
      /\ turn'[c] # turn[c] => Holds(c, execution)
  <2>1. CASE UNCHANGED turn
    BY <2>1 DEF InTurn
  <2>2. ASSUME Holds(c, execution), NEW step, step \notin {"none", "over"}, turn' = [turn EXCEPT ![c] = step]
        PROVE  InTurn(c) /\ InTurn(c)' /\ \A d \in Calls : d # c => turn'[d] = turn[d]
    <3>1. 1 \in 1..Len(execution[Session(c)]) /\ execution[Session(c)][1] = c
      BY <1>1, <2>2 DEF Holds
    <3>2. InTurn(c)
      BY <1>1, <3>1 DEF IInv, MutexHoldsTurns
    <3> QED
      BY <1>1, <2>2, <3>2 DEF InTurn
  <2> QED
    BY <2>1, <2>2 DEF InTurn
<1>3. \A d \in Calls : InTurn(d) /\ Kind(d) = "queued" => runs'[d].createdAt = runs[d].createdAt
  BY WaitingKeepPlace
<1>4. ASSUME NEW s \in Sessions, NEW i \in 1..Len(execution[s])
      PROVE  /\ execution[s][i] \in Calls /\ Session(execution[s][i]) = s
             /\ InTurn(execution[s][i]) /\ turn'[execution[s][i]] \notin {"none", "over"}
             /\ i > 1 => turn'[execution[s][i]] = "waiting"
             /\ Kind(execution[s][i]) = "queued" =>
                   runs'[execution[s][i]].createdAt = runs[execution[s][i]].createdAt
  <2> DEFINE e == execution[s][i]
  <2>1. /\ e \in Calls /\ Session(e) = s /\ InTurn(e)
        /\ i > 1 => turn[e] = "waiting"
    BY <1>1, <1>4 DEF IInv, MutexHoldsTurns
  <2>2. turn'[e] \notin {"none", "over"} /\ (Kind(e) = "queued" => runs'[e].createdAt = runs[e].createdAt)
    BY <1>2, <1>3, <2>1 DEF InTurn
  <2>3. i > 1 => ~(e = c /\ Holds(c, execution))
    <3> SUFFICES ASSUME i > 1, e = c, Holds(c, execution) PROVE FALSE
      OBVIOUS
    <3>1. 1 \in 1..Len(execution[s]) /\ execution[s][1] = c /\ 1 < i
      BY <1>1, <2>1 DEF Holds
    <3> QED
      BY <1>4, <3>1 DEF IInv, MutexIsOrdered
  <2> QED
    BY <1>2, <2>1, <2>2, <2>3
<1>5. MutexHoldsTurns'
  BY <1>4 DEF MutexHoldsTurns, InTurn, Session
<1>6. MutexIsOrdered'
  BY <1>4 DEF IInv, MutexIsOrdered, Kind
<1>7. TurnsWait'
  BY <1>2 DEF IInv, TurnsWait, InMutex, Session
<1> QED
  BY <1>5, <1>6, <1>7

-----------------------------------------------------------------------------
(* The steps of a turn. *)

\* A turn that begins without a session, a model or a subscription leaves no
\* unfinished run.
LEMMA FailsEarly ==
    ASSUME TypeOK, NEW c \in Calls, FailEarly(c)
    PROVE  Writes(c) /\ Leave(c) /\ runs'[c].status \notin Unfinished
           /\ (runs[c].status = "absent" => runs' = runs)
<1>1. CASE runs[c].status = "absent"
  BY <1>1 DEF FailEarly, Writes, Unfinished
<1>2. CASE runs[c].status # "absent"
  BY <1>2 DEF FailEarly, Writes, SetStatus, Unfinished, Finished, TypeOK, Run
<1> QED
  BY <1>1, <1>2

\* What a step of a turn does: the turn holds the mutex; it leaves it with its
\* run finished, or goes on with its run in step.
LEMMA TurnMoves ==
    ASSUME IInv, NEW c \in Calls, TurnStep(c)
    PROVE  /\ TurnUnchanged /\ Holds(c, execution) /\ InTurn(c) /\ Writes(c)
           /\ \/ Leave(c) /\ (Ordinary(c) => runs'[c].status \notin Unfinished)
              \/ \E step \in {"context", "submitted", "agent"} :
                   Continue(c, step) /\ runs'[c].status \in Unfinished
              \/ Continue(c, "persist") /\ runs'[c].status \in Finished
           /\ Kind(c) = "queued" => runs[c].status # "absent"
           /\ runs[c].status \in Finished => runs'[c].status \in Finished
<1> DEFINE Goes == \/ Leave(c) /\ (Ordinary(c) => runs'[c].status \notin Unfinished)
                   \/ \E step \in {"context", "submitted", "agent"} :
                        Continue(c, step) /\ runs'[c].status \in Unfinished
                   \/ Continue(c, "persist") /\ runs'[c].status \in Finished
           Effect == /\ Writes(c) /\ Goes
                     /\ runs[c].status \in Finished => runs'[c].status \in Finished
<1>0. /\ runs \in [Calls -> Run] /\ TypeOK
      /\ turn[c] = "waiting" =>
           IF Kind(c) = "queued" THEN runs[c].status \in Unfinished ELSE runs[c].status = "absent"
      /\ turn[c] \in {"context", "submitted", "agent"} => runs[c].status \in Unfinished
      /\ turn[c] = "persist" => runs[c].status \in Finished
  BY DEF IInv, TypeOK, RunsFollowTurns
<1>1. ASSUME NEW status \in Unfinished \cup Finished, runs[c].status # "absent", SetStatus(c, status)
      PROVE  Writes(c) /\ runs'[c].status = status
  BY <1>0, <1>1 DEF Writes, SetStatus, Run
<1>2. CASE TurnBegins(c)
  <2>1. turn[c] = "waiting" /\ Holds(c, execution) /\ Ordinary(c)
    BY <1>2 DEF TurnBegins, Ordinary
  <2>2. ASSUME Kind(c) = "command", UNCHANGED runs, Leave(c) PROVE Effect
    BY <1>0, <2>1, <2>2 DEF Writes, Unfinished
  <2>3. ASSUME Kind(c) # "command", FailEarly(c) PROVE Effect
    BY <1>0, <2>1, <2>3, FailsEarly DEF Unfinished, Finished
  <2>4. ASSUME Kind(c) # "command", Continue(c, "context"),
               runs' = IF runs[c].status = "absent" THEN Created(c, "running") ELSE runs
        PROVE  Effect
    <3>1. CASE runs[c].status = "absent"
      <4>1. runs' = Created(c, "running") /\ "running" \in Unfinished
        BY <2>4, <3>1 DEF Unfinished
      <4>2. UNCHANGED shape
        BY <2>4 DEF Continue, TurnUnchanged, procVars
      <4>3. runs'[c].status = "running"
        BY <1>0, <3>1, <4>1, <4>2, CreatedLast
      <4> QED
        BY <2>4, <3>1, <4>1, <4>3 DEF Writes, Finished
    <3>2. CASE runs[c].status # "absent"
      BY <1>0, <2>1, <2>4, <3>2 DEF Writes
    <3> QED
      BY <3>1, <3>2
  <2>5. Effect
    BY <1>2, <2>2, <2>3, <2>4 DEF TurnBegins
  <2> QED
    BY <1>0, <2>1, <2>5 DEF Leave, Continue, InTurn, Unfinished
<1>3. CASE ScheduledTurnBegins(c)
  <2>1. turn[c] = "waiting" /\ Holds(c, execution) /\ ~Ordinary(c) /\ runs[c].status = "absent"
    BY <1>0, <1>3 DEF ScheduledTurnBegins, Ordinary, Scheduled
  <2>2. ASSUME UNCHANGED runs, Leave(c) PROVE Effect
    BY <2>1, <2>2 DEF Writes, Finished
  <2>3. ASSUME runs' = Created(c, "queued"), Leave(c) \/ Continue(c, "submitted") PROVE Effect
    <3>1. UNCHANGED shape /\ "queued" \in Unfinished
      BY <2>3 DEF Leave, Continue, TurnUnchanged, procVars, Unfinished
    <3>2. runs'[c].status = "queued"
      BY <1>0, <2>1, <2>3, <3>1, CreatedLast
    <3> QED
      BY <2>1, <2>3, <3>1, <3>2 DEF Writes, Finished
  <2>4. Effect
    BY <1>3, <2>2, <2>3 DEF ScheduledTurnBegins
  <2> QED
    BY <1>0, <2>1, <2>4 DEF Leave, Continue, InTurn, ScheduledTurnBegins, Scheduled, Ordinary
<1>4. CASE TurnBuildsContext(c)
  <2>1. turn[c] = "context" /\ runs[c].status \in Unfinished /\ runs[c].status # "absent"
    BY <1>0, <1>4 DEF TurnBuildsContext, Unfinished
  <2>2. Effect
    BY <1>0, <1>4, <2>1, FailsEarly DEF TurnBuildsContext, Writes, Unfinished, Finished
  <2> QED
    BY <2>1, <2>2, BegunHolds DEF Leave, Continue, InTurn
<1>5. CASE TurnStarts(c)
  <2>1. turn[c] = "submitted" /\ runs[c].status \in Unfinished /\ runs[c].status # "absent"
    BY <1>0, <1>5 DEF TurnStarts, Unfinished
  <2>2. Effect
    BY <1>1, <1>5, <2>1 DEF TurnStarts, Unfinished, Finished
  <2> QED
    BY <2>1, <2>2, BegunHolds DEF Leave, Continue, InTurn
<1>6. CASE AgentEnds(c)
  <2>1. turn[c] = "agent" /\ runs[c].status \in Unfinished /\ runs[c].status # "absent"
    BY <1>0, <1>6 DEF AgentEnds, Unfinished
  <2>2. Effect
    BY <1>1, <1>6, <2>1 DEF AgentEnds
  <2> QED
    BY <2>1, <2>2, BegunHolds DEF Leave, Continue, InTurn
<1>7. CASE TurnPersists(c)
  <2>1. turn[c] = "persist" /\ runs[c].status \in Finished /\ runs[c].status # "absent"
    BY <1>0, <1>7 DEF TurnPersists, Finished
  <2>2. Effect
    <3>1. CASE UNCHANGED runs /\ Leave(c)
      BY <2>1, <3>1 DEF Writes, Unfinished, Finished
    <3>2. CASE SetStatus(c, "failed") /\ Leave(c)
      BY <1>1, <2>1, <3>2 DEF Unfinished, Finished
    <3> QED
      BY <1>7, <3>1, <3>2 DEF TurnPersists
  <2> QED
    BY <2>1, <2>2, BegunHolds DEF Leave, Continue, InTurn
<1> QED
  BY <1>2, <1>3, <1>4, <1>5, <1>6, <1>7 DEF TurnStep

-----------------------------------------------------------------------------
(* Every step keeps the invariant. *)

\* Requests stay unique and answers true as long as no run is created for a
\* queued call.
LEMMA RequestsKept ==
    ASSUME IInv, UNCHANGED shape, NEW c \in Calls, Writes(c),
           Kind(c) = "queued" => runs[c].status # "absent" \/ UNCHANGED runs
    PROVE  RequestsAreUnique'
<1>1. \A d \in Calls : Kind(d) = "queued" /\ runs'[d].status # "absent" => runs[d].status # "absent"
  BY WriteKeeps DEF IInv
<1> QED
  BY <1>1 DEF IInv, RequestsAreUnique, Kind, Session

LEMMA AnswersKept ==
    ASSUME IInv, UNCHANGED <<shape, answer>>, NEW c \in Calls, Writes(c)
    PROVE  AnswersAreRuns'
<1>1. \A s : RunsOf(s) \subseteq RunsOf(s)'
  BY WriteKeeps DEF IInv, RunsOf, Session
<1>2. \A d \in Calls : Session(d)' = Session(d) /\ Kind(d)' = Kind(d)
  BY DEF Session, Kind
<1> QED
  BY <1>1, <1>2 DEF IInv, TypeOK, AnswersAreRuns, RunsOf, Kind

LEMMA TurnStepKeeps == ASSUME IInv, NEW c \in Calls, TurnStep(c) PROVE IInv'
<1> DEFINE Goes == \/ Leave(c) /\ (Ordinary(c) => runs'[c].status \notin Unfinished)
                   \/ \E step \in {"context", "submitted", "agent"} :
                        Continue(c, step) /\ runs'[c].status \in Unfinished
                   \/ Continue(c, "persist") /\ runs'[c].status \in Finished
<1>1. /\ UNCHANGED <<shape, phase, boots, stale, admission, answer, cancelling>>
      /\ Holds(c, execution) /\ InTurn(c) /\ Writes(c) /\ Goes
      /\ Kind(c) = "queued" => runs[c].status # "absent"
  BY TurnMoves DEF TurnUnchanged, procVars
<1>2. Serving
  BY <1>1 DEF IInv, CallsFollowTurns
<1>3. /\ runs' \in [Calls -> Run]
      /\ \A d \in Calls : d # c => runs'[d] = runs[d]
      /\ \A d \in Calls : runs'[d].createdAt <= Cardinality(RunsOf(Session(d)))'
  BY <1>1, WriteKeeps DEF IInv
<1>4. /\ execution' \in [Sessions -> Seq(Calls)]
      /\ MutexHoldsTurns' /\ MutexIsOrdered' /\ TurnsWait'
  <2>1. CASE Leave(c)
    BY <1>1, <2>1, MutexLeft DEF Leave
  <2>2. ASSUME NEW step \in {"context", "submitted", "agent", "persist"}, Continue(c, step)
        PROVE  execution' \in [Sessions -> Seq(Calls)] /\ MutexHoldsTurns' /\ MutexIsOrdered' /\ TurnsWait'
    <3>1. step \notin {"none", "over"} /\ turn' = [turn EXCEPT ![c] = step] /\ UNCHANGED execution
      BY <2>2 DEF Continue
    <3>2. MutexHoldsTurns' /\ MutexIsOrdered' /\ TurnsWait'
      BY <1>1, <3>1, MutexKept
    <3> QED
      BY <3>1, <3>2 DEF IInv, TypeOK
  <2> QED
    BY <1>1, <2>1, <2>2
<1>5. /\ turn' \in [Calls -> {"none", "waiting", "context", "submitted", "agent", "persist", "over"}]
      /\ call' \in [Calls -> {"new", "admitting", "waiting", "answered", "lost"}]
      /\ \A d \in Calls : d # c => turn'[d] = turn[d] /\ call'[d] = call[d]
      /\ call'[c] \in {call[c], "answered"}
      /\ turn'[c] # "waiting" /\ turn'[c] # "none"
      /\ (turn'[c] = "over" /\ Ordinary(c)) => runs'[c].status \notin Unfinished
      /\ turn'[c] \in {"context", "submitted", "agent"} => runs'[c].status \in Unfinished
      /\ turn'[c] = "persist" => runs'[c].status \in Finished
  <2>0. TypeOK
    BY DEF IInv
  <2>1. CASE Leave(c) /\ (Ordinary(c) => runs'[c].status \notin Unfinished)
    BY <2>0, <2>1 DEF Leave, TypeOK
  <2>2. ASSUME NEW step \in {"context", "submitted", "agent"}, Continue(c, step), runs'[c].status \in Unfinished
        PROVE  turn' = [turn EXCEPT ![c] = step] /\ call' = call
    BY <2>2 DEF Continue
  <2>3. CASE Continue(c, "persist") /\ runs'[c].status \in Finished
    BY <2>0, <2>3 DEF Continue, TypeOK
  <2> QED
    BY <1>1, <2>0, <2>1, <2>2, <2>3 DEF TypeOK
<1>6. TypeOK'
  BY <1>1, <1>3, <1>4, <1>5 DEF IInv, TypeOK
<1>7. CallsFollowTurns'
  <2>1. call[c] \notin {"new", "admitting"}
    BY <1>1 DEF IInv, CallsFollowTurns, InTurn
  <2> QED
    BY <1>1, <1>2, <1>3, <1>5, <2>1 DEF IInv, CallsFollowTurns, Serving, Kind
<1>8. RunsFollowTurns'
  BY <1>1, <1>3, <1>5 DEF IInv, RunsFollowTurns, Kind
<1>9. NoRunIsForgotten'
  BY <1>1, <1>2, <1>3, <1>5 DEF IInv, NoRunIsForgotten, Serving, InTurn, Ordinary, Scheduled, Kind
<1>10. RequestsAreUnique' /\ AnswersAreRuns'
  BY <1>1, RequestsKept, AnswersKept
<1> QED
  BY <1>4, <1>6, <1>7, <1>8, <1>9, <1>10 DEF IInv

LEMMA ArrivalKeeps == ASSUME IInv, NEW c \in Calls, CallArrives(c) PROVE IInv'
<1>1. /\ UNCHANGED <<shape, phase, boots, stale, runs, answer, cancelling>> /\ Writes(c)
      /\ Serving /\ call[c] = "new" /\ runs[c].status = "absent" /\ turn[c] = "none" /\ answer[c] = NoCall
      /\ TypeOK /\ Session(c) \in Sessions
  BY SessionKnown DEF CallArrives, procVars, Writes, IInv, CallsFollowTurns
<1>2. RequestsAreUnique' /\ AnswersAreRuns'
  BY <1>1, RequestsKept, AnswersKept
<1>3. \A d \in Calls : runs'[d].createdAt <= Cardinality(RunsOf(Session(d)))'
  BY <1>1, WriteKeeps
<1>4. CASE Kind(c) = "queued"
  <2>1. /\ admission' = Enter(c, admission) /\ call' = [call EXCEPT ![c] = "admitting"]
        /\ UNCHANGED <<execution, turn>>
    BY <1>4 DEF CallArrives
  <2>2. MutexHoldsTurns' /\ MutexIsOrdered' /\ TurnsWait'
    BY <1>1, <2>1, MutexKept
  <2>3. TypeOK'
    BY <1>1, <1>3, <2>1 DEF TypeOK, Enter
  <2>4. CallsFollowTurns'
    BY <1>1, <1>4, <2>1 DEF IInv, CallsFollowTurns, TypeOK, Serving, InTurn, Kind
  <2>5. RunsFollowTurns' /\ NoRunIsForgotten'
    BY <1>1, <2>1 DEF IInv, RunsFollowTurns, NoRunIsForgotten, Serving, InTurn, Ordinary, Scheduled, Kind
  <2> QED
    BY <1>2, <2>2, <2>3, <2>4, <2>5 DEF IInv
<1>5. CASE Kind(c) # "queued"
  <2>1. /\ execution' = Enter(c, execution) /\ call' = [call EXCEPT ![c] = "waiting"]
        /\ turn' = [turn EXCEPT ![c] = "waiting"] /\ UNCHANGED admission
    BY <1>5 DEF CallArrives
  <2>2. /\ execution' \in [Sessions -> Seq(Calls)]
        /\ MutexHoldsTurns' /\ MutexIsOrdered' /\ TurnsWait'
    BY <1>1, <1>5, <2>1, MutexEntered DEF InTurn
  <2>3. TypeOK'
    BY <1>1, <1>3, <2>1, <2>2 DEF TypeOK
  <2>4. CallsFollowTurns'
    BY <1>1, <1>5, <2>1 DEF IInv, CallsFollowTurns, TypeOK, Serving, InTurn, Kind
  <2>5. RunsFollowTurns' /\ NoRunIsForgotten'
    BY <1>1, <1>5, <2>1 DEF IInv, TypeOK, RunsFollowTurns, NoRunIsForgotten, Serving, InTurn, Ordinary, Scheduled, Kind
  <2> QED
    BY <1>2, <2>2, <2>3, <2>4, <2>5 DEF IInv
<1> QED
  BY <1>4, <1>5

\* A call that leaves the admission with an answer, its run untouched.
LEMMA AnswerKeeps ==
    ASSUME IInv, NEW c \in Calls, call[c] = "admitting", Holds(c, admission),
           NEW run \in Calls \cup {NoCall}, Answered(c, run), admission' = Exit(c, admission),
           UNCHANGED <<procVars, runs, execution, turn, cancelling>>,
           run # NoCall => run \in SameRequest(c)
    PROVE  IInv'
<1>1. /\ UNCHANGED <<shape, phase, boots, stale, runs, execution, turn, cancelling>> /\ Writes(c)
      /\ TypeOK /\ Session(c) \in Sessions
      /\ call' = [call EXCEPT ![c] = "answered"] /\ answer' = [answer EXCEPT ![c] = run]
  BY SessionKnown DEF procVars, Writes, IInv, Answered
<1>2. \A d \in Calls : runs'[d].createdAt <= Cardinality(RunsOf(Session(d)))'
  BY <1>1, WriteKeeps
<1>3. TypeOK'
  <2>1. admission[Session(c)] \in Seq(Calls) /\ admission[Session(c)] # <<>>
    BY <1>1 DEF TypeOK, Holds
  <2>2. admission' \in [Sessions -> Seq(Calls)]
    BY <1>1, <2>1 DEF TypeOK, Exit
  <2> QED
    BY <1>1, <1>2, <2>2 DEF TypeOK
<1>4. MutexHoldsTurns' /\ MutexIsOrdered' /\ TurnsWait'
  BY <1>1, MutexKept
<1>5. CallsFollowTurns'
  BY <1>1 DEF IInv, CallsFollowTurns, TypeOK, Serving, InTurn, Kind
<1>6. RunsFollowTurns' /\ NoRunIsForgotten'
  BY <1>1 DEF IInv, RunsFollowTurns, NoRunIsForgotten, Serving, InTurn, Ordinary, Scheduled, Kind
<1>7. RequestsAreUnique'
  BY <1>1, RequestsKept
<1>8. AnswersAreRuns'
  BY <1>1 DEF IInv, TypeOK, AnswersAreRuns, SameRequest, RunsOf, Kind, Session
<1> QED
  BY <1>3, <1>4, <1>5, <1>6, <1>7, <1>8 DEF IInv

LEMMA AdmitKeeps == ASSUME IInv, NEW c \in Calls, Admit(c) PROVE IInv'
<1>1. /\ UNCHANGED <<shape, phase, boots, stale, cancelling>> /\ SameRequest(c) = {}
      /\ runs' = Created(c, "queued") /\ execution' = Enter(c, execution)
      /\ turn' = [turn EXCEPT ![c] = "waiting"] /\ admission' = Exit(c, admission)
      /\ call' = [call EXCEPT ![c] = "answered"] /\ answer' = [answer EXCEPT ![c] = c]
      /\ call[c] = "admitting" /\ Holds(c, admission)
  BY DEF Admit, Answered, procVars
<1>2. /\ TypeOK /\ Session(c) \in Sessions /\ Kind(c) = "queued" /\ runs[c].status = "absent"
      /\ Serving /\ ~InTurn(c) /\ "queued" \in Unfinished
  BY <1>1, SessionKnown DEF IInv, CallsFollowTurns, InTurn, Unfinished
<1>3. /\ runs' \in [Calls -> Run] /\ runs'[c].status = "queued"
      /\ \A d \in Calls : d # c => runs'[d] = runs[d]
      /\ \A d \in Calls : runs'[d].createdAt <= Cardinality(RunsOf(Session(d)))'
      /\ \A d \in RunsOf(Session(c)) : runs[d].createdAt < runs'[c].createdAt
  BY <1>1, <1>2, CreatedLast
<1>4. Writes(c)
  BY <1>1, <1>2 DEF Writes
<1>5. /\ execution' \in [Sessions -> Seq(Calls)]
      /\ MutexHoldsTurns' /\ MutexIsOrdered' /\ TurnsWait'
  BY <1>1, <1>2, <1>3, <1>4, MutexEntered
<1>6. TypeOK'
  <2>1. admission[Session(c)] \in Seq(Calls) /\ admission[Session(c)] # <<>>
    BY <1>1, <1>2 DEF TypeOK, Holds
  <2>2. admission' \in [Sessions -> Seq(Calls)]
    BY <1>1, <1>2, <2>1 DEF TypeOK, Exit
  <2> QED
    BY <1>1, <1>2, <1>3, <1>5, <2>2 DEF TypeOK
<1>7. CallsFollowTurns'
  BY <1>1, <1>2, <1>3 DEF IInv, TypeOK, CallsFollowTurns, Serving, InTurn, Kind
<1>8. RunsFollowTurns' /\ NoRunIsForgotten'
  BY <1>1, <1>2, <1>3 DEF IInv, TypeOK, RunsFollowTurns, NoRunIsForgotten, Serving, InTurn, Ordinary, Scheduled, Kind
<1>9. RequestsAreUnique'
  <2>1. \A d \in Calls :
          (/\ d # c /\ Kind(d) = "queued" /\ runs'[d].status # "absent" /\ Session(d) = Session(c)
           /\ shape[c].request # NoRequest) => shape[d].request # shape[c].request
    BY <1>1, <1>3 DEF SameRequest, RunsOf
  <2>2. \A d, e \in Calls :
          (/\ d # c /\ e # c /\ Kind(d) = "queued" /\ Kind(e) = "queued"
           /\ runs'[d].status # "absent" /\ runs'[e].status # "absent" /\ Session(d) = Session(e)
           /\ shape[d].request # NoRequest /\ shape[d].request = shape[e].request) => d = e
    BY <1>3 DEF IInv, RequestsAreUnique
  <2> QED
    BY <1>1, <2>1, <2>2 DEF RequestsAreUnique, Kind, Session
<1>10. AnswersAreRuns'
  BY <1>1, <1>2, <1>3 DEF IInv, TypeOK, AnswersAreRuns, RunsOf, Kind, Session
<1> QED
  BY <1>5, <1>6, <1>7, <1>8, <1>9, <1>10 DEF IInv

LEMMA CallStepKeeps == ASSUME IInv, NEW c \in Calls, CallStep(c) PROVE IInv'
<1>1. CASE AnswerRetry(c)
  <2>1. PICK d \in SameRequest(c) : Answered(c, IF shape[d].text = shape[c].text THEN d ELSE NoCall)
    BY <1>1 DEF AnswerRetry
  <2>2. SameRequest(c) \subseteq Calls
    BY DEF SameRequest, RunsOf
  <2> QED
    BY <1>1, <2>1, <2>2, AnswerKeeps DEF AnswerRetry
<1>2. CASE AdmissionFails(c)
  BY <1>2, AnswerKeeps DEF AdmissionFails
<1> QED
  BY <1>1, <1>2, ArrivalKeeps, AdmitKeeps DEF CallStep

\* Cancellation flags a run; recovery, the start and the end of the process.
LEMMA CancelKeeps ==
    ASSUME IInv, NEW c \in Calls, CancelRequested(c) \/ CancelAccepted(c) PROVE IInv'
<1>1. /\ UNCHANGED <<shape, phase, boots, stale, admission, call, answer, execution, turn>>
      /\ cancelling' \subseteq cancelling \cup {c}
      /\ Writes(c) /\ \A d \in Calls : runs'[d].status = runs[d].status
  <2>1. CASE CancelRequested(c)
    BY <2>1 DEF CancelRequested, Writes, procVars, callVars
  <2>2. CASE CancelAccepted(c)
    <3>1. runs \in [Calls -> Run] /\ runs' = [runs EXCEPT ![c].cancelRequested = TRUE]
      BY <2>2 DEF CancelAccepted, IInv, TypeOK
    <3>2. \A d \in Calls : runs'[d].status = runs[d].status
      BY <3>1 DEF Run
    <3> QED
      BY <2>2, <3>1, <3>2 DEF CancelAccepted, Writes, procVars, callVars
  <2> QED
    BY <2>1, <2>2
<1>2. TypeOK'
  BY <1>1, WriteKeeps DEF IInv, TypeOK
<1>3. MutexHoldsTurns' /\ MutexIsOrdered' /\ TurnsWait'
  BY <1>1, MutexKept
<1>4. CallsFollowTurns' /\ RunsFollowTurns' /\ NoRunIsForgotten' /\ RequestsAreUnique'
  BY <1>1 DEF IInv, CallsFollowTurns, RunsFollowTurns, NoRunIsForgotten, RequestsAreUnique,
     Serving, InTurn, Ordinary, Scheduled, Kind, Session
<1> QED
  BY <1>1, <1>2, <1>3, <1>4, AnswersKept DEF IInv

LEMMA RecoverKeeps == ASSUME IInv, NEW c \in Calls, Recover(c) PROVE IInv'
<1>1. /\ UNCHANGED <<shape, phase, boots, cancelling, admission, call, answer, execution, turn>>
      /\ c \in stale /\ stale' = stale \ {c}
  BY DEF Recover, callVars
<1>2. /\ Writes(c) /\ (runs'[c].status = "absent" <=> runs[c].status = "absent")
      /\ Ordinary(c) => runs'[c].status \notin Unfinished
  <2>1. CASE ~Scheduled(c) /\ runs[c].status \in Unfinished
    BY <2>1 DEF Recover, SetStatus, Writes, Unfinished, Finished, IInv, TypeOK, Run
  <2>2. CASE ~(~Scheduled(c) /\ runs[c].status \in Unfinished)
    BY <2>2 DEF Recover, Writes, Ordinary
  <2> QED
    BY <2>1, <2>2
<1>3. /\ runs' \in [Calls -> Run]
      /\ \A d \in Calls : d # c => runs'[d] = runs[d]
      /\ \A d \in Calls : runs'[d].createdAt <= Cardinality(RunsOf(Session(d)))'
  BY <1>1, <1>2, WriteKeeps DEF IInv
<1>4. ~Serving /\ \A d \in Calls : turn[d] \in {"none", "over"} /\ call[d] # "admitting"
  BY <1>1 DEF IInv, NoRunIsForgotten, CallsFollowTurns, Serving, InTurn
<1>5. TypeOK'
  BY <1>1, <1>3 DEF IInv, TypeOK
<1>6. MutexHoldsTurns' /\ MutexIsOrdered' /\ TurnsWait'
  BY <1>1, <1>2, MutexKept
<1>7. CallsFollowTurns' /\ RunsFollowTurns'
  BY <1>1, <1>2, <1>3, <1>4 DEF IInv, CallsFollowTurns, RunsFollowTurns, Serving, InTurn, Kind
<1>8. NoRunIsForgotten'
  BY <1>1, <1>2, <1>3, <1>4 DEF IInv, NoRunIsForgotten, Serving, InTurn, Ordinary, Scheduled, Kind
<1>9. RequestsAreUnique'
  BY <1>1, <1>2, <1>3 DEF IInv, RequestsAreUnique, Kind, Session
<1> QED
  BY <1>1, <1>2, <1>5, <1>6, <1>7, <1>8, <1>9, AnswersKept DEF IInv

LEMMA StartKeeps == ASSUME IInv, Boot \/ Serve PROVE IInv'
<1>1. UNCHANGED <<shape, runs, admission, call, answer, execution, turn, cancelling>>
  BY DEF Boot, Serve, callVars
<1>2. phase' # phase /\ ~Serving /\ stale' \subseteq Calls /\ boots' \in 0..MaxBoots
      /\ phase' \in {"recovering", "serving"} /\ (phase' = "serving" => stale' = {} /\ stale = {} /\ phase = "recovering")
      /\ (phase' = "recovering" => stale' = {c \in Calls : runs[c].status # "absent"})
  BY ChatConstants DEF Boot, Serve, Serving, IInv, TypeOK
<1>3. \A c \in Calls : runs'[c].createdAt <= Cardinality(RunsOf(Session(c)))'
  BY <1>1 DEF IInv, TypeOK, RunsOf, Session
<1>4. TypeOK'
  BY <1>1, <1>2, <1>3 DEF IInv, TypeOK
<1>5. /\ RunsFollowTurns' /\ MutexHoldsTurns' /\ MutexIsOrdered' /\ TurnsWait'
      /\ RequestsAreUnique' /\ AnswersAreRuns'
  BY <1>1 DEF IInv, RunsFollowTurns, MutexHoldsTurns, MutexIsOrdered, TurnsWait, RequestsAreUnique,
     AnswersAreRuns, InTurn, InMutex, Kind, Session, RunsOf
<1>6. CallsFollowTurns'
  BY <1>1, <1>2 DEF IInv, CallsFollowTurns, Serving, InTurn, Kind
<1>7. NoRunIsForgotten'
  BY <1>1, <1>2 DEF IInv, NoRunIsForgotten, Serving, InTurn, Ordinary, Scheduled, Kind, Unfinished
<1> QED
  BY <1>4, <1>5, <1>6, <1>7 DEF IInv

LEMMA CrashKeeps == ASSUME IInv, Crash PROVE IInv'
<1>1. /\ UNCHANGED <<shape, boots, runs, answer>> /\ phase' = "down" /\ stale' = {} /\ cancelling' = {}
      /\ admission' = [s \in Sessions |-> <<>>] /\ execution' = [s \in Sessions |-> <<>>]
      /\ call' = [c \in Calls |-> IF call[c] \in {"admitting", "waiting"} THEN "lost" ELSE call[c]]
      /\ turn' = [c \in Calls |-> IF turn[c] = "none" THEN "none" ELSE "over"]
  BY DEF Crash
<1>2. Sessions' = Sessions /\ \A c \in Calls : runs'[c].createdAt <= Cardinality(RunsOf(Session(c)))'
  BY <1>1 DEF IInv, TypeOK, RunsOf, Session, Sessions
<1>3. TypeOK'
  <2>1. <<>> \in Seq(Calls)
    OBVIOUS
  <2> QED
    BY <1>1, <1>2, <2>1 DEF IInv, TypeOK
<1>4. CallsFollowTurns' /\ RunsFollowTurns' /\ NoRunIsForgotten'
  BY <1>1 DEF IInv, TypeOK, CallsFollowTurns, RunsFollowTurns, NoRunIsForgotten, Serving, InTurn, Kind
<1>5. MutexHoldsTurns' /\ MutexIsOrdered' /\ TurnsWait'
  BY <1>1 DEF MutexHoldsTurns, MutexIsOrdered, TurnsWait, InTurn
<1>6. RequestsAreUnique' /\ AnswersAreRuns'
  BY <1>1 DEF IInv, RequestsAreUnique, AnswersAreRuns, Kind, Session, RunsOf
<1> QED
  BY <1>3, <1>4, <1>5, <1>6 DEF IInv

LEMMA InitHolds == ASSUME Init PROVE IInv
<1>1. /\ phase = "down" /\ stale = {} /\ \A c \in Calls : runs[c].status = "absent" /\ turn[c] = "none"
                                                  /\ call[c] = "new" /\ answer[c] = NoCall
      /\ \A s \in Sessions : execution[s] = <<>>
  BY DEF Init
<1>2. TypeOK
  <2>1. /\ <<>> \in Seq(Calls) /\ Cardinality(Calls) \in Nat
        /\ \A s : Cardinality(RunsOf(s)) \in Nat
    <3>1. \A s : RunsOf(s) \subseteq Calls
      BY DEF RunsOf
    <3> QED
      BY <3>1, SomeCalls
  <2>2. [status |-> "absent", createdAt |-> 0, cancelRequested |-> FALSE] \in Run
    BY <2>1 DEF Run, RunStatuses
  <2> QED
    BY <2>1, <2>2, ChatConstants DEF Init, TypeOK
<1>3. CallsFollowTurns /\ RunsFollowTurns /\ TurnsWait /\ NoRunIsForgotten /\ RequestsAreUnique /\ AnswersAreRuns
  BY <1>1 DEF CallsFollowTurns, RunsFollowTurns, TurnsWait, NoRunIsForgotten, RequestsAreUnique, AnswersAreRuns,
     InTurn, Serving, Unfinished
<1>4. MutexHoldsTurns /\ MutexIsOrdered
  BY <1>1 DEF MutexHoldsTurns, MutexIsOrdered
<1> QED
  BY <1>2, <1>3, <1>4 DEF IInv

LEMMA StepHolds == ASSUME IInv, [Next]_vars PROVE IInv'
<1>1. CASE UNCHANGED vars
  <2>1. UNCHANGED <<shape, phase, boots, stale, runs, admission, call, answer, execution, turn, cancelling>>
    BY <1>1 DEF vars, procVars, callVars
  <2>2. TypeOK'
    BY <2>1 DEF IInv, TypeOK, RunsOf, Session
  <2> QED
    BY <2>1, <2>2 DEF IInv, CallsFollowTurns, RunsFollowTurns, MutexHoldsTurns, MutexIsOrdered, TurnsWait,
       NoRunIsForgotten, RequestsAreUnique, AnswersAreRuns, Serving, InTurn, InMutex, Ordinary, Scheduled,
       Kind, Session, RunsOf
<1> QED
  BY <1>1, StartKeeps, CrashKeeps, CallStepKeeps, TurnStepKeeps, CancelKeeps, RecoverKeeps DEF Next

-----------------------------------------------------------------------------
(* The theorems. *)

\* Every reachable state satisfies the inductive invariant.
THEOREM InvariantHolds == Spec => []IInv
<1>1. Init => IInv
  BY InitHolds
<1>2. IInv /\ [Next]_vars => IInv'
  BY StepHolds
<1> QED
  BY <1>1, <1>2, PTL DEF Spec

\* Every variable of the conversation's turns has its type, and the runs of a
\* session are numbered within their count.
THEOREM TypesHold == Spec => []TypeOK
<1>1. IInv => TypeOK
  BY DEF IInv
<1> QED
  BY <1>1, InvariantHolds, PTL

\* handleTurn: a request id has one run, over concurrent retries, crashes and
\* restarts, and every answer names it.
THEOREM RequestsRunOnce == Spec => []OneRunPerRequest
<1>1. ASSUME IInv PROVE OneRunPerRequest
  <2> SUFFICES ASSUME NEW c \in Calls, NEW d \in Calls, answer[c] # NoCall, answer[d] # NoCall,
                      shape[c].request # NoRequest, Session(c) = Session(d), shape[c].request = shape[d].request
               PROVE  answer[c] = answer[d] /\ runs[answer[c]].status # "absent"
    BY DEF OneRunPerRequest
  <2>1. /\ answer[c] \in RunsOf(Session(c)) /\ Kind(answer[c]) = "queued" /\ shape[answer[c]].request = shape[c].request
        /\ answer[d] \in RunsOf(Session(c)) /\ Kind(answer[d]) = "queued" /\ shape[answer[d]].request = shape[c].request
    BY <1>1 DEF IInv, AnswersAreRuns
  <2>2. /\ answer[c] \in Calls /\ Session(answer[c]) = Session(c) /\ runs[answer[c]].status # "absent"
        /\ answer[d] \in Calls /\ Session(answer[d]) = Session(c) /\ runs[answer[d]].status # "absent"
    BY <2>1 DEF RunsOf
  <2> QED
    BY <1>1, <2>1, <2>2 DEF IInv, RequestsAreUnique
<1> QED
  BY <1>1, InvariantHolds, PTL

\* While the server serves, every unfinished ordinary run has a turn in the
\* execution mutex of its session.
THEOREM RunsHaveTurns == Spec => []UnfinishedRunHasATurn
<1>1. IInv => UnfinishedRunHasATurn
  BY DEF IInv, NoRunIsForgotten, TurnsWait, InMutex, InTurn, Ordinary, UnfinishedRunHasATurn
<1> QED
  BY <1>1, InvariantHolds, PTL

\* buildSessionContext of a queued turn finds every earlier queued run of the
\* session finished.
THEOREM PredecessorsSeen == Spec => []ContextSeesPredecessors
<1>1. ASSUME IInv PROVE ContextSeesPredecessors
  <2> SUFFICES ASSUME NEW c \in Calls, NEW d \in Calls, turn[c] \in {"context", "submitted", "agent"},
                      Kind(c) = "queued", Kind(d) = "queued", Session(c) = Session(d),
                      runs[d].status # "absent", runs[d].createdAt < runs[c].createdAt,
                      runs[d].status \notin Finished
               PROVE  FALSE
    BY DEF ContextSeesPredecessors
  <2>0. /\ Session(c) \in Sessions /\ execution[Session(c)] \in Seq(Calls)
        /\ runs[c].createdAt \in Nat /\ runs[d].createdAt \in Nat
    BY <1>1, SessionKnown DEF IInv, TypeOK, Run
  <2>1. Serving /\ Holds(c, execution)
    BY <1>1, BegunHolds DEF IInv, CallsFollowTurns, InTurn
  <2>2. runs[d].status \in Unfinished /\ Ordinary(d)
    BY <1>1 DEF IInv, TypeOK, Run, RunStatuses, Ordinary, Scheduled
  <2>3. InMutex(d)
    BY <1>1, <2>1, <2>2 DEF IInv, NoRunIsForgotten, TurnsWait
  <2>4. PICK i \in 1..Len(execution[Session(c)]) : execution[Session(c)][i] = d
    BY <2>3 DEF InMutex
  <2>5. 1 \in 1..Len(execution[Session(c)]) /\ execution[Session(c)][1] = c
    BY <2>0, <2>1 DEF Holds
  <2>6. CASE i = 1
    BY <2>0, <2>4, <2>5, <2>6
  <2>7. CASE 1 < i
    <3>1. runs[c].createdAt < runs[d].createdAt
      BY <1>1, <2>0, <2>4, <2>5, <2>7 DEF IInv, MutexIsOrdered
    <3> QED
      BY <2>0, <3>1
  <2> QED
    BY <2>0, <2>4, <2>6, <2>7
<1> QED
  BY <1>1, InvariantHolds, PTL

\* No retry, recovery, cancellation or late failure takes a finished run up
\* again.
THEOREM FinishedRunsStay == Spec => FinishedStaysFinished
<1> DEFINE Stays == \A c \in Calls : runs[c].status \in Finished => runs'[c].status \in Finished
<1>1. ASSUME IInv, [Next]_vars PROVE Stays
  <2>1. ASSUME NEW c \in Calls, TurnStep(c) PROVE Stays
    BY <1>1, <2>1, TurnMoves, WriteKeeps DEF IInv, TurnUnchanged, procVars
  <2>2. ASSUME NEW c \in Calls, CallStep(c) PROVE Stays
    <3>1. CASE Admit(c)
      <4>1. UNCHANGED shape /\ runs' = Created(c, "queued") /\ runs[c].status = "absent" /\ "queued" \in Unfinished
        BY <1>1, <3>1 DEF Admit, procVars, IInv, CallsFollowTurns, Unfinished
      <4>2. \A d \in Calls : d # c => runs'[d] = runs[d]
        BY <1>1, <4>1, CreatedLast DEF IInv
      <4> QED
        BY <4>1, <4>2 DEF Finished
    <3>2. CASE ~Admit(c)
      BY <2>2, <3>2 DEF CallStep, CallArrives, AnswerRetry, AdmissionFails
    <3> QED
      BY <3>1, <3>2
  <2>3. ASSUME NEW c \in Calls, CancelAccepted(c) PROVE Stays
    BY <1>1, <2>3 DEF CancelAccepted, IInv, TypeOK, Run
  <2>4. ASSUME NEW c \in Calls, Recover(c) PROVE Stays
    BY <1>1, <2>4 DEF Recover, SetStatus, IInv, TypeOK, Run, Finished, Unfinished
  <2>5. CASE Boot \/ Serve \/ Crash \/ (\E c \in Calls : CancelRequested(c)) \/ UNCHANGED vars
    BY <2>5 DEF Boot, Serve, Crash, CancelRequested, vars
  <2> QED
    BY <1>1, <2>1, <2>2, <2>3, <2>4, <2>5 DEF Next
<1>2. IInv /\ [Next]_vars => [Stays]_vars
  BY <1>1
<1> QED
  BY <1>2, InvariantHolds, PTL DEF Spec, FinishedStaysFinished
=============================================================================
