-------------------------- MODULE ServerPartsProofs --------------------------
(***************************************************************************)
(* Parts of the gateway, for all their constants.  For any finite set of   *)
(* sessions, any ops and any number of slots, each session has at most one *)
(* drain loop, and has one while it has ops (ThreadRuntime).  The lock of  *)
(* the workspace stays with the gateway that owns it (PidLock), what       *)
(* serves holds it, and no child outlives its gateway (ServerProcess).     *)
(* The lock of the task file keeps what was acknowledged (StoreLock), and  *)
(* so does the buffer of run events (RunEventChannel); agent events that   *)
(* were answered were routed (AgentEvents).  What runs was approved, tools *)
(* (ToolApprovals) and extensions (Extensions), and requests stay within   *)
(* their limit (RateLimit).  Every variable of every part has its type.      *)
(* The last section puts the parts together.                               *)
(***************************************************************************)
EXTENDS ServerFilesProofs

-----------------------------------------------------------------------------
(* Drain loops: the inductive invariant. *)

LoopState == [pc : LoopSteps, op : Ops]

\* The backlog names the sessions whose loop waits, each once.
Lists(waiting, steps) ==
    /\ \A i, j \in 1..Len(waiting) : waiting[i] = waiting[j] => i = j
    /\ \A s \in Sessions : steps[s].pc = "waiting" <=> \E i \in 1..Len(waiting) : waiting[i] = s

\* The sessions whose loop has a slot.
Started(steps) == {s \in Sessions : steps[s].pc \notin {"off", "waiting"}}

\* The flag, the queue and the loop of a session.
FlagsFitLoops ==
    \A s \in Sessions :
        /\ s \in processing <=> loop[s].pc # "off"
        /\ queue[s] # <<>> => s \in processing

\* The slots are those of the loops that run and of the tasks that just ended.
SlotsFitLoops ==
    /\ active = ended + Cardinality(Started(loop))
    /\ backlog # <<>> => active = Concurrency

IInv == TypeOK /\ Lists(backlog, loop) /\ FlagsFitLoops /\ SlotsFitLoops

-----------------------------------------------------------------------------
(* Lemmas about the pool. *)

\* A loop that takes a slot, or gives one back, changes their count by one.
LEMMA StartedCounts ==
    ASSUME ThreadConstants, NEW steps, NEW s \in Sessions, NEW after,
           \A x \in Sessions \ {s} : after[x] = steps[x]
    PROVE  /\ Cardinality(Started(steps)) \in Nat
           /\ s \notin Started(steps) /\ s \in Started(after)
                => Cardinality(Started(after)) = Cardinality(Started(steps)) + 1
           /\ s \in Started(steps) /\ s \notin Started(after)
                => Cardinality(Started(after)) = Cardinality(Started(steps)) - 1
           /\ (s \in Started(steps)) = (s \in Started(after)) => Started(after) = Started(steps)
<1>1. IsFiniteSet(Started(steps)) /\ Cardinality(Started(steps)) \in Nat
    BY FS_Subset, FS_CardinalityType DEF Started, ThreadConstants
<1>2. /\ s \in Started(after) => Started(after) = Started(steps) \cup {s}
      /\ s \notin Started(after) => Started(after) = Started(steps) \ {s}
    BY DEF Started
<1>3. /\ Cardinality(Started(steps) \cup {s})
           = IF s \in Started(steps) THEN Cardinality(Started(steps)) ELSE Cardinality(Started(steps)) + 1
      /\ Cardinality(Started(steps) \ {s})
           = IF s \in Started(steps) THEN Cardinality(Started(steps)) - 1 ELSE Cardinality(Started(steps))
    BY <1>1, FS_AddElement, FS_RemoveElement
<1> QED BY <1>1, <1>2, <1>3 DEF Started

\* Putting a session whose loop did not run at the end of the backlog.
LEMMA AppendLists ==
    ASSUME NEW waiting \in Seq(Sessions), NEW steps \in [Sessions -> LoopState], NEW s \in Sessions,
           Lists(waiting, steps), steps[s].pc = "off"
    PROVE  LET longer == Append(waiting, s)
               after  == [steps EXCEPT ![s].pc = "waiting"]
           IN  /\ longer \in Seq(Sessions) /\ Len(longer) = Len(waiting) + 1
               /\ after \in [Sessions -> LoopState] /\ Lists(longer, after)
<1> DEFINE longer == Append(waiting, s)
           after  == [steps EXCEPT ![s].pc = "waiting"]
<1>1. /\ longer \in Seq(Sessions) /\ Len(longer) = Len(waiting) + 1 /\ Len(waiting) \in Nat
      /\ \A i \in 1..Len(waiting) : longer[i] = waiting[i]
      /\ longer[Len(waiting) + 1] = s
    OBVIOUS
<1>2. /\ after \in [Sessions -> LoopState] /\ after[s].pc = "waiting"
      /\ \A x \in Sessions \ {s} : after[x] = steps[x]
    BY DEF LoopState, LoopSteps
<1>3. \A i \in 1..Len(waiting) : waiting[i] # s /\ waiting[i] \in Sessions
    BY DEF Lists
<1> HIDE DEF longer, after
<1>4. \A i, j \in 1..Len(longer) : longer[i] = longer[j] => i = j
    <2> SUFFICES ASSUME NEW i \in 1..Len(longer), NEW j \in 1..Len(longer), longer[i] = longer[j]
                 PROVE  i = j
        OBVIOUS
    <2>1. CASE i \in 1..Len(waiting) /\ j \in 1..Len(waiting)
        BY <1>1, <2>1 DEF Lists
    <2>2. CASE i = Len(waiting) + 1 \/ j = Len(waiting) + 1
        BY <1>1, <1>3, <2>2
    <2> QED BY <1>1, <2>1, <2>2
<1>5. ASSUME NEW x \in Sessions
      PROVE  after[x].pc = "waiting" <=> \E i \in 1..Len(longer) : longer[i] = x
    <2>1. CASE x = s
        <3>1. Len(waiting) + 1 \in 1..Len(longer)
            BY <1>1
        <3> QED BY <1>1, <1>2, <2>1, <3>1
    <2>2. CASE x # s
        <3>1. after[x].pc = "waiting" <=> \E i \in 1..Len(waiting) : waiting[i] = x
            BY <1>2, <2>2 DEF Lists
        <3>2. \A i \in 1..Len(longer) : i \in 1..Len(waiting) \/ i = Len(waiting) + 1
            BY <1>1
        <3>3. 1..Len(waiting) \subseteq 1..Len(longer)
            BY <1>1
        <3> QED BY <1>1, <2>2, <3>1, <3>2, <3>3
    <2> QED BY <2>1, <2>2
<1>6. Lists(longer, after)
    BY <1>4, <1>5 DEF Lists
<1> QED BY <1>1, <1>2, <1>6 DEF longer, after

\* Starting the loop at the head of the backlog.
LEMMA TailLists ==
    ASSUME NEW waiting \in Seq(Sessions), waiting # <<>>, NEW steps \in [Sessions -> LoopState],
           Lists(waiting, steps)
    PROVE  LET after == [steps EXCEPT ![Head(waiting)].pc = "next"]
           IN  /\ Head(waiting) \in Sessions /\ steps[Head(waiting)].pc = "waiting"
               /\ Tail(waiting) \in Seq(Sessions) /\ Len(Tail(waiting)) = Len(waiting) - 1
               /\ after \in [Sessions -> LoopState] /\ Lists(Tail(waiting), after)
<1> DEFINE h == Head(waiting)
           rest == Tail(waiting)
           after == [steps EXCEPT ![h].pc = "next"]
<1>1. /\ h = waiting[1] /\ h \in Sessions /\ Len(waiting) \in Nat \ {0}
      /\ rest \in Seq(Sessions) /\ Len(rest) = Len(waiting) - 1
      /\ \A i \in 1..Len(rest) : rest[i] = waiting[i + 1]
    OBVIOUS
<1>2. steps[h].pc = "waiting"
    BY <1>1 DEF Lists
<1>3. /\ after \in [Sessions -> LoopState] /\ after[h].pc = "next"
      /\ \A x \in Sessions \ {h} : after[x] = steps[x]
    BY <1>1 DEF LoopState, LoopSteps
<1> HIDE DEF h, rest, after
<1>4. \A i, j \in 1..Len(rest) : rest[i] = rest[j] => i = j
    <2> SUFFICES ASSUME NEW i \in 1..Len(rest), NEW j \in 1..Len(rest), rest[i] = rest[j] PROVE i = j
        OBVIOUS
    <2>1. i + 1 \in 1..Len(waiting) /\ j + 1 \in 1..Len(waiting) /\ waiting[i + 1] = waiting[j + 1]
        BY <1>1
    <2> QED BY <2>1 DEF Lists
<1>5. ASSUME NEW x \in Sessions
      PROVE  after[x].pc = "waiting" <=> \E i \in 1..Len(rest) : rest[i] = x
    <2>1. CASE x = h
        <3>1. \A i \in 1..Len(rest) : rest[i] # h
            <4> SUFFICES ASSUME NEW i \in 1..Len(rest), rest[i] = h PROVE FALSE
                OBVIOUS
            <4>1. i + 1 \in 1..Len(waiting) /\ 1 \in 1..Len(waiting) /\ waiting[i + 1] = waiting[1]
                BY <1>1
            <4>2. i + 1 = 1
                BY <4>1 DEF Lists
            <4> QED BY <4>2
        <3> QED BY <1>3, <2>1, <3>1
    <2>2. CASE x # h
        <3>1. after[x].pc = "waiting" <=> \E i \in 1..Len(waiting) : waiting[i] = x
            BY <1>3, <2>2 DEF Lists
        <3>2. ASSUME NEW i \in 1..Len(waiting), waiting[i] = x PROVE \E k \in 1..Len(rest) : rest[k] = x
            <4>1. i # 1
                BY <1>1, <2>2, <3>2
            <4>2. i - 1 \in 1..Len(rest) /\ rest[i - 1] = waiting[i]
                BY <1>1, <4>1
            <4> QED BY <3>2, <4>2
        <3>3. ASSUME NEW i \in 1..Len(rest), rest[i] = x PROVE \E k \in 1..Len(waiting) : waiting[k] = x
            <4>1. i + 1 \in 1..Len(waiting) /\ waiting[i + 1] = x
                BY <1>1, <3>3
            <4> QED BY <4>1
        <3> QED BY <3>1, <3>2, <3>3
    <2> QED BY <2>1, <2>2
<1>6. Lists(rest, after)
    BY <1>4, <1>5 DEF Lists
<1> QED BY <1>1, <1>2, <1>3, <1>6 DEF h, rest, after

\* schedule starts one loop or none, and leaves no slot free that a loop waits for.
LEMMA ScheduleKeeps ==
    ASSUME ThreadConstants, NEW n \in 0..Concurrency, NEW e \in Nat,
           NEW waiting \in Seq(Sessions), NEW steps \in [Sessions -> LoopState],
           Lists(waiting, steps), n = e + Cardinality(Started(steps)),
           Len(waiting) > 1 => n + 1 >= Concurrency,
           Schedule(n, waiting, steps)
    PROVE  /\ active' \in 0..Concurrency /\ active' = e + Cardinality(Started(loop'))
           /\ backlog' \in Seq(Sessions) /\ loop' \in [Sessions -> LoopState]
           /\ Lists(backlog', loop') /\ (backlog' # <<>> => active' = Concurrency)
           /\ \A s \in Sessions : loop'[s].pc = "off" <=> steps[s].pc = "off"
<1>0. Concurrency \in Nat \ {0} /\ Len(waiting) \in Nat
    BY DEF ThreadConstants
<1>1. CASE n < Concurrency /\ waiting # <<>>
    <2> DEFINE h == Head(waiting)
    <2>1. active' = n + 1 /\ backlog' = Tail(waiting) /\ loop' = [steps EXCEPT ![h].pc = "next"]
        BY <1>1 DEF Schedule
    <2>2. /\ h \in Sessions /\ steps[h].pc = "waiting"
          /\ backlog' \in Seq(Sessions) /\ Len(backlog') = Len(waiting) - 1
          /\ loop' \in [Sessions -> LoopState] /\ Lists(backlog', loop')
        BY <1>1, <2>1, TailLists
    <2> HIDE DEF h
    <2>3. loop'[h].pc = "next" /\ \A x \in Sessions \ {h} : loop'[x] = steps[x]
        BY <2>1, <2>2 DEF LoopState
    <2>4. Cardinality(Started(loop')) = Cardinality(Started(steps)) + 1 /\ Cardinality(Started(steps)) \in Nat
        BY <2>2, <2>3, StartedCounts DEF Started
    <2>5. backlog' # <<>> => n + 1 = Concurrency
        BY <1>0, <1>1, <2>2
    <2> QED BY <1>0, <1>1, <2>1, <2>2, <2>3, <2>4, <2>5
<1>2. CASE ~(n < Concurrency /\ waiting # <<>>)
    BY <1>0, <1>2 DEF Schedule
<1> QED BY <1>1, <1>2

-----------------------------------------------------------------------------
(* Init and the steps. *)

LEMMA InitInvariant == ASSUME ThreadConstants, Init PROVE IInv
<1>1. Ops # {} /\ Concurrency \in Nat \ {0} /\ (CHOOSE o \in Ops : TRUE) \in Ops
    BY DEF ThreadConstants
<1>2. TypeOK
    BY <1>1 DEF Init, TypeOK, LoopSteps
<1>3. Lists(backlog, loop) /\ FlagsFitLoops
    BY DEF Init, Lists, FlagsFitLoops
<1>4. Started(loop) = {} /\ Cardinality({}) = 0
    BY FS_EmptySet DEF Init, Started
<1>5. Cardinality(Started(loop)) = 0
    BY <1>4
<1>6. SlotsFitLoops
    BY <1>5 DEF Init, SlotsFitLoops
<1> QED BY <1>2, <1>3, <1>6 DEF IInv

LEMMA SubmitKeeps == ASSUME ThreadConstants, IInv, NEW o \in Ops, Submit(o) PROVE IInv'
<1> DEFINE s == SessionOf[o]
<1>1. /\ s \in Sessions /\ Concurrency \in Nat \ {0}
      /\ queue \in [Sessions -> Seq(Ops)] /\ processing \subseteq Sessions
      /\ backlog \in Seq(Sessions) /\ active \in 0..Concurrency /\ ended \in 0..Concurrency
      /\ loop \in [Sessions -> LoopState]
    BY DEF ThreadConstants, IInv, TypeOK, LoopState
<1>2. /\ queue' \in [Sessions -> Seq(Ops)]
      /\ op' \in [Ops -> {"new", "queued", "running", "done", "failed", "refused"}]
      /\ turn' \in [Sessions -> {"idle", "running", "completed", "aborted"}]
      /\ ended' = ended
    BY <1>1 DEF Submit, IInv, TypeOK
<1>3. \A x \in Sessions : queue'[x] # <<>> => queue[x] # <<>> \/ x = s
    BY <1>1 DEF Submit
<1>4. CASE s \in processing
    <2>1. UNCHANGED <<processing, backlog, active, loop>>
        BY <1>4 DEF Submit
    <2>2. TypeOK'
        BY <1>1, <1>2, <2>1 DEF TypeOK, LoopState
    <2>3. Lists(backlog', loop')
        BY <2>1 DEF IInv
    <2>4. FlagsFitLoops'
        BY <1>3, <1>4, <2>1 DEF FlagsFitLoops, IInv
    <2>5. SlotsFitLoops'
        BY <1>2, <2>1 DEF SlotsFitLoops, IInv
    <2> QED BY <2>2, <2>3, <2>4, <2>5 DEF IInv
<1>5. CASE s \notin processing
    <2> DEFINE longer == Append(backlog, s)
               steps  == [loop EXCEPT ![s].pc = "waiting"]
    <2>1. processing' = processing \cup {s} /\ Schedule(active, longer, steps)
        BY <1>5 DEF Submit
    <2>2. loop[s].pc = "off" /\ Lists(backlog, loop)
        BY <1>1, <1>5 DEF IInv, FlagsFitLoops
    <2>3. /\ longer \in Seq(Sessions) /\ Len(longer) = Len(backlog) + 1
          /\ steps \in [Sessions -> LoopState] /\ Lists(longer, steps)
        BY <1>1, <2>2, AppendLists
    <2>4. steps[s].pc = "waiting" /\ \A x \in Sessions \ {s} : steps[x] = loop[x]
        BY <1>1 DEF LoopState
    <2> HIDE DEF longer, steps
    <2>5. active = ended + Cardinality(Started(steps))
        <3>1. \A x \in Sessions : (x \in Started(steps)) <=> (x \in Started(loop))
            BY <2>2, <2>4 DEF Started
        <3>2. Started(steps) = Started(loop)
            BY <3>1 DEF Started
        <3> QED BY <3>2 DEF IInv, SlotsFitLoops
    <2>6. Len(longer) > 1 => active + 1 >= Concurrency
        <3>1. backlog = <<>> => Len(backlog) = 0
            OBVIOUS
        <3> QED BY <1>1, <2>3, <3>1 DEF IInv, SlotsFitLoops
    <2>7. ended \in Nat
        BY <1>1
    <2>8. /\ active' \in 0..Concurrency /\ active' = ended + Cardinality(Started(loop'))
          /\ backlog' \in Seq(Sessions) /\ loop' \in [Sessions -> LoopState]
          /\ Lists(backlog', loop') /\ (backlog' # <<>> => active' = Concurrency)
          /\ \A x \in Sessions : loop'[x].pc = "off" <=> steps[x].pc = "off"
        BY <1>1, <2>1, <2>3, <2>5, <2>6, <2>7, ScheduleKeeps
    <2>9. TypeOK'
        BY <1>1, <1>2, <2>1, <2>8 DEF TypeOK, LoopState
    <2>10. FlagsFitLoops'
        BY <1>3, <2>1, <2>4, <2>8 DEF FlagsFitLoops, IInv
    <2>11. SlotsFitLoops'
        BY <1>2, <2>8 DEF SlotsFitLoops
    <2> QED BY <2>8, <2>9, <2>10, <2>11 DEF IInv
<1> QED BY <1>4, <1>5

LEMMA ReturnSlotKeeps == ASSUME ThreadConstants, IInv, ReturnSlot PROVE IInv'
<1>1. /\ Concurrency \in Nat \ {0}
      /\ backlog \in Seq(Sessions) /\ active \in 0..Concurrency /\ ended \in 0..Concurrency
      /\ loop \in [Sessions -> LoopState] /\ Lists(backlog, loop)
    BY DEF ThreadConstants, IInv, TypeOK, LoopState
<1>2. ended > 0 /\ ended' = ended - 1 /\ Schedule(active - 1, backlog, loop)
    BY DEF ReturnSlot
<1>3. active = ended + Cardinality(Started(loop)) /\ Cardinality(Started(loop)) \in Nat
    <2>1. Cardinality(Started(loop)) \in Nat
        BY FS_Subset, FS_CardinalityType DEF Started, ThreadConstants
    <2> QED BY <2>1 DEF IInv, SlotsFitLoops
<1>4. /\ active - 1 \in 0..Concurrency /\ ended - 1 \in Nat
      /\ active - 1 = (ended - 1) + Cardinality(Started(loop))
    BY <1>1, <1>2, <1>3
<1>5. Len(backlog) > 1 => (active - 1) + 1 >= Concurrency
    <2>1. backlog = <<>> => Len(backlog) = 0
        OBVIOUS
    <2> QED BY <1>1, <2>1 DEF IInv, SlotsFitLoops
<1>6. /\ active' \in 0..Concurrency /\ active' = (ended - 1) + Cardinality(Started(loop'))
      /\ backlog' \in Seq(Sessions) /\ loop' \in [Sessions -> LoopState]
      /\ Lists(backlog', loop') /\ (backlog' # <<>> => active' = Concurrency)
      /\ \A x \in Sessions : loop'[x].pc = "off" <=> loop[x].pc = "off"
    BY <1>1, <1>2, <1>4, <1>5, ScheduleKeeps
<1>7. TypeOK'
    BY <1>1, <1>2, <1>6 DEF TypeOK, LoopState, ReturnSlot, IInv
<1>8. FlagsFitLoops'
    BY <1>6 DEF FlagsFitLoops, IInv, ReturnSlot
<1>9. SlotsFitLoops'
    BY <1>2, <1>6 DEF SlotsFitLoops
<1> QED BY <1>6, <1>7, <1>8, <1>9 DEF IInv

LEMMA LoopEndsKeeps == ASSUME ThreadConstants, IInv, NEW s \in Sessions, LoopEnds(s) PROVE IInv'
<1>1. /\ Concurrency \in Nat \ {0}
      /\ active \in 0..Concurrency /\ ended \in 0..Concurrency
      /\ loop \in [Sessions -> LoopState]
    BY DEF ThreadConstants, IInv, TypeOK, LoopState
<1>2. /\ loop[s].pc = "next" /\ queue[s] = <<>> /\ processing' = processing \ {s}
      /\ ended' = ended + 1 /\ UNCHANGED <<queue, backlog, active, turn, op>>
      /\ loop' = [loop EXCEPT ![s].pc = "off"]
    BY DEF LoopEnds, Go
<1>3. /\ loop' \in [Sessions -> LoopState] /\ loop'[s].pc = "off"
      /\ \A x \in Sessions \ {s} : loop'[x] = loop[x]
    BY <1>1, <1>2 DEF LoopState, LoopSteps
<1>4. /\ Cardinality(Started(loop)) \in Nat
      /\ Cardinality(Started(loop')) = Cardinality(Started(loop)) - 1
      /\ Cardinality(Started(loop')) \in Nat
    <2>1. s \in Started(loop) /\ s \notin Started(loop')
        BY <1>2, <1>3 DEF Started
    <2>2. Cardinality(Started(loop')) \in Nat
        BY FS_Subset, FS_CardinalityType DEF Started, ThreadConstants
    <2> QED BY <1>3, <2>1, <2>2, StartedCounts
<1>5. SlotsFitLoops'
    BY <1>1, <1>2, <1>4 DEF IInv, SlotsFitLoops
<1>6. ended' \in 0..Concurrency
    BY <1>1, <1>2, <1>4, <1>5 DEF SlotsFitLoops
<1>7. TypeOK'
    BY <1>2, <1>3, <1>6 DEF TypeOK, LoopState, IInv
<1>8. Lists(backlog', loop')
    BY <1>2, <1>3 DEF IInv, Lists
<1>9. FlagsFitLoops'
    BY <1>2, <1>3 DEF IInv, FlagsFitLoops
<1> QED BY <1>5, <1>7, <1>8, <1>9 DEF IInv

\* A step of a loop that has a slot and keeps it.
LEMMA TurnStepKeeps ==
    ASSUME ThreadConstants, IInv, NEW s \in Sessions,
           UNCHANGED <<processing, backlog, active, ended>>,
           loop' \in [Sessions -> LoopState],
           \A x \in Sessions \ {s} : loop'[x] = loop[x],
           loop[s].pc \notin {"off", "waiting"}, loop'[s].pc \notin {"off", "waiting"},
           queue' \in [Sessions -> Seq(Ops)],
           \A x \in Sessions : queue'[x] # <<>> => queue[x] # <<>>,
           turn' \in [Sessions -> {"idle", "running", "completed", "aborted"}],
           op' \in [Ops -> {"new", "queued", "running", "done", "failed", "refused"}]
    PROVE  IInv'
<1>1. TypeOK'
    BY DEF TypeOK, LoopState, IInv
<1>2. Lists(backlog', loop')
    BY DEF IInv, Lists
<1>3. FlagsFitLoops'
    BY DEF IInv, FlagsFitLoops
<1>4. Started(loop') = Started(loop)
    BY DEF Started
<1>5. SlotsFitLoops'
    BY <1>4 DEF IInv, SlotsFitLoops
<1> QED BY <1>1, <1>2, <1>3, <1>5 DEF IInv

LEMMA TurnKeeps ==
    ASSUME ThreadConstants, IInv, NEW s \in Sessions,
           \/ TakeOp(s) \/ Begin(s) \/ BeginFails(s)
           \/ \E throws \in BOOLEAN : Execute(s, throws)
           \/ Complete(s) \/ CompleteFails(s) \/ Abort(s)
    PROVE  IInv'
<1>1. /\ queue \in [Sessions -> Seq(Ops)]
      /\ loop \in [Sessions -> LoopState]
      /\ turn \in [Sessions -> {"idle", "running", "completed", "aborted"}]
      /\ op \in [Ops -> {"new", "queued", "running", "done", "failed", "refused"}]
    BY DEF IInv, TypeOK, LoopState
<1>2. CASE TakeOp(s)
    <2>1. /\ loop[s].pc = "next" /\ queue[s] # <<>> /\ queue' = [queue EXCEPT ![s] = Tail(@)]
          /\ UNCHANGED <<processing, backlog, active, ended>>
        BY <1>2 DEF TakeOp
    <2>2. queue' \in [Sessions -> Seq(Ops)] /\ \A x \in Sessions : queue'[x] # <<>> => queue[x] # <<>>
        BY <1>1, <2>1
    <2>3. Head(queue[s]) \in Ops
        BY <1>1, <2>1
    <2>4. CASE turn[s] = "running"
        <3>1. UNCHANGED <<loop, turn>> /\ op' = [op EXCEPT ![Head(queue[s])] = "refused"]
            BY <1>2, <2>4 DEF TakeOp
        <3>2. op' \in [Ops -> {"new", "queued", "running", "done", "failed", "refused"}]
            BY <1>1, <3>1
        <3> QED BY <1>1, <2>1, <2>2, <3>1, <3>2, TurnStepKeeps
    <2>5. CASE turn[s] # "running"
        <3>1. /\ turn' = [turn EXCEPT ![s] = "running"]
              /\ loop' = [loop EXCEPT ![s] = [pc |-> "begin", op |-> Head(queue[s])]]
              /\ op' = [op EXCEPT ![Head(queue[s])] = "running"]
            BY <1>2, <2>5 DEF TakeOp
        <3>2. /\ turn' \in [Sessions -> {"idle", "running", "completed", "aborted"}]
              /\ op' \in [Ops -> {"new", "queued", "running", "done", "failed", "refused"}]
            BY <1>1, <3>1
        <3>3. /\ loop' \in [Sessions -> LoopState] /\ loop'[s].pc = "begin"
              /\ \A x \in Sessions \ {s} : loop'[x] = loop[x]
            BY <1>1, <2>3, <3>1 DEF LoopState, LoopSteps
        <3> QED BY <2>1, <2>2, <3>2, <3>3, TurnStepKeeps
    <2> QED BY <2>4, <2>5
<1>3. ASSUME \/ Begin(s) \/ BeginFails(s)
             \/ \E throws \in BOOLEAN : Execute(s, throws)
             \/ Complete(s) \/ CompleteFails(s) \/ Abort(s)
      PROVE  IInv'
    <2>1. PICK next \in {"execute", "next", "abort", "complete"} : loop' = [loop EXCEPT ![s].pc = next]
        BY <1>3 DEF Begin, BeginFails, Execute, Complete, CompleteFails, Abort, Go
    <2>2. loop[s].pc \in {"begin", "execute", "complete", "abort"}
        BY <1>3 DEF Begin, BeginFails, Execute, Complete, CompleteFails, Abort
    <2>3. UNCHANGED <<queue, processing, backlog, active, ended>>
        BY <1>3 DEF Begin, BeginFails, Execute, Complete, CompleteFails, Abort
    <2>4. turn' \in [Sessions -> {"idle", "running", "completed", "aborted"}]
        BY <1>1, <1>3 DEF Begin, BeginFails, Execute, Complete, CompleteFails, Abort, SetTurn
    <2>5. op' \in [Ops -> {"new", "queued", "running", "done", "failed", "refused"}]
        BY <1>1, <1>3 DEF Begin, BeginFails, Execute, Complete, CompleteFails, Abort, Outcome
    <2>6. /\ loop' \in [Sessions -> LoopState] /\ loop'[s].pc = next
          /\ \A x \in Sessions \ {s} : loop'[x] = loop[x]
        BY <1>1, <2>1 DEF LoopState, LoopSteps
    <2> QED BY <1>1, <2>2, <2>3, <2>4, <2>5, <2>6, TurnStepKeeps
<1> QED BY <1>2, <1>3

LEMMA StepKeepsInvariant == ASSUME ThreadConstants, IInv, [Next]_vars PROVE IInv'
<1>1. CASE UNCHANGED vars
    BY <1>1 DEF vars, IInv, TypeOK, Lists, FlagsFitLoops, SlotsFitLoops, Started
<1>2. ASSUME NEW o \in Ops, Submit(o) PROVE IInv'
    BY <1>2, SubmitKeeps
<1>3. CASE ReturnSlot
    BY <1>3, ReturnSlotKeeps
<1>4. ASSUME NEW s \in Sessions, Run(s) PROVE IInv'
    <2>1. CASE LoopEnds(s)
        BY <2>1, LoopEndsKeeps
    <2>2. CASE ~LoopEnds(s)
        BY <1>4, <2>2, TurnKeeps DEF Run
    <2> QED BY <2>1, <2>2
<1> QED BY <1>1, <1>2, <1>3, <1>4 DEF Next

LEMMA InvariantHolds == ASSUME ThreadConstants PROVE Spec => []IInv
<1>1. Init => IInv
    BY InitInvariant
<1>2. IInv /\ [Next]_vars => IInv'
    BY StepKeepsInvariant
<1> QED BY <1>1, <1>2, PTL DEF Spec

-----------------------------------------------------------------------------
(* Drain loops: the theorems. *)

\* Every variable of the runtimes and of their pool has its type: no more
\* loops run than the pool allows, nor are more tasks ended than were started.
THEOREM ThreadsTypeCorrect == ASSUME ThreadConstants PROVE Spec => []TypeOK
<1>1. IInv => TypeOK
    BY DEF IInv
<1> QED BY <1>1, InvariantHolds, PTL

\* A session has a drain loop exactly while its flag is set, one at a time, and
\* its queued ops always have one; a loop waits only while the pool is full.
THEOREM LoopsAreSingle == ASSUME ThreadConstants PROVE Spec => []OneLoopPerSession
<1>1. ASSUME IInv, NEW s \in Sessions
      PROVE  Cardinality({i \in 1..Len(backlog) : backlog[i] = s})
               = IF loop[s].pc = "waiting" THEN 1 ELSE 0
    <2> DEFINE places == {i \in 1..Len(backlog) : backlog[i] = s}
    <2>1. CASE loop[s].pc = "waiting"
        <3>1. PICK i \in 1..Len(backlog) : backlog[i] = s
            BY <1>1, <2>1 DEF IInv, Lists
        <3>2. places = {i}
            BY <1>1, <3>1 DEF IInv, Lists
        <3> QED BY <2>1, <3>2, FS_Singleton
    <2>2. CASE loop[s].pc # "waiting"
        <3>1. places = {}
            BY <1>1, <2>2 DEF IInv, Lists
        <3> QED BY <2>2, <3>1, FS_EmptySet
    <2> QED BY <2>1, <2>2
<1>2. IInv => OneLoopPerSession
    BY <1>1 DEF IInv, OneLoopPerSession, FlagsFitLoops, SlotsFitLoops, Started
<1> QED BY <1>2, InvariantHolds, PTL

-----------------------------------------------------------------------------
(* The lock of the workspace. *)

\* Gateways that are started one after the other acquire one at a time, and
\* each has attempts left; one that runs was started.
OneAcquires ==
    /\ \A p \in Procs : Lock!Runs(p) => proc[p].start # 0
    /\ \A p, q \in Procs : proc[p].pc \in Lock!Acquiring /\ proc[q].pc \in Lock!Acquiring => p = q
    /\ \A p \in Procs : proc[p].pc \in Lock!Acquiring => proc[p].attempt < MaxAttempts

\* Who writes its record has just created the lock.
WriterHasLock == \A p \in Procs : proc[p].pc = "write" => Lock!Mine(p) /\ ~file.written

\* A lock is moved away only while no gateway owns it.
NoneToMove ==
    \A p, q \in Procs :
        proc[p].pc = "quarantine" => proc[q].pc \notin {"owns"} \cup Lock!Releasing

LockInv ==
    Lock!TypeOK /\ OneAcquires /\ WriterHasLock /\ NoneToMove /\ Lock!OwnerHoldsLock

LEMMA LockStep ==
    ASSUME Lock!LockConstants, ~StartsOverlap, LockInv, [Lock!Next]_(Lock!vars)
    PROVE  LockInv'
<1> USE DEF LockInv, Lock!TypeOK, Lock!Runs, Lock!Record, Lock!NoFile, Lock!Acquiring, Lock!Releasing,
            Lock!LockConstants
<1>1. ASSUME NEW p \in Procs, Lock!Start(p)
      PROVE  LockInv'
    <2> USE <1>1 DEF Lock!Start
    <2>1. Lock!TypeOK'
        OBVIOUS
    <2>2. OneAcquires' /\ WriterHasLock' /\ NoneToMove'
        BY DEF OneAcquires, WriterHasLock, NoneToMove, Lock!Mine
    <2>3. Lock!OwnerHoldsLock'
        BY DEF Lock!OwnerHoldsLock, Lock!Mine
    <2> QED BY <2>1, <2>2, <2>3
<1>2. ASSUME NEW p \in Procs, Lock!Open(p)
      PROVE  LockInv'
    <2> USE <1>2 DEF Lock!Open, Lock!Go
    <2>1. Lock!TypeOK'
        <3>1. proc[p].start \in 1..MaxStarts
            BY DEF OneAcquires
        <3>2. [proc |-> p, start |-> proc[p].start, written |-> FALSE] \in Lock!Record
            BY <3>1
        <3>3. CASE file = Lock!NoFile
            <4>1. file' = [proc |-> p, start |-> proc[p].start, written |-> FALSE]
                BY <3>3
            <4>2. proc' = [proc EXCEPT ![p].pc = "write"]
                BY <3>3
            <4>3. file' \in Lock!Record
                BY <3>2, <4>1
            <4> QED BY <4>2, <4>3
        <3>4. CASE file # Lock!NoFile
            BY <3>4
        <3> QED BY <3>3, <3>4
    <2>2. OneAcquires' /\ NoneToMove'
        BY DEF OneAcquires, NoneToMove
    <2>3. WriterHasLock'
        BY DEF OneAcquires, WriterHasLock, Lock!Mine
    <2>4. Lock!OwnerHoldsLock'
        BY DEF Lock!OwnerHoldsLock, Lock!Mine
    <2> QED BY <2>1, <2>2, <2>3, <2>4
<1>3. ASSUME NEW p \in Procs, Lock!Write(p)
      PROVE  LockInv'
    <2> USE <1>3 DEF Lock!Write, Lock!Go
    <2>1. Lock!Mine(p) /\ ~file.written
        BY DEF WriterHasLock
    <2>2. file' = [file EXCEPT !.written = TRUE] /\ file \in Lock!Record
        BY <2>1 DEF Lock!Mine
    <2>3. Lock!TypeOK'
        <3>1. file' \in Lock!Record
            BY <2>2
        <3>2. proc' \in [Procs -> [pc : {"dead", "refused", "owns"} \cup Lock!Acquiring \cup Lock!Releasing,
                                   start : 0..MaxStarts, attempt : 0..MaxAttempts]]
            OBVIOUS
        <3> QED BY <3>1, <3>2
    <2>4. OneAcquires' /\ NoneToMove' /\ WriterHasLock'
        BY DEF OneAcquires, NoneToMove, WriterHasLock
    <2>5. Lock!OwnerHoldsLock'
        BY <2>1, <2>2 DEF Lock!OwnerHoldsLock, Lock!Mine
    <2> QED BY <2>3, <2>4, <2>5
<1>4. ASSUME NEW p \in Procs, Lock!WriteFails(p)
      PROVE  LockInv'
    <2> USE <1>4 DEF Lock!WriteFails, Lock!Go
    <2>1. Lock!Mine(p) /\ ~file.written
        BY DEF WriterHasLock
    <2>2. Lock!TypeOK'
        OBVIOUS
    <2>3. OneAcquires' /\ NoneToMove' /\ WriterHasLock'
        BY DEF OneAcquires, NoneToMove, WriterHasLock
    <2>4. Lock!OwnerHoldsLock'
        BY <2>1 DEF Lock!OwnerHoldsLock
    <2> QED BY <2>2, <2>3, <2>4
<1>5. ASSUME NEW p \in Procs, Lock!Read(p)
      PROVE  LockInv'
    <2> USE <1>5 DEF Lock!Read, Lock!Go
    <2>1. Lock!TypeOK'
        OBVIOUS
    <2>2. OneAcquires' /\ WriterHasLock'
        BY DEF OneAcquires, WriterHasLock, Lock!Mine
    <2>3. Lock!OwnerHoldsLock'
        BY DEF Lock!OwnerHoldsLock, Lock!Mine
    <2>4. NoneToMove'
        <3>1. ASSUME NEW q \in Procs, proc[q].pc \in {"owns"} \cup Lock!Releasing
              PROVE  file # Lock!NoFile /\ file.written /\ Lock!Alive(file)
            BY <3>1 DEF Lock!OwnerHoldsLock, Lock!Mine, Lock!Alive
        <3> QED BY <3>1 DEF NoneToMove, OneAcquires
    <2> QED BY <2>1, <2>2, <2>3, <2>4
<1>6. ASSUME NEW p \in Procs, Lock!Quarantine(p)
      PROVE  LockInv'
    <2> USE <1>6 DEF Lock!Quarantine
    <2>1. proc[p].attempt < MaxAttempts
        BY DEF OneAcquires
    <2>2. Lock!TypeOK' /\ OneAcquires'
        BY <2>1 DEF OneAcquires
    <2>3. WriterHasLock' /\ NoneToMove'
        BY DEF OneAcquires, WriterHasLock, NoneToMove
    <2>4. Lock!OwnerHoldsLock'
        BY DEF Lock!OwnerHoldsLock, NoneToMove
    <2> QED BY <2>2, <2>3, <2>4
<1>7. ASSUME NEW p \in Procs, Lock!Release(p) \/ Lock!ReadOwn(p)
      PROVE  LockInv'
    <2> USE <1>7 DEF Lock!Release, Lock!ReadOwn, Lock!Go
    <2>1. Lock!TypeOK'
        OBVIOUS
    <2>2. OneAcquires' /\ NoneToMove' /\ WriterHasLock'
        BY DEF OneAcquires, NoneToMove, WriterHasLock, Lock!Mine
    <2>3. Lock!OwnerHoldsLock'
        BY DEF Lock!OwnerHoldsLock, Lock!Mine
    <2> QED BY <2>1, <2>2, <2>3
<1>8. ASSUME NEW p \in Procs, Lock!Unlink(p)
      PROVE  LockInv'
    <2> USE <1>8 DEF Lock!Unlink, Lock!Go
    <2>1. Lock!Mine(p) /\ file.written
        BY DEF Lock!OwnerHoldsLock
    <2>2. Lock!TypeOK' /\ OneAcquires' /\ NoneToMove'
        BY DEF OneAcquires, NoneToMove
    <2>3. WriterHasLock' /\ Lock!OwnerHoldsLock'
        BY <2>1 DEF WriterHasLock, Lock!OwnerHoldsLock, Lock!Mine
    <2> QED BY <2>2, <2>3
<1>9. ASSUME NEW p \in Procs, Lock!Crash(p)
      PROVE  LockInv'
    <2> USE <1>9 DEF Lock!Crash, Lock!Go
    <2>1. Lock!TypeOK'
        OBVIOUS
    <2>2. OneAcquires' /\ NoneToMove' /\ WriterHasLock'
        BY DEF OneAcquires, NoneToMove, WriterHasLock, Lock!Mine
    <2>3. Lock!OwnerHoldsLock'
        BY DEF Lock!OwnerHoldsLock, Lock!Mine
    <2> QED BY <2>1, <2>2, <2>3
<1>10. CASE UNCHANGED Lock!vars
    BY <1>10 DEF Lock!vars, OneAcquires, WriterHasLock, NoneToMove, Lock!OwnerHoldsLock, Lock!Mine
<1> QED
    BY <1>1, <1>2, <1>3, <1>4, <1>5, <1>6, <1>7, <1>8, <1>9, <1>10 DEF Lock!Next

LEMMA LockInvariant ==
    ASSUME Lock!LockConstants, ~StartsOverlap
    PROVE  Lock!Spec => []LockInv
<1>1. Lock!Init => LockInv
    BY DEF Lock!Init, LockInv, Lock!TypeOK, Lock!LockConstants, OneAcquires, WriterHasLock,
           NoneToMove, Lock!Runs, Lock!OwnerHoldsLock, Lock!Acquiring, Lock!Releasing
<1>2. LockInv /\ [Lock!Next]_(Lock!vars) => LockInv'
    BY LockStep
<1> QED BY <1>1, <1>2, PTL DEF Lock!Spec

\* Where gateways are started one after the other, the lock stays in its
\* owner's name for as long as it is owned or being given back.
THEOREM LockStaysWithOwner ==
    ASSUME Lock!LockConstants, ~StartsOverlap
    PROVE  Lock!Spec => []Lock!OwnerHoldsLock
BY LockInvariant, PTL DEF LockInv

\* Then a workspace has one gateway.
THEOREM OneGatewayOwns ==
    ASSUME Lock!LockConstants, ~StartsOverlap
    PROVE  Lock!Spec => []Lock!OneOwner
<1>1. Lock!OwnerHoldsLock => Lock!OneOwner
    BY DEF Lock!OwnerHoldsLock, Lock!OneOwner, Lock!Mine
<1> QED BY <1>1, LockStaysWithOwner, PTL

-----------------------------------------------------------------------------
(* The lock of the task file. *)

CallStates == {"new", "queued", "written", "failed", "returned"}

\* Who is past "try" in withLock is at work on a call of its queue.
QueueInv ==
    \A g \in Gateways : store[g].pc \notin {"idle", "dead"} => store[g].tail # <<>>

\* A live owner's lock has not expired, and a process that was started after it
\* is another one.
LiveIsFresh ==
    tasksLock # Store!NoLock =>
        /\ Store!LiveOwner(tasksLock) => lockTime < tasksLock.expires
        /\ tasksLock.process <= store[tasksLock.owner].process

\* Until a lock was taken over, who is about to take one over finds a dead
\* process's lock.
StealersFindDead ==
    \A g \in Gateways :
        steals = 0 /\ store[g].pc = "steal" =>
            tasksLock # Store!NoLock /\ ~Store!LiveOwner(tasksLock)

\* The lock is that of the process that writes its record, reads or writes the
\* tasks, or gives it back.
HoldersOwn ==
    \A g \in Gateways :
        /\ steals <= 1 /\ store[g].pc \in {"record"} \cup Store!Holding => Store!Owns(g, tasksLock)
        /\ steals <= 1 /\ store[g].pc \in Store!Holding => tasksLock.written

\* What was read under the lock is still in the file.
SnapshotsFresh ==
    \A g \in Gateways : steals <= 1 /\ store[g].pc = "write" => store[g].snapshot = tasks

\* A mutation that was written, or whose promise resolved, is in the file.
WrittenStay ==
    \A m \in Mutations : steals <= 1 /\ calls[m] \in {"written", "returned"} => m \in tasks

StoreInv ==
    /\ Store!TypeOK /\ QueueInv /\ LiveIsFresh /\ StealersFindDead
    /\ HoldersOwn /\ SnapshotsFresh /\ WrittenStay

-----------------------------------------------------------------------------

\* The fields of a store, and of a lock.
LEMMA StoreFields ==
    ASSUME Store!TypeOK
    PROVE  /\ \A g \in Gateways :
                /\ store[g].process \in 1..MaxProcesses
                /\ store[g].tries \in 0..(MaxTries - 1)
                /\ store[g].pc \in {"idle", "dead", "try", "record", "look", "steal", "wait",
                                    "read", "write", "release"}
                /\ store[g].tail \in Seq(Mutations)
                /\ store[g].snapshot \in SUBSET Mutations
           /\ tasksLock # Store!NoLock =>
                /\ tasksLock.owner \in Gateways /\ tasksLock.process \in 1..MaxProcesses
                /\ tasksLock.written \in BOOLEAN
                /\ tasksLock.expires \in 0..(MaxLockTime + LockTtl)
BY DEF Store!TypeOK, Store!Holding, Store!LockRecord, Store!NoLock

\* A record in a lock is told from no lock.
LEMMA LockIsNotNone == \A l \in Store!LockRecord : l # Store!NoLock
<1> SUFFICES ASSUME NEW l \in Store!LockRecord PROVE l # Store!NoLock
    OBVIOUS
<1>1. "written" \in DOMAIN l
    BY DEF Store!LockRecord
<1>2. DOMAIN Store!NoLock = {"owner"}
    BY DEF Store!NoLock
<1> QED BY <1>1, <1>2

\* A process that goes from one await to the next, dies neither before nor after.
LEMMA GoesOn ==
    ASSUME Store!TypeOK, NEW g \in Gateways,
           NEW pc \in {"idle", "try", "record", "look", "steal", "wait", "read", "write", "release"},
           Store!Goes(g, pc)
    PROVE  /\ store'[g] = [store[g] EXCEPT !.pc = pc]
           /\ \A h \in Gateways \ {g} : store'[h] = store[h]
           /\ store' \in [Gateways -> [process : 1..MaxProcesses, tries : 0..(MaxTries - 1),
                  pc : {"idle", "dead", "try", "record", "look", "steal", "wait"} \cup Store!Holding,
                  tail : Seq(Mutations), snapshot : SUBSET Mutations]]
BY DEF Store!Goes, Store!TypeOK, Store!Holding

\* The first call of a queue is a mutation, and what is left is a queue.
LEMMA QueueHead ==
    ASSUME NEW tail \in Seq(Mutations), tail # <<>>
    PROVE  Head(tail) \in Mutations /\ Tail(tail) \in Seq(Mutations)
OBVIOUS

\* A process whose call is settled is idle, and only that call changed.
LEMMA Settles ==
    ASSUME Store!TypeOK, NEW g \in Gateways, store[g].tail # <<>>,
           NEW outcome \in CallStates, Store!Settle(g, outcome)
    PROVE  /\ store'[g] = [store[g] EXCEPT !.pc = "idle", !.tail = Tail(store[g].tail)]
           /\ \A h \in Gateways \ {g} : store'[h] = store[h]
           /\ store' \in [Gateways -> [process : 1..MaxProcesses, tries : 0..(MaxTries - 1),
                  pc : {"idle", "dead", "try", "record", "look", "steal", "wait"} \cup Store!Holding,
                  tail : Seq(Mutations), snapshot : SUBSET Mutations]]
           /\ calls' \in [Mutations -> CallStates]
           /\ calls'[Head(store[g].tail)] = outcome
           /\ \A m \in Mutations \ {Head(store[g].tail)} : calls'[m] = calls[m]
<1>1. Head(store[g].tail) \in Mutations /\ Tail(store[g].tail) \in Seq(Mutations)
    BY StoreFields, QueueHead
<1>2. store' = [store EXCEPT ![g].pc = "idle", ![g].tail = Tail(store[g].tail)]
    BY DEF Store!Settle, Store!TypeOK
<1>3. store' \in [Gateways -> [process : 1..MaxProcesses, tries : 0..(MaxTries - 1),
          pc : {"idle", "dead", "try", "record", "look", "steal", "wait"} \cup Store!Holding,
          tail : Seq(Mutations), snapshot : SUBSET Mutations]]
    BY <1>1, <1>2 DEF Store!TypeOK
<1>4. /\ store'[g] = [store[g] EXCEPT !.pc = "idle", !.tail = Tail(store[g].tail)]
      /\ \A h \in Gateways \ {g} : store'[h] = store[h]
    BY <1>2 DEF Store!TypeOK
<1>5. /\ calls \in [Mutations -> CallStates]
      /\ calls' = [calls EXCEPT ![Head(store[g].tail)] = outcome]
    BY DEF Store!Settle, Store!TypeOK, CallStates
<1> QED BY <1>1, <1>3, <1>4, <1>5

\* What the invariant says of the processes carries over a step of one of them
\* that neither starts nor ends its life, leaves lock, file and clock alone, and
\* writes no call.
LEMMA QuietStep ==
    ASSUME StoreInv, NEW g \in Gateways,
           UNCHANGED <<lockTime, tasksLock, tasks, steals>>,
           store'[g].process = store[g].process,
           store[g].pc # "dead", store'[g].pc \in {"idle", "try", "look", "steal", "wait"},
           store'[g].pc = "steal" => Store!Stale(tasksLock, lockTime),
           \A h \in Gateways \ {g} : store'[h] = store[h],
           \A m \in Mutations : calls'[m] \in {"written", "returned"} =>
                                    calls[m] \in {"written", "returned"}
    PROVE  LiveIsFresh' /\ StealersFindDead' /\ HoldersOwn' /\ SnapshotsFresh' /\ WrittenStay'
<1> USE DEF StoreInv
<1>1. tasksLock # Store!NoLock => tasksLock.owner \in Gateways
    BY StoreFields
<1>2. tasksLock # Store!NoLock => (Store!LiveOwner(tasksLock)' <=> Store!LiveOwner(tasksLock))
    <2>1. CASE tasksLock.owner = g
        BY <2>1 DEF Store!LiveOwner
    <2>2. CASE tasksLock.owner # g
        BY <1>1, <2>2 DEF Store!LiveOwner
    <2> QED BY <2>1, <2>2
<1>3. \A h \in Gateways : store'[h].process = store[h].process
    OBVIOUS
<1>4. LiveIsFresh'
    BY <1>1, <1>2, <1>3 DEF LiveIsFresh, Store!NoLock
<1>5. Store!Stale(tasksLock, lockTime) => tasksLock # Store!NoLock /\ ~Store!LiveOwner(tasksLock)
    BY StoreFields DEF Store!Stale, LiveIsFresh, Store!TypeOK
<1>6. StealersFindDead'
    BY <1>2, <1>5 DEF StealersFindDead, Store!NoLock
<1>7. HoldersOwn'
    BY <1>3 DEF HoldersOwn, Store!Owns, Store!Holding, Store!NoLock
<1>8. SnapshotsFresh' /\ WrittenStay'
    BY DEF SnapshotsFresh, WrittenStay
<1> QED BY <1>4, <1>6, <1>7, <1>8

\* A step that leaves lock, file and clock alone.
LEMMA WaitSteps ==
    ASSUME Store!StoreLockConstants, StoreInv, NEW g \in Gateways,
           \/ Store!Begin(g) \/ Store!LookAt(g) \/ Store!TryAgain(g)
           \/ Store!TimesOut(g) \/ Store!RecordFails(g)
    PROVE  StoreInv'
<1> USE DEF StoreInv
<1>1. CASE Store!Begin(g)
    <2> USE <1>1 DEF Store!Begin
    <2>1. /\ store'[g].process = store[g].process /\ store'[g].pc = "try"
          /\ store'[g].tail = store[g].tail
          /\ \A h \in Gateways \ {g} : store'[h] = store[h]
        BY DEF Store!TypeOK
    <2>2. 0 \in 0..(MaxTries - 1)
        BY DEF Store!StoreLockConstants
    <2>3. Store!TypeOK'
        BY <2>2 DEF Store!TypeOK
    <2>4. QueueInv'
        BY <2>1 DEF QueueInv
    <2> QED BY <2>1, <2>2, <2>3, <2>4, QuietStep
<1>2. CASE Store!LookAt(g)
    <2> USE <1>2 DEF Store!LookAt
    <2> DEFINE at == IF Store!Stale(tasksLock, lockTime) THEN "steal" ELSE "wait"
    <2>1. at \in {"steal", "wait"} /\ (at = "steal" => Store!Stale(tasksLock, lockTime))
        OBVIOUS
    <2>2. Store!Goes(g, at)
        OBVIOUS
    <2> HIDE DEF at
    <2>3. /\ store'[g] = [store[g] EXCEPT !.pc = at]
          /\ \A h \in Gateways \ {g} : store'[h] = store[h]
          /\ Store!TypeOK'
        BY <2>1, <2>2, GoesOn DEF Store!TypeOK
    <2>4. store'[g].process = store[g].process /\ store'[g].pc = at
          /\ store'[g].tail = store[g].tail
        BY <2>3 DEF Store!TypeOK
    <2>5. QueueInv'
        <3>1. store[g].tail # <<>>
            BY DEF QueueInv
        <3> QED BY <2>3, <2>4, <3>1 DEF QueueInv
    <2>6. UNCHANGED <<lockTime, tasksLock, tasks, calls, steals>> /\ store[g].pc = "look"
        OBVIOUS
    <2> QED BY <2>1, <2>3, <2>4, <2>5, <2>6, QuietStep
<1>3. CASE Store!TryAgain(g)
    <2> USE <1>3 DEF Store!TryAgain
    <2>1. /\ store'[g].process = store[g].process /\ store'[g].pc = "try"
          /\ store'[g].tail = store[g].tail
          /\ \A h \in Gateways \ {g} : store'[h] = store[h]
        BY DEF Store!TypeOK
    <2>2. store[g].tries + 1 \in 0..(MaxTries - 1)
        BY StoreFields DEF Store!StoreLockConstants
    <2>3. Store!TypeOK'
        BY <2>2 DEF Store!TypeOK
    <2>4. QueueInv'
        BY <2>1 DEF QueueInv
    <2> QED BY <2>1, <2>2, <2>3, <2>4, QuietStep
<1>4. CASE Store!TimesOut(g) \/ Store!RecordFails(g)
    <2>1. /\ store[g].pc \in {"wait", "record"} /\ store[g].tail # <<>>
          /\ Store!Settle(g, "failed") /\ UNCHANGED <<lockTime, tasksLock, tasks, steals>>
        BY <1>4 DEF Store!TimesOut, Store!RecordFails, QueueInv
    <2>2. /\ store'[g] = [store[g] EXCEPT !.pc = "idle", !.tail = Tail(store[g].tail)]
          /\ \A h \in Gateways \ {g} : store'[h] = store[h]
          /\ Store!TypeOK'
          /\ \A m \in Mutations : calls'[m] \in {"failed", calls[m]}
        BY <2>1, Settles DEF Store!TypeOK, CallStates
    <2>3. store'[g].process = store[g].process /\ store'[g].pc = "idle"
        BY <2>2 DEF Store!TypeOK
    <2>4. QueueInv'
        BY <2>2, <2>3 DEF QueueInv
    <2>5. \A m \in Mutations : calls'[m] \in {"written", "returned"} => calls'[m] = calls[m]
        BY <2>2
    <2> QED BY <2>1, <2>2, <2>3, <2>4, <2>5, QuietStep
<1> QED BY <1>1, <1>2, <1>3, <1>4

\* A call joins a queue.
LEMMA MutateStep ==
    ASSUME StoreInv, NEW g \in Gateways, NEW m \in Mutations, Store!Mutate(g, m)
    PROVE  StoreInv'
<1> USE DEF StoreInv, Store!Mutate
<1>0. Append(store[g].tail, m) \in Seq(Mutations) /\ Append(store[g].tail, m) # <<>>
    BY StoreFields
<1>1. /\ store'[g] = [store[g] EXCEPT !.tail = Append(store[g].tail, m)]
      /\ \A h \in Gateways \ {g} : store'[h] = store[h]
    BY DEF Store!TypeOK
<1>2. Store!TypeOK'
    BY <1>0 DEF Store!TypeOK
<1>3. \A h \in Gateways : /\ store'[h].process = store[h].process /\ store'[h].pc = store[h].pc
                          /\ store'[h].snapshot = store[h].snapshot
                          /\ store[h].tail # <<>> => store'[h].tail # <<>>
    BY <1>0, <1>1 DEF Store!TypeOK
<1>4. QueueInv' /\ HoldersOwn' /\ SnapshotsFresh'
    BY <1>3 DEF QueueInv, HoldersOwn, SnapshotsFresh, Store!Owns, Store!NoLock
<1>5. tasksLock # Store!NoLock => (Store!LiveOwner(tasksLock)' <=> Store!LiveOwner(tasksLock))
    BY <1>3, StoreFields DEF Store!LiveOwner
<1>6. LiveIsFresh' /\ StealersFindDead'
    BY <1>3, <1>5, StoreFields DEF LiveIsFresh, StealersFindDead, Store!NoLock
<1>7. WrittenStay'
    BY DEF WrittenStay, Store!TypeOK
<1> QED BY <1>2, <1>4, <1>6, <1>7

\* A store that goes on keeps its queue.
LEMMA QueueStays ==
    ASSUME QueueInv, NEW g \in Gateways, store'[g].tail = store[g].tail,
           store[g].tail # <<>>, \A h \in Gateways \ {g} : store'[h] = store[h]
    PROVE  QueueInv'
BY DEF QueueInv

\* The lock is created.
LEMMA AcquireStep ==
    ASSUME Store!StoreLockConstants, StoreInv, NEW g \in Gateways, Store!Acquire(g)
    PROVE  StoreInv'
<1> USE DEF StoreInv, Store!Acquire
<1>1. CASE tasksLock = Store!NoLock
    <2> USE <1>1
    <2>1. /\ tasksLock' = [owner |-> g, process |-> store[g].process, written |-> FALSE,
                           expires |-> lockTime + LockTtl]
          /\ Store!Goes(g, "record")
        OBVIOUS
    <2>2. /\ store'[g] = [store[g] EXCEPT !.pc = "record"]
          /\ \A h \in Gateways \ {g} : store'[h] = store[h]
        BY <2>1, GoesOn
    <2>3. lockTime + LockTtl \in 0..(MaxLockTime + LockTtl) /\ lockTime < lockTime + LockTtl
        BY DEF Store!TypeOK, Store!StoreLockConstants
    <2>4. tasksLock' \in Store!LockRecord
        BY <2>1, <2>3, StoreFields DEF Store!LockRecord
    <2>5. Store!TypeOK'
        BY <2>1, <2>4, GoesOn DEF Store!TypeOK
    <2>6. /\ store'[g].pc = "record" /\ store'[g].process = store[g].process
          /\ store'[g].tail = store[g].tail
        BY <2>2 DEF Store!TypeOK
    <2>7. QueueInv' /\ SnapshotsFresh' /\ WrittenStay'
        <3>1. store[g].tail # <<>>
            BY DEF QueueInv
        <3>2. QueueInv'
            BY <2>2, <2>6, <3>1, QueueStays
        <3>3. SnapshotsFresh' /\ WrittenStay'
            BY <2>2, <2>6 DEF SnapshotsFresh, WrittenStay
        <3> QED BY <3>2, <3>3
    <2>8. tasksLock' # Store!NoLock /\ tasksLock'.owner = g
          /\ tasksLock'.process = store[g].process /\ tasksLock'.expires = lockTime + LockTtl
        BY <2>1 DEF Store!NoLock
    <2>9. LiveIsFresh'
        BY <2>3, <2>6, <2>8, StoreFields DEF LiveIsFresh
    <2>10. StealersFindDead'
        BY <2>2, <2>6 DEF StealersFindDead
    <2>11. HoldersOwn'
        BY <2>2, <2>6, <2>8 DEF HoldersOwn, Store!Owns, Store!Holding, Store!NoLock
    <2> QED BY <2>5, <2>7, <2>9, <2>10, <2>11
<1>2. CASE tasksLock # Store!NoLock
    <2>1. Store!Goes(g, "look") /\ UNCHANGED <<lockTime, tasksLock, tasks, calls, steals>>
        BY <1>2
    <2>2. /\ store'[g] = [store[g] EXCEPT !.pc = "look"]
          /\ \A h \in Gateways \ {g} : store'[h] = store[h]
          /\ Store!TypeOK'
        BY <2>1, GoesOn DEF Store!TypeOK
    <2>3. /\ store'[g].pc = "look" /\ store'[g].process = store[g].process
          /\ store'[g].tail = store[g].tail
        BY <2>2 DEF Store!TypeOK
    <2>4. QueueInv'
        <3>1. store[g].tail # <<>>
            BY DEF QueueInv
        <3> QED BY <2>2, <2>3, <3>1, QueueStays
    <2> QED BY <2>1, <2>2, <2>3, <2>4, QuietStep
<1> QED BY <1>1, <1>2

\* A process that goes on under the lock keeps everything but its place.
LEMMA HolderGoesOn ==
    ASSUME StoreInv, NEW g \in Gateways, store[g].pc \in {"record"} \cup Store!Holding,
           NEW pc \in {"read", "write", "release"}, Store!Goes(g, pc)
    PROVE  /\ store'[g].pc = pc /\ store'[g].process = store[g].process
           /\ store'[g].snapshot = store[g].snapshot
           /\ \A h \in Gateways \ {g} : store'[h] = store[h]
           /\ store' \in [Gateways -> [process : 1..MaxProcesses, tries : 0..(MaxTries - 1),
                  pc : {"idle", "dead", "try", "record", "look", "steal", "wait"} \cup Store!Holding,
                  tail : Seq(Mutations), snapshot : SUBSET Mutations]]
           /\ QueueInv'
<1> USE DEF StoreInv
<1>1. /\ store'[g] = [store[g] EXCEPT !.pc = pc]
      /\ \A h \in Gateways \ {g} : store'[h] = store[h]
    BY GoesOn
<1>2. /\ store'[g].pc = pc /\ store'[g].process = store[g].process
      /\ store'[g].snapshot = store[g].snapshot /\ store'[g].tail = store[g].tail
    BY <1>1 DEF Store!TypeOK
<1>3. store[g].tail # <<>>
    BY DEF QueueInv, Store!Holding
<1>4. QueueInv'
    BY <1>1, <1>2, <1>3 DEF QueueInv
<1> QED BY <1>1, <1>2, <1>4, GoesOn

\* Two processes are not under the lock at once, and no live one's lock is
\* about to be taken over, until a second lock is taken over.
LEMMA LockExcludes ==
    ASSUME StoreInv, steals <= 1, NEW g \in Gateways, store[g].pc \in {"record"} \cup Store!Holding
    PROVE  /\ tasksLock # Store!NoLock /\ tasksLock.owner = g
           /\ tasksLock.process = store[g].process /\ Store!LiveOwner(tasksLock)
           /\ \A h \in Gateways \ {g} : store[h].pc \notin {"record"} \cup Store!Holding
           /\ steals = 0 => \A h \in Gateways : store[h].pc # "steal"
<1>1. \A h \in Gateways : store[h].pc \in {"record"} \cup Store!Holding => Store!Owns(h, tasksLock)
    BY DEF StoreInv, HoldersOwn
<1>2. tasksLock # Store!NoLock /\ tasksLock.owner = g /\ tasksLock.process = store[g].process
    BY <1>1 DEF Store!Owns
<1>3. Store!LiveOwner(tasksLock)
    BY <1>2 DEF Store!LiveOwner, Store!Holding
<1>4. \A h \in Gateways \ {g} : store[h].pc \notin {"record"} \cup Store!Holding
    BY <1>1, <1>2 DEF Store!Owns
<1>5. steals = 0 => \A h \in Gateways : store[h].pc # "steal"
    BY <1>3 DEF StoreInv, StealersFindDead
<1> QED BY <1>2, <1>3, <1>4, <1>5

\* The lock of a process that goes on is as live and as fresh as before.
LEMMA LockStaysFresh ==
    ASSUME StoreInv, UNCHANGED lockTime,
           \A h \in Gateways : store'[h].process = store[h].process,
           \A h \in Gateways : store'[h].pc = "dead" <=> store[h].pc = "dead",
           tasksLock' # Store!NoLock => /\ tasksLock # Store!NoLock
                                        /\ tasksLock'.owner = tasksLock.owner
                                        /\ tasksLock'.process = tasksLock.process
                                        /\ tasksLock'.expires = tasksLock.expires
    PROVE  LiveIsFresh'
<1>1. tasksLock # Store!NoLock => tasksLock.owner \in Gateways
    BY StoreFields DEF StoreInv
<1>2. tasksLock' # Store!NoLock => (Store!LiveOwner(tasksLock)' <=> Store!LiveOwner(tasksLock))
    BY <1>1 DEF Store!LiveOwner
<1> QED BY <1>1, <1>2 DEF StoreInv, LiveIsFresh, Store!NoLock

\* The owner's record is in its lock.
LEMMA WriteRecordStep ==
    ASSUME StoreInv, NEW g \in Gateways, Store!WriteRecord(g)
    PROVE  StoreInv'
<1> USE DEF StoreInv
<1>1. /\ store[g].pc = "record" /\ Store!Goes(g, "read")
      /\ UNCHANGED <<lockTime, tasks, calls, steals>>
      /\ tasksLock' = IF Store!Owns(g, tasksLock) THEN [tasksLock EXCEPT !.written = TRUE]
                      ELSE tasksLock
    BY DEF Store!WriteRecord
<1>2. /\ store'[g].pc = "read" /\ store'[g].process = store[g].process
      /\ \A h \in Gateways \ {g} : store'[h] = store[h]
      /\ store' \in [Gateways -> [process : 1..MaxProcesses, tries : 0..(MaxTries - 1),
             pc : {"idle", "dead", "try", "record", "look", "steal", "wait"} \cup Store!Holding,
             tail : Seq(Mutations), snapshot : SUBSET Mutations]]
      /\ QueueInv'
    BY <1>1, HolderGoesOn
<1>3. Store!Owns(g, tasksLock) =>
          /\ tasksLock # Store!NoLock /\ tasksLock' \in Store!LockRecord /\ tasksLock'.written
          /\ tasksLock'.owner = tasksLock.owner /\ tasksLock'.process = tasksLock.process
          /\ tasksLock'.expires = tasksLock.expires
    <2> SUFFICES ASSUME Store!Owns(g, tasksLock)
                 PROVE  /\ tasksLock # Store!NoLock
                        /\ tasksLock' \in Store!LockRecord /\ tasksLock'.written
                        /\ tasksLock'.owner = tasksLock.owner
                        /\ tasksLock'.process = tasksLock.process
                        /\ tasksLock'.expires = tasksLock.expires
        OBVIOUS
    <2>1. tasksLock \in Store!LockRecord /\ tasksLock' = [tasksLock EXCEPT !.written = TRUE]
        BY <1>1 DEF Store!Owns, Store!TypeOK
    <2> QED BY <2>1 DEF Store!LockRecord, Store!Owns
<1>4. Store!TypeOK'
    BY <1>1, <1>2, <1>3 DEF Store!TypeOK
<1>5. LiveIsFresh'
    BY <1>1, <1>2, <1>3, LockStaysFresh DEF Store!Holding
<1>6. ASSUME steals' <= 1 PROVE Store!Owns(g, tasksLock)' /\ tasksLock'.written
    <2>1. Store!Owns(g, tasksLock)
        BY <1>1, <1>6 DEF HoldersOwn
    <2>2. tasksLock' # Store!NoLock
        BY <1>3, <2>1, LockIsNotNone
    <2> QED BY <1>2, <1>3, <2>1, <2>2 DEF Store!Owns
<1>7. ASSUME steals' <= 1
      PROVE  /\ \A h \in Gateways \ {g} : store[h].pc \notin {"record"} \cup Store!Holding
             /\ steals = 0 => \A h \in Gateways : store[h].pc # "steal"
    BY <1>1, <1>7, LockExcludes
<1>8. StealersFindDead'
    <2>1. ASSUME steals' = 0 PROVE \A h \in Gateways : store'[h].pc # "steal"
        <3>1. steals' <= 1 /\ steals = 0
            BY <1>1, <2>1
        <3>2. \A h \in Gateways : store[h].pc # "steal"
            BY <1>7, <3>1
        <3> QED BY <1>2, <3>2
    <2> QED BY <2>1 DEF StealersFindDead
<1>9. HoldersOwn' /\ SnapshotsFresh'
    BY <1>2, <1>6, <1>7 DEF HoldersOwn, SnapshotsFresh, Store!Holding
<1>10. WrittenStay'
    BY <1>1 DEF WrittenStay
<1> QED BY <1>2, <1>4, <1>5, <1>8, <1>9, <1>10

\* A lock is taken over: the first one is a dead process's.
LEMMA StealStep ==
    ASSUME StoreInv, NEW g \in Gateways, Store!StealLock(g)
    PROVE  StoreInv'
<1> USE DEF StoreInv
<1>1. /\ store[g].pc = "steal" /\ Store!Goes(g, "wait") /\ tasksLock' = Store!NoLock
      /\ UNCHANGED <<lockTime, tasks, calls>>
      /\ steals' = IF tasksLock = Store!NoLock THEN steals ELSE steals + 1
      /\ steals \in Nat
    BY DEF Store!StealLock, Store!TypeOK
<1>2. /\ store'[g] = [store[g] EXCEPT !.pc = "wait"]
      /\ \A h \in Gateways \ {g} : store'[h] = store[h]
      /\ store' \in [Gateways -> [process : 1..MaxProcesses, tries : 0..(MaxTries - 1),
             pc : {"idle", "dead", "try", "record", "look", "steal", "wait"} \cup Store!Holding,
             tail : Seq(Mutations), snapshot : SUBSET Mutations]]
    BY <1>1, GoesOn
<1>3. store'[g].pc = "wait" /\ store'[g].tail = store[g].tail
    BY <1>2 DEF Store!TypeOK
<1>4. Store!TypeOK'
    BY <1>1, <1>2 DEF Store!TypeOK
<1>5. QueueInv'
    <2>1. store[g].tail # <<>>
        BY <1>1 DEF QueueInv
    <2> QED BY <1>2, <1>3, <2>1 DEF QueueInv
<1>6. LiveIsFresh'
    BY <1>1 DEF LiveIsFresh
<1>7. StealersFindDead'
    <2>1. ASSUME steals' = 0 PROVE FALSE
        <3>1. steals = 0 /\ tasksLock = Store!NoLock
            BY <1>1, <2>1
        <3> QED BY <1>1, <3>1 DEF StealersFindDead
    <2> QED BY <2>1 DEF StealersFindDead
<1>8. ASSUME steals' <= 1
      PROVE  \A h \in Gateways : store[h].pc \notin {"record"} \cup Store!Holding
    <2>1. steals <= 1 /\ (tasksLock = Store!NoLock \/ steals = 0)
        BY <1>1, <1>8
    <2> QED BY <1>1, <2>1, LockExcludes
<1>9. HoldersOwn' /\ SnapshotsFresh'
    BY <1>2, <1>3, <1>8 DEF HoldersOwn, SnapshotsFresh, Store!Holding
<1>10. WrittenStay'
    <2>1. steals' <= 1 => steals <= 1
        BY <1>1
    <2> QED BY <1>1, <2>1 DEF WrittenStay
<1> QED BY <1>4, <1>5, <1>6, <1>7, <1>9, <1>10

\* The tasks are read, changed, or left as they are, under the lock.
LEMMA MutationSteps ==
    ASSUME StoreInv, NEW g \in Gateways,
           Store!ReadSnapshot(g) \/ Store!WriteSnapshot(g) \/ Store!MutationFails(g)
    PROVE  StoreInv'
<1> USE DEF StoreInv
<1>1. store[g].pc \in {"read", "write"} /\ UNCHANGED <<lockTime, tasksLock, steals>>
    BY DEF Store!ReadSnapshot, Store!WriteSnapshot, Store!MutationFails
<1>2. store[g].tail # <<>>
    BY <1>1 DEF QueueInv
<1>3. Head(store[g].tail) \in Mutations
    BY <1>2, StoreFields, QueueHead
<1>4. /\ store'[g].pc \in {"write", "release"} /\ store'[g].process = store[g].process
      /\ \A h \in Gateways \ {g} : store'[h] = store[h]
      /\ store' \in [Gateways -> [process : 1..MaxProcesses, tries : 0..(MaxTries - 1),
             pc : {"idle", "dead", "try", "record", "look", "steal", "wait"} \cup Store!Holding,
             tail : Seq(Mutations), snapshot : SUBSET Mutations]]
      /\ QueueInv'
      /\ store'[g].pc = "write" => store'[g].snapshot = tasks /\ UNCHANGED tasks
    <2>1. CASE Store!ReadSnapshot(g)
        <3>1. /\ store'[g].pc = "write" /\ store'[g].process = store[g].process
              /\ store'[g].tail = store[g].tail /\ store'[g].snapshot = tasks /\ UNCHANGED tasks
              /\ \A h \in Gateways \ {g} : store'[h] = store[h]
            BY <2>1 DEF Store!ReadSnapshot, Store!TypeOK
        <3>2. store' \in [Gateways -> [process : 1..MaxProcesses, tries : 0..(MaxTries - 1),
                pc : {"idle", "dead", "try", "record", "look", "steal", "wait"} \cup Store!Holding,
                tail : Seq(Mutations), snapshot : SUBSET Mutations]]
            BY <2>1 DEF Store!ReadSnapshot, Store!TypeOK, Store!Holding
        <3>3. QueueInv'
            BY <1>2, <3>1 DEF QueueInv
        <3> QED BY <3>1, <3>2, <3>3
    <2>2. CASE Store!WriteSnapshot(g) \/ Store!MutationFails(g)
        <3>1. Store!Goes(g, "release")
            BY <2>2 DEF Store!WriteSnapshot, Store!MutationFails
        <3> QED BY <1>1, <3>1, HolderGoesOn DEF Store!Holding
    <2> QED BY <2>1, <2>2
<1>5. /\ tasks' \in SUBSET Mutations
      /\ calls' \in [Mutations -> CallStates]
    BY <1>3, StoreFields
       DEF Store!ReadSnapshot, Store!WriteSnapshot, Store!MutationFails, Store!TypeOK, CallStates
<1>6. Store!TypeOK'
    BY <1>1, <1>4, <1>5 DEF Store!TypeOK, CallStates
<1>7. LiveIsFresh'
    BY <1>1, <1>4, LockStaysFresh
<1>8. ASSUME steals' <= 1
      PROVE  /\ \A h \in Gateways \ {g} : store[h].pc \notin {"record"} \cup Store!Holding
             /\ steals = 0 => \A h \in Gateways : store[h].pc # "steal"
             /\ Store!Owns(g, tasksLock) /\ tasksLock.written
             /\ store[g].pc = "write" => store[g].snapshot = tasks
    BY <1>1, <1>8, LockExcludes DEF HoldersOwn, SnapshotsFresh, Store!Holding
<1>9. StealersFindDead'
    <2>1. ASSUME steals' = 0 PROVE \A h \in Gateways : store'[h].pc # "steal"
        <3>1. steals' <= 1 /\ steals = 0
            BY <1>1, <2>1
        <3>2. \A h \in Gateways : store[h].pc # "steal"
            BY <1>8, <3>1
        <3> QED BY <1>4, <3>2
    <2> QED BY <2>1 DEF StealersFindDead
<1>10. HoldersOwn' /\ SnapshotsFresh'
    BY <1>1, <1>4, <1>8 DEF HoldersOwn, SnapshotsFresh, Store!Owns, Store!Holding
<1>11. ASSUME NEW m \in Mutations, steals' <= 1, calls'[m] \in {"written", "returned"}
       PROVE  m \in tasks'
    <2>1. calls[m] \in {"written", "returned"} => m \in tasks
        BY <1>1, <1>11 DEF WrittenStay
    <2>2. CASE Store!ReadSnapshot(g)
        BY <1>11, <2>1, <2>2 DEF Store!ReadSnapshot
    <2>3. CASE Store!WriteSnapshot(g)
        <3>1. tasks' = tasks \cup {Head(store[g].tail)}
            BY <1>8, <1>11, <2>3 DEF Store!WriteSnapshot
        <3>2. m # Head(store[g].tail) => calls'[m] = calls[m]
            BY <2>3 DEF Store!WriteSnapshot, Store!TypeOK
        <3> QED BY <1>11, <2>1, <3>1, <3>2
    <2>4. CASE Store!MutationFails(g)
        <3>1. UNCHANGED tasks
            BY <2>4 DEF Store!MutationFails
        <3>2. calls'[m] \in {"failed", calls[m]}
            BY <2>4 DEF Store!MutationFails, Store!TypeOK
        <3> QED BY <1>11, <2>1, <3>1, <3>2
    <2> QED BY <2>2, <2>3, <2>4
<1> QED BY <1>4, <1>6, <1>7, <1>9, <1>10, <1>11 DEF WrittenStay

\* The lock is given back.
LEMMA ReleaseStep ==
    ASSUME StoreInv, NEW g \in Gateways, Store!ReleaseLock(g)
    PROVE  StoreInv'
<1> USE DEF StoreInv
<1> DEFINE m0 == Head(store[g].tail)
           outcome == IF calls[m0] = "written" THEN "returned" ELSE "failed"
<1>1. /\ store[g].pc = "release" /\ Store!Settle(g, outcome)
      /\ UNCHANGED <<lockTime, tasks, steals>> /\ tasksLock' \in {tasksLock, Store!NoLock}
    BY DEF Store!ReleaseLock
<1>2. store[g].tail # <<>>
    BY <1>1 DEF QueueInv
<1>3. outcome \in CallStates /\ (outcome = "returned" => calls[m0] = "written")
      /\ outcome # "written"
    BY DEF CallStates
<1>4. m0 \in Mutations
    BY <1>2, StoreFields, QueueHead
<1> HIDE DEF outcome
<1>5. /\ store'[g] = [store[g] EXCEPT !.pc = "idle", !.tail = Tail(store[g].tail)]
      /\ \A h \in Gateways \ {g} : store'[h] = store[h]
      /\ store' \in [Gateways -> [process : 1..MaxProcesses, tries : 0..(MaxTries - 1),
             pc : {"idle", "dead", "try", "record", "look", "steal", "wait"} \cup Store!Holding,
             tail : Seq(Mutations), snapshot : SUBSET Mutations]]
      /\ calls' \in [Mutations -> CallStates]
      /\ calls'[m0] = outcome
      /\ \A m \in Mutations \ {m0} : calls'[m] = calls[m]
    BY <1>1, <1>2, <1>3, Settles
<1>6. store'[g].pc = "idle" /\ store'[g].process = store[g].process
    BY <1>5 DEF Store!TypeOK
<1>7. Store!TypeOK'
    BY <1>1, <1>5 DEF Store!TypeOK, CallStates
<1>8. QueueInv'
    BY <1>5, <1>6 DEF QueueInv
<1>9. LiveIsFresh'
    BY <1>1, <1>5, <1>6, LockStaysFresh
<1>10. ASSUME steals' <= 1
       PROVE  /\ \A h \in Gateways \ {g} : store[h].pc \notin {"record"} \cup Store!Holding
              /\ steals = 0 => \A h \in Gateways : store[h].pc # "steal"
    BY <1>1, <1>10, LockExcludes DEF Store!Holding
<1>11. StealersFindDead'
    <2>1. ASSUME steals' = 0 PROVE \A h \in Gateways : store'[h].pc # "steal"
        <3>1. steals' <= 1 /\ steals = 0
            BY <1>1, <2>1
        <3>2. \A h \in Gateways : store[h].pc # "steal"
            BY <1>10, <3>1
        <3> QED BY <1>5, <1>6, <3>2
    <2> QED BY <2>1 DEF StealersFindDead
<1>12. HoldersOwn' /\ SnapshotsFresh'
    BY <1>5, <1>6, <1>10 DEF HoldersOwn, SnapshotsFresh, Store!Holding
<1>13. WrittenStay'
    <2>1. ASSUME NEW m \in Mutations, calls'[m] \in {"written", "returned"}
          PROVE  calls[m] \in {"written", "returned"}
        BY <1>3, <1>5, <2>1
    <2> QED BY <1>1, <2>1 DEF WrittenStay
<1> QED BY <1>7, <1>8, <1>9, <1>11, <1>12, <1>13

\* A process dies with its queue, or another one takes its place: whose lock is
\* left behind stays dead.
LEMMA LifeSteps ==
    ASSUME Store!StoreLockConstants, StoreInv, NEW g \in Gateways, Store!Crash(g) \/ Store!Restart(g)
    PROVE  StoreInv'
<1> USE DEF StoreInv
<1>1. UNCHANGED <<lockTime, tasksLock, tasks, steals>>
    BY DEF Store!Crash, Store!Restart
<1>2. <<>> \in Seq(Mutations) /\ 0 \in 0..(MaxTries - 1)
    BY DEF Store!StoreLockConstants
<1>3. /\ store'[g].process \in 1..MaxProcesses /\ store[g].process <= store'[g].process
      /\ \/ store'[g].pc = "dead" /\ store'[g].process = store[g].process
         \/ store[g].pc = "dead" /\ store'[g].pc = "idle" /\ store'[g].process > store[g].process
      /\ \A h \in Gateways \ {g} : store'[h] = store[h]
    <2>1. CASE Store!Crash(g)
        BY <2>1, StoreFields DEF Store!Crash, Store!Idle, Store!TypeOK
    <2>2. CASE Store!Restart(g)
        BY <2>2, StoreFields DEF Store!Restart, Store!Idle, Store!TypeOK, Store!StoreLockConstants
    <2> QED BY <2>1, <2>2
<1>4. store' \in [Gateways -> [process : 1..MaxProcesses, tries : 0..(MaxTries - 1),
           pc : {"idle", "dead", "try", "record", "look", "steal", "wait"} \cup Store!Holding,
           tail : Seq(Mutations), snapshot : SUBSET Mutations]]
    <2>1. CASE Store!Crash(g)
        BY <1>2, <2>1, StoreFields DEF Store!Crash, Store!Idle, Store!TypeOK, Store!Holding
    <2>2. CASE Store!Restart(g)
        <3>1. store[g].process + 1 \in 1..MaxProcesses
            BY <2>2, StoreFields DEF Store!Restart, Store!StoreLockConstants
        <3> QED BY <1>2, <2>2, <3>1 DEF Store!Restart, Store!Idle, Store!TypeOK, Store!Holding
    <2> QED BY <2>1, <2>2
<1>5. calls' \in [Mutations -> CallStates] /\ \A m \in Mutations : calls'[m] \in {"failed", calls[m]}
    BY DEF Store!Crash, Store!Restart, Store!TypeOK, CallStates
<1>6. Store!TypeOK'
    BY <1>1, <1>4, <1>5 DEF Store!TypeOK, CallStates
<1>7. QueueInv'
    BY <1>3 DEF QueueInv
<1>8. tasksLock # Store!NoLock =>
          /\ tasksLock.owner \in Gateways
          /\ tasksLock.process <= store'[tasksLock.owner].process
          /\ Store!LiveOwner(tasksLock)' => Store!LiveOwner(tasksLock)
    <2> SUFFICES ASSUME tasksLock # Store!NoLock
                 PROVE  /\ tasksLock.owner \in Gateways
                        /\ tasksLock.process <= store'[tasksLock.owner].process
                        /\ Store!LiveOwner(tasksLock)' => Store!LiveOwner(tasksLock)
        OBVIOUS
    <2>1. /\ tasksLock.owner \in Gateways /\ tasksLock.process \in Nat
          /\ tasksLock.process <= store[tasksLock.owner].process
        BY StoreFields DEF LiveIsFresh
    <2>2. CASE tasksLock.owner = g
        BY <1>1, <1>3, <2>1, <2>2, StoreFields DEF Store!LiveOwner
    <2>3. CASE tasksLock.owner # g
        BY <1>1, <1>3, <2>1, <2>3 DEF Store!LiveOwner
    <2> QED BY <2>1, <2>2, <2>3
<1>9. LiveIsFresh' /\ StealersFindDead'
    BY <1>1, <1>3, <1>8 DEF LiveIsFresh, StealersFindDead, Store!NoLock
<1>10. HoldersOwn' /\ SnapshotsFresh'
    BY <1>1, <1>3 DEF HoldersOwn, SnapshotsFresh, Store!Owns, Store!Holding, Store!NoLock
<1>11. WrittenStay'
    <2>1. ASSUME NEW m \in Mutations, calls'[m] \in {"written", "returned"}
          PROVE  calls[m] \in {"written", "returned"}
        BY <1>5, <2>1
    <2> QED BY <1>1, <2>1 DEF WrittenStay
<1> QED BY <1>6, <1>7, <1>9, <1>10, <1>11

\* Time does not pass a live holder's lock.
LEMMA TickStep ==
    ASSUME Store!StoreLockConstants, ~SlowHolders, StoreInv, Store!Tick
    PROVE  StoreInv'
<1> USE DEF StoreInv, Store!Tick
<1>1. Store!TypeOK'
    BY DEF Store!TypeOK, Store!StoreLockConstants
<1>2. tasksLock # Store!NoLock => ~Store!LiveOwner(tasksLock)
    OBVIOUS
<1>3. tasksLock # Store!NoLock => ~Store!LiveOwner(tasksLock)'
    BY <1>2 DEF Store!LiveOwner
<1>4. LiveIsFresh' /\ StealersFindDead'
    BY <1>3 DEF LiveIsFresh, StealersFindDead, Store!NoLock
<1>5. QueueInv' /\ HoldersOwn' /\ SnapshotsFresh' /\ WrittenStay'
    BY DEF QueueInv, HoldersOwn, SnapshotsFresh, WrittenStay, Store!Owns, Store!NoLock
<1> QED BY <1>1, <1>4, <1>5

LEMMA StoreStutter ==
    ASSUME StoreInv, UNCHANGED Store!storeVars
    PROVE  StoreInv'
<1> USE DEF StoreInv, Store!storeVars
<1>1. Store!TypeOK' /\ QueueInv' /\ SnapshotsFresh' /\ WrittenStay'
    BY DEF Store!TypeOK, QueueInv, SnapshotsFresh, WrittenStay
<1>2. HoldersOwn'
    BY DEF HoldersOwn, Store!Owns, Store!NoLock
<1>3. Store!LiveOwner(tasksLock)' <=> Store!LiveOwner(tasksLock)
    BY DEF Store!LiveOwner
<1>4. LiveIsFresh' /\ StealersFindDead'
    BY <1>3 DEF LiveIsFresh, StealersFindDead, Store!NoLock
<1> QED BY <1>1, <1>2, <1>4

LEMMA StoreInvariant ==
    ASSUME Store!StoreLockConstants, ~SlowHolders
    PROVE  Store!Spec => []StoreInv
<1>1. Store!Init => StoreInv
    <2> SUFFICES ASSUME Store!Init PROVE StoreInv
        OBVIOUS
    <2>1. Store!TypeOK
        <3>1. <<>> \in Seq(Mutations) /\ 0 \in 0..(MaxTries - 1) /\ 1 \in 1..MaxProcesses
            BY DEF Store!StoreLockConstants
        <3> QED BY <3>1 DEF Store!Init, Store!Idle, Store!TypeOK, Store!StoreLockConstants
    <2>2. \A g \in Gateways : store[g].pc = "idle"
        BY DEF Store!Init, Store!Idle
    <2> QED BY <2>1, <2>2 DEF Store!Init, StoreInv, QueueInv, LiveIsFresh, StealersFindDead,
                              HoldersOwn, SnapshotsFresh, WrittenStay, Store!Holding
<1>2. StoreInv /\ [Store!Next]_(Store!storeVars) => StoreInv'
    <2> SUFFICES ASSUME StoreInv, [Store!Next]_(Store!storeVars) PROVE StoreInv'
        OBVIOUS
    <2>1. ASSUME NEW g \in Gateways, Store!StoreStep(g) PROVE StoreInv'
        BY <2>1, WaitSteps, AcquireStep, WriteRecordStep, StealStep, MutationSteps, ReleaseStep
           DEF Store!StoreStep
    <2>2. ASSUME NEW g \in Gateways, NEW m \in Mutations, Store!Mutate(g, m) PROVE StoreInv'
        BY <2>2, MutateStep
    <2>3. ASSUME NEW g \in Gateways, Store!RecordFails(g) \/ Store!Crash(g) \/ Store!Restart(g)
          PROVE  StoreInv'
        BY <2>3, WaitSteps, LifeSteps
    <2>4. CASE Store!Tick
        BY <2>4, TickStep
    <2>5. CASE UNCHANGED Store!storeVars
        BY <2>5, StoreStutter
    <2> QED BY <2>1, <2>2, <2>3, <2>4, <2>5 DEF Store!Next
<1> QED BY <1>1, <1>2, PTL DEF Store!Spec

\* A mutation whose promise resolved stays in the file while at most one lock
\* was taken over, for any number of stores, calls, crashes and restarts, where
\* no live holder outlasts its lock (a conjunct of the runs' NothingIsLost).
THEOREM UpdatesStay ==
    ASSUME Store!StoreLockConstants, ~SlowHolders
    PROVE  Store!Spec => []Store!UpdatesAreKept
<1>1. StoreInv => Store!UpdatesAreKept
    <2> SUFFICES ASSUME StoreInv, steals <= 1,
                        NEW m \in {n \in Mutations : calls[n] = "returned"}
                 PROVE  m \in tasks
        BY DEF Store!UpdatesAreKept
    <2> QED BY DEF StoreInv, WrittenStay
<1> QED BY <1>1, StoreInvariant, PTL

-----------------------------------------------------------------------------
(* The buffer of run events. *)

\* A queue that names nobody twice, and whom it names.
Distinct(q) == \A i, j \in 1..Len(q) : q[i] = q[j] => i = j
Named(q) == {q[i] : i \in 1..Len(q)}

LEMMA AppendNames ==
    ASSUME NEW S, NEW q \in Seq(S), NEW p \in S, Distinct(q), p \notin Named(q)
    PROVE  /\ Append(q, p) \in Seq(S)
           /\ Distinct(Append(q, p)) /\ Named(Append(q, p)) = Named(q) \cup {p}
<1> DEFINE longer == Append(q, p)
<1>1. /\ longer \in Seq(S) /\ Len(longer) = Len(q) + 1 /\ Len(q) \in Nat
      /\ \A i \in 1..Len(q) : longer[i] = q[i]
      /\ longer[Len(q) + 1] = p
    OBVIOUS
<1> HIDE DEF longer
<1>2. \A i \in 1..Len(longer) : i \in 1..Len(q) \/ i = Len(q) + 1
    BY <1>1
<1>3. 1..Len(q) \subseteq 1..Len(longer) /\ Len(q) + 1 \in 1..Len(longer)
    BY <1>1
<1>4. \A i \in 1..Len(q) : q[i] # p
    BY DEF Named
<1>5. Distinct(longer)
    <2> SUFFICES ASSUME NEW i \in 1..Len(longer), NEW j \in 1..Len(longer), longer[i] = longer[j]
                 PROVE  i = j
        BY DEF Distinct
    <2>1. CASE i \in 1..Len(q) /\ j \in 1..Len(q)
        BY <1>1, <2>1 DEF Distinct
    <2>2. CASE i = Len(q) + 1 \/ j = Len(q) + 1
        BY <1>1, <1>2, <1>4, <2>2
    <2> QED BY <1>2, <2>1, <2>2
<1>6. Named(longer) = Named(q) \cup {p}
    BY <1>1, <1>2, <1>3 DEF Named
<1> QED BY <1>1, <1>5, <1>6 DEF longer

LEMMA TailNames ==
    ASSUME NEW S, NEW q \in Seq(S), q # <<>>, Distinct(q)
    PROVE  /\ Head(q) \in S /\ Tail(q) \in Seq(S) /\ Distinct(Tail(q))
           /\ Head(q) \in Named(q) /\ Named(Tail(q)) = Named(q) \ {Head(q)}
<1> DEFINE rest == Tail(q)
           h == Head(q)
<1>1. /\ h = q[1] /\ h \in S /\ Len(q) \in Nat \ {0}
      /\ rest \in Seq(S) /\ Len(rest) = Len(q) - 1
      /\ \A i \in 1..Len(rest) : rest[i] = q[i + 1]
    OBVIOUS
<1> HIDE DEF rest, h
<1>2. 1 \in 1..Len(q) /\ \A i \in 1..Len(rest) : i + 1 \in 1..Len(q)
    BY <1>1
<1>3. Distinct(rest)
    <2> SUFFICES ASSUME NEW i \in 1..Len(rest), NEW j \in 1..Len(rest), rest[i] = rest[j]
                 PROVE  i = j
        BY DEF Distinct
    <2>1. i + 1 = j + 1
        BY <1>1, <1>2 DEF Distinct
    <2> QED BY <2>1
<1>4. \A i \in 1..Len(q) : i # 1 => i - 1 \in 1..Len(rest) /\ q[i] = rest[i - 1]
    <2> TAKE i \in 1..Len(q)
    <2> HAVE i # 1
    <2>1. i - 1 \in 1..Len(rest) /\ (i - 1) + 1 = i
        BY <1>1
    <2>2. rest[i - 1] = q[(i - 1) + 1]
        BY <1>1, <2>1
    <2> QED BY <2>1, <2>2
<1>5. Named(rest) \subseteq Named(q) \ {h}
    <2> SUFFICES ASSUME NEW i \in 1..Len(rest) PROVE rest[i] \in Named(q) /\ rest[i] # h
        BY DEF Named
    <2>1. rest[i] = q[i + 1] /\ i + 1 \in 1..Len(q) /\ i + 1 # 1
        BY <1>1, <1>2
    <2> QED BY <1>1, <1>2, <2>1 DEF Named, Distinct
<1>6. Named(q) \ {h} \subseteq Named(rest)
    BY <1>1, <1>4 DEF Named
<1>7. h \in Named(q)
    BY <1>1, <1>2 DEF Named
<1> QED BY <1>1, <1>3, <1>5, <1>6, <1>7 DEF rest, h

\* The event of a producer is in the buffer or at the sink.
InChannel(p) == current = p \/ p \in Named(buffer)

\* What is in the channel, once, is what its producer waits for; nothing is
\* buffered while the sink is idle.
BufferInv ==
    /\ Distinct(buffer) /\ current \notin Named(buffer)
    /\ current = None => buffer = <<>>
    /\ \A p \in Producers : push[p] = "queued" <=> InChannel(p)
    /\ \A p \in Producers : push[p] # "idle" => settled[p] < EventsEach

\* What a flusher found is settled, but for the event that is in the channel.
AwaitedInv ==
    \A f \in Flushers, p \in Producers :
        /\ awaited[f][p] <= settled[p] + 1
        /\ (flush[f] = "done" \/ ~InChannel(p)) => awaited[f][p] <= settled[p]

ChannelInv == Channel!TypeOK /\ BufferInv /\ AwaitedInv

LEMMA ChannelInit ==
    ASSUME Channel!ChannelConstants, Channel!Init
    PROVE  ChannelInv
<1> USE DEF Channel!Init, Channel!ChannelConstants
<1>1. Channel!TypeOK
    BY DEF Channel!TypeOK
<1>2. Named(buffer) = {}
    BY DEF Named
<1>3. BufferInv /\ AwaitedInv
    BY <1>2 DEF BufferInv, AwaitedInv, InChannel, Distinct
<1> QED BY <1>1, <1>3 DEF ChannelInv

LEMMA CapacitySteps ==
    ASSUME Channel!ChannelConstants, ChannelInv, NEW p \in Producers,
           Channel!Push(p) \/ Channel!Resume(p)
    PROVE  ChannelInv'
<1> USE DEF ChannelInv
<1>1. /\ push[p] \in {"idle", "woken"} /\ settled[p] < EventsEach
      /\ \E at \in {"waiting", "cleared"} : push' = [push EXCEPT ![p] = at]
      /\ UNCHANGED <<settled, buffer, current, flush, awaited>>
    BY DEF Channel!Push, Channel!Resume, Channel!AwaitCapacity, BufferInv
<1>2. Channel!TypeOK'
    BY <1>1 DEF Channel!TypeOK
<1>3. BufferInv'
    BY <1>1 DEF BufferInv, InChannel, Channel!TypeOK, Distinct, Named
<1>4. AwaitedInv'
    BY <1>1 DEF AwaitedInv, InChannel, Named
<1> QED BY <1>2, <1>3, <1>4

LEMMA EnqueueStep ==
    ASSUME Channel!ChannelConstants, ChannelInv, NEW p \in Producers, Channel!Enqueue(p)
    PROVE  ChannelInv'
<1> USE DEF ChannelInv
<1>1. /\ push[p] = "cleared" /\ push' = [push EXCEPT ![p] = "queued"]
      /\ UNCHANGED <<settled, flush, awaited>>
    BY DEF Channel!Enqueue
<1>2. p # None /\ ~InChannel(p) /\ settled[p] < EventsEach
    BY <1>1 DEF BufferInv, Channel!ChannelConstants
<1>3. /\ buffer' \in Seq(Producers) /\ current' \in Producers \cup {None}
      /\ Distinct(buffer') /\ current' \notin Named(buffer')
      /\ current' = None => buffer' = <<>>
      /\ \A x \in Producers : InChannel(x)' <=> InChannel(x) \/ x = p
    <2>1. CASE current # None
        <3>1. buffer' = Append(buffer, p) /\ current' = current
            BY <2>1 DEF Channel!Enqueue, Channel!flushing
        <3>2. /\ buffer' \in Seq(Producers) /\ Distinct(buffer')
              /\ Named(buffer') = Named(buffer) \cup {p}
            BY <1>2, <3>1, AppendNames DEF BufferInv, InChannel, Channel!TypeOK
        <3> QED BY <1>2, <2>1, <3>1, <3>2 DEF BufferInv, InChannel, Channel!TypeOK
    <2>2. CASE current = None
        <3>1. buffer' = buffer /\ current' = p
            BY <2>2 DEF Channel!Enqueue, Channel!flushing
        <3>2. current # p /\ \A x \in Producers : current # x
            BY <2>2 DEF Channel!ChannelConstants
        <3> QED BY <1>2, <2>2, <3>1, <3>2 DEF BufferInv, InChannel, Channel!TypeOK
    <2> QED BY <2>1, <2>2
<1>4. Channel!TypeOK'
    BY <1>1, <1>3 DEF Channel!TypeOK
<1>5. BufferInv'
    BY <1>1, <1>2, <1>3 DEF BufferInv, Channel!TypeOK
<1>6. AwaitedInv'
    BY <1>1, <1>3 DEF AwaitedInv
<1> QED BY <1>4, <1>5, <1>6

LEMMA SinkStep ==
    ASSUME Channel!ChannelConstants, ChannelInv, NEW ok \in BOOLEAN, Channel!SinkEnds(ok)
    PROVE  ChannelInv'
<1> USE DEF ChannelInv
<1> PICK p \in Producers : p = current
    BY DEF Channel!SinkEnds, Channel!flushing, Channel!TypeOK
<1>1. /\ settled' = [settled EXCEPT ![p] = settled[p] + 1] /\ UNCHANGED awaited
      /\ push' = [q \in Producers |->
                    IF q = p THEN "idle"
                    ELSE IF push[q] = "waiting" /\ Len(buffer) <= LowWatermark THEN "woken"
                    ELSE push[q]]
      /\ flush' = [f \in Flushers |->
                    IF flush[f] = "waiting" /\ buffer = <<>> THEN "done" ELSE flush[f]]
    BY DEF Channel!SinkEnds, Channel!Settle, Channel!ResolveIdle
<1>2. p # None /\ InChannel(p) /\ push[p] = "queued" /\ settled[p] < EventsEach
    BY DEF BufferInv, InChannel, Channel!ChannelConstants
<1>3. /\ buffer' \in Seq(Producers) /\ current' \in Producers \cup {None}
      /\ Distinct(buffer') /\ current' \notin Named(buffer')
      /\ current' = None => buffer' = <<>>
      /\ \A x \in Producers : InChannel(x)' <=> InChannel(x) /\ x # p
    <2>1. CASE buffer = <<>>
        <3>1. buffer' = buffer /\ current' = None /\ Named(buffer) = {}
            BY <2>1 DEF Channel!SinkEnds, Named
        <3> QED BY <1>2, <2>1, <3>1 DEF BufferInv, InChannel, Channel!TypeOK, Channel!ChannelConstants
    <2>2. CASE buffer # <<>>
        <3>1. buffer' = Tail(buffer) /\ current' = Head(buffer)
            BY <2>2 DEF Channel!SinkEnds
        <3>2. /\ current' \in Producers /\ buffer' \in Seq(Producers) /\ Distinct(buffer')
              /\ current' \in Named(buffer) /\ Named(buffer') = Named(buffer) \ {current'}
            BY <2>2, <3>1, TailNames DEF BufferInv, Channel!TypeOK
        <3> QED BY <1>2, <3>2 DEF BufferInv, InChannel, Channel!ChannelConstants
    <2> QED BY <2>1, <2>2
<1>4. /\ push' \in [Producers -> {"idle", "waiting", "woken", "cleared", "queued"}]
      /\ settled' \in [Producers -> 0..EventsEach]
      /\ flush' \in [Flushers -> {"idle", "waiting", "done"}]
    BY <1>1, <1>2 DEF Channel!TypeOK, Channel!ChannelConstants
<1>5. Channel!TypeOK'
    BY <1>1, <1>3, <1>4 DEF Channel!TypeOK
<1>6. \A x \in Producers : /\ push'[x] = "queued" <=> push[x] = "queued" /\ x # p
                           /\ push'[x] # "idle" => push[x] # "idle" /\ settled'[x] = settled[x]
    BY <1>1 DEF Channel!TypeOK
<1>7. BufferInv'
    BY <1>3, <1>6 DEF BufferInv
<1>8. ASSUME NEW f \in Flushers, NEW x \in Producers
      PROVE  /\ awaited'[f][x] <= settled'[x] + 1
             /\ (flush'[f] = "done" \/ ~InChannel(x)') => awaited'[f][x] <= settled'[x]
    <2>1. /\ awaited[f][x] \in Nat /\ settled[x] \in Nat /\ awaited' = awaited
          /\ awaited[f][x] <= settled[x] + 1
          /\ (flush[f] = "done" \/ ~InChannel(x)) => awaited[f][x] <= settled[x]
        BY <1>1 DEF Channel!TypeOK, AwaitedInv
    <2>2. CASE x = p
        BY <1>1, <2>1, <2>2 DEF Channel!TypeOK
    <2>3. CASE x # p
        <3>1. settled'[x] = settled[x] /\ (InChannel(x)' <=> InChannel(x))
            BY <1>1, <1>3, <2>3 DEF Channel!TypeOK
        <3>2. flush'[f] = "done" => flush[f] = "done" \/ buffer = <<>>
            BY <1>1
        <3>3. buffer = <<>> => ~InChannel(x)
            BY <2>3 DEF InChannel, Named
        <3> QED BY <2>1, <3>1, <3>2, <3>3
    <2> QED BY <2>2, <2>3
<1>9. AwaitedInv'
    BY <1>8 DEF AwaitedInv
<1> QED BY <1>5, <1>7, <1>9

LEMMA FlushStep ==
    ASSUME Channel!ChannelConstants, ChannelInv, NEW f \in Flushers, Channel!Flush(f)
    PROVE  ChannelInv'
<1> USE DEF ChannelInv
<1>1. /\ flush' = [flush EXCEPT ![f] = IF current # None THEN "waiting" ELSE "done"]
      /\ awaited' = [awaited EXCEPT ![f] =
             [p \in Producers |-> IF Channel!Holds(p) THEN settled[p] + 1 ELSE settled[p]]]
      /\ UNCHANGED <<push, settled, buffer, current>>
    BY DEF Channel!Flush, Channel!flushing
<1>2. \A p \in Producers : Channel!Holds(p) <=> InChannel(p)
    BY DEF Channel!Holds, InChannel, Named
<1>3. \A p \in Producers : InChannel(p) => settled[p] + 1 \in 0..EventsEach
    BY DEF BufferInv, Channel!TypeOK, Channel!ChannelConstants
<1>4. Channel!TypeOK'
    BY <1>1, <1>2, <1>3 DEF Channel!TypeOK
<1>5. BufferInv'
    BY <1>1 DEF BufferInv, InChannel, Distinct, Named
<1>6. \A p \in Producers : InChannel(p)' <=> InChannel(p)
    BY <1>1 DEF InChannel, Named
<1>7. current = None => \A p \in Producers : ~InChannel(p)
    BY DEF BufferInv, InChannel, Named, Channel!ChannelConstants
<1>8. ASSUME NEW g \in Flushers, NEW p \in Producers
      PROVE  /\ awaited'[g][p] <= settled'[p] + 1
             /\ (flush'[g] = "done" \/ ~InChannel(p)') => awaited'[g][p] <= settled'[p]
    <2>1. CASE g = f
        <3>1. awaited'[g][p] = IF InChannel(p) THEN settled[p] + 1 ELSE settled[p]
            BY <1>1, <1>2, <2>1 DEF Channel!TypeOK
        <3>2. flush'[g] = "done" => current = None
            BY <1>1, <2>1 DEF Channel!TypeOK
        <3>3. settled'[p] = settled[p] /\ settled[p] \in Nat
            BY <1>1 DEF Channel!TypeOK
        <3> QED BY <1>6, <1>7, <3>1, <3>2, <3>3
    <2>2. CASE g # f
        <3>1. awaited'[g] = awaited[g] /\ flush'[g] = flush[g] /\ settled' = settled
            BY <1>1, <2>2 DEF Channel!TypeOK
        <3> QED BY <1>6, <3>1 DEF AwaitedInv
    <2> QED BY <2>1, <2>2
<1>9. AwaitedInv'
    BY <1>8 DEF AwaitedInv
<1> QED BY <1>4, <1>5, <1>9

LEMMA ChannelInvariant ==
    ASSUME Channel!ChannelConstants
    PROVE  Channel!Spec => []ChannelInv
<1>1. Channel!Init => ChannelInv
    BY ChannelInit
<1>2. ChannelInv /\ [Channel!Next]_(Channel!vars) => ChannelInv'
    <2> SUFFICES ASSUME ChannelInv, [Channel!Next]_(Channel!vars) PROVE ChannelInv'
        OBVIOUS
    <2>1. CASE UNCHANGED Channel!vars
        BY <2>1 DEF Channel!vars, ChannelInv, Channel!TypeOK, BufferInv, AwaitedInv, InChannel,
                    Distinct, Named
    <2> QED BY <2>1, CapacitySteps, EnqueueStep, SinkStep, FlushStep DEF Channel!Next
<1> QED BY <1>1, <1>2, PTL DEF Channel!Spec

\* No event is lost and none is written twice, for any producers, flushers and
\* size of the buffer, whether appends fail or not: an event is in the channel,
\* once, exactly while its producer waits for it, and flushEvents returns when
\* what it found is settled (a conjunct of the runs' NothingIsLost).
THEOREM EventsStay ==
    ASSUME Channel!ChannelConstants
    PROVE  Channel!Spec => []Channel!EventsAreKept
<1>1. ASSUME ChannelInv, NEW p \in Producers
      PROVE  Channel!Cardinality({i \in 1..Len(buffer) : buffer[i] = p})
                + (IF current = p THEN 1 ELSE 0) = IF push[p] = "queued" THEN 1 ELSE 0
    <2> DEFINE places == {i \in 1..Len(buffer) : buffer[i] = p}
    <2>1. Channel!Cardinality(places) = Cardinality(places)
        BY DEF Channel!Cardinality, Cardinality
    <2>2. CASE p \in Named(buffer)
        <3>1. PICK i \in 1..Len(buffer) : buffer[i] = p
            BY <2>2 DEF Named
        <3>2. places = {i}
            BY <1>1, <3>1 DEF ChannelInv, BufferInv, Distinct
        <3>3. Cardinality(places) = 1
            BY <3>2, FS_Singleton
        <3>4. push[p] = "queued" /\ current # p
            BY <1>1, <2>2 DEF ChannelInv, BufferInv, InChannel
        <3> QED BY <2>1, <3>3, <3>4
    <2>3. CASE p \notin Named(buffer)
        <3>1. places = {}
            BY <2>3 DEF Named
        <3>2. Cardinality(places) = 0
            BY <3>1, FS_EmptySet
        <3>3. push[p] = "queued" <=> current = p
            BY <1>1, <2>3 DEF ChannelInv, BufferInv, InChannel
        <3> QED BY <2>1, <3>2, <3>3
    <2> QED BY <2>2, <2>3
<1>2. ASSUME ChannelInv, NEW f \in Flushers, NEW p \in Producers, flush[f] = "done"
      PROVE  settled[p] >= awaited[f][p]
    <2>1. awaited[f][p] <= settled[p] /\ awaited[f][p] \in Nat /\ settled[p] \in Nat
        BY <1>2 DEF ChannelInv, AwaitedInv, Channel!TypeOK
    <2> QED BY <2>1
<1>3. ChannelInv => Channel!EventsAreKept
    BY <1>1, <1>2 DEF Channel!EventsAreKept
<1> QED BY <1>3, ChannelInvariant, PTL

-----------------------------------------------------------------------------
(* The life of a gateway process. *)

\* Bootstrap starts the http server and the engine under the lock, which only
\* the exit gives back, having stopped both.
LockCoversBoot ==
    /\ boot \in Server!BootPlaces
    /\ boot \in {"recover", "serve", "engine", "up"} /\ ~Server!Exited => pidLock
    /\ boot \in {"lock", "recover", "serve", "failed"} \/ Server!Exited => ~serving /\ ~engine

\* The process's own steps of bootstrap and shutdown, as far as the lock goes.
LEMMA LockCovers ==
    ASSUME Server!ServerConstants, FailsAt \subseteq {"recover"}, LockCoversBoot,
           [Server!Next]_(Server!serverVars)
    PROVE  LockCoversBoot'
<1> USE DEF LockCoversBoot, Server!BootPlaces, Server!Exited
<1>1. CASE Server!AcquireLock \/ Server!LockRefused \/ Server!RecoverRuns
    BY <1>1 DEF Server!AcquireLock, Server!LockRefused, Server!RecoverRuns, Server!Boots
<1>2. CASE Server!Serve \/ Server!StartEngine
    BY <1>2 DEF Server!Serve, Server!StartEngine, Server!Boots
<1>3. CASE Server!BootFails
    BY <1>3 DEF Server!BootFails
<1>4. CASE \E c \in Children : Server!ChildExits(c) \/ Server!RestartChild(c)
    BY <1>4 DEF Server!ChildExits, Server!RestartChild
<1>5. CASE Server!Signal \/ Server!KillChildren \/ Server!CloseServer
    BY <1>5 DEF Server!Signal, Server!KillChildren, Server!CloseServer
<1>6. CASE Server!ReleaseAndExit
    BY <1>6 DEF Server!ReleaseAndExit
<1>7. CASE UNCHANGED Server!serverVars
    BY <1>7 DEF Server!serverVars
<1> QED BY <1>1, <1>2, <1>3, <1>4, <1>5, <1>6, <1>7 DEF Server!Next, Server!ShutdownStep

\* Unless the engine's start throws, what serves or runs tasks holds the lock,
\* wherever signals come and other steps of bootstrap fail (a conjunct of the
\* runs' OneGateway).
THEOREM ServingIsLocked ==
    ASSUME Server!ServerConstants, FailsAt \subseteq {"recover"}
    PROVE  Server!Spec => []Server!ServingHoldsLock
<1>1. Server!Init => LockCoversBoot
    BY DEF Server!Init, LockCoversBoot, Server!BootPlaces
<1>2. LockCoversBoot /\ [Server!Next]_(Server!serverVars) => LockCoversBoot'
    BY LockCovers
<1>3. LockCoversBoot => Server!ServingHoldsLock
    BY DEF LockCoversBoot, Server!ServingHoldsLock, Server!BootPlaces
<1> QED BY <1>1, <1>2, <1>3, PTL DEF Server!Spec

\* No restart is due once shutdown has begun, which finds every child that is
\* alive among the tracked ones; it begins when the children are started, or
\* when none will be.
ChildrenInv ==
    /\ child \in [Children -> [alive : BOOLEAN, timer : BOOLEAN, attempt : 0..MaxRestarts]]
    /\ \A c \in Children : child[c].alive \/ child[c].timer => c \in tracked
    /\ \A c \in Children : child[c].timer => c \in Restarted /\ child[c].attempt < MaxRestarts
    /\ down # "none" => boot \in {"engine", "up", "failed"} /\ \A c \in Children : ~child[c].timer
    /\ down \in {"close", "release", "exited"} => \A c \in Children : ~child[c].alive

LEMMA ChildrenStep ==
    ASSUME Server!ServerConstants, SignalsAt \subseteq {"engine", "up", "failed"}, ChildrenInv,
           [Server!Next]_(Server!serverVars)
    PROVE  ChildrenInv'
<1> USE DEF ChildrenInv
<1>1. CASE \/ Server!AcquireLock \/ Server!LockRefused \/ Server!RecoverRuns
           \/ Server!StartEngine \/ Server!BootFails
    <2>1. UNCHANGED <<down, child, tracked>>
        BY <1>1 DEF Server!AcquireLock, Server!LockRefused, Server!RecoverRuns,
                    Server!StartEngine, Server!BootFails
    <2>2. down # "none" => boot' \in {"engine", "up", "failed"}
        BY <1>1 DEF Server!AcquireLock, Server!LockRefused, Server!RecoverRuns,
                    Server!StartEngine, Server!BootFails, Server!Boots
    <2> QED BY <2>1, <2>2
<1>2. CASE Server!Serve
    <2>1. /\ child' = [c \in Children |-> Server!SpawnManaged(c)] /\ tracked' = Children
          /\ boot = "serve" /\ UNCHANGED down
        BY <1>2 DEF Server!Serve, Server!Boots
    <2>2. down = "none"
        BY <2>1
    <2>3. \A c \in Children : child[c].attempt \in 0..MaxRestarts
        OBVIOUS
    <2> QED BY <2>1, <2>2, <2>3 DEF Server!SpawnManaged
<1>3. ASSUME NEW c \in Children, Server!ChildExits(c)
      PROVE  ChildrenInv'
    <2> DEFINE rearmed == c \in Restarted /\ down = "none" /\ child[c].attempt < MaxRestarts
    <2>1. rearmed \in BOOLEAN
        OBVIOUS
    <2>2. /\ child[c].alive /\ UNCHANGED <<boot, down, tracked>>
          /\ child' = [child EXCEPT ![c] = [alive |-> FALSE, attempt |-> child[c].attempt,
                                            timer |-> rearmed]]
        BY <1>3 DEF Server!ChildExits
    <2>3. /\ child'[c].alive = FALSE /\ child'[c].attempt = child[c].attempt
          /\ child'[c].timer = rearmed
          /\ \A d \in Children \ {c} : child'[d] = child[d]
        BY <2>2
    <2>4. child' \in [Children -> [alive : BOOLEAN, timer : BOOLEAN, attempt : 0..MaxRestarts]]
        BY <2>1, <2>2
    <2> QED BY <2>2, <2>3, <2>4
<1>4. ASSUME NEW c \in Children, Server!RestartChild(c)
      PROVE  ChildrenInv'
    <2>1. /\ child[c].timer /\ down = "none"
          /\ child' = [child EXCEPT ![c] = [alive |-> TRUE, timer |-> FALSE,
                                            attempt |-> child[c].attempt + 1]]
          /\ tracked' = tracked \cup {c} /\ UNCHANGED <<boot, down>>
        BY <1>4 DEF Server!RestartChild
    <2>2. child[c].attempt + 1 \in 0..MaxRestarts
        BY <2>1 DEF Server!ServerConstants
    <2>3. child' \in [Children -> [alive : BOOLEAN, timer : BOOLEAN, attempt : 0..MaxRestarts]]
        BY <2>1, <2>2
    <2> QED BY <2>1, <2>3
<1>5. CASE Server!Signal
    <2>1. /\ down' = "stop" /\ boot \in {"engine", "up", "failed"} /\ UNCHANGED <<boot, tracked>>
          /\ child' = [c \in Children |-> [child[c] EXCEPT !.timer = FALSE]]
        BY <1>5 DEF Server!Signal
    <2>2. \A c \in Children : /\ ~child'[c].timer /\ child'[c].alive = child[c].alive
                              /\ child'[c] \in [alive : BOOLEAN, timer : BOOLEAN, attempt : 0..MaxRestarts]
        BY <2>1
    <2>3. child' \in [Children -> [alive : BOOLEAN, timer : BOOLEAN, attempt : 0..MaxRestarts]]
        BY <2>1, <2>2
    <2> QED BY <2>1, <2>2, <2>3
<1>6. CASE Server!KillChildren
    <2>1. /\ down = "stop" /\ down' = "close" /\ UNCHANGED <<boot, tracked>>
          /\ child' = [c \in Children |-> IF c \in tracked THEN [child[c] EXCEPT !.alive = FALSE]
                                          ELSE child[c]]
        BY <1>6 DEF Server!KillChildren
    <2>2. \A c \in Children : /\ ~child'[c].alive /\ ~child'[c].timer
                              /\ child'[c] \in [alive : BOOLEAN, timer : BOOLEAN, attempt : 0..MaxRestarts]
        BY <2>1
    <2>3. child' \in [Children -> [alive : BOOLEAN, timer : BOOLEAN, attempt : 0..MaxRestarts]]
        BY <2>1, <2>2
    <2> QED BY <2>1, <2>2, <2>3
<1>7. CASE Server!CloseServer \/ Server!ReleaseAndExit
    BY <1>7 DEF Server!CloseServer, Server!ReleaseAndExit
<1>8. CASE UNCHANGED Server!serverVars
    BY <1>8 DEF Server!serverVars
<1> QED
    BY <1>1, <1>2, <1>3, <1>4, <1>5, <1>6, <1>7, <1>8 DEF Server!Next, Server!ShutdownStep

\* Where no signal comes before the children are started, none outlives its
\* gateway, whenever they exit and are restarted (a conjunct of the runs'
\* OneGateway).
THEOREM ChildrenEnd ==
    ASSUME Server!ServerConstants, SignalsAt \subseteq {"engine", "up", "failed"}
    PROVE  Server!Spec => []Server!ChildrenDieWithServer
<1>1. Server!Init => ChildrenInv
    BY DEF Server!Init, Server!ServerConstants, ChildrenInv
<1>2. ChildrenInv /\ [Server!Next]_(Server!serverVars) => ChildrenInv'
    BY ChildrenStep
<1>3. ChildrenInv => Server!ChildrenDieWithServer
    BY DEF ChildrenInv, Server!ChildrenDieWithServer, Server!Exited
<1> QED BY <1>1, <1>2, <1>3, PTL DEF Server!Spec

-----------------------------------------------------------------------------
(* Extensions. *)

Current == Extension!Digest(ext.manifest, ext.entry)
Whole   == Extension!Nothing \notin {ext.manifest, ext.entry}

UseType ==
    [op : {"none", "create", "write", "enable", "disable", "load"},
     at : {"none", "begin", "manifest", "entry", "disable", "inspect", "digest", "done",
           "approve", "compare", "again", "import"},
     version : Versions \cup {Extension!Nothing},
     seen : [manifest : Versions \cup {Extension!Nothing}, entry : Versions \cup {Extension!Nothing}]]

ExtType ==
    /\ use \in [Users -> UseType]
    /\ ext \in [dir : BOOLEAN, manifest : Versions \cup {Extension!Nothing},
                entry : Versions \cup {Extension!Nothing},
                enabled : [manifest : Versions \cup {Extension!Nothing},
                           entry : Versions \cup {Extension!Nothing}]]

\* Where each command may be.
PlacesInv ==
    \A u \in Users :
        /\ use[u].at \in {"manifest", "entry", "disable"} => use[u].op \in Extension!Writers
        /\ use[u].at = "approve" => use[u].op = "enable"
        /\ use[u].at \in {"compare", "again", "import"} => use[u].op = "load"

\* Nobody writes while others read.
ReadersAlone ==
    \A u, v \in Users : use[u].op \in Extension!Readers => use[v].op \notin Extension!Writers

\* What a load has seen is what the files still hold, and it goes on with what
\* was approved.
LoadsSeeFiles ==
    \A u \in Users : use[u].op = "load" =>
        /\ use[u].at = "digest" => Whole /\ use[u].seen.entry = ext.entry
        /\ use[u].at = "compare" => Whole /\ use[u].seen = Current
        /\ use[u].at = "again" => Current \in approvals
        /\ use[u].at = "import" => Current \in approvals /\ use[u].seen = Current

\* What is enabled was approved.
EnabledInv == ext.enabled \in approvals \cup {Extension!NoDigest}

ExtInv ==
    ExtType /\ PlacesInv /\ ReadersAlone /\ LoadsSeeFiles /\ EnabledInv /\ Extension!LoadedIsApproved

\* One command goes on: what others rely on stays, unless it writes, or takes
\* back what is enabled.
LEMMA UseGoesOn ==
    ASSUME ExtInv, NEW u \in Users, NEW r \in UseType, use' = [use EXCEPT ![u] = r],
           ext' = ext, approvals' = approvals, extLoaded' = extLoaded,
           r.op \in {"none", use[u].op},
           r.at \in {"manifest", "entry", "disable"} => r.op \in Extension!Writers,
           r.at = "approve" => r.op = "enable",
           r.at \in {"compare", "again", "import"} => r.op = "load",
           r.op = "load" =>
               /\ r.at = "digest" => Whole /\ r.seen.entry = ext.entry
               /\ r.at = "compare" => Whole /\ r.seen = Current
               /\ r.at = "again" => Current \in approvals
               /\ r.at = "import" => Current \in approvals /\ r.seen = Current
    PROVE  ExtInv'
<1> USE DEF ExtInv
<1>1. /\ use' \in [Users -> UseType] /\ use'[u] = r
      /\ \A v \in Users \ {u} : use'[v] = use[v]
    BY DEF ExtType
<1>2. ExtType'
    BY <1>1 DEF ExtType
<1>3. PlacesInv'
    BY <1>1 DEF PlacesInv
<1>4. ReadersAlone'
    BY <1>1 DEF ReadersAlone, Extension!Readers, Extension!Writers
<1>5. LoadsSeeFiles'
    BY <1>1 DEF LoadsSeeFiles, Whole, Current, Extension!Digest
<1>6. EnabledInv' /\ Extension!LoadedIsApproved'
    BY DEF EnabledInv, Extension!LoadedIsApproved
<1> QED BY <1>2, <1>3, <1>4, <1>5, <1>6

LEMMA NoUseTyped == Extension!NoUse \in UseType /\ Extension!NoUse.op = "none"
                    /\ Extension!NoUse.at = "none"
BY DEF Extension!NoUse, Extension!NoDigest, Extension!Digest, UseType

LEMMA ReadingSteps ==
    ASSUME ExtInv, NEW u \in Users,
           \/ Extension!Killed(u) \/ Extension!Inspect(u) \/ Extension!DigestRead(u)
           \/ Extension!Written(u) \/ Extension!Compare(u) \/ Extension!InspectAgain(u)
    PROVE  ExtInv'
<1> USE DEF ExtInv
<1>1. use[u] \in UseType /\ ext.manifest \in Versions \cup {Extension!Nothing}
      /\ ext.entry \in Versions \cup {Extension!Nothing}
    BY DEF ExtType
<1>2. CASE Extension!Ends(u) /\ UNCHANGED <<ext, extLoaded, approvals>>
    BY <1>2, NoUseTyped, UseGoesOn DEF Extension!Ends
<1>3. CASE Extension!Inspect(u) /\ ~Extension!Ends(u)
    <2> DEFINE r == [use[u] EXCEPT !.at = "digest",
                                   !.seen = Extension!Digest(Extension!Nothing, ext.entry)]
    <2>1. /\ use' = [use EXCEPT ![u] = r] /\ UNCHANGED <<ext, extLoaded, approvals>> /\ Whole
        BY <1>3 DEF Extension!Inspect, Whole
    <2>2. r \in UseType /\ r.op = use[u].op /\ r.at = "digest" /\ r.seen.entry = ext.entry
        BY <1>1 DEF UseType, Extension!Digest
    <2> HIDE DEF r
    <2> QED BY <2>1, <2>2, UseGoesOn
<1>4. CASE Extension!DigestRead(u)
    <2> DEFINE seen == [use[u].seen EXCEPT !.manifest = ext.manifest]
               r == [use[u] EXCEPT !.at = Extension!Then(u), !.seen = seen]
    <2>1. /\ use' = [use EXCEPT ![u] = r] /\ UNCHANGED <<ext, extLoaded, approvals>>
          /\ use[u].at = "digest"
        BY <1>4 DEF Extension!DigestRead
    <2>2. Extension!Then(u) \in {"approve", "compare", "done"}
          /\ (Extension!Then(u) = "approve" => use[u].op = "enable")
          /\ (Extension!Then(u) = "compare" => use[u].op = "load")
        BY DEF Extension!Then
    <2>3. r \in UseType /\ r.op = use[u].op /\ r.at = Extension!Then(u) /\ r.seen = seen
        BY <1>1, <2>2 DEF UseType
    <2>4. use[u].op = "load" => Whole /\ seen = Current
        BY <1>1, <2>1 DEF LoadsSeeFiles, Current, Extension!Digest, UseType
    <2> HIDE DEF r, seen
    <2> QED BY <2>1, <2>2, <2>3, <2>4, UseGoesOn
<1>5. CASE Extension!Compare(u) /\ ~Extension!Ends(u)
    <2> DEFINE r == [use[u] EXCEPT !.at = "again"]
    <2>1. /\ use' = [use EXCEPT ![u] = r] /\ UNCHANGED <<ext, extLoaded, approvals>>
          /\ use[u].at = "compare" /\ ext.enabled = use[u].seen
        BY <1>5 DEF Extension!Compare, Extension!IsEnabled, Extension!Goes
    <2>2. r \in UseType /\ r.op = use[u].op /\ r.at = "again" /\ use[u].op = "load"
        BY <1>1, <2>1 DEF UseType, PlacesInv
    <2>3. Current # Extension!NoDigest /\ ext.enabled = Current
        BY <2>1, <2>2 DEF LoadsSeeFiles, Whole, Current, Extension!Digest, Extension!NoDigest
    <2>4. Current \in approvals
        BY <2>3 DEF EnabledInv
    <2> HIDE DEF r
    <2> QED BY <2>1, <2>2, <2>4, UseGoesOn
<1>6. CASE Extension!InspectAgain(u) /\ ~Extension!Ends(u)
    <2> DEFINE r == [use[u] EXCEPT !.at = "import", !.seen = Current]
    <2>1. /\ use' = [use EXCEPT ![u] = r] /\ UNCHANGED <<ext, extLoaded, approvals>>
          /\ use[u].at = "again"
        BY <1>6 DEF Extension!InspectAgain, Current
    <2>2. /\ r \in UseType /\ r.op = use[u].op /\ r.at = "import" /\ r.seen = Current
          /\ use[u].op = "load"
        BY <1>1, <2>1 DEF UseType, PlacesInv, Current, Extension!Digest
    <2>3. Current \in approvals
        BY <2>1, <2>2 DEF LoadsSeeFiles
    <2> HIDE DEF r
    <2> QED BY <2>1, <2>2, <2>3, UseGoesOn
<1> QED BY <1>2, <1>3, <1>4, <1>5, <1>6
        DEF Extension!Killed, Extension!Inspect, Extension!Written, Extension!Compare,
            Extension!InspectAgain

\* While a command writes, nothing loads.
LEMMA WriterGoesOn ==
    ASSUME ExtInv, NEW u \in Users, NEW r \in UseType, use' = [use EXCEPT ![u] = r],
           use[u].op \in Extension!Writers, r.op \in {"none", use[u].op},
           r.at \in {"manifest", "entry", "disable"} => r.op \in Extension!Writers,
           r.at \notin {"approve", "compare", "again", "import"},
           NEW e, ext' = e, e.enabled \in {ext.enabled, Extension!NoDigest},
           ExtType => e \in [dir : BOOLEAN, manifest : Versions \cup {Extension!Nothing},
                             entry : Versions \cup {Extension!Nothing},
                             enabled : [manifest : Versions \cup {Extension!Nothing},
                                        entry : Versions \cup {Extension!Nothing}]],
           approvals' = approvals, extLoaded' = extLoaded
    PROVE  ExtInv'
<1> USE DEF ExtInv
<1>1. /\ use' \in [Users -> UseType] /\ use'[u] = r
      /\ \A v \in Users \ {u} : use'[v] = use[v]
    BY DEF ExtType
<1>2. ExtType'
    BY <1>1 DEF ExtType
<1>3. PlacesInv'
    BY <1>1 DEF PlacesInv
<1>4. ReadersAlone'
    BY <1>1 DEF ReadersAlone, Extension!Readers, Extension!Writers
<1>5. \A v \in Users : use'[v].op # "load"
    BY <1>1 DEF ReadersAlone, Extension!Readers, Extension!Writers
<1>6. LoadsSeeFiles'
    BY <1>5 DEF LoadsSeeFiles
<1>7. EnabledInv' /\ Extension!LoadedIsApproved'
    BY DEF EnabledInv, Extension!LoadedIsApproved
<1> QED BY <1>2, <1>3, <1>4, <1>6, <1>7

LEMMA WritingSteps ==
    ASSUME ExtInv, NEW u \in Users,
           \/ Extension!MakeDirectory(u) \/ Extension!WriteManifest(u) \/ Extension!WriteEntry(u)
           \/ (Extension!Disable(u) /\ use[u].op # "disable")
    PROVE  ExtInv'
<1> DEFINE r(at) == [use[u] EXCEPT !.at = at]
<1>1. use[u] \in UseType /\ use[u].version \in Versions \cup {Extension!Nothing}
    BY DEF ExtInv, ExtType, UseType
<1>2. \A at \in {"manifest", "entry", "disable", "inspect"} :
        r(at) \in UseType /\ r(at).op = use[u].op /\ r(at).at = at
    BY <1>1 DEF UseType
<1>3. use[u].op \in Extension!Writers
    BY DEF ExtInv, PlacesInv, Extension!MakeDirectory, Extension!WriteManifest,
           Extension!WriteEntry, Extension!Disable
<1>4. /\ UNCHANGED <<extLoaded, approvals>>
      /\ ext'.enabled \in {ext.enabled, Extension!NoDigest}
    BY DEF ExtInv, ExtType, Extension!MakeDirectory, Extension!WriteManifest,
           Extension!WriteEntry, Extension!Disable
<1>5. ExtType => ext' \in [dir : BOOLEAN, manifest : Versions \cup {Extension!Nothing},
                         entry : Versions \cup {Extension!Nothing},
                         enabled : [manifest : Versions \cup {Extension!Nothing},
                                    entry : Versions \cup {Extension!Nothing}]]
    <2> SUFFICES ASSUME ExtType PROVE ext' \in [dir : BOOLEAN,
                    manifest : Versions \cup {Extension!Nothing},
                    entry : Versions \cup {Extension!Nothing},
                    enabled : [manifest : Versions \cup {Extension!Nothing},
                               entry : Versions \cup {Extension!Nothing}]]
        OBVIOUS
    <2>1. CASE ext' = [ext EXCEPT !.dir = TRUE]
        BY <2>1 DEF ExtType
    <2>2. CASE ext' = [ext EXCEPT !.manifest = use[u].version]
        BY <1>1, <2>2 DEF ExtType
    <2>3. CASE ext' = [ext EXCEPT !.entry = use[u].version]
        BY <1>1, <2>3 DEF ExtType
    <2>4. CASE ext' = [ext EXCEPT !.enabled = Extension!NoDigest]
        BY <2>4 DEF ExtType, Extension!NoDigest, Extension!Digest
    <2> QED BY <2>1, <2>2, <2>3, <2>4 DEF Extension!MakeDirectory, Extension!WriteManifest,
                Extension!WriteEntry, Extension!Disable
<1>6. CASE use' = [use EXCEPT ![u] = Extension!NoUse]
    BY <1>3, <1>4, <1>5, <1>6, NoUseTyped, WriterGoesOn
<1>7. CASE \E at \in {"manifest", "entry", "disable", "inspect"} : use' = [use EXCEPT ![u] = r(at)]
    <2>1. PICK at \in {"manifest", "entry", "disable", "inspect"} : use' = [use EXCEPT ![u] = r(at)]
        BY <1>7
    <2>2. r(at) \in UseType /\ r(at).op = use[u].op /\ r(at).at = at
        BY <1>2
    <2> HIDE DEF r
    <2> QED BY <1>3, <1>4, <1>5, <2>1, <2>2, WriterGoesOn
<1> QED BY <1>6, <1>7 DEF Extension!MakeDirectory, Extension!WriteManifest, Extension!WriteEntry,
            Extension!Disable, Extension!Goes, Extension!Ends

\* What is enabled is seen and recorded; taking it back changes no file.
LEMMA EnablingSteps ==
    ASSUME ExtInv, NEW u \in Users,
           Extension!Approve(u) \/ (Extension!Disable(u) /\ use[u].op = "disable")
    PROVE  ExtInv'
<1> USE DEF ExtInv
<1>1. /\ use' = [use EXCEPT ![u] = Extension!NoUse] /\ extLoaded' = extLoaded
      /\ approvals \subseteq approvals' /\ ext' = [ext EXCEPT !.enabled = ext'.enabled]
      /\ ext'.enabled \in approvals' \cup {Extension!NoDigest}
      /\ ext'.enabled \in {use[u].seen, Extension!NoDigest}
    BY DEF ExtType, Extension!Approve, Extension!Disable, Extension!Ends
<1>2. /\ use' \in [Users -> UseType] /\ use'[u] = Extension!NoUse
      /\ \A v \in Users \ {u} : use'[v] = use[v]
    BY <1>1, NoUseTyped DEF ExtType
<1>3. Whole' = Whole /\ Current' = Current /\ ext'.entry = ext.entry
    BY <1>1 DEF ExtType, Whole, Current
<1>4. ext'.enabled \in [manifest : Versions \cup {Extension!Nothing},
                       entry : Versions \cup {Extension!Nothing}]
    BY <1>1 DEF ExtType, UseType, Extension!NoDigest, Extension!Digest
<1>5. ExtType'
    BY <1>1, <1>2, <1>4 DEF ExtType
<1>6. PlacesInv' /\ ReadersAlone'
    BY <1>2, NoUseTyped DEF PlacesInv, ReadersAlone, Extension!Readers, Extension!Writers
<1>7. LoadsSeeFiles'
    BY <1>1, <1>2, <1>3, NoUseTyped DEF LoadsSeeFiles
<1>8. EnabledInv' /\ Extension!LoadedIsApproved'
    BY <1>1 DEF EnabledInv, Extension!LoadedIsApproved
<1> QED BY <1>5, <1>6, <1>7, <1>8

\* What is imported is the entry of the files as they were looked at last.
LEMMA ImportStep ==
    ASSUME ExtInv, NEW u \in Users, Extension!Import(u)
    PROVE  ExtInv'
<1> USE DEF ExtInv
<1>1. use' = [use EXCEPT ![u] = Extension!NoUse] /\ UNCHANGED <<ext, approvals>>
    BY DEF Extension!Import, Extension!Ends
<1>2. Current \in approvals /\ use[u].seen = Current /\ Current.entry = ext.entry
    BY DEF Extension!Import, PlacesInv, LoadsSeeFiles, Current, Extension!Digest
<1>3. Extension!LoadedIsApproved'
    BY <1>1, <1>2 DEF Extension!Import, Extension!LoadedIsApproved
<1>4. /\ use' \in [Users -> UseType] /\ use'[u] = Extension!NoUse
      /\ \A v \in Users \ {u} : use'[v] = use[v]
    BY <1>1, NoUseTyped DEF ExtType
<1>5. ExtType' /\ EnabledInv'
    BY <1>1, <1>4 DEF ExtType, EnabledInv
<1>6. PlacesInv' /\ ReadersAlone'
    BY <1>4, NoUseTyped DEF PlacesInv, ReadersAlone, Extension!Readers, Extension!Writers
<1>7. LoadsSeeFiles'
    BY <1>1, <1>4, NoUseTyped DEF LoadsSeeFiles, Whole, Current
<1> QED BY <1>3, <1>5, <1>6, <1>7

\* A command waits with its writes for those who read, and the other way round.
LEMMA BeginStep ==
    ASSUME ExtInv, ~WritesOverlap, NEW u \in Users,
           NEW o \in {"create", "write", "enable", "disable", "load"},
           NEW version \in Versions \cup {Extension!Nothing}, Extension!Begins(u, o, version)
    PROVE  ExtInv'
<1> USE DEF ExtInv
<1> DEFINE r == [Extension!NoUse EXCEPT !.op = o, !.at = "begin", !.version = version]
<1>1. /\ use' = [use EXCEPT ![u] = r] /\ UNCHANGED <<ext, extLoaded, approvals>>
      /\ o \in Extension!Writers =>
            \A v \in Users : use[v].op \notin Extension!Readers \cup Extension!Writers
      /\ o \in Extension!Readers => \A v \in Users : use[v].op \notin Extension!Writers
    BY DEF Extension!Begins, Extension!Busy
<1>2. r \in UseType /\ r.op = o /\ r.at = "begin"
    BY DEF UseType, Extension!NoUse, Extension!NoDigest, Extension!Digest
<1> HIDE DEF r
<1>3. /\ use' \in [Users -> UseType] /\ use'[u] = r
      /\ \A v \in Users \ {u} : use'[v] = use[v]
    BY <1>1, <1>2 DEF ExtType
<1>4. ExtType' /\ EnabledInv' /\ Extension!LoadedIsApproved'
    BY <1>1, <1>3 DEF ExtType, EnabledInv, Extension!LoadedIsApproved
<1>5. PlacesInv'
    BY <1>2, <1>3 DEF PlacesInv
<1>6. ReadersAlone'
    BY <1>1, <1>2, <1>3 DEF ReadersAlone, Extension!Readers, Extension!Writers
<1>7. LoadsSeeFiles'
    BY <1>1, <1>2, <1>3 DEF LoadsSeeFiles, Whole, Current
<1> QED BY <1>4, <1>5, <1>6, <1>7

\* Every gateway loads only what was approved, as it was approved
\* (discoverEnabled of extensions/manager.ts), whatever commands come, end or are
\* killed, in any number, as long as no write overlaps an approval or a load.
THEOREM ApprovedIsLoaded ==
    ASSUME Extension!ExtensionConstants, ~WritesOverlap
    PROVE  Extension!Spec => []Extension!LoadedIsApproved
<1>1. Extension!Init => ExtInv
    BY DEF Extension!Init, ExtInv, ExtType, PlacesInv, ReadersAlone, LoadsSeeFiles, EnabledInv,
           Extension!LoadedIsApproved, Extension!NoUse, Extension!NoDigest, Extension!Digest,
           UseType, Extension!Readers, Extension!Writers
<1>2. ExtInv /\ [Extension!Next]_(Extension!extVars) => ExtInv'
    <2> SUFFICES ASSUME ExtInv, [Extension!Next]_(Extension!extVars) PROVE ExtInv'
        OBVIOUS
    <2>1. CASE UNCHANGED Extension!extVars
        BY <2>1 DEF Extension!extVars, ExtInv, ExtType, PlacesInv, ReadersAlone, LoadsSeeFiles,
            EnabledInv, Extension!LoadedIsApproved, Whole, Current
    <2>2. ASSUME NEW u \in Users, Extension!UseStep(u) \/ Extension!Killed(u) PROVE ExtInv'
        <3>1. CASE \/ Extension!Killed(u) \/ Extension!Inspect(u) \/ Extension!DigestRead(u)
                   \/ Extension!Written(u) \/ Extension!Compare(u) \/ Extension!InspectAgain(u)
            BY <3>1, ReadingSteps
        <3>2. CASE \/ Extension!MakeDirectory(u) \/ Extension!WriteManifest(u)
                   \/ Extension!WriteEntry(u)
            BY <3>2, WritingSteps
        <3>3. CASE Extension!Disable(u)
            <4>1. CASE use[u].op = "disable"
                BY <3>3, <4>1, EnablingSteps
            <4>2. CASE use[u].op # "disable"
                BY <3>3, <4>2, WritingSteps
            <4> QED BY <4>1, <4>2
        <3>5. CASE Extension!Approve(u)
            BY <3>5, EnablingSteps
        <3>4. CASE Extension!Import(u)
            BY <3>4, ImportStep
        <3> QED BY <2>2, <3>1, <3>2, <3>3, <3>4, <3>5 DEF Extension!UseStep
    <2>3. ASSUME NEW u \in Users, NEW o \in {"create", "write", "enable", "disable", "load"},
                 NEW version \in Versions \cup {Extension!Nothing},
                 Extension!Begins(u, o, version)
          PROVE  ExtInv'
        BY <2>3, BeginStep
    <2> QED BY <2>1, <2>2, <2>3 DEF Extension!Next
<1>3. ExtInv => Extension!LoadedIsApproved
    BY DEF ExtInv
<1> QED BY <1>1, <1>2, <1>3, PTL DEF Extension!Spec

-----------------------------------------------------------------------------
(* Agent events. *)

EventPlaces == {"new", "unauthorized", "invalid", "append", "route", "markdown", "plain", "hook",
                "ok", "error"}

\* What a post has done by each step of its route: nothing is sent before it is
\* decided, and only what is pushed comes to the notifier.
RoutedInv ==
    /\ event \in [Events -> [pc : {"new"}] \cup
                             [pc : EventPlaces, type : Ingress!Types, ping : BOOLEAN]]
    /\ pushes \in [Events -> Nat]
    /\ \A e \in Events :
        /\ event[e].pc \in {"new", "append", "route"} => pushes[e] = 0
        /\ event[e].pc \in {"markdown", "plain"} => Ingress!Pushes(event[e])
        /\ event[e].pc \in {"hook", "ok"} => (pushes[e] > 0 <=> Ingress!Pushes(event[e]))
        /\ event[e].pc = "ok" => e \in nudged

\* A post moves on, with the messages it has sent.
LEMMA PostMoves ==
    ASSUME RoutedInv, NEW e \in Events,
           NEW r \in [pc : EventPlaces, type : Ingress!Types, ping : BOOLEAN],
           event' = [event EXCEPT ![e] = r],
           NEW n \in Nat, pushes' = [pushes EXCEPT ![e] = n], nudged \subseteq nudged',
           r.pc \in {"new", "append", "route"} => n = 0,
           r.pc \in {"markdown", "plain"} => Ingress!Pushes(r),
           r.pc \in {"hook", "ok"} => (n > 0 <=> Ingress!Pushes(r)),
           r.pc = "ok" => e \in nudged'
    PROVE  RoutedInv'
<1>1. /\ event'[e] = r /\ pushes'[e] = n
      /\ \A f \in Events \ {e} : event'[f] = event[f] /\ pushes'[f] = pushes[f]
    BY DEF RoutedInv
<1>2. /\ event' \in [Events -> [pc : {"new"}] \cup
                              [pc : EventPlaces, type : Ingress!Types, ping : BOOLEAN]]
      /\ pushes' \in [Events -> Nat]
    BY DEF RoutedInv
<1>3. ASSUME NEW f \in Events
      PROVE  /\ event'[f].pc \in {"new", "append", "route"} => pushes'[f] = 0
             /\ event'[f].pc \in {"markdown", "plain"} => Ingress!Pushes(event'[f])
             /\ event'[f].pc \in {"hook", "ok"} => (pushes'[f] > 0 <=> Ingress!Pushes(event'[f]))
             /\ event'[f].pc = "ok" => f \in nudged'
    <2>1. CASE f = e
        BY <1>1, <2>1
    <2>2. CASE f # e
        BY <1>1, <2>2 DEF RoutedInv
    <2> QED BY <2>1, <2>2
<1> QED BY <1>2, <1>3 DEF RoutedInv, Ingress!Pushes

\* The step of a post on its way.
LEMMA RouteSteps ==
    ASSUME RoutedInv, NEW e \in Events, Ingress!EventStep(e)
    PROVE  RoutedInv'
<1> DEFINE r(pc) == [event[e] EXCEPT !.pc = pc]
<1>1. event[e].pc \in {"append", "route", "markdown", "plain", "hook"}
    BY DEF Ingress!EventStep, Ingress!AppendEvent, Ingress!Route, Ingress!Notify,
           Ingress!NotifyFails, Ingress!CallHook
<1>2. event[e] \in [pc : EventPlaces, type : Ingress!Types, ping : BOOLEAN] /\ pushes[e] \in Nat
    BY <1>1 DEF RoutedInv
<1>3. \A pc \in EventPlaces :
        /\ r(pc) \in [pc : EventPlaces, type : Ingress!Types, ping : BOOLEAN] /\ r(pc).pc = pc
        /\ Ingress!Pushes(r(pc)) <=> Ingress!Pushes(event[e])
    BY <1>2 DEF Ingress!Pushes
<1>4. /\ pushes = [pushes EXCEPT ![e] = pushes[e]]
      /\ \A pc : Ingress!Goes(e, pc) => event' = [event EXCEPT ![e] = r(pc)]
    BY DEF RoutedInv, Ingress!Goes
<1>5. CASE Ingress!AppendEvent(e)
    BY <1>2, <1>3, <1>4, <1>5, PostMoves DEF Ingress!AppendEvent, RoutedInv, EventPlaces
<1>6. CASE Ingress!Route(e)
    <2>1. nudged' = nudged /\ pushes' = [pushes EXCEPT ![e] = 0]
        BY <1>6 DEF Ingress!Route, RoutedInv
    <2>2. CASE Ingress!Pushes(event[e])
        <3> DEFINE x == r("markdown")
        <3>1. event' = [event EXCEPT ![e] = x]
            BY <1>4, <1>6, <2>2 DEF Ingress!Route
        <3>2. /\ x \in [pc : EventPlaces, type : Ingress!Types, ping : BOOLEAN]
              /\ x.pc = "markdown" /\ Ingress!Pushes(x)
            BY <1>3, <2>2 DEF EventPlaces
        <3> HIDE DEF x
        <3> QED BY <2>1, <3>1, <3>2, PostMoves
    <2>3. CASE ~Ingress!Pushes(event[e])
        <3> DEFINE x == r("hook")
        <3>1. event' = [event EXCEPT ![e] = x]
            BY <1>4, <1>6, <2>3 DEF Ingress!Route
        <3>2. /\ x \in [pc : EventPlaces, type : Ingress!Types, ping : BOOLEAN]
              /\ x.pc = "hook" /\ (0 > 0 <=> Ingress!Pushes(x))
            <4>1. /\ x \in [pc : EventPlaces, type : Ingress!Types, ping : BOOLEAN]
                  /\ x.pc = "hook" /\ ~Ingress!Pushes(x)
                BY <1>3, <2>3 DEF EventPlaces
            <4>2. ~(0 > 0)
                OBVIOUS
            <4> QED BY <4>1, <4>2
        <3> HIDE DEF x
        <3> QED BY <2>1, <3>1, <3>2, PostMoves
    <2> QED BY <2>2, <2>3
<1>7. CASE Ingress!Notify(e) \/ Ingress!NotifyFails(e)
    <2>1. PICK pc \in {"hook", "plain", "error"}, n \in {pushes[e], pushes[e] + 1} :
            /\ event' = [event EXCEPT ![e] = r(pc)]
            /\ pushes' = [pushes EXCEPT ![e] = n]
            /\ pc = "hook" => n = pushes[e] + 1
        BY <1>4, <1>7 DEF Ingress!Notify, Ingress!NotifyFails
    <2>2. Ingress!Pushes(event[e]) /\ nudged' = nudged
        BY <1>7 DEF Ingress!Notify, Ingress!NotifyFails, RoutedInv
    <2>3. pc \in EventPlaces /\ n \in Nat /\ (pc = "hook" => n > 0)
        BY <1>2, <2>1 DEF EventPlaces
    <2> HIDE DEF r
    <2> QED BY <1>3, <2>1, <2>2, <2>3, PostMoves
<1>8. CASE Ingress!CallHook(e)
    <2>1. /\ event' = [event EXCEPT ![e] = r("ok")] /\ pushes' = pushes
          /\ nudged' = nudged \cup {e} /\ (pushes[e] > 0 <=> Ingress!Pushes(event[e]))
        BY <1>4, <1>8 DEF Ingress!CallHook, RoutedInv
    <2> DEFINE x == r("ok")
    <2>2. /\ x \in [pc : EventPlaces, type : Ingress!Types, ping : BOOLEAN]
          /\ x.pc = "ok" /\ (Ingress!Pushes(x) <=> Ingress!Pushes(event[e]))
        BY <1>3 DEF EventPlaces
    <2>3. event' = [event EXCEPT ![e] = x] /\ pushes' = [pushes EXCEPT ![e] = pushes[e]]
        BY <1>4, <2>1
    <2> HIDE DEF x
    <2> QED BY <1>2, <2>1, <2>2, <2>3, PostMoves
<1> QED BY <1>5, <1>6, <1>7, <1>8 DEF Ingress!EventStep

LEMMA RoutedStays ==
    ASSUME RoutedInv, [Ingress!Next]_(Ingress!eventVars) PROVE RoutedInv'
<1>1. CASE UNCHANGED Ingress!eventVars
    BY <1>1 DEF Ingress!eventVars, RoutedInv, Ingress!Pushes
<1>2. ASSUME NEW e \in Events, Ingress!Post(e) PROVE RoutedInv'
    <2>1. PICK r \in [pc : {"unauthorized", "invalid", "append"}, type : Ingress!Types,
                      ping : BOOLEAN] : event' = [event EXCEPT ![e] = r]
        BY <1>2 DEF Ingress!Post
    <2>2. pushes' = [pushes EXCEPT ![e] = 0] /\ nudged' = nudged
        BY <1>2 DEF Ingress!Post, RoutedInv
    <2>3. /\ r \in [pc : EventPlaces, type : Ingress!Types, ping : BOOLEAN]
          /\ r.pc \in {"unauthorized", "invalid", "append"}
        BY DEF EventPlaces
    <2> QED BY <2>1, <2>2, <2>3, PostMoves
<1>3. ASSUME NEW e \in Events, Ingress!EventStep(e) PROVE RoutedInv'
    BY <1>3, RouteSteps
<1> QED BY <1>1, <1>2, <1>3 DEF Ingress!Next

\* A post that is answered with ok was pushed exactly if its type asks for it,
\* whatever the notifier did, and the scheduler's hook was called (a conjunct of
\* the runs' NothingIsLost).
THEOREM AnswersAreRouted == Ingress!Spec => []Ingress!AnsweredIsRouted
<1>1. Ingress!Init => RoutedInv
    BY DEF Ingress!Init, RoutedInv
<1>2. RoutedInv /\ [Ingress!Next]_(Ingress!eventVars) => RoutedInv'
    BY RoutedStays
<1>3. RoutedInv => Ingress!AnsweredIsRouted
    BY DEF RoutedInv, Ingress!AnsweredIsRouted, Ingress!Pushes
<1> QED BY <1>1, <1>2, <1>3, PTL DEF Ingress!Spec

-----------------------------------------------------------------------------
(* Tool approvals: the inductive invariant. *)

\* Tokens are handed out in order, so the next one is new.
TokensInOrder == \E n \in Nat : n <= MaxRequests /\ Approvals!Given = 1..n

\* No request outlives its time, counted from now.
RequestsAreShort == \A t \in Approvals!Given : request[t].expiresAt <= now + TTL

\* An approval that stands ends with a request for it that was granted.
ApprovalsAreGranted ==
    \A k \in Approvals!Keys :
        approved[k] # 0 => \E t \in Approvals!GrantsOf(k) : request[t].expiresAt = approved[k]

\* What ran, and what still may, was granted one by one.
GrantsCover ==
    \A k \in Approvals!Keys :
        /\ IsFiniteSet(uses[k])
        /\ Cardinality(uses[k]) + (IF approved[k] # 0 THEN 1 ELSE 0) <= Cardinality(Approvals!GrantsOf(k))

\* Each use fell into the life of a granted request.
UsesInTime ==
    \A k \in Approvals!Keys : \A u \in uses[k] :
        \E t \in Approvals!GrantsOf(k) : u[1] < request[t].expiresAt /\ request[t].expiresAt <= u[1] + TTL

ApprovalsInv ==
    /\ Approvals!TypeOK /\ TokensInOrder /\ RequestsAreShort /\ ApprovalsAreGranted
    /\ GrantsCover /\ UsesInTime

-----------------------------------------------------------------------------
(* Tool approvals: what every call begins with. *)

\* The instance counts as everybody does.
LEMMA ApprovalsCount == \A S : Approvals!Cardinality(S) = Cardinality(S)
BY DEF Approvals!Cardinality, Approvals!IsFiniteSet, Cardinality, IsFiniteSet

\* The tokens handed out are numbers, and so are the times of their requests.
LEMMA Shapes ==
    ASSUME Approvals!ApprovalConstants, ApprovalsInv
    PROVE  /\ now \in Nat /\ TTL \in Nat /\ MaxTime \in Nat /\ MaxRequests \in Nat /\ now <= MaxTime
           /\ IsFiniteSet(Approvals!Given)
           /\ \A t \in Approvals!Given : request[t].key \in Approvals!Keys /\ request[t].expiresAt \in Nat
           /\ \A k \in Approvals!Keys : /\ Approvals!GrantsOf(k) \subseteq Approvals!Given
                                        /\ IsFiniteSet(Approvals!GrantsOf(k))
                                        /\ Cardinality(Approvals!GrantsOf(k)) \in Nat
                                        /\ Cardinality(uses[k]) \in Nat
<1>1. PICK n \in Nat : n <= MaxRequests /\ Approvals!Given = 1..n
    BY DEF ApprovalsInv, TokensInOrder
<1>2. IsFiniteSet(Approvals!Given)
    BY <1>1, FS_Interval
<1>3. \A k \in Approvals!Keys : Approvals!GrantsOf(k) \subseteq Approvals!Given
    BY DEF ApprovalsInv, Approvals!TypeOK, Approvals!GrantsOf
<1>4. \A k \in Approvals!Keys : IsFiniteSet(Approvals!GrantsOf(k)) /\ Cardinality(Approvals!GrantsOf(k)) \in Nat
    BY <1>2, <1>3, FS_Subset, FS_CardinalityType
<1>5. \A k \in Approvals!Keys : Cardinality(uses[k]) \in Nat
    BY FS_CardinalityType DEF ApprovalsInv, GrantsCover
<1>6. \A t \in Approvals!Given : request[t].key \in Approvals!Keys /\ request[t].expiresAt \in Nat
    BY DEF ApprovalsInv, Approvals!TypeOK, Approvals!Request
<1>7. now \in Nat /\ TTL \in Nat /\ MaxTime \in Nat /\ MaxRequests \in Nat /\ now <= MaxTime
    BY DEF ApprovalsInv, Approvals!TypeOK, Approvals!ApprovalConstants
<1> QED BY <1>2, <1>3, <1>4, <1>5, <1>6, <1>7

\* Pruning keeps what has not expired.
LEMMA Prunes ==
    ASSUME Approvals!ApprovalConstants, ApprovalsInv
    PROVE  /\ Approvals!Pending \subseteq pending
           /\ \A t \in Approvals!Pending : now < request[t].expiresAt
           /\ Approvals!Approved \in [Approvals!Keys -> 0..(MaxTime + TTL)]
           /\ \A k \in Approvals!Keys :
                  Approvals!Approved[k] # 0 => Approvals!Approved[k] = approved[k] /\ now < approved[k]
<1>1. \A k \in Approvals!Keys : approved[k] \in 0..(MaxTime + TTL)
    BY DEF ApprovalsInv, Approvals!TypeOK
<1>2. MaxTime \in Nat /\ TTL \in Nat /\ now \in Nat
    BY Shapes
<1>3. Approvals!Approved \in [Approvals!Keys -> 0..(MaxTime + TTL)]
    BY <1>1, <1>2 DEF Approvals!Approved
<1>4. \A k \in Approvals!Keys :
          Approvals!Approved[k] # 0 => Approvals!Approved[k] = approved[k] /\ now < approved[k]
    BY <1>1, <1>2 DEF Approvals!Approved
<1>5. Approvals!Pending \subseteq pending /\ \A t \in Approvals!Pending : now < request[t].expiresAt
    BY <1>2, Shapes DEF Approvals!Pending, ApprovalsInv, Approvals!TypeOK
<1> QED BY <1>3, <1>4, <1>5

-----------------------------------------------------------------------------
(* Tool approvals: the calls. *)

LEMMA ApprovalsBegin ==
    ASSUME Approvals!ApprovalConstants, Approvals!Init PROVE ApprovalsInv
<1>1. Approvals!Given = {} /\ Approvals!Given = 1..0
    BY DEF Approvals!Init, Approvals!Given
<1>2. Approvals!TypeOK
    BY <1>1 DEF Approvals!Init, Approvals!TypeOK, Approvals!ApprovalConstants
<1>3. TokensInOrder
    BY <1>1 DEF TokensInOrder, Approvals!ApprovalConstants
<1>4. RequestsAreShort /\ ApprovalsAreGranted /\ UsesInTime
    BY <1>1 DEF Approvals!Init, RequestsAreShort, ApprovalsAreGranted, UsesInTime
<1>5. GrantsCover
    <2>1. ASSUME NEW k \in Approvals!Keys PROVE Approvals!GrantsOf(k) = {} /\ uses[k] = {} /\ approved[k] = 0
        BY DEF Approvals!Init, Approvals!GrantsOf
    <2> QED BY <2>1, FS_EmptySet DEF GrantsCover
<1> QED BY <1>2, <1>3, <1>4, <1>5 DEF ApprovalsInv

\* A step that grants nothing, uses nothing and only prunes the approvals keeps
\* the invariant, whatever it does to the requests that are pending.
LEMMA PruningKeeps ==
    ASSUME Approvals!ApprovalConstants, ApprovalsInv,
           now' \in {now, now + 1}, now' <= MaxTime,
           request' = request, pending' \subseteq pending,
           granted' = granted, uses' = uses,
           approved' \in {approved, Approvals!Approved}
    PROVE  ApprovalsInv'
<1>1. /\ now' \in Nat /\ now <= now' /\ Approvals!Given' = Approvals!Given
      /\ \A k \in Approvals!Keys : Approvals!GrantsOf(k)' = Approvals!GrantsOf(k)
    BY Shapes DEF Approvals!GrantsOf, Approvals!Given
<1>2. approved' \in [Approvals!Keys -> 0..(MaxTime + TTL)]
    BY Prunes DEF ApprovalsInv, Approvals!TypeOK
<1>3. \A k \in Approvals!Keys : approved'[k] # 0 => approved'[k] = approved[k]
    BY Prunes
<1>4. Approvals!TypeOK'
    BY <1>1, <1>2, Shapes DEF ApprovalsInv, Approvals!TypeOK
<1>5. TokensInOrder'
    BY <1>1 DEF ApprovalsInv, TokensInOrder
<1>6. RequestsAreShort'
    BY <1>1, Shapes DEF ApprovalsInv, RequestsAreShort
<1>7. ApprovalsAreGranted'
    BY <1>1, <1>3 DEF ApprovalsInv, ApprovalsAreGranted
<1>8. GrantsCover'
    BY <1>1, <1>3, Shapes DEF ApprovalsInv, GrantsCover
<1>9. UsesInTime'
    BY <1>1 DEF ApprovalsInv, UsesInTime
<1> QED BY <1>4, <1>5, <1>6, <1>7, <1>8, <1>9 DEF ApprovalsInv

LEMMA GateKeeps ==
    ASSUME Approvals!ApprovalConstants, ApprovalsInv, NEW k \in Approvals!Keys, Approvals!Gate(k)
    PROVE  ApprovalsInv'
<1>1. CASE \E t \in Approvals!Pending : request[t].key = k
    <2>1. request' = request /\ pending' = Approvals!Pending
        BY <1>1 DEF Approvals!Gate
    <2> QED BY <2>1, Prunes, Shapes, PruningKeeps DEF Approvals!Gate
<1>2. CASE ~\E t \in Approvals!Pending : request[t].key = k
    <2> DEFINE token == Cardinality(Approvals!Given) + 1
    <2>1. PICK n \in Nat : n <= MaxRequests /\ Approvals!Given = 1..n
        BY DEF ApprovalsInv, TokensInOrder
    <2>2. Cardinality(Approvals!Given) = n
        BY <2>1, FS_Interval
    <2>3. /\ token \in Approvals!Tokens /\ token \notin Approvals!Given
          /\ Approvals!Given \cup {token} = 1..(n + 1) /\ n + 1 <= MaxRequests
        BY <1>2, <2>1, <2>2, Shapes, ApprovalsCount DEF Approvals!Gate, Approvals!Tokens
    <2>4. /\ request' = [t \in Approvals!Given \cup {token} |->
                IF t \in Approvals!Given THEN request[t] ELSE [key |-> k, expiresAt |-> now + TTL]]
          /\ pending' = Approvals!Pending \cup {token} /\ approved' = Approvals!Approved
          /\ now' = now /\ granted' = granted /\ uses' = uses
        BY <1>2, ApprovalsCount DEF Approvals!Gate
    <2> HIDE DEF token
    <2>5. /\ Approvals!Given' = Approvals!Given \cup {token}
          /\ \A t \in Approvals!Given : request'[t] = request[t]
          /\ request'[token] = [key |-> k, expiresAt |-> now + TTL]
        BY <2>3, <2>4 DEF Approvals!Given
    <2>6. \A x \in Approvals!Keys : Approvals!GrantsOf(x)' = Approvals!GrantsOf(x)
        BY <2>4, <2>5 DEF Approvals!GrantsOf, ApprovalsInv, Approvals!TypeOK
    <2>7. Approvals!TypeOK'
        <3>1. request' \in [Approvals!Given' -> Approvals!Request]
            BY <2>4, <2>5, Shapes DEF ApprovalsInv, Approvals!TypeOK, Approvals!Request
        <3>2. /\ Approvals!Given' \subseteq Approvals!Tokens /\ pending' \subseteq Approvals!Given'
              /\ granted' \subseteq Approvals!Given' \ pending'
            BY <2>3, <2>4, <2>5, Prunes DEF ApprovalsInv, Approvals!TypeOK
        <3> QED BY <2>4, <3>1, <3>2, Prunes DEF ApprovalsInv, Approvals!TypeOK
    <2>8. TokensInOrder'
        BY <2>3, <2>5 DEF TokensInOrder
    <2>9. RequestsAreShort'
        BY <2>4, <2>5, Shapes DEF ApprovalsInv, RequestsAreShort
    <2>10. ApprovalsAreGranted'
        BY <2>4, <2>5, <2>6, Prunes, Shapes DEF ApprovalsInv, ApprovalsAreGranted
    <2>11. GrantsCover'
        BY <2>4, <2>6, Prunes, Shapes DEF ApprovalsInv, GrantsCover
    <2>12. UsesInTime'
        <3> SUFFICES ASSUME NEW x \in Approvals!Keys, NEW u \in uses[x]
                     PROVE  \E t \in Approvals!GrantsOf(x) :
                                u[1] < request'[t].expiresAt /\ request'[t].expiresAt <= u[1] + TTL
            BY <2>4, <2>6 DEF UsesInTime
        <3>1. PICK t \in Approvals!GrantsOf(x) : u[1] < request[t].expiresAt /\ request[t].expiresAt <= u[1] + TTL
            BY DEF ApprovalsInv, UsesInTime
        <3> QED BY <2>5, <3>1, Shapes
    <2> QED BY <2>7, <2>8, <2>9, <2>10, <2>11, <2>12 DEF ApprovalsInv
<1> QED BY <1>1, <1>2

LEMMA RunKeeps ==
    ASSUME Approvals!ApprovalConstants, ApprovalsInv, NEW k \in Approvals!Keys, Approvals!Run(k)
    PROVE  ApprovalsInv'
<1> DEFINE u == <<now, Cardinality(uses[k])>>
<1>1. /\ approved' = [Approvals!Approved EXCEPT ![k] = 0] /\ pending' = Approvals!Pending
      /\ uses' = [uses EXCEPT ![k] = @ \cup {u}]
      /\ now' = now /\ request' = request /\ granted' = granted
    BY ApprovalsCount DEF Approvals!Run
<1>2. approved[k] # 0 /\ now < approved[k]
    BY Prunes DEF Approvals!Run
<1>3. /\ Approvals!Given' = Approvals!Given
      /\ \A x \in Approvals!Keys : Approvals!GrantsOf(x)' = Approvals!GrantsOf(x)
    BY <1>1 DEF Approvals!GrantsOf, Approvals!Given
<1>4. /\ uses \in [Approvals!Keys -> SUBSET ((0..MaxTime) \X Nat)]
      /\ u \in (0..MaxTime) \X Nat
    BY Shapes DEF ApprovalsInv, Approvals!TypeOK
<1>5. /\ uses'[k] = uses[k] \cup {u}
      /\ \A x \in Approvals!Keys \ {k} : uses'[x] = uses[x]
      /\ uses' \in [Approvals!Keys -> SUBSET ((0..MaxTime) \X Nat)]
    BY <1>1, <1>4
<1>6. /\ approved' \in [Approvals!Keys -> 0..(MaxTime + TTL)] /\ approved'[k] = 0
      /\ \A x \in Approvals!Keys : approved'[x] # 0 => approved'[x] = approved[x]
    BY <1>1, Prunes, Shapes
<1> HIDE DEF u
<1>7. Approvals!TypeOK'
    BY <1>1, <1>3, <1>5, <1>6, Prunes DEF ApprovalsInv, Approvals!TypeOK
<1>8. TokensInOrder' /\ RequestsAreShort'
    BY <1>1, <1>3 DEF ApprovalsInv, TokensInOrder, RequestsAreShort
<1>9. ApprovalsAreGranted'
    BY <1>1, <1>3, <1>6 DEF ApprovalsInv, ApprovalsAreGranted
<1>10. GrantsCover'
    <2>1. /\ IsFiniteSet(uses'[k])
          /\ Cardinality(uses'[k]) <= Cardinality(uses[k]) + 1
        <3>1. IsFiniteSet(uses[k])
            BY DEF ApprovalsInv, GrantsCover
        <3>2. /\ IsFiniteSet(uses[k] \cup {u})
              /\ Cardinality(uses[k] \cup {u})
                   = IF u \in uses[k] THEN Cardinality(uses[k]) ELSE Cardinality(uses[k]) + 1
            BY <3>1, FS_AddElement
        <3> QED BY <1>5, <3>2, Shapes
    <2>2. Cardinality(uses'[k]) \in Nat
        BY <2>1, FS_CardinalityType
    <2>3. Cardinality(uses[k]) + 1 <= Cardinality(Approvals!GrantsOf(k))
        BY <1>2 DEF ApprovalsInv, GrantsCover
    <2>4. \A x \in Approvals!Keys \ {k} :
            /\ IsFiniteSet(uses'[x])
            /\ Cardinality(uses'[x]) + (IF approved'[x] # 0 THEN 1 ELSE 0) <= Cardinality(Approvals!GrantsOf(x))
        BY <1>5, <1>6, Shapes DEF ApprovalsInv, GrantsCover
    <2>5. Cardinality(uses'[k]) + (IF approved'[k] # 0 THEN 1 ELSE 0) <= Cardinality(Approvals!GrantsOf(k))
        BY <1>6, <2>1, <2>2, <2>3, Shapes
    <2> QED BY <1>3, <2>1, <2>4, <2>5 DEF GrantsCover
<1>11. UsesInTime'
    <2>1. PICK t \in Approvals!GrantsOf(k) : request[t].expiresAt = approved[k]
        BY <1>2 DEF ApprovalsInv, ApprovalsAreGranted
    <2>2. now < request[t].expiresAt /\ request[t].expiresAt <= now + TTL
        BY <1>2, <2>1, Shapes DEF ApprovalsInv, RequestsAreShort
    <2>3. u[1] = now
        BY DEF u
    <2> QED BY <1>1, <1>3, <1>5, <2>2, <2>3 DEF ApprovalsInv, UsesInTime
<1> QED BY <1>7, <1>8, <1>9, <1>10, <1>11 DEF ApprovalsInv

LEMMA ApproveKeeps ==
    ASSUME Approvals!ApprovalConstants, ApprovalsInv, NEW s \in ApprovalSessions,
           NEW t \in Approvals!Tokens, Approvals!Approve(s, t)
    PROVE  ApprovalsInv'
<1>1. t \in Approvals!Pending /\ t \in Approvals!Given /\ t \notin granted
    BY Prunes DEF Approvals!Approve, ApprovalsInv, Approvals!TypeOK
<1>2. PICK k \in Approvals!Keys : k = request[t].key
    BY <1>1, Shapes
<1>3. /\ pending' = Approvals!Pending \ {t}
      /\ approved' = [Approvals!Approved EXCEPT ![k] = request[t].expiresAt]
      /\ granted' = granted \cup {t}
      /\ now' = now /\ request' = request /\ uses' = uses
      /\ request[t].expiresAt \in 1..(MaxTime + TTL)
    <2>1. request[t].expiresAt \in 1..(MaxTime + TTL)
        BY <1>1, Prunes, Shapes DEF ApprovalsInv, RequestsAreShort
    <2> QED BY <1>2, <2>1 DEF Approvals!Approve
<1>4. /\ Approvals!Given' = Approvals!Given /\ t \notin Approvals!GrantsOf(k)
      /\ Approvals!GrantsOf(k)' = Approvals!GrantsOf(k) \cup {t}
      /\ \A x \in Approvals!Keys \ {k} : Approvals!GrantsOf(x)' = Approvals!GrantsOf(x)
    BY <1>1, <1>2, <1>3 DEF Approvals!GrantsOf, Approvals!Given
<1>5. /\ approved' \in [Approvals!Keys -> 0..(MaxTime + TTL)] /\ approved'[k] = request[t].expiresAt
      /\ \A x \in Approvals!Keys \ {k} : approved'[x] # 0 => approved'[x] = approved[x]
    BY <1>2, <1>3, Prunes, Shapes
<1>6. Approvals!TypeOK'
    BY <1>1, <1>3, <1>4, <1>5, Prunes DEF ApprovalsInv, Approvals!TypeOK
<1>7. TokensInOrder' /\ RequestsAreShort'
    BY <1>3, <1>4 DEF ApprovalsInv, TokensInOrder, RequestsAreShort
<1>8. ApprovalsAreGranted'
    <2> SUFFICES ASSUME NEW x \in Approvals!Keys, approved'[x] # 0
                 PROVE  \E y \in Approvals!GrantsOf(x)' : request'[y].expiresAt = approved'[x]
        BY DEF ApprovalsAreGranted
    <2>1. CASE x = k
        BY <1>3, <1>4, <1>5, <2>1
    <2>2. CASE x # k
        BY <1>3, <1>4, <1>5, <2>2 DEF ApprovalsInv, ApprovalsAreGranted
    <2> QED BY <2>1, <2>2
<1>9. GrantsCover'
    <2>1. Cardinality(Approvals!GrantsOf(k) \cup {t}) = Cardinality(Approvals!GrantsOf(k)) + 1
        BY <1>4, Shapes, FS_AddElement
    <2>2. Cardinality(uses[k]) + 1 <= Cardinality(Approvals!GrantsOf(k)) + 1
        BY Shapes DEF ApprovalsInv, GrantsCover
    <2>3. \A x \in Approvals!Keys \ {k} :
            Cardinality(uses[x]) + (IF approved'[x] # 0 THEN 1 ELSE 0) <= Cardinality(Approvals!GrantsOf(x))
        BY <1>5, Shapes DEF ApprovalsInv, GrantsCover
    <2>4. Cardinality(uses[k]) + (IF approved'[k] # 0 THEN 1 ELSE 0) <= Cardinality(Approvals!GrantsOf(k) \cup {t})
        BY <2>1, <2>2, Shapes
    <2>5. \A x \in Approvals!Keys : IsFiniteSet(uses[x])
        BY DEF ApprovalsInv, GrantsCover
    <2> QED BY <1>3, <1>4, <2>3, <2>4, <2>5 DEF GrantsCover
<1>10. UsesInTime'
    <2> SUFFICES ASSUME NEW x \in Approvals!Keys, NEW u \in uses[x]
                 PROVE  \E y \in Approvals!GrantsOf(x)' :
                            u[1] < request[y].expiresAt /\ request[y].expiresAt <= u[1] + TTL
        BY <1>3 DEF UsesInTime
    <2>1. Approvals!GrantsOf(x) \subseteq Approvals!GrantsOf(x)'
        BY <1>4
    <2> QED BY <2>1 DEF ApprovalsInv, UsesInTime
<1> QED BY <1>6, <1>7, <1>8, <1>9, <1>10 DEF ApprovalsInv

LEMMA ApprovalsStay ==
    ASSUME Approvals!ApprovalConstants, ApprovalsInv, [Approvals!Next]_(Approvals!vars) PROVE ApprovalsInv'
<1>1. ASSUME NEW k \in Approvals!Keys, Approvals!Gate(k) PROVE ApprovalsInv'
    BY <1>1, GateKeeps
<1>2. ASSUME NEW k \in Approvals!Keys, Approvals!Run(k) PROVE ApprovalsInv'
    BY <1>2, RunKeeps
<1>3. ASSUME NEW s \in ApprovalSessions, NEW t \in Approvals!Tokens, Approvals!Approve(s, t) PROVE ApprovalsInv'
    BY <1>3, ApproveKeeps
<1>4. ASSUME NEW s \in ApprovalSessions, NEW t \in Approvals!Tokens,
             Approvals!Reject(s, t) \/ Approvals!RefuseAnswer(s, t)
      PROVE  ApprovalsInv'
    BY <1>4, Prunes, Shapes, PruningKeeps DEF Approvals!Reject, Approvals!RefuseAnswer
<1>5. CASE Approvals!Tick
    BY <1>5, Shapes, PruningKeeps DEF Approvals!Tick
<1>6. CASE UNCHANGED Approvals!vars
    BY <1>6, Shapes, PruningKeeps DEF Approvals!vars
<1> QED BY <1>1, <1>2, <1>3, <1>4, <1>5, <1>6 DEF Approvals!Next

-----------------------------------------------------------------------------
(* Tool approvals: the theorems. *)

\* The invariant holds for all constants.
LEMMA ApprovalsHold ==
    ASSUME Approvals!ApprovalConstants
    PROVE  Approvals!Spec => []ApprovalsInv
<1>1. Approvals!Init => ApprovalsInv
    BY ApprovalsBegin
<1>2. ApprovalsInv /\ [Approvals!Next]_(Approvals!vars) => ApprovalsInv'
    BY ApprovalsStay
<1> QED BY <1>1, <1>2, PTL DEF Approvals!Spec

\* Requests, approvals and uses have their types.
THEOREM ApprovalsTypeCorrect ==
    ASSUME Approvals!ApprovalConstants
    PROVE  Approvals!Spec => []Approvals!TypeOK
<1>1. ApprovalsInv => Approvals!TypeOK
    BY DEF ApprovalsInv
<1> QED BY <1>1, ApprovalsHold, PTL

\* An approved action runs once for each approval, in the life of the request
\* that was approved (toolApprovalStore.ts).
THEOREM ActionsAreApproved ==
    ASSUME Approvals!ApprovalConstants
    PROVE  Approvals!Spec => []Approvals!RunsAreApproved
<1>1. Approvals!ApprovalConstants /\ ApprovalsInv => Approvals!RunsAreApproved
    <2> SUFFICES ASSUME Approvals!ApprovalConstants, ApprovalsInv, NEW k \in Approvals!Keys
                 PROVE  Cardinality(uses[k]) <= Cardinality(Approvals!GrantsOf(k))
        BY ApprovalsCount DEF Approvals!RunsAreApproved, ApprovalsInv, UsesInTime
    <2> QED BY Shapes DEF ApprovalsInv, GrantsCover
<1> QED BY <1>1, ApprovalsHold, PTL

-----------------------------------------------------------------------------
(* The rate limit: what an address got through, its bucket and the clock.  *)

Times == 0..MaxRateTime
From(start)        == {t \in Times : start <= t}
Slice(start, end)  == {t \in Times : start <= t /\ t < end}
Since(p, start)    == Total(p, From(start))
Between(p, start, end) == Total(p, Slice(start, end))

Kept(p) == \A from \in Times : Between(p, from, from + Window) < 2 * RateLimitMax

\* Without a window a new one may begin: what it overlaps did not fill one.
Idle(p, instant) ==
    /\ p[instant] = 0
    /\ \A from \in Times : instant < from + Window => Since(p, from) < RateLimitMax

\* A window began with a request that passed, and lets no more pass than it
\* counts and than the limit.
Open(p, bucket, instant) ==
    LET start == bucket.resetAt - Window IN
    /\ start \in 0..instant
    /\ p[start] > 0
    /\ Since(p, start) <= bucket.count /\ Since(p, start) <= RateLimitMax
    /\ \A t \in Times : bucket.resetAt <= t => p[t] = 0
    /\ \A from \in Times :
           from < start /\ start < from + Window => Between(p, from, start) < RateLimitMax

Sound(p, bucket, instant) ==
    /\ p \in [Times -> Nat] /\ bucket \in [count : Nat, resetAt : Nat] /\ instant \in Times
    /\ \A t \in Times : instant < t => p[t] = 0
    /\ Kept(p)
    /\ bucket = Rate!NoBucket => Idle(p, instant)
    /\ bucket # Rate!NoBucket => Open(p, bucket, instant)

RateInv ==
    /\ buckets \in [Clients -> [count : Nat, resetAt : Nat]]
    /\ passed \in [Clients -> [Times -> Nat]]
    /\ rateTime \in Times
    /\ \A c \in Clients : Sound(passed[c], buckets[c], rateTime)

LEMMA LimitsFit ==
    ASSUME Rate!RateConstants
    PROVE  RateLimitMax \in Nat \ {0} /\ Window \in Nat \ {0} /\ MaxRateTime \in Nat
BY DEF Rate!RateConstants

LEMMA TimesAreFinite ==
    ASSUME Rate!RateConstants
    PROVE  \A S \in SUBSET Times : IsFiniteSet(S)
<1>1. IsFiniteSet(Times)
    BY LimitsFit, FS_Interval DEF Times
<1> QED BY <1>1, FS_Subset

\* Sums over times.
LEMMA TimesAddUp ==
    ASSUME Rate!RateConstants, NEW p \in [Times -> Nat], NEW S \in SUBSET Times
    PROVE  /\ IsFiniteSet(S) /\ Total(p, S) \in Nat
           /\ \A T \in SUBSET S : Total(p, T) \in Nat /\ Total(p, T) <= Total(p, S)
           /\ \A x \in S : Total(p, S) = p[x] + Total(p, S \ {x})
<1>1. IsFiniteSet(S) /\ \A x \in S : p[x] \in Nat
    BY TimesAreFinite
<1>2. \A T \in SUBSET S : Total(p, T) \in Nat /\ Total(p, T) <= Total(p, S)
    BY <1>1, TotalGrows
<1>3. \A x \in S : Total(p, S) = p[x] + Total(p, S \ {x})
    BY <1>1, TotalWithout
<1> QED BY <1>1, <1>2, <1>3

\* A request passes now.
Grows(q, p, instant) ==
    q \in [Times -> Nat] /\ q[instant] = p[instant] + 1 /\ \A t \in Times \ {instant} : q[t] = p[t]

LEMMA OneMore ==
    ASSUME Rate!RateConstants, NEW p \in [Times -> Nat], NEW instant \in Times,
           NEW q, Grows(q, p, instant), NEW S \in SUBSET Times
    PROVE  /\ instant \in S => Total(q, S) = Total(p, S) + 1
           /\ instant \notin S => Total(q, S) = Total(p, S)
<1>1. IsFiniteSet(S) /\ \A x \in S : p[x] \in Nat
    BY TimesAreFinite
<1>2. q[instant] = p[instant] + 1 /\ \A t \in Times \ {instant} : q[t] = p[t]
    BY DEF Grows
<1>3. CASE instant \in S
    <2>1. \A t \in S \ {instant} : q[t] = p[t]
        BY <1>2
    <2> QED BY <1>1, <1>2, <1>3, <2>1, TotalCounts
<1>4. CASE instant \notin S
    <2>1. \A t \in S : q[t] = p[t]
        BY <1>2, <1>4
    <2>2. S \in SUBSET S
        OBVIOUS
    <2>3. Total(q, S) = Total(p, S)
        BY <1>1, <2>1, <2>2, TotalsAgree
    <2> QED BY <1>4, <2>3
<1> QED BY <1>3, <1>4

\* An address without a window, or whose window is over.
LEMMA ExpiredIsIdle ==
    ASSUME Rate!RateConstants, NEW p, NEW k, NEW instant, Sound(p, k, instant),
           k = Rate!NoBucket \/ k.resetAt <= instant
    PROVE  Idle(p, instant)
<1> SUFFICES ASSUME k # Rate!NoBucket, k.resetAt <= instant PROVE Idle(p, instant)
    BY DEF Sound
<1> DEFINE start == k.resetAt - Window
<1>1. /\ p \in [Times -> Nat] /\ instant \in Times /\ k.resetAt \in Nat
      /\ start \in 0..instant /\ p[start] > 0 /\ Since(p, start) <= RateLimitMax
      /\ \A t \in Times : k.resetAt <= t => p[t] = 0
    BY DEF Sound, Open
<1>2. Window \in Nat \ {0} /\ RateLimitMax \in Nat \ {0} /\ start \in Times
    BY <1>1, LimitsFit DEF Times
<1>3. ASSUME NEW from \in Times, instant < from + Window PROVE Since(p, from) < RateLimitMax
    <2>1. start < from
        BY <1>1, <1>2, <1>3 DEF Times
    <2>2. From(start) \in SUBSET Times /\ start \in From(start)
          /\ From(from) \in SUBSET (From(start) \ {start}) /\ From(start) \ {start} \in SUBSET Times
        BY <1>2, <2>1 DEF From, Times
    <2>3. Since(p, start) = p[start] + Total(p, From(start) \ {start})
        BY <1>1, <2>2, TimesAddUp DEF Since
    <2>4. /\ Total(p, From(from)) <= Total(p, From(start) \ {start})
          /\ Total(p, From(from)) \in Nat /\ Total(p, From(start) \ {start}) \in Nat
        BY <1>1, <2>2, TimesAddUp
    <2>5. p[start] \in Nat
        BY <1>1, <1>2
    <2> HIDE DEF start
    <2> QED BY <1>1, <1>2, <2>3, <2>4, <2>5 DEF Since
<1> QED BY <1>1, <1>3 DEF Idle

LEMMA WindowOpens ==
    ASSUME Rate!RateConstants, NEW p, NEW k, NEW instant, Sound(p, k, instant), Idle(p, instant),
           NEW q, q = [p EXCEPT ![instant] = @ + 1]
    PROVE  Sound(q, [count |-> 1, resetAt |-> instant + Window], instant)
<1> DEFINE bucket == [count |-> 1, resetAt |-> instant + Window]
<1>1. /\ p \in [Times -> Nat] /\ instant \in Times /\ Kept(p) /\ p[instant] = 0
      /\ \A t \in Times : instant < t => p[t] = 0
      /\ \A from \in Times : instant < from + Window => Since(p, from) < RateLimitMax
    BY DEF Sound, Idle
<1>2. Window \in Nat \ {0} /\ RateLimitMax \in Nat \ {0}
    BY LimitsFit
<1>3. /\ q \in [Times -> Nat] /\ q[instant] = 1 /\ \A t \in Times \ {instant} : q[t] = p[t]
      /\ Grows(q, p, instant)
    BY <1>1 DEF Grows
<1>4. /\ bucket \in [count : Nat, resetAt : Nat] /\ bucket.count = 1 /\ bucket.resetAt = instant + Window
      /\ bucket.resetAt - Window = instant /\ bucket # Rate!NoBucket
    BY <1>1, <1>2 DEF Times, Rate!NoBucket
<1>5. Since(q, instant) = 1
    <2>1. From(instant) \in SUBSET Times /\ instant \in From(instant) /\ \A t \in From(instant) : p[t] = 0
        BY <1>1 DEF From, Times
    <2>2. Total(p, From(instant)) = 0
        BY <2>1, TimesAreFinite, TotalZero
    <2>3. Total(q, From(instant)) = Total(p, From(instant)) + 1
        BY <1>1, <1>3, <2>1, OneMore
    <2> QED BY <2>2, <2>3 DEF Since
<1>6. ASSUME NEW from \in Times, instant < from + Window PROVE Between(q, from, instant) < RateLimitMax
    <2>1. Slice(from, instant) \in SUBSET Times /\ instant \notin Slice(from, instant)
        BY <1>1 DEF Slice, Times
    <2>2. Slice(from, instant) \in SUBSET From(from) /\ From(from) \in SUBSET Times
        BY DEF Slice, From
    <2>3. Total(q, Slice(from, instant)) = Total(p, Slice(from, instant))
        BY <1>1, <1>3, <2>1, OneMore
    <2>4. /\ Total(p, Slice(from, instant)) <= Total(p, From(from))
          /\ Total(p, Slice(from, instant)) \in Nat /\ Total(p, From(from)) \in Nat
        BY <1>1, <2>2, TimesAddUp
    <2> QED BY <1>1, <1>2, <1>6, <2>3, <2>4 DEF Between, Since
<1>7. Open(q, bucket, instant)
    <2>1. instant \in 0..instant
        BY <1>1 DEF Times
    <2>2. \A t \in Times : instant + Window <= t => q[t] = 0
        BY <1>1, <1>2, <1>3 DEF Times
    <2>3. Since(q, instant) <= bucket.count /\ Since(q, instant) <= RateLimitMax /\ q[instant] > 0
        BY <1>2, <1>3, <1>4, <1>5
    <2> HIDE DEF bucket
    <2> QED BY <1>4, <1>6, <2>1, <2>2, <2>3 DEF Open
<1>8. ASSUME NEW from \in Times PROVE Between(q, from, from + Window) < 2 * RateLimitMax
    <2> DEFINE S == Slice(from, from + Window)
    <2>1. S \in SUBSET Times /\ S \in SUBSET From(from) /\ From(from) \in SUBSET Times
        BY DEF Slice, From
    <2>2. /\ Total(p, S) <= Total(p, From(from))
          /\ Total(p, S) \in Nat /\ Total(p, From(from)) \in Nat
        BY <1>1, <2>1, TimesAddUp
    <2>3. Total(p, S) < 2 * RateLimitMax
        BY <1>1 DEF Kept, Between
    <2>4. instant \in S => instant < from + Window
        BY DEF Slice
    <2> HIDE DEF S
    <2>5. CASE instant \in S
        <3>1. Total(q, S) = Total(p, S) + 1
            BY <1>1, <1>3, <2>1, <2>5, OneMore
        <3>2. Total(p, From(from)) < RateLimitMax
            BY <1>1, <2>4, <2>5 DEF Since
        <3>3. Total(q, S) < 2 * RateLimitMax
            BY <1>2, <2>2, <3>1, <3>2
        <3> QED BY <3>3 DEF Between, S
    <2>6. CASE instant \notin S
        <3>1. Total(q, S) = Total(p, S)
            BY <1>1, <1>3, <2>1, <2>6, OneMore
        <3> QED BY <2>3, <3>1 DEF Between, S
    <2> QED BY <2>5, <2>6
<1>9. \A t \in Times : instant < t => q[t] = 0
    BY <1>1, <1>3 DEF Times
<1> HIDE DEF bucket
<1>10. Sound(q, bucket, instant)
    BY <1>1, <1>3, <1>4, <1>7, <1>8, <1>9 DEF Sound, Kept
<1> QED BY <1>10 DEF bucket

LEMMA WindowCounts ==
    ASSUME Rate!RateConstants, NEW p, NEW k, NEW instant, Sound(p, k, instant), k # Rate!NoBucket,
           instant < k.resetAt, k.count <= RateLimitMax, NEW q,
           q = IF k.count + 1 > RateLimitMax THEN p ELSE [p EXCEPT ![instant] = @ + 1]
    PROVE  Sound(q, [k EXCEPT !.count = @ + 1], instant)
<1> DEFINE bucket == [k EXCEPT !.count = @ + 1]
           start == k.resetAt - Window
<1>1. /\ p \in [Times -> Nat] /\ instant \in Times /\ Kept(p)
      /\ k \in [count : Nat, resetAt : Nat] /\ Open(p, k, instant)
      /\ \A t \in Times : instant < t => p[t] = 0
    BY DEF Sound
<1>2. /\ start \in 0..instant /\ p[start] > 0
      /\ Since(p, start) <= k.count /\ Since(p, start) <= RateLimitMax
      /\ \A t \in Times : k.resetAt <= t => p[t] = 0
      /\ \A from \in Times :
             from < start /\ start < from + Window => Between(p, from, start) < RateLimitMax
    BY <1>1 DEF Open
<1>3. Window \in Nat \ {0} /\ RateLimitMax \in Nat \ {0} /\ start \in Times /\ start <= instant
      /\ instant \in Nat /\ start \in Nat
    BY <1>1, <1>2, LimitsFit DEF Times
<1>4. /\ bucket \in [count : Nat, resetAt : Nat] /\ bucket.count = k.count + 1
      /\ bucket.resetAt = k.resetAt /\ bucket # Rate!NoBucket
    BY <1>1 DEF Rate!NoBucket
<1>5. CASE k.count + 1 > RateLimitMax
    <2>1. q = p
        BY <1>5
    <2>2. From(start) \in SUBSET Times
        BY DEF From
    <2>3. Since(p, start) \in Nat
        BY <1>1, <2>2, TimesAddUp DEF Since
    <2>4. Since(p, start) <= k.count + 1
        BY <1>1, <1>2, <2>3
    <2> HIDE DEF bucket
    <2>5. Open(p, bucket, instant)
        BY <1>2, <1>4, <2>4 DEF Open
    <2>6. Sound(p, bucket, instant)
        BY <1>1, <1>4, <2>5 DEF Sound
    <2> QED BY <2>1, <2>6 DEF bucket
<1>6. CASE ~(k.count + 1 > RateLimitMax)
    <2>1. /\ q = [p EXCEPT ![instant] = @ + 1] /\ q \in [Times -> Nat]
          /\ q[instant] = p[instant] + 1 /\ \A t \in Times \ {instant} : q[t] = p[t]
          /\ Grows(q, p, instant)
        BY <1>1, <1>6 DEF Grows
    <2>2. From(start) \in SUBSET Times /\ instant \in From(start)
        BY <1>1, <1>3 DEF From
    <2>3. /\ Since(q, start) = Since(p, start) + 1
          /\ Since(p, start) \in Nat /\ Since(q, start) \in Nat
        BY <1>1, <2>1, <2>2, OneMore, TimesAddUp DEF Since
    <2>4. Since(q, start) <= k.count + 1 /\ Since(q, start) <= RateLimitMax
        BY <1>1, <1>2, <1>3, <1>6, <2>3
    <2>5. q[start] > 0
        <3>1. p[start] \in Nat /\ p[instant] \in Nat
            BY <1>1, <1>3
        <3> HIDE DEF start
        <3> QED BY <1>2, <1>3, <2>1, <3>1
    <2>6. \A t \in Times : k.resetAt <= t => q[t] = 0
        BY <1>1, <1>2, <2>1 DEF Times
    <2>7. ASSUME NEW from \in Times, from < start, start < from + Window
          PROVE  /\ Between(q, from, start) < RateLimitMax
                 /\ Between(q, from, start) \in Nat
        <3>1. Slice(from, start) \in SUBSET Times /\ instant \notin Slice(from, start)
            BY <1>3 DEF Slice, Times
        <3>2. Total(q, Slice(from, start)) = Total(p, Slice(from, start))
              /\ Total(q, Slice(from, start)) \in Nat
            BY <1>1, <2>1, <3>1, OneMore, TimesAddUp
        <3> QED BY <1>2, <2>7, <3>2 DEF Between
    <2>8. Open(q, bucket, instant)
        <3> HIDE DEF bucket
        <3> QED BY <1>2, <1>4, <2>4, <2>5, <2>6, <2>7 DEF Open
    <2>9. ASSUME NEW from \in Times PROVE Between(q, from, from + Window) < 2 * RateLimitMax
        <3> DEFINE S == Slice(from, from + Window)
        <3>1. S \in SUBSET Times /\ from \in Nat
            BY DEF Slice, Times
        <3>2. CASE start <= from
            <4>1. S \in SUBSET From(start)
                BY <1>3, <3>2 DEF Slice, From, Times
            <4>2. Total(q, S) <= Since(q, start) /\ Total(q, S) \in Nat
                BY <2>1, <2>2, <4>1, TimesAddUp DEF Since
            <4> HIDE DEF S
            <4>3. Total(q, S) < 2 * RateLimitMax
                BY <1>3, <2>3, <2>4, <4>2
            <4> QED BY <4>3 DEF Between, S
        <3>3. CASE from < start /\ start < from + Window
            <4>1. Slice(from, start) \in SUBSET S /\ S \ Slice(from, start) \in SUBSET From(start)
                BY <1>3, <3>1, <3>3 DEF Slice, From, Times
            <4>2. IsFiniteSet(S) /\ \A t \in S : q[t] \in Nat
                BY <2>1, <3>1, TimesAreFinite
            <4> HIDE DEF S
            <4>3. Total(q, S) = Between(q, from, start) + Total(q, S \ Slice(from, start))
                BY <4>1, <4>2, TotalSplits DEF Between
            <4>4. /\ Total(q, S \ Slice(from, start)) <= Since(q, start)
                  /\ Total(q, S \ Slice(from, start)) \in Nat
                BY <2>1, <2>2, <4>1, TimesAddUp DEF Since
            <4>5. Between(q, from, start) < RateLimitMax /\ Between(q, from, start) \in Nat
                BY <2>7, <3>3
            <4>6. Total(q, S) < 2 * RateLimitMax
                BY <1>3, <2>3, <2>4, <4>3, <4>4, <4>5
            <4> QED BY <4>6 DEF Between, S
        <3>4. CASE from + Window <= start
            <4>1. instant \notin S
                BY <1>3, <3>1, <3>4 DEF Slice, Times
            <4>2. Total(p, S) < 2 * RateLimitMax
                BY <1>1 DEF Kept, Between
            <4> HIDE DEF S
            <4>3. Total(q, S) = Total(p, S)
                <5>1. Grows(q, p, instant) /\ p \in [Times -> Nat] /\ instant \in Times
                    BY <1>1, <2>1
                <5>2. S \in SUBSET Times
                    BY <3>1
                <5>3. instant \in Times /\ p \in [Times -> Nat] /\ Grows(q, p, instant) /\ S \in SUBSET Times
                      => (instant \notin S => Total(q, S) = Total(p, S))
                    BY OneMore
                <5> QED BY <4>1, <5>1, <5>2, <5>3
            <4>4. Total(q, S) < 2 * RateLimitMax
                BY <4>2, <4>3
            <4> QED BY <4>4 DEF Between, S
        <3> QED BY <1>3, <3>1, <3>2, <3>3, <3>4
    <2>10. \A t \in Times : instant < t => q[t] = 0
        BY <1>1, <2>1 DEF Times
    <2> HIDE DEF bucket
    <2>11. Sound(q, bucket, instant)
        BY <1>1, <1>4, <2>1, <2>8, <2>9, <2>10 DEF Sound, Kept
    <2> QED BY <2>11 DEF bucket
<1> QED BY <1>5, <1>6

LEMMA BucketDrops ==
    ASSUME Rate!RateConstants, NEW p, NEW k, NEW instant, Sound(p, k, instant), k.resetAt <= instant
    PROVE  Sound(p, Rate!NoBucket, instant)
<1>1. Idle(p, instant)
    BY ExpiredIsIdle
<1>2. Rate!NoBucket \in [count : Nat, resetAt : Nat]
    BY DEF Rate!NoBucket
<1> QED BY <1>1, <1>2 DEF Sound

LEMMA TimePasses ==
    ASSUME Rate!RateConstants, NEW p, NEW k, NEW instant, Sound(p, k, instant), instant + 1 \in Times
    PROVE  Sound(p, k, instant + 1)
<1>1. instant \in Times /\ Window \in Nat /\ k.resetAt \in Nat
    BY LimitsFit DEF Sound
<1>2. Idle(p, instant) => Idle(p, instant + 1)
    <2>1. p[instant + 1] = 0
        BY <1>1 DEF Sound, Times
    <2>2. \A from \in Times : instant + 1 < from + Window => instant < from + Window
        BY <1>1 DEF Times
    <2> QED BY <2>1, <2>2 DEF Idle
<1>3. Open(p, k, instant) => Open(p, k, instant + 1)
    <2>1. k.resetAt - Window \in 0..instant => k.resetAt - Window \in 0..(instant + 1)
        BY <1>1 DEF Times
    <2> QED BY <2>1 DEF Open
<1>4. \A t \in Times : instant + 1 < t => instant < t
    BY <1>1 DEF Times
<1> QED BY <1>1, <1>2, <1>3, <1>4 DEF Sound

LEMMA RateBegins ==
    ASSUME Rate!RateConstants, Rate!Init
    PROVE  RateInv
<1>1. RateLimitMax \in Nat \ {0} /\ Window \in Nat \ {0} /\ MaxRateTime \in Nat
    BY LimitsFit
<1>2. /\ buckets \in [Clients -> [count : Nat, resetAt : Nat]]
      /\ passed \in [Clients -> [Times -> Nat]] /\ rateTime = 0 /\ rateTime \in Times
      /\ \A c \in Clients : buckets[c] = Rate!NoBucket /\ \A t \in Times : passed[c][t] = 0
    BY <1>1 DEF Rate!Init, Rate!NoBucket, Times
<1>3. ASSUME NEW c \in Clients PROVE Sound(passed[c], buckets[c], rateTime)
    <2>1. \A S \in SUBSET Times : Total(passed[c], S) = 0
        BY <1>2, TimesAreFinite, TotalZero
    <2>2. /\ \A from \in Times : Since(passed[c], from) = 0
          /\ \A from, end \in Int : Between(passed[c], from, end) = 0
        BY <2>1 DEF Since, Between, From, Slice
    <2>3. Idle(passed[c], rateTime)
        BY <1>1, <1>2, <2>2 DEF Idle
    <2>4. \A from \in Times : from \in Int /\ from + Window \in Int
        BY <1>1 DEF Times
    <2>5. Kept(passed[c])
        BY <1>1, <2>2, <2>4 DEF Kept
    <2> QED BY <1>2, <2>3, <2>5 DEF Sound
<1> QED BY <1>2, <1>3 DEF RateInv

LEMMA RateStays ==
    ASSUME Rate!RateConstants, RateInv, [Rate!Next]_(Rate!rateVars)
    PROVE  RateInv'
<1>1. /\ buckets \in [Clients -> [count : Nat, resetAt : Nat]]
      /\ passed \in [Clients -> [Times -> Nat]] /\ rateTime \in Times
      /\ \A c \in Clients : Sound(passed[c], buckets[c], rateTime)
    BY DEF RateInv
<1>2. CASE UNCHANGED Rate!rateVars
    <2>1. buckets' = buckets /\ passed' = passed /\ rateTime' = rateTime
        BY <1>2 DEF Rate!rateVars
    <2> QED BY <1>1, <2>1 DEF RateInv
<1>3. CASE Rate!RateTick
    <2>1. /\ rateTime' = rateTime + 1 /\ rateTime + 1 \in Times
          /\ buckets' = buckets /\ passed' = passed
        BY <1>1, <1>3, LimitsFit DEF Rate!RateTick, Times
    <2>2. \A c \in Clients : Sound(passed[c], buckets[c], rateTime + 1)
        BY <1>1, <2>1, TimePasses
    <2> QED BY <1>1, <2>1, <2>2 DEF RateInv
<1>4. ASSUME NEW c \in Clients, Rate!Request(c) PROVE RateInv'
    <2> DEFINE q == [passed[c] EXCEPT ![rateTime] = @ + 1]
    <2>1. Sound(passed[c], buckets[c], rateTime) /\ rateTime' = rateTime
          /\ buckets[c].count \in Nat /\ buckets[c].resetAt \in Nat /\ passed[c] \in [Times -> Nat]
        BY <1>1, <1>4 DEF Rate!Request
    <2>2. CASE buckets[c] = Rate!NoBucket \/ rateTime >= buckets[c].resetAt
        <3> DEFINE new == [count |-> 1, resetAt |-> rateTime + Window]
        <3>1. /\ \A x \in Clients : buckets'[x] = CASE x = c -> new
                     [] x # c /\ x \in Rate!ExpiredBuckets -> Rate!NoBucket
                     [] OTHER -> buckets[x]
              /\ buckets' = [x \in Clients |-> buckets'[x]]
              /\ passed' = [passed EXCEPT ![c] = q]
            BY <1>4, <2>2 DEF Rate!Request, Rate!NewWindow
        <3>2. Idle(passed[c], rateTime)
            <4>1. buckets[c] = Rate!NoBucket \/ buckets[c].resetAt <= rateTime
                BY <1>1, <2>1, <2>2 DEF Times
            <4> QED BY <2>1, <4>1, ExpiredIsIdle
        <3>3. Sound(q, new, rateTime)
            BY <2>1, <3>2, WindowOpens
        <3>4. ASSUME NEW x \in Clients \ {c}, x \in Rate!ExpiredBuckets
              PROVE  Sound(passed[x], Rate!NoBucket, rateTime)
            <4>1. buckets[x].resetAt <= rateTime
                BY <1>1, <3>4 DEF Rate!ExpiredBuckets, Times
            <4> QED BY <1>1, <4>1, BucketDrops
        <3>5. /\ \A x \in Clients \ {c} : passed'[x] = passed[x]
              /\ passed'[c] = q
            BY <1>1, <3>1
        <3> HIDE DEF q, new
        <3>6. ASSUME NEW x \in Clients PROVE Sound(passed'[x], buckets'[x], rateTime)
            <4>1. CASE x = c
                BY <3>1, <3>3, <3>5, <4>1
            <4>2. CASE x # c /\ x \in Rate!ExpiredBuckets
                BY <3>1, <3>4, <3>5, <4>2
            <4>3. CASE x # c /\ x \notin Rate!ExpiredBuckets
                BY <1>1, <3>1, <3>5, <4>3
            <4> QED BY <4>1, <4>2, <4>3
        <3>7. \A x \in Clients : /\ buckets'[x] \in [count : Nat, resetAt : Nat]
                                 /\ passed'[x] \in [Times -> Nat]
            BY <3>6 DEF Sound
        <3>8. /\ buckets' \in [Clients -> [count : Nat, resetAt : Nat]]
              /\ passed' \in [Clients -> [Times -> Nat]]
            BY <1>1, <3>1, <3>7
        <3> QED BY <1>1, <2>1, <3>6, <3>8 DEF RateInv
    <2>3. CASE ~(buckets[c] = Rate!NoBucket \/ rateTime >= buckets[c].resetAt)
        <3> DEFINE r == IF buckets[c].count + 1 > RateLimitMax THEN passed[c] ELSE q
                   more == [buckets[c] EXCEPT !.count = @ + 1]
        <3>1. /\ buckets' = [buckets EXCEPT ![c] = more]
              /\ passed' = [passed EXCEPT ![c] = r]
              /\ buckets[c].count <= RateLimitMax
            BY <1>1, <1>4, <2>3 DEF Rate!Request
        <3>2. rateTime < buckets[c].resetAt /\ buckets[c] # Rate!NoBucket
            BY <1>1, <2>1, <2>3 DEF Times
        <3>3. Sound(r, more, rateTime)
            BY <2>1, <3>1, <3>2, WindowCounts
        <3> HIDE DEF r, more
        <3>4. r \in [Times -> Nat] /\ more \in [count : Nat, resetAt : Nat]
            BY <3>3 DEF Sound
        <3>5. \A x \in Clients : Sound(passed'[x], buckets'[x], rateTime)
            BY <1>1, <3>1, <3>3
        <3>6. /\ buckets' \in [Clients -> [count : Nat, resetAt : Nat]]
              /\ passed' \in [Clients -> [Times -> Nat]]
            BY <1>1, <3>1, <3>4
        <3> QED BY <1>1, <2>1, <3>5, <3>6 DEF RateInv
    <2> QED BY <2>2, <2>3
<1> QED BY <1>2, <1>3, <1>4 DEF Rate!Next

\* No address gets two windows' worth of requests through in the length of one
\* window (gateway/app.ts), wherever it begins and whatever buckets the sweep
\* drops, for any limit, window and addresses.
THEOREM WindowsStayKept ==
    ASSUME Rate!RateConstants
    PROVE  Rate!Spec => []Rate!WindowsAreKept
<1>1. RateInv => Rate!WindowsAreKept
    BY SumsAreTotals DEF RateInv, Sound, Kept, Between, Slice, Times, Rate!WindowsAreKept
<1> QED BY <1>1, RateBegins, RateStays, PTL DEF Rate!Spec

-----------------------------------------------------------------------------
(* The types of the parts, whatever overlaps, is slow or is killed. *)

\* A gateway that acquires the lock was started and has attempts left, also
\* beside others.
LockFits ==
    /\ Lock!TypeOK
    /\ \A p \in Procs : Lock!Runs(p) => proc[p].start # 0
    /\ \A p \in Procs : proc[p].pc \in Lock!Acquiring => proc[p].attempt < MaxAttempts

LEMMA LockTypes ==
    ASSUME Lock!LockConstants PROVE Lock!Spec => []Lock!TypeOK
<1>1. Lock!Init => LockFits
    BY DEF Lock!Init, LockFits, Lock!TypeOK, Lock!LockConstants, Lock!Runs, Lock!Acquiring,
           Lock!Releasing
<1>2. LockFits /\ [Lock!Next]_(Lock!vars) => LockFits'
    <2> SUFFICES ASSUME LockFits, [Lock!Next]_(Lock!vars) PROVE LockFits'
        OBVIOUS
    <2> USE DEF LockFits, Lock!TypeOK, Lock!Runs, Lock!Record, Lock!NoFile, Lock!Acquiring,
                Lock!Releasing, Lock!LockConstants
    <2>1. ASSUME NEW p \in Procs, Lock!Start(p) PROVE LockFits'
        BY <2>1 DEF Lock!Start
    <2>2. ASSUME NEW p \in Procs, Lock!Open(p) PROVE LockFits'
        <3> USE <2>2 DEF Lock!Open, Lock!Go
        <3>1. CASE file = Lock!NoFile
            <4>1. proc[p].start \in 1..MaxStarts
                OBVIOUS
            <4>2. [proc |-> p, start |-> proc[p].start, written |-> FALSE] \in Lock!Record
                BY <4>1
            <4>3. /\ file' = [proc |-> p, start |-> proc[p].start, written |-> FALSE]
                  /\ proc' = [proc EXCEPT ![p].pc = "write"]
                BY <3>1
            <4> QED BY <4>2, <4>3
        <3>2. CASE file # Lock!NoFile
            BY <3>2
        <3> QED BY <3>1, <3>2
    <2>3. ASSUME NEW p \in Procs, Lock!Write(p) PROVE LockFits'
        BY <2>3 DEF Lock!Write, Lock!Go, Lock!Mine
    <2>4. ASSUME NEW p \in Procs, Lock!WriteFails(p) \/ Lock!Unlink(p) PROVE LockFits'
        BY <2>4 DEF Lock!WriteFails, Lock!Unlink, Lock!Go
    <2>5. ASSUME NEW p \in Procs, Lock!Read(p) PROVE LockFits'
        BY <2>5 DEF Lock!Read, Lock!Go
    <2>6. ASSUME NEW p \in Procs, Lock!Quarantine(p) PROVE LockFits'
        BY <2>6 DEF Lock!Quarantine
    <2>7. ASSUME NEW p \in Procs, Lock!Release(p) \/ Lock!ReadOwn(p) \/ Lock!Crash(p) PROVE LockFits'
        BY <2>7 DEF Lock!Release, Lock!ReadOwn, Lock!Crash, Lock!Go
    <2>8. CASE UNCHANGED Lock!vars
        BY <2>8 DEF Lock!vars
    <2> QED BY <2>1, <2>2, <2>3, <2>4, <2>5, <2>6, <2>7, <2>8 DEF Lock!Next
<1>3. LockFits => Lock!TypeOK
    BY DEF LockFits
<1> QED BY <1>1, <1>2, <1>3, PTL DEF Lock!Spec

StoreRecord ==
    [process : 1..MaxProcesses, tries : 0..(MaxTries - 1),
     pc : {"idle", "dead", "try", "record", "look", "steal", "wait"} \cup Store!Holding,
     tail : Seq(Mutations), snapshot : SUBSET Mutations]

\* One process of the scheduler goes on, with a queue if it is at work.
LEMMA StoreMoves ==
    ASSUME Store!TypeOK, QueueInv, NEW g \in Gateways, NEW s \in StoreRecord,
           store' = [store EXCEPT ![g] = s], s.pc \notin {"idle", "dead"} => s.tail # <<>>,
           UNCHANGED lockTime, tasksLock' \in Store!LockRecord \cup {Store!NoLock},
           tasks' \in SUBSET Mutations, calls' \in [Mutations -> CallStates], steals' \in Nat
    PROVE  Store!TypeOK' /\ QueueInv'
<1>1. store \in [Gateways -> StoreRecord]
    BY DEF Store!TypeOK, StoreRecord
<1>2. store' \in [Gateways -> StoreRecord]
    BY <1>1
<1>3. \A h \in Gateways : store'[h] = IF h = g THEN s ELSE store[h]
    BY <1>1
<1>4. Store!TypeOK'
    BY <1>2 DEF Store!TypeOK, StoreRecord, CallStates
<1>5. QueueInv'
    BY <1>3 DEF QueueInv
<1> QED BY <1>4, <1>5

LEMMA StoreTypeStep ==
    ASSUME Store!StoreLockConstants, Store!TypeOK, QueueInv, NEW g \in Gateways,
           \/ \E m \in Mutations : Store!Mutate(g, m)
           \/ Store!StoreStep(g) \/ Store!RecordFails(g) \/ Store!Crash(g) \/ Store!Restart(g)
    PROVE  Store!TypeOK' /\ QueueInv'
<1>1. /\ store[g] \in StoreRecord /\ store \in [Gateways -> StoreRecord]
      /\ calls \in [Mutations -> CallStates] /\ tasks \in SUBSET Mutations /\ steals \in Nat
      /\ tasksLock \in Store!LockRecord \cup {Store!NoLock} /\ lockTime \in 0..MaxLockTime
      /\ store[g].pc \notin {"idle", "dead"} => store[g].tail # <<>>
    BY DEF Store!TypeOK, StoreRecord, CallStates, QueueInv
<1>2. /\ store[g].tail \in Seq(Mutations) /\ store[g].process \in 1..MaxProcesses
      /\ store[g].tries \in 0..(MaxTries - 1) /\ store[g].snapshot \in SUBSET Mutations
      /\ store[g].pc \in {"idle", "dead", "try", "record", "look", "steal", "wait", "read", "write",
                          "release"}
    BY <1>1 DEF StoreRecord, Store!Holding
<1>3. store[g].tail # <<>> => Head(store[g].tail) \in Mutations /\ Tail(store[g].tail) \in Seq(Mutations)
    BY <1>2, QueueHead
<1>4. ASSUME NEW pc \in {"try", "record", "look", "steal", "wait", "read", "write", "release"},
             Store!Goes(g, pc), store[g].pc \notin {"idle", "dead"}, UNCHANGED lockTime,
             tasksLock' \in Store!LockRecord \cup {Store!NoLock},
             tasks' \in SUBSET Mutations, calls' \in [Mutations -> CallStates], steals' \in Nat
      PROVE  Store!TypeOK' /\ QueueInv'
    <2> DEFINE s == [store[g] EXCEPT !.pc = pc]
    <2>1. s \in StoreRecord /\ s.tail # <<>>
        BY <1>1, <1>4 DEF StoreRecord, Store!Holding
    <2>2. store' = [store EXCEPT ![g] = s]
        BY <1>4 DEF Store!Goes
    <2> HIDE DEF s
    <2> QED BY <1>4, <2>1, <2>2, StoreMoves
<1>5. ASSUME NEW outcome \in CallStates, Store!Settle(g, outcome), store[g].pc \notin {"idle", "dead"},
             UNCHANGED <<lockTime, tasks, steals>>, tasksLock' \in Store!LockRecord \cup {Store!NoLock}
      PROVE  Store!TypeOK' /\ QueueInv'
    <2> DEFINE s == [store[g] EXCEPT !.pc = "idle", !.tail = Tail(store[g].tail)]
    <2>1. s \in StoreRecord /\ s.pc = "idle"
        BY <1>1, <1>3, <1>5 DEF StoreRecord
    <2>2. store' = [store EXCEPT ![g] = s]
        BY <1>1, <1>5 DEF Store!Settle
    <2>3. calls' \in [Mutations -> CallStates]
        BY <1>1, <1>3, <1>5 DEF Store!Settle
    <2> HIDE DEF s
    <2> QED BY <1>1, <1>5, <2>1, <2>2, <2>3, StoreMoves
<1>6. ASSUME NEW m \in Mutations, Store!Mutate(g, m) PROVE Store!TypeOK' /\ QueueInv'
    <2> DEFINE s == [store[g] EXCEPT !.tail = Append(store[g].tail, m)]
    <2>1. Append(store[g].tail, m) \in Seq(Mutations) /\ Append(store[g].tail, m) # <<>>
        <3>1. \A tail \in Seq(Mutations) :
                  Append(tail, m) \in Seq(Mutations) /\ Append(tail, m) # <<>>
            OBVIOUS
        <3> QED BY <1>2, <3>1
    <2>2. s \in StoreRecord /\ s.tail # <<>>
        BY <1>1, <2>1 DEF StoreRecord
    <2>3. store' = [store EXCEPT ![g] = s] /\ UNCHANGED <<lockTime, tasksLock, tasks, steals>>
        BY <1>6 DEF Store!Mutate
    <2>4. calls' \in [Mutations -> CallStates]
        BY <1>1, <1>6 DEF Store!Mutate, CallStates
    <2> HIDE DEF s
    <2> QED BY <1>1, <2>2, <2>3, <2>4, StoreMoves
<1>7. CASE Store!Begin(g)
    <2> DEFINE s == [store[g] EXCEPT !.pc = "try", !.tries = 0]
    <2>1. 0 \in 0..(MaxTries - 1)
        BY DEF Store!StoreLockConstants
    <2>2. s \in StoreRecord /\ s.tail # <<>>
        BY <1>1, <1>7, <2>1 DEF StoreRecord, Store!Begin
    <2>3. store' = [store EXCEPT ![g] = s] /\ UNCHANGED <<lockTime, tasksLock, tasks, calls, steals>>
        BY <1>7 DEF Store!Begin
    <2> HIDE DEF s
    <2> QED BY <1>1, <2>2, <2>3, StoreMoves
<1>8. CASE Store!TryAgain(g)
    <2> DEFINE s == [store[g] EXCEPT !.pc = "try", !.tries = store[g].tries + 1]
    <2>1. store[g].tries + 1 \in 0..(MaxTries - 1)
        BY <1>2, <1>8 DEF Store!StoreLockConstants, Store!TryAgain
    <2>2. s \in StoreRecord /\ s.tail # <<>>
        BY <1>1, <1>8, <2>1 DEF StoreRecord, Store!TryAgain
    <2>3. store' = [store EXCEPT ![g] = s] /\ UNCHANGED <<lockTime, tasksLock, tasks, calls, steals>>
        BY <1>8 DEF Store!TryAgain
    <2> HIDE DEF s
    <2> QED BY <1>1, <2>2, <2>3, StoreMoves
<1>9. CASE Store!Acquire(g)
    <2>1. CASE tasksLock = Store!NoLock
        <3>1. lockTime + LockTtl \in 0..(MaxLockTime + LockTtl)
            BY <1>1 DEF Store!StoreLockConstants
        <3>2. tasksLock' = [owner |-> g, process |-> store[g].process, written |-> FALSE,
                            expires |-> lockTime + LockTtl]
            BY <1>9, <2>1 DEF Store!Acquire
        <3>4. tasksLock' \in Store!LockRecord
            BY <1>2, <3>1, <3>2 DEF Store!LockRecord
        <3>3. Store!Goes(g, "record") /\ UNCHANGED <<lockTime, tasks, calls, steals>> /\ store[g].pc = "try"
            BY <1>9, <2>1 DEF Store!Acquire
        <3> QED BY <1>1, <1>4, <3>3, <3>4
    <2>2. CASE tasksLock # Store!NoLock
        <3>1. Store!Goes(g, "look") /\ UNCHANGED <<lockTime, tasksLock, tasks, calls, steals>>
              /\ store[g].pc = "try"
            BY <1>9, <2>2 DEF Store!Acquire
        <3> QED BY <1>1, <1>4, <3>1
    <2> QED BY <2>1, <2>2
<1>10. CASE Store!WriteRecord(g)
    <2>1. tasksLock' \in Store!LockRecord \cup {Store!NoLock}
        BY <1>1, <1>10 DEF Store!WriteRecord, Store!Owns, Store!LockRecord
    <2>2. Store!Goes(g, "read") /\ UNCHANGED <<lockTime, tasks, calls, steals>> /\ store[g].pc = "record"
        BY <1>10 DEF Store!WriteRecord
    <2> QED BY <1>1, <1>4, <2>1, <2>2
<1>11. CASE Store!LookAt(g)
    <2>1. PICK pc \in {"steal", "wait"} : Store!Goes(g, pc)
        BY <1>11 DEF Store!LookAt
    <2>2. UNCHANGED <<lockTime, tasksLock, tasks, calls, steals>> /\ store[g].pc = "look"
        BY <1>11 DEF Store!LookAt
    <2> QED BY <1>1, <1>4, <2>1, <2>2
<1>12. CASE Store!StealLock(g)
    <2>1. steals' \in Nat /\ tasksLock' = Store!NoLock
        BY <1>1, <1>12 DEF Store!StealLock
    <2>2. Store!Goes(g, "wait") /\ UNCHANGED <<lockTime, tasks, calls>> /\ store[g].pc = "steal"
        BY <1>12 DEF Store!StealLock
    <2> QED BY <1>1, <1>4, <2>1, <2>2
<1>13. CASE Store!TimesOut(g) \/ Store!RecordFails(g)
    <2>1. Store!Settle(g, "failed") /\ UNCHANGED <<lockTime, tasksLock, tasks, steals>>
          /\ store[g].pc \in {"wait", "record"} /\ "failed" \in CallStates
        BY <1>13 DEF Store!TimesOut, Store!RecordFails, CallStates
    <2> QED BY <1>1, <1>5, <2>1
<1>14. CASE Store!ReadSnapshot(g)
    <2> DEFINE s == [store[g] EXCEPT !.snapshot = tasks, !.pc = "write"]
    <2>1. s \in StoreRecord /\ s.tail # <<>>
        BY <1>1, <1>14 DEF StoreRecord, Store!ReadSnapshot, Store!Holding
    <2>2. store' = [store EXCEPT ![g] = s] /\ UNCHANGED <<lockTime, tasksLock, tasks, calls, steals>>
        BY <1>14 DEF Store!ReadSnapshot
    <2> HIDE DEF s
    <2> QED BY <1>1, <2>1, <2>2, StoreMoves
<1>15. CASE Store!WriteSnapshot(g) \/ Store!MutationFails(g)
    <2>1. Store!Goes(g, "release") /\ UNCHANGED <<lockTime, tasksLock, steals>>
          /\ store[g].pc \in {"read", "write"}
        BY <1>15 DEF Store!WriteSnapshot, Store!MutationFails
    <2>2. tasks' \in SUBSET Mutations /\ calls' \in [Mutations -> CallStates]
        BY <1>1, <1>2, <1>3, <1>15 DEF Store!WriteSnapshot, Store!MutationFails, CallStates
    <2> QED BY <1>1, <1>4, <2>1, <2>2
<1>16. CASE Store!ReleaseLock(g)
    <2>1. PICK outcome \in {"returned", "failed"} : Store!Settle(g, outcome)
        BY <1>16 DEF Store!ReleaseLock
    <2>2. /\ UNCHANGED <<lockTime, tasks, steals>> /\ store[g].pc = "release" /\ outcome \in CallStates
          /\ tasksLock' \in Store!LockRecord \cup {Store!NoLock}
        BY <1>1, <1>16 DEF Store!ReleaseLock, CallStates
    <2> QED BY <1>5, <2>1, <2>2
<1>17. CASE Store!Crash(g) \/ Store!Restart(g)
    <2>1. <<>> \in Seq(Mutations) /\ 0 \in 0..(MaxTries - 1)
        BY DEF Store!StoreLockConstants
    <2>2. \E s \in StoreRecord : store' = [store EXCEPT ![g] = s] /\ s.pc \in {"idle", "dead"}
        <3>1. CASE Store!Crash(g)
            <4> DEFINE s == [Store!Idle(store[g].process) EXCEPT !.pc = "dead"]
            <4>1. s \in StoreRecord /\ s.pc = "dead"
                BY <1>2, <2>1 DEF StoreRecord, Store!Idle
            <4>2. store' = [store EXCEPT ![g] = s]
                BY <3>1 DEF Store!Crash
            <4> HIDE DEF s
            <4> QED BY <4>1, <4>2
        <3>2. CASE Store!Restart(g)
            <4> DEFINE s == Store!Idle(store[g].process + 1)
            <4>1. store[g].process + 1 \in 1..MaxProcesses
                BY <1>2, <3>2 DEF Store!Restart, Store!StoreLockConstants
            <4>2. s \in StoreRecord /\ s.pc = "idle"
                BY <2>1, <4>1 DEF StoreRecord, Store!Idle
            <4>3. store' = [store EXCEPT ![g] = s]
                BY <3>2 DEF Store!Restart
            <4> HIDE DEF s
            <4> QED BY <4>2, <4>3
        <3> QED BY <1>17, <3>1, <3>2
    <2>3. UNCHANGED <<lockTime, tasksLock, tasks, steals>> /\ calls' \in [Mutations -> CallStates]
        BY <1>1, <1>17 DEF Store!Crash, Store!Restart, CallStates
    <2> QED BY <1>1, <2>2, <2>3, StoreMoves
<1> QED BY <1>6, <1>7, <1>8, <1>9, <1>10, <1>11, <1>12, <1>13, <1>14, <1>15, <1>16, <1>17
        DEF Store!StoreStep

LEMMA StoreTypes ==
    ASSUME Store!StoreLockConstants PROVE Store!Spec => []Store!TypeOK
<1>1. Store!Init => Store!TypeOK /\ QueueInv
    <2> SUFFICES ASSUME Store!Init PROVE Store!TypeOK /\ QueueInv
        OBVIOUS
    <2>1. <<>> \in Seq(Mutations) /\ 0 \in 0..(MaxTries - 1) /\ 1 \in 1..MaxProcesses
        BY DEF Store!StoreLockConstants
    <2>2. Store!TypeOK
        BY <2>1 DEF Store!Init, Store!Idle, Store!TypeOK, Store!StoreLockConstants
    <2>3. QueueInv
        BY DEF Store!Init, Store!Idle, QueueInv
    <2> QED BY <2>2, <2>3
<1>2. Store!TypeOK /\ QueueInv /\ [Store!Next]_(Store!storeVars) => Store!TypeOK' /\ QueueInv'
    <2> SUFFICES ASSUME Store!TypeOK, QueueInv, [Store!Next]_(Store!storeVars)
                 PROVE  Store!TypeOK' /\ QueueInv'
        OBVIOUS
    <2>1. CASE UNCHANGED Store!storeVars
        BY <2>1 DEF Store!storeVars, Store!TypeOK, QueueInv
    <2>2. CASE Store!Tick
        BY <2>2 DEF Store!Tick, Store!TypeOK, QueueInv, Store!StoreLockConstants
    <2> QED BY <2>1, <2>2, StoreTypeStep DEF Store!Next
<1> QED BY <1>1, <1>2, PTL DEF Store!Spec

LEMMA BlobTypes ==
    ASSUME BlobFiles!BlobConstants PROVE BlobFiles!Spec => []BlobFiles!TypeOK
<1>1. BlobInv => BlobFiles!TypeOK
    <2> SUFFICES ASSUME BlobType PROVE BlobFiles!TypeOK
        BY DEF BlobInv
    <2>1. blobClock \in 0..MaxBlobOps /\ 0..blobClock \subseteq 0..MaxBlobOps
        BY DEF BlobType, BlobFiles!BlobConstants
    <2>2. \A b \in Blobs : begun[b] \in 0..MaxBlobOps /\ returned[b] \in 0..MaxBlobOps
        BY <2>1 DEF BlobType
    <2>3. blobOp = BlobFiles!NoOp \/ blobOp \in BlobOps
        BY DEF BlobType
    <2> QED BY <2>1, <2>2, <2>3 DEF BlobType, BlobFileType, SidecarType, BlobOps, BlobFiles!TypeOK
<1> QED BY <1>1, BlobsBegin, BlobsStay, PTL DEF BlobFiles!Spec

ServerFits ==
    /\ boot \in Server!BootPlaces /\ down \in {"none", "stop", "close", "release", "exited"}
    /\ pidLock \in BOOLEAN /\ serving \in BOOLEAN /\ engine \in BOOLEAN
    /\ apiKey \in [process : BOOLEAN, file : BOOLEAN]
    /\ child \in [Children -> [alive : BOOLEAN, timer : BOOLEAN, attempt : 0..MaxRestarts]]
    /\ tracked \subseteq Children /\ exits \in 0..MaxExits
    /\ \A c \in Children : child[c].timer => child[c].attempt < MaxRestarts

\* The steps that leave the children alone, and those of the children.
LEMMA ServerTypeStep ==
    ASSUME Server!ServerConstants, ServerFits, [Server!Next]_(Server!serverVars)
    PROVE  ServerFits'
<1> DEFINE Child == [alive : BOOLEAN, timer : BOOLEAN, attempt : 0..MaxRestarts]
<1>1. CASE \/ Server!AcquireLock \/ Server!LockRefused \/ Server!RecoverRuns \/ Server!StartEngine
           \/ Server!BootFails \/ Server!CloseServer \/ Server!ReleaseAndExit
    <2>1. UNCHANGED <<child, tracked, exits>>
        BY <1>1 DEF Server!AcquireLock, Server!LockRefused, Server!RecoverRuns,
                Server!StartEngine, Server!BootFails, Server!CloseServer, Server!ReleaseAndExit
    <2>2. /\ boot' \in {boot, "recover", "serve", "up", "failed"}
          /\ down' \in {down, "release", "exited"}
        BY <1>1 DEF Server!AcquireLock, Server!LockRefused, Server!RecoverRuns,
                Server!StartEngine, Server!BootFails, Server!CloseServer, Server!ReleaseAndExit
    <2>3. /\ pidLock' \in {pidLock, TRUE, FALSE} /\ serving' \in {serving, FALSE}
          /\ engine' \in {engine, TRUE, FALSE}
        BY <1>1, Zenon DEF Server!AcquireLock, Server!LockRefused, Server!RecoverRuns,
                Server!StartEngine, Server!BootFails, Server!CloseServer, Server!ReleaseAndExit
    <2>4. apiKey' \in [process : BOOLEAN, file : BOOLEAN]
        <3>1. \/ apiKey' = apiKey
              \/ apiKey' = [process |-> TRUE, file |-> TRUE]
              \/ apiKey' = [apiKey EXCEPT !.process = FALSE]
            BY <1>1 DEF Server!AcquireLock, Server!LockRefused, Server!RecoverRuns,
                Server!StartEngine, Server!BootFails, Server!CloseServer, Server!ReleaseAndExit
        <3>2. CASE apiKey' = [apiKey EXCEPT !.process = FALSE]
            <4>1. apiKey' = [process |-> FALSE, file |-> apiKey.file] /\ apiKey.file \in BOOLEAN
                BY <3>2 DEF ServerFits
            <4> QED BY <4>1
        <3>3. CASE apiKey' = [process |-> TRUE, file |-> TRUE]
            BY <3>3
        <3>4. CASE apiKey' = apiKey
            BY <3>4, Zenon DEF ServerFits
        <3> QED BY <3>1, <3>2, <3>3, <3>4
    <2>5. pidLock' \in BOOLEAN /\ serving' \in BOOLEAN /\ engine' \in BOOLEAN
        BY <2>3, Zenon DEF ServerFits
    <2>6. boot' \in Server!BootPlaces /\ down' \in {"none", "stop", "close", "release", "exited"}
        BY <2>2 DEF ServerFits, Server!BootPlaces
    <2> QED BY <2>1, <2>4, <2>5, <2>6, Zenon DEF ServerFits
<1>2. CASE Server!Serve
    <2>1. \A c \in Children : child[c].attempt \in 0..MaxRestarts
        BY DEF ServerFits
    <2>2. child' = [c \in Children |-> Server!SpawnManaged(c)]
        BY <1>2 DEF Server!Serve
    <2>3. child' \in [Children -> Child] /\ \A c \in Children : ~child'[c].timer
        BY <2>1, <2>2 DEF Server!SpawnManaged
    <2> QED BY <1>2, <2>3 DEF ServerFits, Server!Serve, Server!BootPlaces
<1>3. ASSUME NEW c \in Children, Server!ChildExits(c) PROVE ServerFits'
    <2> DEFINE rearmed == c \in Restarted /\ down = "none" /\ child[c].attempt < MaxRestarts
    <2>1. rearmed \in BOOLEAN
        OBVIOUS
    <2>2. child' = [child EXCEPT ![c] = [alive |-> FALSE, attempt |-> child[c].attempt,
                                         timer |-> rearmed]]
        BY <1>3 DEF Server!ChildExits, ServerFits
    <2>3. rearmed => child[c].attempt < MaxRestarts
        OBVIOUS
    <2> HIDE DEF rearmed
    <2>4. child' \in [Children -> Child]
        BY <2>1, <2>2 DEF ServerFits
    <2>5. \A d \in Children : child'[d].timer => child'[d].attempt < MaxRestarts
        BY <2>2, <2>3 DEF ServerFits
    <2>6. exits' \in 0..MaxExits
        BY <1>3 DEF Server!ChildExits, ServerFits, Server!ServerConstants
    <2> QED BY <1>3, <2>4, <2>5, <2>6 DEF ServerFits, Server!ChildExits
<1>4. ASSUME NEW c \in Children, Server!RestartChild(c) PROVE ServerFits'
    <2>1. child' = [child EXCEPT ![c] = [alive |-> TRUE, timer |-> FALSE,
                                         attempt |-> child[c].attempt + 1]]
        BY <1>4 DEF Server!RestartChild, ServerFits
    <2>2. child[c].attempt + 1 \in 0..MaxRestarts
        BY <1>4 DEF Server!RestartChild, ServerFits, Server!ServerConstants
    <2>3. child' \in [Children -> Child] /\ \A d \in Children : child'[d].timer => child'[d] = child[d]
        BY <2>1, <2>2 DEF ServerFits
    <2> QED BY <1>4, <2>3 DEF ServerFits, Server!RestartChild
<1>5. CASE Server!Signal
    <2>1. child' = [c \in Children |-> [child[c] EXCEPT !.timer = FALSE]]
        BY <1>5 DEF Server!Signal
    <2>2. \A c \in Children : child'[c] \in Child /\ ~child'[c].timer
        BY <2>1 DEF ServerFits
    <2>3. child' \in [Children -> Child]
        BY <2>1, <2>2
    <2> QED BY <1>5, <2>2, <2>3 DEF ServerFits, Server!Signal
<1>6. CASE Server!KillChildren
    <2>1. child' = [c \in Children |-> IF c \in tracked THEN [child[c] EXCEPT !.alive = FALSE]
                                       ELSE child[c]]
        BY <1>6 DEF Server!KillChildren
    <2>2. \A c \in Children : /\ child'[c] \in Child /\ child'[c].timer = child[c].timer
                              /\ child'[c].attempt = child[c].attempt
        BY <2>1 DEF ServerFits
    <2>3. child' \in [Children -> Child]
        BY <2>1, <2>2
    <2> QED BY <1>6, <2>2, <2>3 DEF ServerFits, Server!KillChildren
<1>7. CASE UNCHANGED Server!serverVars
    BY <1>7 DEF Server!serverVars, ServerFits
<1> QED BY <1>1, <1>2, <1>3, <1>4, <1>5, <1>6, <1>7 DEF Server!Next, Server!ShutdownStep

LEMMA ServerProcessTypes ==
    ASSUME Server!ServerConstants PROVE Server!Spec => []Server!TypeOK
<1>1. Server!Init => ServerFits
    <2> SUFFICES ASSUME Server!Init PROVE ServerFits
        OBVIOUS
    <2>1. 0 \in 0..MaxRestarts /\ 0 \in 0..MaxExits
        BY DEF Server!ServerConstants
    <2>2. PICK f \in BOOLEAN : apiKey = [process |-> FALSE, file |-> f]
        BY DEF Server!Init
    <2>3. apiKey \in [process : BOOLEAN, file : BOOLEAN]
        BY <2>2
    <2>4. /\ child \in [Children -> [alive : BOOLEAN, timer : BOOLEAN, attempt : 0..MaxRestarts]]
          /\ \A c \in Children : ~child[c].timer
        BY <2>1 DEF Server!Init
    <2>5. pidLock \in BOOLEAN /\ serving \in BOOLEAN /\ engine \in BOOLEAN
        BY Zenon DEF Server!Init
    <2>6. /\ boot \in Server!BootPlaces /\ down \in {"none", "stop", "close", "release", "exited"}
          /\ tracked \subseteq Children /\ exits \in 0..MaxExits
        BY <2>1 DEF Server!Init, Server!BootPlaces
    <2> QED BY <2>3, <2>4, <2>5, <2>6 DEF ServerFits
<1>2. ServerFits => Server!TypeOK
    BY DEF ServerFits, Server!TypeOK
<1> QED BY <1>1, <1>2, ServerTypeStep, PTL DEF Server!Spec

FaultsFit == fileFaults \in 0..MaxFileFaults

LEMMA FileTypes ==
    ASSUME Files!SessionFileConstants PROVE Files!Spec => []Files!TypeOK
<1>1. Files!Init => FaultsFit
    BY DEF FaultsFit, Files!Init, Files!SessionFileConstants
<1>2. FaultsFit /\ [Files!Next]_(Files!fileVars) => FaultsFit'
    <2> SUFFICES ASSUME FaultsFit, [Files!Next]_(Files!fileVars)
                 PROVE  fileFaults' = fileFaults \/ (fileFaults < MaxFileFaults /\ fileFaults' = fileFaults + 1)
        BY DEF FaultsFit, Files!SessionFileConstants
    <2>1. CASE UNCHANGED Files!fileVars
        BY <2>1 DEF Files!fileVars
    <2>2. ASSUME NEW o \in Calls, NEW k \in Files!Kinds, Files!Start(o, k) PROVE UNCHANGED fileFaults
        BY <2>2 DEF Files!Start
    <2>3. ASSUME NEW o \in Calls, Files!FileStep(o) PROVE UNCHANGED fileFaults
        BY <2>3 DEF Files!FileStep, Files!Enter, Files!Look, Files!FindBinding, Files!ReadFile,
                    Files!WriteFile
    <2>4. ASSUME NEW o \in Calls, Files!UpdateFails(o) \/ Files!Crash
          PROVE  fileFaults < MaxFileFaults /\ fileFaults' = fileFaults + 1
        BY <2>4 DEF Files!UpdateFails, Files!Crash
    <2>5. CASE Files!Crash
        BY <2>5 DEF Files!Crash
    <2> QED BY <2>1, <2>2, <2>3, <2>4, <2>5 DEF Files!Next
<1>3. FilesInv /\ FaultsFit => Files!TypeOK
    <2> SUFFICES ASSUME FilesType, FaultsFit PROVE Files!TypeOK
        BY DEF FilesInv
    <2>1. /\ files.sessions \in Sessions0 /\ files.bindings \in Binding /\ files.links \in SUBSET Calls
        BY DEF FilesType, Contents
    <2>2. \A o \in Calls : call[o].pc \in {"new", "enter", "wait", "write", "done", "failed"}
        BY DEF FilesType, CallRecords
    <2>3. \A p \in Files!Paths : Files!ToSet(fileTails[p]) \subseteq Calls
        BY DEF FilesType, Files!ToSet
    <2>4. files.sessions \in [Calls \cup {Default} -> [memory : SUBSET Calls, exists : BOOLEAN]]
        BY <2>1, Zenon DEF Sessions0
    <2>5. files.bindings.session \in Calls \cup {Default, "none"}
        BY <2>1 DEF Binding
    <2>6. undone \in SUBSET Calls
        BY DEF FilesType
    <2> QED BY <2>1, <2>2, <2>3, <2>4, <2>5, <2>6, Zenon DEF FaultsFit, Files!TypeOK
<1> QED BY <1>1, <1>2, <1>3, FilesBegin, FilesStay, PTL DEF Files!Spec

\* No post reaches the user more than twice: as markdown, and as plain text.
PushesFit ==
    /\ log \subseteq Events /\ nudged \subseteq Events /\ pushes \in [Events -> 0..2]
    /\ \A e \in Events : event[e].pc = "markdown" => pushes[e] = 0
    /\ \A e \in Events : event[e].pc = "plain" => pushes[e] <= 1

LEMMA IngressTypes == Ingress!Spec => []Ingress!TypeOK
<1>1. Ingress!Init => RoutedInv /\ PushesFit
    BY DEF Ingress!Init, RoutedInv, PushesFit
<1>2. RoutedInv /\ PushesFit /\ [Ingress!Next]_(Ingress!eventVars) => RoutedInv' /\ PushesFit'
    <2> SUFFICES ASSUME RoutedInv, PushesFit, [Ingress!Next]_(Ingress!eventVars) PROVE PushesFit'
        BY RoutedStays
    <2>1. CASE UNCHANGED Ingress!eventVars
        BY <2>1 DEF Ingress!eventVars, PushesFit
    <2>2. ASSUME NEW e \in Events, Ingress!Post(e) PROVE PushesFit'
        <3>1. PICK r \in [pc : {"unauthorized", "invalid", "append"}, type : Ingress!Types,
                          ping : BOOLEAN] : event' = [event EXCEPT ![e] = r]
            BY <2>2 DEF Ingress!Post
        <3>2. \A f \in Events : event'[f].pc \in {"markdown", "plain"} => event'[f] = event[f]
            BY <3>1 DEF RoutedInv
        <3> QED BY <2>2, <3>2 DEF Ingress!Post, PushesFit
    <2>3. ASSUME NEW e \in Events, Ingress!EventStep(e) PROVE PushesFit'
        <3>1. \A pc : Ingress!Goes(e, pc) => /\ event'[e].pc = pc
                                            /\ \A f \in Events \ {e} : event'[f] = event[f]
            <4>1. event[e] \in [pc : EventPlaces, type : Ingress!Types, ping : BOOLEAN]
                BY <2>3 DEF RoutedInv, Ingress!EventStep, Ingress!AppendEvent, Ingress!Route,
                            Ingress!Notify, Ingress!NotifyFails, Ingress!CallHook
            <4> QED BY <4>1 DEF Ingress!Goes, RoutedInv
        <3>2. CASE Ingress!AppendEvent(e) \/ Ingress!CallHook(e)
            BY <2>3, <3>1, <3>2 DEF Ingress!AppendEvent, Ingress!CallHook, PushesFit
        <3>3. CASE Ingress!Route(e)
            <4>1. event[e].pc = "route" /\ UNCHANGED <<log, pushes, nudged>> /\ pushes[e] = 0
                BY <3>3 DEF Ingress!Route, RoutedInv
            <4>2. PICK pc \in {"markdown", "hook"} : Ingress!Goes(e, pc)
                BY <3>3 DEF Ingress!Route
            <4> QED BY <3>1, <4>1, <4>2 DEF PushesFit
        <3>4. CASE Ingress!Notify(e) \/ Ingress!NotifyFails(e)
            <4>1. PICK pc \in {"hook", "plain", "error"}, n \in {pushes[e], pushes[e] + 1} :
                    /\ Ingress!Goes(e, pc)
                    /\ pushes' = [pushes EXCEPT ![e] = n]
                    /\ pc = "plain" => event[e].pc = "markdown"
                    /\ event[e].pc \in {"markdown", "plain"} /\ UNCHANGED <<log, nudged>>
                BY <3>4 DEF Ingress!Notify, Ingress!NotifyFails, PushesFit
            <4>2. n \in 0..2 /\ (pc = "plain" => n <= 1)
                BY <4>1 DEF PushesFit
            <4>3. /\ pushes' \in [Events -> 0..2] /\ pushes'[e] = n
                  /\ \A f \in Events \ {e} : pushes'[f] = pushes[f]
                BY <4>1, <4>2 DEF PushesFit
            <4> QED BY <3>1, <4>1, <4>2, <4>3 DEF PushesFit
        <3> QED BY <2>3, <3>2, <3>3, <3>4 DEF Ingress!EventStep
    <2> QED BY <2>1, <2>2, <2>3 DEF Ingress!Next
<1>3. RoutedInv /\ PushesFit => Ingress!TypeOK
    BY DEF RoutedInv, PushesFit, EventPlaces, Ingress!TypeOK
<1> QED BY <1>1, <1>2, <1>3, PTL DEF Ingress!Spec

\* A bucket counts one request more than may pass, and a moment sees as many as
\* a window lets pass.
RateFits ==
    /\ \A c \in Clients : buckets[c].count <= RateLimitMax + 1 /\ buckets[c].resetAt <= MaxRateTime + Window
    /\ \A c \in Clients, t \in Times : passed[c][t] <= RateLimitMax

LEMMA RequestFits ==
    ASSUME Rate!RateConstants, RateInv, RateFits, NEW c \in Clients, Rate!Request(c)
    PROVE  RateFits'
<1>1. /\ buckets \in [Clients -> [count : Nat, resetAt : Nat]]
      /\ passed \in [Clients -> [Times -> Nat]] /\ rateTime \in Times /\ rateTime <= MaxRateTime
      /\ Sound(passed[c], buckets[c], rateTime)
      /\ RateLimitMax \in Nat \ {0} /\ Window \in Nat \ {0} /\ MaxRateTime \in Nat /\ rateTime \in Nat
    BY LimitsFit DEF RateInv, Times
<1>2. /\ buckets[c].count \in Nat /\ buckets[c].resetAt \in Nat /\ passed[c] \in [Times -> Nat]
      /\ passed[c][rateTime] \in Nat
    BY <1>1
<1>3. ASSUME \A x \in Clients : /\ buckets'[x].count <= RateLimitMax + 1
                                /\ buckets'[x].resetAt <= MaxRateTime + Window,
             \/ passed' = passed
             \/ /\ passed' = [passed EXCEPT ![c][rateTime] = @ + 1]
                /\ passed[c][rateTime] + 1 <= RateLimitMax
      PROVE  RateFits'
    <2>1. \A x \in Clients, t \in Times : passed'[x][t] <= RateLimitMax
        BY <1>1, <1>2, <1>3 DEF RateFits
    <2> QED BY <1>3, <2>1 DEF RateFits
<1>4. CASE buckets[c] = Rate!NoBucket \/ rateTime >= buckets[c].resetAt
    <2>1. buckets[c] = Rate!NoBucket \/ buckets[c].resetAt <= rateTime
        BY <1>1, <1>2, <1>4
    <2>2. passed[c][rateTime] = 0
        BY <1>1, <2>1, ExpiredIsIdle DEF Idle
    <2>3. /\ \A x \in Clients : buckets'[x] \in {[count |-> 1, resetAt |-> rateTime + Window],
                                                Rate!NoBucket, buckets[x]}
          /\ passed' = [passed EXCEPT ![c][rateTime] = @ + 1]
        BY <1>4 DEF Rate!Request, Rate!NewWindow
    <2>4. ASSUME NEW x \in Clients
          PROVE  buckets'[x].count <= RateLimitMax + 1 /\ buckets'[x].resetAt <= MaxRateTime + Window
        <3>1. CASE buckets'[x] = [count |-> 1, resetAt |-> rateTime + Window]
            BY <1>1, <3>1
        <3>2. CASE buckets'[x] = Rate!NoBucket
            BY <1>1, <3>2 DEF Rate!NoBucket
        <3>3. CASE buckets'[x] = buckets[x]
            BY <3>3 DEF RateFits
        <3> QED BY <2>3, <3>1, <3>2, <3>3
    <2> QED BY <1>1, <1>3, <2>2, <2>3, <2>4
<1>5. CASE ~(buckets[c] = Rate!NoBucket \/ rateTime >= buckets[c].resetAt)
    <2> DEFINE start == buckets[c].resetAt - Window
    <2>1. /\ buckets[c].count <= RateLimitMax
          /\ buckets' = [buckets EXCEPT ![c].count = @ + 1]
          /\ \/ passed' = passed
             \/ /\ ~(buckets[c].count + 1 > RateLimitMax)
                /\ passed' = [passed EXCEPT ![c][rateTime] = @ + 1]
        BY <1>5 DEF Rate!Request
    <2>2. /\ start \in 0..rateTime /\ Since(passed[c], start) <= buckets[c].count
        BY <1>1, <1>5 DEF Sound, Open
    <2>3. rateTime \in From(start) /\ From(start) \in SUBSET Times
        BY <1>1, <2>2 DEF From
    <2> HIDE DEF start
    <2>4. /\ Since(passed[c], start) = passed[c][rateTime] + Total(passed[c], From(start) \ {rateTime})
          /\ Total(passed[c], From(start) \ {rateTime}) \in Nat
        BY <1>2, <2>3, TimesAddUp DEF Since
    <2>5. passed[c][rateTime] <= buckets[c].count
        BY <1>2, <2>2, <2>4
    <2>6. ASSUME NEW x \in Clients
          PROVE  buckets'[x].count <= RateLimitMax + 1 /\ buckets'[x].resetAt <= MaxRateTime + Window
        BY <1>1, <1>2, <2>1 DEF RateFits
    <2>7. ~(buckets[c].count + 1 > RateLimitMax) => passed[c][rateTime] + 1 <= RateLimitMax
        BY <1>1, <1>2, <2>5
    <2> QED BY <1>3, <2>1, <2>6, <2>7
<1> QED BY <1>4, <1>5

LEMMA RateTypes ==
    ASSUME Rate!RateConstants PROVE Rate!Spec => []Rate!TypeOK
<1>1. Rate!Init => RateFits
    <2> SUFFICES ASSUME Rate!Init PROVE RateFits
        OBVIOUS
    <2>1. RateLimitMax \in Nat \ {0} /\ Window \in Nat \ {0} /\ MaxRateTime \in Nat
        BY LimitsFit
    <2>2. \A c \in Clients : /\ buckets[c].count = 0 /\ buckets[c].resetAt = 0
                             /\ \A t \in Times : passed[c][t] = 0
        BY DEF Rate!Init, Rate!NoBucket, Times
    <2> QED BY <2>1, <2>2 DEF RateFits
<1>2. RateInv /\ RateFits /\ [Rate!Next]_(Rate!rateVars) => RateFits'
    <2> SUFFICES ASSUME RateInv, RateFits, [Rate!Next]_(Rate!rateVars) PROVE RateFits'
        OBVIOUS
    <2>1. CASE UNCHANGED <<buckets, passed>>
        BY <2>1 DEF RateFits
    <2> QED BY <2>1, RequestFits DEF Rate!Next, Rate!RateTick, Rate!rateVars
<1>3. RateInv /\ RateFits => Rate!TypeOK
    <2> SUFFICES ASSUME RateInv, RateFits PROVE Rate!TypeOK
        OBVIOUS
    <2>1. /\ buckets \in [Clients -> [count : Nat, resetAt : Nat]]
          /\ passed \in [Clients -> [Times -> Nat]] /\ rateTime \in Times
          /\ RateLimitMax \in Nat /\ Window \in Nat /\ MaxRateTime \in Nat
        BY LimitsFit DEF RateInv
    <2>2. buckets \in [Clients -> [count : 0..(RateLimitMax + 1), resetAt : 0..(MaxRateTime + Window)]]
        BY <2>1 DEF RateFits
    <2>3. \A c \in Clients : passed[c] \in [Times -> 0..RateLimitMax]
        BY <2>1 DEF RateFits
    <2>4. passed \in [Clients -> [Times -> 0..RateLimitMax]]
        BY <2>1, <2>3
    <2> QED BY <2>1, <2>2, <2>4 DEF Times, Rate!TypeOK
<1> QED BY <1>1, <1>2, <1>3, RateBegins, RateStays, PTL DEF Rate!Spec

\* A home's files come when its directories are there; however commands overlap
\* and are killed.
HomeHolds ==
    /\ HomeType
    /\ home.dir # "full" => \A f \in Home!HomeFiles : home.file[f] = Home!NoFile
    /\ \A c \in Commands : cmd[c].at \in Home!HomeFiles \cup {"done"} => home.dir = "full"

LEMMA HomeMoves ==
    ASSUME HomeHolds, NEW c \in Commands, NEW r \in Command, cmd' = [cmd EXCEPT ![c] = r],
           service' \in [plist : BOOLEAN, loaded : BOOLEAN],
           home' \in [dir : {"none", "bare", "full"}, file : [Home!HomeFiles -> HomeFile]],
           home.dir = "full" => home'.dir = "full",
           home'.dir # "full" => home'.file = home.file,
           r.at \in Home!HomeFiles \cup {"done"} => home'.dir = "full"
    PROVE  HomeHolds'
<1>1. /\ cmd'[c] = r /\ \A d \in Commands \ {c} : cmd'[d] = cmd[d]
      /\ cmd' \in [Commands -> Command]
    BY DEF HomeHolds, HomeType
<1>2. HomeType'
    BY <1>1 DEF HomeType
<1>3. home'.dir # "full" => \A f \in Home!HomeFiles : home'.file[f] = Home!NoFile
    BY DEF HomeHolds
<1>4. \A d \in Commands : cmd'[d].at \in Home!HomeFiles \cup {"done"} => home'.dir = "full"
    BY <1>1 DEF HomeHolds
<1> QED BY <1>2, <1>3, <1>4 DEF HomeHolds

LEMMA ServiceKeepsType ==
    ASSUME HomeType, NEW c \in Commands, Home!CommandStep(c)
    PROVE  service' \in [plist : BOOLEAN, loaded : BOOLEAN]
<1>1. service \in [plist : BOOLEAN, loaded : BOOLEAN]
    BY DEF HomeType
<1>2. CASE Home!WritePlist(c)
    BY <1>1, <1>2 DEF Home!WritePlist
<1>3. CASE Home!Bootout(c)
    BY <1>1, <1>3 DEF Home!Bootout
<1>4. CASE Home!Bootstrap(c)
    BY <1>1, <1>4 DEF Home!Bootstrap
<1>5. CASE Home!RemovePlist(c)
    BY <1>1, <1>5 DEF Home!RemovePlist, Home!Removed
<1>6. CASE UNCHANGED service
    BY <1>1, <1>6
<1> QED BY <1>2, <1>3, <1>4, <1>5, <1>6 DEF Home!CommandStep, Home!SetupMakesHome, Home!WriteOnce,
        Home!FileWritten, Home!CommandDone, Home!MigrateBegins, Home!CopyEntry, Home!RenameHome,
        Home!IsRunning, Home!Kickstart

\* Setup, which makes directories and files.
LEMMA SetupHolds ==
    ASSUME HomeHolds, NEW c \in Commands, service' \in [plist : BOOLEAN, loaded : BOOLEAN],
           \/ Home!SetupMakesHome(c)
           \/ \E f \in Home!HomeFiles : Home!WriteOnce(c, f) \/ Home!FileWritten(c, f)
    PROVE  HomeHolds'
<1>1. /\ HomeType /\ cmd[c] \in Command
      /\ home \in [dir : {"none", "bare", "full"}, file : [Home!HomeFiles -> HomeFile]]
      /\ cmd[c].at \in Home!HomeFiles => home.dir = "full"
    BY DEF HomeHolds, HomeType
<1>2. CASE Home!SetupMakesHome(c)
    <2> DEFINE at == IF cmd[c].at = "begin" THEN "dirs" ELSE "config"
               r == [cmd[c] EXCEPT !.at = at]
    <2>1. "config" \in Home!HomeFiles /\ "dirs" \notin Home!HomeFiles \cup {"done"}
          /\ at \in {"dirs", "config"}
        BY DEF Home!HomeFiles
    <2>2. r \in Command /\ r.at = at
        BY <1>1, <2>1 DEF Command
    <2>3. cmd' = [cmd EXCEPT ![c] = r]
        BY <1>1, <1>2 DEF Home!SetupMakesHome, Home!Goes
    <2>4. /\ home'.file = home.file
          /\ home' \in [dir : {"none", "bare", "full"}, file : [Home!HomeFiles -> HomeFile]]
          /\ home.dir = "full" => home'.dir = "full"
          /\ at = "config" => home'.dir = "full"
        BY <1>1, <1>2 DEF Home!SetupMakesHome
    <2> HIDE DEF r, at
    <2> QED BY <2>1, <2>2, <2>3, <2>4, HomeMoves
<1>3. ASSUME NEW f \in Home!HomeFiles, Home!WriteOnce(c, f) \/ Home!FileWritten(c, f)
      PROVE  HomeHolds'
    <2>1. home.dir = "full" /\ Home!After(f) \in Home!HomeFiles \cup {"done"}
        BY <1>1, <1>3 DEF Home!WriteOnce, Home!FileWritten, Home!After, Home!HomeFiles
    <2>2. \E r \in Command : cmd' = [cmd EXCEPT ![c] = r]
        <3>1. [cmd[c] EXCEPT !.open = TRUE] \in Command
            BY <1>1 DEF Command
        <3>2. [cmd[c] EXCEPT !.at = Home!After(f)] \in Command
            BY <1>1, <2>1 DEF Command
        <3>3. [cmd[c] EXCEPT !.at = Home!After(f), !.open = FALSE] \in Command
            BY <1>1, <2>1 DEF Command
        <3>4. \/ cmd' = [cmd EXCEPT ![c] = [cmd[c] EXCEPT !.open = TRUE]]
              \/ cmd' = [cmd EXCEPT ![c] = [cmd[c] EXCEPT !.at = Home!After(f)]]
              \/ cmd' = [cmd EXCEPT ![c] = [cmd[c] EXCEPT !.at = Home!After(f), !.open = FALSE]]
            BY <1>1, <1>3 DEF Home!WriteOnce, Home!FileWritten, Home!Goes, Home!Creates, HomeType, Command
        <3> QED BY <3>1, <3>2, <3>3, <3>4
    <2>3. \E w \in HomeFile : home' = home \/ home' = [home EXCEPT !.file[f] = w]
        <3>1. [state |-> "empty", from |-> "setup"] \in HomeFile
            BY DEF HomeFile
        <3>2. [home.file[f] EXCEPT !.state = "whole"] \in HomeFile
            BY <1>1 DEF HomeFile
        <3>3. \/ home' = home \/ home' = [home EXCEPT !.file[f] = [state |-> "empty", from |-> "setup"]]
              \/ home' = [home EXCEPT !.file[f] = [home.file[f] EXCEPT !.state = "whole"]]
            BY <1>1, <1>3 DEF Home!WriteOnce, Home!FileWritten, HomeFile
        <3> QED BY <3>1, <3>2, <3>3
    <2>4. PICK w \in HomeFile : home' = home \/ home' = [home EXCEPT !.file[f] = w]
        BY <2>3
    <2>5. /\ home' \in [dir : {"none", "bare", "full"}, file : [Home!HomeFiles -> HomeFile]]
          /\ home'.dir = "full"
        BY <1>1, <2>1, <2>4
    <2> QED BY <2>1, <2>2, <2>5, HomeMoves
<1> QED BY <1>2, <1>3

\* All others.
LEMMA CommandHolds ==
    ASSUME HomeHolds, NEW c \in Commands, service' \in [plist : BOOLEAN, loaded : BOOLEAN],
           \/ Home!Killed(c) \/ Home!CommandDone(c) \/ Home!MigrateBegins(c) \/ Home!CopyEntry(c)
           \/ Home!RenameHome(c) \/ Home!WritePlist(c) \/ Home!IsRunning(c) \/ Home!Bootout(c)
           \/ Home!Bootstrap(c) \/ Home!RemovePlist(c) \/ Home!Kickstart(c)
    PROVE  HomeHolds'
<1>1. /\ HomeType /\ cmd[c] \in Command
      /\ home \in [dir : {"none", "bare", "full"}, file : [Home!HomeFiles -> HomeFile]]
    BY DEF HomeHolds, HomeType
<1>2. CASE Home!Ends(c)
    <2>1. /\ cmd' = [cmd EXCEPT ![c] = Home!NoCmd] /\ Home!NoCmd \in Command
          /\ Home!NoCmd.at \notin Home!HomeFiles \cup {"done"}
        BY <1>1, <1>2, CommandRecords DEF Home!Ends, Home!HomeFiles
    <2>2. \/ home' = home
          \/ /\ home' = [dir |-> "full", file |-> home'.file]
             /\ home'.file \in [Home!HomeFiles -> HomeFile]
        <3>1. CASE Home!RenameHome(c)
            BY <3>1 DEF Home!RenameHome, HomeFile, Home!NoFile
        <3>2. CASE UNCHANGED home
            BY <3>2
        <3> QED BY <3>1, <3>2 DEF Home!Killed, Home!CommandDone, Home!MigrateBegins, Home!CopyEntry,
                Home!WritePlist, Home!IsRunning, Home!Bootout, Home!Bootstrap, Home!RemovePlist,
                Home!Kickstart
    <2>3. /\ home' \in [dir : {"none", "bare", "full"}, file : [Home!HomeFiles -> HomeFile]]
          /\ home' = home \/ home'.dir = "full"
        BY <1>1, <2>2
    <2> QED BY <2>1, <2>3, HomeMoves
<1>3. ASSUME NEW at \in {"copy", "running?", "bootout", "next"}, Home!Goes(c, at), UNCHANGED home
      PROVE  HomeHolds'
    <2> DEFINE r == [cmd[c] EXCEPT !.at = at]
    <2>1. r \in Command /\ r.at = at /\ at \notin Home!HomeFiles \cup {"done"}
        BY <1>1, CommandRecords DEF Home!HomeFiles
    <2>2. cmd' = [cmd EXCEPT ![c] = r]
        BY <1>3 DEF Home!Goes
    <2> HIDE DEF r
    <2> QED BY <1>1, <1>3, <2>1, <2>2, HomeMoves
<1>4. CASE Home!CopyEntry(c) /\ ~Home!Ends(c)
    <2>1. PICK f \in OldFiles \ cmd[c].staged : cmd' = [cmd EXCEPT ![c].staged = @ \cup {f}]
        BY <1>4 DEF Home!CopyEntry
    <2> DEFINE r == [cmd[c] EXCEPT !.staged = @ \cup {f}]
    <2>2. r \in Command /\ r.at = cmd[c].at /\ cmd' = [cmd EXCEPT ![c] = r] /\ UNCHANGED home
        BY <1>1, <1>4, <2>1 DEF Command, Home!CopyEntry
    <2>3. r.at \in Home!HomeFiles \cup {"done"} => home.dir = "full"
        BY <2>2 DEF HomeHolds
    <2> HIDE DEF r
    <2> QED BY <1>1, <2>2, <2>3, HomeMoves
<1> QED BY <1>2, <1>3, <1>4 DEF Home!Killed, Home!CommandDone, Home!MigrateBegins, Home!RenameHome,
        Home!WritePlist, Home!IsRunning, Home!Bootout, Home!Bootstrap, Home!RemovePlist, Home!Kickstart

LEMMA HomeTypes == Home!Spec => []Home!TypeOK
<1>1. Home!Init => HomeHolds
    BY DEF Home!Init, HomeHolds, HomeType, HomeFile, Command, Home!NoCmd, Home!NoFile, Home!HomeFiles
<1>2. HomeHolds /\ [Home!Next]_(Home!homeVars) => HomeHolds'
    <2> SUFFICES ASSUME HomeHolds, [Home!Next]_(Home!homeVars) PROVE HomeHolds'
        OBVIOUS
    <2>1. CASE UNCHANGED Home!homeVars
        BY <2>1 DEF Home!homeVars, HomeHolds, HomeType
    <2>2. ASSUME NEW c \in Commands, Home!CommandStep(c) PROVE HomeHolds'
        <3>1. service' \in [plist : BOOLEAN, loaded : BOOLEAN]
            BY <2>2, ServiceKeepsType DEF HomeHolds
        <3> QED BY <2>2, <3>1, SetupHolds, CommandHolds DEF Home!CommandStep
    <2>3. ASSUME NEW c \in Commands, Home!Killed(c) PROVE HomeHolds'
        <3>1. service' \in [plist : BOOLEAN, loaded : BOOLEAN]
            BY <2>3 DEF HomeHolds, HomeType, Home!Killed
        <3> QED BY <2>3, <3>1, CommandHolds
    <2>4. ASSUME NEW c \in Commands, NEW task \in Home!HomeOps \cup Home!ServiceOps,
                 Home!Start(c, task)
          PROVE  HomeHolds'
        <3> DEFINE r == [Home!NoCmd EXCEPT !.op = task, !.at = "begin"]
        <3>1. r \in Command /\ r.at = "begin" /\ "begin" \notin Home!HomeFiles \cup {"done"}
            BY DEF Command, Home!NoCmd, Home!HomeOps, Home!ServiceOps, Home!HomeFiles
        <3>2. cmd' = [cmd EXCEPT ![c] = r] /\ UNCHANGED <<home, service>>
            BY <2>4 DEF Home!Start
        <3>3. /\ service \in [plist : BOOLEAN, loaded : BOOLEAN]
              /\ home \in [dir : {"none", "bare", "full"}, file : [Home!HomeFiles -> HomeFile]]
            BY DEF HomeHolds, HomeType
        <3> HIDE DEF r
        <3> QED BY <3>1, <3>2, <3>3, HomeMoves
    <2> QED BY <2>1, <2>2, <2>3, <2>4 DEF Home!Next
<1>3. HomeHolds => Home!TypeOK
    BY DEF HomeHolds, HomeType, Command, Home!TypeOK
<1> QED BY <1>1, <1>2, <1>3, PTL DEF Home!Spec

\* What is enabled was approved, and files lie in a directory; however writes
\* overlap with loads and are killed.
ExtRecord ==
    [dir : BOOLEAN, manifest : Versions \cup {Extension!Nothing},
     entry : Versions \cup {Extension!Nothing},
     enabled : [manifest : Versions \cup {Extension!Nothing},
                entry : Versions \cup {Extension!Nothing}]]

ExtHolds ==
    /\ use \in [Users -> UseType] /\ ext \in ExtRecord
    /\ EnabledInv
    /\ ext.manifest # Extension!Nothing => ext.dir
    /\ \A u \in Users : use[u].at = "manifest" => ext.dir

LEMMA UseHolds ==
    ASSUME ExtHolds, NEW u \in Users, NEW r \in UseType, use' = [use EXCEPT ![u] = r],
           ext' \in ExtRecord, ext.dir => ext'.dir,
           ext'.manifest # Extension!Nothing => ext'.dir, r.at = "manifest" => ext'.dir,
           ext'.enabled \in approvals' \cup {Extension!NoDigest}
    PROVE  ExtHolds'
<1>1. /\ use'[u] = r /\ \A v \in Users \ {u} : use'[v] = use[v]
      /\ use' \in [Users -> UseType]
    BY DEF ExtHolds
<1>2. \A v \in Users : use'[v].at = "manifest" => ext'.dir
    BY <1>1 DEF ExtHolds
<1> QED BY <1>1, <1>2 DEF ExtHolds, EnabledInv

LEMMA UseRecords ==
    ASSUME ExtHolds, NEW u \in Users
    PROVE  /\ use[u] \in UseType /\ use[u].version \in Versions \cup {Extension!Nothing}
           /\ use[u].seen \in [manifest : Versions \cup {Extension!Nothing},
                               entry : Versions \cup {Extension!Nothing}]
<1>1. use[u] \in UseType
    BY DEF ExtHolds
<1> QED BY <1>1 DEF UseType

\* What leaves the directory alone.
LEMMA LookingHolds ==
    ASSUME ExtHolds, NEW u \in Users,
           \/ Extension!Killed(u) \/ Extension!Inspect(u) \/ Extension!DigestRead(u)
           \/ Extension!Written(u) \/ Extension!Compare(u) \/ Extension!InspectAgain(u)
           \/ Extension!Import(u)
    PROVE  ExtHolds'
<1>8. use[u] \in UseType
    BY DEF ExtHolds
<1>1. /\ ext \in ExtRecord /\ (ext.manifest # Extension!Nothing => ext.dir)
      /\ ext.enabled \in approvals \cup {Extension!NoDigest}
      /\ UNCHANGED <<ext, approvals>>
      /\ ext.manifest \in Versions \cup {Extension!Nothing}
      /\ ext.entry \in Versions \cup {Extension!Nothing}
    BY DEF ExtHolds, ExtRecord, EnabledInv, Extension!Killed, Extension!Inspect,
           Extension!DigestRead, Extension!Written, Extension!Compare, Extension!InspectAgain,
           Extension!Import
<1>2. CASE Extension!Ends(u)
    BY <1>1, <1>2, NoUseTyped, UseHolds DEF Extension!Ends
<1>3. ASSUME NEW at \in {"digest", "done", "approve", "compare", "again", "import"},
             NEW r \in UseType, r.at = at, use' = [use EXCEPT ![u] = r]
      PROVE  ExtHolds'
    BY <1>1, <1>3, UseHolds
<1>4. CASE Extension!Inspect(u) /\ ~Extension!Ends(u)
    <2> DEFINE seen == Extension!Digest(Extension!Nothing, ext.entry)
               r == [use[u] EXCEPT !.at = "digest", !.seen = seen]
    <2>1. use' = [use EXCEPT ![u] = r]
        BY <1>4 DEF Extension!Inspect
    <2>2. seen \in [manifest : Versions \cup {Extension!Nothing},
                    entry : Versions \cup {Extension!Nothing}]
        BY <1>1 DEF Extension!Digest
    <2> HIDE DEF seen
    <2>3. r \in UseType /\ r.at = "digest"
        BY <1>8, <2>2 DEF UseType
    <2> HIDE DEF r
    <2> QED BY <1>3, <2>1, <2>3
<1>5. CASE Extension!DigestRead(u)
    <2> DEFINE seen == [use[u].seen EXCEPT !.manifest = ext.manifest]
               r == [use[u] EXCEPT !.at = Extension!Then(u), !.seen = seen]
    <2>1. use' = [use EXCEPT ![u] = r]
        BY <1>5 DEF Extension!DigestRead
    <2>2. seen \in [manifest : Versions \cup {Extension!Nothing},
                    entry : Versions \cup {Extension!Nothing}]
          /\ Extension!Then(u) \in {"approve", "compare", "done"}
        BY <1>1, UseRecords DEF Extension!Then
    <2> HIDE DEF seen
    <2>3. r \in UseType /\ r.at = Extension!Then(u)
        BY <1>8, <2>2 DEF UseType
    <2> HIDE DEF r
    <2> QED BY <1>3, <2>1, <2>2, <2>3
<1>6. CASE Extension!Compare(u) /\ ~Extension!Ends(u)
    <2> DEFINE r == [use[u] EXCEPT !.at = "again"]
    <2>1. use' = [use EXCEPT ![u] = r]
        BY <1>6 DEF Extension!Compare, Extension!Goes
    <2>2. r \in UseType /\ r.at = "again"
        BY <1>8 DEF UseType
    <2> HIDE DEF r
    <2> QED BY <1>3, <2>1, <2>2
<1>7. CASE Extension!InspectAgain(u) /\ ~Extension!Ends(u)
    <2> DEFINE seen == Extension!Digest(ext.manifest, ext.entry)
               r == [use[u] EXCEPT !.at = "import", !.seen = seen]
    <2>1. use' = [use EXCEPT ![u] = r]
        BY <1>7 DEF Extension!InspectAgain
    <2>2. seen \in [manifest : Versions \cup {Extension!Nothing},
                    entry : Versions \cup {Extension!Nothing}]
        BY <1>1 DEF Extension!Digest
    <2> HIDE DEF seen
    <2>3. r \in UseType /\ r.at = "import"
        BY <1>8, <2>2 DEF UseType
    <2> HIDE DEF r
    <2> QED BY <1>3, <2>1, <2>3
<1> QED BY <1>2, <1>4, <1>5, <1>6, <1>7 DEF Extension!Killed, Extension!Inspect,
        Extension!Written, Extension!Compare, Extension!InspectAgain, Extension!Import

\* What writes, enables and disables.
LEMMA ChangingHolds ==
    ASSUME ExtHolds, NEW u \in Users,
           \/ Extension!MakeDirectory(u) \/ Extension!WriteManifest(u) \/ Extension!WriteEntry(u)
           \/ Extension!Disable(u) \/ Extension!Approve(u)
    PROVE  ExtHolds'
<1>8. use[u] \in UseType
    BY DEF ExtHolds
<1>1. /\ ext \in ExtRecord /\ (ext.manifest # Extension!Nothing => ext.dir)
      /\ ext.enabled \in approvals \cup {Extension!NoDigest}
      /\ use[u].at = "manifest" => ext.dir
    BY DEF ExtHolds, EnabledInv
<1>2. \/ ext' = [ext EXCEPT !.dir = TRUE] /\ approvals' = approvals
      \/ ext' = [ext EXCEPT !.manifest = use[u].version] /\ approvals' = approvals /\ ext.dir
      \/ ext' = [ext EXCEPT !.entry = use[u].version] /\ approvals' = approvals
      \/ ext' = [ext EXCEPT !.enabled = Extension!NoDigest] /\ approvals' = approvals
      \/ ext' = [ext EXCEPT !.enabled = use[u].seen] /\ approvals' = approvals \cup {use[u].seen}
    BY <1>1 DEF Extension!MakeDirectory, Extension!WriteManifest, Extension!WriteEntry,
                Extension!Disable, Extension!Approve
<1>3. Extension!NoDigest \in [manifest : Versions \cup {Extension!Nothing},
                             entry : Versions \cup {Extension!Nothing}]
    BY DEF Extension!NoDigest, Extension!Digest
<1>4. /\ ext' \in ExtRecord /\ (ext.dir => ext'.dir)
      /\ ext'.manifest # Extension!Nothing => ext'.dir
      /\ ext'.enabled \in approvals' \cup {Extension!NoDigest}
    <2>1. CASE ext' = [ext EXCEPT !.dir = TRUE] /\ approvals' = approvals
        BY <1>1, <2>1 DEF ExtRecord
    <2>2. CASE ext' = [ext EXCEPT !.manifest = use[u].version] /\ approvals' = approvals /\ ext.dir
        BY <1>1, <2>2, UseRecords DEF ExtRecord
    <2>3. CASE ext' = [ext EXCEPT !.entry = use[u].version] /\ approvals' = approvals
        BY <1>1, <2>3, UseRecords DEF ExtRecord
    <2>4. CASE ext' = [ext EXCEPT !.enabled = Extension!NoDigest] /\ approvals' = approvals
        BY <1>1, <1>3, <2>4 DEF ExtRecord
    <2>5. CASE ext' = [ext EXCEPT !.enabled = use[u].seen] /\ approvals' = approvals \cup {use[u].seen}
        BY <1>1, <2>5, UseRecords DEF ExtRecord
    <2> QED BY <1>2, <2>1, <2>2, <2>3, <2>4, <2>5
<1>5. CASE Extension!Ends(u)
    BY <1>4, <1>5, NoUseTyped, UseHolds DEF Extension!Ends
<1>6. ASSUME NEW at \in {"manifest", "entry", "disable", "inspect"}, Extension!Goes(u, at),
             at = "manifest" => ext'.dir
      PROVE  ExtHolds'
    <2> DEFINE r == [use[u] EXCEPT !.at = at]
    <2>1. r \in UseType /\ r.at = at
        BY <1>8 DEF UseType
    <2>2. use' = [use EXCEPT ![u] = r]
        BY <1>6 DEF Extension!Goes
    <2> HIDE DEF r
    <2> QED BY <1>4, <1>6, <2>1, <2>2, UseHolds
<1>7. Extension!MakeDirectory(u) => ext'.dir
    BY <1>1 DEF Extension!MakeDirectory, ExtRecord
<1> QED BY <1>5, <1>6, <1>7 DEF Extension!MakeDirectory, Extension!WriteManifest,
        Extension!WriteEntry, Extension!Disable, Extension!Approve

LEMMA ExtensionTypes == Extension!Spec => []Extension!TypeOK
<1>1. Extension!Init => ExtHolds
    BY NoUseTyped DEF Extension!Init, ExtHolds, EnabledInv, ExtRecord, Extension!NoDigest,
                      Extension!Digest
<1>2. ExtHolds /\ [Extension!Next]_(Extension!extVars) => ExtHolds'
    <2> SUFFICES ASSUME ExtHolds, [Extension!Next]_(Extension!extVars) PROVE ExtHolds'
        OBVIOUS
    <2>1. CASE UNCHANGED Extension!extVars
        BY <2>1 DEF Extension!extVars, ExtHolds, EnabledInv
    <2>2. ASSUME NEW u \in Users, Extension!UseStep(u) \/ Extension!Killed(u) PROVE ExtHolds'
        BY <2>2, LookingHolds, ChangingHolds DEF Extension!UseStep
    <2>3. ASSUME NEW u \in Users, NEW o \in {"create", "write", "enable", "disable", "load"},
                 NEW version \in Versions \cup {Extension!Nothing}, Extension!Begins(u, o, version)
          PROVE  ExtHolds'
        <3> DEFINE r == [Extension!NoUse EXCEPT !.op = o, !.at = "begin", !.version = version]
        <3>1. /\ use' = [use EXCEPT ![u] = r] /\ UNCHANGED <<ext, approvals>>
            BY <2>3 DEF Extension!Begins
        <3>2. r \in UseType /\ r.at = "begin"
            BY DEF UseType, Extension!NoUse, Extension!NoDigest, Extension!Digest
        <3>3. /\ ext \in ExtRecord /\ (ext.manifest # Extension!Nothing => ext.dir)
              /\ ext.enabled \in approvals \cup {Extension!NoDigest}
            BY DEF ExtHolds, EnabledInv
        <3> HIDE DEF r
        <3> QED BY <3>1, <3>2, <3>3, UseHolds
    <2> QED BY <2>1, <2>2, <2>3 DEF Extension!Next
<1>3. ExtHolds => Extension!TypeOK
    BY DEF ExtHolds, ExtRecord, EnabledInv, Extension!TypeOK
<1> QED BY <1>1, <1>2, <1>3, PTL DEF Extension!Spec

-----------------------------------------------------------------------------
(* What the parts do together: a behaviour of the gateway is one of each.  *)

LEMMA PartsBehave ==
    /\ FairParts => Lock!Spec
    /\ FairParts => Server!Spec
    /\ FairParts => Extension!Spec
    /\ FairParts => Channel!Spec
    /\ FairParts => Store!Spec
    /\ FairParts => Files!Spec
    /\ FairParts => BlobFiles!Spec
    /\ FairParts => Ingress!Spec
    /\ FairParts => Home!Spec
    /\ FairParts => Rate!Spec
    /\ FairParts => Approvals!Spec
<1>1. FairParts => PartsInit /\ [][PartsNext]_partVars
    BY PTL DEF FairParts
<1>2. PartsInit => /\ Lock!Init /\ Server!Init /\ Extension!Init /\ Channel!Init /\ Store!Init
                   /\ Files!Init /\ BlobFiles!Init /\ Ingress!Init /\ Home!Init /\ Rate!Init
    BY DEF PartsInit
<1>3. [PartsNext]_partVars => [Lock!Next]_(Lock!vars)
    BY DEF PartsNext, OthersStay, partVars, lockVars, Lock!vars
<1>4. [PartsNext]_partVars => [Server!Next]_(Server!serverVars)
    BY DEF PartsNext, OthersStay, partVars, serverVars, Server!serverVars
<1>5. [PartsNext]_partVars => [Extension!Next]_(Extension!extVars)
    BY DEF PartsNext, OthersStay, partVars, extensionVars, Extension!extVars
<1>6. PartsInit => Approvals!Init
    BY DEF PartsInit
<1>7. [PartsNext]_partVars => [Approvals!Next]_(Approvals!vars)
    BY DEF PartsNext, OthersStay, partVars, approvalVars, Approvals!vars
<1>8. [PartsNext]_partVars => [Channel!Next]_(Channel!vars)
    BY DEF PartsNext, OthersStay, partVars, channelVars, Channel!vars
<1>9. [PartsNext]_partVars => [Store!Next]_(Store!storeVars)
    BY DEF PartsNext, OthersStay, partVars, storeVars, Store!storeVars
<1>10. [PartsNext]_partVars => [Files!Next]_(Files!fileVars)
    BY DEF PartsNext, OthersStay, partVars, fileVars, Files!fileVars
<1>11. [PartsNext]_partVars => [BlobFiles!Next]_(BlobFiles!blobVars)
    BY DEF PartsNext, OthersStay, partVars, blobVars, BlobFiles!blobVars
<1>12. [PartsNext]_partVars => [Ingress!Next]_(Ingress!eventVars)
    BY DEF PartsNext, OthersStay, partVars, eventVars, Ingress!eventVars
<1>13. [PartsNext]_partVars => [Home!Next]_(Home!homeVars)
    BY DEF PartsNext, OthersStay, partVars, homeVars, Home!homeVars
<1>14. [PartsNext]_partVars => [Rate!Next]_(Rate!rateVars)
    BY DEF PartsNext, OthersStay, partVars, rateVars, Rate!rateVars
<1> QED BY <1>1, <1>2, <1>3, <1>4, <1>5, <1>6, <1>7, <1>8, <1>9, <1>10, <1>11, <1>12, <1>13,
           <1>14, PTL
        DEF Lock!Spec, Server!Spec, Extension!Spec, Approvals!Spec, Channel!Spec, Store!Spec,
            Files!Spec, BlobFiles!Spec, Ingress!Spec, Home!Spec, Rate!Spec

\* A workspace has one gateway: the lock stays in its owner's name (pidLock.ts),
\* what serves holds it, and no child outlives its gateway (server.ts), for any
\* starters, children, attempts and crashes.  Gateways are started one after the
\* other, signals come once the children are started, and only recovery may
\* throw: MCLockOverlap.cfg, ChildrenDieWithServer and ServingHoldsLock say what
\* the code does otherwise.
THEOREM GatewayIsOne ==
    ASSUME PartConstants, ~StartsOverlap, SignalsAt \subseteq {"engine", "up", "failed"},
           FailsAt \subseteq {"recover"}
    PROVE  FairParts => []OneGateway
BY PartsBehave, LockStaysWithOwner, ServingIsLocked, ChildrenEnd, PTL
   DEF PartConstants, OneGateway

\* What runs was approved: every run of an action has a granted request of its
\* own that has not expired (toolApprovalStore.ts), and a gateway loads only
\* code of extensions whose digest was approved (extensions/manager.ts), if no
\* write of one overlaps its approval or loading.
THEOREM OnlyApprovedRuns ==
    ASSUME PartConstants, ~WritesOverlap
    PROVE  FairParts => []RunsAreApproved
BY PartsBehave, ApprovedIsLoaded, ActionsAreApproved, PTL
   DEF PartConstants, RunsAreApproved

\* What was acknowledged is kept: run events (eventChannel.ts), tasks of the
\* scheduler (taskStore.ts), sessions, memories, links and bindings
\* (withFileLock), what the blob store says it has (channels/blobStore.ts) and
\* the answers to agent events (dispatcher.ts), for any producers, gateways,
\* calls and blobs and through any crashes and faults.  No holder of the lock
\* of the task file is slower than the lock's age: UpdatesAreKept does not hold
\* otherwise.
THEOREM AcknowledgedIsKept ==
    ASSUME PartConstants, ~SlowHolders
    PROVE  FairParts => []NothingIsLost
BY PartsBehave, EventsStay, UpdatesStay, FilesKeep, IndexStaysDisk, AnswersAreRouted, PTL
   DEF PartConstants, NothingIsLost

\* Files that belong together agree: a chat has one session, whatever calls bind
\* it (threads/store.ts), a home is migrated whole and initialized when it says so,
\* and launchd runs no service without its file, under the assumptions of
\* HomeIsSound.
THEOREM FilesStayTogether ==
    ASSUME PartConstants, ~ServiceOverlaps, "setup" \notin MayBeKilled
    PROVE  FairParts => []FilesAgree
BY PartsBehave, ChatsHaveOneSession, HomeIsSound, PTL
   DEF PartConstants, FilesAgree

\* The limits hold: an address gets less than two windows' worth of requests in
\* the length of one (gateway/app.ts), and the blob store evicts what was used
\* first and stays under its caps (channels/blobStore.ts), for any limits, sizes,
\* addresses and blobs and through any faults.
THEOREM CapsStayKept ==
    ASSUME PartConstants
    PROVE  FairParts => CapsAreKept
BY PartsBehave, WindowsStayKept, BlobsKeepTheirCaps, PTL
   DEF PartConstants, CapsAreKept

LEMMA ThreadsBehave == FairParts => Spec
<1>1. FairParts => PartsInit /\ [][PartsNext]_partVars
    BY PTL DEF FairParts
<1>2. PartsInit => Init
    BY DEF PartsInit
<1>3. [PartsNext]_partVars => [Next]_vars
    BY DEF PartsNext, OthersStay, partVars, vars
<1> QED BY <1>1, <1>2, <1>3, PTL DEF Spec

\* Every variable of every part has its type, whatever starts, writes, holders
\* and service commands overlap, whoever is slow, fails or is killed: bounds that
\* are part of it are the restarts of a child (server.ts), the count of a window
\* (gateway/app.ts), the two posts of one event (dispatcher.ts) and the slots of
\* the pool (workers/inMemoryQueue.ts).
THEOREM ServerTypesHold ==
    ASSUME PartConstants
    PROVE  FairParts => []PartsTypeOK
<1>1. Lock!LockConstants /\ Channel!ChannelConstants /\ ThreadConstants
      /\ Approvals!ApprovalConstants /\ Store!StoreLockConstants /\ BlobFiles!BlobConstants
    BY DEF PartConstants
<1>2. Server!ServerConstants /\ Files!SessionFileConstants /\ Rate!RateConstants
    BY DEF PartConstants
<1>3. FairParts => [](Lock!TypeOK /\ Store!TypeOK /\ BlobFiles!TypeOK)
    BY <1>1, PartsBehave, LockTypes, StoreTypes, BlobTypes, PTL
<1>4. FairParts => [](Server!TypeOK /\ Files!TypeOK /\ Rate!TypeOK)
    BY <1>2, PartsBehave, ServerProcessTypes, FileTypes, RateTypes, PTL
<1>5. FairParts => [](Ingress!TypeOK /\ Home!TypeOK /\ Extension!TypeOK)
    BY PartsBehave, IngressTypes, HomeTypes, ExtensionTypes, PTL
<1>6. FairParts => [](TypeOK /\ Approvals!TypeOK)
    BY <1>1, PartsBehave, ThreadsBehave, ThreadsTypeCorrect, ApprovalsTypeCorrect, PTL
<1>7. ChannelInv => Channel!TypeOK
    BY DEF ChannelInv
<1>8. FairParts => []Channel!TypeOK
    BY <1>1, <1>7, PartsBehave, ChannelInvariant, PTL
<1> QED BY <1>3, <1>4, <1>5, <1>6, <1>8, PTL DEF PartsTypeOK

=============================================================================
