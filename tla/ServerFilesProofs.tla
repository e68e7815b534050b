-------------------------- MODULE ServerFilesProofs --------------------------
(***************************************************************************)
(* What the gateway and its commands keep in files, for all constants: the *)
(* files of sessions keep what was acknowledged and a chat has one session *)
(* (SessionFiles), the store of attachments agrees with its files, evicts  *)
(* the oldest and stays under its caps (BlobStore), and a home is whole    *)
(* when it says so (AlfredHome).  Sums over finite sets are treated here.  *)
(***************************************************************************)
EXTENDS ServerParts, FiniteSetTheorems, TLAPS

-----------------------------------------------------------------------------
(* Files of sessions. *)

\* What is left of a call's program while it is under way.
Left ==
    [create |-> {<<"sessions">>}, patch |-> {<<"sessions">>}, reset |-> {<<"sessions">>},
     bind   |-> {<<"binding-lock", "sessions", "bindings">>, <<"sessions", "bindings">>,
                 <<"bindings">>},
     renew  |-> {<<"sessions", "bindings">>, <<"bindings">>},
     label  |-> {<<"bindings">>},
     attach |-> {<<"look", "bindings">>, <<"bindings">>},
     link   |-> {<<"links">>}, unlink |-> {<<"links">>}]

Binding  == [session : Calls \cup {Default, "none"}, label : Calls \cup {"none"}]
Sessions0 == [Calls \cup {Default} -> [memory : SUBSET Calls, exists : BOOLEAN]]
Contents == [sessions : Sessions0, bindings : Binding, links : SUBSET Calls]
Programs == Seq({"sessions", "bindings", "links", "binding-lock", "look"})

CallRecords ==
    [pc : {"new"}]
        \cup [pc : {"enter", "wait", "done", "failed"}, kind : Files!Kinds, program : Programs,
              seen : Binding]
        \cup [pc : {"write", "failed"}, kind : Files!Kinds, program : Programs, seen : Binding,
              read : Sessions0 \cup Binding \cup SUBSET Calls]

FilesType ==
    /\ files \in Contents
    /\ fileTails \in [Files!Paths -> Seq(Calls)]
    /\ call \in [Calls -> CallRecords]
    /\ undone \in SUBSET Calls

LEMMA Pieces ==
    /\ Files!Kinds = DOMAIN Left
    /\ \A k \in Files!Kinds : Files!Programs[k] \in Left[k] /\ Left[k] \subseteq Programs
    /\ \A k \in Files!Kinds : \A left \in Left[k] :
         /\ left # <<>> /\ Tail(left) \in Programs /\ Len(left) \in Nat
         /\ left[1] = "look" => k = "attach" /\ Tail(left) = <<"bindings">>
         /\ left[1] = "binding-lock" => k = "bind" /\ Tail(left) = <<"sessions", "bindings">>
         /\ left[1] = "sessions" =>
              \/ k \in {"create", "patch", "reset"} /\ Len(left) = 1
              \/ k \in {"bind", "renew"} /\ Len(left) # 1 /\ Tail(left) = <<"bindings">>
         /\ left[1] = "bindings" => k \in {"bind", "renew", "label", "attach"} /\ Len(left) = 1
                                    /\ left = <<"bindings">>
         /\ left[1] = "links" => k \in {"link", "unlink"} /\ Len(left) = 1
         /\ left[1] \in Files!Paths \cup {"look"}
<1>1. Files!Kinds = DOMAIN Left
    BY DEF Files!Kinds, Files!Programs, Left
<1>2. Tail(<<"sessions">>) = <<>> /\ Tail(<<"bindings">>) = <<>> /\ Tail(<<"links">>) = <<>>
      /\ Tail(<<"sessions", "bindings">>) = <<"bindings">>
      /\ Tail(<<"look", "bindings">>) = <<"bindings">>
      /\ Tail(<<"binding-lock", "sessions", "bindings">>) = <<"sessions", "bindings">>
    OBVIOUS
<1>3. /\ <<>> \in Programs
      /\ <<"sessions">> \in Programs /\ <<"bindings">> \in Programs /\ <<"links">> \in Programs
      /\ <<"sessions", "bindings">> \in Programs /\ <<"look", "bindings">> \in Programs
      /\ <<"binding-lock", "sessions", "bindings">> \in Programs
    BY DEF Programs
<1>4. ASSUME NEW k \in Files!Kinds
      PROVE  /\ Files!Programs[k] \in Left[k] /\ Left[k] \subseteq Programs
             /\ \A left \in Left[k] :
                 \/ left = <<"sessions">> /\ k \in {"create", "patch", "reset"}
                 \/ left = <<"bindings">> /\ k \in {"bind", "renew", "label", "attach"}
                 \/ left = <<"links">> /\ k \in {"link", "unlink"}
                 \/ left = <<"sessions", "bindings">> /\ k \in {"bind", "renew"}
                 \/ left = <<"look", "bindings">> /\ k = "attach"
                 \/ left = <<"binding-lock", "sessions", "bindings">> /\ k = "bind"
    <2>1. CASE k \in {"create", "patch", "reset", "link", "unlink", "label"}
        BY <1>3, <2>1 DEF Files!Programs, Left
    <2>2. CASE k \in {"bind", "renew", "attach"}
        BY <1>3, <2>2 DEF Files!Programs, Left
    <2> QED BY <1>1, <2>1, <2>2 DEF Left
<1>5. ASSUME NEW k \in Files!Kinds, NEW left \in Left[k]
      PROVE  /\ left # <<>> /\ Tail(left) \in Programs /\ Len(left) \in Nat
             /\ left[1] = "look" => k = "attach" /\ Tail(left) = <<"bindings">>
             /\ left[1] = "binding-lock" => k = "bind" /\ Tail(left) = <<"sessions", "bindings">>
             /\ left[1] = "sessions" =>
                  \/ k \in {"create", "patch", "reset"} /\ Len(left) = 1
                  \/ k \in {"bind", "renew"} /\ Len(left) # 1 /\ Tail(left) = <<"bindings">>
             /\ left[1] = "bindings" => k \in {"bind", "renew", "label", "attach"} /\ Len(left) = 1
                                        /\ left = <<"bindings">>
             /\ left[1] = "links" => k \in {"link", "unlink"} /\ Len(left) = 1
             /\ left[1] \in Files!Paths \cup {"look"}
    <2>1. CASE left = <<"sessions">> /\ k \in {"create", "patch", "reset"}
        BY <1>2, <1>3, <2>1 DEF Files!Paths
    <2>2. CASE left = <<"bindings">> /\ k \in {"bind", "renew", "label", "attach"}
        BY <1>2, <1>3, <2>2 DEF Files!Paths
    <2>3. CASE left = <<"links">> /\ k \in {"link", "unlink"}
        BY <1>2, <1>3, <2>3 DEF Files!Paths
    <2>4. CASE left = <<"sessions", "bindings">> /\ k \in {"bind", "renew"}
        BY <1>2, <1>3, <2>4 DEF Files!Paths
    <2>5. CASE left = <<"look", "bindings">> /\ k = "attach"
        BY <1>2, <1>3, <2>5 DEF Files!Paths
    <2>6. CASE left = <<"binding-lock", "sessions", "bindings">> /\ k = "bind"
        BY <1>2, <1>3, <2>6 DEF Files!Paths
    <2> QED BY <1>4, <2>1, <2>2, <2>3, <2>4, <2>5, <2>6
<1> QED BY <1>1, <1>4, <1>5

UnderWay == {"enter", "wait", "write"}

\* A call that is under way has a rest of its program to do.
CallsFit ==
    \A o \in Calls : call[o].pc \in UnderWay =>
        call[o].program \in Left[call[o].kind] /\ (call[o].pc = "wait" => Files!Step(o) # "look")

\* Who is about to write holds the lock of the file, and has read what is in it.
WritersHold ==
    \A o \in Calls : call[o].pc = "write" =>
        /\ Files!Step(o) \in {"sessions", "bindings", "links"} /\ Files!Holds(o, Files!Step(o))
        /\ call[o].read = files[Files!Step(o)]

\* What each call has left in the files.
Settled(o) ==
    call[o].pc = "done" =>
        /\ call[o].kind = "patch" => o \in files.sessions[Default].memory \cup undone
        /\ call[o].kind = "create" => files.sessions[o].exists
        /\ call[o].kind = "link" =>
             o \in files.links \/ \E q \in Calls : call[q].pc = "done" /\ call[q].kind = "unlink"

\* Who is about to bind the chat has made the session.
MadeIt(o) ==
    /\ call[o].pc \in UnderWay /\ call[o].kind \in {"bind", "renew"}
    /\ call[o].program = <<"bindings">>
    => files.sessions[o].exists

BoundExists ==
    /\ files.sessions[Default].exists
    /\ files.bindings # Files!NoBinding =>
         /\ files.bindings.session \in Calls \cup {Default}
         /\ files.sessions[files.bindings.session].exists

FilesInv ==
    /\ FilesType /\ CallsFit /\ WritersHold /\ BoundExists
    /\ \A o \in Calls : Settled(o) /\ MadeIt(o)

\* A call goes on without a write.
LEMMA CallGoesOn ==
    ASSUME FilesInv, NEW o \in Calls, NEW r \in CallRecords, call' = [call EXCEPT ![o] = r],
           files' = files, undone' = undone, fileTails' \in [Files!Paths -> Seq(Calls)],
           \A q \in Calls \ {o} : call[q].pc = "write" => Files!Holds(q, Files!Step(q))',
           call[o].pc # "done",
           r.pc \in UnderWay =>
               /\ r.program \in Left[r.kind] /\ (r.pc = "wait" => r.program[1] # "look")
               /\ r.kind \in {"bind", "renew"} /\ r.program = <<"bindings">> =>
                    files.sessions[o].exists,
           r.pc = "write" =>
               /\ r.program[1] \in {"sessions", "bindings", "links"}
               /\ Files!Holds(o, r.program[1])' /\ r.read = files[r.program[1]],
           r.pc = "done" => r.kind \notin {"patch", "create", "link"}
    PROVE  FilesInv'
<1>1. /\ call'[o] = r /\ call' \in [Calls -> CallRecords]
      /\ \A q \in Calls \ {o} : call'[q] = call[q]
    BY DEF FilesInv, FilesType
<1>2. FilesType' /\ BoundExists'
    BY <1>1 DEF FilesInv, FilesType, BoundExists
<1>3. CallsFit'
    BY <1>1 DEF FilesInv, CallsFit, Files!Step
<1>4. WritersHold'
    BY <1>1 DEF FilesInv, WritersHold, Files!Step, Files!Holds
<1>5. ASSUME NEW q \in Calls PROVE Settled(q)' /\ MadeIt(q)'
    <2>1. MadeIt(q)'
        BY <1>1 DEF FilesInv, MadeIt
    <2>2. CASE q = o
        BY <1>1, <2>1, <2>2 DEF Settled
    <2>3. CASE q # o
        BY <1>1, <2>1, <2>3 DEF FilesInv, Settled
    <2> QED BY <2>2, <2>3
<1> QED BY <1>2, <1>3, <1>4, <1>5 DEF FilesInv

\* The records of calls.
LEMMA CallFields ==
    ASSUME FilesType, NEW o \in Calls, call[o].pc # "new"
    PROVE  /\ call[o].kind \in Files!Kinds /\ call[o].program \in Programs /\ call[o].seen \in Binding
           /\ call[o].pc \in {"enter", "wait"} =>
                \A pc \in {"enter", "wait", "done", "failed"} :
                    LET r == [call[o] EXCEPT !.pc = pc] IN
                    /\ r \in CallRecords /\ r.pc = pc /\ r.kind = call[o].kind
                    /\ r.program = call[o].program
           /\ LET r == [call[o] EXCEPT !.pc = "failed"] IN r \in CallRecords /\ r.pc = "failed"
<1>1. call[o] \in CallRecords
    BY DEF FilesType
<1>2. CASE call[o] \in [pc : {"enter", "wait", "done", "failed"}, kind : Files!Kinds,
                       program : Programs, seen : Binding]
    BY <1>2 DEF CallRecords
<1>3. CASE call[o] \in [pc : {"write", "failed"}, kind : Files!Kinds, program : Programs,
                       seen : Binding, read : Sessions0 \cup Binding \cup SUBSET Calls]
    BY <1>3 DEF CallRecords
<1> QED BY <1>1, <1>2, <1>3 DEF CallRecords

\* What a call that is under way does next, and what it is a step of.
LEMMA CallPieces ==
    ASSUME FilesInv, NEW o \in Calls, call[o].pc \in UnderWay
    PROVE  /\ call[o].kind \in Files!Kinds /\ call[o].program \in Left[call[o].kind]
           /\ call[o].program \in Programs /\ Tail(call[o].program) \in Programs
           /\ Files!Step(o) \in Files!Paths \cup {"look"}
           /\ call[o].pc \in {"wait", "write"} => Files!Step(o) \in Files!Paths
           /\ Files!Step(o) = "look" =>
                call[o].kind = "attach" /\ Tail(call[o].program) = <<"bindings">>
           /\ Files!Step(o) = "binding-lock" =>
                call[o].kind = "bind" /\ Tail(call[o].program) = <<"sessions", "bindings">>
           /\ Files!Step(o) = "sessions" =>
                \/ call[o].kind \in {"create", "patch", "reset"} /\ Len(call[o].program) = 1
                \/ /\ call[o].kind \in {"bind", "renew"} /\ Len(call[o].program) # 1
                   /\ Tail(call[o].program) = <<"bindings">>
           /\ Files!Step(o) = "bindings" =>
                /\ call[o].kind \in {"bind", "renew", "label", "attach"}
                /\ Len(call[o].program) = 1 /\ call[o].program = <<"bindings">>
           /\ Files!Step(o) = "links" =>
                call[o].kind \in {"link", "unlink"} /\ Len(call[o].program) = 1
<1>1. FilesType /\ call[o].pc # "new"
    BY DEF FilesInv, UnderWay
<1> DEFINE k == call[o].kind
           left == call[o].program
<1>2. k \in Files!Kinds /\ left \in Programs
    BY <1>1, CallFields
<1>3. left \in Left[k] /\ (call[o].pc = "wait" => Files!Step(o) # "look")
    BY DEF FilesInv, CallsFit
<1>4. call[o].pc = "write" => Files!Step(o) \in Files!Paths
    BY DEF FilesInv, WritersHold, Files!Paths
<1>5. Files!Step(o) = left[1]
    BY DEF Files!Step
<1> HIDE DEF k, left
<1>6. /\ left # <<>> /\ Tail(left) \in Programs /\ Len(left) \in Nat
      /\ left[1] = "look" => k = "attach" /\ Tail(left) = <<"bindings">>
      /\ left[1] = "binding-lock" => k = "bind" /\ Tail(left) = <<"sessions", "bindings">>
      /\ left[1] = "sessions" =>
           \/ k \in {"create", "patch", "reset"} /\ Len(left) = 1
           \/ k \in {"bind", "renew"} /\ Len(left) # 1 /\ Tail(left) = <<"bindings">>
      /\ left[1] = "bindings" => k \in {"bind", "renew", "label", "attach"} /\ Len(left) = 1
                                 /\ left = <<"bindings">>
      /\ left[1] = "links" => k \in {"link", "unlink"} /\ Len(left) = 1
      /\ left[1] \in Files!Paths \cup {"look"}
    BY <1>2, <1>3, Pieces
<1> QED BY <1>2, <1>3, <1>4, <1>5, <1>6 DEF k, left

\* A lock that somebody else holds is not given back.
LEMMA HoldersStay ==
    ASSUME FilesType, NEW o \in Calls, NEW p \in Files!Paths
    PROVE  /\ Files!LetGo(o, p) \in Seq(Calls) /\ Append(fileTails[p], o) \in Seq(Calls)
           /\ \A q \in Calls \ {o} : Files!Holds(q, p) =>
                /\ Files!LetGo(o, p) = fileTails[p]
                /\ Append(fileTails[p], o) # <<>> /\ Head(Append(fileTails[p], o)) = q
<1> DEFINE s == fileTails[p]
<1>1. s \in Seq(Calls)
    BY DEF FilesType
<1> HIDE DEF s
<1>2. Append(s, o) \in Seq(Calls) /\ (s # <<>> => Append(s, o) # <<>> /\ Head(Append(s, o)) = Head(s))
    BY <1>1
<1>3. s # <<>> => Tail(s) \in Seq(Calls)
    BY <1>1
<1> QED BY <1>1, <1>2, <1>3 DEF s, Files!LetGo, Files!Holds

LEMMA EnterStep ==
    ASSUME FilesInv, NEW o \in Calls, Files!Enter(o)
    PROVE  FilesInv'
<1> DEFINE r == [call[o] EXCEPT !.pc = "wait"]
<1>1. FilesType /\ call[o].pc = "enter" /\ Files!Step(o) # "look"
    BY DEF FilesInv, Files!Enter
<1>2. /\ r \in CallRecords /\ r.pc = "wait" /\ r.kind = call[o].kind /\ r.program = call[o].program
    BY <1>1, CallFields
<1>3. /\ r.program \in Left[r.kind] /\ r.program[1] # "look" /\ Files!Step(o) \in Files!Paths
      /\ r.kind \in {"bind", "renew"} /\ r.program = <<"bindings">> => files.sessions[o].exists
    <2>1. call[o].program \in Left[call[o].kind]
        BY <1>1 DEF FilesInv, CallsFit, UnderWay
    <2>2. Files!Step(o) \in Files!Paths
        BY <1>1, CallPieces DEF UnderWay
    <2> QED BY <1>1, <1>2, <2>1, <2>2 DEF FilesInv, MadeIt, UnderWay, Files!Step
<1>4. /\ call' = [call EXCEPT ![o] = r] /\ UNCHANGED <<files, undone>>
      /\ fileTails' = [fileTails EXCEPT ![Files!Step(o)] = Append(@, o)]
    BY DEF Files!Enter, Files!Goes
<1> HIDE DEF r
<1>5. fileTails' \in [Files!Paths -> Seq(Calls)]
    BY <1>1, <1>3, <1>4, HoldersStay DEF FilesType
<1>6. ASSUME NEW q \in Calls \ {o}, call[q].pc = "write" PROVE Files!Holds(q, Files!Step(q))'
    <2>1. Files!Step(q) \in Files!Paths /\ Files!Holds(q, Files!Step(q)) /\ call'[q] = call[q]
        BY <1>4, <1>6 DEF FilesInv, FilesType, WritersHold, Files!Paths
    <2>2. CASE Files!Step(q) = Files!Step(o)
        <3> DEFINE p == Files!Step(o)
        <3>1. p \in Files!Paths /\ fileTails'[p] = Append(fileTails[p], o)
            BY <1>1, <1>4, <2>1, <2>2 DEF FilesType
        <3>2. Files!Holds(q, p) /\ Files!Step(q)' = p
            BY <2>1, <2>2 DEF Files!Step
        <3> HIDE DEF p
        <3>3. Append(fileTails[p], o) # <<>> /\ Head(Append(fileTails[p], o)) = q
            BY <1>1, <3>1, <3>2, HoldersStay
        <3> QED BY <3>1, <3>2, <3>3 DEF Files!Holds
    <2>3. CASE Files!Step(q) # Files!Step(o)
        BY <1>1, <1>4, <2>1, <2>3 DEF Files!Holds, Files!Step, FilesType
    <2> QED BY <2>2, <2>3
<1> QED BY <1>1, <1>2, <1>3, <1>4, <1>5, <1>6, CallGoesOn

\* Where no queue changes, who holds a lock keeps it.
LEMMA QuietCall ==
    ASSUME FilesInv, NEW o \in Calls, NEW r \in CallRecords, call' = [call EXCEPT ![o] = r],
           files' = files, undone' = undone, fileTails' = fileTails, call[o].pc # "done",
           r.pc \in UnderWay =>
               /\ r.program \in Left[r.kind] /\ (r.pc = "wait" => r.program[1] # "look")
               /\ r.kind \in {"bind", "renew"} /\ r.program = <<"bindings">> =>
                    files.sessions[o].exists,
           r.pc = "write" =>
               /\ r.program[1] \in {"sessions", "bindings", "links"}
               /\ Files!Holds(o, r.program[1]) /\ r.read = files[r.program[1]],
           r.pc = "done" => r.kind \notin {"patch", "create", "link"}
    PROVE  FilesInv'
<1>1. ASSUME NEW q \in Calls \ {o}, call[q].pc = "write" PROVE Files!Holds(q, Files!Step(q))'
    <2>1. call'[q] = call[q]
        BY DEF FilesInv, FilesType
    <2> QED BY <1>1, <2>1 DEF FilesInv, WritersHold, Files!Holds, Files!Step
<1>2. fileTails' \in [Files!Paths -> Seq(Calls)]
    BY DEF FilesInv, FilesType
<1>3. \A p : Files!Holds(o, p)' <=> Files!Holds(o, p)
    BY DEF Files!Holds
<1> QED BY <1>1, <1>2, <1>3, CallGoesOn

LEMMA StartStep ==
    ASSUME FilesInv, NEW o \in Calls, NEW k \in Files!Kinds, Files!Start(o, k)
    PROVE  FilesInv'
<1> DEFINE r == [pc |-> "enter", kind |-> k, program |-> Files!Programs[k], seen |-> Files!NoBinding]
<1>1. /\ call' = [call EXCEPT ![o] = r] /\ UNCHANGED <<files, undone, fileTails>>
      /\ call[o].pc # "done"
    BY DEF Files!Start
<1>2. Files!Programs[k] \in Left[k] /\ Files!Programs[k] \in Programs
    BY Pieces
<1>3. r \in CallRecords /\ r.pc = "enter" /\ r.program = Files!Programs[k] /\ r.kind = k
    BY <1>2 DEF CallRecords, Files!NoBinding, Binding
<1>4. ~(k \in {"bind", "renew"} /\ Files!Programs[k] = <<"bindings">>)
    BY DEF Files!Programs
<1> HIDE DEF r
<1> QED BY <1>1, <1>2, <1>3, <1>4, QuietCall

LEMMA LookStep ==
    ASSUME FilesInv, NEW o \in Calls, Files!Look(o)
    PROVE  FilesInv'
<1>1. FilesType /\ call[o].pc = "enter" /\ Files!Step(o) = "look"
    BY DEF FilesInv, Files!Look
<1>2. call[o].program \in Left[call[o].kind]
    BY <1>1 DEF FilesInv, CallsFit, UnderWay
<1>3. call[o].kind = "attach" /\ Tail(call[o].program) = <<"bindings">>
      /\ <<"bindings">> \in Left["attach"] /\ <<"bindings">> \in Programs
    <2>1. call[o].kind = "attach" /\ Tail(call[o].program) = <<"bindings">>
        BY <1>1, CallPieces DEF UnderWay
    <2> QED BY <2>1 DEF Left, Programs
<1>4. CASE files.bindings = Files!NoBinding
    <2> DEFINE r == [call[o] EXCEPT !.pc = "done"]
    <2>1. call' = [call EXCEPT ![o] = r] /\ UNCHANGED <<files, undone, fileTails>>
        BY <1>4 DEF Files!Look, Files!Goes
    <2>2. r \in CallRecords /\ r.pc = "done" /\ r.kind = "attach"
        BY <1>1, <1>3, CallFields
    <2> HIDE DEF r
    <2> QED BY <1>1, <2>1, <2>2, QuietCall DEF UnderWay
<1>5. CASE files.bindings # Files!NoBinding
    <2> DEFINE r == [call[o] EXCEPT !.seen = files.bindings, !.program = Tail(call[o].program)]
    <2>1. call' = [call EXCEPT ![o] = r] /\ UNCHANGED <<files, undone, fileTails>>
        BY <1>5 DEF Files!Look
    <2>2. /\ r \in CallRecords /\ r.pc = "enter" /\ r.kind = "attach"
          /\ r.program = <<"bindings">>
        <3>1. call[o] \in [pc : {"enter", "wait", "done", "failed"}, kind : Files!Kinds,
                          program : Programs, seen : Binding]
            BY <1>1 DEF FilesType, CallRecords
        <3> QED BY <1>1, <1>3, <3>1 DEF CallRecords, FilesType, Contents
    <2> HIDE DEF r
    <2> QED BY <1>1, <1>3, <2>1, <2>2, QuietCall
<1> QED BY <1>4, <1>5

LEMMA ReadStep ==
    ASSUME FilesInv, NEW o \in Calls, Files!ReadFile(o)
    PROVE  FilesInv'
<1>1. /\ FilesType /\ call[o].pc = "wait" /\ Files!Step(o) # "binding-lock"
      /\ Files!Holds(o, Files!Step(o))
    BY DEF FilesInv, Files!ReadFile, Files!Waits
<1>2. call[o].program \in Left[call[o].kind] /\ Files!Step(o) # "look"
    BY <1>1 DEF FilesInv, CallsFit, UnderWay
<1>3. Files!Step(o) \in {"sessions", "bindings", "links"}
    BY <1>1, CallPieces DEF UnderWay, Files!Paths
<1> DEFINE r == [kind |-> call[o].kind, program |-> call[o].program, pc |-> "write",
                 seen |-> IF call[o].kind = "attach" THEN call[o].seen ELSE Files!NoBinding,
                 read |-> files[Files!Step(o)]]
<1>4. call' = [call EXCEPT ![o] = r] /\ UNCHANGED <<files, undone, fileTails>>
    BY DEF Files!ReadFile
<1>5. /\ r \in CallRecords /\ r.pc = "write" /\ r.kind = call[o].kind
      /\ r.program = call[o].program /\ r.read = files[Files!Step(o)]
    <2>1. files[Files!Step(o)] \in Sessions0 \cup Binding \cup SUBSET Calls
        BY <1>1, <1>3 DEF FilesType, Contents
    <2>2. (IF call[o].kind = "attach" THEN call[o].seen ELSE Files!NoBinding) \in Binding
        BY <1>1, CallFields DEF Files!NoBinding, Binding
    <2>3. call[o].kind \in Files!Kinds /\ call[o].program \in Programs
        BY <1>1, CallFields
    <2> QED BY <2>1, <2>2, <2>3 DEF CallRecords
<1>6. call[o].kind \in {"bind", "renew"} /\ call[o].program = <<"bindings">> => files.sessions[o].exists
    BY <1>1 DEF FilesInv, MadeIt, UnderWay
<1> HIDE DEF r
<1> QED BY <1>1, <1>2, <1>3, <1>4, <1>5, <1>6, QuietCall DEF Files!Step

\* A call that fails or is lost.
LEMMA FindStep ==
    ASSUME FilesInv, NEW o \in Calls, Files!FindBinding(o)
    PROVE  FilesInv'
<1>1. /\ FilesType /\ call[o].pc = "wait" /\ Files!Step(o) = "binding-lock"
      /\ "binding-lock" \in Files!Paths
    BY DEF FilesInv, Files!FindBinding, Files!Waits, Files!Paths
<1>2. call[o].kind = "bind" /\ Tail(call[o].program) = <<"sessions", "bindings">>
    BY <1>1, CallPieces DEF UnderWay
<1>3. CASE files.bindings # Files!NoBinding
    <2> DEFINE r == [call[o] EXCEPT !.pc = "done"]
    <2>1. /\ call' = [call EXCEPT ![o] = r] /\ UNCHANGED <<files, undone>>
          /\ fileTails' = [fileTails EXCEPT !["binding-lock"] = Tail(@)]
          /\ Files!Holds(o, "binding-lock")
        BY <1>3 DEF Files!FindBinding, Files!Goes
    <2>2. r \in CallRecords /\ r.pc = "done" /\ r.kind = "bind"
        BY <1>1, <1>2, CallFields
    <2> HIDE DEF r
    <2>3. fileTails' \in [Files!Paths -> Seq(Calls)]
        <3>1. Files!LetGo(o, "binding-lock") \in Seq(Calls)
            BY <1>1, HoldersStay
        <3> QED BY <1>1, <2>1, <3>1 DEF FilesType, Files!LetGo
    <2>4. ASSUME NEW q \in Calls \ {o}, call[q].pc = "write" PROVE Files!Holds(q, Files!Step(q))'
        <3>1. /\ Files!Step(q) \in {"sessions", "bindings", "links"}
              /\ Files!Holds(q, Files!Step(q)) /\ call'[q] = call[q]
            BY <2>1, <2>4 DEF FilesInv, FilesType, WritersHold
        <3>2. fileTails'[Files!Step(q)] = fileTails[Files!Step(q)]
            BY <1>1, <2>1, <3>1 DEF FilesType
        <3> QED BY <3>1, <3>2 DEF Files!Holds, Files!Step
    <2> QED BY <1>1, <2>1, <2>2, <2>3, <2>4, CallGoesOn DEF UnderWay
<1>4. CASE files.bindings = Files!NoBinding
    <2> DEFINE r == [call[o] EXCEPT !.program = Tail(call[o].program), !.pc = "enter"]
    <2>1. call' = [call EXCEPT ![o] = r] /\ UNCHANGED <<files, undone, fileTails>>
        <3>1. call' = [call EXCEPT ![o] = [@ EXCEPT !.program = Tail(call[o].program),
                         !.pc = IF Tail(call[o].program) = <<>> THEN "done" ELSE "enter"]]
            BY <1>4 DEF Files!FindBinding, Files!NextStep
        <3>2. Tail(call[o].program) # <<>>
            BY <1>2
        <3>3. UNCHANGED <<files, undone, fileTails>>
            BY <1>4 DEF Files!FindBinding
        <3> QED BY <3>1, <3>2, <3>3
    <2>2. /\ r \in CallRecords /\ r.pc = "enter" /\ r.kind = "bind"
          /\ r.program = <<"sessions", "bindings">>
        <3>1. call[o] \in [pc : {"enter", "wait", "done", "failed"}, kind : Files!Kinds,
                          program : Programs, seen : Binding]
            BY <1>1 DEF FilesType, CallRecords
        <3>2. Tail(call[o].program) \in Programs
            BY <1>1, CallPieces DEF UnderWay
        <3> QED BY <1>2, <3>1, <3>2 DEF CallRecords
    <2>3. <<"sessions", "bindings">> \in Left["bind"] /\ <<"sessions", "bindings">> # <<"bindings">>
        BY DEF Left
    <2> HIDE DEF r
    <2> QED BY <1>1, <2>1, <2>2, <2>3, QuietCall
<1> QED BY <1>3, <1>4

LEMMA FailStep ==
    ASSUME FilesInv, NEW o \in Calls, Files!UpdateFails(o)
    PROVE  FilesInv'
<1>1. FilesType /\ call[o].pc \in {"wait", "write"}
    BY DEF FilesInv, Files!UpdateFails, Files!Waits
<1> DEFINE r == [call[o] EXCEPT !.pc = "failed"]
<1>2. /\ call' = [call EXCEPT ![o] = r] /\ UNCHANGED <<files, undone>>
      /\ fileTails' = [p \in Files!Paths |-> Files!LetGo(o, p)]
    BY DEF Files!UpdateFails, Files!Goes
<1>3. r \in CallRecords /\ r.pc = "failed"
    BY <1>1, CallFields
<1> HIDE DEF r
<1>4. fileTails' \in [Files!Paths -> Seq(Calls)]
    <2>1. \A p \in Files!Paths : Files!LetGo(o, p) \in Seq(Calls)
        BY <1>1, HoldersStay
    <2> QED BY <1>2, <2>1
<1>5. ASSUME NEW q \in Calls \ {o}, call[q].pc = "write" PROVE Files!Holds(q, Files!Step(q))'
    <2> DEFINE p == Files!Step(q)
    <2>1. p \in Files!Paths /\ Files!Holds(q, p) /\ call'[q] = call[q]
        BY <1>2, <1>5 DEF FilesInv, FilesType, WritersHold, Files!Paths
    <2>2. Files!Step(q)' = p
        BY <2>1 DEF Files!Step
    <2> HIDE DEF p
    <2>3. Files!LetGo(o, p) = fileTails[p]
        BY <1>1, <2>1, HoldersStay
    <2> QED BY <1>2, <2>1, <2>2, <2>3 DEF Files!Holds
<1> QED BY <1>1, <1>2, <1>3, <1>4, <1>5, CallGoesOn DEF UnderWay

\* What a crash leaves of each call has ended, or never began.
LEMMA CrashStep ==
    ASSUME FilesInv, Files!Crash
    PROVE  FilesInv'
<1>1. FilesType
    BY DEF FilesInv
<1>2. UNCHANGED <<files, undone>> /\ fileTails' = [p \in Files!Paths |-> <<>>]
    BY DEF Files!Crash
<1>3. ASSUME NEW o \in Calls
      PROVE  /\ call'[o] \in CallRecords /\ call'[o].pc \notin UnderWay
             /\ call'[o].pc = "done" <=> call[o].pc = "done"
             /\ call[o].pc = "done" => call'[o] = call[o]
    <2>1. CASE call[o].pc \in UnderWay
        <3>1. call'[o] = [call[o] EXCEPT !.pc = "failed"]
            BY <1>1, <2>1 DEF Files!Crash, UnderWay
        <3> QED BY <1>1, <2>1, <3>1, CallFields DEF UnderWay
    <2>2. CASE call[o].pc \notin UnderWay
        <3>1. call'[o] = call[o]
            BY <1>1, <2>2 DEF Files!Crash, UnderWay
        <3> QED BY <1>1, <2>2, <3>1 DEF FilesType
    <2> QED BY <2>1, <2>2
<1>4. FilesType'
    <2>1. call' \in [Calls -> CallRecords]
        BY <1>3 DEF Files!Crash
    <2>2. <<>> \in Seq(Calls)
        OBVIOUS
    <2> QED BY <1>1, <1>2, <2>1, <2>2 DEF FilesType
<1>5. CallsFit' /\ WritersHold'
    BY <1>3 DEF CallsFit, WritersHold, UnderWay
<1>6. BoundExists'
    BY <1>2 DEF FilesInv, BoundExists
<1>7. \A o \in Calls : MadeIt(o)'
    BY <1>3 DEF MadeIt
<1>8. \A o \in Calls : Settled(o)'
    BY <1>2, <1>3 DEF FilesInv, Settled
<1> QED BY <1>4, <1>5, <1>6, <1>7, <1>8 DEF FilesInv

\* What a call writes: sessions stay, memory is only lost to a reset, links only
\* to an unlink, and a chat is bound to a session that exists.
LEMMA WrittenValue ==
    ASSUME Files!SessionFileConstants, FilesInv, NEW o \in Calls, call[o].pc = "write",
           NEW v, v = call[o].read, NEW u, u = Files!Updated(o, v)
    PROVE  /\ Files!Step(o) = "sessions" =>
                /\ v = files.sessions /\ u \in Sessions0
                /\ \A s \in Calls \cup {Default} : v[s].exists => u[s].exists
                /\ call[o].kind # "reset" => v[Default].memory \subseteq u[Default].memory
                /\ call[o].kind = "patch" => o \in u[Default].memory
                /\ call[o].kind \in {"create", "bind", "renew"} => u[o].exists
           /\ Files!Step(o) = "bindings" =>
                /\ v = files.bindings /\ u \in Binding
                /\ \/ u.session = o /\ files.sessions[o].exists
                   \/ u.session = Default
                   \/ u = Files!NoBinding
                   \/ v # Files!NoBinding /\ u.session = v.session
           /\ Files!Step(o) = "links" =>
                /\ v = files.links /\ u \in SUBSET Calls
                /\ call[o].kind # "unlink" => v \subseteq u
                /\ call[o].kind = "link" => o \in u
<1> DEFINE k == call[o].kind
<1>1. FilesType /\ v = files[Files!Step(o)] /\ Default \notin Calls
    BY DEF FilesInv, WritersHold, Files!SessionFileConstants
<1>2. ASSUME Files!Step(o) = "sessions"
      PROVE  /\ v = files.sessions /\ u \in Sessions0
             /\ \A s \in Calls \cup {Default} : v[s].exists => u[s].exists
             /\ k # "reset" => v[Default].memory \subseteq u[Default].memory
             /\ k = "patch" => o \in u[Default].memory
             /\ k \in {"create", "bind", "renew"} => u[o].exists
    <2>1. v = files.sessions /\ v \in Sessions0 /\ k \in {"create", "patch", "reset", "bind", "renew"}
        BY <1>1, <1>2, CallPieces DEF UnderWay, FilesType, Contents
    <2>2. CASE k \in {"create", "bind", "renew"}
        <3>1. u = [v EXCEPT ![o] = Files!NewSession]
            BY <1>2, <2>2 DEF Files!Updated
        <3>2. /\ Files!NewSession \in [memory : SUBSET Calls, exists : BOOLEAN]
              /\ Files!NewSession.exists /\ o # Default
            BY <1>1 DEF Files!NewSession
        <3>3. u \in Sessions0 /\ u[o] = Files!NewSession
              /\ \A s \in (Calls \cup {Default}) \ {o} : u[s] = v[s]
            BY <2>1, <3>1, <3>2 DEF Sessions0
        <3> QED BY <2>1, <2>2, <3>2, <3>3
    <2>3. CASE k = "patch"
        <3>1. u = [v EXCEPT ![Default].memory = @ \cup {o}]
            BY <1>2, <2>3 DEF Files!Updated
        <3> QED BY <1>1, <2>1, <2>3, <3>1 DEF Sessions0
    <2>4. CASE k = "reset"
        <3>1. u = [v EXCEPT ![Default].memory = {}]
            BY <1>2, <2>4 DEF Files!Updated
        <3> QED BY <1>1, <2>1, <2>4, <3>1 DEF Sessions0
    <2> QED BY <2>1, <2>2, <2>3, <2>4
<1>3. ASSUME Files!Step(o) = "bindings"
      PROVE  /\ v = files.bindings /\ u \in Binding
             /\ \/ u.session = o /\ files.sessions[o].exists
                \/ u.session = Default
                \/ u = Files!NoBinding
                \/ v # Files!NoBinding /\ u.session = v.session
    <2>1. v = files.bindings /\ v \in Binding /\ k \in {"bind", "renew", "label", "attach"}
        BY <1>1, <1>3, CallPieces DEF UnderWay, FilesType, Contents
    <2>2. k \in {"bind", "renew"} => files.sessions[o].exists
        BY <1>3, CallPieces DEF FilesInv, MadeIt, UnderWay
    <2>3. CASE k = "bind"
        <3>1. u = [session |-> o, label |-> "none"]
            BY <1>3, <2>3 DEF Files!Updated
        <3> QED BY <2>1, <2>2, <2>3, <3>1 DEF Binding
    <2>4. CASE k = "renew"
        <3>1. u = IF v = Files!NoBinding THEN v ELSE [v EXCEPT !.session = o]
            BY <1>3, <2>4 DEF Files!Updated
        <3> QED BY <2>1, <2>2, <2>4, <3>1 DEF Binding
    <2>5. CASE k = "label"
        <3>1. u = IF v = Files!NoBinding THEN v ELSE [v EXCEPT !.label = o]
            BY <1>3, <2>5 DEF Files!Updated
        <3> QED BY <2>1, <2>5, <3>1 DEF Binding
    <2>6. CASE k = "attach"
        <3>1. u = [session |-> Default, label |-> call[o].seen.label]
            BY <1>3, <2>6 DEF Files!Updated
        <3>2. call[o].seen \in Binding
            BY <1>1, CallFields
        <3> QED BY <2>1, <3>1, <3>2 DEF Binding
    <2> QED BY <2>1, <2>3, <2>4, <2>5, <2>6
<1>4. ASSUME Files!Step(o) = "links"
      PROVE  /\ v = files.links /\ u \in SUBSET Calls
             /\ k # "unlink" => v \subseteq u
             /\ k = "link" => o \in u
    <2>1. v = files.links /\ v \in SUBSET Calls /\ k \in {"link", "unlink"}
        BY <1>1, <1>4, CallPieces DEF UnderWay, FilesType, Contents
    <2>2. u = IF k = "link" THEN v \cup {o} ELSE {}
        BY <1>4, <2>1 DEF Files!Updated
    <2> QED BY <2>1, <2>2
<1> QED BY <1>2, <1>3, <1>4

LEMMA WriteStep ==
    ASSUME Files!SessionFileConstants, FilesInv, NEW o \in Calls, Files!WriteFile(o)
    PROVE  FilesInv'
<1> DEFINE p == Files!Step(o)
           k == call[o].kind
           v == call[o].read
           u == Files!Updated(o, v)
           rest == Tail(call[o].program)
           r == [kind |-> k, program |-> rest, seen |-> call[o].seen,
                 pc |-> IF Len(call[o].program) = 1 THEN "done" ELSE "enter"]
<1>1. /\ FilesType /\ call[o].pc = "write" /\ Default \notin Calls
      /\ p \in {"sessions", "bindings", "links"} /\ Files!Holds(o, p)
    BY DEF FilesInv, Files!WriteFile, WritersHold, Files!SessionFileConstants
<1>2. /\ files' = [files EXCEPT ![p] = u]
      /\ undone' = IF k = "reset" THEN undone \cup v[Default].memory ELSE undone
      /\ fileTails' = Files!Released(o) /\ call' = [call EXCEPT ![o] = r]
    BY DEF Files!WriteFile
<1>3. /\ p = "sessions" =>
           \/ k \in {"create", "patch", "reset"} /\ Len(call[o].program) = 1
           \/ k \in {"bind", "renew"} /\ Len(call[o].program) # 1 /\ rest = <<"bindings">>
      /\ p = "bindings" =>
           k \in {"bind", "renew", "label", "attach"} /\ Len(call[o].program) = 1
      /\ p = "links" => k \in {"link", "unlink"} /\ Len(call[o].program) = 1
    BY <1>1, CallPieces DEF UnderWay
<1>4. r \in CallRecords /\ r.kind = k /\ r.program = rest
    <2>1. k \in Files!Kinds /\ rest \in Programs /\ call[o].seen \in Binding
        BY <1>1, CallFields, CallPieces DEF UnderWay
    <2> QED BY <2>1 DEF CallRecords
<1>5. \/ r.pc = "done" /\ Len(call[o].program) = 1
      \/ /\ r.pc = "enter" /\ p = "sessions" /\ k \in {"bind", "renew"}
         /\ r.program = <<"bindings">> /\ r.program \in Left[k]
    <2>1. k \in {"bind", "renew"} => <<"bindings">> \in Left[k]
        BY DEF Left
    <2> QED BY <1>1, <1>3, <2>1
<1>6. /\ p = "sessions" =>
           /\ v = files.sessions /\ u \in Sessions0
           /\ \A s \in Calls \cup {Default} : v[s].exists => u[s].exists
           /\ k # "reset" => v[Default].memory \subseteq u[Default].memory
           /\ k = "patch" => o \in u[Default].memory
           /\ k \in {"create", "bind", "renew"} => u[o].exists
      /\ p = "bindings" =>
           /\ v = files.bindings /\ u \in Binding
           /\ \/ u.session = o /\ files.sessions[o].exists
              \/ u.session = Default
              \/ u = Files!NoBinding
              \/ v # Files!NoBinding /\ u.session = v.session
      /\ p = "links" =>
           /\ v = files.links /\ u \in SUBSET Calls
           /\ k # "unlink" => v \subseteq u
           /\ k = "link" => o \in u
    BY <1>1, WrittenValue
<1> HIDE DEF u, v, r, k, p, rest
<1>7. /\ files' \in Contents
      /\ \A q \in {"sessions", "bindings", "links"} : files'[q] = IF q = p THEN u ELSE files[q]
    BY <1>1, <1>2, <1>6 DEF FilesType, Contents
<1>8. \A s \in Calls \cup {Default} : files.sessions[s].exists => files'.sessions[s].exists
    BY <1>1, <1>6, <1>7
<1>9. /\ undone' \in SUBSET Calls
      /\ files.sessions[Default].memory \cup undone \subseteq files'.sessions[Default].memory \cup undone'
    <2>1. k = "reset" => p = "sessions" /\ v = files.sessions
        BY <1>1, <1>3, <1>6
    <2>2. files.sessions[Default].memory \in SUBSET Calls /\ undone \in SUBSET Calls
        BY <1>1 DEF FilesType, Contents, Sessions0
    <2> QED BY <1>1, <1>2, <1>6, <1>7, <2>1, <2>2
<1>10. k # "unlink" => files.links \subseteq files'.links
    BY <1>1, <1>6, <1>7
<1>11. /\ call'[o] = r /\ call' \in [Calls -> CallRecords]
       /\ \A q \in Calls \ {o} : call'[q] = call[q]
    BY <1>1, <1>2, <1>4 DEF FilesType
<1>12. fileTails' \in [Files!Paths -> Seq(Calls)]
    <2>1. ASSUME NEW q \in Files!Paths
          PROVE  Files!LetGo(o, q) \in Seq(Calls) /\ fileTails[q] \in Seq(Calls)
        BY <1>1, HoldersStay DEF FilesType
    <2> QED BY <1>2, <2>1 DEF Files!Released
<1>13. FilesType'
    BY <1>7, <1>9, <1>11, <1>12 DEF FilesType
<1>14. CallsFit'
    BY <1>4, <1>5, <1>11 DEF FilesInv, CallsFit, UnderWay, Files!Step
<1>15. WritersHold'
    <2>1. ASSUME NEW q \in Calls, call'[q].pc = "write"
          PROVE  /\ Files!Step(q)' \in {"sessions", "bindings", "links"}
                 /\ Files!Holds(q, Files!Step(q))' /\ call'[q].read = files'[Files!Step(q)']
        <3>1. q # o /\ call'[q] = call[q]
            BY <1>5, <1>11, <2>1
        <3> DEFINE y == Files!Step(q)
        <3>2. /\ Files!Step(q)' = y /\ y \in {"sessions", "bindings", "links"}
              /\ Files!Holds(q, y) /\ call[q].read = files[y]
            BY <2>1, <3>1 DEF FilesInv, WritersHold, Files!Step
        <3> HIDE DEF y
        <3>3. y # p
            BY <1>1, <3>1, <3>2 DEF Files!Holds
        <3>4. fileTails'[y] = fileTails[y]
            BY <1>2, <3>2, <3>3 DEF Files!Released, Files!Paths, p
        <3> QED BY <1>7, <3>1, <3>2, <3>3, <3>4 DEF Files!Holds
    <2> QED BY <2>1 DEF WritersHold
<1>16. BoundExists'
    <2>1. files'.sessions[Default].exists
        BY <1>8 DEF FilesInv, BoundExists
    <2>2. CASE p # "bindings"
        BY <1>1, <1>7, <1>8, <2>1, <2>2 DEF FilesInv, BoundExists
    <2>3. CASE p = "bindings"
        <3>1. files'.bindings = u /\ files'.sessions = files.sessions
            BY <1>7, <2>3
        <3> QED BY <1>6, <2>1, <2>3, <3>1 DEF FilesInv, BoundExists
    <2> QED BY <2>2, <2>3
<1>17. ASSUME NEW q \in Calls PROVE MadeIt(q)'
    <2>1. CASE q = o
        BY <1>4, <1>5, <1>6, <1>7, <1>11, <2>1 DEF MadeIt, UnderWay
    <2>2. CASE q # o
        BY <1>8, <1>11, <2>2 DEF FilesInv, MadeIt
    <2> QED BY <2>1, <2>2
<1>18. ASSUME NEW q \in Calls PROVE Settled(q)'
    <2>1. CASE q = o
        <3>1. k = "patch" => o \in files'.sessions[Default].memory
            BY <1>1, <1>3, <1>6, <1>7
        <3>2. k = "create" => files'.sessions[o].exists
            BY <1>1, <1>3, <1>6, <1>7
        <3>3. k = "link" => o \in files'.links
            BY <1>1, <1>3, <1>6, <1>7
        <3> QED BY <1>4, <1>11, <2>1, <3>1, <3>2, <3>3 DEF Settled
    <2>2. CASE q # o /\ call[q].pc = "done"
        <3>1. /\ call'[q] = call[q]
              /\ call[q].kind = "patch" => q \in files'.sessions[Default].memory \cup undone'
              /\ call[q].kind = "create" => files'.sessions[q].exists
            BY <1>8, <1>9, <1>11, <2>2 DEF FilesInv, Settled
        <3>2. ASSUME call[q].kind = "link"
              PROVE  q \in files'.links \/ \E x \in Calls : call'[x].pc = "done" /\ call'[x].kind = "unlink"
            <4>1. CASE k = "unlink"
                BY <1>1, <1>3, <1>4, <1>5, <1>11, <4>1
            <4>2. CASE k # "unlink" /\ q \in files.links
                BY <1>10, <4>2
            <4>3. CASE q \notin files.links
                <5>1. PICK x \in Calls : call[x].pc = "done" /\ call[x].kind = "unlink"
                    BY <2>2, <3>2, <4>3 DEF FilesInv, Settled
                <5> QED BY <1>1, <1>11, <5>1
            <4> QED BY <4>1, <4>2, <4>3
        <3> QED BY <3>1, <3>2 DEF Settled
    <2>3. CASE q # o /\ call[q].pc # "done"
        BY <1>11, <2>3 DEF Settled
    <2> QED BY <2>1, <2>2, <2>3
<1> QED BY <1>13, <1>14, <1>15, <1>16, <1>17, <1>18 DEF FilesInv

LEMMA FilesBegin ==
    ASSUME Files!SessionFileConstants, Files!Init
    PROVE  FilesInv
<1>1. PICK b \in {Files!NoBinding, [session |-> Default, label |-> "none"]} :
        files = [sessions |-> [s \in Calls \cup {Default} |->
                                 IF s = Default THEN Files!NewSession ELSE Files!NoSession],
                 bindings |-> b, links |-> {}]
    BY DEF Files!Init
<1>2. /\ fileTails = [p \in Files!Paths |-> <<>>] /\ undone = {}
      /\ call = [o \in Calls |-> [pc |-> "new"]]
    BY DEF Files!Init
<1>3. /\ files \in Contents /\ files.sessions[Default].exists
      /\ files.bindings # Files!NoBinding => files.bindings.session = Default
    <2>1. b \in Binding
        BY DEF Files!NoBinding, Binding
    <2> QED BY <1>1, <2>1 DEF Contents, Sessions0, Files!NewSession, Files!NoSession
<1>4. FilesType /\ \A o \in Calls : call[o].pc = "new"
    <2>1. <<>> \in Seq(Calls)
        OBVIOUS
    <2> QED BY <1>2, <1>3, <2>1 DEF FilesType, CallRecords
<1> QED BY <1>3, <1>4 DEF FilesInv, CallsFit, WritersHold, BoundExists, Settled, MadeIt, UnderWay

LEMMA FilesStay ==
    ASSUME Files!SessionFileConstants, FilesInv, [Files!Next]_(Files!fileVars)
    PROVE  FilesInv'
<1>1. ASSUME NEW o \in Calls, NEW k \in Files!Kinds, Files!Start(o, k) PROVE FilesInv'
    BY <1>1, StartStep
<1>2. ASSUME NEW o \in Calls, Files!FileStep(o) PROVE FilesInv'
    BY <1>2, EnterStep, LookStep, FindStep, ReadStep, WriteStep DEF Files!FileStep
<1>3. ASSUME NEW o \in Calls, Files!UpdateFails(o) PROVE FilesInv'
    BY <1>3, FailStep
<1>4. CASE Files!Crash
    BY <1>4, CrashStep
<1>5. CASE UNCHANGED Files!fileVars
    BY <1>5 DEF Files!fileVars, FilesInv, FilesType, CallsFit, WritersHold, BoundExists, Settled,
                MadeIt, Files!Step, Files!Holds
<1> QED BY <1>1, <1>2, <1>3, <1>4, <1>5 DEF Files!Next

\* What an update of a file returned for stays in it: sessions that were created,
\* patches of memory unless a reset removed them, links unless an unlink did; and
\* a chat is bound to a session that exists; for any calls in any order, failing
\* updates and crashes (a conjunct of the runs' NothingIsLost).
THEOREM FilesKeep ==
    ASSUME Files!SessionFileConstants
    PROVE  Files!Spec => []Files!FilesKeepUpdates
<1>1. FilesInv => Files!FilesKeepUpdates
    BY DEF FilesInv, Settled, BoundExists, Files!FilesKeepUpdates, Files!Returned
<1> QED BY <1>1, FilesBegin, FilesStay, PTL DEF Files!Spec

\* Calls to bind the chat that hold its lock, and those that have made a session
\* and not yet bound it.
Binds(o)  == call[o].pc \in UnderWay /\ call[o].kind = "bind" /\ call[o].program = <<"bindings">>
InLock(o) == \/ Binds(o)
             \/ /\ call[o].pc \in UnderWay /\ call[o].kind = "bind"
                /\ call[o].program = <<"sessions", "bindings">>

MadeBinds ==
    {o \in Calls : call[o].pc # "new" /\ call[o].kind = "bind" /\ files.sessions[o].exists}

\* The one session that needs no fault: bound, or about to be.
Credit == IF files.bindings # Files!NoBinding \/ (\E o \in Calls : Binds(o)) THEN 1 ELSE 0

\* Only one call at a time makes a session for the chat, and only while it has
\* none; each session made for it in vain was lost to a fault.
BindInv ==
    /\ fileFaults \in Nat
    /\ \A o \in Calls : InLock(o) => Files!Holds(o, "binding-lock") /\ files.bindings = Files!NoBinding
    /\ \A o \in Calls : call[o].pc \in UnderWay /\ call[o].kind = "attach"
                            /\ call[o].program = <<"bindings">> => files.bindings # Files!NoBinding
    /\ \A o \in Calls : call[o].pc = "new" => ~files.sessions[o].exists
    /\ IsFiniteSet(MadeBinds) /\ Cardinality(MadeBinds) <= fileFaults + Credit

\* Where no session is made, the sessions stay accounted for.
LEMMA NothingMade ==
    ASSUME BindInv, MadeBinds' \subseteq MadeBinds, fileFaults' \in Nat,
           fileFaults' + Credit' >= fileFaults + Credit
    PROVE  IsFiniteSet(MadeBinds)' /\ Cardinality(MadeBinds)' <= fileFaults' + Credit'
<1>1. /\ IsFiniteSet(MadeBinds') /\ Cardinality(MadeBinds') <= Cardinality(MadeBinds)
      /\ Cardinality(MadeBinds) \in Nat /\ Cardinality(MadeBinds') \in Nat
    BY FS_Subset, FS_CardinalityType DEF BindInv
<1>2. fileFaults \in Nat /\ Credit \in Nat /\ Credit' \in Nat
    BY DEF BindInv, Credit
<1>3. Cardinality(MadeBinds) <= fileFaults + Credit
    BY DEF BindInv
<1> DEFINE n == Cardinality(MadeBinds)
           m == Cardinality(MadeBinds')
           c == Credit
           d == Credit'
           f == fileFaults
           g == fileFaults'
<1>4. n \in Nat /\ m \in Nat /\ m <= n /\ c \in Nat /\ d \in Nat /\ f \in Nat /\ g \in Nat
    BY <1>1, <1>2
<1>5. n <= f + c /\ g + d >= f + c
    BY <1>3
<1> HIDE DEF n, m, c, d, f, g
<1>6. m <= g + d
    BY <1>4, <1>5
<1> QED BY <1>1, <1>6 DEF m, d, g

\* A call goes on and no file changes.
LEMMA BindGoesOn ==
    ASSUME FilesInv, BindInv, NEW o \in Calls, UNCHANGED files,
           \A q \in Calls \ {o} : call'[q] = call[q],
           \A q \in Calls \ {o} : Files!Holds(q, "binding-lock") /\ InLock(q) =>
               Files!Holds(q, "binding-lock")',
           call'[o].pc # "new", call[o].pc # "new" => call'[o].kind = call[o].kind,
           InLock(o)' => Files!Holds(o, "binding-lock")' /\ files.bindings = Files!NoBinding,
           call'[o].pc \in UnderWay /\ call'[o].kind = "attach" /\ call'[o].program = <<"bindings">>
               => files.bindings # Files!NoBinding,
           fileFaults' \in Nat, fileFaults' >= fileFaults,
           Binds(o) => Binds(o)' \/ fileFaults' > fileFaults \/ files.bindings # Files!NoBinding
    PROVE  BindInv'
<1>1. MadeBinds' \subseteq MadeBinds
    <2>1. ASSUME NEW q \in MadeBinds' PROVE q \in MadeBinds
        <3>1. q \in Calls /\ call'[q].pc # "new" /\ call'[q].kind = "bind" /\ files.sessions[q].exists
            BY <2>1 DEF MadeBinds
        <3>2. call[q].pc # "new"
            BY <3>1 DEF BindInv
        <3> QED BY <3>1, <3>2 DEF MadeBinds
    <2> QED BY <2>1
<1>2. \A q \in Calls \ {o} : (Binds(q)' <=> Binds(q)) /\ (InLock(q)' <=> InLock(q))
    BY DEF Binds, InLock
<1>3. fileFaults' + Credit' >= fileFaults + Credit
    <2>1. fileFaults \in Nat /\ Credit \in {0, 1} /\ Credit' \in {0, 1}
        BY DEF BindInv, Credit
    <2>2. CASE Credit' = 1 \/ Credit = 0
        BY <2>1, <2>2
    <2>3. CASE Credit' # 1 /\ Credit # 0
        <3>1. files.bindings = Files!NoBinding /\ (\A q \in Calls : ~Binds(q)')
            BY <2>3 DEF Credit
        <3>2. \E q \in Calls : Binds(q)
            BY <2>3, <3>1 DEF Credit
        <3>3. Binds(o) /\ ~Binds(o)'
            BY <1>2, <3>1, <3>2
        <3>4. fileFaults' > fileFaults
            BY <3>1, <3>3
        <3> DEFINE c == Credit
                   d == Credit'
                   f == fileFaults
                   g == fileFaults'
        <3>5. c \in {0, 1} /\ d \in {0, 1} /\ f \in Nat /\ g \in Nat /\ g > f
            BY <2>1, <3>4
        <3> HIDE DEF c, d, f, g
        <3>6. g + d >= f + c
            BY <3>5
        <3> QED BY <3>6 DEF c, d, f, g
    <2> QED BY <2>2, <2>3
<1>4. IsFiniteSet(MadeBinds)' /\ Cardinality(MadeBinds)' <= fileFaults' + Credit'
    BY <1>1, <1>3, NothingMade
<1>5. \A q \in Calls : InLock(q)' => Files!Holds(q, "binding-lock")' /\ files.bindings = Files!NoBinding
    BY <1>2 DEF BindInv
<1>6. \A q \in Calls : call'[q].pc \in UnderWay /\ call'[q].kind = "attach"
                        /\ call'[q].program = <<"bindings">> => files.bindings # Files!NoBinding
    BY DEF BindInv
<1>7. \A q \in Calls : call'[q].pc = "new" => ~files.sessions[q].exists
    BY DEF BindInv
<1> QED BY <1>4, <1>5, <1>6, <1>7 DEF BindInv

\* The steps of a call that leave its kind and the files alone.
LEMMA BindQuietSteps ==
    ASSUME FilesInv, BindInv, NEW o \in Calls,
           \/ \E k \in Files!Kinds : Files!Start(o, k)
           \/ Files!Enter(o) \/ Files!Look(o) \/ Files!FindBinding(o) \/ Files!ReadFile(o)
           \/ Files!UpdateFails(o)
    PROVE  BindInv'
<1>1. FilesType /\ fileFaults \in Nat
    BY DEF FilesInv, BindInv
<1>2. ASSUME NEW k \in Files!Kinds, Files!Start(o, k) PROVE BindInv'
    <2>1. /\ call[o].pc = "new" /\ UNCHANGED <<files, fileTails, fileFaults>>
          /\ call' = [call EXCEPT ![o] = [pc |-> "enter", kind |-> k, program |-> Files!Programs[k],
                                          seen |-> Files!NoBinding]]
        BY <1>2 DEF Files!Start
    <2>2. /\ call'[o] = [pc |-> "enter", kind |-> k, program |-> Files!Programs[k],
                        seen |-> Files!NoBinding]
          /\ \A q \in Calls \ {o} : call'[q] = call[q]
        BY <1>1, <2>1 DEF FilesType
    <2>3. /\ k = "bind" => Files!Programs[k] \notin {<<"bindings">>, <<"sessions", "bindings">>}
          /\ k = "attach" => Files!Programs[k] # <<"bindings">>
        BY DEF Files!Programs
    <2>4. ~InLock(o)' /\ ~Binds(o)
        BY <2>1, <2>2, <2>3 DEF InLock, Binds, UnderWay
    <2> QED BY <1>1, <2>1, <2>2, <2>3, <2>4, BindGoesOn DEF Files!Holds
<1>3. CASE Files!Enter(o)
    <2>1. /\ call[o].pc = "enter" /\ UNCHANGED <<files, fileFaults>>
          /\ Files!Step(o) \in Files!Paths
          /\ fileTails' = [fileTails EXCEPT ![Files!Step(o)] = Append(@, o)]
          /\ call' = [call EXCEPT ![o].pc = "wait"]
        BY <1>3, CallPieces DEF Files!Enter, Files!Goes, UnderWay
    <2>2. /\ call'[o] = [call[o] EXCEPT !.pc = "wait"]
          /\ \A q \in Calls \ {o} : call'[q] = call[q]
        BY <1>1, <2>1 DEF FilesType
    <2>3. /\ call'[o].pc = "wait" /\ call'[o].kind = call[o].kind
          /\ call'[o].program = call[o].program
        BY <1>1, <2>1, <2>2, CallFields
    <2>4. (InLock(o)' <=> InLock(o)) /\ (Binds(o)' <=> Binds(o))
        BY <2>1, <2>3 DEF InLock, Binds, UnderWay
    <2>5. "binding-lock" \in Files!Paths
        BY DEF Files!Paths
    <2>6. ASSUME NEW q \in Calls \ {o}, Files!Holds(q, "binding-lock")
          PROVE  Files!Holds(q, "binding-lock")'
        <3>1. /\ Append(fileTails["binding-lock"], o) # <<>>
              /\ Head(Append(fileTails["binding-lock"], o)) = q
            BY <1>1, <2>5, <2>6, HoldersStay
        <3> QED BY <1>1, <2>1, <2>5, <2>6, <3>1 DEF FilesType, Files!Holds
    <2>7. InLock(o) => Files!Holds(o, "binding-lock")' /\ files.bindings = Files!NoBinding
        <3>1. InLock(o) => Files!Step(o) # "binding-lock"
            BY DEF InLock, Binds, Files!Step
        <3>2. InLock(o) => Files!Holds(o, "binding-lock") /\ files.bindings = Files!NoBinding
            BY DEF BindInv
        <3> QED BY <1>1, <2>1, <2>5, <3>1, <3>2 DEF FilesType, Files!Holds
    <2>8. call'[o].kind = "attach" /\ call'[o].program = <<"bindings">> => files.bindings # Files!NoBinding
        BY <2>1, <2>3 DEF BindInv, UnderWay
    <2> QED BY <1>1, <2>1, <2>2, <2>3, <2>4, <2>6, <2>7, <2>8, BindGoesOn
<1>4. CASE Files!Look(o)
    <2>1. /\ call[o].pc = "enter" /\ Files!Step(o) = "look"
          /\ UNCHANGED <<files, fileTails, fileFaults>>
        BY <1>4 DEF Files!Look
    <2>2. call[o].kind = "attach" /\ Tail(call[o].program) = <<"bindings">>
        BY <2>1, CallPieces DEF UnderWay
    <2>3. /\ \A q \in Calls \ {o} : call'[q] = call[q]
          /\ call'[o].kind = call[o].kind /\ call'[o].pc # "new"
          /\ call'[o].pc \in UnderWay => files.bindings # Files!NoBinding
        <3>1. CASE files.bindings = Files!NoBinding
            <4>1. /\ call'[o] = [call[o] EXCEPT !.pc = "done"]
                  /\ \A q \in Calls \ {o} : call'[q] = call[q]
                BY <1>1, <1>4, <3>1 DEF Files!Look, Files!Goes, FilesType
            <4> QED BY <1>1, <2>1, <4>1, CallFields DEF UnderWay
        <3>2. CASE files.bindings # Files!NoBinding
            <4>1. /\ call'[o] = [call[o] EXCEPT !.seen = files.bindings,
                                               !.program = Tail(call[o].program)]
                  /\ \A q \in Calls \ {o} : call'[q] = call[q]
                BY <1>1, <1>4, <3>2 DEF Files!Look, FilesType
            <4>2. call[o] \in [pc : {"enter", "wait", "done", "failed"}, kind : Files!Kinds,
                              program : Programs, seen : Binding]
                BY <1>1, <2>1 DEF FilesType, CallRecords
            <4> QED BY <2>1, <3>2, <4>1, <4>2
        <3> QED BY <3>1, <3>2
    <2>4. ~InLock(o)' /\ ~Binds(o)
        BY <2>2, <2>3 DEF InLock, Binds
    <2> QED BY <1>1, <2>1, <2>3, <2>4, BindGoesOn DEF Files!Holds
<1>5. CASE Files!FindBinding(o)
    <2>1. /\ call[o].pc = "wait" /\ Files!Step(o) = "binding-lock"
          /\ Files!Holds(o, "binding-lock") /\ UNCHANGED <<files, fileFaults>>
        BY <1>5 DEF Files!FindBinding, Files!Waits
    <2>2. call[o].kind = "bind" /\ ~Binds(o)
        BY <2>1, CallPieces DEF UnderWay, Binds, Files!Step
    <2>3. /\ \A q \in Calls \ {o} : call'[q] = call[q]
          /\ call'[o].kind = call[o].kind /\ call'[o].pc # "new"
          /\ call'[o].pc \in UnderWay => UNCHANGED fileTails /\ files.bindings = Files!NoBinding
        <3>1. CASE files.bindings # Files!NoBinding
            <4>1. /\ call'[o] = [call[o] EXCEPT !.pc = "done"]
                  /\ \A q \in Calls \ {o} : call'[q] = call[q]
                BY <1>1, <1>5, <3>1 DEF Files!FindBinding, Files!Goes, FilesType
            <4> QED BY <1>1, <2>1, <4>1, CallFields DEF UnderWay
        <3>2. CASE files.bindings = Files!NoBinding
            <4>1. /\ call' = [call EXCEPT ![o] = [@ EXCEPT !.program = Tail(call[o].program),
                                 !.pc = IF Tail(call[o].program) = <<>> THEN "done" ELSE "enter"]]
                  /\ UNCHANGED fileTails
                BY <1>5, <3>2 DEF Files!FindBinding, Files!NextStep
            <4>2. /\ call'[o] = [call[o] EXCEPT !.program = Tail(call[o].program),
                                 !.pc = IF Tail(call[o].program) = <<>> THEN "done" ELSE "enter"]
                  /\ \A q \in Calls \ {o} : call'[q] = call[q]
                BY <1>1, <4>1 DEF FilesType
            <4>3. call[o] \in [pc : {"enter", "wait", "done", "failed"}, kind : Files!Kinds,
                              program : Programs, seen : Binding]
                BY <1>1, <2>1 DEF FilesType, CallRecords
            <4> QED BY <3>2, <4>1, <4>2, <4>3
        <3> QED BY <3>1, <3>2
    <2>4. \A q \in Calls \ {o} : ~Files!Holds(q, "binding-lock")
        BY <2>1 DEF Files!Holds
    <2>5. InLock(o)' => Files!Holds(o, "binding-lock")' /\ files.bindings = Files!NoBinding
        BY <2>1, <2>3 DEF InLock, Binds, Files!Holds
    <2> QED BY <1>1, <2>1, <2>2, <2>3, <2>4, <2>5, BindGoesOn
<1>6. CASE Files!ReadFile(o)
    <2>1. /\ call[o].pc = "wait" /\ UNCHANGED <<files, fileTails, fileFaults>>
          /\ call'[o].kind = call[o].kind /\ call'[o].program = call[o].program
          /\ call'[o].pc = "write" /\ \A q \in Calls \ {o} : call'[q] = call[q]
        BY <1>1, <1>6 DEF Files!ReadFile, Files!Waits, FilesType
    <2>2. (InLock(o)' <=> InLock(o)) /\ (Binds(o)' <=> Binds(o))
        BY <2>1 DEF InLock, Binds, UnderWay
    <2>3. /\ InLock(o) => Files!Holds(o, "binding-lock") /\ files.bindings = Files!NoBinding
          /\ call[o].kind = "attach" /\ call[o].program = <<"bindings">>
               => files.bindings # Files!NoBinding
        BY <2>1 DEF BindInv, UnderWay
    <2> QED BY <1>1, <2>1, <2>2, <2>3, BindGoesOn DEF Files!Holds
<1>7. CASE Files!UpdateFails(o)
    <2>1. /\ call[o].pc \in {"wait", "write"} /\ UNCHANGED files
          /\ fileFaults' = fileFaults + 1
          /\ fileTails' = [p \in Files!Paths |-> Files!LetGo(o, p)]
          /\ call'[o] = [call[o] EXCEPT !.pc = "failed"]
          /\ \A q \in Calls \ {o} : call'[q] = call[q]
        BY <1>1, <1>7 DEF Files!UpdateFails, Files!Waits, Files!Goes, FilesType
    <2>2. call'[o].pc = "failed" /\ call'[o].kind = call[o].kind
        <3>1. CASE call[o] \in [pc : {"enter", "wait", "done", "failed"}, kind : Files!Kinds,
                               program : Programs, seen : Binding]
            BY <2>1, <3>1
        <3>2. CASE call[o] \in [pc : {"write", "failed"}, kind : Files!Kinds, program : Programs,
                               seen : Binding, read : Sessions0 \cup Binding \cup SUBSET Calls]
            BY <2>1, <3>2
        <3> QED BY <1>1, <2>1, <3>1, <3>2 DEF FilesType, CallRecords
    <2>3. ~InLock(o)'
        BY <2>2 DEF InLock, Binds, UnderWay
    <2>4. ASSUME NEW q \in Calls \ {o}, Files!Holds(q, "binding-lock")
          PROVE  Files!Holds(q, "binding-lock")'
        <3>1. "binding-lock" \in Files!Paths
            BY DEF Files!Paths
        <3>2. Files!LetGo(o, "binding-lock") = fileTails["binding-lock"]
            BY <1>1, <2>4, <3>1, HoldersStay
        <3> QED BY <2>1, <2>4, <3>1, <3>2 DEF Files!Holds
    <2>5. fileFaults' \in Nat /\ fileFaults' > fileFaults /\ fileFaults' >= fileFaults
        BY <1>1, <2>1
    <2> QED BY <2>1, <2>2, <2>3, <2>4, <2>5, BindGoesOn DEF UnderWay
<1> QED BY <1>2, <1>3, <1>4, <1>5, <1>6, <1>7

LEMMA BindCrashStep ==
    ASSUME FilesInv, BindInv, Files!Crash
    PROVE  BindInv'
<1>1. FilesType /\ fileFaults \in Nat /\ UNCHANGED files /\ fileFaults' = fileFaults + 1
    BY DEF FilesInv, BindInv, Files!Crash
<1>2. ASSUME NEW o \in Calls
      PROVE  /\ call'[o].pc \notin UnderWay
             /\ call'[o].pc = "new" => call[o].pc = "new"
             /\ call[o].pc # "new" => call'[o].kind = call[o].kind
             /\ call'[o].pc # "new" => call[o].pc # "new"
    <2>1. call'[o] = IF call[o].pc \in UnderWay THEN [call[o] EXCEPT !.pc = "failed"] ELSE call[o]
        BY DEF Files!Crash, UnderWay
    <2>2. CASE call[o].pc \in UnderWay
        <3>1. CASE call[o] \in [pc : {"enter", "wait", "done", "failed"}, kind : Files!Kinds,
                               program : Programs, seen : Binding]
            BY <2>1, <2>2, <3>1 DEF UnderWay
        <3>2. CASE call[o] \in [pc : {"write", "failed"}, kind : Files!Kinds, program : Programs,
                               seen : Binding, read : Sessions0 \cup Binding \cup SUBSET Calls]
            BY <2>1, <2>2, <3>2 DEF UnderWay
        <3> QED BY <1>1, <2>2, <3>1, <3>2 DEF FilesType, CallRecords, UnderWay
    <2>3. CASE call[o].pc \notin UnderWay
        BY <2>1, <2>3
    <2> QED BY <2>2, <2>3
<1>3. MadeBinds' \subseteq MadeBinds
    BY <1>1, <1>2 DEF MadeBinds
<1>4. fileFaults' \in Nat /\ fileFaults' + Credit' >= fileFaults + Credit
    <2> DEFINE c == Credit
               d == Credit'
               f == fileFaults
               g == fileFaults'
    <2>1. c \in {0, 1} /\ d \in {0, 1} /\ f \in Nat /\ g = f + 1
        BY <1>1 DEF Credit
    <2> HIDE DEF c, d, f, g
    <2>2. g \in Nat /\ g + d >= f + c
        BY <2>1
    <2> QED BY <2>2 DEF c, d, f, g
<1>5. IsFiniteSet(MadeBinds)' /\ Cardinality(MadeBinds)' <= fileFaults' + Credit'
    BY <1>3, <1>4, NothingMade
<1>6. \A o \in Calls : ~InLock(o)'
    BY <1>2 DEF InLock, Binds
<1>7. \A o \in Calls : call'[o].pc = "new" => ~files.sessions[o].exists
    BY <1>2 DEF BindInv
<1> QED BY <1>1, <1>2, <1>4, <1>5, <1>6, <1>7 DEF BindInv

LEMMA BindWriteStep ==
    ASSUME Files!SessionFileConstants, FilesInv, BindInv, NEW o \in Calls, Files!WriteFile(o)
    PROVE  BindInv'
<1> DEFINE p == Files!Step(o)
           k == call[o].kind
           v == call[o].read
           u == Files!Updated(o, v)
           rest == Tail(call[o].program)
<1>1. /\ FilesType /\ call[o].pc = "write" /\ Default \notin Calls /\ "none" \notin Calls \cup {Default}
      /\ p \in {"sessions", "bindings", "links"} /\ fileFaults' = fileFaults
      /\ v = files[p]
    BY DEF FilesInv, Files!WriteFile, WritersHold, Files!SessionFileConstants
<1>2. /\ files' = [files EXCEPT ![p] = u] /\ fileTails' = Files!Released(o)
      /\ call'[o] = [kind |-> k, program |-> rest, seen |-> call[o].seen,
                     pc |-> IF Len(call[o].program) = 1 THEN "done" ELSE "enter"]
      /\ \A q \in Calls \ {o} : call'[q] = call[q]
    BY <1>1 DEF Files!WriteFile, FilesType
<1>3. /\ p = "sessions" =>
           \/ k \in {"create", "patch", "reset"} /\ Len(call[o].program) = 1
           \/ k \in {"bind", "renew"} /\ Len(call[o].program) # 1 /\ rest = <<"bindings">>
      /\ p = "bindings" => /\ k \in {"bind", "renew", "label", "attach"}
                           /\ Len(call[o].program) = 1 /\ call[o].program = <<"bindings">>
      /\ p = "links" => k \in {"link", "unlink"} /\ Len(call[o].program) = 1
    BY <1>1, CallPieces DEF UnderWay
<1>4. /\ call'[o].kind = k /\ call'[o].pc # "new" /\ call'[o].program = rest
      /\ call'[o].pc \in UnderWay => Len(call[o].program) # 1
      /\ call'[o].pc \in UnderWay => p = "sessions" /\ k \in {"bind", "renew"} /\ rest = <<"bindings">>
    BY <1>1, <1>2, <1>3 DEF UnderWay
<1>5. /\ p = "sessions" /\ k = "bind" => call[o].program = <<"sessions", "bindings">>
      /\ p = "sessions" => ~Binds(o)
    <2>1. call[o].kind \in Files!Kinds /\ call[o].program \in Left[call[o].kind]
        BY <1>1, CallPieces DEF UnderWay
    <2>2. k = "bind" => call[o].program \in {<<"binding-lock", "sessions", "bindings">>,
                          <<"sessions", "bindings">>, <<"bindings">>}
        BY <2>1 DEF Left
    <2> QED BY <2>2 DEF Files!Step, Binds
<1>6. \A x \in {"sessions", "bindings", "links"} : files'[x] = IF x = p THEN u ELSE files[x]
    BY <1>1, <1>2 DEF FilesType, Contents
<1>7. ASSUME NEW q \in Calls, Files!Holds(q, "binding-lock"), q # o \/ Len(call[o].program) # 1
      PROVE  Files!Holds(q, "binding-lock")'
    <2>1. "binding-lock" \in Files!Paths /\ p # "binding-lock"
        BY <1>1 DEF Files!Paths
    <2>2. q # o => Files!LetGo(o, "binding-lock") = fileTails["binding-lock"]
        BY <1>1, <1>7, <2>1, HoldersStay
    <2>3. fileTails'["binding-lock"] = fileTails["binding-lock"]
        BY <1>2, <1>7, <2>1, <2>2 DEF Files!Released
    <2> QED BY <1>7, <2>3 DEF Files!Holds
<1> HIDE DEF u, v, rest, k, p
<1>8. /\ p = "sessions" =>
           \A s \in Calls : s # o => files'.sessions[s].exists = files.sessions[s].exists
      /\ p = "sessions" /\ k \notin {"create", "bind", "renew"} =>
           files'.sessions[o].exists = files.sessions[o].exists
    <2>1. p = "sessions" => v \in Sessions0
        BY <1>1 DEF FilesType, Contents
    <2>2. CASE p = "sessions" /\ k \in {"create", "bind", "renew"}
        <3>1. u = [v EXCEPT ![o] = Files!NewSession]
            BY <2>2 DEF Files!Updated, p, u, k
        <3> QED BY <1>1, <1>6, <2>1, <2>2, <3>1 DEF Sessions0
    <2>3. CASE p = "sessions" /\ k = "patch"
        <3>1. u = [v EXCEPT ![Default].memory = @ \cup {o}]
            BY <2>3 DEF Files!Updated, p, u, k
        <3> QED BY <1>1, <1>6, <2>1, <2>3, <3>1 DEF Sessions0
    <2>4. CASE p = "sessions" /\ k = "reset"
        <3>1. u = [v EXCEPT ![Default].memory = {}]
            BY <2>4 DEF Files!Updated, p, u, k
        <3> QED BY <1>1, <1>6, <2>1, <2>4, <3>1 DEF Sessions0
    <2> QED BY <1>3, <2>2, <2>3, <2>4
<1>9. files'.bindings # Files!NoBinding <=>
        files.bindings # Files!NoBinding \/ (p = "bindings" /\ k = "bind")
    <2>1. CASE p # "bindings"
        BY <1>1, <1>6, <2>1
    <2>2. CASE p = "bindings"
        <3>1. /\ files'.bindings = u /\ v = files.bindings /\ v \in Binding
              /\ k = "attach" => v # Files!NoBinding
            BY <1>1, <1>3, <1>6, <2>2 DEF FilesType, Contents, BindInv, UnderWay, k
        <3>2. v # Files!NoBinding => v.session # "none"
            BY <1>1, <3>1 DEF FilesInv, BoundExists
        <3>3. CASE k = "bind"
            <4>1. u = [session |-> o, label |-> "none"]
                BY <2>2, <3>3 DEF Files!Updated, p, u, k
            <4> QED BY <1>1, <2>2, <3>1, <3>3, <4>1 DEF Files!NoBinding
        <3>4. CASE k = "renew"
            <4>1. u = IF v = Files!NoBinding THEN v ELSE [v EXCEPT !.session = o]
                BY <2>2, <3>4 DEF Files!Updated, p, u, k
            <4> QED BY <1>1, <2>2, <3>1, <3>4, <4>1 DEF Files!NoBinding, Binding
        <3>5. CASE k = "label"
            <4>1. u = IF v = Files!NoBinding THEN v ELSE [v EXCEPT !.label = o]
                BY <2>2, <3>5 DEF Files!Updated, p, u, k
            <4> QED BY <1>1, <2>2, <3>1, <3>2, <3>5, <4>1 DEF Files!NoBinding, Binding
        <3>6. CASE k = "attach"
            <4>1. u = [session |-> Default, label |-> call[o].seen.label]
                BY <2>2, <3>6 DEF Files!Updated, p, u, k
            <4> QED BY <1>1, <2>2, <3>1, <3>6, <4>1 DEF Files!NoBinding
        <3> QED BY <1>3, <2>2, <3>3, <3>4, <3>5, <3>6
    <2> QED BY <2>1, <2>2
<1>10. \A q \in Calls \ {o} : (InLock(q)' <=> InLock(q)) /\ (Binds(q)' <=> Binds(q))
    BY <1>2 DEF InLock, Binds
<1>11. (Binds(o)' <=> InLock(o)') /\ (Binds(o)' <=> p = "sessions" /\ k = "bind")
    <2>1. p = "sessions" /\ k = "bind" => call'[o].pc \in UnderWay
        BY <1>2, <1>3 DEF UnderWay
    <2>2. <<"sessions", "bindings">> # <<"bindings">>
        OBVIOUS
    <2> QED BY <1>3, <1>4, <2>1, <2>2 DEF Binds, InLock
<1>12. \A q \in Calls : InLock(q)' =>
          Files!Holds(q, "binding-lock")' /\ files'.bindings = Files!NoBinding
    <2> SUFFICES ASSUME NEW q \in Calls, InLock(q)'
                 PROVE  Files!Holds(q, "binding-lock")' /\ files'.bindings = Files!NoBinding
        OBVIOUS
    <2>1. /\ Files!Holds(q, "binding-lock") /\ files.bindings = Files!NoBinding
          /\ q # o \/ (Len(call[o].program) # 1 /\ p # "bindings")
        <3>1. CASE q # o
            BY <1>10, <3>1 DEF BindInv
        <3>2. CASE q = o
            <4>1. p = "sessions" /\ k = "bind"
                BY <1>11, <3>2
            <4>2. InLock(o)
                BY <1>1, <1>5, <4>1 DEF InLock, UnderWay, k
            <4> QED BY <1>3, <3>2, <4>1, <4>2 DEF BindInv
        <3> QED BY <3>1, <3>2
    <2>2. ~(p = "bindings" /\ k = "bind")
        <3>1. SUFFICES ASSUME p = "bindings", k = "bind" PROVE FALSE
            OBVIOUS
        <3>2. InLock(o) /\ q # o
            BY <1>1, <1>3, <2>1, <3>1 DEF InLock, Binds, UnderWay, k
        <3>3. Files!Holds(o, "binding-lock")
            BY <3>2 DEF BindInv
        <3> QED BY <2>1, <3>2, <3>3 DEF Files!Holds
    <2> QED BY <1>7, <1>9, <2>1, <2>2
<1>13. \A q \in Calls : call'[q].pc \in UnderWay /\ call'[q].kind = "attach"
                         /\ call'[q].program = <<"bindings">> => files'.bindings # Files!NoBinding
    BY <1>2, <1>4, <1>9 DEF BindInv
<1>14. \A q \in Calls : call'[q].pc = "new" => ~files'.sessions[q].exists
    BY <1>1, <1>2, <1>4, <1>6, <1>8 DEF BindInv
<1>15. IsFiniteSet(MadeBinds)' /\ Cardinality(MadeBinds)' <= fileFaults' + Credit'
    <2>1. CASE p = "sessions" /\ k = "bind"
        <3>1. MadeBinds' \subseteq MadeBinds \cup {o}
            BY <1>2, <1>8, <2>1 DEF MadeBinds
        <3>2. InLock(o) /\ Files!Holds(o, "binding-lock") /\ files.bindings = Files!NoBinding
            BY <1>1, <1>5, <2>1 DEF InLock, UnderWay, k, BindInv
        <3>3. \A q \in Calls : ~Binds(q)
            BY <1>5, <2>1, <3>2 DEF InLock, BindInv, Files!Holds
        <3>4. Credit = 0 /\ Credit' = 1
            BY <1>11, <2>1, <3>2, <3>3 DEF Credit
        <3>5. /\ IsFiniteSet(MadeBinds \cup {o})
              /\ Cardinality(MadeBinds \cup {o}) <= Cardinality(MadeBinds) + 1
              /\ Cardinality(MadeBinds) \in Nat /\ Cardinality(MadeBinds \cup {o}) \in Nat
            <4>1. IsFiniteSet(MadeBinds)
                BY DEF BindInv
            <4>2. /\ IsFiniteSet(MadeBinds \cup {o})
                  /\ Cardinality(MadeBinds \cup {o}) = IF o \in MadeBinds THEN Cardinality(MadeBinds)
                                                       ELSE Cardinality(MadeBinds) + 1
                BY <4>1, FS_AddElement
            <4>3. Cardinality(MadeBinds) \in Nat
                BY <4>1, FS_CardinalityType
            <4> QED BY <4>2, <4>3
        <3>6. /\ IsFiniteSet(MadeBinds') /\ Cardinality(MadeBinds') <= Cardinality(MadeBinds \cup {o})
              /\ Cardinality(MadeBinds') \in Nat
            BY <3>1, <3>5, FS_Subset, FS_CardinalityType
        <3> DEFINE n == Cardinality(MadeBinds)
                   m == Cardinality(MadeBinds')
                   l == Cardinality(MadeBinds \cup {o})
                   f == fileFaults
        <3>7. n \in Nat /\ m \in Nat /\ l \in Nat /\ f \in Nat /\ m <= l /\ l <= n + 1 /\ n <= f + 0
            BY <3>4, <3>5, <3>6 DEF BindInv
        <3> HIDE DEF n, m, l, f
        <3>8. m <= f + 1
            BY <3>7
        <3> QED BY <1>1, <3>4, <3>6, <3>8 DEF m, f
    <2>2. CASE ~(p = "sessions" /\ k = "bind")
        <3>1. MadeBinds' \subseteq MadeBinds
            <4> SUFFICES ASSUME NEW q \in Calls, call'[q].pc # "new", call'[q].kind = "bind",
                                files'.sessions[q].exists
                         PROVE  q \in MadeBinds
                BY DEF MadeBinds
            <4>1. call[q].pc # "new" /\ call[q].kind = "bind"
                BY <1>1, <1>2, <1>4 DEF k
            <4>2. files.sessions[q].exists
                BY <1>1, <1>3, <1>4, <1>6, <1>8, <2>2, <4>1
            <4> QED BY <4>1, <4>2 DEF MadeBinds
        <3>2. Credit = 1 => Credit' = 1
            BY <1>1, <1>3, <1>9, <1>10, <2>2 DEF Credit, Binds, UnderWay, k, p, Files!Step
        <3>3. fileFaults' \in Nat /\ fileFaults' + Credit' >= fileFaults + Credit
            <4> DEFINE c == Credit
                       d == Credit'
                       f == fileFaults
            <4>1. c \in {0, 1} /\ d \in {0, 1} /\ f \in Nat /\ (c = 1 => d = 1)
                BY <3>2 DEF Credit, BindInv
            <4> HIDE DEF c, d, f
            <4>2. f \in Nat /\ f + d >= f + c
                BY <4>1
            <4> QED BY <1>1, <4>2 DEF c, d, f
        <3> QED BY <3>1, <3>3, NothingMade
    <2> QED BY <2>1, <2>2
<1> QED BY <1>1, <1>12, <1>13, <1>14, <1>15 DEF BindInv

LEMMA BindsBegin ==
    ASSUME Files!SessionFileConstants, Files!Init
    PROVE  BindInv
<1>1. /\ call = [o \in Calls |-> [pc |-> "new"]] /\ fileFaults = 0
      /\ files.sessions = [s \in Calls \cup {Default} |->
                             IF s = Default THEN Files!NewSession ELSE Files!NoSession]
    BY DEF Files!Init
<1>2. \A o \in Calls : call[o].pc = "new" /\ ~files.sessions[o].exists
    BY <1>1 DEF Files!SessionFileConstants, Files!NoSession
<1>3. MadeBinds = {}
    BY <1>2 DEF MadeBinds
<1>4. IsFiniteSet(MadeBinds) /\ Cardinality(MadeBinds) = 0
    BY <1>3, FS_EmptySet
<1> QED BY <1>1, <1>2, <1>4 DEF BindInv, InLock, Binds, UnderWay, Credit

\* A chat whose messages arrive together gets one session, however many calls
\* look for it at once: one more for each fault that came between the making of a
\* session and its binding (a conjunct of the runs' FilesAgree).
THEOREM ChatsHaveOneSession ==
    ASSUME Files!SessionFileConstants
    PROVE  Files!Spec => []Files!OneSessionPerChat
<1>1. FilesInv /\ BindInv /\ [Files!Next]_(Files!fileVars) => (FilesInv /\ BindInv)'
    <2> SUFFICES ASSUME FilesInv, BindInv, [Files!Next]_(Files!fileVars) PROVE FilesInv' /\ BindInv'
        OBVIOUS
    <2>1. FilesInv'
        BY FilesStay
    <2>2. ASSUME NEW o \in Calls,
                 \/ \E k \in Files!Kinds : Files!Start(o, k)
                 \/ Files!FileStep(o) \/ Files!UpdateFails(o)
          PROVE  BindInv'
        BY <2>2, BindQuietSteps, BindWriteStep DEF Files!FileStep
    <2>3. CASE UNCHANGED Files!fileVars
        <3>1. /\ MadeBinds' = MadeBinds /\ Credit' = Credit /\ fileFaults' = fileFaults
              /\ \A o \in Calls : InLock(o)' <=> InLock(o)
            BY <2>3 DEF Files!fileVars, InLock, Binds, MadeBinds, Credit
        <3>2. UNCHANGED <<call, files, fileTails>>
            BY <2>3 DEF Files!fileVars
        <3> QED BY <2>1, <3>1, <3>2 DEF BindInv, Files!Holds
    <2> QED BY <2>1, <2>2, <2>3, BindCrashStep DEF Files!Next
<1>2. BindInv => Files!OneSessionPerChat
    <2> SUFFICES ASSUME BindInv
                 PROVE  Files!Cardinality(MadeBinds) <= 1 + fileFaults
        BY DEF Files!OneSessionPerChat, MadeBinds
    <2> DEFINE n == Cardinality(MadeBinds)
               c == Credit
               f == fileFaults
    <2>1. n \in Nat /\ c \in {0, 1} /\ f \in Nat /\ n <= f + c
        BY FS_CardinalityType DEF BindInv, Credit
    <2> HIDE DEF n, c, f
    <2>2. n <= 1 + f
        BY <2>1
    <2> QED BY <2>2 DEF n, f, Cardinality, Files!Cardinality, IsFiniteSet, Files!IsFiniteSet
<1> QED BY <1>1, <1>2, FilesBegin, BindsBegin, PTL DEF Files!Spec

-----------------------------------------------------------------------------
(* Sums over finite sets, which the library adds up element by element. *)

Some(s) == CHOOSE x \in s : TRUE

AddsAll(g, f, S) == g = [s \in SUBSET S |-> IF s = {} THEN 0 ELSE f[Some(s)] + g[s \ {Some(s)}]]
Totals(f, S) == CHOOSE g : AddsAll(g, f, S)
Total(f, S) == Totals(f, S)[S]

LEMMA SumsAreTotals ==
    /\ \A c, S : Rate!MapThenSumSet(LAMBDA t : passed[c][t], S) = Total(passed[c], S)
    /\ \A S : BlobFiles!MapThenSumSet(LAMBDA b : SizeOf[b], S) = Total(SizeOf, S)
BY DEF Rate!MapThenSumSet, Rate!MapThenFoldSet, BlobFiles!MapThenSumSet, BlobFiles!MapThenFoldSet,
       Total, Totals, AddsAll, Some

\* Some number of a set is its least.
LEMMA LeastNumber ==
    ASSUME NEW T, T \subseteq Nat, T # {}
    PROVE  \E x \in T : \A y \in T : x <= y
<1>1. PICK x \in T : \A y \in T : <<y, x>> \notin OpToRel(<, Nat)
    BY NatLessThanWellFounded, WFMin, Zenon
<1>2. \A y \in T : ~(y < x)
    BY <1>1, Zenon DEF OpToRel
<1> QED BY <1>2

LEMMA NumbersInduct ==
    ASSUME NEW Good, 0 \in Good, \A n \in Nat : n \in Good => n + 1 \in Good
    PROVE  Nat \subseteq Good
<1> SUFFICES ASSUME Nat \ Good # {} PROVE FALSE
    OBVIOUS
<1>1. PICK m \in Nat \ Good : \A k \in Nat \ Good : m <= k
    BY LeastNumber
<1>2. m - 1 \in Nat /\ m - 1 \in Good
    BY <1>1
<1>3. (m - 1) + 1 \in Good
    BY <1>2
<1> QED BY <1>1, <1>3

\* What holds of a set whenever it holds of those that lack an element, holds of
\* all subsets of a finite one.
LEMMA SubsetsInduct ==
    ASSUME NEW S, IsFiniteSet(S), NEW Good,
           \A s \in SUBSET S : (\A x \in s : s \ {x} \in Good) => s \in Good
    PROVE  SUBSET S \subseteq Good
<1> DEFINE sizes == {Cardinality(s) : s \in (SUBSET S) \ Good}
<1>1. ASSUME NEW s \in SUBSET S PROVE IsFiniteSet(s) /\ Cardinality(s) \in Nat
    BY FS_Subset, FS_CardinalityType
<1>2. SUFFICES ASSUME (SUBSET S) \ Good # {} PROVE FALSE
    OBVIOUS
<1>3. sizes \subseteq Nat /\ sizes # {}
    BY <1>1, <1>2
<1> HIDE DEF sizes
<1>4. PICK n \in sizes : \A m \in sizes : n <= m
    BY <1>3, LeastNumber
<1>5. PICK s \in (SUBSET S) \ Good : Cardinality(s) = n
    BY <1>4 DEF sizes
<1>6. ASSUME NEW x \in s PROVE s \ {x} \in Good
    <2>1. Cardinality(s \ {x}) = Cardinality(s) - 1
        BY <1>1, FS_RemoveElement
    <2>2. s \ {x} \in SUBSET S
        OBVIOUS
    <2>3. s \ {x} \notin Good => Cardinality(s \ {x}) \in sizes
        BY <2>2 DEF sizes
    <2> QED BY <1>1, <1>4, <1>5, <2>1, <2>3
<1> QED BY <1>5, <1>6

\* A function that adds f up over the subsets of S, element by element.
AddsUp(g, f, S) ==
    \A s \in SUBSET S :
        g[s] \in Nat /\ g[s] = IF s = {} THEN 0 ELSE f[Some(s)] + g[s \ {Some(s)}]

LEMMA SomeIsMember == \A s : s # {} => Some(s) \in s
BY DEF Some

\* There is one: it is built up over the subsets of at most n elements.
LEMMA TotalsExist ==
    ASSUME NEW S, IsFiniteSet(S), NEW f, \A x \in S : f[x] \in Nat
    PROVE  \E g : AddsAll(g, f, S)
<1> DEFINE Small(n) == {s \in SUBSET S : Cardinality(s) <= n}
           Fits(g, n) == g = [s \in Small(n) |-> IF s = {} THEN 0 ELSE f[Some(s)] + g[s \ {Some(s)}]]
<1>1. ASSUME NEW s \in SUBSET S PROVE IsFiniteSet(s) /\ Cardinality(s) \in Nat
    BY FS_Subset, FS_CardinalityType
<1>2. \E g : Fits(g, 0)
    <2>1. \A s \in Small(0) : s = {}
        BY <1>1, FS_EmptySet
    <2>2. Fits([s \in Small(0) |-> 0], 0)
        BY <2>1
    <2> QED BY <2>2
<1>3. ASSUME NEW n \in Nat, NEW g, Fits(g, n) PROVE \E h : Fits(h, n + 1)
    <2> DEFINE h == [s \in Small(n + 1) |-> IF s = {} THEN 0 ELSE f[Some(s)] + g[s \ {Some(s)}]]
    <2>1. ASSUME NEW s \in Small(n) PROVE s \in Small(n + 1) /\ h[s] = g[s]
        <3>1. s \in Small(n + 1)
            BY <1>1, <2>1
        <3> QED BY <1>3, <2>1, <3>1
    <2>2. ASSUME NEW s \in Small(n + 1), s # {} PROVE s \ {Some(s)} \in Small(n)
        <3>1. Some(s) \in s /\ IsFiniteSet(s) /\ Cardinality(s) \in Nat
            BY <1>1, <2>2, SomeIsMember
        <3>2. Cardinality(s \ {Some(s)}) = Cardinality(s) - 1
            BY <3>1, FS_RemoveElement
        <3> QED BY <2>2, <3>1, <3>2
    <2>3. \A s \in Small(n + 1) :
              h[s] = IF s = {} THEN 0 ELSE f[Some(s)] + h[s \ {Some(s)}]
        BY <2>1, <2>2
    <2>4. h = [s \in Small(n + 1) |-> h[s]]
        OBVIOUS
    <2> HIDE DEF h
    <2>5. Fits(h, n + 1)
        BY <2>3, <2>4
    <2> QED BY <2>5
<1> DEFINE reached == {n \in Nat : \E g : Fits(g, n)}
<1>4. Nat \subseteq reached
    <2> HIDE DEF Fits
    <2>1. 0 \in reached /\ \A n \in Nat : n \in reached => n + 1 \in reached
        BY <1>2, <1>3
    <2> HIDE DEF reached
    <2> QED BY <2>1, NumbersInduct
<1>5. Small(Cardinality(S)) = SUBSET S /\ Cardinality(S) \in Nat
    BY FS_Subset, FS_CardinalityType
<1>6. PICK g : Fits(g, Cardinality(S))
    <2> HIDE DEF Fits
    <2> QED BY <1>4, <1>5
<1>7. g = [s \in SUBSET S |-> IF s = {} THEN 0 ELSE f[Some(s)] + g[s \ {Some(s)}]]
    <2> HIDE DEF Small
    <2> QED BY <1>5, <1>6
<1> QED BY <1>7 DEF AddsAll

LEMMA AllAddUp ==
    ASSUME NEW S, IsFiniteSet(S), NEW f, \A x \in S : f[x] \in Nat, NEW g, AddsAll(g, f, S)
    PROVE  AddsUp(g, f, S)
<1> DEFINE Good == {s \in SUBSET S : g[s] \in Nat}
<1>1. ASSUME NEW s \in SUBSET S
      PROVE  g[s] = IF s = {} THEN 0 ELSE f[Some(s)] + g[s \ {Some(s)}]
    BY DEF AddsAll
<1>2. ASSUME NEW s \in SUBSET S, \A x \in s : s \ {x} \in Good PROVE s \in Good
    <2>1. CASE s = {}
        <3>1. g[s] = 0
            BY <1>1, <2>1
        <3> QED BY <3>1
    <2>2. CASE s # {}
        <3>1. Some(s) \in s
            BY <2>2, SomeIsMember
        <3>2. g[s \ {Some(s)}] \in Nat /\ f[Some(s)] \in Nat
            BY <1>2, <3>1
        <3>3. g[s] = f[Some(s)] + g[s \ {Some(s)}]
            BY <1>1, <2>2
        <3> QED BY <3>2, <3>3
    <2> QED BY <2>1, <2>2
<1>3. SUBSET S \subseteq Good
    <2> HIDE DEF Good
    <2> QED BY <1>2, SubsetsInduct
<1> QED BY <1>1, <1>3 DEF AddsUp

LEMMA TotalsAdd ==
    ASSUME NEW S, IsFiniteSet(S), NEW f, \A x \in S : f[x] \in Nat
    PROVE  AddsUp(Totals(f, S), f, S)
<1>1. \E g : AddsAll(g, f, S)
    BY TotalsExist
<1>2. AddsAll(Totals(f, S), f, S)
    BY <1>1, Zenon DEF Totals
<1> QED BY <1>2, AllAddUp

LEMMA OneWayToAddUp ==
    ASSUME NEW S, IsFiniteSet(S), NEW f, NEW g, NEW h, AddsUp(g, f, S), AddsUp(h, f, S)
    PROVE  \A s \in SUBSET S : g[s] = h[s]
<1> DEFINE Good == {s \in SUBSET S : g[s] = h[s]}
<1>1. ASSUME NEW s \in SUBSET S, \A x \in s : s \ {x} \in Good PROVE s \in Good
    BY <1>1, SomeIsMember DEF AddsUp
<1>2. SUBSET S \subseteq Good
    <2> HIDE DEF Good
    <2> QED BY <1>1, SubsetsInduct
<1> QED BY <1>2

\* The sum of f over a finite set is a number; it is that of equal functions.
LEMMA TotalsAgree ==
    ASSUME NEW S, IsFiniteSet(S), NEW T \in SUBSET S, NEW f, NEW g,
           \A x \in S : f[x] \in Nat, \A x \in T : g[x] = f[x]
    PROVE  Total(f, T) = Totals(f, S)[T] /\ Total(g, T) = Total(f, T) /\ Total(f, T) \in Nat
<1>1. IsFiniteSet(T)
    BY FS_Subset
<1>2. AddsUp(Totals(f, S), f, T) /\ AddsUp(Totals(f, T), f, T)
    BY <1>1, TotalsAdd DEF AddsUp
<1>3. AddsUp(Totals(g, T), g, T)
    BY <1>1, TotalsAdd
<1>4. AddsUp(Totals(g, T), f, T)
    BY <1>3, SomeIsMember DEF AddsUp
<1>5. T \in SUBSET T
    OBVIOUS
<1>6. \A s \in SUBSET T : Totals(f, S)[s] = Totals(f, T)[s]
    BY <1>1, <1>2, OneWayToAddUp
<1>7. \A s \in SUBSET T : Totals(g, T)[s] = Totals(f, T)[s]
    BY <1>1, <1>2, <1>4, OneWayToAddUp
<1>8. Totals(f, T)[T] \in Nat
    BY <1>2, <1>5 DEF AddsUp
<1> QED BY <1>5, <1>6, <1>7, <1>8 DEF Total

LEMMA TotalStep ==
    ASSUME NEW S, IsFiniteSet(S), NEW f, \A x \in S : f[x] \in Nat
    PROVE  /\ Total(f, S) \in Nat /\ Total(f, {}) = 0
           /\ S # {} => Total(f, S) = f[Some(S)] + Total(f, S \ {Some(S)})
<1>1. AddsUp(Totals(f, S), f, S)
    BY TotalsAdd
<1>2. \A T \in SUBSET S : Total(f, T) = Totals(f, S)[T] /\ Total(f, T) \in Nat
    BY TotalsAgree
<1>3. S \in SUBSET S /\ {} \in SUBSET S /\ S \ {Some(S)} \in SUBSET S
    OBVIOUS
<1> QED BY <1>1, <1>2, <1>3 DEF AddsUp

\* Whatever element is taken out first.
LEMMA TotalWithout ==
    ASSUME NEW S, IsFiniteSet(S), NEW f, \A x \in S : f[x] \in Nat
    PROVE  \A x \in S : Total(f, S) = f[x] + Total(f, S \ {x})
<1> DEFINE Good == {s \in SUBSET S : \A x \in s : Total(f, s) = f[x] + Total(f, s \ {x})}
<1>1. ASSUME NEW s \in SUBSET S
      PROVE  IsFiniteSet(s) /\ Total(f, s) \in Nat
             /\ (s # {} => Total(f, s) = f[Some(s)] + Total(f, s \ {Some(s)}))
    BY FS_Subset, TotalStep
<1>2. ASSUME NEW s \in SUBSET S, \A x \in s : s \ {x} \in Good, NEW x \in s
      PROVE  Total(f, s) = f[x] + Total(f, s \ {x})
    <2> DEFINE y == Some(s)
    <2>1. y \in s /\ Total(f, s) = f[y] + Total(f, s \ {y})
        BY <1>1, <1>2, SomeIsMember
    <2>2. CASE x = y
        BY <2>1, <2>2
    <2>3. CASE x # y
        <3>1. s \ {y} \in Good /\ s \ {x} \in Good /\ x \in s \ {y} /\ y \in s \ {x}
            BY <1>2, <2>1, <2>3
        <3>2. Total(f, s \ {y}) = f[x] + Total(f, (s \ {y}) \ {x})
            BY <3>1
        <3>3. Total(f, s \ {x}) = f[y] + Total(f, (s \ {x}) \ {y})
            BY <3>1
        <3>4. (s \ {y}) \ {x} = (s \ {x}) \ {y}
            OBVIOUS
        <3>5. Total(f, (s \ {x}) \ {y}) \in Nat /\ f[x] \in Nat /\ f[y] \in Nat
            BY <1>1, <2>1
        <3> HIDE DEF y, Good
        <3> QED BY <2>1, <3>2, <3>3, <3>4, <3>5
    <2> QED BY <2>2, <2>3
<1>3. SUBSET S \subseteq Good
    <2>1. \A s \in SUBSET S : (\A x \in s : s \ {x} \in Good) => s \in Good
        BY <1>2
    <2> HIDE DEF Good
    <2> QED BY <2>1, SubsetsInduct
<1> QED BY <1>3

\* A part sums up to no more than the whole.
LEMMA TotalGrows ==
    ASSUME NEW S, IsFiniteSet(S), NEW f, \A x \in S : f[x] \in Nat
    PROVE  \A T \in SUBSET S : Total(f, T) \in Nat /\ Total(f, T) <= Total(f, S)
<1> DEFINE Good == {s \in SUBSET S : \A T \in SUBSET s : Total(f, T) <= Total(f, s)}
<1>1. \A s \in SUBSET S : IsFiniteSet(s) /\ Total(f, s) \in Nat
    BY FS_Subset, TotalStep
<1>2. ASSUME NEW s \in SUBSET S, \A x \in s : s \ {x} \in Good, NEW T \in SUBSET s
      PROVE  Total(f, T) <= Total(f, s)
    <2>1. CASE T = s
        BY <1>1, <2>1
    <2>2. CASE T # s
        <3>1. PICK x \in s : x \notin T
            BY <2>2
        <3>2. Total(f, T) <= Total(f, s \ {x})
            BY <1>2, <3>1
        <3>3. Total(f, s) = f[x] + Total(f, s \ {x})
            BY <1>1, TotalWithout
        <3>4. Total(f, T) \in Nat /\ Total(f, s \ {x}) \in Nat /\ f[x] \in Nat
            BY <1>1
        <3> HIDE DEF Good
        <3> QED BY <3>2, <3>3, <3>4
    <2> QED BY <2>1, <2>2
<1>3. SUBSET S \subseteq Good
    <2>1. \A s \in SUBSET S : (\A x \in s : s \ {x} \in Good) => s \in Good
        BY <1>2
    <2> HIDE DEF Good
    <2> QED BY <2>1, SubsetsInduct
<1> QED BY <1>1, <1>3

\* Two parts.
LEMMA TotalSplits ==
    ASSUME NEW S, IsFiniteSet(S), NEW f, \A x \in S : f[x] \in Nat, NEW A \in SUBSET S
    PROVE  Total(f, S) = Total(f, A) + Total(f, S \ A)
<1> DEFINE Good == {s \in SUBSET S : Total(f, A \cup s) = Total(f, A) + Total(f, s \ A)}
<1>1. \A s \in SUBSET S : IsFiniteSet(s) /\ Total(f, s) \in Nat
    BY FS_Subset, TotalStep
<1>2. ASSUME NEW s \in SUBSET S, \A x \in s : s \ {x} \in Good
      PROVE  Total(f, A \cup s) = Total(f, A) + Total(f, s \ A)
    <2>1. CASE s \subseteq A
        <3>1. A \cup s = A /\ s \ A = {}
            BY <2>1
        <3>2. Total(f, {}) = 0 /\ Total(f, A) \in Nat
            BY <1>1, TotalStep
        <3> QED BY <3>1, <3>2
    <2>2. CASE ~(s \subseteq A)
        <3>1. PICK x \in s : x \notin A
            BY <2>2
        <3>2. Total(f, A \cup (s \ {x})) = Total(f, A) + Total(f, (s \ {x}) \ A)
            BY <1>2
        <3>3. A \cup (s \ {x}) = (A \cup s) \ {x} /\ (s \ {x}) \ A = (s \ A) \ {x}
            BY <3>1
        <3>4. Total(f, A \cup s) = f[x] + Total(f, (A \cup s) \ {x})
            BY <1>1, <3>1, TotalWithout
        <3>5. Total(f, s \ A) = f[x] + Total(f, (s \ A) \ {x})
            BY <1>1, <3>1, TotalWithout
        <3>6. /\ Total(f, A) \in Nat /\ f[x] \in Nat
              /\ Total(f, (s \ A) \ {x}) \in Nat /\ Total(f, (A \cup s) \ {x}) \in Nat
            BY <1>1
        <3> HIDE DEF Good
        <3> QED BY <3>2, <3>3, <3>4, <3>5, <3>6
    <2> QED BY <2>1, <2>2
<1>3. SUBSET S \subseteq Good
    <2>1. \A s \in SUBSET S : (\A x \in s : s \ {x} \in Good) => s \in Good
        BY <1>2
    <2> HIDE DEF Good
    <2> QED BY <2>1, SubsetsInduct
<1>4. S \in Good /\ A \cup S = S
    BY <1>3
<1> QED BY <1>4

\* One value grows by one.
LEMMA TotalCounts ==
    ASSUME NEW S, IsFiniteSet(S), NEW f, \A x \in S : f[x] \in Nat, NEW g, NEW x \in S,
           g[x] = f[x] + 1, \A y \in S \ {x} : g[y] = f[y]
    PROVE  Total(g, S) = Total(f, S) + 1
<1>1. \A y \in S : g[y] \in Nat
    OBVIOUS
<1>2. Total(f, S) = f[x] + Total(f, S \ {x})
    BY TotalWithout
<1>3. Total(g, S) = g[x] + Total(g, S \ {x})
    BY <1>1, TotalWithout
<1>4. Total(g, S \ {x}) = Total(f, S \ {x}) /\ Total(f, S \ {x}) \in Nat
    <2>1. S \ {x} \in SUBSET S
        OBVIOUS
    <2> QED BY <2>1, TotalsAgree
<1> QED BY <1>2, <1>3, <1>4

\* Of nothing.
LEMMA TotalZero ==
    ASSUME NEW S, IsFiniteSet(S), NEW f, \A x \in S : f[x] = 0
    PROVE  Total(f, S) = 0
<1> DEFINE Good == {s \in SUBSET S : Total(f, s) = 0}
<1>1. ASSUME NEW s \in SUBSET S, \A x \in s : s \ {x} \in Good PROVE s \in Good
    <2>1. IsFiniteSet(s) /\ \A x \in s : f[x] \in Nat
        BY FS_Subset
    <2>2. /\ Total(f, {}) = 0
          /\ s # {} => Total(f, s) = f[Some(s)] + Total(f, s \ {Some(s)})
        BY <2>1, TotalStep
    <2>3. CASE s = {}
        BY <2>2, <2>3
    <2>4. CASE s # {}
        <3>1. Some(s) \in s
            BY <2>4, SomeIsMember
        <3>2. f[Some(s)] = 0 /\ Total(f, s \ {Some(s)}) = 0
            BY <1>1, <3>1
        <3> QED BY <2>2, <2>4, <3>2
    <2> QED BY <2>3, <2>4
<1>2. SUBSET S \subseteq Good
    <2> HIDE DEF Good
    <2> QED BY <1>1, SubsetsInduct
<1> QED BY <1>2

-----------------------------------------------------------------------------
(* Attachments. *)

BlobOps ==
    [op : {"put", "get"}, blob : Blobs, protected : Blobs \cup {"none"}, victim : Blobs,
     pc : {"load", "look", "write", "touch", "describe", "evict", "unlink"}]

BlobFileType  == [Blobs -> BlobFiles!File \cup {BlobFiles!Absent}]
SidecarType   == [Blobs -> BlobFiles!Entry \cup {BlobFiles!Absent}]

BlobType ==
    /\ blobFile \in BlobFileType /\ metaFile \in SidecarType /\ index \in SidecarType
    /\ loaded \in BOOLEAN
    /\ blobOp \in BlobOps \cup {BlobFiles!NoOp}
    /\ blobClock \in 0..MaxBlobOps /\ blobFaults \in 0..MaxBlobFaults
    /\ begun \in [Blobs -> 0..blobClock] /\ returned \in [Blobs -> 0..blobClock]
    /\ blobOp # BlobFiles!NoOp => blobClock > 0

\* The blob, its sidecar and its entry in the index tell the same.
Agrees(b) ==
    /\ index[b] = BlobFiles!Absent <=> blobFile[b] = BlobFiles!Absent
    /\ metaFile[b] = index[b]
    /\ blobFile[b] # BlobFiles!Absent => blobFile[b].good

\* Between operations files and index agree, and the blob that was used last is
\* in a loaded store, which is under its cap.
IdleAgrees ==
    /\ \A b \in Blobs : Agrees(b)
    /\ loaded => /\ ~BlobFiles!IsOverCap(BlobFiles!Indexed)
                 /\ blobClock > 0
                 /\ \A b \in Blobs : returned[b] = blobClock => index[b] # BlobFiles!Absent

\* What an operation has done by each of its steps.
OpAgrees ==
    /\ \A b \in Blobs : returned[b] < blobClock
    /\ IF loaded THEN blobOp.pc # "load" ELSE blobOp.pc \in {"load", "evict", "unlink"}
    /\ \A b \in Blobs :
         \/ Agrees(b)
         \/ blobOp.pc \in {"touch", "describe"} /\ b = blobOp.blob
         \/ blobOp.pc = "unlink" /\ b = blobOp.victim
    /\ blobOp.pc \in {"touch", "describe"} =>
         /\ index[blobOp.blob] # BlobFiles!Absent
         /\ blobFile[blobOp.blob] # BlobFiles!Absent /\ blobFile[blobOp.blob].good
    /\ blobOp.pc \in {"look", "touch"} => ~BlobFiles!IsOverCap(BlobFiles!Indexed)
    /\ blobOp.pc = "unlink" => blobFile[blobOp.victim] = BlobFiles!Absent
    /\ loaded /\ blobOp.pc \in {"evict", "unlink"} =>
         blobOp.protected = blobOp.blob /\ index[blobOp.blob] # BlobFiles!Absent
    /\ loaded /\ blobOp.pc = "unlink" => blobOp.victim # blobOp.blob

BlobInv ==
    /\ BlobType
    /\ blobFaults = 0 =>
         /\ blobOp = BlobFiles!NoOp => IdleAgrees
         /\ blobOp # BlobFiles!NoOp => OpAgrees

\* An operation that goes on, and one that ends.
LEMMA OpGoesOn ==
    ASSUME BlobType, blobOp # BlobFiles!NoOp
    PROVE  /\ blobOp \in BlobOps /\ blobClock \in 1..MaxBlobOps /\ BlobFiles!NoOp \notin BlobOps
           /\ \A pc \in {"load", "look", "write", "touch", "describe", "evict", "unlink"} :
                LET r == [blobOp EXCEPT !.pc = pc] IN
                /\ r \in BlobOps /\ r.pc = pc /\ r.op = blobOp.op /\ r.blob = blobOp.blob
                /\ r.protected = blobOp.protected /\ r.victim = blobOp.victim
<1>1. BlobFiles!NoOp \notin BlobOps
    BY DEF BlobOps, BlobFiles!NoOp
<1> QED BY <1>1 DEF BlobType, BlobOps

LEMMA EntriesFit ==
    ASSUME BlobType, blobClock > 0, NEW m \in BlobFiles!Mimes
    PROVE  /\ [mime |-> m, at |-> blobClock] \in BlobFiles!Entry
           /\ [mime |-> m, at |-> blobClock] # BlobFiles!Absent
           /\ [at |-> blobClock, good |-> TRUE] \in BlobFiles!File
           /\ [at |-> blobClock, good |-> TRUE] # BlobFiles!Absent
           /\ BlobFiles!Absent \notin BlobFiles!Entry
           /\ BlobFiles!Absent \notin BlobFiles!File
BY DEF BlobType, BlobFiles!Entry, BlobFiles!Absent, BlobFiles!File

LEMMA CallStep ==
    ASSUME BlobFiles!BlobConstants, BlobInv, NEW task \in {"put", "get"}, NEW b \in Blobs, BlobFiles!Call(task, b)
    PROVE  BlobInv'
<1> DEFINE r == [op |-> task, blob |-> b, protected |-> "none", victim |-> b,
                 pc |-> IF loaded THEN "look" ELSE "load"]
<1>1. /\ BlobType /\ blobOp = BlobFiles!NoOp /\ blobClock < MaxBlobOps /\ blobClock' = blobClock + 1
      /\ begun' = [begun EXCEPT ![b] = blobClock + 1] /\ blobOp' = r
      /\ UNCHANGED <<blobFile, metaFile, index, loaded, blobFaults, returned>>
    BY DEF BlobInv, BlobFiles!Call
<1>2. r \in BlobOps /\ r.pc = (IF loaded THEN "look" ELSE "load")
    BY DEF BlobOps
<1>3. r # BlobFiles!NoOp
    BY DEF BlobFiles!NoOp
<1> HIDE DEF r
<1>4. BlobType'
    <2>1. /\ blobClock \in 0..MaxBlobOps /\ MaxBlobOps \in Nat
          /\ blobClock + 1 \in 0..MaxBlobOps /\ blobClock + 1 > 0
        BY <1>1 DEF BlobType, BlobFiles!BlobConstants
    <2>2. begun' \in [Blobs -> 0..(blobClock + 1)] /\ returned \in [Blobs -> 0..(blobClock + 1)]
        <3>1. 0..blobClock \subseteq 0..(blobClock + 1) /\ blobClock + 1 \in 0..(blobClock + 1)
            BY <2>1
        <3>2. begun \in [Blobs -> 0..(blobClock + 1)] /\ returned \in [Blobs -> 0..(blobClock + 1)]
            BY <1>1, <3>1 DEF BlobType
        <3> QED BY <1>1, <3>1, <3>2
    <2> QED BY <1>1, <1>2, <2>1, <2>2 DEF BlobType, BlobFileType, SidecarType
<1>5. blobFaults = 0 => OpAgrees'
    <2>1. \A x \in Blobs : returned[x] < blobClock + 1
        BY <1>1 DEF BlobType
    <2> QED BY <1>1, <1>2, <2>1 DEF BlobInv, IdleAgrees, OpAgrees, Agrees, BlobType, BlobFiles!Indexed,
                BlobFiles!Held
<1> QED BY <1>1, <1>3, <1>4, <1>5 DEF BlobInv

\* Loading reads back what the index says.
LEMMA LoadStep ==
    ASSUME BlobInv, BlobFiles!Load
    PROVE  BlobInv'
<1> DEFINE r == [blobOp EXCEPT !.pc = "evict"]
<1>1. /\ BlobType /\ blobOp # BlobFiles!NoOp /\ blobOp.pc = "load" /\ blobOp' = r
      /\ index' = [b \in Blobs |->
           CASE blobFile[b] = BlobFiles!Absent -> index[b]
             [] blobFile[b] # BlobFiles!Absent /\ metaFile[b] # BlobFiles!Absent -> metaFile[b]
             [] OTHER -> [mime |-> "octet-stream", at |-> blobFile[b].at]]
      /\ UNCHANGED <<blobFile, metaFile, loaded, blobClock, blobFaults, begun, returned>>
    BY DEF BlobInv, BlobFiles!Load, BlobFiles!Goes
<1>2. r \in BlobOps /\ r.pc = "evict" /\ r.blob = blobOp.blob /\ BlobFiles!NoOp \notin BlobOps
    BY <1>1, OpGoesOn
<1> HIDE DEF r
<1>3. index' \in SidecarType
    <2>1. ASSUME NEW b \in Blobs, blobFile[b] # BlobFiles!Absent
          PROVE  [mime |-> "octet-stream", at |-> blobFile[b].at] \in BlobFiles!Entry
        <3>1. blobFile[b] \in BlobFiles!File
            BY <1>1, <2>1 DEF BlobType, BlobFileType
        <3> QED BY <3>1 DEF BlobFiles!File, BlobFiles!Entry, BlobFiles!Mimes
    <2> QED BY <1>1, <2>1 DEF BlobType, SidecarType
<1>4. BlobType'
    BY <1>1, <1>2, <1>3 DEF BlobType
<1>5. ASSUME blobFaults = 0 PROVE OpAgrees'
    <2>1. OpAgrees /\ ~loaded /\ \A b \in Blobs : Agrees(b)
        BY <1>1, <1>5 DEF BlobInv, OpAgrees
    <2>2. \A b \in Blobs : index'[b] = index[b]
        BY <1>1, <2>1 DEF Agrees
    <2> QED BY <1>1, <1>2, <2>1, <2>2 DEF OpAgrees, Agrees
<1> QED BY <1>1, <1>2, <1>4, <1>5 DEF BlobInv

\* The entry of the blob that is put or got is renewed.
LEMMA TouchStep ==
    ASSUME BlobInv, blobOp # BlobFiles!NoOp, blobOp.pc = "look", NEW e \in BlobFiles!Entry,
           index[blobOp.blob] # BlobFiles!Absent, blobFile[blobOp.blob] # BlobFiles!Absent,
           index' = [index EXCEPT ![blobOp.blob] = e], blobOp' = [blobOp EXCEPT !.pc = "touch"],
           UNCHANGED <<blobFile, metaFile, loaded, blobClock, blobFaults, begun, returned>>
    PROVE  BlobInv'
<1> DEFINE r == [blobOp EXCEPT !.pc = "touch"]
<1>1. BlobType
    BY DEF BlobInv
<1>2. /\ r \in BlobOps /\ r.pc = "touch" /\ r.blob = blobOp.blob /\ r.blob \in Blobs
      /\ BlobFiles!NoOp \notin BlobOps /\ blobOp' = r
    BY <1>1, OpGoesOn DEF BlobOps
<1>3. BlobFiles!Absent \notin BlobFiles!Entry
    BY DEF BlobFiles!Absent, BlobFiles!Entry
<1> HIDE DEF r
<1>4. BlobType'
    BY <1>1, <1>2 DEF BlobType, SidecarType
<1>5. ASSUME blobFaults = 0 PROVE OpAgrees'
    <2>1. OpAgrees /\ loaded
        BY <1>5 DEF BlobInv, OpAgrees
    <2>2. /\ index'[r.blob] = e /\ \A b \in Blobs \ {r.blob} : index'[b] = index[b]
        BY <1>1, <1>2 DEF BlobType, SidecarType
    <2>3. BlobFiles!Indexed' = BlobFiles!Indexed
        BY <1>2, <1>3, <2>2 DEF BlobFiles!Indexed, BlobFiles!Held
    <2>4. \A b \in Blobs : Agrees(b)
        BY <2>1 DEF OpAgrees
    <2>5. \A b \in Blobs \ {r.blob} : Agrees(b)'
        BY <2>2, <2>4 DEF Agrees
    <2>6. /\ index'[r.blob] # BlobFiles!Absent /\ blobFile'[r.blob] # BlobFiles!Absent
          /\ blobFile'[r.blob].good /\ loaded' /\ ~BlobFiles!IsOverCap(BlobFiles!Indexed)'
        BY <1>2, <1>3, <2>1, <2>2, <2>3, <2>4 DEF Agrees, OpAgrees
    <2> QED BY <1>2, <2>1, <2>5, <2>6 DEF OpAgrees
<1> QED BY <1>1, <1>2, <1>4, <1>5 DEF BlobInv

LEMMA LookSteps ==
    ASSUME BlobInv, BlobFiles!PutKnown \/ BlobFiles!PutNew \/ BlobFiles!Read
    PROVE  BlobInv'
<1>1. /\ BlobType /\ blobOp # BlobFiles!NoOp /\ blobOp.pc = "look"
      /\ UNCHANGED <<blobFile, loaded, blobClock, blobFaults, begun>>
    BY DEF BlobInv, BlobFiles!PutKnown, BlobFiles!PutNew, BlobFiles!Read
<1> DEFINE b == blobOp.blob
<1>2. b \in Blobs /\ blobOp \in BlobOps /\ BlobFiles!NoOp \notin BlobOps /\ blobClock > 0
    BY <1>1, OpGoesOn DEF BlobOps, BlobType
<1>3. CASE BlobFiles!PutKnown
    <2>1. PICK m \in BlobFiles!Mimes : index' = [index EXCEPT ![b] =
             [mime |-> IF @.mime = "octet-stream" THEN m ELSE @.mime, at |-> blobClock]]
        BY <1>3 DEF BlobFiles!PutKnown
    <2> DEFINE n == IF index[b].mime = "octet-stream" THEN m ELSE index[b].mime
    <2>2. n \in BlobFiles!Mimes /\ index[b] # BlobFiles!Absent /\ blobFile[b] # BlobFiles!Absent
        BY <1>1, <1>2, <1>3 DEF BlobFiles!PutKnown, BlobType, SidecarType, BlobFiles!Entry
    <2>3. index' = [index EXCEPT ![b] = [mime |-> n, at |-> blobClock]]
        BY <2>1
    <2>4. [mime |-> n, at |-> blobClock] \in BlobFiles!Entry
        BY <1>1, <1>2, <2>2, EntriesFit
    <2>5. blobOp' = [blobOp EXCEPT !.pc = "touch"] /\ UNCHANGED <<metaFile, returned>>
        BY <1>3 DEF BlobFiles!PutKnown, BlobFiles!Goes
    <2> HIDE DEF n
    <2> QED BY <1>1, <2>2, <2>3, <2>4, <2>5, TouchStep
<1>4. CASE BlobFiles!PutNew
    <2> DEFINE r == [blobOp EXCEPT !.pc = "write"]
    <2>1. /\ index' = [index EXCEPT ![b] = BlobFiles!Absent] /\ blobOp' = r
          /\ UNCHANGED <<metaFile, returned>>
          /\ \/ index[b] = BlobFiles!Absent \/ blobFile[b] = BlobFiles!Absent
             \/ blobFile[b] # BlobFiles!Absent /\ ~blobFile[b].good
        BY <1>4 DEF BlobFiles!PutNew, BlobFiles!Goes
    <2>2. r \in BlobOps /\ r.pc = "write"
        BY <1>1, OpGoesOn
    <2> HIDE DEF r
    <2>3. BlobType'
        BY <1>1, <1>2, <2>1, <2>2 DEF BlobType, SidecarType
    <2>4. ASSUME blobFaults = 0 PROVE OpAgrees'
        <3>1. OpAgrees /\ \A x \in Blobs : Agrees(x)
            BY <1>1, <2>4 DEF BlobInv, OpAgrees
        <3>2. index[b] = BlobFiles!Absent
            BY <1>2, <2>1, <3>1 DEF Agrees
        <3>3. index' = index
            BY <1>1, <1>2, <2>1, <3>2 DEF BlobType, SidecarType
        <3> QED BY <1>1, <2>1, <2>2, <3>1, <3>3 DEF OpAgrees, Agrees
    <2> QED BY <1>1, <1>2, <2>1, <2>2, <2>3, <2>4 DEF BlobInv
<1>5. CASE BlobFiles!Read /\ index[b] # BlobFiles!Absent /\ blobFile[b] # BlobFiles!Absent
    <2>1. index[b] \in BlobFiles!Entry
        BY <1>1, <1>2, <1>5 DEF BlobType, SidecarType
    <2> DEFINE e == [index[b] EXCEPT !.at = blobClock]
    <2>2. e \in BlobFiles!Entry
        BY <1>1, <1>2, <2>1 DEF BlobType, BlobFiles!Entry
    <2>3. /\ index' = [index EXCEPT ![b] = e] /\ blobOp' = [blobOp EXCEPT !.pc = "touch"]
          /\ UNCHANGED <<metaFile, returned>>
        BY <1>5 DEF BlobFiles!Read, BlobFiles!Goes
    <2> HIDE DEF e
    <2> QED BY <1>1, <1>5, <2>2, <2>3, TouchStep
<1>6. CASE BlobFiles!Read /\ ~(index[b] # BlobFiles!Absent /\ blobFile[b] # BlobFiles!Absent)
    <2>1. /\ index' = [index EXCEPT ![b] = BlobFiles!Absent]
          /\ metaFile' = (IF index[b] = BlobFiles!Absent THEN metaFile
                          ELSE [metaFile EXCEPT ![b] = BlobFiles!Absent])
          /\ blobOp' = BlobFiles!NoOp /\ UNCHANGED returned
        BY <1>6 DEF BlobFiles!Read, BlobFiles!Rejects
    <2>2. BlobType'
        BY <1>1, <1>2, <2>1 DEF BlobType, SidecarType
    <2>3. ASSUME blobFaults = 0 PROVE IdleAgrees'
        <3>1. OpAgrees /\ \A x \in Blobs : Agrees(x)
            BY <1>1, <2>3 DEF BlobInv, OpAgrees
        <3>2. index[b] = BlobFiles!Absent
            BY <1>2, <1>6, <3>1 DEF Agrees
        <3>3. index' = index /\ metaFile' = metaFile
            BY <1>1, <1>2, <2>1, <3>2 DEF BlobType, SidecarType
        <3>4. \A x \in Blobs : returned[x] # blobClock
            BY <1>1, <3>1 DEF OpAgrees, BlobType
        <3> QED BY <1>1, <1>2, <2>1, <3>1, <3>3, <3>4 DEF OpAgrees, Agrees, IdleAgrees,
                    BlobFiles!Indexed
    <2> QED BY <1>1, <2>1, <2>2, <2>3 DEF BlobInv
<1> QED BY <1>3, <1>4, <1>5, <1>6

LEMMA WriteBlobStep ==
    ASSUME BlobInv, BlobFiles!WriteBlob
    PROVE  BlobInv'
<1> DEFINE r == [blobOp EXCEPT !.pc = "describe"]
           b == blobOp.blob
           f == [at |-> blobClock, good |-> TRUE]
           e == [mime |-> "image", at |-> blobClock]
<1>1. /\ BlobType /\ blobOp # BlobFiles!NoOp /\ blobOp.pc = "write" /\ blobOp' = r
      /\ blobFile' = [blobFile EXCEPT ![b] = f] /\ index' = [index EXCEPT ![b] = e]
      /\ UNCHANGED <<metaFile, loaded, blobClock, blobFaults, begun, returned>>
    BY DEF BlobInv, BlobFiles!WriteBlob, BlobFiles!Goes
<1>2. /\ r \in BlobOps /\ r.pc = "describe" /\ r.blob = b /\ BlobFiles!NoOp \notin BlobOps
      /\ b \in Blobs
    BY <1>1, OpGoesOn DEF BlobOps
<1>3. /\ f \in BlobFiles!File /\ f # BlobFiles!Absent /\ f.good
      /\ e \in BlobFiles!Entry /\ e # BlobFiles!Absent
    <2>1. "image" \in BlobFiles!Mimes /\ blobClock > 0
        BY <1>1 DEF BlobType, BlobFiles!Mimes
    <2> QED BY <1>1, <2>1, EntriesFit
<1> HIDE DEF r, f, e
<1>4. BlobType'
    BY <1>1, <1>2, <1>3 DEF BlobType, BlobFileType, SidecarType
<1>5. ASSUME blobFaults = 0 PROVE OpAgrees'
    <2>1. OpAgrees /\ loaded /\ \A x \in Blobs : Agrees(x)
        BY <1>1, <1>5 DEF BlobInv, OpAgrees
    <2>2. /\ index'[b] = e /\ blobFile'[b] = f
          /\ \A x \in Blobs \ {b} : index'[x] = index[x] /\ blobFile'[x] = blobFile[x]
        BY <1>1, <1>2 DEF BlobType, SidecarType, BlobFileType
    <2>3. \A x \in Blobs \ {b} : Agrees(x)'
        BY <1>1, <2>1, <2>2 DEF Agrees
    <2> QED BY <1>1, <1>2, <1>3, <2>1, <2>2, <2>3 DEF OpAgrees
<1> QED BY <1>1, <1>2, <1>4, <1>5 DEF BlobInv

LEMMA WriteMetadataStep ==
    ASSUME BlobInv, BlobFiles!WriteMetadata
    PROVE  BlobInv'
<1> DEFINE b == blobOp.blob
<1>1. /\ BlobType /\ blobOp # BlobFiles!NoOp /\ blobOp.pc \in {"touch", "describe"}
      /\ metaFile' = [metaFile EXCEPT ![b] = index[b]]
      /\ UNCHANGED <<blobFile, index, loaded, blobClock, blobFaults, begun>>
    BY DEF BlobInv, BlobFiles!WriteMetadata
<1>2. blobOp \in BlobOps /\ b \in Blobs /\ BlobFiles!NoOp \notin BlobOps /\ blobClock \in 1..MaxBlobOps
    BY <1>1, OpGoesOn DEF BlobOps
<1>3. metaFile' \in SidecarType
    BY <1>1, <1>2 DEF BlobType, SidecarType
<1>4. blobFaults = 0 =>
        /\ OpAgrees /\ loaded /\ \A x \in Blobs : Agrees(x)'
        /\ index[b] # BlobFiles!Absent
    <2> SUFFICES ASSUME blobFaults = 0
                 PROVE  /\ OpAgrees /\ loaded /\ \A x \in Blobs : Agrees(x)'
                        /\ index[b] # BlobFiles!Absent
        OBVIOUS
    <2>1. OpAgrees /\ loaded /\ index[b] # BlobFiles!Absent
        BY <1>1 DEF BlobInv, OpAgrees
    <2>2. metaFile'[b] = index[b] /\ \A x \in Blobs \ {b} : metaFile'[x] = metaFile[x]
        BY <1>1, <1>2 DEF BlobType, SidecarType
    <2> QED BY <1>1, <2>1, <2>2 DEF OpAgrees, Agrees
<1>5. CASE blobOp.pc = "touch"
    <2>1. blobOp' = BlobFiles!NoOp /\ returned' = [returned EXCEPT ![b] = blobClock]
        BY <1>5 DEF BlobFiles!WriteMetadata, BlobFiles!Returns
    <2>2. BlobType'
        BY <1>1, <1>2, <1>3, <2>1 DEF BlobType
    <2>3. ASSUME blobFaults = 0 PROVE IdleAgrees'
        <3>1. ~BlobFiles!IsOverCap(BlobFiles!Indexed)' /\ blobClock' > 0
            BY <1>1, <1>2, <1>4, <1>5, <2>3 DEF OpAgrees, BlobFiles!Indexed, BlobFiles!Held
        <3>2. \A x \in Blobs \ {b} : returned'[x] # blobClock
            BY <1>1, <1>2, <1>4, <2>1, <2>3 DEF OpAgrees, BlobType
        <3> QED BY <1>1, <1>4, <2>3, <3>1, <3>2 DEF IdleAgrees
    <2> QED BY <1>1, <2>1, <2>2, <2>3 DEF BlobInv
<1>6. CASE blobOp.pc = "describe"
    <2> DEFINE r == [blobOp EXCEPT !.pc = "evict", !.protected = blobOp.blob]
    <2>1. blobOp' = r /\ UNCHANGED returned
        BY <1>6 DEF BlobFiles!WriteMetadata
    <2>2. r \in BlobOps /\ r.pc = "evict" /\ r.blob = b /\ r.protected = b
        BY <1>2 DEF BlobOps
    <2> HIDE DEF r
    <2>3. BlobType'
        BY <1>1, <1>2, <1>3, <2>1, <2>2 DEF BlobType
    <2>4. blobFaults = 0 => OpAgrees'
        BY <1>1, <1>4, <2>1, <2>2 DEF OpAgrees
    <2> QED BY <1>1, <1>2, <2>1, <2>2, <2>3, <2>4 DEF BlobInv
<1> QED BY <1>1, <1>5, <1>6

LEMMA EvictBlobStep ==
    ASSUME BlobInv, NEW b \in Blobs, BlobFiles!EvictBlob(b)
    PROVE  BlobInv'
<1> DEFINE r == [blobOp EXCEPT !.pc = "unlink", !.victim = b]
<1>1. /\ BlobType /\ blobOp # BlobFiles!NoOp /\ blobOp.pc = "evict" /\ blobOp' = r
      /\ b # blobOp.protected
      /\ blobFile' = [blobFile EXCEPT ![b] = BlobFiles!Absent]
      /\ UNCHANGED <<metaFile, index, loaded, blobClock, blobFaults, begun, returned>>
    BY DEF BlobInv, BlobFiles!EvictBlob
<1>2. blobOp \in BlobOps /\ BlobFiles!NoOp \notin BlobOps
    BY <1>1, OpGoesOn
<1>3. /\ r \in BlobOps /\ r.pc = "unlink" /\ r.victim = b /\ r.blob = blobOp.blob
      /\ r.protected = blobOp.protected
    BY <1>2 DEF BlobOps
<1> HIDE DEF r
<1>4. BlobType'
    BY <1>1, <1>3 DEF BlobType, BlobFileType
<1>5. ASSUME blobFaults = 0 PROVE OpAgrees'
    <2>1. OpAgrees /\ \A x \in Blobs : Agrees(x)
        BY <1>1, <1>5 DEF BlobInv, OpAgrees
    <2>2. /\ blobFile'[b] = BlobFiles!Absent
          /\ \A x \in Blobs \ {b} : blobFile'[x] = blobFile[x]
        BY <1>1 DEF BlobType, BlobFileType
    <2> QED BY <1>1, <1>3, <2>1, <2>2 DEF OpAgrees, Agrees
<1> QED BY <1>1, <1>2, <1>3, <1>4, <1>5 DEF BlobInv

LEMMA EvictMetadataStep ==
    ASSUME BlobInv, BlobFiles!EvictMetadata
    PROVE  BlobInv'
<1> DEFINE r == [blobOp EXCEPT !.pc = "evict"]
           b == blobOp.victim
<1>1. /\ BlobType /\ blobOp # BlobFiles!NoOp /\ blobOp.pc = "unlink" /\ blobOp' = r
      /\ metaFile' = [metaFile EXCEPT ![b] = BlobFiles!Absent]
      /\ index' = [index EXCEPT ![b] = BlobFiles!Absent]
      /\ UNCHANGED <<blobFile, loaded, blobClock, blobFaults, begun, returned>>
    BY DEF BlobInv, BlobFiles!EvictMetadata, BlobFiles!Goes
<1>2. /\ r \in BlobOps /\ r.pc = "evict" /\ r.blob = blobOp.blob /\ r.protected = blobOp.protected
      /\ BlobFiles!NoOp \notin BlobOps /\ b \in Blobs /\ r.blob \in Blobs
    BY <1>1, OpGoesOn DEF BlobOps
<1> HIDE DEF r
<1>3. BlobType'
    BY <1>1, <1>2 DEF BlobType, SidecarType
<1>4. ASSUME blobFaults = 0 PROVE OpAgrees'
    <2>1. OpAgrees /\ blobFile[b] = BlobFiles!Absent /\ \A x \in Blobs \ {b} : Agrees(x)
        BY <1>1, <1>4 DEF BlobInv, OpAgrees
    <2>2. /\ index'[b] = BlobFiles!Absent /\ metaFile'[b] = BlobFiles!Absent
          /\ \A x \in Blobs \ {b} : index'[x] = index[x] /\ metaFile'[x] = metaFile[x]
        BY <1>1, <1>2 DEF BlobType, SidecarType
    <2>3. \A x \in Blobs : Agrees(x)'
        BY <1>1, <2>1, <2>2 DEF Agrees
    <2> QED BY <1>1, <1>2, <2>1, <2>2, <2>3 DEF OpAgrees
<1> QED BY <1>1, <1>2, <1>3, <1>4 DEF BlobInv

LEMMA EvictedStep ==
    ASSUME BlobInv, BlobFiles!Evicted
    PROVE  BlobInv'
<1> DEFINE b == blobOp.blob
<1>1. /\ BlobType /\ blobOp # BlobFiles!NoOp /\ blobOp.pc = "evict" /\ loaded' = TRUE
      /\ ~BlobFiles!IsOverCap(BlobFiles!Indexed)
      /\ UNCHANGED <<blobFile, metaFile, index, blobClock, blobFaults, begun>>
    BY DEF BlobInv, BlobFiles!Evicted
<1>2. blobOp \in BlobOps /\ b \in Blobs /\ BlobFiles!NoOp \notin BlobOps /\ blobClock \in 1..MaxBlobOps
    BY <1>1, OpGoesOn DEF BlobOps
<1>3. ~BlobFiles!IsOverCap(BlobFiles!Indexed)'
    BY <1>1 DEF BlobFiles!Indexed, BlobFiles!Held
<1>4. blobFaults = 0 => OpAgrees /\ \A x \in Blobs : Agrees(x) /\ Agrees(x)'
    BY <1>1 DEF BlobInv, OpAgrees, Agrees
<1>5. CASE loaded
    <2>1. blobOp' = BlobFiles!NoOp /\ returned' = [returned EXCEPT ![b] = blobClock]
        BY <1>5 DEF BlobFiles!Evicted, BlobFiles!Returns
    <2>2. BlobType'
        BY <1>1, <1>2, <2>1 DEF BlobType
    <2>3. ASSUME blobFaults = 0 PROVE IdleAgrees'
        <3>1. \A x \in Blobs \ {b} : returned'[x] # blobClock
            BY <1>1, <1>2, <1>4, <2>1, <2>3 DEF OpAgrees, BlobType
        <3>2. index[b] # BlobFiles!Absent
            BY <1>1, <1>4, <1>5, <2>3 DEF OpAgrees
        <3> QED BY <1>1, <1>2, <1>3, <1>4, <2>3, <3>1, <3>2 DEF IdleAgrees
    <2> QED BY <1>1, <2>1, <2>2, <2>3 DEF BlobInv
<1>6. CASE ~loaded
    <2> DEFINE r == [blobOp EXCEPT !.pc = "look"]
    <2>1. blobOp' = r /\ UNCHANGED returned
        BY <1>6 DEF BlobFiles!Evicted, BlobFiles!Goes
    <2>2. r \in BlobOps /\ r.pc = "look" /\ r.blob = b
        BY <1>1, OpGoesOn
    <2> HIDE DEF r
    <2>3. BlobType'
        BY <1>1, <1>2, <2>1, <2>2 DEF BlobType
    <2>4. blobFaults = 0 => OpAgrees'
        BY <1>1, <1>3, <1>4, <2>1, <2>2 DEF OpAgrees
    <2> QED BY <1>1, <1>2, <2>1, <2>2, <2>3, <2>4 DEF BlobInv
<1> QED BY <1>1, <1>5, <1>6 DEF BlobType

LEMMA BlobFaultSteps ==
    ASSUME BlobFiles!BlobConstants, BlobInv,
           BlobFiles!DiskError \/ BlobFiles!Crash \/ \E b \in Blobs : BlobFiles!Touched(b)
    PROVE  BlobInv'
<1>1. BlobType /\ blobFaults < MaxBlobFaults /\ blobFaults' = blobFaults + 1
    BY DEF BlobInv, BlobFiles!DiskError, BlobFiles!Crash, BlobFiles!Touched, BlobFiles!Fault
<1>2. blobFaults' \in 0..MaxBlobFaults /\ blobFaults' # 0
    BY <1>1 DEF BlobType, BlobFiles!BlobConstants
<1>3. CASE BlobFiles!DiskError
    BY <1>1, <1>2, <1>3 DEF BlobInv, BlobType, BlobFiles!DiskError, BlobFiles!Rejects
<1>4. CASE BlobFiles!Crash
    BY <1>1, <1>2, <1>4 DEF BlobInv, BlobType, BlobFiles!Crash, BlobFiles!Rejects, SidecarType
<1>5. ASSUME NEW b \in Blobs, BlobFiles!Touched(b) PROVE BlobInv'
    <2>1. /\ UNCHANGED <<index, loaded, blobOp, blobClock, begun, returned>>
          /\ blobFile[b] # BlobFiles!Absent
          /\ \/ blobFile' = [blobFile EXCEPT ![b] = BlobFiles!Absent] /\ UNCHANGED metaFile
             \/ blobFile' = [blobFile EXCEPT ![b].good = FALSE] /\ UNCHANGED metaFile
             \/ metaFile' = [metaFile EXCEPT ![b] = BlobFiles!Absent] /\ UNCHANGED blobFile
        BY <1>5 DEF BlobFiles!Touched
    <2>2. [blobFile[b] EXCEPT !.good = FALSE] \in BlobFiles!File
        BY <1>1, <2>1 DEF BlobType, BlobFileType, BlobFiles!File
    <2>3. blobFile' \in BlobFileType /\ metaFile' \in SidecarType
        BY <1>1, <2>1, <2>2 DEF BlobType, BlobFileType, SidecarType
    <2> QED BY <1>1, <1>2, <2>1, <2>3 DEF BlobInv, BlobType
<1> QED BY <1>3, <1>4, <1>5

LEMMA BlobsBegin ==
    ASSUME BlobFiles!BlobConstants, BlobFiles!Init
    PROVE  BlobInv
<1>1. BlobType
    <2>1. 0 \in 0..MaxBlobOps /\ 0 \in 0..MaxBlobFaults
        BY DEF BlobFiles!BlobConstants
    <2>2. /\ blobFile \in BlobFileType /\ metaFile \in SidecarType /\ index \in SidecarType
        BY DEF BlobFiles!Init, BlobFileType, SidecarType
    <2>3. begun \in [Blobs -> 0..blobClock] /\ returned \in [Blobs -> 0..blobClock]
        BY DEF BlobFiles!Init
    <2> QED BY <2>1, <2>2, <2>3 DEF BlobFiles!Init, BlobType
<1>2. IdleAgrees
    BY DEF BlobFiles!Init, IdleAgrees, Agrees
<1> QED BY <1>1, <1>2 DEF BlobInv, BlobFiles!Init

LEMMA BlobsStay ==
    ASSUME BlobFiles!BlobConstants, BlobInv, [BlobFiles!Next]_(BlobFiles!blobVars)
    PROVE  BlobInv'
<1>1. ASSUME NEW b \in Blobs, NEW task \in {"put", "get"}, BlobFiles!Call(task, b) PROVE BlobInv'
    BY <1>1, CallStep
<1>2. CASE BlobFiles!BlobStep
    BY <1>2, LoadStep, LookSteps, WriteBlobStep, WriteMetadataStep, EvictBlobStep,
       EvictMetadataStep, EvictedStep DEF BlobFiles!BlobStep
<1>3. CASE BlobFiles!DiskError \/ BlobFiles!Crash \/ \E b \in Blobs : BlobFiles!Touched(b)
    BY <1>3, BlobFaultSteps
<1>4. CASE UNCHANGED BlobFiles!blobVars
    BY <1>4 DEF BlobFiles!blobVars, BlobInv, BlobType, IdleAgrees, OpAgrees, Agrees,
                BlobFiles!Indexed, BlobFiles!Held
<1> QED BY <1>1, <1>2, <1>3, <1>4 DEF BlobFiles!Next

\* Between operations of a store that met no fault the index is what is on the
\* disk and under the caps, and what was used last is there, for any blobs, sizes,
\* caps and operations (a conjunct of the runs' NothingIsLost).
THEOREM IndexStaysDisk ==
    ASSUME BlobFiles!BlobConstants
    PROVE  BlobFiles!Spec => []BlobFiles!IndexIsDisk
<1>1. BlobInv => BlobFiles!IndexIsDisk
    <2> SUFFICES ASSUME BlobInv, blobOp = BlobFiles!NoOp, loaded, blobFaults = 0
                 PROVE  /\ \A b \in Blobs : (index[b] = BlobFiles!Absent) = (blobFile[b] = BlobFiles!Absent)
                        /\ metaFile = index
                        /\ ~BlobFiles!IsOverCap(BlobFiles!Indexed)
                        /\ \A b \in Blobs : begun[b] = blobClock /\ returned[b] = blobClock
                             => b \in BlobFiles!Indexed
        BY DEF BlobFiles!IndexIsDisk
    <2>1. BlobType /\ IdleAgrees
        BY DEF BlobInv
    <2>2. metaFile = index
        BY <2>1 DEF BlobType, SidecarType, IdleAgrees, Agrees
    <2> QED BY <2>1, <2>2 DEF IdleAgrees, Agrees, BlobFiles!Indexed, BlobFiles!Held
<1> QED BY <1>1, BlobsBegin, BlobsStay, PTL DEF BlobFiles!Spec

-----------------------------------------------------------------------------
(* What attachments are dated by, and what the cap counts. *)

Busy(steps) == blobOp # BlobFiles!NoOp /\ blobOp.pc \in steps

\* The entry of the blob of an operation that has written it.
Renewed == index[blobOp.blob] # BlobFiles!Absent /\ index[blobOp.blob].at = blobClock

\* An operation and what it works on.
OpsFit ==
    /\ blobOp # BlobFiles!NoOp => begun[blobOp.blob] = blobClock
    /\ Busy({"load"}) => ~loaded
    /\ Busy({"look", "write", "touch", "describe"}) => loaded
    /\ Busy({"touch", "describe"}) => Renewed
    /\ Busy({"evict", "unlink"}) /\ loaded => Renewed /\ blobOp.protected = blobOp.blob
    /\ Busy({"unlink"}) => blobFile[blobOp.victim] = BlobFiles!Absent
    /\ Busy({"unlink"}) /\ loaded => blobOp.victim # blobOp.blob
    /\ Busy({"write"}) => index[blobOp.blob] = BlobFiles!Absent

\* Nothing is dated later than it was used, and what returned had begun.
DatesFit ==
    \A x \in Blobs :
        /\ index[x] # BlobFiles!Absent => index[x].at <= begun[x]
        /\ metaFile[x] # BlobFiles!Absent => metaFile[x].at <= begun[x]
        /\ blobFile[x] # BlobFiles!Absent => blobFile[x].at <= begun[x]
        /\ returned[x] <= begun[x]

\* The index forgets no use that returned.
IndexRemembers ==
    blobFaults <= 1 =>
        \A x \in Blobs : index[x] # BlobFiles!Absent => returned[x] <= index[x].at

\* Nor does the disk, from which an index is read after a crash.
DiskRemembers ==
    /\ blobFaults = 0 \/ (blobFaults = 1 /\ ~loaded) =>
         \A x \in Blobs : blobFile[x] # BlobFiles!Absent =>
             returned[x] <= (IF metaFile[x] # BlobFiles!Absent THEN metaFile[x].at ELSE blobFile[x].at)
    /\ blobFaults = 0 =>
         /\ \A x \in Blobs : metaFile[x] # BlobFiles!Absent => returned[x] <= metaFile[x].at
         /\ Busy({"evict", "unlink"}) /\ loaded =>
              metaFile[blobOp.blob] # BlobFiles!Absent /\ metaFile[blobOp.blob].at = blobClock
         /\ ~loaded => \A x \in Blobs : /\ blobFile[x] = BlobFiles!Absent
                                        /\ metaFile[x] = BlobFiles!Absent
                                        /\ index[x] = BlobFiles!Absent

\* The files that count for the cap are in the index of a store that is loaded,
\* or was read from them.
Counts(x) == blobFile[x] # BlobFiles!Absent /\ (blobFaults <= 1 \/ blobFile[x].good)
CapCounts ==
    /\ loaded \/ Busy({"evict", "unlink"}) =>
         \A x \in Blobs : Counts(x) =>
             index[x] # BlobFiles!Absent \/ (Busy({"write"}) /\ x = blobOp.blob)
    /\ Busy({"write"}) /\ blobFile[blobOp.blob] # BlobFiles!Absent => ~blobFile[blobOp.blob].good

AgesInv == OpsFit /\ DatesFit /\ IndexRemembers /\ DiskRemembers /\ CapCounts

LEMMA AgesAreNumbers ==
    ASSUME BlobFiles!BlobConstants, BlobType
    PROVE  /\ blobClock \in Nat /\ blobFaults \in Nat
           /\ \A x \in Blobs : /\ begun[x] \in Nat /\ returned[x] \in Nat
                               /\ begun[x] <= blobClock /\ returned[x] <= blobClock
                               /\ index[x] # BlobFiles!Absent => index[x].at \in Nat
                               /\ metaFile[x] # BlobFiles!Absent => metaFile[x].at \in Nat
                               /\ blobFile[x] # BlobFiles!Absent => blobFile[x].at \in Nat
           /\ blobOp # BlobFiles!NoOp => blobOp.blob \in Blobs /\ blobOp.victim \in Blobs
<1>1. /\ blobClock \in Nat /\ blobFaults \in Nat
      /\ \A x \in Blobs : /\ begun[x] \in 0..blobClock /\ returned[x] \in 0..blobClock
    BY DEF BlobType, BlobFiles!BlobConstants
<1>2. \A x \in Blobs : /\ index[x] # BlobFiles!Absent => index[x].at \in Nat
                       /\ metaFile[x] # BlobFiles!Absent => metaFile[x].at \in Nat
    BY DEF BlobType, SidecarType, BlobFiles!Entry
<1>3. \A x \in Blobs : blobFile[x] # BlobFiles!Absent => blobFile[x].at \in Nat
    BY DEF BlobType, BlobFileType, BlobFiles!File
<1>4. blobOp # BlobFiles!NoOp => blobOp.blob \in Blobs /\ blobOp.victim \in Blobs
    BY DEF BlobType, BlobOps
<1> QED BY <1>1, <1>2, <1>3, <1>4

\* Where an operation goes on.
LEMMA OpAdvances ==
    ASSUME BlobType, blobOp # BlobFiles!NoOp,
           NEW pc \in {"load", "look", "write", "touch", "describe", "evict", "unlink"},
           BlobFiles!Goes(pc)
    PROVE  /\ blobOp' # BlobFiles!NoOp /\ blobOp'.pc = pc /\ blobOp'.op = blobOp.op
           /\ blobOp'.blob = blobOp.blob /\ blobOp'.protected = blobOp.protected
           /\ blobOp'.victim = blobOp.victim
<1>1. blobOp' = [blobOp EXCEPT !.pc = pc]
    BY DEF BlobFiles!Goes
<1> QED BY <1>1, OpGoesOn

LEMMA AgesCall ==
    ASSUME BlobFiles!BlobConstants, BlobInv, AgesInv, NEW task \in {"put", "get"}, NEW b \in Blobs,
           BlobFiles!Call(task, b)
    PROVE  AgesInv'
<1>1. BlobType
    BY DEF BlobInv
<1>2. /\ blobOp = BlobFiles!NoOp /\ blobOp' # BlobFiles!NoOp /\ blobOp'.blob = b
      /\ blobOp'.pc = (IF loaded THEN "look" ELSE "load")
      /\ blobClock' = blobClock + 1
      /\ UNCHANGED <<blobFile, metaFile, index, loaded, blobFaults, returned>>
    BY DEF BlobFiles!Call, BlobFiles!NoOp
<1>3. /\ begun'[b] = blobClock + 1 /\ \A x \in Blobs \ {b} : begun'[x] = begun[x]
      /\ \A x \in Blobs : begun[x] <= begun'[x]
    BY <1>1, AgesAreNumbers DEF BlobFiles!Call, BlobType
<1>4. OpsFit'
    BY <1>2, <1>3 DEF OpsFit, Busy
<1>5. DatesFit'
    <2>1. \A x \in Blobs : begun'[x] \in Nat
        BY <1>1, <1>3, AgesAreNumbers
    <2> QED BY <1>1, <1>2, <1>3, <2>1, AgesAreNumbers DEF AgesInv, DatesFit
<1>6. IndexRemembers' /\ DiskRemembers'
    BY <1>2 DEF AgesInv, IndexRemembers, DiskRemembers, Busy
<1>7. CapCounts'
    BY <1>2 DEF AgesInv, CapCounts, Counts, Busy
<1> QED BY <1>4, <1>5, <1>6, <1>7 DEF AgesInv

LEMMA AgesLoad ==
    ASSUME BlobFiles!BlobConstants, BlobInv, AgesInv, BlobFiles!Load
    PROVE  AgesInv'
<1>1. BlobType
    BY DEF BlobInv
<1>2. /\ blobOp # BlobFiles!NoOp /\ blobOp.pc = "load" /\ BlobFiles!Goes("evict")
      /\ UNCHANGED <<blobFile, metaFile, loaded, blobClock, blobFaults, begun, returned>>
    BY DEF BlobFiles!Load
<1>3. /\ blobOp' # BlobFiles!NoOp /\ blobOp'.pc = "evict" /\ blobOp'.blob = blobOp.blob /\ ~loaded
    BY <1>1, <1>2, OpAdvances DEF AgesInv, OpsFit, Busy
<1>4. ASSUME NEW x \in Blobs
      PROVE  /\ blobFile[x] = BlobFiles!Absent => index'[x] = index[x]
             /\ blobFile[x] # BlobFiles!Absent /\ metaFile[x] # BlobFiles!Absent
                  => index'[x] = metaFile[x]
             /\ blobFile[x] # BlobFiles!Absent /\ metaFile[x] = BlobFiles!Absent
                  => index'[x] # BlobFiles!Absent /\ index'[x].at = blobFile[x].at
    BY DEF BlobFiles!Load, BlobFiles!Absent
<1>5. OpsFit'
    BY <1>2, <1>3 DEF AgesInv, OpsFit, Busy
<1>6. DatesFit'
    BY <1>2, <1>4 DEF AgesInv, DatesFit
<1>7. IndexRemembers'
    <2>1. blobFaults <= 1 => blobFaults = 0 \/ (blobFaults = 1 /\ ~loaded)
        BY <1>1, <1>3, AgesAreNumbers
    <2> QED BY <1>2, <1>4, <2>1 DEF AgesInv, IndexRemembers, DiskRemembers
<1>8. DiskRemembers'
    BY <1>2, <1>3, <1>4 DEF AgesInv, DiskRemembers, Busy
<1>9. CapCounts'
    BY <1>2, <1>3, <1>4 DEF CapCounts, Counts, Busy
<1> QED BY <1>5, <1>6, <1>7, <1>8, <1>9 DEF AgesInv

\* The entry of the blob is renewed.
LEMMA AgesTouch ==
    ASSUME BlobFiles!BlobConstants, BlobInv, AgesInv, blobOp # BlobFiles!NoOp, blobOp.pc = "look",
           BlobFiles!Goes("touch"), NEW e, e # BlobFiles!Absent, e.at = blobClock,
           index' = [index EXCEPT ![blobOp.blob] = e],
           UNCHANGED <<blobFile, metaFile, loaded, blobClock, blobFaults, begun, returned>>
    PROVE  AgesInv'
<1>1. BlobType
    BY DEF BlobInv
<1>2. blobOp' # BlobFiles!NoOp /\ blobOp'.pc = "touch" /\ blobOp'.blob = blobOp.blob
      /\ blobOp.blob \in Blobs /\ loaded
    BY <1>1, OpAdvances, AgesAreNumbers DEF AgesInv, OpsFit, Busy
<1>3. index'[blobOp.blob] = e /\ \A x \in Blobs \ {blobOp.blob} : index'[x] = index[x]
    BY <1>1, <1>2 DEF BlobType, SidecarType
<1>4. OpsFit'
    BY <1>2, <1>3 DEF AgesInv, OpsFit, Busy, Renewed
<1>5. DatesFit'
    <2>1. e.at <= begun[blobOp.blob]
        BY <1>1, <1>2, AgesAreNumbers DEF AgesInv, OpsFit
    <2> QED BY <1>2, <1>3, <2>1 DEF AgesInv, DatesFit
<1>6. IndexRemembers'
    <2>1. returned[blobOp.blob] <= e.at
        BY <1>1, <1>2, AgesAreNumbers
    <2> QED BY <1>2, <1>3, <2>1 DEF AgesInv, IndexRemembers
<1>7. DiskRemembers'
    BY <1>2 DEF AgesInv, DiskRemembers, Busy
<1>8. CapCounts'
    BY <1>2, <1>3 DEF AgesInv, CapCounts, Counts, Busy
<1> QED BY <1>4, <1>5, <1>6, <1>7, <1>8 DEF AgesInv

LEMMA AgesLook ==
    ASSUME BlobFiles!BlobConstants, BlobInv, AgesInv,
           BlobFiles!PutKnown \/ BlobFiles!PutNew \/ BlobFiles!Read
    PROVE  AgesInv'
<1>1. /\ BlobType /\ blobOp # BlobFiles!NoOp /\ blobOp.pc = "look"
      /\ UNCHANGED <<blobFile, loaded, blobClock, blobFaults, begun>>
    BY DEF BlobInv, BlobFiles!PutKnown, BlobFiles!PutNew, BlobFiles!Read
<1> DEFINE b == blobOp.blob
<1>2. b \in Blobs /\ loaded /\ blobClock \in Nat
    BY <1>1, AgesAreNumbers DEF AgesInv, OpsFit, Busy
<1>3. CASE BlobFiles!PutKnown
    <2>1. PICK m \in BlobFiles!Mimes : index' = [index EXCEPT ![b] =
             [mime |-> IF @.mime = "octet-stream" THEN m ELSE @.mime, at |-> blobClock]]
        BY <1>3 DEF BlobFiles!PutKnown
    <2> DEFINE e == [mime |-> IF index[b].mime = "octet-stream" THEN m ELSE index[b].mime, at |-> blobClock]
    <2>2. index' = [index EXCEPT ![b] = e] /\ e.at = blobClock /\ e # BlobFiles!Absent
        BY <2>1 DEF BlobFiles!Absent
    <2>3. BlobFiles!Goes("touch") /\ UNCHANGED <<metaFile, returned>>
        BY <1>3 DEF BlobFiles!PutKnown
    <2> HIDE DEF e
    <2> QED BY <1>1, <2>2, <2>3, AgesTouch
<1>4. CASE BlobFiles!Read /\ index[b] # BlobFiles!Absent /\ blobFile[b] # BlobFiles!Absent
    <2> DEFINE e == [index[b] EXCEPT !.at = blobClock]
    <2>1. /\ index' = [index EXCEPT ![b] = e] /\ BlobFiles!Goes("touch")
          /\ UNCHANGED <<metaFile, returned>>
        BY <1>1, <1>2, <1>4 DEF BlobFiles!Read, BlobType, SidecarType
    <2>2. e.at = blobClock /\ e # BlobFiles!Absent
        BY <1>1, <1>2, <1>4 DEF BlobType, SidecarType, BlobFiles!Entry, BlobFiles!Absent
    <2> HIDE DEF e
    <2> QED BY <1>1, <2>1, <2>2, AgesTouch
<1>5. CASE BlobFiles!Read /\ ~(index[b] # BlobFiles!Absent /\ blobFile[b] # BlobFiles!Absent)
    <2>1. /\ index' = [index EXCEPT ![b] = BlobFiles!Absent] /\ blobOp' = BlobFiles!NoOp
          /\ metaFile' = IF index[b] = BlobFiles!Absent THEN metaFile
                         ELSE [metaFile EXCEPT ![b] = BlobFiles!Absent]
          /\ UNCHANGED returned
        BY <1>5 DEF BlobFiles!Read, BlobFiles!Rejects
    <2>2. /\ index'[b] = BlobFiles!Absent /\ \A x \in Blobs \ {b} : index'[x] = index[x]
          /\ \A x \in Blobs : metaFile'[x] = metaFile[x]
                              \/ (x = b /\ metaFile'[x] = BlobFiles!Absent /\ blobFile[b] = BlobFiles!Absent)
        BY <1>1, <1>2, <1>5, <2>1 DEF BlobType, SidecarType
    <2> HIDE DEF b
    <2>3. OpsFit'
        BY <2>1 DEF OpsFit, Busy
    <2>4. DatesFit' /\ IndexRemembers'
        BY <1>1, <2>1, <2>2 DEF AgesInv, DatesFit, IndexRemembers
    <2>5. DiskRemembers'
        BY <1>1, <1>2, <2>1, <2>2 DEF AgesInv, DiskRemembers, Busy
    <2>6. CapCounts'
        BY <1>1, <1>2, <1>5, <2>1, <2>2 DEF AgesInv, CapCounts, Counts, Busy
    <2> QED BY <2>3, <2>4, <2>5, <2>6 DEF AgesInv
<1>6. CASE BlobFiles!PutNew
    <2>1. /\ index' = [index EXCEPT ![b] = BlobFiles!Absent] /\ BlobFiles!Goes("write")
          /\ UNCHANGED <<metaFile, returned>>
          /\ \/ index[b] = BlobFiles!Absent
             \/ blobFile[b] = BlobFiles!Absent
             \/ blobFile[b] # BlobFiles!Absent /\ ~blobFile[b].good
        BY <1>6 DEF BlobFiles!PutNew
    <2>2. /\ blobOp' # BlobFiles!NoOp /\ blobOp'.pc = "write" /\ blobOp'.blob = b
          /\ index'[b] = BlobFiles!Absent /\ \A x \in Blobs \ {b} : index'[x] = index[x]
        BY <1>1, <1>2, <2>1, OpAdvances DEF BlobType, SidecarType
    <2>3. OpsFit'
        BY <1>1, <1>2, <2>2 DEF AgesInv, OpsFit, Busy
    <2>4. DatesFit' /\ IndexRemembers'
        BY <1>1, <2>1, <2>2 DEF AgesInv, DatesFit, IndexRemembers
    <2>5. DiskRemembers'
        BY <1>1, <1>2, <2>1, <2>2 DEF AgesInv, DiskRemembers, Busy
    <2>6. blobFile[b] # BlobFiles!Absent => ~blobFile[b].good
        <3>1. blobFaults <= 1 /\ index[b] = BlobFiles!Absent => blobFile[b] = BlobFiles!Absent
            BY <1>1, <1>2 DEF AgesInv, CapCounts, Counts, Busy
        <3>2. index[b] = BlobFiles!Absent => blobFile[b] = BlobFiles!Absent \/ ~blobFile[b].good
            BY <1>1, <1>2 DEF AgesInv, CapCounts, Counts, Busy
        <3> QED BY <2>1, <3>2
    <2>7. CapCounts'
        BY <1>1, <1>2, <2>2, <2>6 DEF AgesInv, CapCounts, Counts, Busy
    <2> QED BY <2>3, <2>4, <2>5, <2>7 DEF AgesInv
<1> QED BY <1>3, <1>4, <1>5, <1>6

LEMMA AgesWriteBlob ==
    ASSUME BlobFiles!BlobConstants, BlobInv, AgesInv, BlobFiles!WriteBlob
    PROVE  AgesInv'
<1> DEFINE b == blobOp.blob
<1>1. /\ BlobType /\ blobOp # BlobFiles!NoOp /\ blobOp.pc = "write" /\ BlobFiles!Goes("describe")
      /\ blobFile' = [blobFile EXCEPT ![b] = [at |-> blobClock, good |-> TRUE]]
      /\ index' = [index EXCEPT ![b] = [mime |-> "image", at |-> blobClock]]
      /\ UNCHANGED <<metaFile, loaded, blobClock, blobFaults, begun, returned>>
    BY DEF BlobInv, BlobFiles!WriteBlob
<1>2. /\ b \in Blobs /\ loaded /\ blobClock \in Nat /\ begun[b] = blobClock
      /\ returned[b] \in Nat /\ returned[b] <= blobClock
    BY <1>1, AgesAreNumbers DEF AgesInv, OpsFit, Busy
<1>3. /\ blobOp' # BlobFiles!NoOp /\ blobOp'.pc = "describe" /\ blobOp'.blob = b
      /\ index'[b] # BlobFiles!Absent /\ index'[b].at = blobClock
      /\ blobFile'[b] # BlobFiles!Absent /\ blobFile'[b].at = blobClock
      /\ \A x \in Blobs \ {b} : index'[x] = index[x] /\ blobFile'[x] = blobFile[x]
    BY <1>1, <1>2, OpAdvances DEF BlobType, SidecarType, BlobFileType, BlobFiles!Absent
<1> HIDE DEF b
<1>4. OpsFit'
    BY <1>1, <1>2, <1>3 DEF OpsFit, Busy, Renewed
<1>5. DatesFit' /\ IndexRemembers'
    BY <1>1, <1>2, <1>3 DEF AgesInv, DatesFit, IndexRemembers
<1>6. DiskRemembers'
    BY <1>1, <1>2, <1>3 DEF AgesInv, DiskRemembers, Busy
<1>7. CapCounts'
    BY <1>1, <1>2, <1>3 DEF AgesInv, CapCounts, Counts, Busy, b
<1> QED BY <1>4, <1>5, <1>6, <1>7 DEF AgesInv

LEMMA AgesWriteMetadata ==
    ASSUME BlobFiles!BlobConstants, BlobInv, AgesInv, BlobFiles!WriteMetadata
    PROVE  AgesInv'
<1> DEFINE b == blobOp.blob
<1>1. /\ BlobType /\ blobOp # BlobFiles!NoOp /\ blobOp.pc \in {"touch", "describe"}
      /\ metaFile' = [metaFile EXCEPT ![b] = index[b]]
      /\ UNCHANGED <<blobFile, index, loaded, blobClock, blobFaults, begun>>
    BY DEF BlobInv, BlobFiles!WriteMetadata
<1>2. /\ b \in Blobs /\ loaded /\ blobClock \in Nat /\ begun[b] = blobClock
      /\ returned[b] \in Nat /\ returned[b] <= blobClock
      /\ index[b] # BlobFiles!Absent /\ index[b].at = blobClock
    BY <1>1, AgesAreNumbers DEF AgesInv, OpsFit, Busy, Renewed
<1>3. metaFile'[b] = index[b] /\ \A x \in Blobs \ {b} : metaFile'[x] = metaFile[x]
    BY <1>1, <1>2 DEF BlobType, SidecarType
<1>4. CASE blobOp.pc = "touch"
    <2>1. blobOp' = BlobFiles!NoOp /\ returned' = [returned EXCEPT ![b] = blobClock]
        BY <1>4 DEF BlobFiles!WriteMetadata, BlobFiles!Returns
    <2>2. returned'[b] = blobClock /\ \A x \in Blobs \ {b} : returned'[x] = returned[x]
        BY <1>1, <1>2, <2>1 DEF BlobType
    <2> HIDE DEF b
    <2>3. OpsFit'
        BY <2>1 DEF OpsFit, Busy
    <2>4. DatesFit' /\ IndexRemembers'
        BY <1>1, <1>2, <1>3, <2>2 DEF AgesInv, DatesFit, IndexRemembers
    <2>5. DiskRemembers'
        BY <1>1, <1>2, <1>3, <2>1, <2>2 DEF AgesInv, DiskRemembers, Busy
    <2>6. CapCounts'
        BY <1>1, <1>2, <1>4, <2>1 DEF AgesInv, CapCounts, Counts, Busy
    <2> QED BY <2>3, <2>4, <2>5, <2>6 DEF AgesInv
<1>5. CASE blobOp.pc = "describe"
    <2>1. /\ blobOp' = [blobOp EXCEPT !.pc = "evict", !.protected = b]
          /\ returned' = returned
        BY <1>5 DEF BlobFiles!WriteMetadata
    <2>2. /\ blobOp' # BlobFiles!NoOp /\ blobOp'.pc = "evict" /\ blobOp'.blob = b
          /\ blobOp'.protected = b
        BY <1>1, <2>1 DEF BlobType, BlobOps, BlobFiles!NoOp
    <2> HIDE DEF b
    <2>3. OpsFit'
        BY <1>1, <1>2, <2>2 DEF OpsFit, Busy, Renewed
    <2>4. DatesFit' /\ IndexRemembers'
        BY <1>1, <1>2, <1>3, <2>1 DEF AgesInv, DatesFit, IndexRemembers
    <2>5. DiskRemembers'
        BY <1>1, <1>2, <1>3, <2>1, <2>2 DEF AgesInv, DiskRemembers, Busy
    <2>6. CapCounts'
        BY <1>1, <1>2, <1>5, <2>2 DEF AgesInv, CapCounts, Counts, Busy
    <2> QED BY <2>3, <2>4, <2>5, <2>6 DEF AgesInv
<1> QED BY <1>1, <1>4, <1>5

LEMMA AgesEvict ==
    ASSUME BlobFiles!BlobConstants, BlobInv, AgesInv, NEW v \in Blobs, BlobFiles!EvictBlob(v)
    PROVE  AgesInv'
<1>1. /\ BlobType /\ blobOp # BlobFiles!NoOp /\ blobOp.pc = "evict"
      /\ v # blobOp.protected /\ index[v] # BlobFiles!Absent
      /\ blobFile' = [blobFile EXCEPT ![v] = BlobFiles!Absent]
      /\ blobOp' = [blobOp EXCEPT !.pc = "unlink", !.victim = v]
      /\ UNCHANGED <<metaFile, index, loaded, blobClock, blobFaults, begun, returned>>
    BY DEF BlobInv, BlobFiles!EvictBlob, BlobFiles!Indexed, BlobFiles!Held
<1>2. /\ blobOp' # BlobFiles!NoOp /\ blobOp'.pc = "unlink" /\ blobOp'.blob = blobOp.blob
      /\ blobOp'.protected = blobOp.protected /\ blobOp'.victim = v
    BY <1>1 DEF BlobType, BlobOps, BlobFiles!NoOp
<1>3. blobFile'[v] = BlobFiles!Absent /\ \A x \in Blobs \ {v} : blobFile'[x] = blobFile[x]
    BY <1>1 DEF BlobType, BlobFileType
<1>4. OpsFit'
    BY <1>1, <1>2, <1>3 DEF AgesInv, OpsFit, Busy, Renewed
<1>5. DatesFit' /\ IndexRemembers'
    BY <1>1, <1>3 DEF AgesInv, DatesFit, IndexRemembers
<1>6. DiskRemembers'
    BY <1>1, <1>2, <1>3 DEF AgesInv, DiskRemembers, Busy
<1>7. CapCounts'
    BY <1>1, <1>2, <1>3 DEF AgesInv, CapCounts, Counts, Busy
<1> QED BY <1>4, <1>5, <1>6, <1>7 DEF AgesInv

LEMMA AgesEvictMetadata ==
    ASSUME BlobFiles!BlobConstants, BlobInv, AgesInv, BlobFiles!EvictMetadata
    PROVE  AgesInv'
<1> DEFINE v == blobOp.victim
<1>1. /\ BlobType /\ blobOp # BlobFiles!NoOp /\ blobOp.pc = "unlink" /\ BlobFiles!Goes("evict")
      /\ metaFile' = [metaFile EXCEPT ![v] = BlobFiles!Absent]
      /\ index' = [index EXCEPT ![v] = BlobFiles!Absent]
      /\ UNCHANGED <<blobFile, loaded, blobClock, blobFaults, begun, returned>>
    BY DEF BlobInv, BlobFiles!EvictMetadata
<1>2. /\ v \in Blobs /\ blobOp.blob \in Blobs /\ blobFile[v] = BlobFiles!Absent
      /\ loaded => v # blobOp.blob
    BY <1>1, AgesAreNumbers DEF AgesInv, OpsFit, Busy
<1>3. /\ blobOp' # BlobFiles!NoOp /\ blobOp'.pc = "evict" /\ blobOp'.blob = blobOp.blob
      /\ blobOp'.protected = blobOp.protected
      /\ index'[v] = BlobFiles!Absent /\ metaFile'[v] = BlobFiles!Absent
      /\ \A x \in Blobs \ {v} : index'[x] = index[x] /\ metaFile'[x] = metaFile[x]
    BY <1>1, <1>2, OpAdvances DEF BlobType, SidecarType
<1> HIDE DEF v
<1>4. OpsFit'
    BY <1>1, <1>2, <1>3 DEF AgesInv, OpsFit, Busy, Renewed
<1>5. DatesFit' /\ IndexRemembers'
    BY <1>1, <1>3 DEF AgesInv, DatesFit, IndexRemembers
<1>6. DiskRemembers'
    BY <1>1, <1>2, <1>3 DEF AgesInv, DiskRemembers, Busy
<1>7. CapCounts'
    BY <1>1, <1>2, <1>3 DEF AgesInv, CapCounts, Counts, Busy
<1> QED BY <1>4, <1>5, <1>6, <1>7 DEF AgesInv

LEMMA AgesEvicted ==
    ASSUME BlobFiles!BlobConstants, BlobInv, AgesInv, BlobFiles!Evicted
    PROVE  AgesInv'
<1> DEFINE b == blobOp.blob
<1>1. /\ BlobType /\ blobOp # BlobFiles!NoOp /\ blobOp.pc = "evict" /\ loaded' = TRUE
      /\ UNCHANGED <<blobFile, metaFile, index, blobClock, blobFaults, begun>>
    BY DEF BlobInv, BlobFiles!Evicted
<1>2. /\ b \in Blobs /\ blobClock \in Nat /\ begun[b] = blobClock
      /\ returned[b] \in Nat /\ returned[b] <= blobClock
    BY <1>1, AgesAreNumbers DEF AgesInv, OpsFit
<1>3. CASE loaded
    <2>1. blobOp' = BlobFiles!NoOp /\ returned' = [returned EXCEPT ![b] = blobClock]
        BY <1>3 DEF BlobFiles!Evicted, BlobFiles!Returns
    <2>2. returned'[b] = blobClock /\ \A x \in Blobs \ {b} : returned'[x] = returned[x]
        BY <1>1, <1>2, <2>1 DEF BlobType
    <2>3. /\ index[b] # BlobFiles!Absent /\ index[b].at = blobClock
          /\ blobFaults = 0 => metaFile[b] # BlobFiles!Absent /\ metaFile[b].at = blobClock
        BY <1>1, <1>3 DEF AgesInv, OpsFit, DiskRemembers, Busy, Renewed
    <2> HIDE DEF b
    <2>4. OpsFit'
        BY <2>1 DEF OpsFit, Busy
    <2>5. DatesFit' /\ IndexRemembers'
        BY <1>1, <1>2, <2>2, <2>3 DEF AgesInv, DatesFit, IndexRemembers
    <2>6. DiskRemembers'
        BY <1>1, <1>2, <1>3, <2>1, <2>2, <2>3 DEF AgesInv, DiskRemembers, Busy
    <2>7. CapCounts'
        BY <1>1, <1>3, <2>1 DEF AgesInv, CapCounts, Counts, Busy
    <2> QED BY <2>4, <2>5, <2>6, <2>7 DEF AgesInv
<1>4. CASE ~loaded
    <2>1. BlobFiles!Goes("look") /\ returned' = returned
        BY <1>4 DEF BlobFiles!Evicted
    <2>2. blobOp' # BlobFiles!NoOp /\ blobOp'.pc = "look" /\ blobOp'.blob = b
        BY <1>1, <2>1, OpAdvances
    <2>3. OpsFit'
        BY <1>1, <1>2, <2>2 DEF OpsFit, Busy
    <2>4. DatesFit' /\ IndexRemembers'
        BY <1>1, <2>1 DEF AgesInv, DatesFit, IndexRemembers
    <2>5. DiskRemembers'
        BY <1>1, <2>1, <2>2 DEF AgesInv, DiskRemembers, Busy
    <2>6. CapCounts'
        BY <1>1, <2>2 DEF AgesInv, CapCounts, Counts, Busy
    <2> QED BY <2>3, <2>4, <2>5, <2>6 DEF AgesInv
<1> QED BY <1>3, <1>4

LEMMA AgesFaults ==
    ASSUME BlobFiles!BlobConstants, BlobInv, AgesInv,
           BlobFiles!DiskError \/ BlobFiles!Crash \/ \E b \in Blobs : BlobFiles!Touched(b)
    PROVE  AgesInv'
<1>1. BlobType /\ blobFaults \in Nat /\ blobFaults' = blobFaults + 1
    BY AgesAreNumbers DEF BlobInv, BlobFiles!DiskError, BlobFiles!Crash, BlobFiles!Touched, BlobFiles!Fault
<1>2. /\ blobFaults' # 0 /\ (blobFaults' <= 1 => blobFaults = 0)
      /\ (blobFaults' = 1 => blobFaults = 0)
    BY <1>1
<1>3. CASE BlobFiles!DiskError
    <2>1. /\ blobOp # BlobFiles!NoOp /\ blobOp' = BlobFiles!NoOp
          /\ UNCHANGED <<blobFile, metaFile, index, loaded, blobClock, begun, returned>>
        BY <1>3 DEF BlobFiles!DiskError, BlobFiles!Rejects
    <2>2. OpsFit'
        BY <2>1 DEF OpsFit, Busy
    <2>3. DatesFit' /\ IndexRemembers' /\ DiskRemembers'
        BY <1>2, <2>1 DEF AgesInv, DatesFit, IndexRemembers, DiskRemembers
    <2>4. blobFaults = 0 /\ Busy({"write"}) => blobFile[blobOp.blob] = BlobFiles!Absent
        BY <1>1, <2>1, AgesAreNumbers DEF AgesInv, OpsFit, Busy, BlobInv, OpAgrees, Agrees
    <2>5. CapCounts'
        BY <1>2, <2>1, <2>4 DEF AgesInv, CapCounts, Counts, Busy
    <2> QED BY <2>2, <2>3, <2>5 DEF AgesInv
<1>4. CASE BlobFiles!Crash
    <2>1. /\ blobOp' = BlobFiles!NoOp /\ loaded' = FALSE
          /\ \A x \in Blobs : index'[x] = BlobFiles!Absent
          /\ UNCHANGED <<blobFile, metaFile, blobClock, begun, returned>>
        BY <1>4 DEF BlobFiles!Crash, BlobFiles!Rejects
    <2>2. OpsFit'
        BY <2>1 DEF OpsFit, Busy
    <2>3. DatesFit' /\ IndexRemembers' /\ DiskRemembers'
        BY <1>2, <2>1 DEF AgesInv, DatesFit, IndexRemembers, DiskRemembers
    <2>4. CapCounts'
        BY <2>1 DEF CapCounts, Counts, Busy
    <2> QED BY <2>2, <2>3, <2>4 DEF AgesInv
<1>5. ASSUME NEW b \in Blobs, BlobFiles!Touched(b) PROVE AgesInv'
    <2>1. /\ UNCHANGED <<index, loaded, blobOp, blobClock, begun, returned>>
          /\ blobFile[b] # BlobFiles!Absent
          /\ \/ blobFile' = [blobFile EXCEPT ![b] = BlobFiles!Absent] /\ UNCHANGED metaFile
             \/ blobFile' = [blobFile EXCEPT ![b].good = FALSE] /\ UNCHANGED metaFile
             \/ metaFile' = [metaFile EXCEPT ![b] = BlobFiles!Absent] /\ UNCHANGED blobFile
        BY <1>5 DEF BlobFiles!Touched
    <2>2. /\ \A x \in Blobs : blobFile'[x] # BlobFiles!Absent =>
                 /\ blobFile[x] # BlobFiles!Absent /\ blobFile'[x].at = blobFile[x].at
                 /\ blobFile'[x].good => blobFile[x].good
          /\ \A x \in Blobs : metaFile'[x] # BlobFiles!Absent => metaFile'[x] = metaFile[x]
        BY <1>1, <2>1 DEF BlobType, BlobFileType, SidecarType, BlobFiles!File
    <2>3. OpsFit'
        <3>1. blobOp # BlobFiles!NoOp => blobOp.victim \in Blobs
            BY <1>1, AgesAreNumbers
        <3> QED BY <2>1, <2>2, <3>1 DEF AgesInv, OpsFit, Busy, Renewed
    <2>4. DatesFit' /\ IndexRemembers'
        BY <1>2, <2>1, <2>2 DEF AgesInv, DatesFit, IndexRemembers
    <2>5. blobFaults = 0 => loaded
        BY <2>1 DEF AgesInv, DiskRemembers
    <2>6. DiskRemembers'
        BY <1>2, <2>1, <2>5 DEF DiskRemembers
    <2>7. CapCounts'
        <3>1. blobOp # BlobFiles!NoOp => blobOp.blob \in Blobs
            BY <1>1, AgesAreNumbers
        <3> QED BY <1>2, <2>1, <2>2, <3>1 DEF AgesInv, CapCounts, Counts, Busy
    <2> QED BY <2>3, <2>4, <2>6, <2>7 DEF AgesInv
<1> QED BY <1>3, <1>4, <1>5

LEMMA AgesBegin ==
    ASSUME BlobFiles!Init
    PROVE  AgesInv
<1>1. /\ blobOp = BlobFiles!NoOp /\ loaded = FALSE /\ blobFaults = 0
      /\ \A x \in Blobs : /\ index[x] = BlobFiles!Absent /\ metaFile[x] = BlobFiles!Absent
                          /\ blobFile[x] = BlobFiles!Absent
                          /\ begun[x] = 0 /\ returned[x] = 0
    BY DEF BlobFiles!Init
<1> QED BY <1>1 DEF AgesInv, OpsFit, DatesFit, IndexRemembers, DiskRemembers, CapCounts, Counts, Busy

LEMMA AgesStay ==
    ASSUME BlobFiles!BlobConstants, BlobInv, AgesInv, [BlobFiles!Next]_(BlobFiles!blobVars)
    PROVE  AgesInv'
<1>1. ASSUME NEW b \in Blobs, NEW task \in {"put", "get"}, BlobFiles!Call(task, b) PROVE AgesInv'
    BY <1>1, AgesCall
<1>2. CASE BlobFiles!BlobStep
    BY <1>2, AgesLoad, AgesLook, AgesWriteBlob, AgesWriteMetadata, AgesEvict, AgesEvictMetadata,
       AgesEvicted DEF BlobFiles!BlobStep
<1>3. CASE BlobFiles!DiskError \/ BlobFiles!Crash \/ \E b \in Blobs : BlobFiles!Touched(b)
    BY <1>3, AgesFaults
<1>4. CASE UNCHANGED BlobFiles!blobVars
    BY <1>4 DEF BlobFiles!blobVars, AgesInv, OpsFit, DatesFit, IndexRemembers, DiskRemembers,
                CapCounts, Counts, Busy, Renewed
<1> QED BY <1>1, <1>2, <1>3, <1>4 DEF BlobFiles!Next

\* Fewer blobs are not over a cap that more are under.
LEMMA CapGrows ==
    ASSUME BlobFiles!BlobConstants, NEW S \in SUBSET Blobs, NEW T \in SUBSET S, ~BlobFiles!IsOverCap(S)
    PROVE  ~BlobFiles!IsOverCap(T)
<1>1. IsFiniteSet(S) /\ \A x \in S : SizeOf[x] \in Nat
    <2>1. IsFiniteSet(Blobs)
        BY DEF BlobFiles!BlobConstants, BlobFiles!IsFiniteSet, IsFiniteSet
    <2> QED BY <2>1, FS_Subset DEF BlobFiles!BlobConstants
<1>2. Cardinality(T) <= Cardinality(S) /\ Cardinality(T) \in Nat /\ Cardinality(S) \in Nat
    BY <1>1, FS_Subset, FS_CardinalityType
<1>3. Total(SizeOf, T) <= Total(SizeOf, S) /\ Total(SizeOf, T) \in Nat /\ Total(SizeOf, S) \in Nat
    BY <1>1, TotalGrows
<1>4. MaxEntries \in Nat /\ MaxBytes \in Nat
    BY DEF BlobFiles!BlobConstants
<1>5. \A U : BlobFiles!IsOverCap(U) <=> \/ MaxEntries > 0 /\ Cardinality(U) > MaxEntries
                                        \/ MaxBytes > 0 /\ Total(SizeOf, U) > MaxBytes
    <2>1. \A U : BlobFiles!Cardinality(U) = Cardinality(U)
        BY DEF BlobFiles!Cardinality, BlobFiles!IsFiniteSet, Cardinality, IsFiniteSet
    <2> QED BY <2>1, SumsAreTotals DEF BlobFiles!IsOverCap
<1> QED BY <1>2, <1>3, <1>4, <1>5

LEMMA OldestIsEvicted ==
    ASSUME BlobFiles!BlobConstants, BlobInv, AgesInv, [BlobFiles!Next]_(BlobFiles!blobVars)
    PROVE  BlobFiles!OldestGoes
<1> SUFFICES ASSUME NEW v \in Blobs, NEW x \in Blobs, blobFile[v] # BlobFiles!Absent,
                    blobFile'[v] = BlobFiles!Absent, blobFaults' = blobFaults, blobFaults <= 1,
                    x \in BlobFiles!Indexed \ {v, blobOp.protected}
             PROVE  returned[v] <= begun[x]
    BY DEF BlobFiles!OldestGoes
<1>1. BlobType
    BY DEF BlobInv
<1>2. PICK b \in Blobs : BlobFiles!EvictBlob(b)
    <2>1. blobFile' # blobFile /\ blobFaults' # blobFaults + 1
        BY <1>1, AgesAreNumbers
    <2>2. ~BlobFiles!WriteBlob
        <3>1. BlobFiles!WriteBlob => blobFile'[v] # BlobFiles!Absent
            BY <1>1 DEF BlobFiles!WriteBlob, BlobType, BlobFileType, BlobFiles!Absent
        <3> QED BY <3>1
    <2> QED BY <2>1, <2>2 DEF BlobFiles!Next, BlobFiles!BlobStep, BlobFiles!Call, BlobFiles!Touched,
               BlobFiles!Fault, BlobFiles!Load, BlobFiles!PutKnown, BlobFiles!PutNew, BlobFiles!Read,
               BlobFiles!WriteMetadata, BlobFiles!EvictMetadata, BlobFiles!Evicted,
               BlobFiles!DiskError, BlobFiles!Crash, BlobFiles!blobVars
<1>3. /\ b \in BlobFiles!Indexed /\ blobFile' = [blobFile EXCEPT ![b] = BlobFiles!Absent]
      /\ \A y \in BlobFiles!Indexed \ {blobOp.protected} : index[b].at <= index[y].at
    BY <1>2 DEF BlobFiles!EvictBlob, BlobFiles!PickLeastRecentlyUsed
<1>4. v = b
    BY <1>1, <1>3 DEF BlobType, BlobFileType
<1>5. index[v] # BlobFiles!Absent /\ index[x] # BlobFiles!Absent /\ index[v].at <= index[x].at
    BY <1>3, <1>4 DEF BlobFiles!Indexed, BlobFiles!Held
<1>6. returned[v] <= index[v].at /\ index[x].at <= begun[x]
    BY <1>5 DEF AgesInv, IndexRemembers, DatesFit
<1>7. {returned[v], index[v].at, index[x].at, begun[x]} \subseteq Nat
    BY <1>1, <1>5, AgesAreNumbers
<1> QED BY <1>5, <1>6, <1>7

LEMMA CapStays ==
    ASSUME BlobFiles!BlobConstants, BlobInv, AgesInv, [BlobFiles!Next]_(BlobFiles!blobVars),
           blobOp # BlobFiles!NoOp, blobOp.pc = "evict", returned' # returned \/ (~loaded /\ loaded')
    PROVE  ~BlobFiles!IsOverCap({b \in BlobFiles!Held(blobFile') : blobFaults <= 1 \/ blobFile'[b].good})
<1>1. BlobFiles!Evicted
    <2>1. BlobFiles!BlobStep
        BY DEF BlobFiles!Next, BlobFiles!Call, BlobFiles!Touched, BlobFiles!DiskError, BlobFiles!Crash,
               BlobFiles!Rejects, BlobFiles!blobVars
    <2>2. ~BlobFiles!Load /\ ~BlobFiles!PutKnown /\ ~BlobFiles!PutNew /\ ~BlobFiles!Read
        BY DEF BlobFiles!Load, BlobFiles!PutKnown, BlobFiles!PutNew, BlobFiles!Read
    <2>3. ~BlobFiles!WriteBlob /\ ~BlobFiles!WriteMetadata /\ ~BlobFiles!EvictMetadata
        BY DEF BlobFiles!WriteBlob, BlobFiles!WriteMetadata, BlobFiles!EvictMetadata
    <2>4. \A b \in Blobs : ~BlobFiles!EvictBlob(b)
        BY DEF BlobFiles!EvictBlob
    <2> QED BY <2>1, <2>2, <2>3, <2>4 DEF BlobFiles!BlobStep
<1>2. blobFile' = blobFile /\ ~BlobFiles!IsOverCap(BlobFiles!Indexed)
    BY <1>1 DEF BlobFiles!Evicted
<1>3. {b \in BlobFiles!Held(blobFile') : blobFaults <= 1 \/ blobFile'[b].good} \in SUBSET BlobFiles!Indexed
    BY <1>2 DEF AgesInv, CapCounts, Counts, Busy, BlobFiles!Held, BlobFiles!Indexed
<1>4. BlobFiles!Indexed \in SUBSET Blobs
    BY DEF BlobFiles!Indexed, BlobFiles!Held
<1> QED BY <1>2, <1>3, <1>4, CapGrows

\* What the blob store evicts was used no later than what it keeps, across a crash
\* and a restart, and no put and no load leaves it over its cap, also after a fault
\* (channels/blobStore.ts), for any blobs, sizes, caps, operations and faults.
THEOREM BlobsKeepTheirCaps ==
    ASSUME BlobFiles!BlobConstants
    PROVE  BlobFiles!Spec => BlobFiles!EvictsOldest /\ BlobFiles!CapIsKept
<1>1. BlobInv /\ AgesInv /\ [BlobFiles!Next]_(BlobFiles!blobVars) => BlobInv' /\ AgesInv'
    BY BlobsStay, AgesStay
<1>2. BlobFiles!Init => BlobInv /\ AgesInv
    BY BlobsBegin, AgesBegin
<1>3. BlobInv /\ AgesInv /\ [BlobFiles!Next]_(BlobFiles!blobVars)
      => [BlobFiles!OldestGoes]_(BlobFiles!blobVars)
    BY OldestIsEvicted
<1>4. BlobInv /\ AgesInv /\ [BlobFiles!Next]_(BlobFiles!blobVars)
      => [/\ blobOp # BlobFiles!NoOp /\ blobOp.pc = "evict"
          /\ returned' # returned \/ (~loaded /\ loaded')
          => ~BlobFiles!IsOverCap({b \in BlobFiles!Held(blobFile') : blobFaults <= 1 \/ blobFile'[b].good})
         ]_(BlobFiles!blobVars)
    BY CapStays
<1>5. BlobFiles!Spec => BlobFiles!EvictsOldest
    BY <1>1, <1>2, <1>3, PTL DEF BlobFiles!Spec, BlobFiles!EvictsOldest
<1>6. BlobFiles!Spec => BlobFiles!CapIsKept
    BY <1>1, <1>2, <1>4, PTL DEF BlobFiles!Spec, BlobFiles!CapIsKept
<1> QED BY <1>5, <1>6

-----------------------------------------------------------------------------
(* Alfred's home. *)

HomeFile == [state : {"none", "empty", "whole"}, from : {"none", "setup", "old"}]

Command ==
    [op : {"none"} \cup Home!HomeOps \cup Home!ServiceOps,
     at : {"none", "begin", "dirs", "done", "copy", "running?", "bootout", "next"} \cup Home!HomeFiles,
     open : BOOLEAN, staged : SUBSET OldFiles]

HomeType ==
    /\ home \in [dir : {"none", "bare", "full"}, file : [Home!HomeFiles -> HomeFile]]
    /\ service \in [plist : BOOLEAN, loaded : BOOLEAN]
    /\ cmd \in [Commands -> Command]

\* Where each command may be; a setup writes files into a home that is there.
CommandsFit ==
    \A c \in Commands :
        /\ cmd[c].op = "setup" =>
             cmd[c].at \in {"begin", "dirs", "config", "soul", "instructions", "done"}
        /\ cmd[c].op = "migrate" => cmd[c].at \in {"begin", "copy"}
        /\ cmd[c].op = "none" => cmd[c].at = "none"
        /\ cmd[c].op \in Home!ServiceOps => cmd[c].at \in {"begin", "running?", "bootout", "next"}
        /\ cmd[c].at \in Home!HomeFiles \cup {"done"} => home.dir = "full"
        /\ cmd[c].open => cmd[c].op = "setup" /\ cmd[c].at \in Home!HomeFiles
                          /\ home.file[cmd[c].at] # Home!NoFile

\* A file that is there has its content, or a setup is about to write it.
FilesFit ==
    /\ home.dir # "full" => \A f \in Home!HomeFiles : home.file[f] = Home!NoFile
    /\ \A f \in Home!HomeFiles :
         \/ home.file[f] = Home!NoFile
         \/ home.file[f].state = "whole"
         \/ \E c \in Commands : cmd[c].open /\ cmd[c].at = f
    /\ Home!MigrationIsWhole

\* The service commands follow each other, and the file of the service is only
\* removed when it has been stopped.
ServiceFits ==
    /\ \A c, d \in Commands : cmd[c].op \in Home!ServiceOps /\ cmd[d].op \in Home!ServiceOps => c = d
    /\ service.loaded => service.plist
    /\ \A c \in Commands : cmd[c].op = "uninstall" /\ cmd[c].at = "next" => ~service.loaded

HomeInv == HomeType /\ CommandsFit /\ FilesFit /\ ServiceFits

\* A command goes on, or ends, and the home stays.
LEMMA CommandGoesOn ==
    ASSUME HomeInv, NEW c \in Commands, NEW r \in Command, cmd' = [cmd EXCEPT ![c] = r],
           UNCHANGED home, service' \in [plist : BOOLEAN, loaded : BOOLEAN],
           r.op = "setup" => r.at \in {"begin", "dirs", "config", "soul", "instructions", "done"},
           r.op = "migrate" => r.at \in {"begin", "copy"},
           r.op = "none" => r.at = "none",
           r.op \in Home!ServiceOps => r.at \in {"begin", "running?", "bootout", "next"},
           r.at \in Home!HomeFiles \cup {"done"} => home.dir = "full",
           r.open = FALSE, cmd[c].open => home.file[cmd[c].at].state = "whole",
           r.op \in Home!ServiceOps => \A d \in Commands \ {c} : cmd[d].op \notin Home!ServiceOps,
           service'.loaded => service'.plist,
           r.op = "uninstall" /\ r.at = "next" => ~service'.loaded,
           service'.loaded => service.loaded \/ cmd[c].op = "install"
    PROVE  HomeInv'
<1>1. /\ cmd'[c] = r /\ \A d \in Commands \ {c} : cmd'[d] = cmd[d]
      /\ cmd' \in [Commands -> Command]
    BY DEF HomeInv, HomeType
<1>2. HomeType'
    BY <1>1 DEF HomeInv, HomeType
<1>3. CommandsFit'
    BY <1>1 DEF HomeInv, CommandsFit
<1>4. FilesFit'
    <2>1. ASSUME NEW f \in Home!HomeFiles, home.file[f] # Home!NoFile, home.file[f].state # "whole"
          PROVE  \E d \in Commands : cmd'[d].open /\ cmd'[d].at = f
        <3>1. PICK d \in Commands : cmd[d].open /\ cmd[d].at = f
            BY <2>1 DEF HomeInv, FilesFit
        <3>2. d # c
            BY <2>1, <3>1
        <3> QED BY <1>1, <3>1, <3>2
    <2>2. Home!MigrationIsWhole'
        BY DEF HomeInv, FilesFit, Home!MigrationIsWhole
    <2> QED BY <2>1, <2>2 DEF HomeInv, FilesFit
<1>5. ServiceFits'
    <2>1. \A d, e \in Commands : cmd'[d].op \in Home!ServiceOps /\ cmd'[e].op \in Home!ServiceOps => d = e
        BY <1>1 DEF HomeInv, ServiceFits
    <2>2. ASSUME NEW d \in Commands, cmd'[d].op = "uninstall", cmd'[d].at = "next"
          PROVE  ~service'.loaded
        <3>1. CASE d = c
            BY <1>1, <2>2, <3>1
        <3>2. CASE d # c
            <4>1. cmd[d].op = "uninstall" /\ ~service.loaded
                BY <1>1, <2>2, <3>2 DEF HomeInv, ServiceFits
            <4>2. cmd[c].op # "install"
                BY <3>2, <4>1 DEF HomeInv, ServiceFits, Home!ServiceOps
            <4> QED BY <4>1, <4>2
        <3> QED BY <3>1, <3>2
    <2> QED BY <2>1, <2>2 DEF ServiceFits
<1> QED BY <1>2, <1>3, <1>4, <1>5 DEF HomeInv

LEMMA CommandRecords ==
    ASSUME HomeType, NEW c \in Commands
    PROVE  /\ Home!NoCmd \in Command /\ Home!NoCmd.op = "none" /\ Home!NoCmd.at = "none"
           /\ Home!NoCmd.open = FALSE /\ cmd[c] \in Command
           /\ \A at \in {"none", "begin", "dirs", "done", "copy", "running?", "bootout", "next"}
                         \cup Home!HomeFiles :
                LET r == [cmd[c] EXCEPT !.at = at] IN
                r \in Command /\ r.at = at /\ r.op = cmd[c].op /\ r.open = cmd[c].open
BY DEF HomeType, Command, Home!NoCmd

LEMMA CommandEnds ==
    ASSUME HomeInv, NEW c \in Commands, Home!Ends(c), UNCHANGED home,
           cmd[c].open => home.file[cmd[c].at].state = "whole",
           service' \in [plist : BOOLEAN, loaded : BOOLEAN], service'.loaded => service'.plist,
           service'.loaded => service.loaded \/ cmd[c].op = "install"
    PROVE  HomeInv'
<1> DEFINE r == Home!NoCmd
<1>1. /\ r \in Command /\ r.op = "none" /\ r.at = "none" /\ r.open = FALSE
      /\ cmd' = [cmd EXCEPT ![c] = r]
    BY CommandRecords DEF HomeInv, Home!Ends
<1>2. "none" \notin Home!ServiceOps \cup Home!HomeFiles
    BY DEF Home!ServiceOps, Home!HomeFiles
<1> HIDE DEF r
<1> QED BY <1>1, <1>2, CommandGoesOn

LEMMA StartsCommand ==
    ASSUME ~ServiceOverlaps, HomeInv, NEW c \in Commands, NEW task \in Home!HomeOps \cup Home!ServiceOps,
           Home!Start(c, task)
    PROVE  HomeInv'
<1> DEFINE r == [Home!NoCmd EXCEPT !.op = task, !.at = "begin"]
<1>1. /\ r \in Command /\ r.op = task /\ r.at = "begin" /\ r.open = FALSE
      /\ "begin" \notin Home!HomeFiles \cup {"done"} /\ task # "none"
    BY DEF Command, Home!NoCmd, Home!HomeOps, Home!ServiceOps, Home!HomeFiles
<1>2. /\ cmd' = [cmd EXCEPT ![c] = r] /\ UNCHANGED <<home, service>> /\ ~cmd[c].open
      /\ task \in Home!ServiceOps => \A d \in Commands : cmd[d].op \notin Home!ServiceOps
    BY DEF Home!Start, Home!NoCmd
<1>3. service \in [plist : BOOLEAN, loaded : BOOLEAN] /\ (service.loaded => service.plist)
    BY DEF HomeInv, HomeType, ServiceFits
<1> HIDE DEF r
<1> QED BY <1>1, <1>2, <1>3, CommandGoesOn

\* What leaves home and service alone, but for the service commands.
LEMMA QuietCommands ==
    ASSUME "setup" \notin MayBeKilled, HomeInv, NEW c \in Commands,
           \/ Home!Killed(c) \/ Home!CommandDone(c) \/ Home!MigrateBegins(c) \/ Home!CopyEntry(c)
           \/ Home!Kickstart(c)
    PROVE  HomeInv'
<1>1. HomeType /\ UNCHANGED <<home, service>> /\ service \in [plist : BOOLEAN, loaded : BOOLEAN]
      /\ (service.loaded => service.plist)
    BY DEF HomeInv, HomeType, ServiceFits, Home!Killed, Home!CommandDone, Home!MigrateBegins,
           Home!CopyEntry, Home!Kickstart
<1>2. cmd[c] \in Command /\ cmd[c].open = FALSE
    <2>1. Home!Killed(c) => cmd[c].op # "setup"
        BY DEF Home!Killed
    <2>2. Home!CommandDone(c) => cmd[c].at = "done" /\ "done" \notin Home!HomeFiles
        BY DEF Home!CommandDone, Home!HomeFiles
    <2>3. Home!MigrateBegins(c) \/ Home!Kickstart(c) => cmd[c].op # "setup"
        BY DEF Home!MigrateBegins, Home!Kickstart
    <2>4. Home!CopyEntry(c) => cmd[c].at = "copy" /\ "copy" \notin Home!HomeFiles
        BY DEF Home!CopyEntry, Home!HomeFiles
    <2> QED BY <1>1, <2>1, <2>2, <2>3, <2>4 DEF HomeInv, HomeType, CommandsFit, Command
<1>3. CASE Home!Ends(c)
    BY <1>1, <1>2, <1>3, CommandEnds
<1>4. CASE Home!MigrateBegins(c) /\ ~Home!Ends(c)
    <2> DEFINE r == [cmd[c] EXCEPT !.at = "copy"]
    <2>1. cmd' = [cmd EXCEPT ![c] = r] /\ cmd[c].op = "migrate"
        BY <1>4 DEF Home!MigrateBegins, Home!Goes
    <2>2. r \in Command /\ r.at = "copy" /\ r.op = cmd[c].op /\ r.open = FALSE
        BY <1>1, <1>2, CommandRecords
    <2>3. "copy" \notin Home!HomeFiles /\ "migrate" \notin Home!ServiceOps
        BY DEF Home!HomeFiles, Home!ServiceOps
    <2> HIDE DEF r
    <2> QED BY <1>1, <1>2, <2>1, <2>2, <2>3, CommandGoesOn
<1>5. CASE Home!CopyEntry(c) /\ ~Home!Ends(c)
    <2>1. PICK f \in OldFiles \ cmd[c].staged : cmd' = [cmd EXCEPT ![c].staged = @ \cup {f}]
        BY <1>5 DEF Home!CopyEntry
    <2> DEFINE r == [cmd[c] EXCEPT !.staged = @ \cup {f}]
    <2>2. r \in Command /\ r.at = "copy" /\ r.op = cmd[c].op /\ r.open = FALSE
        BY <1>2, <1>5 DEF Command, Home!CopyEntry
    <2>3. cmd' = [cmd EXCEPT ![c] = r] /\ "copy" \notin Home!HomeFiles
        BY <2>1 DEF Home!HomeFiles
    <2>4. cmd[c].op = "migrate" /\ "migrate" \notin Home!ServiceOps
        <3>1. cmd[c].at = "copy"
            BY <1>5 DEF Home!CopyEntry
        <3> QED BY <1>2, <3>1 DEF HomeInv, CommandsFit, Command, Home!HomeOps, Home!ServiceOps
    <2> HIDE DEF r
    <2> QED BY <1>1, <1>2, <2>2, <2>3, <2>4, CommandGoesOn
<1> QED BY <1>3, <1>4, <1>5 DEF Home!Killed, Home!CommandDone, Home!Kickstart

LEMMA ServiceCommands ==
    ASSUME HomeInv, NEW c \in Commands,
           \/ Home!WritePlist(c) \/ Home!IsRunning(c) \/ Home!Bootout(c) \/ Home!Bootstrap(c)
           \/ Home!RemovePlist(c)
    PROVE  HomeInv'
<1>1. HomeType /\ UNCHANGED home
    BY DEF HomeInv, Home!WritePlist, Home!IsRunning, Home!Bootout, Home!Bootstrap, Home!RemovePlist
<1>2. cmd[c] \in Command /\ service \in [plist : BOOLEAN, loaded : BOOLEAN]
    BY <1>1 DEF HomeType
<1>3. cmd[c].op \in {"install", "uninstall", "restart"} /\ cmd[c].op \in Home!ServiceOps
    <2>1. Home!Bootout(c) => cmd[c].at = "bootout"
        BY DEF Home!Bootout
    <2>2. cmd[c].at = "bootout" => cmd[c].op \in Home!ServiceOps
        BY <1>2 DEF HomeInv, CommandsFit, Command, Home!HomeOps
    <2> QED BY <2>1, <2>2 DEF Home!WritePlist, Home!IsRunning, Home!Bootstrap, Home!RemovePlist,
                            Home!ServiceOps
<1>4. /\ cmd[c].open = FALSE /\ \A d \in Commands \ {c} : cmd[d].op \notin Home!ServiceOps
      /\ service.loaded => service.plist
      /\ cmd[c].op = "uninstall" /\ cmd[c].at = "next" => ~service.loaded
    BY <1>2, <1>3 DEF HomeInv, CommandsFit, ServiceFits, Command
<1>5. service' \in [plist : BOOLEAN, loaded : BOOLEAN] /\ (service'.loaded => service'.plist)
      /\ (service'.loaded => service.loaded \/ cmd[c].op = "install")
    <2>1. CASE Home!WritePlist(c)
        BY <1>2, <1>4, <2>1 DEF Home!WritePlist
    <2>2. CASE Home!IsRunning(c)
        BY <1>2, <1>4, <2>2 DEF Home!IsRunning
    <2>3. CASE Home!Bootout(c)
        BY <1>2, <1>4, <2>3 DEF Home!Bootout
    <2>4. CASE Home!Bootstrap(c)
        BY <1>2, <1>4, <2>4 DEF Home!Bootstrap
    <2>5. CASE Home!RemovePlist(c)
        BY <1>2, <1>4, <2>5 DEF Home!RemovePlist, Home!Removed
    <2> QED BY <2>1, <2>2, <2>3, <2>4, <2>5
<1>6. CASE Home!Ends(c)
    BY <1>1, <1>4, <1>5, <1>6, CommandEnds
<1>7. ASSUME NEW at \in {"running?", "bootout", "next"}, Home!Goes(c, at),
             at = "next" /\ cmd[c].op = "uninstall" => ~service'.loaded
      PROVE  HomeInv'
    <2> DEFINE r == [cmd[c] EXCEPT !.at = at]
    <2>1. r \in Command /\ r.at = at /\ r.op = cmd[c].op /\ r.open = FALSE
        BY <1>1, <1>4, CommandRecords
    <2>2. cmd' = [cmd EXCEPT ![c] = r] /\ at \notin Home!HomeFiles \cup {"done"}
        BY <1>7 DEF Home!Goes, Home!HomeFiles
    <2> HIDE DEF r
    <2> QED BY <1>1, <1>3, <1>4, <1>5, <1>7, <2>1, <2>2, CommandGoesOn
<1>8. CASE ~Home!Ends(c)
    <2>1. CASE Home!WritePlist(c)
        BY <1>7, <1>8, <2>1 DEF Home!WritePlist
    <2>2. CASE Home!IsRunning(c)
        BY <1>7, <2>2 DEF Home!IsRunning
    <2>3. CASE Home!Bootout(c)
        BY <1>2, <1>7, <1>8, <2>3 DEF Home!Bootout
    <2> QED BY <1>8, <2>1, <2>2, <2>3 DEF Home!Bootstrap, Home!RemovePlist
<1> QED BY <1>6, <1>8

\* What setup does to the home: no file goes, and one may come or be written.
LEMMA HomeGrows ==
    ASSUME Home!HomeConstants, HomeInv, NEW c \in Commands, NEW r \in Command, cmd' = [cmd EXCEPT ![c] = r],
           home' \in [dir : {"none", "bare", "full"}, file : [Home!HomeFiles -> HomeFile]],
           UNCHANGED service, cmd[c].op = "setup", r.op = "setup",
           r.at \in {"dirs", "config", "soul", "instructions", "done"}, home.dir = "full" => home'.dir = "full",
           r.at \in Home!HomeFiles \cup {"done"} => home'.dir = "full",
           r.open => r.at \in Home!HomeFiles /\ home'.file[r.at] # Home!NoFile,
           NEW f \in Home!HomeFiles,
           \A g \in Home!HomeFiles \ {f} : home'.file[g] = home.file[g],
           cmd[c].open => cmd[c].at = f,
           \/ home'.file[f] = home.file[f] /\ (cmd[c].open => r.open /\ r.at = f)
           \/ home.dir = "full" /\ home.file[f] = Home!NoFile /\ home'.file[f].from = "setup"
              /\ r.open /\ r.at = f
           \/ home.dir = "full" /\ home'.file[f].state = "whole" /\ home.file[f] # Home!NoFile
              /\ home'.file[f].from = home.file[f].from
    PROVE  HomeInv'
<1>1. /\ cmd'[c] = r /\ \A d \in Commands \ {c} : cmd'[d] = cmd[d]
      /\ cmd' \in [Commands -> Command]
    BY DEF HomeInv, HomeType
<1>2. HomeType'
    BY <1>1 DEF HomeInv, HomeType
<1>3. \A g \in Home!HomeFiles : home.file[g] # Home!NoFile => home'.file[g] # Home!NoFile
    BY DEF Home!NoFile
<1>4. CommandsFit'
    <2>1. "setup" \notin Home!ServiceOps
        BY DEF Home!ServiceOps
    <2> QED BY <1>1, <1>3, <2>1 DEF HomeInv, CommandsFit
<1>5. FilesFit'
    <2>1. home'.dir # "full" => \A g \in Home!HomeFiles : home'.file[g] = Home!NoFile
        BY DEF HomeInv, FilesFit
    <2>2. ASSUME NEW g \in Home!HomeFiles, home'.file[g] # Home!NoFile, home'.file[g].state # "whole"
          PROVE  \E d \in Commands : cmd'[d].open /\ cmd'[d].at = g
        <3>1. CASE home'.file[g] = home.file[g]
            <4>1. PICK d \in Commands : cmd[d].open /\ cmd[d].at = g
                BY <2>2, <3>1 DEF HomeInv, FilesFit
            <4>2. CASE d # c
                BY <1>1, <4>1, <4>2
            <4>3. CASE d = c /\ r.open /\ r.at = f
                BY <1>1, <4>1, <4>3
            <4>4. CASE d = c /\ ~(r.open /\ r.at = f)
                BY <2>2, <4>1, <4>4
            <4> QED BY <4>2, <4>3, <4>4
        <3>2. CASE home'.file[g] # home.file[g]
            BY <1>1, <2>2, <3>2
        <3> QED BY <3>1, <3>2
    <2>3. Home!MigrationIsWhole'
        <3>1. SUFFICES ASSUME NEW g \in Home!HomeFiles, home'.file[g].from = "old"
                       PROVE  \A h \in OldFiles : home'.file[h] = [state |-> "whole", from |-> "old"]
            BY DEF Home!MigrationIsWhole
        <3>2. home.file[g].from = "old"
            BY <3>1
        <3>3. \A h \in OldFiles : home.file[h] = [state |-> "whole", from |-> "old"]
            BY <3>2 DEF HomeInv, FilesFit, Home!MigrationIsWhole
        <3>4. OldFiles \subseteq Home!HomeFiles
            BY DEF Home!HomeConstants
        <3>5. ASSUME f \in OldFiles PROVE home'.file[f] = [state |-> "whole", from |-> "old"]
            <4>1. home'.file[f] \in HomeFile /\ home.file[f] # Home!NoFile
                BY <3>3, <3>5 DEF Home!NoFile
            <4>2. \/ home'.file[f] = home.file[f]
                  \/ home'.file[f].state = "whole" /\ home'.file[f].from = home.file[f].from
                BY <4>1
            <4> QED BY <3>3, <3>5, <4>1, <4>2 DEF HomeFile
        <3> QED BY <3>3, <3>4, <3>5
    <2> QED BY <2>1, <2>2, <2>3 DEF FilesFit
<1>6. ServiceFits'
    <2>1. "setup" \notin Home!ServiceOps /\ "setup" # "uninstall"
        BY DEF Home!ServiceOps
    <2> QED BY <1>1, <2>1 DEF HomeInv, ServiceFits
<1> QED BY <1>2, <1>4, <1>5, <1>6 DEF HomeInv

LEMMA SetupGoesOn ==
    ASSUME Home!HomeConstants, HomeInv, NEW c \in Commands,
           \/ Home!SetupMakesHome(c)
           \/ \E f \in Home!HomeFiles : Home!WriteOnce(c, f) \/ Home!FileWritten(c, f)
    PROVE  HomeInv'
<1>1. /\ HomeType /\ cmd[c] \in Command /\ cmd[c].op = "setup" /\ UNCHANGED service
      /\ cmd[c].open => cmd[c].at \in Home!HomeFiles /\ home.file[cmd[c].at] # Home!NoFile
      /\ cmd[c].at \in Home!HomeFiles => home.dir = "full"
    BY DEF HomeInv, HomeType, CommandsFit, Home!SetupMakesHome, Home!WriteOnce, Home!FileWritten
<1>2. CASE Home!SetupMakesHome(c)
    <2> DEFINE at == IF cmd[c].at = "begin" THEN "dirs" ELSE "config"
               r == [cmd[c] EXCEPT !.at = at]
    <2>1. "config" \in Home!HomeFiles /\ at \in {"dirs", "config"} /\ cmd[c].open = FALSE
        BY <1>1, <1>2 DEF Home!SetupMakesHome, Home!HomeFiles, Command
    <2>2. r \in Command /\ r.at = at /\ r.op = "setup" /\ r.open = FALSE
        BY <1>1, <2>1 DEF Command
    <2>5. cmd' = [cmd EXCEPT ![c] = r]
        BY <1>1, <1>2 DEF Home!SetupMakesHome, Home!Goes
    <2>3. /\ home'.file = home.file
          /\ home' \in [dir : {"none", "bare", "full"}, file : [Home!HomeFiles -> HomeFile]]
          /\ home.dir = "full" => home'.dir = "full"
          /\ at = "config" => home'.dir = "full"
        BY <1>1, <1>2 DEF Home!SetupMakesHome, HomeType
    <2>4. "dirs" \notin Home!HomeFiles \cup {"done"}
        BY DEF Home!HomeFiles
    <2> HIDE DEF r, at
    <2> QED BY <1>1, <2>1, <2>2, <2>3, <2>4, <2>5, HomeGrows
<1>3. ASSUME NEW f \in Home!HomeFiles, Home!WriteOnce(c, f)
      PROVE  HomeInv'
    <2>1. cmd[c].at = f /\ cmd[c].open = FALSE /\ home.dir = "full" /\ f \in {"config", "soul", "instructions"}
        BY <1>1, <1>3 DEF Home!WriteOnce, Command, HomeInv, CommandsFit, Home!HomeFiles
    <2>2. Home!After(f) \in {"soul", "instructions", "done"}
        BY DEF Home!After
    <2>3. CASE home.file[f] = Home!NoFile
        <3> DEFINE r == Home!Creates(c, f)
        <3>1. r \in Command /\ r.at = f /\ r.op = "setup" /\ r.open /\ cmd' = [cmd EXCEPT ![c] = r]
            BY <1>1, <1>3, <2>1, <2>3 DEF Home!Creates, Command, Home!WriteOnce
        <3>2. /\ home' \in [dir : {"none", "bare", "full"}, file : [Home!HomeFiles -> HomeFile]]
              /\ home'.dir = home.dir /\ home'.file[f] = [state |-> "empty", from |-> "setup"]
              /\ \A g \in Home!HomeFiles \ {f} : home'.file[g] = home.file[g]
            BY <1>1, <1>3, <2>3 DEF Home!WriteOnce, HomeType, HomeFile
        <3>3. home'.file[f] # Home!NoFile /\ home'.file[f].from = "setup"
            BY <3>2 DEF Home!NoFile
        <3> HIDE DEF r
        <3> QED BY <1>1, <2>1, <2>3, <3>1, <3>2, <3>3, HomeGrows
    <2>4. CASE home.file[f] # Home!NoFile
        <3> DEFINE r == [cmd[c] EXCEPT !.at = Home!After(f)]
        <3>1. Home!After(f) \in Home!HomeFiles \cup {"done"}
            BY <2>2 DEF Home!HomeFiles
        <3>2. /\ r \in Command /\ r.at = Home!After(f) /\ r.op = "setup" /\ r.open = FALSE
              /\ cmd' = [cmd EXCEPT ![c] = r] /\ UNCHANGED home
            BY <1>1, <1>3, <2>1, <2>4, <3>1, CommandRecords DEF Home!WriteOnce, Home!Goes
        <3>3. home \in [dir : {"none", "bare", "full"}, file : [Home!HomeFiles -> HomeFile]]
            BY <1>1 DEF HomeType
        <3> HIDE DEF r
        <3> QED BY <1>1, <2>1, <2>2, <3>2, <3>3, HomeGrows
    <2> QED BY <2>3, <2>4
<1>4. ASSUME NEW f \in Home!HomeFiles, Home!FileWritten(c, f)
      PROVE  HomeInv'
    <2>1. cmd[c].at = f /\ cmd[c].open /\ home.dir = "full" /\ home.file[f] # Home!NoFile
        BY <1>1, <1>4 DEF Home!FileWritten
    <2> DEFINE r == [cmd[c] EXCEPT !.at = Home!After(f), !.open = FALSE]
    <2>2. Home!After(f) \in {"soul", "instructions", "done"}
        BY DEF Home!After
    <2>3. r \in Command /\ r.at = Home!After(f) /\ r.op = "setup" /\ r.open = FALSE
        BY <1>1, <2>2 DEF Command, Home!HomeFiles
    <2>4. cmd' = [cmd EXCEPT ![c] = r]
        BY <1>1, <1>4 DEF HomeType, Command, Home!FileWritten
    <2> DEFINE w == [home.file[f] EXCEPT !.state = "whole"]
    <2>5. w \in HomeFile /\ w.state = "whole" /\ w.from = home.file[f].from
        BY <1>1 DEF HomeType, HomeFile
    <2>6. home' = [home EXCEPT !.file[f] = w]
        BY <1>1, <1>4 DEF Home!FileWritten, HomeType, HomeFile
    <2> HIDE DEF r, w
    <2>7. /\ home' \in [dir : {"none", "bare", "full"}, file : [Home!HomeFiles -> HomeFile]]
          /\ home'.dir = home.dir /\ home'.file[f] = w
          /\ \A g \in Home!HomeFiles \ {f} : home'.file[g] = home.file[g]
        BY <1>1, <2>5, <2>6 DEF HomeType
    <2> QED BY <1>1, <2>1, <2>2, <2>3, <2>4, <2>5, <2>7, HomeGrows
<1> QED BY <1>2, <1>3, <1>4

LEMMA HomeRenamed ==
    ASSUME Home!HomeConstants, HomeInv, NEW c \in Commands, Home!RenameHome(c)
    PROVE  HomeInv'
<1>1. HomeType /\ cmd[c] \in Command /\ UNCHANGED service /\ Home!Ends(c) /\ cmd[c].at = "copy"
      /\ cmd[c].staged = OldFiles
    BY DEF HomeInv, HomeType, Home!RenameHome, Home!AllStaged
<1>2. cmd[c].open = FALSE /\ service \in [plist : BOOLEAN, loaded : BOOLEAN]
      /\ (service.loaded => service.plist)
    <2>1. "copy" \notin Home!HomeFiles
        BY DEF Home!HomeFiles
    <2> QED BY <1>1, <2>1 DEF HomeInv, HomeType, CommandsFit, Command, ServiceFits
<1>3. CASE home.dir = "full"
    <2>1. UNCHANGED home
        BY <1>3 DEF Home!RenameHome
    <2> QED BY <1>1, <1>2, <2>1, CommandEnds
<1>4. CASE home.dir # "full"
    <2>1. home' = [dir |-> "full", file |-> [f \in Home!HomeFiles |->
                     IF f \in OldFiles THEN [state |-> "whole", from |-> "old"] ELSE Home!NoFile]]
        BY <1>1, <1>4 DEF Home!RenameHome
    <2>2. /\ home'.dir = "full"
          /\ \A f \in Home!HomeFiles :
                home'.file[f] = IF f \in OldFiles THEN [state |-> "whole", from |-> "old"] ELSE Home!NoFile
        BY <2>1
    <2>3. cmd' = [cmd EXCEPT ![c] = Home!NoCmd] /\ Home!NoCmd \in Command /\ Home!NoCmd.op = "none"
          /\ Home!NoCmd.at = "none" /\ Home!NoCmd.open = FALSE
        BY <1>1, CommandRecords DEF Home!Ends
    <2>4. /\ cmd' \in [Commands -> Command] /\ cmd'[c] = Home!NoCmd
          /\ \A d \in Commands \ {c} : cmd'[d] = cmd[d]
        BY <1>1, <2>3 DEF HomeType
    <2>5. \A d \in Commands : ~cmd'[d].open
        BY <1>4, <2>3, <2>4 DEF HomeInv, CommandsFit
    <2>6. HomeType'
        <3>1. home' \in [dir : {"none", "bare", "full"}, file : [Home!HomeFiles -> HomeFile]]
            BY <2>1 DEF HomeFile, Home!NoFile
        <3> QED BY <1>1, <2>4, <3>1 DEF HomeType
    <2>7. CommandsFit'
        <3>1. "none" \notin Home!ServiceOps \cup Home!HomeFiles \cup {"done", "setup", "migrate"}
            BY DEF Home!ServiceOps, Home!HomeFiles
        <3> QED BY <2>2, <2>3, <2>4, <2>5, <3>1 DEF HomeInv, CommandsFit
    <2>8. FilesFit'
        <3>1. OldFiles \subseteq Home!HomeFiles
            BY DEF Home!HomeConstants
        <3> QED BY <2>2, <3>1 DEF FilesFit, Home!MigrationIsWhole
    <2>9. ServiceFits'
        <3>1. "none" \notin Home!ServiceOps /\ "none" # "uninstall"
            BY DEF Home!ServiceOps
        <3> QED BY <1>1, <2>3, <2>4, <3>1 DEF HomeInv, ServiceFits
    <2> QED BY <2>6, <2>7, <2>8, <2>9 DEF HomeInv
<1> QED BY <1>3, <1>4

LEMMA HomeStep ==
    ASSUME Home!HomeConstants, ~ServiceOverlaps, "setup" \notin MayBeKilled, HomeInv,
           [Home!Next]_<<home, service, cmd, cmdCount>>
    PROVE  HomeInv'
<1>1. CASE UNCHANGED <<home, service, cmd, cmdCount>>
    BY <1>1 DEF HomeInv, HomeType, CommandsFit, FilesFit, ServiceFits, Home!MigrationIsWhole
<1>2. ASSUME NEW c \in Commands, Home!CommandStep(c) \/ Home!Killed(c)
      PROVE  HomeInv'
    BY <1>2, QuietCommands, ServiceCommands, SetupGoesOn, HomeRenamed DEF Home!CommandStep
<1>3. ASSUME NEW c \in Commands, NEW task \in Home!HomeOps \cup Home!ServiceOps, Home!Start(c, task)
      PROVE  HomeInv'
    BY <1>3, StartsCommand
<1> QED BY <1>1, <1>2, <1>3 DEF Home!Next

\* A migration arrives whole or not at all (config/homeMigration.ts), a home that
\* isInitialized takes for initialized has its files written (config/setup.ts), and
\* launchd runs no service whose file was removed (config/service.ts), if no setup is
\* killed and no two service commands overlap: both are known to break it.
THEOREM HomeIsSound ==
    ASSUME Home!HomeConstants, ~ServiceOverlaps, "setup" \notin MayBeKilled
    PROVE  Home!Spec => [](Home!MigrationIsWhole /\ Home!InitializedIsWritten /\ Home!LoadedHasPlist)
<1>1. Home!Init => HomeInv
    <2>1. SUFFICES ASSUME Home!Init PROVE HomeInv
        OBVIOUS
    <2>2. HomeType
        BY <2>1 DEF Home!Init, HomeType, HomeFile, Command, Home!NoCmd, Home!NoFile
    <2>3. CommandsFit
        BY <2>1 DEF Home!Init, CommandsFit, Home!NoCmd, Home!ServiceOps, Home!HomeFiles
    <2>4. FilesFit
        BY <2>1 DEF Home!Init, FilesFit, Home!MigrationIsWhole, Home!NoFile
    <2>5. ServiceFits
        BY <2>1 DEF Home!Init, ServiceFits, Home!NoCmd, Home!ServiceOps
    <2> QED BY <2>2, <2>3, <2>4, <2>5 DEF HomeInv
<1>2. HomeInv /\ [Home!Next]_<<home, service, cmd, cmdCount>> => HomeInv'
    BY HomeStep
<1>3. HomeInv => Home!MigrationIsWhole /\ Home!InitializedIsWritten /\ Home!LoadedHasPlist
    <2>1. SUFFICES ASSUME HomeInv PROVE Home!InitializedIsWritten /\ Home!LoadedHasPlist
        BY DEF HomeInv, FilesFit
    <2>2. Home!InitializedIsWritten
        <3>1. "config" \in Home!HomeFiles /\ "soul" \in Home!HomeFiles
            BY DEF Home!HomeFiles
        <3> QED BY <2>1, <3>1 DEF HomeInv, FilesFit, CommandsFit, Home!InitializedIsWritten, Home!Quiet,
                                  Home!IsInitialized
    <2>3. Home!LoadedHasPlist
        BY <2>1 DEF HomeInv, ServiceFits, Home!LoadedHasPlist
    <2> QED BY <2>2, <2>3
<1> QED BY <1>1, <1>2, <1>3, PTL DEF Home!Spec, Home!homeVars
=============================================================================
