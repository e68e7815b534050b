---------------------------- MODULE SessionFiles ----------------------------
(***************************************************************************)
(* The gateway's small JSON files: sessions.json, channel-sessions.json    *)
(* and identity-links.json.  Every update reads the whole file and writes  *)
(* it back under a lock that orders the updates of a file in one process   *)
(* (src/utils/fs.ts).  The operations are those of SessionStore,           *)
(* ChannelSessionStore and IdentityStore, as the routes of gateway/app.ts  *)
(* and the Telegram adapter compose them.                                  *)
(*                                                                         *)
(* A session, a label and a linked user are named by the operation that    *)
(* made them.  One session (Default) and one chat are enough: the files    *)
(* are shared by all.                                                      *)
(***************************************************************************)
EXTENDS Naturals, Sequences, FiniteSets, SequencesExt

CONSTANTS
    Ops,             \* calls
    Default,         \* the session that bootstrap creates
    AttachMayRace,   \* whether the chat is attached while others change it
    MaxFileFaults    \* bound on crashes and failed writes

SessionFileConstants ==
    /\ Default \notin Ops /\ "none" \notin Ops \cup {Default}
    /\ AttachMayRace \in BOOLEAN /\ MaxFileFaults \in Nat

VARIABLES
    files,      \* the three files
    fileTails,  \* withFileLock: who waits for each path, the holder first
    call,       \* each operation
    undone,     \* history: memory patches that a reset removed
    fileFaults  \* crashes and failed writes so far

fileVars == <<files, fileTails, call, undone, fileFaults>>

Paths == {"sessions", "bindings", "links", "binding-lock"}
NoSession == [memory |-> {}, exists |-> FALSE]
NoBinding == [session |-> "none", label |-> "none"]
NewSession == [memory |-> {}, exists |-> TRUE]

\* What each call does, in order: an update of a file, or a look at one.
Programs ==
    [create |-> <<"sessions">>,                                   \* POST /v1/sessions
     patch  |-> <<"sessions">>,                                   \* updateWorkingMemory, touchSession
     reset  |-> <<"sessions">>,                                   \* resetWorkingMemory
     bind   |-> <<"binding-lock", "sessions", "bindings">>,       \* getOrCreate
     renew  |-> <<"sessions", "bindings">>,                       \* /newsession
     label  |-> <<"bindings">>,                                   \* setLabel
     attach |-> <<"look", "bindings">>,                           \* POST /v1/channels/attach
     link   |-> <<"links">>,                                      \* linkTelegram
     unlink |-> <<"links">>]                                      \* unlinkTelegram
Kinds == DOMAIN Programs

Init ==
    /\ \E b \in {NoBinding, [session |-> Default, label |-> "none"]} :
         files = [sessions |-> [s \in Ops \cup {Default} |-> IF s = Default THEN NewSession ELSE NoSession],
                  bindings |-> b, links |-> {}]
    /\ fileTails = [p \in Paths |-> <<>>]
    /\ call = [o \in Ops |-> [pc |-> "new"]]
    /\ undone = {} /\ fileFaults = 0

Step(o) == call[o].program[1]
Waits(o) == call[o].pc = "wait"
Holds(o, p) == fileTails[p] # <<>> /\ Head(fileTails[p]) = o
Goes(o, pc) == call' = [call EXCEPT ![o].pc = pc]

\* The call goes on with what is left of its program, or returns.
NextStep(o, rest) ==
    call' = [call EXCEPT ![o] = [@ EXCEPT !.program = rest,
                                          !.pc = IF rest = <<>> THEN "done" ELSE "enter"]]

-----------------------------------------------------------------------------

Start(o, k) ==
    /\ call[o].pc = "new"
    /\ k = "attach" => AttachMayRace \/ \A q \in Ops : call[q].pc \in {"new", "done", "failed"}
    /\ call' = [call EXCEPT ![o] = [pc |-> "enter", kind |-> k, program |-> Programs[k], seen |-> NoBinding]]
    /\ UNCHANGED <<files, fileTails, undone, fileFaults>>

\* withFileLock appends to the promises of its path.
Enter(o) ==
    /\ call[o].pc = "enter" /\ Step(o) # "look"
    /\ fileTails' = [fileTails EXCEPT ![Step(o)] = Append(@, o)]
    /\ Goes(o, "wait")
    /\ UNCHANGED <<files, undone, fileFaults>>

\* attach: the session must exist, and a Telegram chat must be bound.
Look(o) ==
    /\ call[o].pc = "enter" /\ Step(o) = "look"
    /\ IF files.bindings = NoBinding
       THEN Goes(o, "done")
       ELSE call' = [call EXCEPT ![o] = [@ EXCEPT !.seen = files.bindings,
                                                      !.program = Tail(call[o].program)]]
    /\ UNCHANGED <<files, fileTails, undone, fileFaults>>

\* getOrCreate, in the lock of the binding: an existing one is returned.
FindBinding(o) ==
    /\ Waits(o) /\ Step(o) = "binding-lock" /\ Holds(o, "binding-lock")
    /\ IF files.bindings # NoBinding
       THEN /\ fileTails' = [fileTails EXCEPT !["binding-lock"] = Tail(@)]
            /\ Goes(o, "done")
       ELSE NextStep(o, Tail(call[o].program)) /\ UNCHANGED fileTails
    /\ UNCHANGED <<files, undone, fileFaults>>

\* updateJsonFile reads; a missing file is its fallback, which Init stands for.
ReadFile(o) ==
    /\ Waits(o) /\ Step(o) # "binding-lock" /\ Holds(o, Step(o))
    /\ call' = [call EXCEPT ![o] = [kind |-> @.kind, program |-> @.program, pc |-> "write",
                    seen |-> IF @.kind = "attach" THEN @.seen ELSE NoBinding, read |-> files[Step(o)]]]
    /\ UNCHANGED <<files, fileTails, undone, fileFaults>>

\* The update function of each call; one whose target is missing changes nothing.
Updated(o, value) ==
    LET k == call[o].kind IN
    CASE Step(o) = "sessions" /\ k \in {"create", "bind", "renew"} -> [value EXCEPT ![o] = NewSession]
      [] k = "patch" -> [value EXCEPT ![Default].memory = @ \cup {o}]
      [] k = "reset" -> [value EXCEPT ![Default].memory = {}]
      [] Step(o) = "bindings" /\ k = "bind" -> [session |-> o, label |-> "none"]
      [] Step(o) = "bindings" /\ k = "renew" ->
             IF value = NoBinding THEN value ELSE [value EXCEPT !.session = o]
      [] k = "label" -> IF value = NoBinding THEN value ELSE [value EXCEPT !.label = o]
      [] k = "attach" -> [session |-> Default, label |-> call[o].seen.label]
      [] k = "link" -> value \cup {o}
      [] k = "unlink" -> {}

\* A lock that is given back goes to the next one in its queue.
LetGo(o, p) == IF Holds(o, p) THEN Tail(fileTails[p]) ELSE fileTails[p]

\* Locks that a call gives back at the end of a step: getOrCreate keeps the
\* binding's until the binding is written.
Released(o) ==
    [p \in Paths |-> IF p = Step(o) \/ (p = "binding-lock" /\ Len(call[o].program) = 1)
                     THEN LetGo(o, p) ELSE fileTails[p]]

\* writeJsonFile renames a complete file over the old one.
WriteFile(o) ==
    /\ call[o].pc = "write"
    /\ files' = [files EXCEPT ![Step(o)] = Updated(o, call[o].read)]
    /\ undone' = IF call[o].kind = "reset" THEN undone \cup call[o].read[Default].memory ELSE undone
    /\ fileTails' = Released(o)
    /\ call' = [call EXCEPT ![o] = [kind |-> @.kind, program |-> Tail(@.program), seen |-> @.seen,
                                    pc |-> IF Len(@.program) = 1 THEN "done" ELSE "enter"]]
    /\ UNCHANGED fileFaults

-----------------------------------------------------------------------------

\* Reading a broken file, or writing, fails: the call rejects and lets go of
\* everything it holds.
UpdateFails(o) ==
    /\ fileFaults < MaxFileFaults /\ fileFaults' = fileFaults + 1
    /\ call[o].pc = "write" \/ (Waits(o) /\ Holds(o, Step(o)))
    /\ fileTails' = [p \in Paths |-> LetGo(o, p)]
    /\ Goes(o, "failed")
    /\ UNCHANGED <<files, undone>>

\* The gateway is killed and started again: its calls and locks are gone, a
\* temporary file stays behind that nobody reads.
Crash ==
    /\ fileFaults < MaxFileFaults /\ fileFaults' = fileFaults + 1
    /\ fileTails' = [p \in Paths |-> <<>>]
    /\ call' = [o \in Ops |-> IF call[o].pc \in {"enter", "wait", "write"}
                              THEN [call[o] EXCEPT !.pc = "failed"] ELSE call[o]]
    /\ UNCHANGED <<files, undone>>

FileStep(o) == Enter(o) \/ Look(o) \/ FindBinding(o) \/ ReadFile(o) \/ WriteFile(o)

Next ==
    \/ \E o \in Ops : (\E k \in Kinds : Start(o, k)) \/ FileStep(o) \/ UpdateFails(o)
    \/ Crash

Spec == Init /\ [][Next]_fileVars

-----------------------------------------------------------------------------

\* Every variable has its type.
TypeOK ==
    /\ files.sessions \in [Ops \cup {Default} -> [memory : SUBSET Ops, exists : BOOLEAN]]
    /\ files.bindings.session \in Ops \cup {Default, "none"}
    /\ files.links \in SUBSET Ops
    /\ \A p \in Paths : ToSet(fileTails[p]) \subseteq Ops
    /\ \A o \in Ops : call[o].pc \in {"new", "enter", "wait", "write", "done", "failed"}
    /\ undone \in SUBSET Ops /\ fileFaults \in 0..MaxFileFaults

Returned(k) == {o \in Ops : call[o].pc = "done" /\ call[o].kind = k}

\* What an update returned for is in its file, whoever else updates the same
\* file, and a session that a chat is bound to exists.
FilesKeepUpdates ==
    /\ Returned("patch") \subseteq files.sessions[Default].memory \cup undone
    /\ \A o \in Returned("create") : files.sessions[o].exists
    /\ Returned("unlink") = {} => Returned("link") \subseteq files.links
    /\ files.bindings # NoBinding => files.sessions[files.bindings.session].exists

\* A chat whose messages arrive together gets one session: a second is only
\* made when a fault came between the first and its binding.
OneSessionPerChat ==
    Cardinality({o \in Ops : call[o].pc # "new" /\ call[o].kind = "bind" /\ files.sessions[o].exists})
        <= 1 + fileFaults

\* attach writes back the label it read before it waited for the file.
LabelsAreKept ==
    Returned("label") # {} /\ files.bindings.session = Default => files.bindings.label # "none"

\* Every call ends: a lock is always given back.
CallsEnd == \A o \in Ops : []<>(call[o].pc \in {"new", "done", "failed"})
=============================================================================
