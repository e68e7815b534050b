---------------------------- MODULE TelegramChat ----------------------------
(***************************************************************************)
(* One chat of src/channels/telegram/adapter.ts: duplicate updates, the    *)
(* session the chat is bound to, turns submitted as jobs and polled, and   *)
(* replies kept in the order of the messages.                              *)
(*                                                                         *)
(* Messages are numbered as the user sent them, handlers as the updates    *)
(* arrived.  Telegram may deliver an update again; a crash loses handlers, *)
(* and the next boot fails interrupted runs (ChatTurns).  Messages without *)
(* text or from strangers change no state and are left out, as are         *)
(* typing feedback and the progress message.                               *)
(***************************************************************************)
EXTENDS Naturals, Sequences, SequencesExt, Filters

CONSTANTS
    Workloads,      \* what the user sends: sequences of kinds of messages
    MaxMessages,    \* bound: messages of a workload
    MaxEntries,     \* TELEGRAM_INGRESS_DEDUPE_MAX_ENTRIES
    MaxParts,       \* bound: chunks and artifacts of a reply
    MaxRepeats,     \* bound: updates delivered again
    MaxCrashes      \* bound: crashes

\* "command": a control command of ChatService, which creates no run.
Kinds == {"task", "command", "label", "newsession", "yes"}

\* What the constants may be.
TelegramConstants ==
    /\ \A w \in Workloads : w \in Seq(Kinds) /\ Len(w) <= MaxMessages
    /\ MaxEntries \in Nat \ {0} /\ MaxParts \in Nat \ {0}
    /\ MaxMessages \in Nat /\ MaxRepeats \in Nat /\ MaxCrashes \in Nat

VARIABLES
    kind,           \* the messages of this behaviour
    sent,           \* updates Telegram has delivered at least once
    repeats, crashes,
    seen,           \* TelegramIngressDeduper.entries, oldest first
    pendingConfirm, \* the next message answers /newsession
    reserved,       \* outboundTails: handlers with an unreleased reservation, each
                    \* behind those of the updates before its own
    handlers,       \* handleMessage calls of this process
    bound, label,   \* the record of channel-sessions.json; bound = 0: none
    sessions,       \* number of sessions created
    runs,           \* runs of this chat, by session and message
    lastSent        \* handler whose reply was sent last (not in the code)

durable  == <<bound, label, sessions, runs>>
ingress  == <<kind, sent, repeats, crashes, seen, pendingConfirm>>
vars     == <<ingress, reserved, handlers, durable, lastSent>>

Messages == 1..Len(kind)
Handling == DOMAIN handlers

Init ==
    /\ kind \in Workloads
    /\ sent = 0 /\ repeats = 0 /\ crashes = 0
    /\ seen = <<>> /\ pendingConfirm = FALSE
    /\ reserved = {} /\ handlers = <<>>
    /\ bound = 0 /\ label = FALSE /\ sessions = 0
    /\ runs = <<>>
    /\ lastSent = 0

-----------------------------------------------------------------------------
(* Ingress: everything up to the first await of a handler is one step. *)

\* hasSeen refreshes an entry; a new one evicts the oldest of a full map.
Remember(m) ==
    LET kept == Append(Those(seen, ToSet(seen) \ {m}), m)
    IN  seen' = IF Len(kept) > MaxEntries THEN Tail(kept) ELSE kept

Starts(m) ==
    IF pendingConfirm THEN IF kind[m] = "yes" THEN "confirm" ELSE "tell"
    ELSE IF kind[m] = "newsession" THEN "tell" ELSE "bind"

\* handleRun reserves its reply before it awaits anything.
ReservesReply(m) == Starts(m) = "bind" /\ kind[m] # "label"

Handler(m, pc) ==
    [msg |-> m, pc |-> pc, session |-> 0, label |-> FALSE, error |-> FALSE, parts |-> 0]

Handle(m) ==
    LET h == Len(handlers) + 1 IN
    /\ handlers' = Append(handlers, Handler(m, Starts(m)))
    /\ reserved' = IF ReservesReply(m) THEN reserved \cup {h} ELSE reserved
    /\ pendingConfirm' = (~pendingConfirm /\ kind[m] = "newsession")

Update(m) ==
    /\ Remember(m)
    /\ IF m \in ToSet(seen)
       THEN UNCHANGED <<handlers, reserved, pendingConfirm>>
       ELSE Handle(m)
    /\ UNCHANGED <<kind, crashes, durable, lastSent>>

NewUpdate      == sent < Len(kind) /\ sent' = sent + 1 /\ Update(sent + 1) /\ UNCHANGED repeats
RepeatUpdate   == \E m \in 1..sent :
                    repeats < MaxRepeats /\ repeats' = repeats + 1 /\ Update(m) /\ UNCHANGED sent

\* Entries expire in their order.
ForgetUpdate ==
    /\ seen # <<>> /\ repeats < MaxRepeats
    /\ seen' = Tail(seen)
    /\ UNCHANGED <<kind, sent, repeats, crashes, pendingConfirm, reserved, handlers, durable, lastSent>>

-----------------------------------------------------------------------------
(* A handler. *)

At(h, pc)     == handlers[h].pc = pc
Kind(h)       == kind[handlers[h].msg]
To(h, record) == handlers' = [handlers EXCEPT ![h] = record]
Go(h, pc)     == To(h, [handlers[h] EXCEPT !.pc = pc])
Return(h)     == To(h, Handler(handlers[h].msg, "done"))
idle          == <<ingress, reserved, lastSent>>

\* getOrCreateSessionId, under the file lock of the binding.
Bind(h) ==
    /\ At(h, "bind")
    /\ sessions' = IF bound = 0 THEN sessions + 1 ELSE sessions
    /\ bound' = IF bound = 0 THEN sessions + 1 ELSE bound
    /\ To(h, [handlers[h] EXCEPT !.pc = IF Kind(h) = "label" THEN "setLabel" ELSE "readLabel",
                                 !.session = bound'])
    /\ UNCHANGED <<idle, label, runs>>

SetLabel(h) ==
    /\ At(h, "setLabel")
    /\ label' = (bound # 0)
    /\ Go(h, "tell")
    /\ UNCHANGED <<idle, bound, sessions, runs>>

\* doNewSession: resetSession does nothing for a chat without a record.
NewSession(h) ==
    /\ At(h, "confirm")
    /\ sessions' = sessions + 1
    /\ bound' = IF bound = 0 THEN 0 ELSE sessions + 1
    /\ Go(h, "tell")
    /\ UNCHANGED <<idle, label, runs>>

\* A notice that waits for no reservation; a failed send is logged.
Tell(h) ==
    /\ At(h, "tell") /\ Return(h)
    /\ UNCHANGED <<idle, durable>>

ReadLabel(h) ==
    /\ At(h, "readLabel")
    /\ To(h, [handlers[h] EXCEPT !.pc = "submit", !.label = label /\ Kind(h) # "command"])
    /\ UNCHANGED <<idle, durable>>

\* A command is executed at once, under the mutex of the session.
SubmitCommand(h) ==
    /\ At(h, "submit") /\ Kind(h) = "command"
    /\ \A r \in DOMAIN runs : r[1] = handlers[h].session => runs[r].ended
    /\ Go(h, "ready")
    /\ UNCHANGED <<idle, durable>>

\* handleTurn: a run of the same request is answered with, unless its text,
\* the label included, differs (request_id_conflict).
Submit(h) ==
    LET w == handlers[h]  request == <<w.session, w.msg>> IN
    /\ At(h, "submit") /\ Kind(h) # "command"
    /\ IF request \notin DOMAIN runs
       THEN /\ runs' = [r \in DOMAIN runs \cup {request} |->
                           IF r = request THEN [ended |-> FALSE, label |-> w.label] ELSE runs[r]]
            /\ Go(h, "poll")
       ELSE /\ UNCHANGED runs
            /\ IF runs[request].label = w.label THEN Go(h, "poll")
               ELSE To(h, [w EXCEPT !.pc = "ready", !.error = TRUE])
    /\ UNCHANGED <<idle, bound, label, sessions>>

\* In any order, which is more than the mutex of a session allows.
RunEnds(r) ==
    /\ ~runs[r].ended
    /\ runs' = [runs EXCEPT ![r].ended = TRUE]
    /\ UNCHANGED <<idle, handlers, bound, label, sessions>>

\* pollUntilDone sees the run ended, or gives up after 10 minutes.
Poll(h) ==
    LET w == handlers[h] IN
    /\ At(h, "poll")
    /\ \E gaveUp \in BOOLEAN :
         /\ gaveUp \/ runs[<<w.session, w.msg>>].ended
         /\ To(h, [w EXCEPT !.pc = "ready", !.error = gaveUp])
    /\ UNCHANGED <<idle, durable>>

\* A store call throws: the error is the reply, a command just ends.
HandlerFails(h) ==
    /\ handlers[h].pc \in {"bind", "setLabel", "confirm", "readLabel", "submit", "poll"}
    /\ IF h \in reserved
       THEN To(h, [handlers[h] EXCEPT !.pc = "ready", !.error = TRUE])
       ELSE Return(h)
    /\ UNCHANGED <<idle, durable>>

-----------------------------------------------------------------------------
(* Replies. *)

\* Mutant: earlier reservations are not awaited.
MayDeliverAtOnce(h) == h \in reserved

\* reserveOutboundDelivery: `await previous`.
MayDeliver(h) == h \in reserved /\ \A x \in reserved : h <= x

\* Mutant: the reservation is released on success only.
ReleaseOnSuccess(h, failed) == reserved' = IF failed THEN reserved ELSE reserved \ {h}

\* The finally of a delivery.
Release(h, failed) == reserved' = reserved \ {h}

StartDelivery(h) ==
    /\ At(h, "ready") /\ MayDeliver(h)
    /\ Go(h, "deliver")
    /\ UNCHANGED <<idle, durable>>

\* A chunk or an artifact, or the one error message.
SendPart(h) ==
    LET w == handlers[h] IN
    /\ At(h, "deliver")
    /\ lastSent' = h
    /\ \E more \in BOOLEAN :
         /\ more => ~w.error /\ w.parts + 1 < MaxParts
         /\ IF more
            THEN To(h, [w EXCEPT !.parts = @ + 1]) /\ UNCHANGED reserved
            ELSE Return(h) /\ Release(h, FALSE)
    /\ UNCHANGED <<ingress, durable>>

\* The answer to a task is replaced by an error message; a command's is not.
SendFails(h) ==
    LET w == handlers[h] IN
    /\ At(h, "deliver")
    /\ IF w.error \/ Kind(h) = "command"
       THEN Return(h) /\ Release(h, TRUE)
       ELSE To(h, [w EXCEPT !.error = TRUE]) /\ UNCHANGED reserved
    /\ UNCHANGED <<ingress, durable, lastSent>>

-----------------------------------------------------------------------------
(* A crash, and the boot after it. *)

Crash ==
    /\ crashes < MaxCrashes /\ crashes' = crashes + 1
    /\ handlers' = <<>> /\ reserved' = {} /\ seen' = <<>> /\ pendingConfirm' = FALSE
    /\ lastSent' = 0
    /\ runs' = [r \in DOMAIN runs |-> [runs[r] EXCEPT !.ended = TRUE]]
    /\ UNCHANGED <<kind, sent, repeats, bound, label, sessions>>

HandlerStep(h) ==
    \/ Bind(h) \/ SetLabel(h) \/ NewSession(h) \/ Tell(h) \/ ReadLabel(h)
    \/ SubmitCommand(h) \/ Submit(h) \/ Poll(h) \/ StartDelivery(h) \/ SendPart(h) \/ SendFails(h)

RunsGoOn     == \E r \in DOMAIN runs : RunEnds(r)
HandlersGoOn == \E h \in Handling : HandlerStep(h)

Next ==
    \/ NewUpdate \/ RepeatUpdate \/ ForgetUpdate \/ Crash
    \/ HandlersGoOn \/ \E h \in Handling : HandlerFails(h)
    \/ RunsGoOn

\* Store calls and sends return, the poll has a deadline; turns end, see
\* AgentTurn and CodexTurn.  A handler takes finitely many steps, so none is
\* passed over for ever.
Fairness == WF_vars(HandlersGoOn) /\ WF_vars(RunsGoOn)

Spec == Init /\ [][Next]_vars

FairSpec == Spec /\ Fairness

-----------------------------------------------------------------------------
(* Properties. *)

\* Every variable has its type.
TypeOK ==
    /\ kind \in Workloads /\ sent \in 0..Len(kind)
    /\ repeats \in 0..MaxRepeats /\ crashes \in 0..MaxCrashes
    /\ ToSet(seen) \subseteq Messages /\ Len(seen) <= MaxEntries
    /\ pendingConfirm \in BOOLEAN /\ label \in BOOLEAN
    /\ reserved \subseteq Handling
    /\ \A h \in Handling : handlers[h] \in
         [msg : Messages, session : 0..sessions, label : BOOLEAN, error : BOOLEAN,
          parts : 0..(MaxParts - 1),
          pc : {"bind", "setLabel", "confirm", "tell", "readLabel", "submit", "poll",
                "ready", "deliver", "done"}]
    /\ bound \in 0..sessions /\ sessions \in 0..Len(kind) + MaxRepeats
    /\ DOMAIN runs \subseteq (1..sessions) \X Messages
    /\ \A r \in DOMAIN runs : runs[r] \in [ended : BOOLEAN, label : BOOLEAN]
    /\ lastSent \in {0} \cup Handling

\* Replies reach the chat in the order their messages came in, no part of a
\* reply between parts of another, whichever run ends, fails or is given up
\* first.
RepliesKeepOrder == [][lastSent' # 0 => lastSent' >= lastSent]_vars

AllAnswered == \A h \in Handling : At(h, "done")

\* Every message that is being handled gets its reply or its error, unless the
\* process dies: no failure of one reply strands those behind it, and a
\* command waiting for the turns before it does not either.  (Updates are
\* finitely many.)
MessagesAreAnswered == []<>AllAnswered

-----------------------------------------------------------------------------
(* What the documents say and the code does not do. *)

\* docs/changelog.md: "Telegram retries cannot create duplicate turns".
OneTurnPerMessage ==
    \A r, t \in DOMAIN runs : r[2] = t[2] => r = t
=============================================================================
