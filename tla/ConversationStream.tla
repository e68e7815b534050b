------------------------- MODULE ConversationStream -------------------------
(***************************************************************************)
(* How a terminal client follows the runs of one session: the run files    *)
(* and the change journal of src/runs/storage/jsonFileRunStorage.ts, the   *)
(* event stream of src/gateway/conversationStream.ts and the client of     *)
(* src/tui/client.ts, which reconnects with the cursor it reached.         *)
(*                                                                         *)
(* A write of a run is two writes on disk, the run and then the journal,   *)
(* and a stream reads the run files one at a time, so the steps of writers *)
(* and streams interleave here as the awaits let them.  The content of a   *)
(* run is its revision: how often it was written.                          *)
(*                                                                         *)
(* An event reaches the client when it is sent.  Events arrive in order on *)
(* one connection and only the client reads what arrived, so delaying one  *)
(* shows nothing new, and an event that is lost is a connection that       *)
(* dropped before it was sent.                                             *)
(***************************************************************************)
EXTENDS Integers, Sequences, FiniteSets

CONSTANTS
    Runs,           \* runs of the session
    Scheduled,      \* the runs that carry scheduler metadata
    Clients,        \* terminal clients watching the session
    Retained,       \* changes the journal keeps (512)
    HistoryLimit,   \* runs a snapshot holds (100)
    MaxRevision,    \* bound: revisions of a run, but for recovery's
    MaxCrashes,     \* bound: crashes of the gateway
    MaxDrops        \* bound: dropped connections and restarted clients

StreamConstants ==
    /\ Scheduled \subseteq Runs /\ IsFiniteSet(Runs)
    /\ Retained \in Nat \ {0} /\ HistoryLimit \in Nat \ {0}
    /\ {MaxRevision, MaxCrashes, MaxDrops} \subseteq Nat

VARIABLES
    gateway,    \* "down", "recovering" or "serving"
    state,      \* revision of each run on disk; 0: no such file
    born,       \* createdAt of each run, as its place among the runs
    ended,      \* ordinary runs whose status on disk is final
    log,        \* every entry the journal ever had; it keeps the last ones
    writes,     \* revisions on disk whose journal entry is still to come
    stream,     \* the loop that serves each client
    view,       \* the snapshot each client holds
    crashes, drops

vars == <<gateway, state, born, ended, log, writes, stream, view, crashes, drops>>
store == <<gateway, state, born, ended, log, writes>>

Revisions == Nat
Entry     == [run : Runs, rev : Revisions \ {0}]
NoRuns    == [r \in Runs |-> 0]
NoView    == [cursor |-> -1, runs |-> NoRuns]
Closed    == [pc |-> "closed", resumed |-> FALSE, initial |-> FALSE, cursor |-> 0,
              unread |-> {}, read |-> NoRuns, todo |-> {}]

Init ==
    /\ gateway = "down"
    /\ state = NoRuns /\ born = NoRuns /\ ended = {}
    /\ log = <<>> /\ writes = {}
    /\ stream = [c \in Clients |-> Closed]
    /\ view = [c \in Clients |-> NoView]
    /\ crashes = 0 /\ drops = 0

Existing == {r \in Runs : state[r] > 0}
Newer(r) == {s \in Existing : born[s] > born[r]}

-----------------------------------------------------------------------------
(* Writers. *)

\* A bug: runs are numbered from 0.
WriteStateUncounted(r) ==
    /\ state' = [state EXCEPT ![r] = @ + 1]
    /\ writes' = writes \cup {<<r, state[r]>>}

\* writeRun up to the rename of the run file.
WriteState(r) ==
    /\ state' = [state EXCEPT ![r] = @ + 1]
    /\ writes' = writes \cup {<<r, state[r] + 1>>}

\* createRun, under the session's admission lock.  createdAt is later than
\* that of the newest run.
CreateRun(r) ==
    /\ gateway = "serving" /\ state[r] = 0
    /\ \A w \in writes : w[2] # 1
    /\ WriteState(r)
    /\ born' = [born EXCEPT ![r] = Cardinality(Existing) + 1]
    /\ UNCHANGED <<gateway, ended, log, stream, view, crashes, drops>>

\* updateRun, addToolCall, addLlmUsage, under the lock of the run; the creator
\* of the run does not hold that lock.
UpdateRun(r) ==
    /\ gateway = "serving" /\ state[r] \in 1..(MaxRevision - 1)
    /\ \A w \in writes : w[1] = r => w[2] = 1
    /\ WriteState(r)
    /\ ended' \in {ended, ended \cup ({r} \ Scheduled)}
    /\ UNCHANGED <<gateway, born, log, stream, view, crashes, drops>>

\* writeRun, the journal entry.
Journal(w) ==
    /\ w \in writes
    /\ log' = Append(log, [run |-> w[1], rev |-> w[2]])
    /\ writes' = writes \ {w}
    /\ UNCHANGED <<gateway, state, born, ended, stream, view, crashes, drops>>

-----------------------------------------------------------------------------
(* The gateway process. *)

Boot ==
    /\ gateway = "down"
    /\ gateway' = "recovering"
    /\ UNCHANGED <<state, born, ended, log, writes, stream, view, crashes, drops>>

Interrupted == Existing \ (Scheduled \cup ended)

\* recoverInterruptedRuns, one run after the other.
Recover(r) ==
    /\ gateway = "recovering" /\ writes = {}
    /\ r \in Interrupted
    /\ WriteState(r)
    /\ ended' = ended \cup {r}
    /\ UNCHANGED <<gateway, born, log, stream, view, crashes, drops>>

Serve ==
    /\ gateway = "recovering" /\ writes = {} /\ Interrupted = {}
    /\ gateway' = "serving"
    /\ UNCHANGED <<state, born, ended, log, writes, stream, view, crashes, drops>>

Crash ==
    /\ gateway # "down" /\ crashes < MaxCrashes
    /\ gateway' = "down" /\ crashes' = crashes + 1
    /\ writes' = {}
    /\ stream' = [c \in Clients |-> Closed]
    /\ UNCHANGED <<state, born, ended, log, view, drops>>

-----------------------------------------------------------------------------
(* The stream of a client. *)

\* The entries the journal has kept.
FirstKept == IF Len(log) > Retained THEN Len(log) - Retained + 1 ELSE 1
Kept      == FirstKept..Len(log)

\* A bug: off by one at the oldest entry kept.
ResetLate(cursor) == cursor > Len(log) \/ cursor < FirstKept - 2

\* readChanges: whether the journal no longer holds all that follows a cursor.
Reset(cursor) == cursor > Len(log) \/ cursor < FirstKept - 1

\* The latest entry of every run among those after a cursor.
Latest(cursor) ==
    {i \in Kept :
        /\ i > cursor
        /\ \A j \in Kept : j > i => log[j].run # log[i].run}

\* watch: the request carries the cursor of the snapshot the client holds.
Connect(c) ==
    /\ gateway = "serving" /\ stream[c].pc = "closed"
    /\ LET resumed == view[c].cursor >= 0
       IN  stream' = [stream EXCEPT ![c] =
                [Closed EXCEPT !.pc = "poll", !.initial = TRUE, !.resumed = resumed,
                               !.cursor = IF resumed THEN view[c].cursor ELSE 0]]
    /\ UNCHANGED <<store, view, crashes, drops>>

\* The loop's read of the journal.  It leaves the watermark in cursor: for a
\* snapshot at once, for a replay after its events, which do not use it.
NeedsSnapshot(c) ==
    Reset(stream[c].cursor) \/ (stream[c].initial /\ ~stream[c].resumed)

PollForSnapshot(c) ==
    /\ stream[c].pc = "poll" /\ NeedsSnapshot(c)
    /\ stream' = [stream EXCEPT ![c].pc = "list", ![c].cursor = Len(log)]
    /\ UNCHANGED <<store, view, crashes, drops>>

PollForReplay(c) ==
    /\ stream[c].pc = "poll" /\ ~NeedsSnapshot(c)
    /\ stream' = [stream EXCEPT ![c].pc = "replay", ![c].cursor = Len(log),
                                ![c].todo = Latest(stream[c].cursor)]
    /\ UNCHANGED <<store, view, crashes, drops>>

\* listHistory: readdir, then the run files one after the other.
ListRuns(c) ==
    /\ stream[c].pc = "list"
    /\ stream' = [stream EXCEPT ![c].pc = "read", ![c].unread = Existing,
                                ![c].read = NoRuns]
    /\ UNCHANGED <<store, view, crashes, drops>>

ReadRun(c, r) ==
    /\ stream[c].pc = "read" /\ r \in stream[c].unread
    /\ stream' = [stream EXCEPT ![c].unread = @ \ {r}, ![c].read[r] = state[r]]
    /\ UNCHANGED <<store, view, crashes, drops>>

\* The newest of the runs read, the page a snapshot holds.
Page(read) ==
    [r \in Runs |->
        IF Cardinality({s \in Newer(r) : read[s] > 0}) < HistoryLimit THEN read[r] ELSE 0]

\* A snapshot replaces what the client held.
SendSnapshot(c) ==
    /\ stream[c].pc = "read" /\ stream[c].unread = {}
    /\ view' = [view EXCEPT ![c] = [cursor |-> stream[c].cursor, runs |-> Page(stream[c].read)]]
    /\ stream' = [stream EXCEPT ![c].pc = "metadata", ![c].read = NoRuns]
    /\ UNCHANGED <<store, crashes, drops>>

\* A bug: the journal holds the revision, and a replay sends that one.
SendRunJournalled(c, i) ==
    /\ stream[c].pc = "replay" /\ i \in stream[c].todo
    /\ \A j \in stream[c].todo : i <= j
    /\ stream' = [stream EXCEPT ![c].todo = @ \ {i}]
    /\ view' = IF i <= view[c].cursor THEN view
               ELSE [view EXCEPT ![c].cursor = i, ![c].runs[log[i].run] = log[i].rev]
    /\ UNCHANGED <<store, crashes, drops>>

\* A run event, in the order of the entries.  The run is read now, and a client
\* ignores an event its cursor has passed.
SendRun(c, i) ==
    /\ stream[c].pc = "replay" /\ i \in stream[c].todo
    /\ \A j \in stream[c].todo : i <= j
    /\ stream' = [stream EXCEPT ![c].todo = @ \ {i}]
    /\ view' = IF i <= view[c].cursor THEN view
               ELSE [view EXCEPT ![c].cursor = i,
                                 ![c].runs[log[i].run] = state[log[i].run]]
    /\ UNCHANGED <<store, crashes, drops>>

\* The end of a round: a session event when the metadata differs from the last
\* sent, at the latest in the first round, and a pause.
EndRound(c, differs) ==
    /\ \/ stream[c].pc = "metadata"
       \/ stream[c].pc = "replay" /\ stream[c].todo = {}
    /\ stream[c].initial => differs
    /\ stream' = [stream EXCEPT ![c].pc = "poll", ![c].initial = FALSE]
    /\ view' = IF differs THEN [view EXCEPT ![c].cursor = stream[c].cursor] ELSE view
    /\ UNCHANGED <<store, crashes, drops>>

-----------------------------------------------------------------------------
(* Connections drop, and a client may start again without its snapshot. *)

Drop(c) ==
    /\ stream[c].pc # "closed" /\ drops < MaxDrops
    /\ stream' = [stream EXCEPT ![c] = Closed]
    /\ drops' = drops + 1
    /\ UNCHANGED <<store, view, crashes>>

RestartClient(c) ==
    /\ view[c] # NoView /\ drops < MaxDrops
    /\ stream' = [stream EXCEPT ![c] = Closed]
    /\ view' = [view EXCEPT ![c] = NoView]
    /\ drops' = drops + 1
    /\ UNCHANGED <<store, crashes>>

-----------------------------------------------------------------------------
Writing ==
    \/ \E r \in Runs : CreateRun(r) \/ UpdateRun(r)
    \/ \E w \in writes : Journal(w)

Process == Boot \/ Serve \/ Crash \/ \E r \in Runs : Recover(r)

Streaming(c) ==
    \/ PollForSnapshot(c) \/ PollForReplay(c) \/ ListRuns(c)
    \/ \E r \in Runs : ReadRun(c, r)
    \/ SendSnapshot(c)
    \/ \E i \in stream[c].todo : SendRun(c, i)
    \/ \E differs \in BOOLEAN : EndRound(c, differs)

Next ==
    \/ Writing \/ Process
    \/ \E c \in Clients : Connect(c) \/ Streaming(c) \/ Drop(c) \/ RestartClient(c)

Spec == Init /\ [][Next]_vars

\* A pending journal entry is written, the supervisor starts the gateway again,
\* the loop of a stream goes on, and the watch loop of a client reconnects.
Fairness ==
    /\ WF_vars(\E w \in writes : Journal(w))
    /\ WF_vars(Boot) /\ WF_vars(Serve) /\ WF_vars(\E r \in Runs : Recover(r))
    /\ \A c \in Clients : WF_vars(Connect(c)) /\ WF_vars(Streaming(c))

FairSpec == Spec /\ Fairness

-----------------------------------------------------------------------------
(* What a client may rely on. *)

\* Every variable has its type.
TypeOK ==
    /\ gateway \in {"down", "recovering", "serving"}
    /\ state \in [Runs -> Revisions] /\ born \in [Runs -> Nat]
    /\ ended \subseteq Runs
    /\ log \in Seq(Entry)
    /\ writes \subseteq Runs \X (Revisions \ {0})
    /\ stream \in [Clients ->
            [pc : {"closed", "poll", "list", "read", "replay", "metadata"},
             resumed : BOOLEAN, initial : BOOLEAN, cursor : Nat,
             unread : SUBSET Runs, read : [Runs -> Revisions], todo : SUBSET Nat]]
    /\ view \in [Clients -> [cursor : Nat \cup {-1}, runs : [Runs -> Revisions]]]
    /\ crashes \in 0..MaxCrashes /\ drops \in 0..MaxDrops

\* A run a snapshot need not hold: enough others are newer.
OffThePage(r) == Cardinality(Newer(r)) >= HistoryLimit

Shows(c, e) ==
    \/ view[c].runs[e.run] >= e.rev
    \/ view[c].runs[e.run] = 0 /\ OffThePage(e.run)

\* A client's cursor never passes a change the client has not seen, unless a
\* later change of the same run is still ahead of the cursor and brings it: no
\* change is lost between a snapshot and the replay after it, in a replay cut
\* short, or behind the journal's limit.  conversationStream.ts:25-26: changes
\* "can never fall between the snapshot and replay".
CursorCovers ==
    \A c \in Clients : \A i \in 1..view[c].cursor :
        /\ i <= Len(log)
        /\ \/ Shows(c, log[i])
           \/ \E j \in 1..Len(log) : j > view[c].cursor /\ log[j].run = log[i].run

\* What a client shows of a run never becomes an older revision, although
\* snapshots, replays and reconnections read the run at different times.
RevisionsNeverGoBack ==
    [][\A c \in Clients, r \in Runs :
        \/ view'[c].runs[r] >= view[c].runs[r]
        \/ view'[c] = NoView
        \/ view'[c].runs[r] = 0 /\ OffThePage(r)]_vars

\* Every journalled change reaches every client that goes on watching.
JournalReachesClients ==
    \A c \in Clients : <>[](\A i \in 1..Len(log) : Shows(c, log[i]))

\* Durable replay (conversationStream.ts:8, docs/architecture/tui.md:35): a
\* client that goes on watching ends up showing the run as it is on disk.
ClientsCatchUp ==
    \A c \in Clients, r \in Runs :
        <>[](Shows(c, [run |-> r, rev |-> state[r]]))

=============================================================================
