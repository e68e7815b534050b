------------------------- MODULE GatewayClientsProofs -------------------------
(***************************************************************************)
(* Proofs about the clients for every value of the constants: of the       *)
(* stream, its type invariant, that a client's cursor passes no change the *)
(* client has not seen, and that what a client shows never gets older; of  *)
(* the page, that it shows and polls the runs of one session; of the       *)
(* account, that an answer is read only by the call that awaits it and     *)
(* that the end of a login is final; and the types of all three.           *)
(***************************************************************************)
EXTENDS GatewayClients, FiniteSetTheorems, WellFoundedInduction, TLAPS

\* The journal, the entries to come and the clients are behind the run files.
FilesAhead ==
    /\ \A i \in 1..Len(log) : log[i].rev <= state[log[i].run]
    /\ \A w \in writes : w[2] <= state[w[1]]
    /\ \A c \in Clients, r \in Runs : view[c].runs[r] <= state[r]

\* Another change of the run of entry i follows k in the journal.
Later(i, k) == \E j \in 1..Len(log) : j > k /\ log[j].run = log[i].run

\* A client that goes on from k misses nothing.
Covered(c, k) == \A i \in 1..k : i <= Len(log) /\ (Shows(c, log[i]) \/ Later(i, k))

\* A stream that is about to read the journal may leave what it holds out,
\* unless it is the first round of a client without a snapshot.
PollCovers(c) ==
    stream[c].pc = "poll" /\ (stream[c].initial => stream[c].resumed) =>
        /\ view[c].cursor <= stream[c].cursor
        /\ Covered(c, stream[c].cursor)

\* A snapshot is read after its watermark, and after all the client holds.
SnapshotCovers(c) ==
    /\ stream[c].pc \in {"list", "read"} => stream[c].cursor <= Len(log)
    /\ stream[c].pc = "read" =>
        /\ \A i \in 1..stream[c].cursor :
               log[i].run \in stream[c].unread \/ stream[c].read[log[i].run] >= log[i].rev
        /\ \A r \in Runs :
               /\ stream[c].read[r] <= state[r]
               /\ r \in stream[c].unread \/ view[c].runs[r] <= stream[c].read[r]

\* What a replay has passed is shown, still to be sent, or past its watermark.
ReplayCovers(c) ==
    stream[c].pc = "replay" =>
        /\ view[c].cursor <= stream[c].cursor /\ stream[c].cursor <= Len(log)
        /\ \A t \in stream[c].todo : view[c].cursor < t /\ t \in 1..stream[c].cursor
        /\ \A i \in 1..stream[c].cursor :
               \/ Shows(c, log[i])
               \/ \E t \in stream[c].todo : t >= i /\ log[t].run = log[i].run
               \/ Later(i, stream[c].cursor)

MetadataCovers(c) == stream[c].pc = "metadata" => view[c].cursor = stream[c].cursor

ClientCovers(c) ==
    /\ Covered(c, view[c].cursor)
    /\ PollCovers(c) /\ SnapshotCovers(c) /\ ReplayCovers(c) /\ MetadataCovers(c)

IInv == TypeOK /\ FilesAhead /\ \A c \in Clients : ClientCovers(c)

-----------------------------------------------------------------------------
(* Types. *)

Rounds == {"closed", "poll", "list", "read", "replay", "metadata"}
Loop == [pc : Rounds, resumed : BOOLEAN, initial : BOOLEAN, cursor : Nat,
         unread : SUBSET Runs, read : [Runs -> Revisions], todo : SUBSET Nat]
Snapshot == [cursor : Nat \cup {-1}, runs : [Runs -> Revisions]]

\* The types of the variables, for the steps that name them.
LEMMA Types ==
    ASSUME TypeOK
    PROVE  /\ state \in [Runs -> Nat] /\ born \in [Runs -> Nat]
           /\ log \in Seq(Entry) /\ Len(log) \in Nat
           /\ \A i \in 1..Len(log) :
                  log[i] \in Entry /\ log[i].run \in Runs /\ log[i].rev \in Nat \ {0}
           /\ \A w \in writes : w[1] \in Runs /\ w[2] \in Nat \ {0}
           /\ stream \in [Clients -> Loop] /\ view \in [Clients -> Snapshot]
           /\ \A c \in Clients :
                  /\ stream[c] \in Loop /\ stream[c].cursor \in Nat
                  /\ stream[c].unread \subseteq Runs /\ stream[c].read \in [Runs -> Nat]
                  /\ stream[c].todo \subseteq Nat
                  /\ view[c] \in Snapshot /\ view[c].cursor \in Nat \cup {-1}
                  /\ view[c].runs \in [Runs -> Nat]
<1>1. /\ state \in [Runs -> Nat] /\ born \in [Runs -> Nat] /\ log \in Seq(Entry)
      /\ writes \subseteq Runs \X (Nat \ {0})
      /\ stream \in [Clients -> Loop] /\ view \in [Clients -> Snapshot]
  BY DEF TypeOK, Loop, Rounds, Snapshot, Revisions
<1>2. Len(log) \in Nat /\ \A i \in 1..Len(log) : log[i] \in Entry
  BY <1>1
<1>3. \A e \in Entry : e.run \in Runs /\ e.rev \in Nat \ {0}
  BY DEF Entry, Revisions
<1>4. \A s \in Loop : /\ s.cursor \in Nat /\ s.unread \subseteq Runs /\ s.read \in [Runs -> Nat]
                      /\ s.todo \subseteq Nat
  BY DEF Loop, Revisions
<1>5. \A v \in Snapshot : v.cursor \in Nat \cup {-1} /\ v.runs \in [Runs -> Nat]
  BY DEF Snapshot, Revisions
<1>6. \A w \in writes : w[1] \in Runs /\ w[2] \in Nat \ {0}
  BY <1>1
<1> QED
  BY <1>1, <1>2, <1>3, <1>4, <1>5, <1>6

LEMMA ClosedTyped == Closed \in Loop
BY DEF Closed, Loop, Rounds, NoRuns, Revisions

\* A write of a run file.
LEMMA WriteTyped ==
    ASSUME TypeOK, NEW r \in Runs, WriteState(r)
    PROVE  /\ state' \in [Runs -> Revisions] /\ writes' \subseteq Runs \X (Revisions \ {0})
           /\ state'[r] = state[r] + 1 /\ \A s \in Runs : s # r => state'[s] = state[s]
BY DEF TypeOK, WriteState, Revisions

\* A step of the stream of c leaves the store and the other clients alone.
StepOf(c) ==
    /\ UNCHANGED <<store, crashes>>
    /\ stream' \in [Clients -> Loop] /\ view' \in [Clients -> Snapshot]
    /\ drops' \in 0..MaxDrops
    /\ \A d \in Clients : d # c => stream'[d] = stream[d] /\ view'[d] = view[d]

LEMMA ConnectEffect ==
    ASSUME TypeOK, NEW c \in Clients, Connect(c)
    PROVE  /\ StepOf(c) /\ view' = view
           /\ stream'[c].pc = "poll"
           /\ stream'[c].initial = TRUE /\ stream'[c].resumed = (view[c].cursor >= 0)
           /\ view[c].cursor >= 0 => stream'[c].cursor = view[c].cursor
<1> DEFINE s == [Closed EXCEPT !.pc = "poll", !.initial = TRUE, !.resumed = (view[c].cursor >= 0),
                               !.cursor = IF view[c].cursor >= 0 THEN view[c].cursor ELSE 0]
<1>1. view[c].cursor \in Nat \cup {-1} /\ stream \in [Clients -> Loop] /\ view \in [Clients -> Snapshot]
  BY Types
<1>2. /\ s \in Loop /\ s.pc = "poll" /\ s.initial = TRUE /\ s.resumed = (view[c].cursor >= 0)
      /\ view[c].cursor >= 0 => s.cursor = view[c].cursor
  <2>1. CASE view[c].cursor >= 0
    <3>0. PICK n \in Nat : n = view[c].cursor
      BY <1>1, <2>1
    <3>1. s = [Closed EXCEPT !.pc = "poll", !.initial = TRUE, !.resumed = TRUE, !.cursor = n]
      BY <2>1, <3>0
    <3> HIDE DEF s
    <3>2. s \in Loop /\ s.pc = "poll" /\ s.initial = TRUE /\ s.resumed = TRUE /\ s.cursor = n
      BY <3>1, ClosedTyped DEF Loop, Rounds
    <3>3. (view[c].cursor >= 0) = TRUE
      BY <1>1, <2>1
    <3> QED
      BY <3>0, <3>2, <3>3, Zenon
  <2>2. CASE ~(view[c].cursor >= 0)
    <3>0. (view[c].cursor >= 0) = FALSE
      BY <1>1, <2>2
    <3>1. s = [Closed EXCEPT !.pc = "poll", !.initial = TRUE, !.resumed = FALSE, !.cursor = 0]
      BY <3>0, Zenon
    <3> HIDE DEF s
    <3>2. s \in Loop /\ s.pc = "poll" /\ s.initial = TRUE /\ s.resumed = FALSE
      BY <3>1, ClosedTyped DEF Loop, Rounds
    <3> QED
      BY <2>2, <3>0, <3>2, Zenon
  <2> QED
    BY <2>1, <2>2
<1>3. stream' = [stream EXCEPT ![c] = s] /\ UNCHANGED <<store, view, crashes, drops>>
  BY DEF Connect
<1>4. drops \in 0..MaxDrops
  BY DEF TypeOK
<1> QED
  BY <1>1, <1>2, <1>3, <1>4 DEF StepOf

LEMMA PollForSnapshotEffect ==
    ASSUME TypeOK, NEW c \in Clients, PollForSnapshot(c)
    PROVE  /\ StepOf(c) /\ view' = view
           /\ stream'[c].pc = "list" /\ stream'[c].cursor = Len(log)
<1> DEFINE s == [stream[c] EXCEPT !.pc = "list", !.cursor = Len(log)]
<1>1. s \in Loop /\ s.pc = "list" /\ s.cursor = Len(log)
  BY Types DEF Loop, Rounds
<1>2. stream' = [stream EXCEPT ![c] = s] /\ UNCHANGED <<store, view, crashes, drops>>
  BY DEF PollForSnapshot
<1>3. drops \in 0..MaxDrops
  BY DEF TypeOK
<1> HIDE DEF s
<1> QED
  BY <1>1, <1>2, <1>3, Types DEF StepOf

LEMMA PollForReplayEffect ==
    ASSUME TypeOK, NEW c \in Clients, PollForReplay(c)
    PROVE  /\ StepOf(c) /\ view' = view
           /\ stream'[c].pc = "replay" /\ stream'[c].cursor = Len(log)
           /\ stream'[c].todo = Latest(stream[c].cursor)
<1> DEFINE s == [stream[c] EXCEPT !.pc = "replay", !.cursor = Len(log), !.todo = Latest(stream[c].cursor)]
<1>1. Latest(stream[c].cursor) \subseteq Nat
  BY Types DEF Latest, Kept, FirstKept
<1>2. s \in Loop /\ s.pc = "replay" /\ s.cursor = Len(log) /\ s.todo = Latest(stream[c].cursor)
  BY <1>1, Types DEF Loop, Rounds
<1>3. stream' = [stream EXCEPT ![c] = s] /\ UNCHANGED <<store, view, crashes, drops>>
  BY DEF PollForReplay
<1>4. drops \in 0..MaxDrops
  BY DEF TypeOK
<1> HIDE DEF s
<1> QED
  BY <1>2, <1>3, <1>4, Types DEF StepOf

LEMMA ListRunsEffect ==
    ASSUME TypeOK, NEW c \in Clients, ListRuns(c)
    PROVE  /\ StepOf(c) /\ view' = view
           /\ stream'[c].pc = "read" /\ stream'[c].cursor = stream[c].cursor
           /\ stream'[c].unread = Existing /\ stream'[c].read = NoRuns
<1> DEFINE s == [stream[c] EXCEPT !.pc = "read", !.unread = Existing, !.read = NoRuns]
<1>1. Existing \subseteq Runs /\ NoRuns \in [Runs -> Revisions]
  BY DEF Existing, NoRuns, Revisions
<1>2. /\ s \in Loop /\ s.pc = "read" /\ s.unread = Existing /\ s.read = NoRuns
      /\ s.cursor = stream[c].cursor
  BY <1>1, Types DEF Loop, Rounds
<1>3. stream' = [stream EXCEPT ![c] = s] /\ UNCHANGED <<store, view, crashes, drops>>
  BY DEF ListRuns
<1>4. drops \in 0..MaxDrops
  BY DEF TypeOK
<1> HIDE DEF s
<1> QED
  BY <1>2, <1>3, <1>4, Types DEF StepOf

LEMMA ReadRunEffect ==
    ASSUME TypeOK, NEW c \in Clients, NEW r \in Runs, ReadRun(c, r)
    PROVE  /\ StepOf(c) /\ view' = view
           /\ stream'[c].pc = "read" /\ stream'[c].cursor = stream[c].cursor
           /\ stream'[c].unread = stream[c].unread \ {r}
           /\ stream'[c].read[r] = state[r]
           /\ \A q \in Runs : q # r => stream'[c].read[q] = stream[c].read[q]
<1> DEFINE f == [stream[c].read EXCEPT ![r] = state[r]]
           s == [stream[c] EXCEPT !.unread = @ \ {r}, !.read = f]
<1>1. /\ f \in [Runs -> Revisions] /\ f[r] = state[r]
      /\ \A q \in Runs : q # r => f[q] = stream[c].read[q]
  BY Types DEF Revisions
<1> HIDE DEF f
<1>2. /\ s \in Loop /\ s.pc = stream[c].pc /\ s.cursor = stream[c].cursor
      /\ s.unread = stream[c].unread \ {r} /\ s.read = f
  <2> DEFINE u == stream[c].unread \ {r}
  <2>1. stream[c] \in Loop /\ u \in SUBSET Runs
    BY Types
  <2> HIDE DEF u
  <2>2. s = [stream[c] EXCEPT !.unread = u, !.read = f]
    BY <2>1 DEF u, Loop
  <2> HIDE DEF s
  <2>3. s \in Loop /\ s.pc = stream[c].pc /\ s.cursor = stream[c].cursor /\ s.unread = u /\ s.read = f
    BY <1>1, <2>1, <2>2 DEF Loop
  <2> QED
    BY <2>3 DEF u
<1>3. stream' = [stream EXCEPT ![c] = s]
  BY Types DEF ReadRun, f, Loop
<1>4. stream[c].pc = "read" /\ UNCHANGED <<store, view, crashes, drops>> /\ drops \in 0..MaxDrops
  BY DEF TypeOK, ReadRun
<1> HIDE DEF s
<1> QED
  BY <1>1, <1>2, <1>3, <1>4, Types DEF StepOf

LEMMA PageTyped ==
    ASSUME NEW read \in [Runs -> Nat]
    PROVE  /\ Page(read) \in [Runs -> Nat]
           /\ \A r \in Runs :
                \/ Page(read)[r] = read[r]
                \/ /\ Page(read)[r] = 0
                   /\ ~(Cardinality({s \in Newer(r) : read[s] > 0}) < HistoryLimit)
BY DEF Page

LEMMA SendSnapshotEffect ==
    ASSUME TypeOK, NEW c \in Clients, SendSnapshot(c)
    PROVE  /\ StepOf(c)
           /\ stream'[c].pc = "metadata" /\ stream'[c].cursor = stream[c].cursor
           /\ view'[c].cursor = stream[c].cursor
           /\ view'[c].runs = Page(stream[c].read)
<1> DEFINE s == [stream[c] EXCEPT !.pc = "metadata", !.read = NoRuns]
           v == [cursor |-> stream[c].cursor, runs |-> Page(stream[c].read)]
<1>1. NoRuns \in [Runs -> Revisions]
  BY DEF NoRuns, Revisions
<1>2. s \in Loop /\ s.pc = "metadata" /\ s.cursor = stream[c].cursor
  BY <1>1, Types DEF Loop, Rounds
<1>3. v \in Snapshot /\ v.cursor = stream[c].cursor /\ v.runs = Page(stream[c].read)
  BY Types, PageTyped DEF Snapshot, Revisions
<1>4. /\ stream' = [stream EXCEPT ![c] = s] /\ view' = [view EXCEPT ![c] = v]
      /\ UNCHANGED <<store, crashes, drops>> /\ drops \in 0..MaxDrops
  BY DEF SendSnapshot, TypeOK
<1> HIDE DEF s, v
<1> QED
  BY <1>2, <1>3, <1>4, Types DEF StepOf

LEMMA SendRunEffect ==
    ASSUME TypeOK, NEW c \in Clients, NEW i \in 1..Len(log), view[c].cursor < i, SendRun(c, i)
    PROVE  /\ StepOf(c)
           /\ stream'[c].pc = "replay" /\ stream'[c].cursor = stream[c].cursor
           /\ stream'[c].todo = stream[c].todo \ {i}
           /\ view'[c].cursor = i
           /\ view'[c].runs[log[i].run] = state[log[i].run]
           /\ \A r \in Runs : r # log[i].run => view'[c].runs[r] = view[c].runs[r]
<1> DEFINE u == stream[c].todo \ {i}
           s == [stream[c] EXCEPT !.todo = u]
           f == [view[c].runs EXCEPT ![log[i].run] = state[log[i].run]]
           v == [view[c] EXCEPT !.cursor = i, !.runs = f]
<1>1. i \in Nat /\ log[i].run \in Runs /\ view[c].cursor \in Nat \cup {-1} /\ u \in SUBSET Nat
  BY Types
<1>2. /\ f \in [Runs -> Revisions] /\ f[log[i].run] = state[log[i].run]
      /\ \A r \in Runs : r # log[i].run => f[r] = view[c].runs[r]
  BY <1>1, Types DEF Revisions
<1>3. /\ stream' = [stream EXCEPT ![c] = s]
      /\ stream[c].pc = "replay" /\ UNCHANGED <<store, crashes, drops>>
      /\ view' = [view EXCEPT ![c] = v]
  <2>1. ~(i <= view[c].cursor)
    BY <1>1
  <2>2. view' = [view EXCEPT ![c].cursor = i, ![c].runs[log[i].run] = state[log[i].run]]
    BY <2>1 DEF SendRun
  <2>3. view' = [view EXCEPT ![c] = v]
    BY <2>2, Types DEF Snapshot
  <2> QED
    BY <2>3, Types DEF SendRun, Loop
<1> HIDE DEF f, u
<1>4. s \in Loop /\ s.pc = stream[c].pc /\ s.cursor = stream[c].cursor /\ s.todo = u
  BY <1>1, Types DEF Loop
<1>5. v \in Snapshot /\ v.cursor = i /\ v.runs = f
  BY <1>1, <1>2, Types DEF Snapshot
<1>6. drops \in 0..MaxDrops
  BY DEF TypeOK
<1> HIDE DEF s, v
<1> QED
  BY <1>2, <1>3, <1>4, <1>5, <1>6, Types DEF StepOf, u

LEMMA EndRoundEffect ==
    ASSUME TypeOK, NEW c \in Clients, NEW differs \in BOOLEAN, EndRound(c, differs)
    PROVE  /\ StepOf(c)
           /\ stream'[c].pc = "poll" /\ stream'[c].cursor = stream[c].cursor
           /\ view'[c].runs = view[c].runs
           /\ view'[c].cursor = IF differs THEN stream[c].cursor ELSE view[c].cursor
<1> DEFINE s == [stream[c] EXCEPT !.pc = "poll", !.initial = FALSE]
           v == [view[c] EXCEPT !.cursor = stream[c].cursor]
<1>1. s \in Loop /\ s.pc = "poll" /\ s.cursor = stream[c].cursor
  BY Types DEF Loop, Rounds
<1>2. v \in Snapshot /\ v.runs = view[c].runs /\ v.cursor = stream[c].cursor
  BY Types DEF Snapshot
<1>3. /\ stream' = [stream EXCEPT ![c] = s]
      /\ view' = IF differs THEN [view EXCEPT ![c] = v] ELSE view
      /\ UNCHANGED <<store, crashes, drops>> /\ drops \in 0..MaxDrops
  BY DEF EndRound, TypeOK
<1> HIDE DEF s, v
<1>4. CASE differs
  BY <1>1, <1>2, <1>3, <1>4, Types DEF StepOf
<1>5. CASE ~differs
  BY <1>1, <1>3, <1>5, Types DEF StepOf
<1> QED
  BY <1>4, <1>5

LEMMA LeaveEffect ==
    ASSUME StreamConstants, TypeOK, NEW c \in Clients, Drop(c) \/ RestartClient(c)
    PROVE  /\ StepOf(c) /\ stream'[c].pc = "closed"
           /\ view'[c] = view[c] \/ view'[c] = NoView
<1>1. NoView \in Snapshot
  BY DEF NoView, Snapshot, NoRuns, Revisions
<1>2. drops' \in 0..MaxDrops
  BY DEF Drop, RestartClient, TypeOK, StreamConstants
<1>3. stream' = [stream EXCEPT ![c] = Closed] /\ UNCHANGED <<store, crashes>>
  BY DEF Drop, RestartClient
<1>4. view' = view \/ view' = [view EXCEPT ![c] = NoView]
  BY DEF Drop, RestartClient
<1>5. Closed.pc = "closed"
  BY DEF Closed
<1> QED
  BY <1>1, <1>2, <1>3, <1>4, <1>5, ClosedTyped, Types DEF StepOf

-----------------------------------------------------------------------------
(* The disk only grows. *)

Grows ==
    /\ Len(log) <= Len(log') /\ \A i \in 1..Len(log) : log'[i] = log[i]
    /\ \A r \in Runs : state[r] <= state'[r] /\ (state[r] > 0 => born'[r] = born[r])

\* A step that is no stream's leaves a stream as it is, or closes it.
StoreStep ==
    /\ Grows /\ UNCHANGED view
    /\ UNCHANGED stream \/ stream' = [c \in Clients |-> Closed]

LEMMA UnchangedGrows == ASSUME TypeOK, UNCHANGED <<state, born, log>> PROVE Grows
BY Types DEF Grows

LEMMA SubsetsFinite ==
    ASSUME StreamConstants, NEW S, NEW T, S \subseteq T, T \subseteq Runs
    PROVE  /\ IsFiniteSet(T) /\ Cardinality(S) \in Nat /\ Cardinality(T) \in Nat
           /\ Cardinality(S) <= Cardinality(T)
<1>1. IsFiniteSet(T)
  BY FS_Subset DEF StreamConstants
<1>2. IsFiniteSet(S) /\ Cardinality(S) <= Cardinality(T)
  BY <1>1, FS_Subset
<1> QED
  BY <1>1, <1>2, FS_CardinalityType

LEMMA WritingSteps ==
    ASSUME StreamConstants, TypeOK, NEW r \in Runs, CreateRun(r) \/ UpdateRun(r) \/ Recover(r)
    PROVE  TypeOK' /\ StoreStep /\ UNCHANGED log
<1>1. WriteState(r) /\ UNCHANGED <<log, stream, view, crashes, drops, gateway>>
  BY DEF CreateRun, UpdateRun, Recover
<1>2. ended' \subseteq Runs
  BY DEF CreateRun, UpdateRun, Recover, TypeOK
<1>3. /\ state' \in [Runs -> Revisions] /\ writes' \subseteq Runs \X (Revisions \ {0})
      /\ state'[r] = state[r] + 1 /\ \A s \in Runs : s # r => state'[s] = state[s]
  BY <1>1, WriteTyped
<1>4. Cardinality(Existing) + 1 \in Nat
  BY SubsetsFinite DEF Existing
<1>5. born' \in [Runs -> Nat] /\ \A s \in Runs : state[s] > 0 => born'[s] = born[s]
  <2>1. CASE CreateRun(r)
    <3>1. state[r] = 0 /\ born' = [born EXCEPT ![r] = Cardinality(Existing) + 1]
      BY <2>1 DEF CreateRun
    <3> QED
      BY <1>4, <3>1, Types
  <2>2. CASE UpdateRun(r) \/ Recover(r)
    BY <2>2, Types DEF UpdateRun, Recover
  <2> QED
    BY <2>1, <2>2
<1>6. TypeOK'
  BY <1>1, <1>2, <1>3, <1>5 DEF TypeOK
<1>7. Grows
  <2>1. \A s \in Runs : state[s] \in Nat /\ state[s] <= state'[s]
    <3>1. \A s \in Runs : state[s] \in Nat
      BY Types
    <3>2. \A s \in Runs : state'[s] = state[s] \/ state'[s] = state[s] + 1
      BY <1>3, <3>1
    <3> QED
      BY <3>1, <3>2
  <2>2. Len(log) <= Len(log') /\ \A i \in 1..Len(log) : log'[i] = log[i]
    BY <1>1, Types
  <2> QED
    BY <1>5, <2>1, <2>2 DEF Grows
<1> QED
  BY <1>1, <1>6, <1>7 DEF StoreStep

LEMMA JournalSteps ==
    ASSUME TypeOK, NEW w \in writes, Journal(w)
    PROVE  /\ TypeOK' /\ StoreStep /\ UNCHANGED state
           /\ Len(log') = Len(log) + 1
           /\ log'[Len(log) + 1] = [run |-> w[1], rev |-> w[2]]
<1>1. /\ w \in writes /\ log' = Append(log, [run |-> w[1], rev |-> w[2]]) /\ writes' = writes \ {w}
      /\ UNCHANGED <<gateway, state, born, ended, stream, view, crashes, drops>>
  BY DEF Journal
<1>2. [run |-> w[1], rev |-> w[2]] \in Entry
  BY Types DEF Entry, Revisions
<1>3. /\ log' \in Seq(Entry) /\ Len(log') = Len(log) + 1
      /\ log'[Len(log) + 1] = [run |-> w[1], rev |-> w[2]]
      /\ \A i \in 1..Len(log) : log'[i] = log[i]
  <2> HIDE DEF Entry
  <2> QED
    BY <1>1, <1>2, Types
<1>4. TypeOK'
  BY <1>1, <1>3 DEF TypeOK
<1>5. Grows
  BY <1>1, <1>3, Types DEF Grows
<1> QED
  BY <1>1, <1>3, <1>4, <1>5 DEF StoreStep

LEMMA ProcessSteps ==
    ASSUME StreamConstants, TypeOK, Boot \/ Serve \/ Crash
    PROVE  /\ TypeOK' /\ StoreStep /\ UNCHANGED <<state, log>> /\ writes' \subseteq writes
<1>1. /\ UNCHANGED <<state, born, ended, log, view, drops>>
      /\ writes' \subseteq writes /\ gateway' \in {"down", "recovering", "serving"}
      /\ crashes' \in 0..MaxCrashes
      /\ UNCHANGED stream \/ stream' = [c \in Clients |-> Closed]
  BY DEF Boot, Serve, Crash, TypeOK, StreamConstants
<1>2. Grows
  BY <1>1, UnchangedGrows
<1>3. stream' \in [Clients -> Loop]
  BY <1>1, ClosedTyped, Types
<1>4. TypeOK'
  BY <1>1, <1>3 DEF TypeOK, Loop, Rounds
<1> QED
  BY <1>1, <1>2, <1>4 DEF StoreStep

LEMMA StreamSteps ==
    ASSUME TypeOK, NEW c \in Clients, StepOf(c)
    PROVE  TypeOK' /\ Grows /\ UNCHANGED <<state, born, log, writes>>
<1>1. UNCHANGED <<gateway, state, born, ended, log, writes, crashes>>
  BY DEF StepOf, store
<1>2. Grows
  BY <1>1, UnchangedGrows
<1>3. TypeOK'
  BY <1>1 DEF TypeOK, StepOf, Loop, Rounds, Snapshot
<1> QED
  BY <1>1, <1>2, <1>3

-----------------------------------------------------------------------------
(* What a growing disk leaves true of a client that takes no step. *)

\* A run that fell off the page stays off it: what is newer remains so.
LEMMA PageStays ==
    ASSUME StreamConstants, TypeOK, TypeOK', Grows, NEW r \in Runs, state[r] > 0, OffThePage(r)
    PROVE  OffThePage(r)'
<1>1. Newer(r) \subseteq Newer(r)' /\ Newer(r)' \subseteq Runs
  <2>1. state \in [Runs -> Nat] /\ state' \in [Runs -> Nat]
    BY DEF TypeOK, Revisions
  <2>2. \A s \in Runs : state[s] > 0 => state'[s] > 0 /\ born'[s] = born[s]
    BY <2>1 DEF Grows
  <2> QED
    BY <2>2 DEF Newer, Existing
<1>2. Cardinality(Newer(r)) \in Nat /\ Cardinality(Newer(r)') \in Nat
      /\ Cardinality(Newer(r)) <= Cardinality(Newer(r)')
  BY <1>1, SubsetsFinite
<1>3. HistoryLimit \in Nat
  BY DEF StreamConstants
<1> QED
  BY <1>2, <1>3 DEF OffThePage

LEMMA Journalled ==
    ASSUME TypeOK, FilesAhead, NEW i \in 1..Len(log)
    PROVE  /\ i \in Nat /\ log[i].run \in Runs /\ log[i].rev \in Nat \ {0}
           /\ state[log[i].run] \in Nat /\ state[log[i].run] > 0
           /\ log[i].rev <= state[log[i].run]
BY Types DEF FilesAhead

LEMMA ShowsStays ==
    ASSUME StreamConstants, TypeOK, TypeOK', FilesAhead, Grows, NEW c \in Clients, view'[c] = view[c],
           NEW i \in 1..Len(log), Shows(c, log[i])
    PROVE  Shows(c, log[i])'
<1>1. log'[i] = log[i] /\ log[i].run \in Runs /\ state[log[i].run] > 0
  BY Journalled DEF Grows
<1>2. OffThePage(log[i].run) => OffThePage(log[i].run)'
  <2>1. PICK r \in Runs : r = log[i].run
    BY <1>1
  <2>2. OffThePage(r) => OffThePage(r)'
    BY <1>1, <2>1, PageStays
  <2>3. Newer(log[i].run)' = Newer(r)'
    BY <1>1, <2>1 DEF Newer
  <2> QED
    BY <2>1, <2>2, <2>3 DEF OffThePage
<1> QED
  BY <1>1, <1>2 DEF Shows

LEMMA LaterStays ==
    ASSUME TypeOK, Grows, TypeOK', NEW i \in 1..Len(log), NEW k \in Int, Later(i, k)
    PROVE  Later(i, k)'
<1>1. PICK j \in 1..Len(log) : j > k /\ log[j].run = log[i].run
  BY DEF Later
<1>2. j \in 1..Len(log') /\ log'[j] = log[j] /\ log'[i] = log[i]
  BY Types DEF Grows
<1> QED
  BY <1>1, <1>2 DEF Later

LEMMA CoveredStays ==
    ASSUME StreamConstants, TypeOK, TypeOK', FilesAhead, Grows, NEW c \in Clients, view'[c] = view[c],
           NEW k \in Int, Covered(c, k)
    PROVE  Covered(c, k)'
<1>1. SUFFICES ASSUME NEW i \in 1..k
               PROVE  i <= Len(log') /\ (Shows(c, log[i])' \/ Later(i, k)')
  BY DEF Covered
<1>2. i <= Len(log) /\ (Shows(c, log[i]) \/ Later(i, k))
  BY DEF Covered
<1>3. i \in 1..Len(log) /\ i <= Len(log')
  BY <1>2, Types DEF Grows, TypeOK
<1> QED
  BY <1>2, <1>3, ShowsStays, LaterStays

\* Everything about a client's stream survives what others do.
LEMMA ClientStays ==
    ASSUME StreamConstants, TypeOK, TypeOK', FilesAhead, Grows,
           NEW c \in Clients, view'[c] = view[c], stream'[c] = stream[c], ClientCovers(c)
    PROVE  ClientCovers(c)'
<1>1. PICK k \in Int, n \in Nat : k = view[c].cursor /\ n = stream[c].cursor
  <2>1. view[c].cursor \in Int /\ stream[c].cursor \in Nat
    BY Types
  <2> QED
    BY <2>1
<1>2. Len(log) \in Nat /\ Len(log') \in Nat /\ Len(log) <= Len(log')
  BY Types DEF Grows, TypeOK
<1>3. \A i \in 1..Len(log) : log'[i] = log[i]
  BY DEF Grows
<1>4. Covered(c, view[c].cursor)'
  <2>1. Covered(c, k)
    BY <1>1 DEF ClientCovers
  <2>2. Covered(c, k)'
    BY <2>1, CoveredStays
  <2> QED
    BY <1>1, <2>2 DEF Covered
<1>5. PollCovers(c)'
  <2>1. SUFFICES ASSUME stream'[c].pc = "poll", stream'[c].initial => stream'[c].resumed
                 PROVE  view'[c].cursor <= stream'[c].cursor /\ Covered(c, stream[c].cursor)'
    BY DEF PollCovers
  <2>2. view[c].cursor <= stream[c].cursor /\ Covered(c, n)
    BY <1>1, <2>1 DEF ClientCovers, PollCovers
  <2>3. Covered(c, n)'
    BY <2>2, CoveredStays
  <2> QED
    BY <1>1, <2>2, <2>3 DEF Covered
<1>6. SnapshotCovers(c)'
  <2>1. stream'[c].pc \in {"list", "read"} => stream'[c].cursor <= Len(log')
    BY <1>1, <1>2 DEF ClientCovers, SnapshotCovers
  <2>2. ASSUME stream'[c].pc = "read"
        PROVE  /\ \A i \in 1..stream'[c].cursor :
                      \/ log'[i].run \in stream'[c].unread
                      \/ stream'[c].read[log'[i].run] >= log'[i].rev
               /\ \A r \in Runs :
                      /\ stream'[c].read[r] <= state'[r]
                      /\ r \in stream'[c].unread \/ view'[c].runs[r] <= stream'[c].read[r]
    <3>1. /\ n <= Len(log)
          /\ \A i \in 1..n : \/ log[i].run \in stream[c].unread
                             \/ stream[c].read[log[i].run] >= log[i].rev
          /\ \A r \in Runs : /\ stream[c].read[r] <= state[r]
                             /\ r \in stream[c].unread \/ view[c].runs[r] <= stream[c].read[r]
      BY <1>1, <2>2 DEF ClientCovers, SnapshotCovers
    <3>2. \A i \in 1..n : log'[i] = log[i]
      BY <1>2, <1>3, <3>1
    <3>3. \A r \in Runs : stream[c].read[r] <= state'[r]
      <4>1. /\ state \in [Runs -> Nat] /\ state' \in [Runs -> Nat]
            /\ stream[c].read \in [Runs -> Nat]
        BY Types DEF TypeOK, Revisions
      <4> QED
        BY <3>1, <4>1 DEF Grows
    <3> QED
      BY <1>1, <3>1, <3>2, <3>3
  <2> QED
    BY <2>1, <2>2 DEF SnapshotCovers
<1>7. ReplayCovers(c)'
  <2>1. SUFFICES ASSUME stream'[c].pc = "replay"
                 PROVE  /\ view'[c].cursor <= stream'[c].cursor /\ stream'[c].cursor <= Len(log')
                        /\ \A t \in stream'[c].todo : view'[c].cursor < t /\ t \in 1..stream'[c].cursor
                        /\ \A i \in 1..stream'[c].cursor :
                               \/ Shows(c, log[i])'
                               \/ \E t \in stream'[c].todo : t >= i /\ log'[t].run = log'[i].run
                               \/ Later(i, stream[c].cursor)'
    BY DEF ReplayCovers
  <2>2. /\ k <= n /\ n <= Len(log)
        /\ \A t \in stream[c].todo : k < t /\ t \in 1..n
        /\ \A i \in 1..n : \/ Shows(c, log[i])
                           \/ \E t \in stream[c].todo : t >= i /\ log[t].run = log[i].run
                           \/ Later(i, n)
    BY <1>1, <2>1 DEF ClientCovers, ReplayCovers
  <2>3. ASSUME NEW i \in 1..n
        PROVE  \/ Shows(c, log[i])'
               \/ \E t \in stream[c].todo : t >= i /\ log'[t].run = log'[i].run
               \/ Later(i, n)'
    <3>1. i \in 1..Len(log) /\ stream[c].todo \subseteq Nat
      BY <1>2, <2>2, Types
    <3>2. CASE Shows(c, log[i])
      BY <3>1, <3>2, ShowsStays
    <3>3. CASE \E t \in stream[c].todo : t >= i /\ log[t].run = log[i].run
      BY <1>2, <1>3, <2>2, <3>1, <3>3
    <3>4. CASE Later(i, n)
      BY <3>1, <3>4, LaterStays
    <3> QED
      BY <2>2, <3>2, <3>3, <3>4
  <2>4. \A i \in 1..n : Later(i, stream[c].cursor)' = Later(i, n)'
    BY <1>1 DEF Later
  <2> QED
    BY <1>1, <1>2, <2>2, <2>3, <2>4
<1>8. MetadataCovers(c)'
  BY DEF ClientCovers, MetadataCovers
<1> QED
  BY <1>4, <1>5, <1>6, <1>7, <1>8 DEF ClientCovers

-----------------------------------------------------------------------------
(* What a replay sends. *)

LEMMA GreatestElement ==
    ASSUME NEW n \in Nat, NEW S, S \subseteq 0..n, S # {}
    PROVE  \E x \in S : \A y \in S : y <= x
<1> DEFINE below == OpToRel(<, Nat)
           T == {n - x : x \in S}
<1>1. IsWellFoundedOn(below, Nat)
  BY NatLessThanWellFounded
<1>2. \A a, b \in Nat : a < b => <<a, b>> \in below
  BY DEF OpToRel
<1>3. T \subseteq Nat /\ T # {}
  <2>1. \A x \in S : x \in 0..n
    OBVIOUS
  <2>2. \A x \in S : n - x \in Nat
    BY <2>1
  <2>3. T \subseteq Nat
    BY <2>2
  <2>4. PICK x \in S : TRUE
    OBVIOUS
  <2>5. n - x \in T
    BY <2>4
  <2> QED
    BY <2>3, <2>5
<1> HIDE DEF below
<1>4. PICK m \in T : \A y \in T : ~(<<y, m>> \in below)
  <2> HIDE DEF T
  <2> QED
    BY <1>1, <1>3, WFMin
<1>5. PICK x \in S : m = n - x
  OBVIOUS
<1>6. \A y \in S : ~(n - y < n - x)
  BY <1>2, <1>3, <1>4, <1>5
<1>7. x \in Int /\ \A y \in S : y \in Int
  OBVIOUS
<1>8. \A y \in S : y <= x
  BY <1>6, <1>7
<1> QED
  BY <1>8

\* Every change a replay is to bring has the latest change of its run on the
\* list, for the journal has kept what follows the cursor.
LEMMA LatestFollows ==
    ASSUME StreamConstants, TypeOK, NEW k \in Nat, ~Reset(k), NEW i \in 1..Len(log), i > k
    PROVE  \E t \in Latest(k) : t >= i /\ log[t].run = log[i].run
<1> DEFINE S == {j \in 1..Len(log) : j >= i /\ log[j].run = log[i].run}
<1>1. Len(log) \in Nat /\ i \in S
  BY Types
<1>2. S \subseteq 0..Len(log) /\ S # {}
  BY <1>1
<1>3. PICK t \in S : \A y \in S : y <= t
  <2> HIDE DEF S
  <2> QED
    BY <1>1, <1>2, GreatestElement
<1>4. FirstKept \in Nat /\ k >= FirstKept - 1
  BY <1>1 DEF Reset, FirstKept, StreamConstants
<1>5. t \in Kept
  BY <1>1, <1>4 DEF Kept
<1>6. \A j \in Kept : j > t => log[j].run # log[t].run
  <2>1. SUFFICES ASSUME NEW j \in Kept, j > t, log[j].run = log[t].run PROVE FALSE
    OBVIOUS
  <2>2. FirstKept >= 1
    BY <1>1 DEF FirstKept, StreamConstants
  <2>3. j \in S
    BY <1>1, <1>4, <2>1, <2>2 DEF Kept
  <2> QED
    BY <1>1, <1>3, <2>1, <2>3
<1>7. t \in Latest(k)
  BY <1>1, <1>5, <1>6 DEF Latest
<1> QED
  BY <1>7

-----------------------------------------------------------------------------
(* One step of a client or of the stream that serves it. *)

NeverBack(c) ==
    \A r \in Runs : \/ view'[c].runs[r] >= view[c].runs[r]
                    \/ view'[c] = NoView
                    \/ view'[c].runs[r] = 0 /\ OffThePage(r)

Moves(c) ==
    /\ StepOf(c) /\ ClientCovers(c)' /\ NeverBack(c)
    /\ \A r \in Runs : view'[c].runs[r] <= state[r]

\* A step that only concerns the stream shows the client nothing else.
LEMMA ViewStays ==
    ASSUME StreamConstants, IInv, NEW c \in Clients, StepOf(c), view' = view
    PROVE  /\ Covered(c, view[c].cursor)' /\ NeverBack(c)
           /\ \A r \in Runs : view'[c].runs[r] <= state[r]
           /\ view[c].cursor \in Int
           /\ \A k \in Int : Covered(c, k) => Covered(c, k)'
           /\ \A i \in 1..Len(log) : Shows(c, log[i]) => Shows(c, log[i])'
<1>1. TypeOK /\ FilesAhead /\ ClientCovers(c) /\ TypeOK' /\ Grows /\ view'[c] = view[c]
  BY StreamSteps DEF IInv
<1>2. /\ \A k \in Int : Covered(c, k) => Covered(c, k)'
      /\ \A i \in 1..Len(log) : Shows(c, log[i]) => Shows(c, log[i])'
  BY <1>1, CoveredStays, ShowsStays
<1>3. PICK k \in Int : k = view[c].cursor
  <2>1. view[c].cursor \in Int
    BY <1>1, Types
  <2> QED
    BY <2>1
<1>4. Covered(c, k)'
  BY <1>1, <1>2, <1>3 DEF ClientCovers
<1>5. Covered(c, view[c].cursor)'
  BY <1>1, <1>3, <1>4 DEF Covered
<1>6. \A r \in Runs : view[c].runs[r] \in Nat /\ view[c].runs[r] <= state[r]
  BY <1>1, Types DEF FilesAhead
<1> QED
  BY <1>1, <1>2, <1>3, <1>5, <1>6 DEF NeverBack

LEMMA ConnectMoves ==
    ASSUME StreamConstants, IInv, NEW c \in Clients, Connect(c)
    PROVE  Moves(c)
<1>1. TypeOK /\ ClientCovers(c)
  BY DEF IInv
<1>2. /\ StepOf(c) /\ view' = view /\ stream'[c].pc = "poll"
      /\ stream'[c].initial = TRUE /\ stream'[c].resumed = (view[c].cursor >= 0)
      /\ view[c].cursor >= 0 => stream'[c].cursor = view[c].cursor
  BY <1>1, ConnectEffect
<1>3. PollCovers(c)'
  <2>1. SUFFICES ASSUME view[c].cursor >= 0
                 PROVE  view'[c].cursor <= stream'[c].cursor /\ Covered(c, stream[c].cursor)'
    BY <1>2, Zenon DEF PollCovers
  <2>2. stream'[c].cursor = view'[c].cursor /\ view[c].cursor \in Int /\ Covered(c, view[c].cursor)'
    BY <1>2, <2>1, ViewStays
  <2> QED
    BY <1>2, <2>2 DEF Covered
<1>4. ClientCovers(c)'
  BY <1>2, <1>3, ViewStays DEF ClientCovers, SnapshotCovers, ReplayCovers, MetadataCovers
<1> QED
  BY <1>2, <1>4, ViewStays DEF Moves

LEMMA PollForSnapshotMoves ==
    ASSUME StreamConstants, IInv, NEW c \in Clients, PollForSnapshot(c)
    PROVE  Moves(c)
<1>1. /\ TypeOK /\ StepOf(c) /\ view' = view /\ stream'[c].pc = "list" /\ stream'[c].cursor = Len(log)
  BY PollForSnapshotEffect DEF IInv
<1>2. UNCHANGED log /\ Len(log) \in Nat
  BY <1>1, StreamSteps, Types
<1>3. ClientCovers(c)'
  BY <1>1, <1>2, ViewStays DEF ClientCovers, PollCovers, SnapshotCovers, ReplayCovers, MetadataCovers
<1> QED
  BY <1>1, <1>3, ViewStays DEF Moves

LEMMA PollForReplayMoves ==
    ASSUME StreamConstants, IInv, NEW c \in Clients, PollForReplay(c)
    PROVE  Moves(c)
<1>1. /\ TypeOK /\ FilesAhead /\ ClientCovers(c) /\ StepOf(c) /\ view' = view
      /\ stream'[c].pc = "replay" /\ stream'[c].cursor = Len(log)
      /\ stream'[c].todo = Latest(stream[c].cursor)
  BY PollForReplayEffect DEF IInv
<1>2. UNCHANGED log /\ Len(log) \in Nat
  BY <1>1, StreamSteps, Types
<1>3. PICK k \in Nat : k = stream[c].cursor
  BY <1>1, Types
<1>4. /\ ~Reset(k) /\ stream[c].pc = "poll" /\ (stream[c].initial => stream[c].resumed)
  BY <1>3 DEF PollForReplay, NeedsSnapshot
<1>5. view[c].cursor <= k /\ Covered(c, k) /\ k <= Len(log) /\ view[c].cursor \in Int
  BY <1>1, <1>2, <1>3, <1>4, ViewStays DEF ClientCovers, PollCovers, Reset
<1>6. \A t \in Latest(k) : k < t /\ t \in 1..Len(log)
  BY <1>2, <1>3 DEF Latest, Kept, FirstKept, StreamConstants
<1>7. ASSUME NEW i \in 1..Len(log)
      PROVE  \/ Shows(c, log[i])'
             \/ \E t \in Latest(k) : t >= i /\ log[t].run = log[i].run
  <2>1. CASE i > k
    BY <1>1, <1>4, <2>1, LatestFollows
  <2>2. CASE i <= k /\ Shows(c, log[i])
    BY <1>1, <2>2, ViewStays
  <2>3. CASE i <= k /\ Later(i, k)
    <3>1. PICK j \in 1..Len(log) : j > k /\ log[j].run = log[i].run
      BY <2>3 DEF Later
    <3>2. PICK t \in Latest(k) : t >= j /\ log[t].run = log[j].run
      BY <1>1, <1>4, <3>1, LatestFollows
    <3>3. t >= i
      BY <1>6, <2>3, <3>1, <3>2
    <3> QED
      BY <3>1, <3>2, <3>3
  <2>4. i <= k => Shows(c, log[i]) \/ Later(i, k)
    BY <1>5 DEF Covered
  <2> QED
    BY <2>1, <2>2, <2>3, <2>4
<1>8. ReplayCovers(c)'
  BY <1>1, <1>2, <1>3, <1>5, <1>6, <1>7 DEF ReplayCovers
<1>9. ClientCovers(c)'
  BY <1>1, <1>8, ViewStays DEF ClientCovers, PollCovers, SnapshotCovers, MetadataCovers
<1> QED
  BY <1>1, <1>9, ViewStays DEF Moves

LEMMA ListRunsMoves ==
    ASSUME StreamConstants, IInv, NEW c \in Clients, ListRuns(c)
    PROVE  Moves(c)
<1>1. /\ TypeOK /\ FilesAhead /\ ClientCovers(c) /\ StepOf(c) /\ view' = view
      /\ stream'[c].pc = "read" /\ stream'[c].cursor = stream[c].cursor
      /\ stream'[c].unread = Existing /\ stream'[c].read = NoRuns
  BY ListRunsEffect DEF IInv
<1>2. UNCHANGED <<log, state>> /\ Len(log) \in Nat /\ stream[c].cursor \in Nat
  BY <1>1, StreamSteps, Types
<1>3. stream[c].cursor <= Len(log)
  BY <1>1 DEF ClientCovers, SnapshotCovers, ListRuns
<1>4. \A i \in 1..stream[c].cursor : log[i].run \in Existing
  BY <1>1, <1>2, <1>3, Journalled DEF Existing
<1>5. \A r \in Runs : /\ NoRuns[r] <= state[r]
                      /\ r \in Existing \/ view[c].runs[r] <= NoRuns[r]
  BY <1>1, Types DEF NoRuns, Existing, FilesAhead
<1>6. SnapshotCovers(c)'
  BY <1>1, <1>2, <1>3, <1>4, <1>5 DEF SnapshotCovers
<1>7. ClientCovers(c)'
  BY <1>1, <1>6, ViewStays DEF ClientCovers, PollCovers, ReplayCovers, MetadataCovers
<1> QED
  BY <1>1, <1>7, ViewStays DEF Moves

LEMMA ReadRunMoves ==
    ASSUME StreamConstants, IInv, NEW c \in Clients, NEW r \in Runs, ReadRun(c, r)
    PROVE  Moves(c)
<1>1. /\ TypeOK /\ FilesAhead /\ ClientCovers(c) /\ StepOf(c) /\ view' = view
      /\ stream'[c].pc = "read" /\ stream'[c].cursor = stream[c].cursor
      /\ stream'[c].unread = stream[c].unread \ {r} /\ stream'[c].read[r] = state[r]
      /\ \A q \in Runs : q # r => stream'[c].read[q] = stream[c].read[q]
  BY ReadRunEffect DEF IInv
<1>2. UNCHANGED <<log, state>> /\ Len(log) \in Nat /\ stream[c].cursor \in Nat
  BY <1>1, StreamSteps, Types
<1>3. /\ stream[c].cursor <= Len(log)
      /\ \A i \in 1..stream[c].cursor :
             log[i].run \in stream[c].unread \/ stream[c].read[log[i].run] >= log[i].rev
      /\ \A q \in Runs : /\ stream[c].read[q] <= state[q]
                         /\ q \in stream[c].unread \/ view[c].runs[q] <= stream[c].read[q]
  BY <1>1 DEF ClientCovers, SnapshotCovers, ReadRun
<1>4. ASSUME NEW i \in 1..stream[c].cursor
      PROVE  log[i].run \in stream'[c].unread \/ stream'[c].read[log[i].run] >= log[i].rev
  <2>1. i \in 1..Len(log)
    BY <1>2, <1>3
  <2>2. log[i].run \in Runs /\ log[i].rev \in Nat /\ log[i].rev <= state[log[i].run]
        /\ state[log[i].run] \in Nat
    BY <1>1, <2>1, Journalled
  <2>3. CASE log[i].run = r
    BY <1>1, <2>2, <2>3
  <2>4. CASE log[i].run # r
    BY <1>1, <1>3, <2>2, <2>4
  <2> QED
    BY <2>3, <2>4
<1>5. \A q \in Runs : /\ stream'[c].read[q] <= state[q]
                      /\ q \in stream'[c].unread \/ view[c].runs[q] <= stream'[c].read[q]
  BY <1>1, <1>3, Types DEF FilesAhead
<1>6. SnapshotCovers(c)'
  BY <1>1, <1>2, <1>3, <1>4, <1>5 DEF SnapshotCovers
<1>7. ClientCovers(c)'
  BY <1>1, <1>6, ViewStays DEF ClientCovers, PollCovers, ReplayCovers, MetadataCovers
<1> QED
  BY <1>1, <1>7, ViewStays DEF Moves

\* A run read for a snapshot that is not on the page is off it for good.
LEMMA PageLeavesOut ==
    ASSUME StreamConstants, NEW read \in [Runs -> Nat], NEW r \in Runs, Page(read)[r] # read[r]
    PROVE  Page(read)[r] = 0 /\ OffThePage(r)
<1> DEFINE S == {s \in Newer(r) : read[s] > 0}
<1>1. Page(read)[r] = 0 /\ ~(Cardinality(S) < HistoryLimit)
  BY PageTyped
<1>2. Newer(r) \subseteq Runs /\ S \subseteq Newer(r)
  BY DEF Newer, Existing
<1>3. /\ Cardinality(S) \in Nat /\ Cardinality(Newer(r)) \in Nat
      /\ Cardinality(S) <= Cardinality(Newer(r))
  BY <1>2, SubsetsFinite
<1>4. HistoryLimit \in Nat
  BY DEF StreamConstants
<1> QED
  BY <1>1, <1>3, <1>4 DEF OffThePage

LEMMA SendSnapshotMoves ==
    ASSUME StreamConstants, IInv, NEW c \in Clients, SendSnapshot(c)
    PROVE  Moves(c)
<1> DEFINE read == stream[c].read
<1>1. /\ TypeOK /\ FilesAhead /\ ClientCovers(c) /\ StepOf(c)
      /\ stream'[c].pc = "metadata" /\ stream'[c].cursor = stream[c].cursor
      /\ view'[c].cursor = stream[c].cursor /\ view'[c].runs = Page(read)
  BY SendSnapshotEffect DEF IInv
<1>2. /\ UNCHANGED <<log, state, born>> /\ Len(log) \in Nat /\ stream[c].cursor \in Nat
      /\ read \in [Runs -> Nat] /\ state \in [Runs -> Nat] /\ view[c].runs \in [Runs -> Nat]
  BY <1>1, StreamSteps, Types
<1>3. /\ stream[c].cursor <= Len(log)
      /\ \A i \in 1..stream[c].cursor : read[log[i].run] >= log[i].rev
      /\ \A q \in Runs : read[q] <= state[q] /\ view[c].runs[q] <= read[q]
  BY <1>1 DEF ClientCovers, SnapshotCovers, SendSnapshot
<1> HIDE DEF read
<1>4. \A r \in Runs : Page(read)[r] = read[r] \/ (Page(read)[r] = 0 /\ OffThePage(r))
  BY <1>2, PageLeavesOut
<1>5. \A r \in Runs : OffThePage(r)' = OffThePage(r)
  BY <1>2 DEF OffThePage, Newer, Existing
<1>6. Covered(c, view[c].cursor)'
  <2>1. SUFFICES ASSUME NEW i \in 1..stream[c].cursor
                 PROVE  i <= Len(log) /\ Shows(c, log[i])'
    BY <1>1, <1>2 DEF Covered
  <2>2. i \in 1..Len(log) /\ log[i].run \in Runs /\ log[i].rev \in Nat
    BY <1>1, <1>2, <1>3, Journalled
  <2>3. PICK r \in Runs : r = log[i].run
    BY <2>2
  <2>4. \/ view'[c].runs[r] = read[r]
        \/ view'[c].runs[r] = 0 /\ OffThePage(r)'
    BY <1>1, <1>4, <1>5
  <2> QED
    <3>1. CASE view'[c].runs[r] = read[r]
      BY <1>2, <1>3, <2>2, <2>3, <3>1 DEF Shows
    <3>2. CASE view'[c].runs[r] = 0 /\ OffThePage(r)'
      <4>1. OffThePage(log[i].run)' = OffThePage(r)'
        BY <1>2, <2>3 DEF OffThePage, Newer
      <4> QED
        BY <1>2, <2>2, <2>3, <3>2, <4>1 DEF Shows
    <3> QED
      BY <2>4, <3>1, <3>2
<1>7. ClientCovers(c)'
  BY <1>1, <1>6 DEF ClientCovers, PollCovers, SnapshotCovers, ReplayCovers, MetadataCovers
<1>8. NeverBack(c)
  BY <1>1, <1>2, <1>3, <1>4 DEF NeverBack
<1>9. ASSUME NEW r \in Runs PROVE view'[c].runs[r] <= state[r]
  <2>1. view'[c].runs[r] = read[r] \/ view'[c].runs[r] = 0
    BY <1>1, <1>4
  <2>2. state[r] \in Nat /\ read[r] <= state[r]
    BY <1>2, <1>3
  <2> QED
    BY <2>1, <2>2
<1> QED
  BY <1>1, <1>7, <1>8, <1>9 DEF Moves

LEMMA SendRunMoves ==
    ASSUME StreamConstants, IInv, NEW c \in Clients, NEW i \in stream[c].todo, SendRun(c, i)
    PROVE  Moves(c)
<1>1. /\ TypeOK /\ FilesAhead /\ ClientCovers(c)
      /\ stream[c].pc = "replay" /\ \A j \in stream[c].todo : i <= j
  BY DEF IInv, SendRun
<1>2. PICK n \in Nat : n = stream[c].cursor
  BY <1>1, Types
<1>3. /\ Len(log) \in Nat /\ state \in [Runs -> Nat] /\ view[c].runs \in [Runs -> Nat]
      /\ stream[c].todo \subseteq Nat /\ view[c].cursor \in Int
  <2>1. view[c].cursor \in Nat \cup {-1}
    BY <1>1, Types
  <2> QED
    BY <1>1, <2>1, Types
<1>4. /\ n <= Len(log)
      /\ \A t \in stream[c].todo : view[c].cursor < t /\ t \in 1..n
      /\ \A m \in 1..n : \/ Shows(c, log[m])
                         \/ \E t \in stream[c].todo : t >= m /\ log[t].run = log[m].run
                         \/ Later(m, n)
  BY <1>1, <1>2 DEF ClientCovers, ReplayCovers
<1>5. i \in 1..n /\ view[c].cursor < i
  BY <1>4
<1>6. i \in 1..Len(log)
  BY <1>2, <1>3, <1>4, <1>5
<1>7. /\ StepOf(c) /\ stream'[c].pc = "replay" /\ stream'[c].cursor = n
      /\ stream'[c].todo = stream[c].todo \ {i}
      /\ view'[c].cursor = i /\ view'[c].runs[log[i].run] = state[log[i].run]
      /\ \A r \in Runs : r # log[i].run => view'[c].runs[r] = view[c].runs[r]
  BY <1>1, <1>2, <1>5, <1>6, SendRunEffect
<1>8. UNCHANGED <<log, state, born>>
  BY <1>1, <1>7, StreamSteps
<1>9. ASSUME NEW m \in 1..Len(log), Shows(c, log[m]) \/ log[m].run = log[i].run
      PROVE  Shows(c, log[m])'
  <2>1. /\ log[m].run \in Runs /\ log[m].rev \in Nat /\ log[m].rev <= state[log[m].run]
        /\ state[log[m].run] \in Nat
    BY <1>1, Journalled
  <2>2. CASE log[m].run = log[i].run
    BY <1>7, <1>8, <2>1, <2>2 DEF Shows
  <2>3. CASE log[m].run # log[i].run
    <3>1. OffThePage(log[m].run)' = OffThePage(log[m].run)
      BY <1>8 DEF OffThePage, Newer, Existing
    <3>2. view'[c].runs[log[m].run] = view[c].runs[log[m].run]
      BY <1>7, <2>1, <2>3
    <3> QED
      BY <1>8, <1>9, <2>3, <3>1, <3>2 DEF Shows
  <2> QED
    BY <2>2, <2>3
<1>10. Covered(c, view[c].cursor)'
  <2>1. SUFFICES ASSUME NEW m \in 1..i
                 PROVE  m <= Len(log) /\ (Shows(c, log[m])' \/ Later(m, view[c].cursor)')
    BY <1>7, <1>8 DEF Covered
  <2>2. m \in 1..n /\ m \in 1..Len(log)
    BY <1>2, <1>3, <1>5, <1>6
  <2>3. CASE Shows(c, log[m])
    BY <1>9, <2>2, <2>3
  <2>4. CASE \E t \in stream[c].todo : t >= m /\ log[t].run = log[m].run
    <3>1. PICK t \in stream[c].todo : t >= m /\ log[t].run = log[m].run
      BY <2>4
    <3>2. CASE t = i
      BY <1>9, <2>2, <3>1, <3>2
    <3>3. CASE t # i
      <4>1. t > i /\ t \in 1..Len(log)
        BY <1>1, <1>2, <1>3, <1>4, <1>5, <3>3
      <4> QED
        BY <1>7, <1>8, <3>1, <4>1 DEF Later
    <3> QED
      BY <3>2, <3>3
  <2>5. CASE Later(m, n)
    BY <1>2, <1>5, <1>7, <1>8, <2>5 DEF Later
  <2> QED
    BY <1>4, <2>2, <2>3, <2>4, <2>5
<1>11. ReplayCovers(c)'
  <2>1. view'[c].cursor <= n /\ n <= Len(log)
    BY <1>4, <1>5, <1>7
  <2>2. \A t \in stream'[c].todo : view'[c].cursor < t /\ t \in 1..n
    BY <1>1, <1>3, <1>4, <1>5, <1>7
  <2>3. ASSUME NEW m \in 1..n
        PROVE  \/ Shows(c, log[m])'
               \/ \E t \in stream'[c].todo : t >= m /\ log[t].run = log[m].run
               \/ Later(m, stream[c].cursor)'
    <3>1. m \in 1..Len(log)
      BY <1>2, <1>3, <1>4
    <3>2. Later(m, n) => Later(m, stream[c].cursor)'
      BY <1>7, <1>8 DEF Later
    <3>3. CASE \E t \in stream[c].todo : t >= m /\ log[t].run = log[m].run
      <4>1. PICK t \in stream[c].todo : t >= m /\ log[t].run = log[m].run
        BY <3>3
      <4>2. t = i \/ t \in stream'[c].todo
        BY <1>7
      <4> QED
        BY <1>9, <3>1, <4>1, <4>2
    <3> QED
      BY <1>4, <1>9, <3>1, <3>2, <3>3
  <2> QED
    BY <1>7, <1>8, <2>1, <2>2, <2>3 DEF ReplayCovers
<1>12. ClientCovers(c)'
  BY <1>7, <1>10, <1>11 DEF ClientCovers, PollCovers, SnapshotCovers, MetadataCovers
<1>13. \A r \in Runs : view[c].runs[r] <= state[r]
  BY <1>1 DEF FilesAhead
<1>14. ASSUME NEW r \in Runs
       PROVE  view'[c].runs[r] <= state[r] /\ view'[c].runs[r] >= view[c].runs[r]
  <2>1. state[r] \in Nat /\ view[c].runs[r] \in Nat /\ view[c].runs[r] <= state[r]
    BY <1>3, <1>13
  <2>2. view'[c].runs[r] = state[r] \/ view'[c].runs[r] = view[c].runs[r]
    BY <1>7
  <2> QED
    BY <2>1, <2>2
<1> QED
  BY <1>7, <1>12, <1>14 DEF Moves, NeverBack

LEMMA EndRoundMoves ==
    ASSUME StreamConstants, IInv, NEW c \in Clients, NEW differs \in BOOLEAN, EndRound(c, differs)
    PROVE  Moves(c)
<1>1. /\ TypeOK /\ FilesAhead /\ ClientCovers(c) /\ StepOf(c)
      /\ stream'[c].pc = "poll" /\ stream'[c].cursor = stream[c].cursor
      /\ view'[c].runs = view[c].runs
      /\ view'[c].cursor = IF differs THEN stream[c].cursor ELSE view[c].cursor
  BY EndRoundEffect DEF IInv
<1>2. PICK n \in Nat, k \in Int : n = stream[c].cursor /\ k = view[c].cursor
  <2>1. stream[c].cursor \in Nat /\ view[c].cursor \in Int
    BY <1>1, Types
  <2> QED
    BY <2>1
<1>3. UNCHANGED <<log, state, born>> /\ Len(log) \in Nat /\ view[c].runs \in [Runs -> Nat]
  BY <1>1, StreamSteps, Types
<1>4. Covered(c, k) /\ Covered(c, n) /\ k <= n
  <2>1. CASE stream[c].pc = "metadata"
    BY <1>1, <1>2, <2>1 DEF ClientCovers, MetadataCovers
  <2>2. CASE stream[c].pc = "replay" /\ stream[c].todo = {}
    <3>1. /\ k <= n /\ n <= Len(log)
          /\ \A i \in 1..n : Shows(c, log[i]) \/ Later(i, n)
      BY <1>1, <1>2, <2>2 DEF ClientCovers, ReplayCovers
    <3>2. Covered(c, n)
      BY <1>2, <1>3, <3>1 DEF Covered
    <3> QED
      BY <1>1, <1>2, <3>1, <3>2 DEF ClientCovers
  <2> QED
    BY <2>1, <2>2 DEF EndRound
<1>5. \A r \in Runs : OffThePage(r)' = OffThePage(r)
  BY <1>3 DEF OffThePage, Newer, Existing
<1>6. ASSUME NEW j \in Int, Covered(c, j) PROVE Covered(c, j)'
  <2>1. SUFFICES ASSUME NEW i \in 1..j
                 PROVE  i <= Len(log) /\ (Shows(c, log[i])' \/ Later(i, j)')
    BY <1>3 DEF Covered
  <2>2. i <= Len(log) /\ (Shows(c, log[i]) \/ Later(i, j))
    BY <1>6 DEF Covered
  <2>3. Later(i, j)' = Later(i, j)
    BY <1>3 DEF Later
  <2>4. Shows(c, log[i])' = Shows(c, log[i])
    <3>1. OffThePage(log[i].run)' = OffThePage(log[i].run)
      BY <1>3 DEF OffThePage, Newer, Existing
    <3> QED
      BY <1>1, <1>3, <3>1 DEF Shows
  <2> QED
    BY <2>2, <2>3, <2>4
<1>7. Covered(c, k)' /\ Covered(c, n)'
  BY <1>4, <1>6
<1>8. Covered(c, view[c].cursor)' /\ Covered(c, stream[c].cursor)'
  <2>1. stream'[c].cursor = n /\ (view'[c].cursor = n \/ view'[c].cursor = k)
    BY <1>1, <1>2
  <2> QED
    BY <1>7, <2>1 DEF Covered
<1>9. view'[c].cursor <= stream'[c].cursor
  BY <1>1, <1>2, <1>4
<1>10. ClientCovers(c)'
  BY <1>1, <1>8, <1>9 DEF ClientCovers, PollCovers, SnapshotCovers, ReplayCovers, MetadataCovers
<1>11. ASSUME NEW r \in Runs
       PROVE  view'[c].runs[r] <= state[r] /\ view'[c].runs[r] >= view[c].runs[r]
  BY <1>1, <1>3 DEF FilesAhead
<1> QED
  BY <1>1, <1>10, <1>11 DEF Moves, NeverBack

LEMMA LeaveMoves ==
    ASSUME StreamConstants, IInv, NEW c \in Clients, Drop(c) \/ RestartClient(c)
    PROVE  Moves(c)
<1>1. /\ TypeOK /\ FilesAhead /\ ClientCovers(c) /\ StepOf(c) /\ stream'[c].pc = "closed"
      /\ view'[c] = view[c] \/ view'[c] = NoView
  BY LeaveEffect DEF IInv
<1>2. /\ UNCHANGED <<log, state, born>> /\ view[c].runs \in [Runs -> Nat]
      /\ state \in [Runs -> Nat] /\ \A r \in Runs : view[c].runs[r] <= state[r]
  BY <1>1, StreamSteps, Types DEF FilesAhead
<1>3. Covered(c, view[c].cursor)'
  <2>1. CASE view'[c] = view[c]
    BY <1>1, <1>2, <2>1 DEF ClientCovers, Covered, Later, Shows, OffThePage, Newer, Existing
  <2>2. CASE view'[c] = NoView
    BY <2>2 DEF Covered, NoView
  <2> QED
    BY <1>1, <2>1, <2>2
<1>4. ClientCovers(c)'
  BY <1>1, <1>3 DEF ClientCovers, PollCovers, SnapshotCovers, ReplayCovers, MetadataCovers
<1>5. ASSUME NEW r \in Runs
      PROVE  /\ view'[c].runs[r] <= state[r]
             /\ view'[c].runs[r] >= view[c].runs[r] \/ view'[c] = NoView
  BY <1>1, <1>2 DEF NoView, NoRuns
<1> QED
  BY <1>1, <1>4, <1>5 DEF Moves, NeverBack

-----------------------------------------------------------------------------
(* Every step keeps the invariant. *)

LEMMA ClientMoves ==
    ASSUME StreamConstants, IInv, NEW c \in Clients,
           Connect(c) \/ Streaming(c) \/ Drop(c) \/ RestartClient(c)
    PROVE  Moves(c)
<1>1. CASE Connect(c) \/ Drop(c) \/ RestartClient(c)
  BY <1>1, ConnectMoves, LeaveMoves
<1>2. CASE PollForSnapshot(c) \/ PollForReplay(c) \/ ListRuns(c) \/ SendSnapshot(c)
  BY <1>2, PollForSnapshotMoves, PollForReplayMoves, ListRunsMoves, SendSnapshotMoves
<1>3. CASE \E r \in Runs : ReadRun(c, r)
  BY <1>3, ReadRunMoves
<1>4. CASE \E i \in stream[c].todo : SendRun(c, i)
  BY <1>4, SendRunMoves
<1>5. CASE \E differs \in BOOLEAN : EndRound(c, differs)
  BY <1>5, EndRoundMoves
<1> QED
  BY <1>1, <1>2, <1>3, <1>4, <1>5 DEF Streaming

LEMMA ClientStep ==
    ASSUME StreamConstants, IInv, NEW c \in Clients, Moves(c)
    PROVE  IInv' /\ \A d \in Clients : NeverBack(d)
<1>1. /\ TypeOK /\ FilesAhead /\ TypeOK' /\ Grows /\ UNCHANGED <<state, born, log, writes>>
      /\ \A d \in Clients : d # c => stream'[d] = stream[d] /\ view'[d] = view[d]
  BY StreamSteps DEF IInv, Moves, StepOf
<1>2. ASSUME NEW d \in Clients PROVE ClientCovers(d)'
  <2>1. CASE d = c
    BY <2>1 DEF Moves
  <2>2. CASE d # c
    BY <1>1, <2>2, ClientStays DEF IInv
  <2> QED
    BY <2>1, <2>2
<1>3. ASSUME NEW d \in Clients, NEW r \in Runs PROVE view'[d].runs[r] <= state[r]
  BY <1>1 DEF Moves, FilesAhead
<1>4. FilesAhead'
  BY <1>1, <1>3 DEF FilesAhead
<1>5. ASSUME NEW d \in Clients PROVE NeverBack(d)
  <2>1. CASE d = c
    BY <2>1 DEF Moves
  <2>2. CASE d # c
    BY <1>1, <2>2, Types DEF NeverBack
  <2> QED
    BY <2>1, <2>2
<1> QED
  BY <1>1, <1>2, <1>4, <1>5 DEF IInv

\* A step of the gateway closes streams at most.
LEMMA StoreStepKeeps ==
    ASSUME StreamConstants, IInv, TypeOK', StoreStep
    PROVE  \A c \in Clients : ClientCovers(c)' /\ NeverBack(c)
<1>1. SUFFICES ASSUME NEW c \in Clients PROVE ClientCovers(c)' /\ NeverBack(c)
  OBVIOUS
<1>2. TypeOK /\ FilesAhead /\ Grows /\ view' = view /\ ClientCovers(c)
  BY DEF IInv, StoreStep
<1>3. NeverBack(c)
  BY <1>2, Types DEF NeverBack
<1>4. CASE UNCHANGED stream
  BY <1>2, <1>3, <1>4, ClientStays
<1>5. CASE stream' = [d \in Clients |-> Closed]
  <2>1. stream'[c].pc = "closed"
    BY <1>5 DEF Closed
  <2>2. PICK k \in Int : k = view[c].cursor
    <3>1. view[c].cursor \in Int
      BY <1>2, Types
    <3> QED
      BY <3>1
  <2>3. Covered(c, k)'
    BY <1>2, <2>2, CoveredStays DEF ClientCovers
  <2>4. Covered(c, view[c].cursor)'
    BY <1>2, <2>2, <2>3 DEF Covered
  <2> QED
    BY <1>3, <2>1, <2>4 DEF ClientCovers, PollCovers, SnapshotCovers, ReplayCovers, MetadataCovers
<1> QED
  BY <1>2, <1>4, <1>5 DEF StoreStep

LEMMA WritingKeeps ==
    ASSUME StreamConstants, IInv, NEW r \in Runs, CreateRun(r) \/ UpdateRun(r) \/ Recover(r)
    PROVE  IInv' /\ \A c \in Clients : NeverBack(c)
<1>1. /\ TypeOK /\ FilesAhead /\ TypeOK' /\ StoreStep /\ UNCHANGED <<log, view>>
      /\ WriteState(r) /\ state' \in [Runs -> Nat]
  BY WritingSteps DEF IInv, CreateRun, UpdateRun, Recover, StoreStep, TypeOK, Revisions
<1>2. \A s \in Runs : state[s] \in Nat /\ state'[s] \in Nat /\ state[s] <= state'[s]
  BY <1>1, Types DEF StoreStep, Grows
<1>3. \A i \in 1..Len(log) : log[i].rev <= state'[log[i].run]
  BY <1>1, <1>2, Journalled
<1>4. \A w \in writes' : w[2] <= state'[w[1]]
  <2>1. writes' = writes \cup {<<r, state[r] + 1>>} /\ state'[r] = state[r] + 1
    BY <1>1, WriteTyped DEF WriteState
  <2>2. \A w \in writes : w[1] \in Runs /\ w[2] \in Nat /\ w[2] <= state[w[1]]
    BY <1>1, Types DEF FilesAhead
  <2> QED
    BY <1>2, <2>1, <2>2
<1>5. \A c \in Clients, s \in Runs : view[c].runs[s] <= state'[s]
  <2>1. \A c \in Clients, s \in Runs : view[c].runs[s] \in Nat /\ view[c].runs[s] <= state[s]
    BY <1>1, Types DEF FilesAhead
  <2> QED
    BY <1>2, <2>1
<1>6. FilesAhead'
  BY <1>1, <1>3, <1>4, <1>5 DEF FilesAhead
<1> QED
  BY <1>1, <1>6, StoreStepKeeps DEF IInv

LEMMA JournalKeeps ==
    ASSUME StreamConstants, IInv, NEW w \in writes, Journal(w)
    PROVE  IInv' /\ \A c \in Clients : NeverBack(c)
<1>1. /\ TypeOK /\ FilesAhead /\ TypeOK' /\ StoreStep /\ UNCHANGED <<state, view>>
      /\ Len(log') = Len(log) + 1 /\ log'[Len(log) + 1] = [run |-> w[1], rev |-> w[2]]
      /\ writes' = writes \ {w}
  BY JournalSteps DEF IInv, Journal
<1>2. ASSUME NEW i \in 1..Len(log') PROVE log'[i].rev <= state[log'[i].run]
  <2>1. CASE i \in 1..Len(log)
    BY <1>1, <2>1, Journalled DEF StoreStep, Grows
  <2>2. CASE i = Len(log) + 1
    BY <1>1, <2>2 DEF FilesAhead
  <2> QED
    BY <1>1, <2>1, <2>2, Types
<1>3. FilesAhead'
  BY <1>1, <1>2 DEF FilesAhead
<1> QED
  BY <1>1, <1>3, StoreStepKeeps DEF IInv

LEMMA ProcessKeeps ==
    ASSUME StreamConstants, IInv, Boot \/ Serve \/ Crash
    PROVE  IInv' /\ \A c \in Clients : NeverBack(c)
<1>1. /\ FilesAhead /\ TypeOK' /\ StoreStep /\ UNCHANGED <<state, log, view>> /\ writes' \subseteq writes
  BY ProcessSteps DEF IInv, StoreStep
<1>2. FilesAhead'
  BY <1>1 DEF FilesAhead
<1> QED
  BY <1>1, <1>2, StoreStepKeeps DEF IInv

LEMMA StepKeeps ==
    ASSUME StreamConstants, IInv, [Next]_vars
    PROVE  IInv' /\ \A c \in Clients : NeverBack(c)
<1>1. CASE UNCHANGED vars
  <2>1. UNCHANGED <<gateway, state, born, ended, log, writes, stream, view, crashes, drops>>
    BY <1>1 DEF vars
  <2>2. TypeOK /\ TypeOK'
    BY <2>1 DEF IInv, TypeOK
  <2>3. StoreStep /\ FilesAhead'
    BY <2>1, <2>2, UnchangedGrows DEF StoreStep, IInv, FilesAhead
  <2> QED
    BY <2>2, <2>3, StoreStepKeeps DEF IInv
<1>2. CASE Writing \/ Process
  BY <1>2, WritingKeeps, JournalKeeps, ProcessKeeps DEF Writing, Process
<1>3. CASE \E c \in Clients : Connect(c) \/ Streaming(c) \/ Drop(c) \/ RestartClient(c)
  BY <1>3, ClientMoves, ClientStep
<1> QED
  BY <1>1, <1>2, <1>3 DEF Next

LEMMA InitHolds ==
    ASSUME StreamConstants, Init
    PROVE  IInv
<1>1. TypeOK
  <2>1. /\ NoRuns \in [Runs -> Revisions] /\ NoView \in Snapshot /\ <<>> \in Seq(Entry)
        /\ {MaxCrashes, MaxDrops} \subseteq Nat
    BY DEF NoRuns, Revisions, NoView, Snapshot, StreamConstants
  <2> QED
    BY <2>1, ClosedTyped DEF Init, TypeOK, Loop, Rounds, Snapshot, Revisions
<1>2. FilesAhead
  BY DEF Init, FilesAhead, NoRuns, NoView
<1>3. ASSUME NEW c \in Clients PROVE ClientCovers(c)
  <2>1. stream[c].pc = "closed" /\ view[c].cursor = -1
    BY DEF Init, Closed, NoView
  <2> QED
    BY <2>1 DEF ClientCovers, Covered, PollCovers, SnapshotCovers, ReplayCovers, MetadataCovers
<1> QED
  BY <1>1, <1>2, <1>3 DEF IInv

\* The inductive invariant: what each loop has still to read or to send makes
\* up for what its client has not seen.
THEOREM InvariantHolds == ASSUME StreamConstants PROVE Spec => []IInv
<1>1. Init => IInv
  BY InitHolds
<1>2. IInv /\ [Next]_vars => IInv'
  BY StepKeeps
<1> QED
  BY <1>1, <1>2, PTL DEF Spec

\* Every reachable state of the journal, the loops and the clients has its type.
THEOREM TypesHold == ASSUME StreamConstants PROVE Spec => []TypeOK
<1>1. IInv => TypeOK
  BY DEF IInv
<1> QED
  BY <1>1, InvariantHolds, PTL

\* A client's cursor passes no change it has not seen (conversationStream.ts:25-26),
\* over any number of crashes, dropped connections, clients and runs, however few
\* changes the journal keeps and however few runs a snapshot holds.
THEOREM NothingIsPassed == ASSUME StreamConstants PROVE Spec => []CursorCovers
<1>1. IInv => CursorCovers
  BY DEF IInv, ClientCovers, Covered, Later, CursorCovers
<1> QED
  BY <1>1, InvariantHolds, PTL

\* What a client shows of a run never becomes an older revision, for the run is
\* read after all the client was told of it.
THEOREM RevisionsStay == ASSUME StreamConstants PROVE Spec => RevisionsNeverGoBack
<1>1. IInv /\ [Next]_vars =>
        [\A c \in Clients, r \in Runs :
            \/ view'[c].runs[r] >= view[c].runs[r]
            \/ view'[c] = NoView
            \/ view'[c].runs[r] = 0 /\ OffThePage(r)]_vars
  BY StepKeeps DEF NeverBack
<1> QED
  BY <1>1, InvariantHolds, PTL DEF Spec, RevisionsNeverGoBack

-----------------------------------------------------------------------------
(* The page. *)

RunOrNone == WebRuns \cup {"none"}
WebRecord == [session : Sessions, ended : BOOLEAN]
PageRecord ==
    [here : Sessions, chosen : RunOrNone, listed : SUBSET Web!Seen, payload : Web!Seen,
     polled : RunOrNone, sending : BOOLEAN, busy : BOOLEAN]
JobNames  == {"init", "select", "create", "send", "open", "peek", "cancel", "refresh", "tick"}
Questions == {"runs", "tasks", "create", "turn", "run", "cancel"}
WebJob ==
    [fn : JobNames, ask : Questions, session : Sessions, run : RunOrNone, live : BOOLEAN,
     back : BOOLEAN, reply : Web!Seen, rows : SUBSET Web!Seen]

Exists(r) == r \in WebRuns /\ webRun[r] # Web!Absent

\* What a job asks for and what it was told of are runs of the server.
JobIsKnown(j) ==
    /\ j \in WebJob
    /\ j.fn = "create" => j.ask = "create"
    /\ j.ask \in {"run", "cancel"} => Exists(j.run)
    /\ j.run # "none" => Exists(j.run)
    /\ j.reply.run # "none" => Exists(j.reply.run)
    /\ j.back /\ j.ask \in {"run", "cancel"} => j.reply.run = j.run
    /\ \A x \in j.rows : Exists(x.run)
    /\ ~j.back => j.reply.run = "none" /\ j.rows = {}

PageIsKnown(p) ==
    /\ p \in PageRecord
    /\ p.chosen # "none" => Exists(p.chosen)
    /\ p.polled # "none" => Exists(p.polled)
    /\ \A x \in p.listed : Exists(x.run)

WebType ==
    /\ webRun \in [WebRuns -> WebRecord \cup {Web!Absent}]
    /\ DOMAIN jobs = Slots /\ jobs = [i \in Slots |-> jobs[i]]
    /\ acts \in 0..MaxActs /\ errors \in 0..MaxErrors
    /\ PageIsKnown(page)
    /\ \A i \in Slots : jobs[i] = Web!Idle \/ JobIsKnown(jobs[i])

\* A run that exists goes on existing, in its session.
RunsStay == \A r \in WebRuns : Exists(r) => Exists(r)' /\ webRun'[r].session = webRun[r].session

LEMMA KnownStays ==
    ASSUME RunsStay
    PROVE  /\ \A j : JobIsKnown(j) => JobIsKnown(j)'
           /\ \A p : PageIsKnown(p) => PageIsKnown(p)'
BY DEF RunsStay, JobIsKnown, PageIsKnown, Exists

\* A step that changes the page, one job and no run.
LEMMA PageTypes ==
    ASSUME WebType, NEW i \in Slots, NEW j, j = Web!Idle \/ JobIsKnown(j),
           jobs' = [jobs EXCEPT ![i] = j], PageIsKnown(page'), UNCHANGED webRun,
           acts' \in 0..MaxActs, errors' \in 0..MaxErrors
    PROVE  WebType'
<1>1. RunsStay
    BY DEF RunsStay, Exists
<1>2. DOMAIN jobs' = Slots /\ jobs' = [x \in Slots |-> jobs'[x]]
    BY DEF WebType
<1>3. \A x \in Slots : jobs'[x] = IF x = i THEN j ELSE jobs[x]
    BY DEF WebType
<1>4. \A x \in Slots : jobs'[x] = Web!Idle \/ JobIsKnown(jobs'[x])
    BY <1>3 DEF WebType
<1>5. \A k : JobIsKnown(k) => JobIsKnown(k)'
    BY <1>1, KnownStays
<1> QED BY <1>2, <1>4, <1>5 DEF WebType, PageIsKnown, JobIsKnown, Exists


LEMMA SeenKnown ==
    ASSUME Web!WebConstants, WebType, NEW r, Exists(r)
    PROVE  Web!SeenRun(r) \in Web!Seen /\ Web!SeenRun(r).run = r /\ r # "none" /\ webRun[r] \in WebRecord
BY DEF WebType, Exists, Web!SeenRun, Web!Seen, WebRecord, Web!WebConstants

LEMMA RunsKnown ==
    ASSUME Web!WebConstants, WebType, NEW s \in Sessions, NEW r \in Web!RunsOf(s)
    PROVE  Exists(r) /\ webRun[r].session = s
BY DEF Web!WebConstants, Web!RunsOf, Exists, Web!Absent

LEMMA JobsOf ==
    ASSUME WebType, NEW i \in Slots, jobs[i].ask # "none"
    PROVE  JobIsKnown(jobs[i]) /\ jobs[i] \in WebJob /\ jobs[i] # Web!Idle
BY DEF WebType, Web!Idle, JobIsKnown

\* What a job learns from an answer: of the run it asks for, or runs of its session.
Learnt(j, v, rows) ==
    /\ v \in Web!Seen /\ rows \subseteq Web!Seen
    /\ v.run # "none" =>
         \/ j.ask \in {"run", "cancel"} /\ v.run = j.run
         \/ j.ask = "turn" /\ v.run \in WebRuns /\ webRun'[v.run] \in WebRecord
                           /\ webRun'[v.run].session = j.session
    /\ j.ask \in {"run", "cancel"} => v.run = j.run
    /\ rows # {} => j.ask = "runs"
    /\ \A x \in rows : x.run \in Web!RunsOf(j.session)

LEMMA AnswerLearns ==
    ASSUME Web!WebConstants, WebType, NEW i \in Slots, Web!Answer(i)
    PROVE  /\ JobIsKnown(jobs[i]) /\ UNCHANGED <<page, acts, errors>>
           /\ webRun' \in [WebRuns -> WebRecord \cup {Web!Absent}] /\ RunsStay
           /\ \E v, rows : /\ Learnt(jobs[i], v, rows)
                           /\ jobs' = [jobs EXCEPT ![i] = [jobs[i] EXCEPT !.reply = v, !.rows = rows,
                                                                         !.back = TRUE]]
<1> DEFINE j == jobs[i]
<1>1. j # Web!Idle /\ ~j.back /\ JobIsKnown(j) /\ j \in WebJob
    BY DEF Web!Answer, Web!Waits, WebType, JobIsKnown
<1>2. UNCHANGED <<page, acts, errors>>
    BY DEF Web!Answer
<1>3. j.reply \in Web!Seen /\ j.reply.run = "none" /\ j.rows = {} /\ j.session \in Sessions
    BY <1>1 DEF JobIsKnown, WebJob
<1>4. j = [j EXCEPT !.reply = j.reply] /\ j = [j EXCEPT !.rows = {}]
    BY <1>1, <1>3 DEF WebJob
<1>5. UNCHANGED webRun => webRun' \in [WebRuns -> WebRecord \cup {Web!Absent}] /\ RunsStay
    BY DEF WebType, RunsStay, Exists
<1>6. Web!NoRun \in Web!Seen /\ Web!NoRun.run = "none"
    BY DEF Web!NoRun, Web!Seen
<1>7. CASE j.ask = "runs" /\ UNCHANGED webRun
           /\ Web!Put(i, [j EXCEPT !.rows = {Web!SeenRun(r) : r \in Web!RunsOf(j.session)}, !.back = TRUE])
    <2> DEFINE rows == {Web!SeenRun(r) : r \in Web!RunsOf(j.session)}
    <2>1. \A r \in Web!RunsOf(j.session) : Web!SeenRun(r) \in Web!Seen /\ Web!SeenRun(r).run = r
        BY <1>3, RunsKnown, SeenKnown
    <2>2. rows \subseteq Web!Seen /\ \A x \in rows : x.run \in Web!RunsOf(j.session)
        BY <2>1
    <2>3. [j EXCEPT !.rows = rows, !.back = TRUE]
            = [j EXCEPT !.reply = j.reply, !.rows = rows, !.back = TRUE]
        BY <1>1 DEF WebJob
    <2>4. jobs' = [jobs EXCEPT ![i] = [j EXCEPT !.rows = rows, !.back = TRUE]]
        BY <1>7 DEF Web!Put
    <2>5. Learnt(j, j.reply, rows)
        <3> HIDE DEF rows, j
        <3> QED BY <1>3, <1>7, <2>2 DEF Learnt
    <2> HIDE DEF rows, j
    <2> QED BY <1>1, <1>2, <1>5, <1>7, <2>3, <2>4, <2>5 DEF j
<1>8. ASSUME NEW v \in Web!Seen, Web!Put(i, [j EXCEPT !.reply = v, !.back = TRUE]), Learnt(j, v, {})
      PROVE  \E w, rows : /\ Learnt(j, w, rows)
                          /\ jobs' = [jobs EXCEPT ![i] = [j EXCEPT !.reply = w, !.rows = rows, !.back = TRUE]]
    <2>1. [j EXCEPT !.reply = v, !.back = TRUE] = [j EXCEPT !.reply = v, !.rows = {}, !.back = TRUE]
        BY <1>1, <1>3 DEF WebJob
    <2>2. jobs' = [jobs EXCEPT ![i] = [j EXCEPT !.reply = v, !.back = TRUE]]
        BY <1>8 DEF Web!Put
    <2> QED BY <1>8, <2>1, <2>2
<1>9. CASE j.ask \in {"tasks", "create"} /\ UNCHANGED webRun
           /\ Web!Put(i, [j EXCEPT !.reply = Web!NoRun, !.back = TRUE])
    <2>1. Learnt(j, Web!NoRun, {})
        BY <1>6, <1>9 DEF Learnt
    <2> QED BY <1>1, <1>2, <1>5, <1>6, <1>8, <1>9, <2>1
<1>10. CASE j.ask \in {"run", "cancel"} /\ UNCHANGED webRun
            /\ Web!Put(i, [j EXCEPT !.reply = Web!SeenRun(j.run), !.back = TRUE])
    <2>1. Web!SeenRun(j.run) \in Web!Seen /\ Web!SeenRun(j.run).run = j.run
        BY <1>1, <1>10, SeenKnown DEF JobIsKnown
    <2>2. Learnt(j, Web!SeenRun(j.run), {})
        BY <1>10, <2>1 DEF Learnt
    <2> QED BY <1>1, <1>2, <1>5, <1>8, <1>10, <2>1, <2>2
<1>11. CASE j.ask = "turn" /\ UNCHANGED webRun
            /\ Web!Put(i, [j EXCEPT !.reply = Web!NoRun, !.back = TRUE])
    <2>1. Learnt(j, Web!NoRun, {})
        BY <1>6, <1>11 DEF Learnt
    <2> QED BY <1>1, <1>2, <1>5, <1>6, <1>8, <1>11, <2>1
<1>12. ASSUME j.ask = "turn", NEW r \in WebRuns, NEW over \in BOOLEAN, webRun[r] = Web!Absent,
              webRun' = [webRun EXCEPT ![r] = Web!Server(j.session, over)],
              Web!Put(i, [j EXCEPT !.reply = [run |-> r, ended |-> over], !.back = TRUE])
       PROVE  /\ webRun' \in [WebRuns -> WebRecord \cup {Web!Absent}] /\ RunsStay
              /\ \E w, rows : /\ Learnt(j, w, rows)
                              /\ jobs' = [jobs EXCEPT ![i] = [j EXCEPT !.reply = w, !.rows = rows,
                                                                       !.back = TRUE]]
    <2> DEFINE v == [run |-> r, ended |-> over]
    <2>1. v \in Web!Seen /\ v.run = r
        BY DEF Web!Seen
    <2>2. Web!Server(j.session, over) \in WebRecord /\ Web!Server(j.session, over).session = j.session
          /\ Web!Server(j.session, over) # Web!Absent
        BY <1>3 DEF Web!Server, WebRecord, Web!WebConstants, Web!Absent
    <2>3. /\ webRun' \in [WebRuns -> WebRecord \cup {Web!Absent}] /\ webRun'[r] = Web!Server(j.session, over)
          /\ \A x \in WebRuns : x # r => webRun'[x] = webRun[x]
        BY <1>12, <2>2 DEF WebType
    <2>4. RunsStay
        BY <1>12, <2>2, <2>3 DEF RunsStay, Exists
    <2>5. Learnt(j, v, {})
        BY <1>12, <2>1, <2>2, <2>3 DEF Learnt
    <2> QED BY <1>8, <1>12, <2>1, <2>3, <2>4, <2>5
<1> HIDE DEF j
<1>13. \/ j.ask = "runs" /\ UNCHANGED webRun
          /\ Web!Put(i, [j EXCEPT !.rows = {Web!SeenRun(r) : r \in Web!RunsOf(j.session)}, !.back = TRUE])
       \/ j.ask \in {"tasks", "create"} /\ UNCHANGED webRun
          /\ Web!Put(i, [j EXCEPT !.reply = Web!NoRun, !.back = TRUE])
       \/ j.ask \in {"run", "cancel"} /\ UNCHANGED webRun
          /\ Web!Put(i, [j EXCEPT !.reply = Web!SeenRun(j.run), !.back = TRUE])
       \/ j.ask = "turn" /\ UNCHANGED webRun
          /\ Web!Put(i, [j EXCEPT !.reply = Web!NoRun, !.back = TRUE])
       \/ \E r \in WebRuns, over \in BOOLEAN :
            /\ j.ask = "turn" /\ webRun[r] = Web!Absent
            /\ webRun' = [webRun EXCEPT ![r] = Web!Server(j.session, over)]
            /\ Web!Put(i, [j EXCEPT !.reply = [run |-> r, ended |-> over], !.back = TRUE])
    BY DEF Web!Answer, j
<1>14. CASE \E r \in WebRuns, over \in BOOLEAN :
            /\ j.ask = "turn" /\ webRun[r] = Web!Absent
            /\ webRun' = [webRun EXCEPT ![r] = Web!Server(j.session, over)]
            /\ Web!Put(i, [j EXCEPT !.reply = [run |-> r, ended |-> over], !.back = TRUE])
    <2>1. PICK r \in WebRuns, over \in BOOLEAN :
            /\ j.ask = "turn" /\ webRun[r] = Web!Absent
            /\ webRun' = [webRun EXCEPT ![r] = Web!Server(j.session, over)]
            /\ Web!Put(i, [j EXCEPT !.reply = [run |-> r, ended |-> over], !.back = TRUE])
        BY <1>14
    <2>2. /\ webRun' \in [WebRuns -> WebRecord \cup {Web!Absent}] /\ RunsStay
          /\ \E w, rows : /\ Learnt(j, w, rows)
                          /\ jobs' = [jobs EXCEPT ![i] = [j EXCEPT !.reply = w, !.rows = rows, !.back = TRUE]]
        BY <1>12, <2>1
    <2> QED BY <1>1, <1>2, <2>2 DEF j
<1> QED BY <1>7, <1>9, <1>10, <1>11, <1>13, <1>14

LEMMA ServerTypes ==
    ASSUME WebType, webRun' \in [WebRuns -> WebRecord \cup {Web!Absent}], RunsStay,
           UNCHANGED <<page, acts, errors>>,
           NEW i \in Slots, NEW k, k = Web!Idle \/ JobIsKnown(k)', jobs' = [jobs EXCEPT ![i] = k]
    PROVE  WebType'
<1>1. DOMAIN jobs' = Slots /\ jobs' = [x \in Slots |-> jobs'[x]]
    BY DEF WebType
<1>2. \A x \in Slots : jobs'[x] = IF x = i THEN k ELSE jobs[x]
    BY DEF WebType
<1>3. PageIsKnown(page)'
    BY KnownStays DEF WebType, PageIsKnown
<1>4. \A x \in Slots : (jobs[x] = Web!Idle \/ JobIsKnown(jobs[x]))'
    BY <1>2, KnownStays DEF WebType, JobIsKnown
<1> QED BY <1>1, <1>3, <1>4 DEF WebType

LEMMA AnswerTypes ==
    ASSUME Web!WebConstants, WebType, NEW i \in Slots, Web!Answer(i)
    PROVE  WebType'
<1>1. PICK j : j = jobs[i]
    OBVIOUS
<1>2. /\ JobIsKnown(j) /\ UNCHANGED <<page, acts, errors>>
      /\ webRun' \in [WebRuns -> WebRecord \cup {Web!Absent}] /\ RunsStay
    BY <1>1, AnswerLearns
<1>3. PICK v, rows : /\ Learnt(jobs[i], v, rows)
                     /\ jobs' = [jobs EXCEPT ![i] = [jobs[i] EXCEPT !.reply = v, !.rows = rows,
                                                                    !.back = TRUE]]
    BY AnswerLearns
<1>l. Learnt(j, v, rows)
    BY <1>1, <1>3 DEF Learnt
<1>4. PICK k : k = [j EXCEPT !.reply = v, !.rows = rows, !.back = TRUE]
    OBVIOUS
<1>p. jobs' = [jobs EXCEPT ![i] = k]
    BY <1>1, <1>3, <1>4
<1>5. /\ k \in WebJob /\ k.back /\ k.reply = v /\ k.rows = rows
      /\ k.fn = j.fn /\ k.ask = j.ask /\ k.session = j.session /\ k.run = j.run
    BY <1>2, <1>l, <1>4 DEF JobIsKnown, WebJob, Learnt
<1>6. v.run # "none" => Exists(v.run)'
    BY <1>2, <1>l DEF Learnt, JobIsKnown, Exists, RunsStay, Web!WebConstants, WebRecord, Web!Absent
<1>7. \A x \in rows : Exists(x.run)'
    <2>1. \A x \in rows : Exists(x.run)
        BY <1>2, <1>l, RunsKnown DEF Learnt, JobIsKnown, WebJob
    <2> QED BY <1>2, <2>1 DEF RunsStay, Exists
<1>8. JobIsKnown(j)'
    BY <1>2, KnownStays
<1>9. JobIsKnown(k)'
    BY <1>l, <1>5, <1>6, <1>7, <1>8 DEF JobIsKnown, Learnt
<1> QED BY <1>2, <1>p, <1>9, ServerTypes

LEMMA RunEndsTypes ==
    ASSUME WebType, NEW r \in WebRuns, Web!RunEnds(r)
    PROVE  WebType' /\ RunsStay
<1>1. webRun[r] \in WebRecord /\ webRun' = [webRun EXCEPT ![r] = [webRun[r] EXCEPT !.ended = TRUE]]
    BY DEF Web!RunEnds, WebType
<1>2. [webRun[r] EXCEPT !.ended = TRUE] \in WebRecord \ {Web!Absent}
      /\ [webRun[r] EXCEPT !.ended = TRUE].session = webRun[r].session
    BY <1>1 DEF WebRecord, Web!Absent
<1>3. webRun' \in [WebRuns -> WebRecord \cup {Web!Absent}] /\ RunsStay
    BY <1>1, <1>2 DEF WebType, RunsStay, Exists
<1>4. UNCHANGED <<page, jobs, acts, errors>>
    BY DEF Web!RunEnds
<1>5. PageIsKnown(page)'
    BY <1>3, <1>4, KnownStays DEF WebType, PageIsKnown
<1>6. \A x \in Slots : (jobs[x] = Web!Idle \/ JobIsKnown(jobs[x]))'
    BY <1>3, <1>4, KnownStays DEF WebType, JobIsKnown
<1> QED BY <1>3, <1>4, <1>5, <1>6 DEF WebType

-----------------------------------------------------------------------------
(* While no request fails and the user waits for answers, the page, its jobs *)
(* and what they were told stay with one session, but for the job that       *)
(* changes it, which is alone.                                               *)

Of(s, r) == webRun[r].session = s

JobOf(s, j) ==
    /\ j.ask # "create" => j.session = s
    /\ j.run # "none" => Of(s, j.run)
    /\ j.reply.run # "none" => Of(s, j.reply.run)
    /\ \A x \in j.rows : Of(s, x.run)

\* The page has left its session, or is about to, and has no list of the next.
Changes(j) == j.ask = "create" \/ (j.fn = "select" /\ j.ask = "runs")

PolledOf(p) == p.polled # "none" => Of(p.here, p.polled)
ShownOf(p)  == /\ \A x \in p.listed : Of(p.here, x.run)
               /\ p.chosen # "none" => Of(p.here, p.chosen)

HereInv ==
    /\ \A i \in Slots : jobs[i] # Web!Idle => JobOf(page.here, jobs[i])
    /\ PolledOf(page)
    /\ (\A i \in Slots : ~Changes(jobs[i])) => ShownOf(page)
    /\ \A i \in Slots : Changes(jobs[i]) =>
         /\ page.polled = "none" /\ \A x \in Slots \ {i} : jobs[x] = Web!Idle
         /\ jobs[i].ask = "runs" => page.chosen = "none"

LEMMA IdleJob == ~Changes(Web!Idle) /\ Web!Idle.ask = "none"
BY DEF Changes, Web!Idle

\* A step that stays in the session.
LEMMA CalmStep ==
    ASSUME WebType, HereInv, NEW i \in Slots, NEW j, j = Web!Idle \/ JobOf(page.here, j),
           jobs' = [jobs EXCEPT ![i] = j], UNCHANGED webRun, ~Changes(j),
           \A x \in Slots \ {i} : ~Changes(jobs[x]),
           page'.here = page.here, PolledOf(page'), ShownOf(page')
    PROVE  HereInv'
<1>1. \A x \in Slots : jobs'[x] = IF x = i THEN j ELSE jobs[x]
    BY DEF WebType
<1>2. \A x \in Slots : ~Changes(jobs'[x])
    BY <1>1
<1>3. \A x \in Slots : jobs'[x] # Web!Idle => JobOf(page.here, jobs'[x])
    BY <1>1 DEF HereInv
<1> QED BY <1>2, <1>3 DEF HereInv, JobOf, PolledOf, ShownOf, Of, Changes

\* A step into another session.
LEMMA ChangeStep ==
    ASSUME WebType, NEW i \in Slots, NEW j, JobOf(page'.here, j),
           jobs' = [jobs EXCEPT ![i] = j], UNCHANGED webRun, Changes(j),
           \A x \in Slots \ {i} : jobs[x] = Web!Idle,
           page'.polled = "none", j.ask = "runs" => page'.chosen = "none"
    PROVE  HereInv'
<1>1. \A x \in Slots : jobs'[x] = IF x = i THEN j ELSE Web!Idle
    BY DEF WebType
<1>2. jobs'[i] = j /\ \A x \in Slots : Changes(jobs'[x]) => x = i
    BY <1>1, IdleJob
<1>3. \A x \in Slots : jobs'[x] # Web!Idle => JobOf(page'.here, jobs'[x])
    BY <1>1
<1> QED BY <1>1, <1>2, <1>3 DEF HereInv, JobOf, PolledOf, ShownOf, Of, Changes

LEMMA OthersCalm ==
    ASSUME HereInv, NEW i \in Slots
    PROVE  /\ jobs[i] # Web!Idle \/ page.polled # "none" =>
                \A x \in Slots \ {i} : ~Changes(jobs[x])
           /\ Web!Quiet => \A x \in Slots : ~Changes(jobs[x])
BY IdleJob DEF HereInv, Web!Quiet

LEMMA SelectedKnown ==
    ASSUME NEW p, PageIsKnown(p), NEW s \in Sessions
    PROVE  /\ PageIsKnown(Web!Selected(p, s)) /\ Web!Selected(p, s).here = s
           /\ Web!Selected(p, s).chosen = "none" /\ Web!Selected(p, s).polled = "none"
<1>1. Web!NoRun \in Web!Seen
    BY DEF Web!NoRun, Web!Seen
<1> QED BY <1>1 DEF PageIsKnown, PageRecord, Web!Selected, RunOrNone

LEMMA UserTypes ==
    ASSUME Web!WebConstants, WebType, NEW i \in Slots, Web!UserActs(i)
    PROVE  /\ UNCHANGED <<webRun, errors>> /\ acts' \in 0..MaxActs /\ errors' \in 0..MaxErrors
           /\ ~Overlaps => Web!Quiet
BY DEF Web!WebConstants, WebType, Web!UserActs

LEMMA SelectSessionStep ==
    ASSUME Web!WebConstants, WebType, NEW i \in Slots, NEW s \in Sessions, Web!SelectSession(i, s)
    PROVE  WebType' /\ (~Overlaps /\ HereInv => HereInv')
<1> DEFINE j == Web!Ask("select", "runs", s, "none", FALSE)
<1>1. /\ JobIsKnown(j) /\ j.ask = "runs" /\ j.fn = "select" /\ j.session = s /\ j.run = "none"
      /\ j.reply.run = "none" /\ j.rows = {}
    BY DEF Web!Ask, JobIsKnown, WebJob, Web!NoRun, Web!Seen, RunOrNone, JobNames, Questions
<1>2. jobs' = [jobs EXCEPT ![i] = j] /\ page' = Web!Selected(page, s)
    BY DEF Web!SelectSession, Web!Put
<1>3. PageIsKnown(page') /\ page'.here = s /\ page'.polled = "none" /\ page'.chosen = "none"
    BY <1>2, SelectedKnown DEF WebType
<1>4. UNCHANGED <<webRun, errors>> /\ acts' \in 0..MaxActs /\ errors' \in 0..MaxErrors
      /\ (~Overlaps => Web!Quiet)
    BY UserTypes DEF Web!SelectSession
<1> HIDE DEF j
<1>5. WebType'
    BY <1>1, <1>2, <1>3, <1>4, PageTypes
<1>6. ASSUME ~Overlaps, HereInv PROVE HereInv'
    <2>1. \A x \in Slots : jobs[x] = Web!Idle
        BY <1>4, <1>6 DEF Web!Quiet
    <2>2. Changes(j) /\ JobOf(page'.here, j)
        BY <1>1, <1>3 DEF Changes, JobOf
    <2> QED BY <1>2, <1>3, <1>4, <2>1, <2>2, ChangeStep
<1> QED BY <1>5, <1>6

LEMMA CreateSessionStep ==
    ASSUME Web!WebConstants, WebType, NEW i \in Slots, NEW s \in Sessions, Web!CreateSession(i, s)
    PROVE  WebType' /\ (~Overlaps /\ HereInv => HereInv')
<1> DEFINE j == Web!Ask("create", "create", s, "none", FALSE)
<1>1. /\ JobIsKnown(j) /\ j.ask = "create" /\ j.run = "none" /\ j.reply.run = "none" /\ j.rows = {}
    BY DEF Web!Ask, JobIsKnown, WebJob, Web!NoRun, Web!Seen, RunOrNone, JobNames, Questions
<1>2. jobs' = [jobs EXCEPT ![i] = j] /\ page' = page /\ (~Overlaps => page.polled = "none")
    BY DEF Web!CreateSession, Web!Put
<1>3. PageIsKnown(page')
    BY <1>2 DEF WebType
<1>4. UNCHANGED <<webRun, errors>> /\ acts' \in 0..MaxActs /\ errors' \in 0..MaxErrors
      /\ (~Overlaps => Web!Quiet)
    BY UserTypes DEF Web!CreateSession
<1> HIDE DEF j
<1>5. WebType'
    BY <1>1, <1>2, <1>3, <1>4, PageTypes
<1>6. ASSUME ~Overlaps, HereInv PROVE HereInv'
    <2>1. \A x \in Slots : jobs[x] = Web!Idle
        BY <1>4, <1>6 DEF Web!Quiet
    <2>2. Changes(j) /\ JobOf(page'.here, j)
        BY <1>1 DEF Changes, JobOf
    <2> QED BY <1>1, <1>2, <1>4, <1>6, <2>1, <2>2, ChangeStep
<1> QED BY <1>5, <1>6

\* A question within the session.
LEMMA AskHere ==
    ASSUME WebType, NEW i \in Slots, NEW j, JobIsKnown(j), j.session = page.here,
           j.reply.run = "none", j.rows = {}, j.ask # "create", j.fn = "select" => j.ask # "runs",
           jobs' = [jobs EXCEPT ![i] = j],
           UNCHANGED webRun, acts' \in 0..MaxActs, errors' \in 0..MaxErrors,
           PageIsKnown(page'), page'.here = page.here, page'.polled = page.polled,
           page'.listed = page.listed, page'.chosen = page.chosen,
           HereInv => /\ j.run # "none" => Of(page.here, j.run)
                      /\ \A x \in Slots : ~Changes(jobs[x])
    PROVE  WebType' /\ (HereInv => HereInv')
<1>1. WebType'
    BY PageTypes
<1>2. ASSUME HereInv PROVE HereInv'
    <2>1. ~Changes(j) /\ JobOf(page.here, j)
        BY <1>2 DEF Changes, JobOf
    <2>2. PolledOf(page') /\ ShownOf(page')
        BY <1>2 DEF HereInv, PolledOf, ShownOf
    <2> QED BY <1>2, <2>1, <2>2, CalmStep
<1> QED BY <1>1, <1>2

LEMMA UserAsksStep ==
    ASSUME Web!WebConstants, WebType, NEW i \in Slots,
           \/ \E reset \in BOOLEAN : Web!SendTurn(i, reset)
           \/ \E r \in WebRuns, fn \in {"open", "peek", "cancel"} : Web!OpenRun(i, r, fn)
           \/ Web!RefreshRuns(i)
    PROVE  WebType' /\ (~Overlaps /\ HereInv => HereInv')
<1>1. page.here \in Sessions /\ page \in PageRecord /\ PageIsKnown(page)
    BY DEF WebType, PageIsKnown, PageRecord
<1>2. UNCHANGED <<webRun, errors>> /\ acts' \in 0..MaxActs /\ errors' \in 0..MaxErrors
      /\ (~Overlaps => Web!Quiet)
    BY UserTypes DEF Web!SendTurn, Web!OpenRun, Web!RefreshRuns
<1>3. ~Overlaps /\ HereInv => (\A x \in Slots : ~Changes(jobs[x])) /\ ShownOf(page)
    BY <1>2, OthersCalm DEF HereInv
<1>4. CASE \E reset \in BOOLEAN : Web!SendTurn(i, reset)
    <2> DEFINE j == Web!Ask("send", "turn", page.here, "none", FALSE)
    <2>1. /\ jobs' = [jobs EXCEPT ![i] = j]
          /\ page' = [page EXCEPT !.sending = TRUE, !.busy = TRUE]
        BY <1>4 DEF Web!SendTurn, Web!Put
    <2>2. /\ JobIsKnown(j) /\ j.fn = "send" /\ j.ask = "turn" /\ j.session = page.here /\ j.run = "none"
          /\ j.reply.run = "none" /\ j.rows = {}
        BY <1>1 DEF Web!Ask, JobIsKnown, WebJob, Web!NoRun, Web!Seen, RunOrNone, JobNames, Questions
    <2>3. /\ PageIsKnown(page') /\ page'.here = page.here /\ page'.polled = page.polled
          /\ page'.listed = page.listed /\ page'.chosen = page.chosen
        BY <1>1, <2>1 DEF PageIsKnown, PageRecord
    <2> HIDE DEF j
    <2>4. WebType'
        BY <1>2, <2>1, <2>2, <2>3, PageTypes
    <2>5. ASSUME ~Overlaps, HereInv PROVE HereInv'
        BY <1>2, <1>3, <2>1, <2>2, <2>3, <2>5, AskHere
    <2> QED BY <2>4, <2>5
<1>5. ASSUME NEW r \in WebRuns, NEW fn \in {"open", "peek", "cancel"}, Web!OpenRun(i, r, fn)
      PROVE  WebType' /\ (~Overlaps /\ HereInv => HereInv')
    <2> DEFINE j == IF fn = "cancel" THEN Web!Ask(fn, "cancel", page.here, r, FALSE)
                                     ELSE Web!Ask(fn, "run", page.here, r, FALSE)
    <2>1. jobs' = [jobs EXCEPT ![i] = j] /\ page' = page /\ \E x \in page.listed : x.run = r
        BY <1>5 DEF Web!OpenRun, Web!Put
    <2>2. Exists(r)
        BY <1>1, <2>1 DEF PageIsKnown
    <2>3. /\ JobIsKnown(j) /\ j.fn \in {"open", "peek", "cancel"} /\ j.ask \in {"run", "cancel"}
          /\ j.session = page.here /\ j.run = r /\ j.reply.run = "none" /\ j.rows = {}
        BY <1>1, <2>2 DEF Web!Ask, JobIsKnown, WebJob, Web!NoRun, Web!Seen, RunOrNone, JobNames, Questions
    <2> HIDE DEF j
    <2>4. WebType'
        BY <1>1, <1>2, <2>1, <2>3, PageTypes
    <2>5. ASSUME ~Overlaps, HereInv PROVE HereInv'
        <3>1. Of(page.here, r)
            BY <1>3, <2>1, <2>5 DEF ShownOf
        <3> QED BY <1>1, <1>2, <1>3, <2>1, <2>3, <2>5, <3>1, AskHere
    <2> QED BY <2>4, <2>5
<1>6. CASE Web!RefreshRuns(i)
    <2> DEFINE j == Web!Ask("refresh", "runs", page.here, "none", FALSE)
    <2>1. jobs' = [jobs EXCEPT ![i] = j] /\ page' = page
        BY <1>6 DEF Web!RefreshRuns, Web!Put
    <2>2. /\ JobIsKnown(j) /\ j.fn = "refresh" /\ j.ask = "runs" /\ j.session = page.here /\ j.run = "none"
          /\ j.reply.run = "none" /\ j.rows = {}
        BY <1>1 DEF Web!Ask, JobIsKnown, WebJob, Web!NoRun, Web!Seen, RunOrNone, JobNames, Questions
    <2> HIDE DEF j
    <2>3. WebType'
        BY <1>1, <1>2, <2>1, <2>2, PageTypes
    <2>4. ASSUME ~Overlaps, HereInv PROVE HereInv'
        BY <1>1, <1>2, <1>3, <2>1, <2>2, <2>4, AskHere
    <2> QED BY <2>3, <2>4
<1> QED BY <1>4, <1>5, <1>6

LEMMA PollTickStep ==
    ASSUME WebType, NEW i \in Slots, Web!PollTick(i)
    PROVE  WebType' /\ (HereInv => HereInv')
<1> DEFINE j == Web!Ask("tick", "run", page.here, page.polled, FALSE)
<1>1. page.here \in Sessions /\ page \in PageRecord /\ PageIsKnown(page) /\ page.polled \in WebRuns
      /\ Exists(page.polled)
    BY DEF WebType, PageIsKnown, PageRecord, Web!PollTick, RunOrNone
<1>2. jobs' = [jobs EXCEPT ![i] = j] /\ UNCHANGED <<webRun, page, acts, errors>> /\ jobs[i] = Web!Idle
      /\ page.polled # "none"
    BY DEF Web!PollTick, Web!Put
<1>3. /\ JobIsKnown(j) /\ j.fn = "tick" /\ j.ask = "run" /\ j.session = page.here /\ j.run = page.polled
      /\ j.reply.run = "none" /\ j.rows = {}
    BY <1>1 DEF Web!Ask, JobIsKnown, WebJob, Web!NoRun, Web!Seen, RunOrNone, JobNames, Questions
<1> HIDE DEF j
<1>4. acts' \in 0..MaxActs /\ errors' \in 0..MaxErrors
    BY <1>2 DEF WebType
<1>5. ASSUME HereInv
      PROVE  Of(page.here, page.polled) /\ \A x \in Slots : ~Changes(jobs[x])
    BY <1>2, <1>5, OthersCalm, IdleJob DEF HereInv, PolledOf
<1> QED BY <1>1, <1>2, <1>3, <1>4, <1>5, AskHere

\* What a job that has its answer may rely on.
LEMMA JobHere ==
    ASSUME WebType, NEW i \in Slots, jobs[i].ask # "none"
    PROVE  /\ JobIsKnown(jobs[i]) /\ jobs[i] \in WebJob /\ page \in PageRecord /\ PageIsKnown(page)
           /\ HereInv => /\ JobOf(page.here, jobs[i]) /\ PolledOf(page)
                         /\ \A x \in Slots \ {i} : ~Changes(jobs[x])
                         /\ ~Changes(jobs[i]) => ShownOf(page)
<1>1. jobs[i] # Web!Idle
    BY IdleJob
<1>2. JobIsKnown(jobs[i]) /\ jobs[i] \in WebJob /\ page \in PageRecord /\ PageIsKnown(page)
    BY <1>1 DEF WebType, JobIsKnown, PageIsKnown
<1>3. ASSUME HereInv
      PROVE  /\ JobOf(page.here, jobs[i]) /\ PolledOf(page)
             /\ \A x \in Slots \ {i} : ~Changes(jobs[x])
             /\ ~Changes(jobs[i]) => ShownOf(page)
    <2>1. \A x \in Slots \ {i} : ~Changes(jobs[x])
        BY <1>1, <1>3, OthersCalm
    <2> QED BY <1>1, <1>3, <2>1 DEF HereInv
<1> QED BY <1>2, <1>3

LEMMA TurnTakenStep ==
    ASSUME WebType, NEW i \in Slots, Web!TurnTaken(i)
    PROVE  WebType' /\ (HereInv => HereInv')
<1> DEFINE o == jobs[i]
           j == Web!Ask("send", "runs", o.session, o.reply.run, ~o.reply.ended)
<1>1. o.ask = "turn" /\ o.ask # "none"
    BY DEF Web!TurnTaken, Web!Replied
<1>2. /\ JobIsKnown(o) /\ o \in WebJob /\ page \in PageRecord /\ PageIsKnown(page)
      /\ HereInv => /\ JobOf(page.here, o) /\ PolledOf(page)
                    /\ \A x \in Slots \ {i} : ~Changes(jobs[x])
                    /\ ~Changes(o) => ShownOf(page)
    BY <1>1, JobHere
<1>3. /\ jobs' = [jobs EXCEPT ![i] = j] /\ UNCHANGED <<webRun, acts, errors>>
      /\ page' = [page EXCEPT !.here = o.session,
                              !.chosen = IF o.reply.run = "none" THEN @ ELSE o.reply.run]
    BY DEF Web!TurnTaken, Web!Put
<1>4. /\ JobIsKnown(j) /\ j.fn = "send" /\ j.ask = "runs" /\ j.session = o.session /\ j.run = o.reply.run
      /\ j.reply.run = "none" /\ j.rows = {}
    BY <1>2 DEF Web!Ask, JobIsKnown, WebJob, Web!NoRun, Web!Seen, RunOrNone, JobNames, Questions
<1>5. /\ PageIsKnown(page') /\ page'.here = o.session /\ page'.polled = page.polled
      /\ page'.listed = page.listed /\ page'.chosen \in {page.chosen, o.reply.run}
    BY <1>2, <1>3 DEF PageIsKnown, PageRecord, JobIsKnown, WebJob, Web!Seen, RunOrNone
<1>6. acts' \in 0..MaxActs /\ errors' \in 0..MaxErrors
    BY <1>3 DEF WebType
<1> HIDE DEF o, j
<1>7. WebType'
    BY <1>3, <1>4, <1>5, <1>6, PageTypes
<1>8. ASSUME HereInv PROVE HereInv'
    <2>1. o.session = page.here /\ ~Changes(o)
        BY <1>1, <1>2, <1>8 DEF JobOf, Changes
    <2>2. ~Changes(j) /\ JobOf(page.here, j)
        BY <1>2, <1>4, <1>8, <2>1 DEF Changes, JobOf
    <2>3. PolledOf(page') /\ ShownOf(page')
        BY <1>2, <1>5, <1>8, <2>1 DEF PolledOf, ShownOf, JobOf
    <2> QED BY <1>2, <1>3, <1>5, <1>8, <2>1, <2>2, <2>3, CalmStep
<1> QED BY <1>7, <1>8

LEMMA CreatedStep ==
    ASSUME WebType, NEW i \in Slots, Web!Created(i)
    PROVE  WebType' /\ (HereInv => HereInv')
<1> DEFINE s == jobs[i].session
           j == Web!Ask("select", "runs", s, "none", FALSE)
<1>1. jobs[i].ask = "create" /\ jobs[i].ask # "none"
    BY DEF Web!Created, Web!Replied
<1>2. s \in Sessions /\ PageIsKnown(page)
    BY <1>1, JobHere DEF WebJob
<1>3. /\ jobs' = [jobs EXCEPT ![i] = j] /\ UNCHANGED <<webRun, acts, errors>>
      /\ page' = Web!Selected(page, s)
    BY DEF Web!Created, Web!Put
<1>4. /\ JobIsKnown(j) /\ j.fn = "select" /\ j.ask = "runs" /\ j.session = s /\ j.run = "none"
      /\ j.reply.run = "none" /\ j.rows = {}
    BY <1>2 DEF Web!Ask, JobIsKnown, WebJob, Web!NoRun, Web!Seen, RunOrNone, JobNames, Questions
<1>5. acts' \in 0..MaxActs /\ errors' \in 0..MaxErrors
    BY <1>3 DEF WebType
<1> HIDE DEF s, j
<1>6. PageIsKnown(page') /\ page'.here = s /\ page'.polled = "none" /\ page'.chosen = "none"
    BY <1>2, <1>3, SelectedKnown
<1>7. WebType'
    BY <1>3, <1>4, <1>5, <1>6, PageTypes
<1>8. ASSUME HereInv PROVE HereInv'
    <2>1. \A x \in Slots \ {i} : jobs[x] = Web!Idle
        BY <1>1, <1>8 DEF HereInv, Changes
    <2>2. Changes(j) /\ JobOf(page'.here, j)
        BY <1>4, <1>6 DEF Changes, JobOf
    <2> QED BY <1>3, <1>6, <2>1, <2>2, ChangeStep
<1> QED BY <1>7, <1>8

LEMMA ListTasksStep ==
    ASSUME WebType, NEW i \in Slots, Web!ListTasks(i)
    PROVE  WebType' /\ (HereInv => HereInv')
<1> DEFINE o == jobs[i]
           j == IF page.chosen = "none" THEN Web!Idle
                ELSE Web!Ask("select", "run", page.here, page.chosen, FALSE)
<1>1. o.ask = "tasks" /\ o.ask # "none"
    BY DEF Web!ListTasks, Web!Replied
<1>2. /\ page \in PageRecord /\ PageIsKnown(page)
      /\ HereInv => /\ PolledOf(page)
                    /\ \A x \in Slots \ {i} : ~Changes(jobs[x])
                    /\ ~Changes(o) => ShownOf(page)
    BY <1>1, JobHere
<1>3. jobs' = [jobs EXCEPT ![i] = j] /\ UNCHANGED <<webRun, page, acts, errors>>
    BY DEF Web!ListTasks, Web!Put
<1>4. \/ j = Web!Idle
      \/ /\ JobIsKnown(j) /\ j.fn = "select" /\ j.ask = "run" /\ j.session = page.here
         /\ j.run = page.chosen /\ page.chosen # "none" /\ j.reply.run = "none" /\ j.rows = {}
    <2>1. CASE page.chosen # "none"
        <3>1. Exists(page.chosen) /\ page.chosen \in WebRuns /\ page.here \in Sessions
            BY <1>2, <2>1 DEF PageIsKnown, Exists, PageRecord
        <3> QED BY <2>1, <3>1 DEF Web!Ask, JobIsKnown, WebJob, Web!NoRun, Web!Seen, RunOrNone, JobNames, Questions
    <2> QED BY <2>1
<1>5. acts' \in 0..MaxActs /\ errors' \in 0..MaxErrors
    BY <1>3 DEF WebType
<1>6. ~Changes(o)
    BY <1>1 DEF Changes
<1> HIDE DEF o, j
<1>7. WebType'
    BY <1>2, <1>3, <1>4, <1>5, PageTypes
<1>8. ASSUME HereInv PROVE HereInv'
    <2>1. ~Changes(j)
        BY <1>4, IdleJob DEF Changes
    <2>2. j = Web!Idle \/ JobOf(page.here, j)
        BY <1>2, <1>4, <1>6, <1>8 DEF JobOf, ShownOf
    <2> QED BY <1>2, <1>3, <1>6, <1>8, <2>1, <2>2, CalmStep
<1> QED BY <1>7, <1>8

LEMMA CancelTakenStep ==
    ASSUME WebType, NEW i \in Slots, Web!CancelTaken(i)
    PROVE  WebType' /\ (HereInv => HereInv')
<1> DEFINE o == jobs[i]
           j == Web!Ask("cancel", "run", o.session, o.run, ~o.reply.ended)
<1>1. o.ask = "cancel" /\ o.ask # "none"
    BY DEF Web!CancelTaken, Web!Replied
<1>2. /\ JobIsKnown(o) /\ o \in WebJob /\ PageIsKnown(page)
      /\ HereInv => /\ JobOf(page.here, o) /\ PolledOf(page)
                    /\ \A x \in Slots \ {i} : ~Changes(jobs[x])
                    /\ ~Changes(o) => ShownOf(page)
    BY <1>1, JobHere
<1>3. jobs' = [jobs EXCEPT ![i] = j] /\ UNCHANGED <<webRun, page, acts, errors>>
    BY DEF Web!CancelTaken, Web!Put
<1>4. /\ JobIsKnown(j) /\ j.fn = "cancel" /\ j.ask = "run" /\ j.session = o.session /\ j.run = o.run
      /\ j.reply.run = "none" /\ j.rows = {}
    BY <1>1, <1>2 DEF Web!Ask, JobIsKnown, WebJob, Web!NoRun, Web!Seen, RunOrNone, JobNames, Questions
<1>5. acts' \in 0..MaxActs /\ errors' \in 0..MaxErrors
    BY <1>3 DEF WebType
<1>6. ~Changes(o)
    BY <1>1 DEF Changes
<1> HIDE DEF o, j
<1>7. WebType'
    BY <1>2, <1>3, <1>4, <1>5, PageTypes
<1>8. ASSUME HereInv PROVE HereInv'
    <2>1. ~Changes(j)
        BY <1>4 DEF Changes
    <2>2. JobOf(page.here, j)
        BY <1>1, <1>2, <1>4, <1>8 DEF JobOf
    <2> QED BY <1>2, <1>3, <1>6, <1>8, <2>1, <2>2, CalmStep
<1> QED BY <1>7, <1>8

LEMMA ListRunsStep ==
    ASSUME WebType, NEW i \in Slots, Web!ListRuns(i)
    PROVE  WebType' /\ (HereInv => HereInv')
<1> DEFINE o == jobs[i]
           got == {x.run : x \in o.rows}
           Shown(r) == [page EXCEPT !.listed = o.rows, !.chosen = r]
           Goes(r) == CASE o.fn = "select" -> Web!Ask("select", "tasks", o.session, "none", FALSE)
                        [] o.fn = "send" /\ o.run # "none" -> Web!Ask("send", "run", o.session, o.run, o.live)
                        [] o.fn \in {"init", "refresh"} /\ r # "none" ->
                               Web!Ask(o.fn, "run", o.session, r, FALSE)
                        [] OTHER -> Web!Idle
<1>1. o.ask = "runs" /\ o.ask # "none"
    BY DEF Web!ListRuns, Web!Replied
<1>2. /\ JobIsKnown(o) /\ o \in WebJob /\ page \in PageRecord /\ PageIsKnown(page)
      /\ HereInv => /\ JobOf(page.here, o) /\ PolledOf(page)
                    /\ \A x \in Slots \ {i} : ~Changes(jobs[x])
    BY <1>1, JobHere
<1>3. UNCHANGED <<webRun, acts, errors>>
    BY DEF Web!ListRuns
<1>4. PICK first : /\ first \in IF page.chosen \in got THEN {page.chosen}
                                ELSE IF got = {} THEN {"none"} ELSE got
                   /\ page' = IF o.fn = "send" /\ o.run = "none"
                              THEN Web!Sent([Shown(first) EXCEPT !.busy = FALSE]) ELSE Shown(first)
                   /\ jobs' = [jobs EXCEPT ![i] = Goes(first)]
    BY DEF Web!ListRuns, Web!Put
<1>5. first \in got \/ first = "none"
    BY <1>4
<1>6. first = "none" \/ (first \in WebRuns /\ Exists(first))
    BY <1>2, <1>5 DEF JobIsKnown, Exists
<1>7. /\ PageIsKnown(page') /\ page'.here = page.here /\ page'.polled = page.polled
      /\ page'.listed = o.rows /\ page'.chosen = first
    <2>1. Shown(first) \in PageRecord /\ [Shown(first) EXCEPT !.busy = FALSE] \in PageRecord
        BY <1>2, <1>6 DEF PageRecord, WebJob, RunOrNone
    <2>2. \/ page' = Shown(first)
          \/ page' = [[Shown(first) EXCEPT !.busy = FALSE] EXCEPT !.sending = FALSE,
                                               !.busy = FALSE /\ page.polled # "none"]
        BY <1>2, <1>4 DEF Web!Sent, PageRecord
    <2>3. /\ page' \in PageRecord /\ page'.here = page.here /\ page'.polled = page.polled
          /\ page'.listed = o.rows /\ page'.chosen = first
        BY <1>2, <2>1, <2>2 DEF PageRecord
    <2> QED BY <1>2, <1>6, <2>3 DEF PageIsKnown, JobIsKnown
<1> DEFINE j == Goes(first)
<1>8. \/ j = Web!Idle
      \/ /\ JobIsKnown(j) /\ j.ask \in {"tasks", "run"} /\ j.session = o.session
         /\ j.run \in {"none", o.run, first} /\ j.reply.run = "none" /\ j.rows = {}
    <2>1. CASE o.fn = "select"
        BY <1>2, <2>1 DEF Web!Ask, JobIsKnown, WebJob, Web!NoRun, Web!Seen, RunOrNone, JobNames, Questions
    <2>2. CASE o.fn # "select" /\ o.fn = "send" /\ o.run # "none"
        BY <1>2, <2>2 DEF Web!Ask, JobIsKnown, WebJob, Web!NoRun, Web!Seen, RunOrNone, JobNames, Questions
    <2>3. CASE o.fn \in {"init", "refresh"} /\ first # "none"
        BY <1>2, <1>6, <2>3 DEF Web!Ask, JobIsKnown, WebJob, Web!NoRun, Web!Seen, RunOrNone, JobNames, Questions
    <2>4. CASE /\ o.fn # "select" /\ ~(o.fn = "send" /\ o.run # "none")
               /\ ~(o.fn \in {"init", "refresh"} /\ first # "none")
        BY <2>4
    <2> QED BY <2>1, <2>2, <2>3, <2>4
<1>9. acts' \in 0..MaxActs /\ errors' \in 0..MaxErrors
    BY <1>3 DEF WebType
<1>10. jobs' = [jobs EXCEPT ![i] = j]
    BY <1>4
<1>11. HereInv => (first # "none" => Of(page.here, first)) /\ \A x \in o.rows : Of(page.here, x.run)
    BY <1>2, <1>5 DEF JobOf
<1> HIDE DEF o, j, got, Shown, Goes
<1>12. WebType'
    BY <1>3, <1>7, <1>8, <1>9, <1>10, PageTypes
<1>13. ASSUME HereInv PROVE HereInv'
    <2>1. ~Changes(j)
        BY <1>8, IdleJob DEF Changes
    <2>2. j = Web!Idle \/ JobOf(page.here, j)
        BY <1>1, <1>2, <1>8, <1>11, <1>13 DEF JobOf
    <2>3. PolledOf(page') /\ ShownOf(page')
        BY <1>2, <1>7, <1>11, <1>13 DEF PolledOf, ShownOf
    <2> QED BY <1>2, <1>3, <1>7, <1>10, <1>13, <2>1, <2>2, <2>3, CalmStep
<1> QED BY <1>12, <1>13

\* What a loaded run does to the page: it is chosen, and polled if it goes on.
LEMMA LoadedKnown ==
    ASSUME WebType, NEW x \in Web!Seen, Exists(x.run), x.run \in WebRuns
    PROVE  LET p == Web!Loaded(page, x) IN
             /\ PageIsKnown(p) /\ p.here = page.here /\ p.polled = page.polled /\ p.chosen = x.run
             /\ \A y \in p.listed : y \in page.listed \/ y = x
BY DEF WebType, PageIsKnown, PageRecord, Web!Loaded, RunOrNone

LEMMA ShowRunStep ==
    ASSUME Web!WebConstants, WebType, NEW i \in Slots, Web!ShowRun(i)
    PROVE  WebType' /\ (HereInv => HereInv')
<1> DEFINE o == jobs[i]
           x == o.reply
           p == Web!Loaded(page, x)
           j == IF o.fn = "tick" /\ x.ended THEN Web!Ask("tick", "runs", page.here, "none", FALSE)
                ELSE Web!Idle
<1>1. o.ask = "run" /\ o.back /\ o.ask # "none"
    BY DEF Web!ShowRun, Web!Replied
<1>2. /\ JobIsKnown(o) /\ o \in WebJob /\ page \in PageRecord /\ PageIsKnown(page)
      /\ HereInv => /\ JobOf(page.here, o) /\ PolledOf(page)
                    /\ \A y \in Slots \ {i} : ~Changes(jobs[y])
                    /\ ~Changes(o) => ShownOf(page)
    BY <1>1, JobHere
<1>3. jobs' = [jobs EXCEPT ![i] = j] /\ UNCHANGED <<webRun, acts, errors>>
    BY DEF Web!ShowRun, Web!Put
<1>4. x \in Web!Seen /\ Exists(x.run) /\ x.run = o.run /\ x.run \in WebRuns
    BY <1>1, <1>2 DEF JobIsKnown, WebJob, Exists
<1>5. /\ PageIsKnown(p) /\ p.here = page.here /\ p.polled = page.polled /\ p.chosen = x.run
      /\ \A y \in p.listed : y \in page.listed \/ y = x
    BY <1>4, LoadedKnown
<1>6. /\ page' \in PageRecord /\ page'.here = p.here /\ page'.chosen = p.chosen /\ page'.listed = p.listed
      /\ page'.polled \in {p.polled, x.run, "none"}
    <2>1. o.fn \in {"tick", "send", "cancel", "init", "select", "open", "peek", "refresh"}
        BY <1>1, <1>2 DEF JobIsKnown, WebJob, JobNames
    <2>2. page' = CASE o.fn = "tick" -> Web!AfterTick(p, x)
                    [] o.fn = "send" -> Web!Sent(IF o.live THEN [p EXCEPT !.polled = x.run]
                                                 ELSE [p EXCEPT !.polled = "none", !.busy = FALSE])
                    [] o.fn = "cancel" -> IF o.live THEN [p EXCEPT !.polled = x.run] ELSE p
                    [] o.fn \in {"init", "select", "open"} ->
                           IF x.ended THEN p ELSE [p EXCEPT !.polled = x.run]
                    [] o.fn \in {"peek", "refresh"} -> p
        BY DEF Web!ShowRun
    <2>3. p \in PageRecord
        BY <1>5 DEF PageIsKnown
    <2> HIDE DEF o, x, p
    <2>4. CASE o.fn = "tick"
        <3>1. page' = IF x.ended THEN [p EXCEPT !.polled = "none", !.busy = FALSE] ELSE p
            BY <2>2, <2>4 DEF Web!AfterTick
        <3> QED BY <2>3, <3>1 DEF PageRecord, RunOrNone
    <2>5. CASE o.fn = "send"
        <3> DEFINE q == IF o.live THEN [p EXCEPT !.polled = x.run]
                        ELSE [p EXCEPT !.polled = "none", !.busy = FALSE]
        <3>1. q \in PageRecord /\ q.here = p.here /\ q.chosen = p.chosen /\ q.listed = p.listed
              /\ q.polled \in {x.run, "none"}
            BY <1>4, <2>3 DEF PageRecord, RunOrNone
        <3>2. page' = Web!Sent(q)
            BY <2>2, <2>5
        <3> HIDE DEF q
        <3> QED BY <3>1, <3>2 DEF Web!Sent, PageRecord
    <2>6. CASE o.fn \in {"cancel", "init", "select", "open", "peek", "refresh"}
        <3>1. page' \in {p, [p EXCEPT !.polled = x.run]}
            BY <2>2, <2>6
        <3> QED BY <1>4, <2>3, <3>1 DEF PageRecord, RunOrNone
    <2> QED BY <2>1, <2>4, <2>5, <2>6
<1>7. PageIsKnown(page')
    BY <1>4, <1>5, <1>6 DEF PageIsKnown
<1>8. \/ j = Web!Idle
      \/ /\ JobIsKnown(j) /\ j.fn = "tick" /\ j.session = page.here
         /\ j.run = "none" /\ j.ask = "runs" /\ j.reply.run = "none" /\ j.rows = {}
    <2>1. page.here \in Sessions
        BY <1>2 DEF PageRecord
    <2> QED BY <2>1 DEF Web!Ask, JobIsKnown, WebJob, Web!NoRun, Web!Seen, RunOrNone, JobNames, Questions
<1>9. acts' \in 0..MaxActs /\ errors' \in 0..MaxErrors
    BY <1>3 DEF WebType
<1>10. ~Changes(o)
    BY <1>1 DEF Changes
<1> HIDE DEF o, x, p, j
<1>11. WebType'
    BY <1>3, <1>7, <1>8, <1>9, PageTypes
<1>12. ASSUME HereInv PROVE HereInv'
    <2>1. ~Changes(j)
        BY <1>8, IdleJob DEF Changes
    <2>2. j = Web!Idle \/ JobOf(page.here, j)
        BY <1>8 DEF JobOf
    <2>3. Of(page.here, x.run)
        BY <1>2, <1>4, <1>12 DEF JobOf, Web!WebConstants
    <2>4. PolledOf(page') /\ ShownOf(page')
        BY <1>2, <1>5, <1>6, <1>10, <1>12, <2>3 DEF PolledOf, ShownOf
    <2> QED BY <1>2, <1>3, <1>5, <1>6, <1>12, <2>1, <2>2, <2>4, CalmStep
<1> QED BY <1>11, <1>12

LEMMA RequestFailsStep ==
    ASSUME Web!WebConstants, WebType, NEW i \in Slots, Web!RequestFails(i)
    PROVE  WebType' /\ errors' # 0
<1>1. page \in PageRecord /\ PageIsKnown(page) /\ Web!WebConstants
    BY DEF WebType, PageIsKnown
<1>2. jobs' = [jobs EXCEPT ![i] = Web!Idle] /\ UNCHANGED <<webRun, acts>> /\ errors' = errors + 1
      /\ errors < MaxErrors
    BY DEF Web!RequestFails, Web!Put
<1>3. errors' \in 0..MaxErrors /\ errors' # 0 /\ acts' \in 0..MaxActs
    BY <1>1, <1>2 DEF WebType, Web!WebConstants
<1>4. page' \in {page, [page EXCEPT !.polled = "none", !.busy = FALSE], Web!Sent(page)}
    BY DEF Web!RequestFails
<1>5. PageIsKnown(page')
    BY <1>1, <1>4 DEF PageIsKnown, PageRecord, Web!Sent, RunOrNone
<1> QED BY <1>2, <1>3, <1>5, PageTypes

\* A step of the server: the runs keep their sessions, and a job learns of its own.
LEMMA ServerStep ==
    ASSUME WebType, HereInv, RunsStay, page' = page, NEW i \in Slots, NEW k, jobs' = [jobs EXCEPT ![i] = k],
           jobs[i] # Web!Idle, k # Web!Idle, JobOf(page.here, k)', k.fn = jobs[i].fn, k.ask = jobs[i].ask
    PROVE  HereInv'
<1>1. \A x \in Slots : jobs'[x] = IF x = i THEN k ELSE jobs[x]
    BY DEF WebType
<1>2. \A x \in Slots : (jobs'[x] = Web!Idle <=> jobs[x] = Web!Idle) /\ (Changes(jobs'[x]) <=> Changes(jobs[x]))
    BY <1>1 DEF Changes
<1>3. \A r \in WebRuns : Exists(r) /\ Of(page.here, r) => Of(page.here, r)'
    BY DEF RunsStay, Of
<1>4. \A x \in Slots : (jobs[x] # Web!Idle => JobOf(page.here, jobs[x]))'
    <2>1. SUFFICES ASSUME NEW x \in Slots, x # i, jobs'[x] # Web!Idle
                   PROVE  JobOf(page.here, jobs[x])'
        BY <1>1
    <2>2. jobs'[x] = jobs[x] /\ JobOf(page.here, jobs[x]) /\ JobIsKnown(jobs[x])
        BY <1>1, <2>1 DEF HereInv, WebType
    <2> QED BY <1>3, <2>2 DEF JobOf, JobIsKnown, Exists
<1>5. PolledOf(page)' /\ (ShownOf(page) => ShownOf(page)')
    BY <1>3 DEF HereInv, PolledOf, ShownOf, WebType, PageIsKnown, Exists
<1>6. (\A x \in Slots : ~Changes(jobs[x]))' => ShownOf(page)'
    BY <1>2, <1>5 DEF HereInv, Changes
<1>7. \A x \in Slots : Changes(jobs[x])' =>
         /\ page'.polled = "none" /\ \A y \in Slots \ {x} : jobs'[y] = Web!Idle
         /\ jobs'[x].ask = "runs" => page'.chosen = "none"
    BY <1>1, <1>2 DEF HereInv, Changes
<1> QED BY <1>4, <1>5, <1>6, <1>7 DEF HereInv

LEMMA AnswerStep ==
    ASSUME Web!WebConstants, WebType, NEW i \in Slots, Web!Answer(i), HereInv
    PROVE  HereInv'
<1>1. PICK j : j = jobs[i]
    OBVIOUS
<1>2. JobIsKnown(j) /\ UNCHANGED page /\ RunsStay /\ j # Web!Idle /\ JobOf(page.here, j)
    BY <1>1, AnswerLearns DEF Web!Answer, Web!Waits, HereInv
<1>3. PICK v, rows : /\ Learnt(jobs[i], v, rows)
                     /\ jobs' = [jobs EXCEPT ![i] = [jobs[i] EXCEPT !.reply = v, !.rows = rows,
                                                                    !.back = TRUE]]
    BY AnswerLearns
<1>4. Learnt(j, v, rows)
    BY <1>1, <1>3 DEF Learnt
<1>5. PICK k : k = [j EXCEPT !.reply = v, !.rows = rows, !.back = TRUE]
    OBVIOUS
<1>6. jobs' = [jobs EXCEPT ![i] = k]
    BY <1>1, <1>3, <1>5
<1>7. /\ k.reply = v /\ k.rows = rows /\ k.fn = j.fn /\ k.ask = j.ask /\ k.session = j.session
      /\ k.run = j.run /\ k.fn # "none"
    BY <1>2, <1>5 DEF JobIsKnown, WebJob, JobNames
<1>8. \A r \in WebRuns : Exists(r) /\ Of(page.here, r) => Of(page.here, r)'
    BY <1>2 DEF RunsStay, Of
<1>9. j.session \in Sessions /\ (j.run # "none" => Of(page.here, j.run)')
    BY <1>2, <1>8 DEF JobOf, JobIsKnown, WebJob, Exists
<1>10. v.run # "none" => Of(page.here, v.run)'
    <2>1. CASE j.ask = "turn" /\ v.run \in WebRuns /\ webRun'[v.run].session = j.session
        BY <1>2, <2>1 DEF JobOf, Of
    <2>2. CASE v.run = j.run
        BY <1>9, <2>2
    <2> QED BY <1>4, <2>1, <2>2 DEF Learnt
<1>11. \A x \in rows : Of(page.here, x.run)'
    <2>1. SUFFICES ASSUME NEW x \in rows PROVE Of(page.here, x.run)'
        OBVIOUS
    <2>2. x.run \in Web!RunsOf(j.session) /\ j.session = page.here
        BY <1>2, <1>4 DEF Learnt, JobOf
    <2>3. Exists(x.run) /\ x.run \in WebRuns /\ Of(page.here, x.run)
        BY <1>9, <2>2, RunsKnown DEF Of, Exists
    <2> QED BY <1>8, <2>3
<1>12. JobOf(page.here, k)'
    BY <1>2, <1>7, <1>9, <1>10, <1>11 DEF JobOf
<1>13. k # Web!Idle
    BY <1>7 DEF Web!Idle
<1> QED BY <1>1, <1>2, <1>6, <1>7, <1>12, <1>13, ServerStep

LEMMA RunEndsStep ==
    ASSUME WebType, NEW r \in WebRuns, Web!RunEnds(r), HereInv
    PROVE  HereInv'
<1>1. RunsStay /\ UNCHANGED <<page, jobs>>
    BY RunEndsTypes DEF Web!RunEnds
<1>2. \A x \in WebRuns : Exists(x) /\ Of(page.here, x) => Of(page.here, x)'
    BY <1>1 DEF RunsStay, Of
<1>3. \A x \in Slots : (jobs[x] # Web!Idle => JobOf(page.here, jobs[x]))'
    BY <1>1, <1>2 DEF HereInv, WebType, JobOf, JobIsKnown, Exists
<1>4. PolledOf(page)' /\ (ShownOf(page) => ShownOf(page)')
    BY <1>1, <1>2 DEF HereInv, PolledOf, ShownOf, WebType, PageIsKnown, Exists
<1> QED BY <1>1, <1>3, <1>4 DEF HereInv, Changes

-----------------------------------------------------------------------------
LEMMA WebInit ==
    ASSUME Web!WebConstants, Web!Init
    PROVE  WebType /\ HereInv
<1>1. webRun \in [WebRuns -> WebRecord \cup {Web!Absent}]
    BY DEF Web!Init, Web!Server, WebRecord
<1>2. PICK s \in Sessions, i \in Slots :
         /\ page = [here |-> s, chosen |-> "none", listed |-> {}, payload |-> Web!NoRun,
                    polled |-> "none", sending |-> FALSE, busy |-> FALSE]
         /\ jobs = [x \in Slots |-> IF x = i THEN Web!Ask("init", "runs", s, "none", FALSE) ELSE Web!Idle]
    BY DEF Web!Init
<1> DEFINE j == Web!Ask("init", "runs", s, "none", FALSE)
<1>3. /\ JobIsKnown(j) /\ j.fn = "init" /\ j.ask = "runs" /\ j.session = s /\ j.run = "none"
      /\ j.reply.run = "none" /\ j.rows = {}
    BY DEF Web!Ask, JobIsKnown, WebJob, Web!NoRun, Web!Seen, RunOrNone, JobNames, Questions
<1>4. page \in PageRecord /\ PageIsKnown(page)
    BY <1>2 DEF PageRecord, PageIsKnown, Web!NoRun, Web!Seen, RunOrNone
<1>5. acts \in 0..MaxActs /\ errors \in 0..MaxErrors
    BY DEF Web!Init, Web!WebConstants
<1>6. \A x \in Slots : jobs[x] = IF x = i THEN j ELSE Web!Idle
    BY <1>2
<1>7. DOMAIN jobs = Slots /\ jobs = [x \in Slots |-> jobs[x]]
    BY <1>2
<1> HIDE DEF j
<1>8. WebType
    BY <1>1, <1>3, <1>4, <1>5, <1>6, <1>7 DEF WebType
<1>9. page.here = s /\ page.polled = "none" /\ page.chosen = "none" /\ page.listed = {}
    BY <1>2
<1>10. JobOf(page.here, j) /\ ~Changes(j)
    BY <1>3, <1>9 DEF JobOf, Changes
<1>11. \A x \in Slots : ~Changes(jobs[x]) /\ (jobs[x] # Web!Idle => JobOf(page.here, jobs[x]))
    BY <1>6, <1>10, IdleJob
<1> QED BY <1>8, <1>9, <1>11 DEF HereInv, PolledOf, ShownOf

WebInv == WebType /\ (errors = 0 => HereInv)

LEMMA UserStepKeeps ==
    ASSUME Web!WebConstants, ~Overlaps, WebInv, NEW i \in Slots, Web!UserStep(i)
    PROVE  WebInv'
<1>1. UNCHANGED errors
    BY DEF Web!UserStep, Web!SelectSession, Web!CreateSession, Web!SendTurn, Web!OpenRun,
           Web!RefreshRuns, Web!UserActs
<1>2. WebType' /\ (HereInv => HereInv')
    BY SelectSessionStep, CreateSessionStep, UserAsksStep DEF Web!UserStep, WebInv
<1> QED BY <1>1, <1>2 DEF WebInv

LEMMA JobStepKeeps ==
    ASSUME Web!WebConstants, WebInv, NEW i \in Slots, Web!JobStep(i)
    PROVE  WebInv'
<1>1. UNCHANGED errors
    BY DEF Web!JobStep, Web!PageStep, Web!Answer, Web!PollTick, Web!TurnTaken, Web!Created, Web!ListRuns,
           Web!ListTasks, Web!ShowRun, Web!CancelTaken
<1>2. CASE Web!Answer(i)
    BY <1>1, <1>2, AnswerTypes, AnswerStep DEF WebInv
<1>3. CASE Web!PollTick(i)
    BY <1>1, <1>3, PollTickStep DEF WebInv
<1>4. CASE Web!PageStep(i)
    BY <1>1, <1>4, TurnTakenStep, CreatedStep, ListRunsStep, ListTasksStep, ShowRunStep, CancelTakenStep
       DEF WebInv, Web!PageStep
<1> QED BY <1>2, <1>3, <1>4 DEF Web!JobStep

LEMMA WebStep ==
    ASSUME Web!WebConstants, ~Overlaps, WebInv, [Web!Next]_(Web!webVars)
    PROVE  WebInv'
<1>1. CASE UNCHANGED Web!webVars
    <2>1. UNCHANGED <<webRun, page, jobs, acts, errors>>
        BY <1>1 DEF Web!webVars
    <2> QED BY <2>1 DEF WebInv, WebType, PageIsKnown, JobIsKnown, Exists, HereInv, JobOf, PolledOf, ShownOf,
                        Of, Changes
<1>2. ASSUME NEW r \in WebRuns, Web!RunEnds(r) PROVE WebInv'
    BY <1>2, RunEndsTypes, RunEndsStep DEF WebInv, Web!RunEnds
<1>3. ASSUME NEW i \in Slots, Web!RequestFails(i) PROVE WebInv'
    BY <1>3, RequestFailsStep DEF WebInv
<1> QED BY <1>1, <1>2, <1>3, UserStepKeeps, JobStepKeeps DEF Web!Next

\* The user of the page who waits for answers sees one session: once none is
\* awaited, and none failed, the runs on display and the one that is polled are
\* of the session on display.
THEOREM SessionIsShown ==
    ASSUME Web!WebConstants, ~Overlaps PROVE Web!Spec => []Web!ShownIsOfSession
<1>1. Web!Init => WebInv
    BY WebInit DEF WebInv
<1>2. WebInv /\ [Web!Next]_(Web!webVars) => WebInv'
    BY WebStep
<1>3. WebInv => Web!ShownIsOfSession
    <2>1. ASSUME WebInv, Web!Quiet, errors = 0 PROVE PolledOf(page) /\ ShownOf(page)
        BY <2>1, OthersCalm DEF WebInv, HereInv
    <2> QED BY <2>1 DEF Web!ShownIsOfSession, PolledOf, ShownOf, Of
<1> QED BY <1>1, <1>2, <1>3, PTL DEF Web!Spec

\* Whoever does not wait for answers may mix sessions, yet no client comes to know
\* of a run that the server does not have.
LEMMA WebTypeStep ==
    ASSUME Web!WebConstants, WebType, [Web!Next]_(Web!webVars)
    PROVE  WebType'
<1>1. CASE UNCHANGED Web!webVars
    <2>1. UNCHANGED <<webRun, page, jobs, acts, errors>>
        BY <1>1 DEF Web!webVars
    <2> QED BY <2>1 DEF WebType, PageIsKnown, JobIsKnown, Exists
<1>2. ASSUME NEW r \in WebRuns, Web!RunEnds(r) PROVE WebType'
    BY <1>2, RunEndsTypes
<1>3. ASSUME NEW i \in Slots, Web!RequestFails(i) PROVE WebType'
    BY <1>3, RequestFailsStep
<1>4. ASSUME NEW i \in Slots, Web!UserStep(i) PROVE WebType'
    BY <1>4, SelectSessionStep, CreateSessionStep, UserAsksStep DEF Web!UserStep
<1>5. ASSUME NEW i \in Slots, Web!JobStep(i) PROVE WebType'
    <2>1. CASE Web!Answer(i)
        BY <2>1, AnswerTypes
    <2>2. CASE Web!PollTick(i)
        BY <2>2, PollTickStep
    <2>3. CASE Web!PageStep(i)
        BY <2>3, TurnTakenStep, CreatedStep, ListRunsStep, ListTasksStep, ShowRunStep, CancelTakenStep
           DEF Web!PageStep
    <2> QED BY <1>5, <2>1, <2>2, <2>3 DEF Web!JobStep
<1> QED BY <1>1, <1>2, <1>3, <1>4, <1>5 DEF Web!Next

\* What the page lists, shows and polls are runs, and what it is busy with is
\* within its bounds, whether the user waits for answers or not.
THEOREM WebTypeCorrect ==
    ASSUME Web!WebConstants PROVE Web!Spec => []Web!TypeOK
<1>1. Web!Init => WebType
    BY WebInit
<1>2. WebType /\ [Web!Next]_(Web!webVars) => WebType'
    BY WebTypeStep
<1>3. WebType => Web!TypeOK
    BY DEF WebType, PageIsKnown, PageRecord, WebRecord, RunOrNone, Web!TypeOK
<1> QED BY <1>1, <1>2, <1>3, PTL DEF Web!Spec

-----------------------------------------------------------------------------
(* The OpenAI account. *)

\* A status of a login is kept for each.
LoginsFit == login = [l \in Logins |-> login[l]]

\* The end of a login is final.
EndsAreFinal == \A l \in Logins : login[l] \in Account!Ended => login'[l] \in Account!Ended

\* publish: what it says of a login that has ended is an end too.
LEMMA PublishKeepsEnds ==
    ASSUME LoginsFit, NEW l, NEW status, NEW then, Account!Publish(l, status, then),
           status \in Account!Ended \/ login[l] \notin Account!Ended
    PROVE  LoginsFit' /\ EndsAreFinal
<1>1. login' = [login EXCEPT ![l] = status]
    BY DEF Account!Publish
<1> QED BY <1>1 DEF LoginsFit, EndsAreFinal

LEMMA LoginsStay ==
    ASSUME LoginsFit, [Account!Next]_(Account!accountVars)
    PROVE  LoginsFit' /\ EndsAreFinal
<1>1. CASE UNCHANGED login
    BY <1>1 DEF LoginsFit, EndsAreFinal
<1>2. CASE Account!ReadLine
    <2>1. UNCHANGED login
          \/ \E l : \E status \in {"completed", "failed"} : Account!Publish(l, status, calls)
        BY <1>2 DEF Account!ReadLine
    <2>2. {"completed", "failed"} \subseteq Account!Ended
        BY DEF Account!Ended
    <2> QED BY <2>1, <2>2, <1>1, PublishKeepsEnds
<1>3. ASSUME NEW i \in Calls, Account!LoginStarted(i) PROVE LoginsFit' /\ EndsAreFinal
    <2>1. PICK l, then : Account!Publish(l, Account!StartedAs(l), then)
        BY <1>3 DEF Account!LoginStarted
    <2>2. Account!StartedAs(l) \in Account!Ended \/ login[l] \notin Account!Ended
        BY DEF Account!StartedAs
    <2> QED BY <2>1, <2>2, PublishKeepsEnds
<1>4. ASSUME NEW i \in Calls, Account!LoginCancelled(i) PROVE LoginsFit' /\ EndsAreFinal
    <2>1. PICK l, then : Account!Publish(l, "cancelled", then)
        BY <1>4 DEF Account!LoginCancelled
    <2>2. "cancelled" \in Account!Ended
        BY DEF Account!Ended
    <2> QED BY <2>1, <2>2, PublishKeepsEnds
<1>5. ASSUME NEW i \in Calls, Account!CallFails(i) PROVE LoginsFit' /\ EndsAreFinal
    <2>1. UNCHANGED login \/ \E l, then : Account!Publish(l, "failed", then)
        BY <1>5 DEF Account!CallFails
    <2>2. "failed" \in Account!Ended
        BY DEF Account!Ended
    <2> QED BY <2>1, <2>2, <1>1, PublishKeepsEnds
<1>6. ASSUME NEW i \in Calls, Account!CallStep(i) PROVE LoginsFit' /\ EndsAreFinal
    <2>1. CASE Account!LoginStarted(i) \/ Account!LoginCancelled(i) \/ Account!CallFails(i)
        BY <2>1, <1>3, <1>4, <1>5
    <2>2. CASE Account!Sent(i) \/ Account!LimitsRead(i) \/ Account!LoginSeen(i)
               \/ Account!PageAnswered(i) \/ Account!PollingStarts(i)
        BY <2>2, <1>1 DEF Account!Sent, Account!LimitsRead, Account!LoginSeen,
                          Account!PageAnswered, Account!PollingStarts
    <2> QED BY <1>6, <2>1, <2>2 DEF Account!CallStep
<1>7. ASSUME NEW i \in Calls, Account!Answered(i) \/ Account!Asks(i)
      PROVE  LoginsFit' /\ EndsAreFinal
    BY <1>7, <1>1 DEF Account!Answered, Account!AppAnswers, Account!AppRefuses, Account!Asks,
                      Account!Acts, Account!TerminalSignsIn, Account!RuntimeReadsLimits,
                      Account!StartOpenAiLogin, Account!CancelOpenAiLogin, Account!WaitTimesOut
<1>8. CASE Account!HandshakeDone
    <2>1. UNCHANGED login
        BY <1>8 DEF Account!HandshakeDone
    <2> QED BY <2>1, <1>1
<1>9. CASE Account!AppTells
    <2>1. <<login, cache, calls, form, asked, refused>>' = <<login, cache, calls, form, asked, refused>>
        BY <1>9, Zenon DEF Account!AppTells
    <2>2. UNCHANGED login
        BY <2>1
    <2> QED BY <2>2, <1>1
<1>10. CASE Account!AppCrashes
    BY <1>10, <1>1 DEF Account!AppCrashes
<1>11. CASE \E i \in Calls, l \in Logins : Account!PollTick(i, l)
    BY <1>11, <1>1 DEF Account!PollTick
<1> QED BY <1>1, <1>2, <1>6, <1>7, <1>8, <1>9, <1>10, <1>11 DEF Account!Next, Account!accountVars

\* A login that ended is never under way again (accountService.ts:168), in
\* whatever order the answer that opens it, the event of its end, a timeout and a
\* cancellation are handled, and whether or not the App Server crashes between.
THEOREM EndsOfLoginsStay ==
    PartsInit /\ [][PartsNext]_partVars => Account!EndedStaysEnded
<1>1. PartsInit => LoginsFit
    BY DEF PartsInit, Account!Init, LoginsFit
<1>2. [PartsNext]_partVars => [Account!Next]_(Account!accountVars)
    BY DEF PartsNext, OthersStay, partVars, accountVars, Account!accountVars
<1>3. LoginsFit /\ [PartsNext]_partVars => LoginsFit' /\ [EndsAreFinal]_(Account!accountVars)
    BY <1>2, LoginsStay
<1>4. LoginsFit /\ [PartsNext]_partVars
      => [\A l \in Logins : login[l] \in Account!Ended => login'[l] \in Account!Ended]_(Account!accountVars)
    BY <1>3 DEF EndsAreFinal
<1> QED BY <1>1, <1>3, <1>4, PTL DEF Account!EndedStaysEnded

-----------------------------------------------------------------------------
(* The OpenAI account: its types. *)

\* The logins that the App Server has opened.
Known == remote.open \cup remote.ended

CallFields == {"op", "login", "page", "at", "seen", "limits"}

\* A call that asks for a login, or was told of one, has one that is known, and a
\* call that only waits has no request to be answered.  The limits it was told of are
\* at most those of the App Server.
CallFits(c, known, limits) ==
    /\ c = [f \in CallFields |-> c[f]] /\ c.page \in BOOLEAN
    /\ c.op \in {"cancel", "timeout", "wait", "poll", "first"} => c.login \in known
    /\ c.op = "start" /\ (c.at = "settled" \/ (c.at = "reply" /\ c.seen # "error")) => c.login \in known
    /\ c.op = "wait" => c.at = "waiting"
    /\ c.op = "first" => c.at = "asked"
    /\ c.limits \in 0..limits

CallsFit(cs, known, limits) ==
    /\ DOMAIN cs = Calls /\ cs = [i \in Calls |-> cs[i]]
    /\ \A i \in Calls : cs[i] = Account!Idle \/ CallFits(cs[i], known, limits)

PipeLine ==
    [kind : {"answer"}, call : Calls, login : Logins \cup {"none"}, limits : Nat]
    \cup [kind : {"login"}, login : Logins, success : BOOLEAN]
    \cup [kind : {"limits"}, limits : Nat]

\* An answer is for a call that awaits it.
LineFits(n, cs, known, limits) ==
    /\ n.kind = "answer" => /\ cs[n.call].at = "answered"
                            /\ cs[n.call].op # "limits" => n.login \in known
    /\ n.kind = "login" => n.login \in known
    /\ n.kind \in {"answer", "limits"} => n.limits \in 0..limits

\* No call is answered twice.
Apart(m, n) == m.kind = "answer" /\ n.kind = "answer" => m.call # n.call

LinesFit(ls, cs, known, limits) ==
    /\ ls \in Seq(PipeLine)
    /\ \A k \in 1..Len(ls) : LineFits(ls[k], cs, known, limits)
    /\ \A j, k \in 1..Len(ls) : j < k => Apart(ls[j], ls[k])

RemoteFits ==
    /\ remote \in [open : SUBSET Logins, ended : SUBSET Logins, limits : Nat]
    /\ remote.open \cap remote.ended = {}

LinkFits ==
    /\ link \in [state : {"down", "shaking", "up"}, lines : Seq(PipeLine)]
    /\ LinesFit(link.lines, calls, Known, remote.limits)

FormFits(p, known) ==
    /\ p = [f \in {"login", "status", "timer", "ticks"} |-> p[f]]
    /\ p.status = "started" => p.login \in known
    /\ p.timer \in Logins \cup {"none"} /\ p.ticks \subseteq known

StatesFit(known) == LoginsFit /\ \A l \in Logins : login[l] # "none" => l \in known

AccountInv ==
    /\ RemoteFits /\ LinkFits /\ CallsFit(calls, Known, remote.limits)
    /\ FormFits(form, Known) /\ StatesFit(Known) /\ cache \in 0..remote.limits

\* What the App Server knows only grows.
LEMMA CallsGrow ==
    ASSUME NEW cs, NEW known, NEW more, NEW limits \in Nat, NEW newer \in Nat,
           CallsFit(cs, known, limits), known \subseteq more, limits <= newer
    PROVE  CallsFit(cs, more, newer)
BY DEF CallsFit, CallFits

LEMMA LinesGrow ==
    ASSUME NEW ls, NEW cs, NEW known, NEW more, NEW limits \in Nat, NEW newer \in Nat,
           LinesFit(ls, cs, known, limits), known \subseteq more, limits <= newer
    PROVE  LinesFit(ls, cs, more, newer)
<1>1. ASSUME NEW n, LineFits(n, cs, known, limits) PROVE LineFits(n, cs, more, newer)
    BY <1>1 DEF LineFits
<1> QED BY <1>1 DEF LinesFit

LEMMA CallChanges ==
    ASSUME NEW cs, NEW known, NEW limits, CallsFit(cs, known, limits), NEW i \in Calls, NEW c,
           c = Account!Idle \/ CallFits(c, known, limits)
    PROVE  CallsFit([cs EXCEPT ![i] = c], known, limits)
BY DEF CallsFit

Awaits(i, ls) == \E k \in 1..Len(ls) : ls[k].kind = "answer" /\ ls[k].call = i

LEMMA AwaitedCalls ==
    ASSUME NEW ls, NEW cs, NEW known, NEW limits, LinesFit(ls, cs, known, limits),
           NEW i, Awaits(i, ls)
    PROVE  i \in Calls /\ cs[i].at = "answered"
<1>1. PICK k \in 1..Len(ls) : ls[k].kind = "answer" /\ ls[k].call = i
    BY DEF Awaits
<1>2. ls[k] \in PipeLine /\ LineFits(ls[k], cs, known, limits)
    BY DEF LinesFit
<1> QED BY <1>1, <1>2 DEF LineFits, PipeLine

\* The lines stay right as long as nothing else becomes of the calls they answer.
LEMMA LinesStay ==
    ASSUME NEW ls, NEW cs, NEW ds, NEW known, NEW limits, LinesFit(ls, cs, known, limits),
           \A i \in Calls : Awaits(i, ls) => ds[i].at = "answered" /\ ds[i].op = cs[i].op
    PROVE  LinesFit(ls, ds, known, limits)
<1> SUFFICES ASSUME NEW k \in 1..Len(ls) PROVE LineFits(ls[k], ds, known, limits)
    BY DEF LinesFit
<1>1. ls[k] \in PipeLine /\ LineFits(ls[k], cs, known, limits)
    BY DEF LinesFit
<1>2. ls[k].kind = "answer" => ls[k].call \in Calls /\ Awaits(ls[k].call, ls)
    BY <1>1 DEF PipeLine, Awaits
<1> QED BY <1>1, <1>2 DEF LineFits

LEMMA LineAdded ==
    ASSUME NEW ls, NEW cs, NEW known, NEW limits, LinesFit(ls, cs, known, limits),
           NEW n \in PipeLine, LineFits(n, cs, known, limits),
           \A k \in 1..Len(ls) : Apart(ls[k], n)
    PROVE  LinesFit(Append(ls, n), cs, known, limits)
<1>1. ls \in Seq(PipeLine) /\ Len(ls) \in Nat
    BY DEF LinesFit
<1> DEFINE more == Append(ls, n)
<1>2. /\ more \in Seq(PipeLine) /\ Len(more) = Len(ls) + 1 /\ more[Len(ls) + 1] = n
      /\ \A k \in 1..Len(ls) : more[k] = ls[k]
    BY <1>1
<1> HIDE DEF more
<1>3. ASSUME NEW k \in 1..Len(more) PROVE LineFits(more[k], cs, known, limits)
    <2>1. k \in 1..Len(ls) \/ k = Len(ls) + 1
        BY <1>1, <1>2
    <2> QED BY <1>2, <2>1 DEF LinesFit
<1>4. ASSUME NEW j \in 1..Len(more), NEW k \in 1..Len(more), j < k PROVE Apart(more[j], more[k])
    <2>1. j \in 1..Len(ls) /\ (k \in 1..Len(ls) \/ k = Len(ls) + 1)
        BY <1>1, <1>2, <1>4
    <2> QED BY <1>2, <1>4, <2>1 DEF LinesFit
<1>5. LinesFit(more, cs, known, limits)
    BY <1>2, <1>3, <1>4 DEF LinesFit
<1> QED BY <1>5 DEF more

LEMMA LineRead ==
    ASSUME NEW ls, NEW cs, NEW known, NEW limits, LinesFit(ls, cs, known, limits), ls # <<>>
    PROVE  /\ Head(ls) \in PipeLine /\ LineFits(Head(ls), cs, known, limits)
           /\ LinesFit(Tail(ls), cs, known, limits)
           /\ \A k \in 1..Len(Tail(ls)) : Apart(Head(ls), Tail(ls)[k])
<1>1. /\ ls \in Seq(PipeLine) /\ Len(ls) \in Nat /\ Len(ls) >= 1 /\ Head(ls) = ls[1]
      /\ Tail(ls) \in Seq(PipeLine) /\ Len(Tail(ls)) = Len(ls) - 1
      /\ \A k \in 1..Len(Tail(ls)) : Tail(ls)[k] = ls[k + 1] /\ k + 1 \in 1..Len(ls) /\ 1 < k + 1
    BY DEF LinesFit
<1>2. 1 \in 1..Len(ls) /\ ls[1] \in PipeLine
    BY <1>1
<1> DEFINE rest == Tail(ls)
<1> HIDE DEF rest
<1>3. LinesFit(rest, cs, known, limits)
    <2>1. rest \in Seq(PipeLine) /\ Len(rest) \in Nat
        BY <1>1 DEF rest
    <2>2. \A k \in 1..Len(rest) : rest[k] = ls[k + 1] /\ k + 1 \in 1..Len(ls)
        BY <1>1 DEF rest
    <2>3. \A j, k \in 1..Len(rest) : j < k => j + 1 < k + 1
        BY <2>1
    <2> QED BY <2>1, <2>2, <2>3 DEF LinesFit
<1>4. \A k \in 1..Len(Tail(ls)) : Apart(Head(ls), Tail(ls)[k])
    BY <1>1, <1>2 DEF LinesFit
<1> QED BY <1>1, <1>2, <1>3, <1>4 DEF LinesFit, rest

\* What a filter leaves, by the number of members it has seen.
Filtered(f, s, T, L) ==
    f = [n \in 0..L |->
            IF n = 0 THEN <<>>
            ELSE IF s[n] \in T THEN Append(f[n - 1], s[n]) ELSE f[n - 1]]

LEMMA LeastNumber ==
    ASSUME NEW T, T \subseteq Nat, T # {}
    PROVE  \E x \in T : \A y \in T : x <= y
<1>1. PICK x \in T : \A y \in T : <<y, x>> \notin OpToRel(<, Nat)
    BY NatLessThanWellFounded, WFMin, Zenon
<1>2. \A y \in T : ~(y < x)
    BY <1>1, Zenon DEF OpToRel
<1> QED BY <1>2

LEMMA NumbersInduct ==
    ASSUME NEW Good, 0 \in Good, \A n \in Nat : n \in Good => n + 1 \in Good
    PROVE  Nat \subseteq Good
<1> SUFFICES ASSUME Nat \ Good # {} PROVE FALSE
    OBVIOUS
<1>1. PICK m \in Nat \ Good : \A k \in Nat \ Good : m <= k
    BY LeastNumber
<1>2. m - 1 \in Nat /\ m - 1 \in Good
    BY <1>1
<1>3. (m - 1) + 1 \in Good
    BY <1>2
<1> QED BY <1>1, <1>3

LEMMA FilterExists ==
    ASSUME NEW s, NEW T, NEW L \in Nat PROVE \E f : Filtered(f, s, T, L)
<1> DEFINE Good == {n \in Nat : \E f : Filtered(f, s, T, n)}
<1>1. 0 \in Good
    <2> DEFINE f == [n \in 0..0 |-> <<>>]
    <2>1. Filtered(f, s, T, 0)
        BY DEF Filtered
    <2> QED BY <2>1
<1>2. ASSUME NEW n \in Nat, n \in Good PROVE n + 1 \in Good
    <2>1. PICK f : Filtered(f, s, T, n)
        BY <1>2
    <2> DEFINE last == IF s[n + 1] \in T THEN Append(f[n], s[n + 1]) ELSE f[n]
               g == [k \in 0..(n + 1) |-> IF k <= n THEN f[k] ELSE last]
    <2> HIDE DEF last
    <2>2. ASSUME NEW k \in 0..(n + 1)
          PROVE  g[k] = IF k = 0 THEN <<>>
                        ELSE IF s[k] \in T THEN Append(g[k - 1], s[k]) ELSE g[k - 1]
        <3>1. CASE k <= n
            <4>1. k \in 0..n /\ g[k] = f[k] /\ (k # 0 => k - 1 \in 0..(n + 1) /\ g[k - 1] = f[k - 1])
                BY <3>1
            <4>2. f[k] = IF k = 0 THEN <<>>
                         ELSE IF s[k] \in T THEN Append(f[k - 1], s[k]) ELSE f[k - 1]
                BY <2>1, <4>1 DEF Filtered
            <4> QED BY <4>1, <4>2
        <3>2. CASE k = n + 1
            <4>1. k # 0 /\ ~(k <= n) /\ k - 1 = n /\ n \in 0..(n + 1)
                BY <3>2
            <4>2. g[n] = f[n] /\ g[k] = last
                BY <3>2, <4>1
            <4> QED BY <3>2, <4>1, <4>2 DEF last
        <3> QED BY <3>1, <3>2
    <2>3. g = [k \in 0..(n + 1) |-> g[k]]
        OBVIOUS
    <2> HIDE DEF g
    <2>4. Filtered(g, s, T, n + 1)
        BY <2>2, <2>3 DEF Filtered
    <2> QED BY <2>4
<1> HIDE DEF Good
<1>3. Nat \subseteq Good
    BY <1>1, <1>2, NumbersInduct
<1> QED BY <1>3 DEF Good

\* A filter's result is a list of members, and two of them are apart if they were.
LEMMA ThoseStayApart ==
    ASSUME NEW S, NEW s \in Seq(S), NEW T, NEW R,
           \A j, k \in 1..Len(s) : j < k => <<s[j], s[k]>> \in R
    PROVE  /\ Account!Those(s, T) \in Seq(S)
           /\ \A k \in 1..Len(Account!Those(s, T)) :
                  Account!Those(s, T)[k] \in T /\ \E j \in 1..Len(s) : Account!Those(s, T)[k] = s[j]
           /\ \A j, k \in 1..Len(Account!Those(s, T)) :
                  j < k => <<Account!Those(s, T)[j], Account!Those(s, T)[k]>> \in R
<1> DEFINE Left(t, n) ==
               /\ t \in Seq(S)
               /\ \A k \in 1..Len(t) : t[k] \in T /\ \E j \in 1..n : t[k] = s[j]
               /\ \A j, k \in 1..Len(t) : j < k => <<t[j], t[k]>> \in R
<1>0. Len(s) \in Nat /\ \A k \in 1..Len(s) : s[k] \in S
    OBVIOUS
<1>1. ASSUME NEW t, NEW n \in Nat, n + 1 <= Len(s), Left(t, n) PROVE Left(t, n + 1)
    <2>1. \A j \in 1..n : j \in 1..(n + 1)
        OBVIOUS
    <2> QED BY <1>1, <2>1
<1>2. ASSUME NEW t, NEW n \in Nat, n + 1 <= Len(s), Left(t, n), s[n + 1] \in T
      PROVE  Left(Append(t, s[n + 1]), n + 1)
    <2> DEFINE more == Append(t, s[n + 1])
    <2>1. n + 1 \in 1..Len(s) /\ n + 1 \in 1..(n + 1) /\ s[n + 1] \in S
        BY <1>0, <1>2
    <2>2. t \in Seq(S) /\ Len(t) \in Nat
        BY <1>2
    <2>3. /\ more \in Seq(S) /\ Len(more) = Len(t) + 1 /\ more[Len(t) + 1] = s[n + 1]
          /\ \A k \in 1..Len(t) : more[k] = t[k]
        BY <2>1, <2>2
    <2> HIDE DEF more
    <2>4. ASSUME NEW k \in 1..Len(more) PROVE more[k] \in T /\ \E j \in 1..(n + 1) : more[k] = s[j]
        <3>1. CASE k = Len(t) + 1
            BY <1>2, <2>1, <2>3, <3>1
        <3>2. CASE k \in 1..Len(t)
            <4>1. t[k] \in T /\ \E j \in 1..n : t[k] = s[j]
                BY <1>2, <3>2
            <4>2. \A j \in 1..n : j \in 1..(n + 1)
                OBVIOUS
            <4> QED BY <2>3, <3>2, <4>1, <4>2
        <3> QED BY <2>2, <2>3, <3>1, <3>2
    <2>5. ASSUME NEW j \in 1..Len(more), NEW k \in 1..Len(more), j < k PROVE <<more[j], more[k]>> \in R
        <3>0. Len(more) = Len(t) + 1 /\ Len(t) \in Nat
            BY <2>2, <2>3
        <3>1. j \in 1..Len(t) /\ (k \in 1..Len(t) \/ k = Len(t) + 1)
            BY <2>5, <3>0
        <3>2. CASE k \in 1..Len(t)
            BY <1>2, <2>3, <2>5, <3>1, <3>2
        <3>3. CASE k = Len(t) + 1
            <4>1. PICK i \in 1..n : t[j] = s[i]
                BY <1>2, <3>1
            <4>2. i \in 1..Len(s) /\ i < n + 1
                BY <1>0, <1>2
            <4>3. <<s[i], s[n + 1]>> \in R
                BY <2>1, <4>2
            <4> QED BY <2>3, <3>1, <3>3, <4>1, <4>3
        <3> QED BY <3>1, <3>2, <3>3
    <2> QED BY <2>3, <2>4, <2>5 DEF more
<1>3. Left(<<>>, 0)
    OBVIOUS
<1> HIDE DEF Left
<1>4. ASSUME NEW f, Filtered(f, s, T, Len(s)) PROVE Left(f[Len(s)], Len(s))
    <2>1. \A n \in 0..Len(s) :
              f[n] = IF n = 0 THEN <<>>
                     ELSE IF s[n] \in T THEN Append(f[n - 1], s[n]) ELSE f[n - 1]
        BY <1>4 DEF Filtered
    <2> DEFINE Good == {n \in Nat : n <= Len(s) => Left(f[n], n)}
    <2>2. 0 \in Good
        <3>1. 0 \in 0..Len(s)
            BY <1>0
        <3>2. f[0] = <<>>
            BY <2>1, <3>1
        <3> QED BY <1>3, <3>2
    <2>3. ASSUME NEW n \in Nat, n \in Good PROVE n + 1 \in Good
        <3> SUFFICES ASSUME n + 1 <= Len(s) PROVE Left(f[n + 1], n + 1)
            OBVIOUS
        <3>1. Left(f[n], n)
            BY <1>0, <2>3
        <3>2. f[n + 1] = IF s[n + 1] \in T THEN Append(f[n], s[n + 1]) ELSE f[n]
            <4>1. n + 1 \in 0..Len(s) /\ n + 1 # 0 /\ (n + 1) - 1 = n
                BY <1>0
            <4> QED BY <2>1, <4>1
        <3> QED BY <1>1, <1>2, <3>1, <3>2
    <2> HIDE DEF Good
    <2>4. Nat \subseteq Good
        BY <2>2, <2>3, NumbersInduct
    <2> QED BY <1>0, <2>4 DEF Good
<1> DEFINE those == CHOOSE f : Filtered(f, s, T, Len(s))
<1>5. Left(those[Len(s)], Len(s))
    BY <1>0, <1>4, FilterExists
<1>6. Account!Those(s, T) = those[Len(s)]
    BY DEF Account!Those, Filtered
<1> QED BY <1>5, <1>6 DEF Left

LEMMA LinesLeft ==
    ASSUME NEW ls, NEW cs, NEW known, NEW limits, LinesFit(ls, cs, known, limits), NEW T
    PROVE  /\ LinesFit(Account!Those(ls, T), cs, known, limits)
           /\ \A k \in 1..Len(Account!Those(ls, T)) : Account!Those(ls, T)[k] \in T
<1> DEFINE R == {mn \in PipeLine \X PipeLine : Apart(mn[1], mn[2])}
<1>1. ls \in Seq(PipeLine) /\ \A k \in 1..Len(ls) : ls[k] \in PipeLine
    BY DEF LinesFit
<1>2. \A m, n \in PipeLine : <<m, n>> \in R <=> Apart(m, n)
    OBVIOUS
<1> HIDE DEF R
<1>3. \A j, k \in 1..Len(ls) : j < k => <<ls[j], ls[k]>> \in R
    BY <1>1, <1>2 DEF LinesFit
<1> DEFINE those == Account!Those(ls, T)
<1>4. /\ those \in Seq(PipeLine)
      /\ \A k \in 1..Len(those) : those[k] \in T /\ \E j \in 1..Len(ls) : those[k] = ls[j]
      /\ \A j, k \in 1..Len(those) : j < k => <<those[j], those[k]>> \in R
    BY <1>1, <1>3, ThoseStayApart
<1> HIDE DEF those
<1>5. \A k \in 1..Len(those) : those[k] \in PipeLine
    BY <1>4
<1>6. LinesFit(those, cs, known, limits)
    BY <1>2, <1>4, <1>5 DEF LinesFit
<1> QED BY <1>4, <1>6 DEF those

\* A call that awaits something goes on.
LEMMA CallGoes ==
    ASSUME NEW c, NEW known, NEW limits, CallFits(c, known, limits), NEW at,
           c.op \notin {"wait", "first"},
           c.op # "start" \/ at \notin {"settled", "reply"} \/ c.login \in known
    PROVE  CallFits([c EXCEPT !.at = at], known, limits)
BY DEF CallFits, CallFields

LEMMA CallAsked ==
    ASSUME NEW op, NEW l, NEW ofPage \in BOOLEAN, NEW known, NEW limits \in Nat,
           op \in {"start", "limits"} \/ (op \in {"timeout", "cancel", "poll", "first"} /\ l \in known)
    PROVE  CallFits(Account!Call(op, l, ofPage), known, limits)
BY DEF CallFits, CallFields, Account!Call

LEMMA CallOf ==
    ASSUME AccountInv, NEW i \in Calls, calls[i].at # "idle"
    PROVE  CallFits(calls[i], Known, remote.limits) /\ calls[i] # Account!Idle
BY DEF AccountInv, CallsFit, Account!Idle

\* The App Server may learn of logins and limits; the rest stays.
LEMMA OthersFit ==
    ASSUME AccountInv, Known \subseteq Known', RemoteFits', remote.limits <= remote'.limits,
           UNCHANGED <<login, cache, form>>
    PROVE  FormFits(form, Known)' /\ StatesFit(Known)' /\ cache' \in 0..remote'.limits
<1>1. remote.limits \in Nat /\ remote'.limits \in Nat
    BY DEF AccountInv, RemoteFits
<1> QED BY <1>1 DEF AccountInv, FormFits, StatesFit, LoginsFit

LEMMA RemoteStays ==
    ASSUME UNCHANGED remote PROVE Known' = Known /\ remote'.limits = remote.limits /\ (RemoteFits => RemoteFits')
BY DEF Known, RemoteFits

\* One call goes on, and its request has not been answered.
LEMMA CallMoves ==
    ASSUME AccountInv, UNCHANGED remote, link' \in [state : {"down", "shaking", "up"}, lines : Seq(PipeLine)],
           link'.lines = link.lines, NEW i \in Calls, calls[i].at # "answered",
           NEW c, c = Account!Idle \/ CallFits(c, Known, remote.limits), Account!Set(i, c)
    PROVE  RemoteFits' /\ LinkFits' /\ CallsFit(calls, Known, remote.limits)'
<1>1. CallsFit(calls', Known, remote.limits)
    BY CallChanges DEF AccountInv, Account!Set
<1>2. LinesFit(link.lines, calls, Known, remote.limits)
    BY DEF AccountInv, LinkFits
<1>3. \A j \in Calls : Awaits(j, link.lines) => j # i /\ calls[j].at = "answered"
    BY <1>2, AwaitedCalls
<1>4. \A j \in Calls : j # i => calls'[j] = calls[j]
    <2>1. DOMAIN calls = Calls
        BY DEF AccountInv, CallsFit
    <2> QED BY <2>1 DEF Account!Set
<1>5. LinesFit(link.lines, calls', Known, remote.limits)
    <2>1. \A j \in Calls : Awaits(j, link.lines) => calls'[j].at = "answered" /\ calls'[j].op = calls[j].op
        BY <1>3, <1>4
    <2> QED BY <1>2, <2>1, LinesStay
<1> QED BY <1>1, <1>5, RemoteStays DEF AccountInv, LinkFits

LEMMA CallGoesOn ==
    ASSUME AccountInv, UNCHANGED <<remote, link>>, NEW i \in Calls, calls[i].at # "answered",
           NEW c, c = Account!Idle \/ CallFits(c, Known, remote.limits), calls' = [calls EXCEPT ![i] = c],
           FormFits(form', Known), login' = login, cache' \in 0..remote.limits
    PROVE  AccountInv'
<1>1. RemoteFits' /\ LinkFits' /\ CallsFit(calls, Known, remote.limits)'
    BY CallMoves DEF AccountInv, LinkFits, Account!Set
<1>2. StatesFit(Known)'
    BY RemoteStays DEF AccountInv, StatesFit, LoginsFit
<1> QED BY <1>1, <1>2, RemoteStays DEF AccountInv

LEMMA SentFits ==
    ASSUME AccountInv, NEW i \in Calls, Account!Sent(i), calls[i].op \notin {"poll", "first"}
    PROVE  AccountInv'
<1>1. CallFits(calls[i], Known, remote.limits) /\ calls[i].at = "asked"
    BY CallOf DEF Account!Sent
<1>2. calls[i].op \notin {"wait", "first"}
    BY <1>1 DEF CallFits
<1>3. PICK at \in {"sent", "shaking"} :
          /\ calls' = [calls EXCEPT ![i] = [calls[i] EXCEPT !.at = at]]
          /\ link' \in [state : {"down", "shaking", "up"}, lines : Seq(PipeLine)] /\ link'.lines = link.lines
    BY DEF Account!Sent, Account!Go, Account!Set, AccountInv, LinkFits
<1>4. CallFits([calls[i] EXCEPT !.at = at], Known, remote.limits)
    BY <1>1, <1>2, <1>3, CallGoes
<1>5. UNCHANGED <<remote, login, cache, form>>
    BY DEF Account!Sent
<1>6. RemoteFits' /\ LinkFits' /\ CallsFit(calls, Known, remote.limits)'
    BY <1>1, <1>3, <1>4, <1>5, CallMoves DEF Account!Set
<1>7. remote.limits \in Nat
    BY DEF AccountInv, RemoteFits
<1> QED BY <1>5, <1>6, <1>7, RemoteStays, OthersFit DEF AccountInv

LEMMA HandshakeFits ==
    ASSUME AccountInv, Account!HandshakeDone PROVE AccountInv'
<1>0. UNCHANGED <<remote, login, cache, form>> /\ link' = [link EXCEPT !.state = "up"]
      /\ calls' = [i \in Calls |->
                      IF calls[i].at = "shaking" THEN [calls[i] EXCEPT !.at = "sent"] ELSE calls[i]]
    BY DEF Account!HandshakeDone
<1>1. ASSUME NEW i \in Calls
      PROVE  calls'[i] = Account!Idle \/ CallFits(calls'[i], Known, remote.limits)
    <2>1. CASE calls[i].at = "shaking"
        <3>1. CallFits(calls[i], Known, remote.limits)
            BY <2>1, CallOf
        <3>2. calls[i].op \notin {"wait", "first"}
            BY <2>1, <3>1 DEF CallFits
        <3>3. calls'[i] = [calls[i] EXCEPT !.at = "sent"]
            BY <1>0, <2>1
        <3>4. CallFits([calls[i] EXCEPT !.at = "sent"], Known, remote.limits)
            BY <3>1, <3>2, CallGoes
        <3> QED BY <3>3, <3>4
    <2>2. CASE calls[i].at # "shaking"
        BY <1>0, <2>2 DEF AccountInv, CallsFit
    <2> QED BY <2>1, <2>2
<1>2. CallsFit(calls', Known, remote.limits)
    BY <1>0, <1>1 DEF CallsFit
<1>3. LinesFit(link.lines, calls, Known, remote.limits)
    BY DEF AccountInv, LinkFits
<1>4. \A i \in Calls : Awaits(i, link.lines) => calls'[i] = calls[i] /\ calls[i].at = "answered"
    BY <1>0, <1>3, AwaitedCalls
<1>5. LinesFit(link.lines, calls', Known, remote.limits)
    BY <1>3, <1>4, LinesStay
<1>6. LinkFits'
    BY <1>0, <1>5, RemoteStays DEF AccountInv, LinkFits
<1>7. remote.limits \in Nat
    BY DEF AccountInv, RemoteFits
<1> QED BY <1>0, <1>2, <1>6, <1>7, RemoteStays, OthersFit DEF AccountInv

LEMMA AnswerFits ==
    ASSUME AccountInv, NEW i \in Calls, calls[i].at = "sent", Account!Go(i, "answered"),
           RemoteFits', Known \subseteq Known', remote'.limits = remote.limits,
           NEW l \in Logins \cup {"none"}, calls[i].op # "limits" => l \in Known',
           Account!Write(Account!Answer(i, l)), UNCHANGED <<login, cache, form>>
    PROVE  AccountInv'
<1>0. remote.limits \in Nat /\ link.lines \in Seq(PipeLine)
    BY DEF AccountInv, RemoteFits, LinkFits
<1>1. CallFits(calls[i], Known, remote.limits)
    BY CallOf
<1>2. calls[i].op \notin {"wait", "first"}
    BY <1>1 DEF CallFits
<1> DEFINE c == [calls[i] EXCEPT !.at = "answered"]
<1>3. CallFits(c, Known, remote.limits) /\ c.at = "answered" /\ c.op = calls[i].op
    BY <1>1, <1>2, CallGoes DEF CallFits, CallFields
<1>4. calls' = [calls EXCEPT ![i] = c]
    BY DEF Account!Go, Account!Set
<1> HIDE DEF c
<1>5. CallsFit(calls', Known, remote.limits)
    BY <1>3, <1>4, CallChanges DEF AccountInv
<1>6. CallsFit(calls', Known', remote'.limits)
    BY <1>0, <1>5, CallsGrow
<1>7. LinesFit(link.lines, calls, Known, remote.limits)
    BY DEF AccountInv, LinkFits
<1>8. calls'[i] = c /\ \A j \in Calls : j # i => calls'[j] = calls[j]
    BY <1>4 DEF AccountInv, CallsFit
<1>9. \A j \in Calls : Awaits(j, link.lines) => j # i /\ calls[j].at = "answered"
    BY <1>7, AwaitedCalls
<1>10. LinesFit(link.lines, calls', Known, remote.limits)
    BY <1>7, <1>8, <1>9, LinesStay
<1>11. LinesFit(link.lines, calls', Known', remote'.limits)
    BY <1>0, <1>10, LinesGrow
<1> DEFINE n == Account!Answer(i, l)
<1>12. n \in PipeLine /\ n.kind = "answer" /\ n.call = i /\ n.login = l /\ n.limits = remote.limits
    BY <1>0 DEF Account!Answer, PipeLine
<1>13. link' = [link EXCEPT !.lines = Append(link.lines, n)]
    BY DEF Account!Write
<1> HIDE DEF n
<1>14. LineFits(n, calls', Known', remote'.limits)
    BY <1>0, <1>3, <1>8, <1>12 DEF LineFits
<1>15. \A k \in 1..Len(link.lines) : Apart(link.lines[k], n)
    BY <1>9, <1>12 DEF Apart, Awaits
<1>16. LinesFit(Append(link.lines, n), calls', Known', remote'.limits)
    BY <1>11, <1>12, <1>14, <1>15, LineAdded
<1>17. LinkFits'
    BY <1>13, <1>16 DEF AccountInv, LinkFits, LinesFit
<1> QED BY <1>0, <1>6, <1>17, OthersFit DEF AccountInv

LEMMA AppAnswersFits ==
    ASSUME AccountInv, NEW i \in Calls, Account!AppAnswers(i) PROVE AccountInv'
<1>0. calls[i].at = "sent" /\ Account!Go(i, "answered") /\ UNCHANGED <<login, cache, form>>
    BY DEF Account!AppAnswers
<1>1. CallFits(calls[i], Known, remote.limits)
    BY <1>0, CallOf
<1>2. remote \in [open : SUBSET Logins, ended : SUBSET Logins, limits : Nat] /\ remote.open \cap remote.ended = {}
    BY DEF AccountInv, RemoteFits
<1>3. ASSUME NEW l \in Logins \ (remote.open \cup remote.ended),
             remote' = [remote EXCEPT !.open = @ \cup {l}], Account!Write(Account!Answer(i, l))
      PROVE  AccountInv'
    <2>1. RemoteFits' /\ Known \subseteq Known' /\ remote'.limits = remote.limits /\ l \in Known'
        BY <1>2, <1>3 DEF RemoteFits, Known
    <2> QED BY <1>0, <1>3, <2>1, AnswerFits
<1>4. ASSUME calls[i].op \in {"cancel", "timeout"}, Account!Write(Account!Answer(i, calls[i].login)),
             remote' = [remote EXCEPT !.open = @ \ {calls[i].login}, !.ended = @ \cup {calls[i].login}]
      PROVE  AccountInv'
    <2> DEFINE l == calls[i].login
    <2>1. l \in Known
        BY <1>1, <1>4 DEF CallFits
    <2>2. l \in Logins
        BY <1>2, <2>1 DEF Known
    <2> HIDE DEF l
    <2>3. remote' = [remote EXCEPT !.open = @ \ {l}, !.ended = @ \cup {l}] /\ Account!Write(Account!Answer(i, l))
        BY <1>4 DEF l
    <2>4. RemoteFits' /\ Known \subseteq Known' /\ remote'.limits = remote.limits /\ l \in Known'
        BY <1>2, <2>1, <2>2, <2>3 DEF RemoteFits, Known
    <2> QED BY <1>0, <2>2, <2>3, <2>4, AnswerFits
<1>5. ASSUME calls[i].op = "limits", Account!Write(Account!Answer(i, "none")), UNCHANGED remote
      PROVE  AccountInv'
    <2>1. RemoteFits' /\ Known \subseteq Known' /\ remote'.limits = remote.limits
        BY <1>5, RemoteStays DEF AccountInv
    <2> QED BY <1>0, <1>5, <2>1, AnswerFits
<1> QED BY <1>3, <1>4, <1>5 DEF Account!AppAnswers

LEMMA TellFits ==
    ASSUME AccountInv, RemoteFits', Known' = Known, remote.limits <= remote'.limits,
           NEW n \in PipeLine, n.kind # "answer", LineFits(n, calls, Known', remote'.limits),
           Account!Write(n), UNCHANGED <<login, cache, calls, form>>
    PROVE  AccountInv'
<1>0. remote.limits \in Nat /\ remote'.limits \in Nat
    BY DEF AccountInv, RemoteFits
<1>1. CallsFit(calls, Known', remote'.limits) /\ LinesFit(link.lines, calls, Known', remote'.limits)
    BY <1>0, CallsGrow, LinesGrow DEF AccountInv, LinkFits
<1>2. \A k \in 1..Len(link.lines) : Apart(link.lines[k], n)
    BY DEF Apart
<1>3. LinesFit(Append(link.lines, n), calls, Known', remote'.limits)
    BY <1>1, <1>2, LineAdded
<1>4. link' = [link EXCEPT !.lines = Append(link.lines, n)]
    BY DEF Account!Write
<1>5. LinkFits'
    BY <1>3, <1>4 DEF AccountInv, LinkFits, LinesFit
<1> QED BY <1>0, <1>1, <1>5, OthersFit DEF AccountInv

LEMMA AppTellsFits ==
    ASSUME AccountInv, Account!AppTells PROVE AccountInv'
<1>1. UNCHANGED <<login, cache, calls, form>>
    <2>1. UNCHANGED <<login, cache, calls, form, asked, refused>>
        BY Zenon DEF Account!AppTells
    <2> QED BY <2>1
<1>2. remote \in [open : SUBSET Logins, ended : SUBSET Logins, limits : Nat] /\ remote.open \cap remote.ended = {}
    BY DEF AccountInv, RemoteFits
<1>3. ASSUME NEW l \in remote.open, NEW success \in BOOLEAN,
             remote' = [remote EXCEPT !.open = @ \ {l}, !.ended = @ \cup {l}],
             Account!Write([kind |-> "login", login |-> l, success |-> success])
      PROVE  AccountInv'
    <2> DEFINE n == [kind |-> "login", login |-> l, success |-> success]
    <2>1. RemoteFits' /\ Known' = Known /\ remote'.limits = remote.limits /\ l \in Known'
        BY <1>2, <1>3 DEF RemoteFits, Known
    <2>2. n \in PipeLine /\ n.kind = "login" /\ n.login = l
        BY <1>2 DEF PipeLine
    <2>3. Account!Write(n)
        BY <1>3
    <2> HIDE DEF n
    <2>4. LineFits(n, calls, Known', remote'.limits)
        BY <2>1, <2>2 DEF LineFits
    <2> QED BY <1>1, <1>2, <2>1, <2>2, <2>3, <2>4, TellFits
<1>4. ASSUME remote' = [remote EXCEPT !.limits = @ + 1],
             Account!Write([kind |-> "limits", limits |-> remote.limits + 1])
      PROVE  AccountInv'
    <2> DEFINE n == [kind |-> "limits", limits |-> remote.limits + 1]
    <2>1. RemoteFits' /\ Known' = Known /\ remote'.limits = remote.limits + 1 /\ remote.limits \in Nat
        BY <1>2, <1>4 DEF RemoteFits, Known
    <2>2. n \in PipeLine /\ n.kind = "limits" /\ n.limits = remote.limits + 1
        BY <2>1 DEF PipeLine
    <2>3. Account!Write(n)
        BY <1>4
    <2> HIDE DEF n
    <2>4. LineFits(n, calls, Known', remote'.limits)
        BY <2>1, <2>2 DEF LineFits
    <2> QED BY <1>1, <2>1, <2>2, <2>3, <2>4, TellFits
<1> QED BY <1>3, <1>4, Zenon DEF Account!AppTells

LEMMA AppRefusesFits ==
    ASSUME AccountInv, NEW i \in Calls, Account!AppRefuses(i) PROVE AccountInv'
<1>0. /\ calls[i].at \in {"sent", "answered"} /\ UNCHANGED <<remote, login, cache, form>>
      /\ calls' = [calls EXCEPT ![i] = [calls[i] EXCEPT !.at = "refused"]]
    BY DEF Account!AppRefuses, Account!Go, Account!Set
<1> DEFINE T == {n \in Account!ToSet(link.lines) : n.kind # "answer" \/ n.call # i}
           those == Account!Those(link.lines, T)
<1>1. link' = [link EXCEPT !.lines = those]
    BY DEF Account!AppRefuses
<1>2. \A n \in T : n.kind # "answer" \/ n.call # i
    OBVIOUS
<1> HIDE DEF T
<1>3. LinesFit(those, calls, Known, remote.limits) /\ \A k \in 1..Len(those) : those[k] \in T
    BY LinesLeft DEF AccountInv, LinkFits
<1> HIDE DEF those
<1>4. ~Awaits(i, those)
    BY <1>2, <1>3 DEF Awaits
<1>5. CallFits(calls[i], Known, remote.limits)
    BY <1>0, CallOf
<1>6. calls[i].op \notin {"wait", "first"}
    BY <1>0, <1>5 DEF CallFits
<1> DEFINE c == [calls[i] EXCEPT !.at = "refused"]
<1>7. CallFits(c, Known, remote.limits)
    BY <1>5, <1>6, CallGoes
<1>8. calls' = [calls EXCEPT ![i] = c]
    BY <1>0
<1> HIDE DEF c
<1>9. CallsFit(calls', Known, remote.limits)
    BY <1>7, <1>8, CallChanges DEF AccountInv
<1>10. \A j \in Calls : j # i => calls'[j] = calls[j]
    <2>1. DOMAIN calls = Calls
        BY DEF AccountInv, CallsFit
    <2> QED BY <1>8, <2>1
<1>11. \A j \in Calls : Awaits(j, those) => calls'[j] = calls[j] /\ calls[j].at = "answered"
    BY <1>3, <1>4, <1>10, AwaitedCalls
<1>12. LinesFit(those, calls', Known, remote.limits)
    BY <1>3, <1>11, LinesStay
<1>13. LinkFits'
    BY <1>0, <1>1, <1>12, RemoteStays DEF AccountInv, LinkFits, LinesFit
<1>14. remote.limits \in Nat
    BY DEF AccountInv, RemoteFits
<1> QED BY <1>0, <1>9, <1>13, <1>14, RemoteStays, OthersFit DEF AccountInv

LEMMA AppCrashesFits ==
    ASSUME AccountInv, Account!AppCrashes PROVE AccountInv'
<1>0. /\ UNCHANGED <<login, cache, form>> /\ link' = [state |-> "down", lines |-> <<>>]
      /\ remote' = [remote EXCEPT !.open = {}, !.ended = @ \cup remote.open]
      /\ calls' = [i \in Calls |-> IF calls[i].at \in {"shaking", "sent", "answered"}
                                   THEN [calls[i] EXCEPT !.at = "refused"] ELSE calls[i]]
    BY DEF Account!AppCrashes
<1>1. RemoteFits' /\ Known' = Known /\ remote'.limits = remote.limits /\ remote.limits \in Nat
    BY <1>0 DEF AccountInv, RemoteFits, Known
<1>2. ASSUME NEW i \in Calls
      PROVE  calls'[i] = Account!Idle \/ CallFits(calls'[i], Known, remote.limits)
    <2>1. CASE calls[i].at \in {"shaking", "sent", "answered"}
        <3>1. CallFits(calls[i], Known, remote.limits)
            BY <2>1, CallOf
        <3>2. calls[i].op \notin {"wait", "first"}
            BY <2>1, <3>1 DEF CallFits
        <3>3. calls'[i] = [calls[i] EXCEPT !.at = "refused"]
            BY <1>0, <2>1
        <3>4. CallFits([calls[i] EXCEPT !.at = "refused"], Known, remote.limits)
            BY <3>1, <3>2, CallGoes
        <3> QED BY <3>3, <3>4
    <2>2. CASE calls[i].at \notin {"shaking", "sent", "answered"}
        BY <1>0, <2>2 DEF AccountInv, CallsFit
    <2> QED BY <2>1, <2>2
<1>3. CallsFit(calls', Known, remote.limits)
    BY <1>0, <1>2 DEF CallsFit
<1>4. LinesFit(<<>>, calls', Known', remote'.limits) /\ <<>> \in Seq(PipeLine)
    BY DEF LinesFit
<1>5. LinkFits'
    BY <1>0, <1>4 DEF LinkFits
<1> QED BY <1>0, <1>1, <1>3, <1>5, OthersFit DEF AccountInv

LinesBecome(ls) == link' = [link EXCEPT !.lines = ls]

\* publish ends the calls that wait for the login, and tells those that cancel it.
LEMMA PublishFits ==
    ASSUME AccountInv, UNCHANGED <<remote, form>>, cache' \in 0..remote.limits,
           NEW ls, LinesFit(ls, calls, Known, remote.limits), LinesBecome(ls),
           NEW l \in Known, NEW status, NEW then, Account!Publish(l, status, then),
           CallsFit(then, Known, remote.limits),
           \A j \in Calls : calls[j].at = "answered" => then[j] = calls[j]
    PROVE  AccountInv'
<1>1. /\ login' = [login EXCEPT ![l] = status]
      /\ calls' = [j \in Calls |->
                      IF then[j].op \in {"wait", "timeout"} /\ then[j].login = l /\ status \in Account!Ended
                      THEN IF then[j].op = "wait" THEN Account!Idle ELSE [then[j] EXCEPT !.seen = status]
                      ELSE then[j]]
    BY DEF Account!Publish
<1>2. ASSUME NEW j \in Calls
      PROVE  /\ calls'[j] = Account!Idle \/ CallFits(calls'[j], Known, remote.limits)
             /\ calls[j].at = "answered" => calls'[j].at = "answered" /\ calls'[j].op = calls[j].op
    <2>1. then[j] = Account!Idle \/ CallFits(then[j], Known, remote.limits)
        BY DEF CallsFit
    <2>2. CASE calls'[j] = then[j]
        BY <2>1, <2>2
    <2>3. CASE then[j].op = "timeout" /\ calls'[j] = [then[j] EXCEPT !.seen = status]
        <3>1. CallFits(then[j], Known, remote.limits)
            BY <2>1, <2>3 DEF Account!Idle
        <3>2. CallFits([then[j] EXCEPT !.seen = status], Known, remote.limits)
            BY <2>3, <3>1 DEF CallFits, CallFields
        <3>3. [then[j] EXCEPT !.seen = status].at = then[j].at /\ [then[j] EXCEPT !.seen = status].op = then[j].op
            BY <3>1 DEF CallFits, CallFields
        <3> QED BY <2>3, <3>2, <3>3
    <2>4. CASE then[j].op = "wait" /\ calls'[j] = Account!Idle
        <3>1. then[j].at = "waiting"
            BY <2>1, <2>4 DEF CallFits, Account!Idle
        <3> QED BY <2>4, <3>1
    <2> QED BY <1>1, <2>2, <2>3, <2>4
<1>3. CallsFit(calls', Known, remote.limits)
    BY <1>1, <1>2 DEF CallsFit
<1>4. \A j \in Calls : Awaits(j, ls) => calls[j].at = "answered"
    BY AwaitedCalls
<1>5. LinesFit(ls, calls', Known, remote.limits)
    BY <1>2, <1>4, LinesStay
<1>6. LinkFits'
    BY <1>5, RemoteStays DEF AccountInv, LinkFits, LinesFit, LinesBecome
<1>7. StatesFit(Known)'
    BY <1>1, RemoteStays DEF AccountInv, StatesFit, LoginsFit
<1> QED BY <1>3, <1>6, <1>7, RemoteStays DEF AccountInv

LEMMA ReadLineFits ==
    ASSUME AccountInv, Account!ReadLine PROVE AccountInv'
<1> DEFINE line == Head(link.lines)
           rest == Tail(link.lines)
<1>0. UNCHANGED <<remote, form>> /\ link.lines # <<>> /\ link' = [link EXCEPT !.lines = rest]
    BY DEF Account!ReadLine
<1>1. LinesFit(link.lines, calls, Known, remote.limits)
    BY DEF AccountInv, LinkFits
<1>2. /\ line \in PipeLine /\ LineFits(line, calls, Known, remote.limits)
      /\ LinesFit(rest, calls, Known, remote.limits)
      /\ \A k \in 1..Len(rest) : Apart(line, rest[k])
    BY <1>0, <1>1, LineRead
<1>3. \/ /\ line.kind = "answer" /\ UNCHANGED <<login, cache>>
         /\ calls' = [calls EXCEPT ![line.call] =
                         [calls[line.call] EXCEPT !.at = "settled", !.login = line.login, !.limits = line.limits]]
      \/ /\ line.kind = "login" /\ UNCHANGED cache
         /\ \E status : Account!Publish(line.login, status, calls)
      \/ line.kind = "limits" /\ cache' = line.limits /\ UNCHANGED <<login, calls>>
    BY DEF Account!ReadLine, Account!Set
<1> HIDE DEF line, rest
<1>4. RemoteFits' /\ Known' = Known /\ remote'.limits = remote.limits /\ remote.limits \in Nat
    BY <1>0, RemoteStays DEF AccountInv, RemoteFits
<1>5. ASSUME line.kind = "answer", UNCHANGED <<login, cache>>,
             calls' = [calls EXCEPT ![line.call] =
                         [calls[line.call] EXCEPT !.at = "settled", !.login = line.login, !.limits = line.limits]]
      PROVE  AccountInv'
    <2> DEFINE i == line.call
               c == [calls[i] EXCEPT !.at = "settled", !.login = line.login, !.limits = line.limits]
    <2>1. i \in Calls /\ calls[i].at = "answered"
          /\ (calls[i].op # "limits" => line.login \in Known) /\ line.limits \in 0..remote.limits
        BY <1>2, <1>5 DEF PipeLine, LineFits
    <2>2. CallFits(calls[i], Known, remote.limits)
        BY <2>1, CallOf
    <2>3. CallFits(c, Known, remote.limits)
        BY <2>1, <2>2 DEF CallFits, CallFields
    <2>4. calls' = [calls EXCEPT ![i] = c]
        BY <1>5
    <2>5. ~Awaits(i, rest)
        BY <1>2, <1>5 DEF Awaits, Apart
    <2> HIDE DEF i, c
    <2>6. CallsFit(calls', Known, remote.limits)
        BY <2>1, <2>3, <2>4, CallChanges DEF AccountInv
    <2>7. \A j \in Calls : j # i => calls'[j] = calls[j]
        <3>1. DOMAIN calls = Calls
            BY DEF AccountInv, CallsFit
        <3> QED BY <2>4, <3>1
    <2>8. \A j \in Calls : Awaits(j, rest) => calls'[j] = calls[j] /\ calls[j].at = "answered"
        BY <1>2, <2>5, <2>7, AwaitedCalls
    <2>9. LinesFit(rest, calls', Known, remote.limits)
        BY <1>2, <2>8, LinesStay
    <2>10. LinkFits'
        BY <1>0, <1>4, <2>9 DEF AccountInv, LinkFits, LinesFit
    <2> QED BY <1>0, <1>4, <1>5, <2>6, <2>10, OthersFit DEF AccountInv
<1>6. ASSUME line.kind = "login", UNCHANGED cache, NEW status, Account!Publish(line.login, status, calls)
      PROVE  AccountInv'
    <2>1. line.login \in Known
        BY <1>2, <1>6 DEF LineFits
    <2>2. cache' \in 0..remote.limits /\ LinesBecome(rest) /\ CallsFit(calls, Known, remote.limits)
        BY <1>0, <1>6 DEF AccountInv, LinesBecome
    <2> QED BY <1>0, <1>2, <1>6, <2>1, <2>2, PublishFits
<1>7. ASSUME line.kind = "limits", cache' = line.limits, UNCHANGED <<login, calls>>
      PROVE  AccountInv'
    <2>1. line.limits \in 0..remote.limits
        BY <1>2, <1>7 DEF LineFits
    <2>2. LinkFits'
        BY <1>0, <1>2, <1>4, <1>7 DEF AccountInv, LinkFits, LinesFit
    <2> QED BY <1>0, <1>4, <1>7, <2>1, <2>2 DEF AccountInv, StatesFit, LoginsFit
<1> QED BY <1>3, <1>5, <1>6, <1>7

LEMMA StartedFits ==
    ASSUME AccountInv, NEW i \in Calls, Account!LoginStarted(i) PROVE AccountInv'
<1> DEFINE l == calls[i].login
           c == IF calls[i].page THEN [calls[i] EXCEPT !.at = "reply", !.seen = "started"]
                ELSE IF Account!StartedAs(l) \in Account!Ended THEN Account!Idle
                ELSE [calls[i] EXCEPT !.op = "wait", !.at = "waiting"]
           then == [calls EXCEPT ![i] = c]
<1>0. /\ calls[i].op = "start" /\ calls[i].at = "settled" /\ UNCHANGED <<remote, link, cache, form>>
      /\ Account!Publish(l, Account!StartedAs(l), then)
    BY DEF Account!LoginStarted
<1>1. CallFits(calls[i], Known, remote.limits)
    BY <1>0, CallOf
<1>2. l \in Known /\ (c = Account!Idle \/ CallFits(c, Known, remote.limits))
    BY <1>0, <1>1 DEF CallFits, CallFields
<1> HIDE DEF l, c
<1>3. CallsFit(then, Known, remote.limits)
    BY <1>2, CallChanges DEF AccountInv
<1>4. \A j \in Calls : calls[j].at = "answered" => then[j] = calls[j]
    BY <1>0
<1> DEFINE ls == link.lines
<1>5. LinesFit(ls, calls, Known, remote.limits) /\ LinesBecome(ls)
    BY <1>0 DEF AccountInv, LinkFits, LinesBecome
<1> HIDE DEF then, ls
<1>6. cache' \in 0..remote.limits
    BY <1>0 DEF AccountInv
<1> QED BY <1>0, <1>2, <1>3, <1>4, <1>5, <1>6, PublishFits

\* What becomes of a call that ends, or goes back to the page.
LEMMA DoneFits ==
    ASSUME NEW c, NEW known, NEW limits, CallFits(c, known, limits), NEW seen,
           c.op \notin {"wait", "first"}, c.op # "start" \/ seen = "error"
    PROVE  \/ Account!Done([c EXCEPT !.seen = seen]) = Account!Idle
           \/ CallFits(Account!Done([c EXCEPT !.seen = seen]), known, limits)
BY DEF CallFits, CallFields, Account!Done

LEMMA CallPublishes ==
    ASSUME AccountInv, NEW i \in Calls, calls[i].at \in {"settled", "refused"}, NEW c,
           c = Account!Idle \/ CallFits(c, Known, remote.limits),
           NEW l \in Known, NEW status, Account!Publish(l, status, [calls EXCEPT ![i] = c]),
           UNCHANGED <<remote, link, cache, form>>
    PROVE  AccountInv'
<1> DEFINE then == [calls EXCEPT ![i] = c]
<1>1. CallsFit(then, Known, remote.limits)
    BY CallChanges DEF AccountInv
<1>2. \A j \in Calls : calls[j].at = "answered" => then[j] = calls[j]
    OBVIOUS
<1> DEFINE ls == link.lines
<1>3. LinesFit(ls, calls, Known, remote.limits) /\ LinesBecome(ls)
    BY DEF AccountInv, LinkFits, LinesBecome
<1>4. Account!Publish(l, status, then)
    OBVIOUS
<1> HIDE DEF then, ls
<1>5. cache' \in 0..remote.limits
    BY DEF AccountInv
<1> QED BY <1>1, <1>2, <1>3, <1>4, <1>5, PublishFits

LEMMA CancelledFits ==
    ASSUME AccountInv, NEW i \in Calls, Account!LoginCancelled(i) PROVE AccountInv'
<1> DEFINE c == Account!Done([calls[i] EXCEPT !.seen = "cancelled"])
<1>0. /\ calls[i].op \in {"cancel", "timeout"} /\ calls[i].at = "settled"
      /\ UNCHANGED <<remote, link, cache, form>>
      /\ Account!Publish(calls[i].login, "cancelled", [calls EXCEPT ![i] = c])
    BY DEF Account!LoginCancelled
<1>1. CallFits(calls[i], Known, remote.limits)
    BY <1>0, CallOf
<1>2. calls[i].login \in Known
    BY <1>0, <1>1 DEF CallFits
<1>3. c = Account!Idle \/ CallFits(c, Known, remote.limits)
    BY <1>0, <1>1, DoneFits
<1> HIDE DEF c
<1> QED BY <1>0, <1>2, <1>3, CallPublishes

LEMMA FailedFits ==
    ASSUME AccountInv, NEW i \in Calls, Account!CallFails(i) PROVE AccountInv'
<1> DEFINE c == Account!Done([calls[i] EXCEPT !.seen = "error"])
<1>0. /\ calls[i].at = "refused" /\ UNCHANGED <<remote, link, cache, form>>
      /\ IF calls[i].op = "timeout" THEN Account!Publish(calls[i].login, "failed", [calls EXCEPT ![i] = c])
         ELSE calls' = [calls EXCEPT ![i] = c] /\ UNCHANGED login
    BY DEF Account!CallFails
<1>1. CallFits(calls[i], Known, remote.limits)
    BY <1>0, CallOf
<1>2. calls[i].op \notin {"wait", "first"} /\ (calls[i].op = "timeout" => calls[i].login \in Known)
    BY <1>0, <1>1 DEF CallFits
<1>3. c = Account!Idle \/ CallFits(c, Known, remote.limits)
    BY <1>1, <1>2, DoneFits
<1> HIDE DEF c
<1>4. CASE calls[i].op = "timeout"
    BY <1>0, <1>2, <1>3, <1>4, CallPublishes
<1>5. CASE calls[i].op # "timeout"
    <2>1. FormFits(form', Known) /\ cache' \in 0..remote.limits
        BY <1>0 DEF AccountInv
    <2> QED BY <1>0, <1>3, <1>5, <2>1, CallGoesOn
<1> QED BY <1>4, <1>5

LEMMA LimitsFit ==
    ASSUME AccountInv, NEW i \in Calls, Account!LimitsRead(i) PROVE AccountInv'
<1>0. /\ calls[i].at = "settled" /\ UNCHANGED <<remote, link, login, form>>
      /\ cache' = calls[i].limits /\ calls' = [calls EXCEPT ![i] = Account!Idle]
    BY DEF Account!LimitsRead, Account!Set
<1>1. calls[i].limits \in 0..remote.limits
    BY <1>0, CallOf DEF CallFits
<1>2. FormFits(form', Known)
    BY <1>0 DEF AccountInv
<1> QED BY <1>0, <1>1, <1>2, CallGoesOn

LEMMA SeenFits ==
    ASSUME AccountInv, NEW i \in Calls, Account!LoginSeen(i) PROVE AccountInv'
<1> DEFINE c == [calls[i] EXCEPT !.at = "reply", !.seen = login[calls[i].login]]
<1>0. /\ calls[i].op = "poll" /\ calls[i].at = "asked" /\ UNCHANGED <<remote, link, login, cache, form>>
      /\ calls' = [calls EXCEPT ![i] = c]
    BY DEF Account!LoginSeen, Account!Set
<1>1. CallFits(calls[i], Known, remote.limits)
    BY <1>0, CallOf
<1>2. CallFits(c, Known, remote.limits)
    BY <1>0, <1>1 DEF CallFits, CallFields
<1> HIDE DEF c
<1>3. FormFits(form', Known) /\ cache' \in 0..remote.limits
    BY <1>0 DEF AccountInv
<1> QED BY <1>0, <1>2, <1>3, CallGoesOn

LEMMA PollingStops ==
    ASSUME NEW known, NEW p, FormFits(p, known)
    PROVE  FormFits(Account!StopPolling(p), known)
BY DEF FormFits, Account!StopPolling

\* A poll shows the login that it asked for.
LEMMA SeenOnPage ==
    ASSUME NEW known, NEW p, FormFits(p, known), NEW c, c.login \in known
    PROVE  FormFits(Account!Seen(p, c), known)
<1> DEFINE shown == IF c.seen = "error" THEN p ELSE [p EXCEPT !.login = c.login, !.status = c.seen]
<1>1. FormFits(shown, known)
    BY DEF FormFits
<1>2. Account!Seen(p, c) \in {shown, Account!StopPolling(shown)}
    BY DEF Account!Seen
<1> HIDE DEF shown
<1> QED BY <1>1, <1>2, PollingStops

LEMMA PageAnsweredFits ==
    ASSUME AccountInv, NEW i \in Calls, Account!PageAnswered(i) PROVE AccountInv'
<1>0. /\ calls[i].at = "reply" /\ UNCHANGED <<remote, link, login, cache>>
      /\ \/ /\ calls[i].op = "start" /\ calls[i].seen # "error"
            /\ form' = [form EXCEPT !.login = calls[i].login, !.status = "started"]
            /\ calls' = [calls EXCEPT ![i] = Account!Call("first", calls[i].login, TRUE)]
         \/ /\ calls[i].op = "cancel" /\ calls' = [calls EXCEPT ![i] = Account!Idle]
            /\ form' = [form EXCEPT !.login = calls[i].login, !.status = "cancelled"]
         \/ calls' = [calls EXCEPT ![i] = Account!Idle] /\ UNCHANGED form
         \/ /\ calls[i].op = "poll" /\ calls' = [calls EXCEPT ![i] = Account!Idle]
            /\ form' = Account!Seen(form, calls[i])
    BY DEF Account!PageAnswered, Account!Set
<1>1. CallFits(calls[i], Known, remote.limits)
    BY <1>0, CallOf
<1>2. FormFits(form, Known) /\ cache' \in 0..remote.limits /\ remote.limits \in Nat
    BY <1>0 DEF AccountInv, RemoteFits
<1>3. CASE /\ calls[i].op = "start" /\ calls[i].seen # "error"
           /\ form' = [form EXCEPT !.login = calls[i].login, !.status = "started"]
           /\ calls' = [calls EXCEPT ![i] = Account!Call("first", calls[i].login, TRUE)]
    <2>1. calls[i].login \in Known
        BY <1>0, <1>1, <1>3 DEF CallFits
    <2>2. CallFits(Account!Call("first", calls[i].login, TRUE), Known, remote.limits)
        BY <1>2, <2>1, CallAsked
    <2>3. FormFits(form', Known)
        BY <1>2, <1>3, <2>1 DEF FormFits
    <2> QED BY <1>0, <1>2, <1>3, <2>2, <2>3, CallGoesOn
<1>4. CASE /\ calls[i].op = "cancel" /\ calls' = [calls EXCEPT ![i] = Account!Idle]
           /\ form' = [form EXCEPT !.login = calls[i].login, !.status = "cancelled"]
    <2>1. FormFits(form', Known)
        BY <1>2, <1>4 DEF FormFits
    <2> QED BY <1>0, <1>2, <1>4, <2>1, CallGoesOn
<1>5. CASE calls' = [calls EXCEPT ![i] = Account!Idle] /\ UNCHANGED form
    BY <1>0, <1>2, <1>5, CallGoesOn
<1>6. CASE /\ calls[i].op = "poll" /\ calls' = [calls EXCEPT ![i] = Account!Idle]
           /\ form' = Account!Seen(form, calls[i])
    <2>1. calls[i].login \in Known
        BY <1>1, <1>6 DEF CallFits
    <2>2. FormFits(form', Known)
        BY <1>2, <1>6, <2>1, SeenOnPage
    <2> QED BY <1>0, <1>2, <1>6, <2>2, CallGoesOn
<1> QED BY <1>0, <1>3, <1>4, <1>5, <1>6

LEMMA PollingStartsFits ==
    ASSUME AccountInv, NEW i \in Calls, Account!PollingStarts(i) PROVE AccountInv'
<1> DEFINE l == calls[i].login
           c == [calls[i] EXCEPT !.seen = login[l]]
           seen == Account!Seen(form, c)
<1>0. /\ calls[i].op = "first" /\ UNCHANGED <<remote, link, login, cache>>
      /\ calls' = [calls EXCEPT ![i] = Account!Idle]
      /\ form' = [seen EXCEPT !.timer = l, !.ticks = @ \cup {l}]
    BY DEF Account!PollingStarts, Account!Set
<1>1. CallFits(calls[i], Known, remote.limits)
    BY <1>0 DEF AccountInv, CallsFit, Account!Idle
<1>2. l \in Known /\ calls[i].at = "asked" /\ c.login = l
    BY <1>0, <1>1 DEF CallFits, CallFields
<1> HIDE DEF l, c
<1>3. FormFits(seen, Known)
    BY <1>2, SeenOnPage DEF AccountInv
<1> HIDE DEF seen
<1>4. l \in Logins
    BY <1>2 DEF Known, AccountInv, RemoteFits
<1>5. FormFits(form', Known)
    BY <1>0, <1>2, <1>3, <1>4 DEF FormFits
<1>6. cache' \in 0..remote.limits
    BY <1>0 DEF AccountInv
<1> QED BY <1>0, <1>2, <1>5, <1>6, CallGoesOn

LEMMA AsksFits ==
    ASSUME AccountInv, NEW i \in Calls, Account!Asks(i) PROVE AccountInv'
<1>1. FormFits(form, Known) /\ FormFits(Account!StopPolling(form), Known) /\ remote.limits \in Nat
    BY PollingStops DEF AccountInv, RemoteFits
<1>2. cache \in 0..remote.limits
    BY DEF AccountInv
<1>3. ASSUME Account!Acts(i), NEW c, CallFits(c, Known, remote.limits),
             calls' = [calls EXCEPT ![i] = c], FormFits(form', Known)
      PROVE  AccountInv'
    <2>1. calls[i].at # "answered"
        BY <1>3 DEF Account!Acts, Account!Idle
    <2>2. UNCHANGED <<remote, link, login, cache>>
        BY <1>3 DEF Account!Acts
    <2> QED BY <1>2, <1>3, <2>1, <2>2, CallGoesOn
<1>4. CASE Account!TerminalSignsIn(i)
    <2>1. CallFits(Account!Call("start", "none", FALSE), Known, remote.limits)
        BY <1>1, CallAsked
    <2> QED BY <1>1, <1>3, <1>4, <2>1 DEF Account!TerminalSignsIn, Account!Set
<1>5. CASE Account!RuntimeReadsLimits(i)
    <2>1. CallFits(Account!Call("limits", "none", FALSE), Known, remote.limits)
        BY <1>1, CallAsked
    <2> QED BY <1>1, <1>3, <1>5, <2>1 DEF Account!RuntimeReadsLimits, Account!Set
<1>6. CASE Account!StartOpenAiLogin(i)
    <2>1. CallFits(Account!Call("start", "none", TRUE), Known, remote.limits)
        BY <1>1, CallAsked
    <2> QED BY <1>1, <1>3, <1>6, <2>1 DEF Account!StartOpenAiLogin, Account!Set
<1>7. CASE Account!CancelOpenAiLogin(i)
    <2>1. form.login \in Known
        BY <1>1, <1>7 DEF Account!CancelOpenAiLogin, FormFits
    <2>2. CallFits(Account!Call("cancel", form.login, TRUE), Known, remote.limits)
        BY <1>1, <2>1, CallAsked
    <2> QED BY <1>1, <1>3, <1>7, <2>2 DEF Account!CancelOpenAiLogin, Account!Set
<1>8. CASE Account!WaitTimesOut(i)
    <2>1. CallFits(calls[i], Known, remote.limits)
        BY <1>8 DEF Account!WaitTimesOut, AccountInv, CallsFit, Account!Idle
    <2>2. calls[i].login \in Known /\ calls[i].at = "waiting"
        BY <1>8, <2>1 DEF Account!WaitTimesOut, CallFits
    <2>3. CallFits(Account!Call("timeout", calls[i].login, FALSE), Known, remote.limits)
        BY <1>1, <2>2, CallAsked
    <2>4. /\ UNCHANGED <<remote, link, login, cache, form>>
          /\ calls' = [calls EXCEPT ![i] = Account!Call("timeout", calls[i].login, FALSE)]
        BY <1>8 DEF Account!WaitTimesOut, Account!Set
    <2> QED BY <1>1, <1>2, <2>2, <2>3, <2>4, CallGoesOn
<1> QED BY <1>4, <1>5, <1>6, <1>7, <1>8 DEF Account!Asks

LEMMA TickFits ==
    ASSUME AccountInv, NEW i \in Calls, NEW l \in Logins, Account!PollTick(i, l) PROVE AccountInv'
<1>1. /\ calls[i].at = "idle" /\ l \in form.ticks /\ UNCHANGED <<remote, link, login, cache, form>>
      /\ calls' = [calls EXCEPT ![i] = Account!Call("poll", l, TRUE)]
    BY DEF Account!PollTick, Account!Set, Account!Idle
<1>2. FormFits(form, Known) /\ cache \in 0..remote.limits /\ remote.limits \in Nat
    BY DEF AccountInv, RemoteFits
<1>3. CallFits(Account!Call("poll", l, TRUE), Known, remote.limits)
    BY <1>1, <1>2, CallAsked DEF FormFits
<1> QED BY <1>1, <1>2, <1>3, CallGoesOn

LEMMA AccountStep ==
    ASSUME AccountInv, [Account!Next]_(Account!accountVars) PROVE AccountInv'
<1>1. ASSUME NEW i \in Calls, Account!CallStep(i) PROVE AccountInv'
    BY <1>1, SentFits, StartedFits, CancelledFits, LimitsFit, FailedFits, SeenFits, PageAnsweredFits,
       PollingStartsFits DEF Account!CallStep
<1>2. ASSUME NEW i \in Calls, Account!Answered(i) PROVE AccountInv'
    BY <1>2, AppAnswersFits, AppRefusesFits DEF Account!Answered
<1>3. CASE UNCHANGED Account!accountVars
    <2>1. UNCHANGED <<remote, link, login, cache, calls, form>>
        BY <1>3 DEF Account!accountVars
    <2> QED BY <2>1 DEF AccountInv, RemoteFits, LinkFits, StatesFit, LoginsFit, Known
<1> QED BY <1>1, <1>2, <1>3, HandshakeFits, AppTellsFits, AppCrashesFits, ReadLineFits, AsksFits, TickFits
        DEF Account!Next

LEMMA AccountBegins == ASSUME Account!Init PROVE AccountInv
<1>1. RemoteFits /\ Known = {} /\ remote.limits = 0
    BY DEF Account!Init, RemoteFits, Known
<1>2. LinkFits
    <2>1. link.lines = <<>> /\ <<>> \in Seq(PipeLine) /\ Len(<<>>) = 0
        BY DEF Account!Init
    <2>2. LinesFit(link.lines, calls, Known, remote.limits)
        BY <2>1 DEF LinesFit
    <2> QED BY <2>1, <2>2 DEF Account!Init, LinkFits
<1>3. CallsFit(calls, Known, remote.limits)
    BY DEF Account!Init, CallsFit
<1>4. FormFits(form, Known) /\ StatesFit(Known) /\ cache \in 0..remote.limits
    BY <1>1 DEF Account!Init, FormFits, StatesFit, LoginsFit
<1> QED BY <1>1, <1>2, <1>3, <1>4 DEF AccountInv

\* What the App Server, the services and the page know of logins and limits
\* fits together: a login with a status was opened, the page polls and ticks
\* only for logins, and the cached limits are none that the server has yet to
\* tell.
THEOREM AccountTypeCorrect ==
    Account!Init /\ [][Account!Next]_(Account!accountVars) => []Account!TypeOK
<1>1. Account!Init => AccountInv
    BY AccountBegins
<1>2. AccountInv /\ [Account!Next]_(Account!accountVars) => AccountInv'
    BY AccountStep
<1>3. AccountInv => Account!TypeOK
    BY DEF AccountInv, RemoteFits, LinkFits, FormFits, StatesFit, Known, Account!TypeOK
<1> QED BY <1>1, <1>2, <1>3, PTL

-----------------------------------------------------------------------------
(* The clients put together: a behaviour of the parts is one of each. *)

\* The page of a user who waits shows one session, whatever the other clients do.
THEOREM PageShowsSession ==
    ASSUME PartConstants, ~Overlaps PROVE FairParts => []ShownIsOfSession
<1>1. PartsInit => Web!Init
    BY DEF PartsInit
<1>2. [PartsNext]_partVars => [Web!Next]_(Web!webVars)
    BY DEF PartsNext, OthersStay, partVars, webVars, Web!webVars
<1>3. FairParts => Web!Spec
    BY <1>1, <1>2, PTL DEF FairParts, Web!Spec
<1> QED BY <1>3, SessionIsShown DEF PartConstants, ShownIsOfSession

\* The change stream keeps what it promises beside the page and the account.
THEOREM ClientsMissNothing ==
    ASSUME PartConstants PROVE FairParts => []CursorCovers /\ RevisionsNeverGoBack
<1>1. PartsInit => Init
    BY DEF PartsInit
<1>2. [PartsNext]_partVars => [Next]_vars
    BY DEF PartsNext, OthersStay, partVars
<1>3. FairParts => Spec
    BY <1>1, <1>2, PTL DEF FairParts, Spec
<1> QED BY <1>3, NothingIsPassed, RevisionsStay DEF PartConstants

\* The state of each client is of its type, whatever the other clients do.
THEOREM ClientTypesHold ==
    ASSUME PartConstants PROVE FairParts => []PartsTypeOK
<1>1. PartsInit => Init /\ Web!Init /\ Account!Init
    BY DEF PartsInit
<1>2. [PartsNext]_partVars =>
          [Next]_vars /\ [Web!Next]_(Web!webVars) /\ [Account!Next]_(Account!accountVars)
    BY DEF PartsNext, OthersStay, partVars, webVars, Web!webVars, accountVars, Account!accountVars
<1>3. FairParts => /\ Spec /\ Web!Spec
                   /\ Account!Init /\ [][Account!Next]_(Account!accountVars)
    BY <1>1, <1>2, PTL DEF FairParts, Spec, Web!Spec
<1>4. TypeOK /\ Web!TypeOK /\ Account!TypeOK => PartsTypeOK
    BY DEF PartsTypeOK
<1>5. Spec => []TypeOK
    BY TypesHold DEF PartConstants
<1>6. Web!Spec => []Web!TypeOK
    BY WebTypeCorrect DEF PartConstants
<1> QED BY <1>3, <1>4, <1>5, <1>6, AccountTypeCorrect, PTL

=============================================================================
