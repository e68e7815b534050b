--------------------------- MODULE RunEventChannel ---------------------------
(***************************************************************************)
(* The buffer between the producers of run events and the event files:     *)
(* src/runs/eventChannel.ts, as RunStore.appendEvent and flushEvents use   *)
(* it.  A producer waits for the event it pushed before it pushes another. *)
(*                                                                         *)
(* All of it runs on one thread.  What follows an await is a step of its   *)
(* own, and the sink, which does I/O, only completes when no such step is  *)
(* left to run.                                                            *)
(***************************************************************************)
EXTENDS Naturals, Sequences, FiniteSets

CONSTANTS
    Producers,          \* callers of appendEvent
    Flushers,           \* callers of flushEvents
    EventsEach,         \* bound: events a producer pushes
    MaxBufferedEvents,  \* 400
    LowWatermark,       \* 65 per cent of it
    SinkMayFail,        \* whether an append to an event file may throw
    None                \* no producer

\* What the constants may be.
ChannelConstants ==
    /\ EventsEach \in Nat /\ MaxBufferedEvents \in Nat \ {0}
    /\ LowWatermark \in 1..(MaxBufferedEvents - 1) /\ SinkMayFail \in BOOLEAN
    /\ None \notin Producers

VARIABLES
    push,       \* what each producer is doing
    settled,    \* events of each producer written, or refused by the file system
    queue,      \* the buffer, as the producers of the events in it
    current,    \* the producer whose event the sink is writing
    flush,      \* what each flusher is doing
    awaited     \* the events of each producer a flusher found in the channel

vars == <<push, settled, queue, current, flush, awaited>>

flushing == current # None
Holds(p) == current = p \/ \E i \in 1..Len(queue) : queue[i] = p

Init ==
    /\ push = [p \in Producers |-> "idle"] /\ settled = [p \in Producers |-> 0]
    /\ queue = <<>> /\ current = None
    /\ flush = [f \in Flushers |-> "idle"]
    /\ awaited = [f \in Flushers |-> [p \in Producers |-> 0]]

-----------------------------------------------------------------------------

\* waitForCapacity: one turn of its loop.
AwaitCapacity(p) ==
    push' = [push EXCEPT ![p] = IF Len(queue) >= MaxBufferedEvents THEN "waiting" ELSE "cleared"]

Push(p) ==
    /\ push[p] = "idle" /\ settled[p] < EventsEach
    /\ AwaitCapacity(p)
    /\ UNCHANGED <<settled, queue, current, flush, awaited>>

Resume(p) ==
    /\ push[p] = "woken"
    /\ AwaitCapacity(p)
    /\ UNCHANGED <<settled, queue, current, flush, awaited>>

\* The rest of push.  A loop that has to be started takes the event at once.
Enqueue(p) ==
    /\ push[p] = "cleared"
    /\ push' = [push EXCEPT ![p] = "queued"]
    /\ IF flushing
       THEN queue' = Append(queue, p) /\ UNCHANGED current
       ELSE current' = p /\ UNCHANGED queue
    /\ UNCHANGED <<settled, flush, awaited>>

\* A bug: only a successful append wakes who waits for capacity.
SettleOnSuccess(p, ok) ==
    push' = [q \in Producers |->
                IF q = p THEN "idle"
                ELSE IF ok /\ push[q] = "waiting" /\ Len(queue) <= LowWatermark THEN "woken"
                ELSE push[q]]

\* The push of p returns or throws, and notifyCapacityWaiters runs.
Settle(p, ok) ==
    push' = [q \in Producers |->
                IF q = p THEN "idle"
                ELSE IF push[q] = "waiting" /\ Len(queue) <= LowWatermark THEN "woken"
                ELSE push[q]]

\* resolveIdleWaiters, once the loop has nothing left.
ResolveIdle ==
    flush' = [f \in Flushers |->
                IF flush[f] = "waiting" /\ queue = <<>> THEN "done" ELSE flush[f]]

Ready == \A p \in Producers : push[p] \notin {"woken", "cleared"}

\* flushLoop, from the end of one append to the start of the next.
SinkEnds(ok) ==
    /\ flushing /\ Ready
    /\ ok \/ SinkMayFail
    /\ settled' = [settled EXCEPT ![current] = @ + 1]
    /\ Settle(current, ok)
    /\ IF queue = <<>> THEN current' = None /\ UNCHANGED queue
       ELSE current' = Head(queue) /\ queue' = Tail(queue)
    /\ ResolveIdle
    /\ UNCHANGED awaited

Flush(f) ==
    /\ flush[f] = "idle"
    /\ flush' = [flush EXCEPT ![f] = IF flushing THEN "waiting" ELSE "done"]
    /\ awaited' = [awaited EXCEPT ![f] =
            [p \in Producers |-> IF Holds(p) THEN settled[p] + 1 ELSE settled[p]]]
    /\ UNCHANGED <<push, settled, queue, current>>

Next ==
    \/ \E p \in Producers : Push(p) \/ Resume(p) \/ Enqueue(p)
    \/ \E ok \in BOOLEAN : SinkEnds(ok)
    \/ \E f \in Flushers : Flush(f)

Spec == Init /\ [][Next]_vars

\* What follows an await runs, and an append ends.
Fairness ==
    /\ \A p \in Producers : WF_vars(Resume(p)) /\ WF_vars(Enqueue(p))
    /\ WF_vars(\E ok \in BOOLEAN : SinkEnds(ok))

FairSpec == Spec /\ Fairness

-----------------------------------------------------------------------------

\* Every variable has its type.
TypeOK ==
    /\ push \in [Producers -> {"idle", "waiting", "woken", "cleared", "queued"}]
    /\ settled \in [Producers -> 0..EventsEach]
    /\ queue \in Seq(Producers) /\ current \in Producers \cup {None}
    /\ flush \in [Flushers -> {"idle", "waiting", "done"}]
    /\ awaited \in [Flushers -> [Producers -> 0..EventsEach]]

\* No event is lost and none is written twice: an event is in the channel,
\* once, exactly while its producer waits for it.  And when flushEvents
\* returns, every event it found there is settled: listRunEvents reads the
\* files right after it.
EventsAreKept ==
    /\ \A p \in Producers :
        Cardinality({i \in 1..Len(queue) : queue[i] = p}) + (IF current = p THEN 1 ELSE 0)
            = IF push[p] = "queued" THEN 1 ELSE 0
    /\ \A f \in Flushers, p \in Producers :
        flush[f] = "done" => settled[p] >= awaited[f][p]

\* No wakeup is lost: a push ends, whatever happens to the events around it.
PushesEnd == \A p \in Producers : []<>(push[p] = "idle")

\* docs/changelog.md:332: run events go "through a bounded async channel".
BufferBounded == Len(queue) <= MaxBufferedEvents
=============================================================================
