-------------------------- MODULE MCSchedulerEngine --------------------------
(* Instances of SchedulerEngine for TLC: what the tasks of each run are.    *)
EXTENDS SchedulerEngine

CONSTANTS t1, t2

Basic(kind) ==
    [kind |-> kind, delay |-> 0, lifetime |-> NoTime, interval |-> 1,
     maxCycles |-> 2, principal |-> "p", matches |-> TRUE]

\* One waking task that is rescheduled by its own turns.
OneWake == [t \in {t1} |-> Basic("wake_turn")]

Once(kind) == [Basic(kind) EXCEPT !.maxCycles = 1]

\* A wake that its turns reschedule at once next to a watch that agent events
\* nudge: the interval between wakes holds the one back, not the other.
WakeAndWatch == [t \in {t1, t2} |-> IF t = t1 THEN Basic("wake_turn") ELSE Once("watch")]

\* Such a wake and a reminder that compete for one slot.
WakeAndReminder == [t \in {t1, t2} |-> IF t = t1 THEN Basic("wake_turn") ELSE Once("reminder")]

\* Two wakes that pass the quota check together.
TwoWakes == [t \in {t1, t2} |-> Basic("wake_turn")]

OneTask  == {t1}
TwoTasks == {t1, t2}
=============================================================================
