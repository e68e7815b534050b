--------------------------- MODULE TaskLifecycle ---------------------------
(***************************************************************************)
(* What the scheduler promises about a task, whatever crashes, recoveries, *)
(* ticks and late results happen inside it: a task is created once, is     *)
(* worked on by one holder at a time, at most Limit[t] times, and once it  *)
(* is done it stays done.                                                  *)
(***************************************************************************)
EXTENDS Integers

CONSTANTS Tasks, Limit, Holders

VARIABLES
    stage,      \* "absent", "waiting", "active" or "done"
    spent,      \* cycles started
    holder      \* who works on an active task

NoHolder == 0

Init ==
    /\ stage  = [t \in Tasks |-> "absent"]
    /\ spent  = [t \in Tasks |-> 0]
    /\ holder = [t \in Tasks |-> NoHolder]

Create(t) ==
    /\ stage[t] = "absent"
    /\ stage' = [stage EXCEPT ![t] = "waiting"]
    /\ UNCHANGED <<spent, holder>>

\* A cycle starts: never one more than the limit.
Claim(t, h) ==
    /\ stage[t] = "waiting" /\ spent[t] < Limit[t]
    /\ stage'  = [stage EXCEPT ![t] = "active"]
    /\ spent'  = [spent EXCEPT ![t] = spent[t] + 1]
    /\ holder' = [holder EXCEPT ![t] = h]

\* A cycle ends, or is taken back from its holder.
Release(t) ==
    /\ stage[t] = "active"
    /\ stage'  = [stage EXCEPT ![t] = "waiting"]
    /\ holder' = [holder EXCEPT ![t] = NoHolder]
    /\ UNCHANGED spent

\* Completed, failed, cancelled or expired.
Finish(t) ==
    /\ stage[t] \in {"waiting", "active"}
    /\ stage'  = [stage EXCEPT ![t] = "done"]
    /\ holder' = [holder EXCEPT ![t] = NoHolder]
    /\ UNCHANGED spent

Next ==
    \E t \in Tasks :
        \/ Create(t) \/ Release(t) \/ Finish(t)
        \/ \E h \in Holders : Claim(t, h)

Spec == Init /\ [][Next]_<<stage, spent, holder>>
=============================================================================
