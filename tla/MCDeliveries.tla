---------------------------- MODULE MCDeliveries ----------------------------
(* Instances of Deliveries for TLC: a reminder r, a watch w and a wake x.    *)
EXTENDS Deliveries

CONSTANTS r, w, x

ThreeTasks   == {r, w, x}
OneReminder  == {r}
OneTurn      == {x}
KindOf       == [t \in Tasks |-> IF t = r THEN "reminder" ELSE IF t = w THEN "watch" ELSE "wake_turn"]

Twice == [t \in Tasks |-> IF t = r THEN 2 ELSE 1]
Thrice == [t \in Tasks |-> 3]
TwoTurns == [t \in Tasks |-> 2]

\* A reminder by itself, and a watch next to a wake.
AloneOrTwo   == {{r}, {w, x}}
JustReminder == {{r}}
JustTurn     == {{x}}
WithTelegram == {r, x}
Nothing      == {}
=============================================================================
