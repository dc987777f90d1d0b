------------------------------- MODULE Alarm --------------------------------
(***************************************************************************)
(* What the delay list of kernel/os_task.c promises: every sleeper has an  *)
(* alarm of its own, which rings when its time is up, not before, and in   *)
(* the order of the times.  Nothing else happens while an alarm is overdue.*)
(***************************************************************************)
EXTENDS Integers

CONSTANTS
    Task,
    Ticks       \* the delays asked for and the windows that elapse

VARIABLES
    asleep,     \* the tasks with an alarm
    left        \* how far away each of their alarms is, 0 for the others

vars == <<asleep, left>>

Init ==
    /\ asleep = {}
    /\ left = [t \in Task |-> 0]

Quiet == \A t \in asleep : left[t] > 0

Sleep(t, n) ==
    /\ Quiet /\ t \notin asleep
    /\ asleep' = asleep \cup {t}
    /\ left' = [left EXCEPT ![t] = n]

Cancel(t) ==
    /\ Quiet /\ t \in asleep
    /\ asleep' = asleep \ {t}
    /\ left' = [left EXCEPT ![t] = 0]

Elapse(n) ==
    /\ Quiet
    /\ left' = [t \in Task |-> IF t \in asleep THEN left[t] - n ELSE left[t]]
    /\ UNCHANGED asleep

Ring(t) ==
    /\ t \in asleep /\ left[t] <= 0
    /\ \A u \in asleep : left[t] <= left[u]
    /\ asleep' = asleep \ {t}
    /\ left' = [left EXCEPT ![t] = 0]

Next ==
    \/ \E n \in Ticks : Elapse(n)
    \/ \E t \in Task : \/ \E n \in Ticks : Sleep(t, n)
                       \/ Cancel(t)
                       \/ Ring(t)

Spec == Init /\ [][Next]_vars
=============================================================================
