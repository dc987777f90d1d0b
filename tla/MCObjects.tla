------------------------------ MODULE MCObjects ------------------------------
(* Small instances of Objects for TLC.                                     *)
EXTENDS Objects, TLC

CONSTANTS t1, t2, t3, s1, q1, a, b

TwoTasks == {t1, t2}
ThreeTasks == {t1, t2, t3}
NoSem == {}
OneSem == {s1}
NoQueue == {}
OneQueue == {q1}
SemList == {s1}
QueueLists == {q1} \X {"send", "receive"}
AllLists == SemList \cup QueueLists
OneItem == {a}
TwoItems == {a, b}
Symmetry == Permutations(ThreeTasks)
SymmetryOfItems == Permutations(TwoTasks) \cup Permutations(TwoItems)

\* States that differ in what nothing reads any more are one to TLC: the list
\* of a finished call, and the ring's slots that hold no item.
View ==
    LET inUse == [t \in Task |-> IF pc[t] = "out" THEN NoList ELSE target[t]]
    IN  <<tcbVars, onCore, waiters, pc, inUse, timeout, spent, semCount,
          Items, head, tail, count, copied, capacity, owned, mode>>
=============================================================================
