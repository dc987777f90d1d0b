------------------------------- MODULE MCLocks -------------------------------
(* A small instance of Locks for TLC.                                      *)
EXTENDS Locks, TLC

CONSTANTS t1, t2, t3, s1, m1, m2

Tasks == {t1, t2, t3}
Mutexes == {m1, m2}
Semaphores == {s1}
Lists == Semaphores \cup Mutexes
Symmetry == Permutations(Tasks) \cup Permutations(Mutexes)

(* Fewer interleavings, none of them of its own kind.                      *)

\* A task is preempted in a call only while it waits: what it does between its
\* critical sections concerns nobody else.
PreemptedWaiting == \A t \in Task : pc[t] \in {"try", "expired"} => Executing(t)

\* A task outside of any call is not paused: that it is not dispatched is the
\* same to the others.
PausedInCall ==
    \A t \in Task : state[t] \in {"READY", "RUNNING"} /\ pc[t] = "out"
        => state'[t] # "SUSPENDED"

\* t takes no part.
Idle(t) == state[t] = "SUSPENDED" /\ pc[t] = "out"
AllTakePart == \A t \in Task : ~Idle(t)

\* All three tasks take part only where assertions are on and every lock is
\* in somebody's name, and one of the two always holds.
TwoOrThree ==
    LET named == \A m \in Mutex : locked[m] => owner[m] # Nobody
    IN  /\ asserting \/ named
        /\ \/ asserting /\ named
           \/ \E t \in Task : Idle(t) /\ prio[t] = 1 /\ base[t] = 1

\* The tasks that are deleted, or paused in a call.
Away == {t \in Task : ~Live(t) \/ (state[t] = "SUSPENDED" /\ pc[t] # "out")}

\* The tasks that wait, or may wait, with a limit.
Limited == {t \in Task : timeout[t] = "finite"}

\* At most one task at a time is away, and of three none waits with a limit
\* meanwhile.
OneAway ==
    /\ Cardinality(Away) <= 1
    /\ AllTakePart /\ Away # {} => Limited = {}

\* Of three tasks, two wait with a limit at a time only if they are of the
\* lowest priority themselves.
FewLimits ==
    AllTakePart /\ Cardinality(Limited) > 1 => \A t \in Limited : base[t] = 1

\* Tasks wait for the semaphore while none waits with a limit or is away, and
\* one mutex is not in use; it holds a token only until the task it woke is
\* back.
SemaphoreOrMutex ==
    LET users == {t \in Task : pc[t] # "out" /\ target[t] \in Semaphore}
    IN  /\ users # {} =>
              /\ asserting /\ Away = {} /\ Limited = {}
              /\ \E m \in Mutex : ~locked[m] /\ waiters[m] = << >>
        /\ \A s \in Semaphore : semCount[s] > 0 => Woken(s) # {}

\* The list of a finished call is read no more.
View ==
    LET inUse == [t \in Task |-> IF pc[t] = "out" THEN NoList ELSE target[t]]
    IN  <<tcbVars, onCore, waiters, pc, inUse, timeout, spent, semCount, mutexVars>>
=============================================================================
