--------------------------------- MODULE Sem --------------------------------
(***************************************************************************)
(* Counting semaphores, kernel/os_sem.c, over the waiting machinery of     *)
(* kernel/os_task.c (module Waiting), with one waiter list per semaphore.  *)
(* Module Objects composes them with the other objects.                    *)
(***************************************************************************)
EXTENDS Waiting

CONSTANTS
    Semaphore,      \* the semaphores, each named by its waiter list
    MaxCount        \* max_count of every semaphore

ASSUME SemAssumption ==
    /\ Semaphore \subseteq WaitList
    /\ MaxCount \in Nat \ {0}

VARIABLES
    semCount        \* semaphore->count

SemaphoresInit == semCount \in [Semaphore -> 0 .. MaxCount]

\* os_sem_init on a semaphore that exists already; BUSY while it has waiters.
SemInit(s, n) ==
    /\ waiters[s] = << >>
    /\ semCount' = [semCount EXCEPT ![s] = n]
    /\ UNCHANGED waitingVars

\* os_sem_give, from a task or an interrupt handler; FULL at max_count.
Give(s) ==
    /\ semCount[s] < MaxCount
    /\ semCount' = [semCount EXCEPT ![s] = @ + 1]
    /\ WakeOne(s)

-----------------------------------------------------------------------------
(* os_sem_take.                                                            *)

Taking(t, s) == Trying(t) /\ target[t] = s

TakeOk(t, s) ==
    /\ Taking(t, s) /\ semCount[s] > 0
    /\ semCount' = [semCount EXCEPT ![s] = @ - 1]
    /\ Finish(t)

\* OS_ERR_EMPTY, or OS_ERR_TIMEOUT when a wakeup came too late.
TakeFail(t, s) ==
    /\ Taking(t, s) /\ semCount[s] = 0
    /\ GivesUp(t)
    /\ Finish(t)
    /\ UNCHANGED semCount

TakeBlock(t, s) ==
    /\ Taking(t, s) /\ semCount[s] = 0
    /\ WaitBegin(t)
    /\ UNCHANGED semCount

\* A take whose wait ran out.
TakeTimedOut(t, s) ==
    /\ target[t] = s
    /\ TimedOut(t)
    /\ UNCHANGED semCount

\* os_sem_take in an interrupt handler, whose os_task_wait_end does nothing.
IsrTake(s) ==
    /\ semCount[s] > 0
    /\ semCount' = [semCount EXCEPT ![s] = @ - 1]
    /\ UNCHANGED waitingVars

-----------------------------------------------------------------------------
SemStep(s) ==
    \/ \E n \in 0 .. MaxCount : SemInit(s, n)
    \/ Give(s)
    \/ IsrTake(s)

\* The steps of t's own take.
TakeStep(t) ==
    \E s \in Semaphore :
        TakeOk(t, s) \/ TakeFail(t, s) \/ TakeBlock(t, s) \/ TakeTimedOut(t, s)

-----------------------------------------------------------------------------
(* Properties.                                                             *)

SemTypeOK == semCount \in [Semaphore -> 0 .. MaxCount]

\* While a task waits on a semaphore, every token in it is matched by a task
\* that was woken for it.
TokensMatched ==
    \A s \in Semaphore : waiters[s] # << >> => semCount[s] <= Cardinality(Woken(s))
=============================================================================
