-------------------------------- MODULE Notify -------------------------------
(***************************************************************************)
(* Task notifications, kernel/os_notify.c: a mailbox in every TCB that     *)
(* holds the last value given and not yet taken.  The waiting task is in   *)
(* no waiter list; os_notify_give addresses it directly.  What the value   *)
(* is makes no difference and is left out.                                 *)
(***************************************************************************)
EXTENDS Waiting

VARIABLES
    pending,        \* slot->pending
    waiting         \* slot->waiting

notifyVars == <<pending, waiting>>

NotifyInit ==
    /\ pending = [t \in Task |-> FALSE]
    /\ waiting = [t \in Task |-> FALSE]

WakeSleeper(t) == state[t] = "BLOCKED" /\ waiting[t]

\* os_notify_give for a live task, by a task or an interrupt handler, with
\* os_task_wake_tcb: the wakeup has no source list.
NotifyGive(t) ==
    LET hits == {u \in {t} : WakeSleeper(u)}
    IN  /\ Live(t)
        /\ pending' = [pending EXCEPT ![t] = TRUE]
        /\ waiting' = [waiting EXCEPT ![t] = @ /\ t \notin hits]
        /\ state' = [u \in Task |-> IF u \in hits THEN "READY" ELSE state[u]]
        /\ signaled' = [u \in Task |-> u \in hits \/ signaled[u]]
        /\ delayed' = delayed \ hits
        /\ waiters' = WaitersWithout(hits)
        /\ UNCHANGED <<prio, wokenFrom, onCore, callVars>>

-----------------------------------------------------------------------------
(* os_notify_wait.                                                         *)

Asking(t) == Executing(t) /\ pc[t] = "ask"

NotifyCall(t, limit) ==
    /\ Executing(t) /\ pc[t] = "out"
    /\ pc' = [pc EXCEPT ![t] = "ask"]
    /\ timeout' = [timeout EXCEPT ![t] = limit]
    /\ UNCHANGED <<tcbVars, onCore, waiters, target, spent, notifyVars>>

NotifyTake(t) ==
    /\ Asking(t) /\ pending[t]
    /\ pending' = [pending EXCEPT ![t] = FALSE]
    /\ waiting' = [waiting EXCEPT ![t] = FALSE]
    /\ Return(t)
    /\ UNCHANGED <<tcbVars, onCore, waiters>>

\* Mutant: the flag is not cleared when the loop starts over.
NotifyFailKeepsWaiting(t) ==
    /\ Asking(t) /\ ~pending[t]
    /\ GivesUp(t)
    /\ Return(t)
    /\ UNCHANGED <<tcbVars, onCore, waiters, notifyVars>>

\* OS_ERR_EMPTY or OS_ERR_TIMEOUT.
NotifyFail(t) ==
    /\ Asking(t) /\ ~pending[t]
    /\ GivesUp(t)
    /\ waiting' = [waiting EXCEPT ![t] = FALSE]
    /\ Return(t)
    /\ UNCHANGED <<tcbVars, onCore, waiters, pending>>

\* os_task_sleep_ticks, in the critical section that found the mailbox empty.
NotifyBlock(t) ==
    /\ Asking(t) /\ ~pending[t]
    /\ ~GivesUp(t)
    /\ waiting' = [waiting EXCEPT ![t] = TRUE]
    /\ state' = [state EXCEPT ![t] = "BLOCKED"]
    /\ delayed' = IF timeout[t] = "finite" THEN delayed \cup {t} ELSE delayed
    /\ pc' = [pc EXCEPT ![t] = "asleep"]
    /\ UNCHANGED <<prio, signaled, wokenFrom, onCore, waiters, target, timeout, spent, pending>>

\* Given, out of time, or woken for nothing: the loop starts over.
NotifyResume(t) ==
    /\ Executing(t) /\ pc[t] = "asleep"
    /\ pc' = [pc EXCEPT ![t] = "ask"]
    /\ \E zero \in IF timeout[t] = "finite" THEN BOOLEAN ELSE {FALSE} :
          spent' = [spent EXCEPT ![t] = zero]
    /\ UNCHANGED <<tcbVars, onCore, waiters, target, timeout, notifyVars>>

NotifyWaitStep(t) ==
    \/ \E limit \in Timeout : NotifyCall(t, limit)
    \/ NotifyTake(t) \/ NotifyFail(t) \/ NotifyBlock(t) \/ NotifyResume(t)

\* Mutant: os_task_tcb_clear leaves the mailbox alone.
NotifyRemembers(t) == UNCHANGED notifyVars

\* os_task_tcb_clear empties the mailbox of a deleted task.
NotifyForgets(t) ==
    IF state'[t] = "INACTIVE"
    THEN /\ pending' = [pending EXCEPT ![t] = FALSE]
         /\ waiting' = [waiting EXCEPT ![t] = FALSE]
    ELSE UNCHANGED notifyVars

-----------------------------------------------------------------------------
(* Properties.                                                             *)

NotifyTypeOK ==
    /\ pending \in [Task -> BOOLEAN]
    /\ waiting \in [Task -> BOOLEAN]

\* A task sleeps in os_notify_wait only while its mailbox is empty and the
\* next give would wake it; and a give wakes nobody out of another object's
\* wait, however the task's last os_notify_wait ended.
MailboxExact ==
    \A t \in Task :
        /\ state[t] = "BLOCKED" /\ pc[t] = "asleep" => waiting[t] /\ ~pending[t]
        /\ state[t] = "BLOCKED" /\ waiting[t] => pc[t] = "asleep"
=============================================================================
