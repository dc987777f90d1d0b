------------------------------- MODULE Objects -------------------------------
(***************************************************************************)
(* The blocking objects of the kernel together: tasks and interrupt        *)
(* handlers use any of them, in any order.                                 *)
(***************************************************************************)
EXTENDS Sem, Queue

ASSUME ObjectsAssumption ==
    LET QueueList == QueueId \X {"send", "receive"}
    IN  WaitList = Semaphore \cup QueueList /\ Semaphore \cap QueueList = {}

objectVars == <<semCount, queueVars>>
vars == <<waitingVars, objectVars>>

Init == WaitingInit /\ SemaphoresInit /\ QueuesInit

\* What interrupt handlers, and tasks that need not wait, do to an object.
ObjectStep ==
    \/ \E s \in Semaphore : SemStep(s) /\ UNCHANGED queueVars
    \/ \E q \in QueueId : QueueStep(q) /\ UNCHANGED semCount

\* The steps of t's own blocking call.
CallStep(t) ==
    \/ TakeStep(t) /\ UNCHANGED queueVars
    \/ SendReceiveStep(t) /\ UNCHANGED semCount
    \/ Resume(t) /\ UNCHANGED objectVars

Next ==
    \/ ObjectStep
    \/ \E t \in Task : CallStep(t) \/ (WaitStep(t) /\ UNCHANGED objectVars)

Spec == Init /\ [][Next]_vars

-----------------------------------------------------------------------------
(* Properties, besides those of Waiting, Sem and Queue.                    *)

\* The variables keep their types; no semaphore and no queue holds more than
\* its limit.
TypeOK == WaitingTypeOK /\ SemTypeOK /\ QueueTypeOK

\* No lost wakeup, at any object: as long as a task waits, every token, item
\* and free slot is matched by a task that was woken for it, is able to run,
\* and will try again.
NoLostWakeup == WokenAlive /\ TokensMatched /\ ItemsMatched

-----------------------------------------------------------------------------
(* Liveness, under a scheduler that keeps every ready task running from    *)
(* time to time (TopPriorityRuns in Scheduler, for tasks of one priority). *)

Fairness ==
    \A t \in Task :
        /\ SF_vars(Dispatch(t) /\ UNCHANGED objectVars)
        /\ SF_vars(CallStep(t))
        /\ WF_vars(SwitchOut(t) /\ UNCHANGED objectVars)

FairSpec == Spec /\ Fairness
=============================================================================
