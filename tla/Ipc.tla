--------------------------------- MODULE Ipc ---------------------------------
(***************************************************************************)
(* Event flags, task notifications and message buffers together: tasks and *)
(* interrupt handlers use any of them, in any order.                       *)
(***************************************************************************)
EXTENDS Event, Notify, Msg

ASSUME IpcAssumption ==
    LET MsgList == MsgId \X {"senders", "receivers"}
    IN  WaitList = EventId \cup MsgList /\ EventId \cap MsgList = {}

vars == <<waitingVars, eventVars, notifyVars, msgVars>>

Init == WaitingInit /\ EventsInit /\ NotifyInit /\ MsgsInit

\* What os_task_tcb_clear resets in a deleted task.
Forgets(t) == EventForgets(t) /\ NotifyForgets(t) /\ UNCHANGED msgVars

\* What interrupt handlers, and tasks that need not wait, do to an object.
ObjectStep ==
    \/ \E e \in EventId : EventStep(e) /\ UNCHANGED <<notifyVars, msgVars>>
    \/ \E t \in Task : NotifyGive(t) /\ UNCHANGED <<eventVars, msgVars>>
    \/ \E m \in MsgId : MsgStep(m) /\ UNCHANGED <<eventVars, notifyVars>>

\* The steps of t's own blocking call.
CallStep(t) ==
    \/ EventWaitStep(t) /\ UNCHANGED <<notifyVars, msgVars>>
    \/ NotifyWaitStep(t) /\ UNCHANGED <<eventVars, msgVars>>
    \/ MsgCallStep(t) /\ UNCHANGED <<eventVars, notifyVars>>

Next ==
    \/ ObjectStep
    \/ \E t \in Task : CallStep(t) \/ (ControlStep(t) /\ Forgets(t))

Spec == Init /\ [][Next]_vars

-----------------------------------------------------------------------------
\* The variables keep their types; no ring holds more bytes than it has.
TypeOK == WaitingTypeOK /\ EventTypeOK /\ NotifyTypeOK /\ MsgTypeOK

\* No lost wakeup, at any object.
NoLostWakeup ==
    /\ WokenAlive
    /\ NoSatisfiedWaiter
    /\ MailboxExact
    /\ NoFittingSender /\ MessagesMatched
=============================================================================
