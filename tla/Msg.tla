--------------------------------- MODULE Msg ---------------------------------
(***************************************************************************)
(* Message buffers, kernel/os_msg.c: the ring of module MsgRing between    *)
(* two waiter lists, over the waiting machinery of module Waiting.         *)
(***************************************************************************)
EXTENDS Waiting, MsgRing

ASSUME MsgAssumption == MsgId \X {"senders", "receivers"} \subseteq WaitList

Senders(m) == <<m, "senders">>
Receivers(m) == <<m, "receivers">>

VARIABLES
    size            \* the length a task sends, or the room it receives into

msgVars == <<ringVars, size>>

MsgsInit == RingInit /\ size = [t \in Task |-> 1]

-----------------------------------------------------------------------------
(* os_msg_send.                                                            *)

MsgCall(t, s, limit, n) ==
    /\ Call(t, s, limit)
    /\ size' = [size EXCEPT ![t] = n]
    /\ UNCHANGED ringVars

MsgSending(t, m) == Trying(t) /\ target[t] = Senders(m)

MsgSendOk(t, m, x) ==
    /\ MsgSending(t, m)
    /\ Len(x) = size[t] /\ Space(size[t]) <= Free(m)
    /\ Put(m, x)
    /\ FinishWaking(t, Receivers(m))
    /\ UNCHANGED size

\* OS_ERR_INVALID_ARG if it can never fit, OS_ERR_FULL, OS_ERR_TIMEOUT.
MsgSendFail(t, m) ==
    /\ MsgSending(t, m)
    /\ Space(size[t]) > Free(m)
    /\ Space(size[t]) > room[m] \/ GivesUp(t)
    /\ Finish(t)
    /\ UNCHANGED msgVars

MsgSendBlock(t, m) ==
    /\ MsgSending(t, m)
    /\ Space(size[t]) > Free(m) /\ Space(size[t]) <= room[m]
    /\ WaitBegin(t)
    /\ UNCHANGED msgVars

-----------------------------------------------------------------------------
(* os_msg_receive.                                                         *)

MsgReceiving(t, m) == Trying(t) /\ target[t] = Receivers(m)

\* Mutant: a receive makes room for one sender only.
FirstSender(m) == Waking(Senders(m))

\* The senders os_msg_sender_match accepts, once a receive has freed its room.
FittingSenders(m) ==
    {t \in Members(waiters[Senders(m)]) : Space(size[t]) <= room[m] - used'[m]}

\* Mutant: a receive does not pass its wakeup on.
NoNextReceiver(m) == {}

\* The receiver that is woken while messages are left.
NextReceiver(m) == IF messages'[m] > 0 THEN Waking(Receivers(m)) ELSE {}

MsgReceiveOk(t, m) ==
    /\ MsgReceiving(t, m) /\ messages[m] > 0
    /\ LengthAt(m, first[m]) <= size[t]
    /\ Get(m)
    /\ WakeAll(FittingSenders(m) \cup NextReceiver(m), {t})
    /\ Return(t)
    /\ UNCHANGED size

\* OS_ERR_INVALID_ARG: the message stays, for another receiver.
MsgReceiveTooSmall(t, m) ==
    /\ MsgReceiving(t, m) /\ messages[m] > 0
    /\ LengthAt(m, first[m]) > size[t]
    /\ UNCHANGED msgVars
    /\ WakeAll(NextReceiver(m), {t})
    /\ Return(t)

\* OS_ERR_EMPTY, or OS_ERR_TIMEOUT when a wakeup came too late.
MsgReceiveFail(t, m) ==
    /\ MsgReceiving(t, m) /\ messages[m] = 0
    /\ GivesUp(t)
    /\ Finish(t)
    /\ UNCHANGED msgVars

MsgReceiveBlock(t, m) ==
    /\ MsgReceiving(t, m) /\ messages[m] = 0
    /\ WaitBegin(t)
    /\ UNCHANGED msgVars

\* Back from a wait, or out of time.
MsgResume(t, m) ==
    /\ target[t] \in {Senders(m), Receivers(m)}
    /\ Resume(t) \/ TimedOut(t)
    /\ UNCHANGED msgVars

-----------------------------------------------------------------------------
(* Interrupt handlers, which never wait, and configuration.                *)

IsrMsgSend(m, x) ==
    /\ Space(Len(x)) <= Free(m)
    /\ Put(m, x)
    /\ WakeOne(Receivers(m))
    /\ UNCHANGED size

\* With a destination of n bytes.
IsrMsgReceive(m, n) ==
    /\ messages[m] > 0
    /\ IF LengthAt(m, first[m]) <= n
       THEN Get(m) /\ WakeAll(FittingSenders(m) \cup NextReceiver(m), {})
       ELSE UNCHANGED ringVars /\ WakeAll(NextReceiver(m), {})
    /\ UNCHANGED <<callVars, size>>

\* Refused while tasks wait.
MsgUnwaited(m) == waiters[Senders(m)] = << >> /\ waiters[Receivers(m)] = << >>

MsgInitDynamic(m) ==
    /\ MsgUnwaited(m)
    /\ Bind(m)
    /\ UNCHANGED <<waitingVars, size>>

MsgCleanup(m) ==
    /\ MsgUnwaited(m)
    /\ Unbind(m)
    /\ UNCHANGED <<waitingVars, size>>

-----------------------------------------------------------------------------
MsgStep(m) ==
    \/ \E x \in Message : IsrMsgSend(m, x)
    \/ \E n \in Length : IsrMsgReceive(m, n)
    \/ MsgInitDynamic(m) \/ MsgCleanup(m)

\* The steps of t's own send or receive.
MsgCallStep(t) ==
    \E m \in MsgId :
        \/ \E s \in {Senders(m), Receivers(m)}, limit \in Timeout, n \in Length :
              MsgCall(t, s, limit, n)
        \/ \E x \in Message : MsgSendOk(t, m, x)
        \/ MsgSendFail(t, m) \/ MsgSendBlock(t, m)
        \/ MsgReceiveOk(t, m) \/ MsgReceiveTooSmall(t, m)
        \/ MsgReceiveFail(t, m) \/ MsgReceiveBlock(t, m)
        \/ MsgResume(t, m)

-----------------------------------------------------------------------------
(* Properties.                                                             *)

MsgTypeOK == RingTypeOK /\ size \in [Task -> Length]

\* No sender waits although its message fits, whatever the lengths of the
\* messages that left, of the other senders' and of what was sent meanwhile.
NoFittingSender ==
    \A m \in MsgId : \A t \in Members(waiters[Senders(m)]) : Space(size[t]) > Free(m)

\* While a task waits for a message, every message is matched by a receiver
\* that was woken for it, also after a receive that had too little room.
MessagesMatched ==
    \A m \in MsgId :
        waiters[Receivers(m)] # << >> => messages[m] <= Cardinality(Woken(Receivers(m)))
=============================================================================
