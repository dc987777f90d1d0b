-------------------------------- MODULE Queue --------------------------------
(***************************************************************************)
(* Message queues, kernel/os_queue.c: a ring of items between two waiter   *)
(* lists, over the waiting machinery of module Waiting.  Module Objects     *)
(* composes them with the other objects.                                   *)
(*                                                                         *)
(* The item of a send is chosen where it is copied into the ring; nothing  *)
(* reads it before.                                                        *)
(***************************************************************************)
EXTENDS Waiting

CONSTANTS
    QueueId,        \* the queues
    Item,           \* what may be sent
    Capacity        \* slots of a queue that has a buffer

ASSUME QueueAssumption ==
    /\ QueueId \X {"send", "receive"} \subseteq WaitList
    /\ Capacity \in Nat \ {0}

SendList(q) == <<q, "send">>
ReceiveList(q) == <<q, "receive">>

VARIABLES
    buffer, head, tail, count,
    capacity,       \* 0 while no buffer is bound
    owned,          \* buffer_owned
    mode,
    copied          \* what the last receive copied to its caller

ringVars == <<buffer, head, tail, count, copied>>
queueVars == <<ringVars, capacity, owned, mode>>

\* A queue defined at compile time, or zeroed storage.
QueuesInit ==
    /\ buffer \in [QueueId -> [0 .. Capacity - 1 -> Item]]
    /\ head = [q \in QueueId |-> 0]
    /\ tail = [q \in QueueId |-> 0]
    /\ count = [q \in QueueId |-> 0]
    /\ capacity \in [QueueId -> {0, Capacity}]
    /\ owned = [q \in QueueId |-> FALSE]
    /\ mode = [q \in QueueId |-> "normal"]
    /\ copied \in [QueueId -> Item]

Full(q) == count[q] >= capacity[q]

-----------------------------------------------------------------------------
(* The ring.                                                               *)

\* Mutant: a cursor goes one past the end.
SuccLate(i) == IF i + 1 > Capacity THEN 0 ELSE i + 1

\* (i + 1) % capacity
Succ(i) == IF i + 1 = Capacity THEN 0 ELSE i + 1

Insert(q, x) ==
    /\ buffer' = [buffer EXCEPT ![q][tail[q]] = x]
    /\ tail' = [tail EXCEPT ![q] = Succ(@)]
    /\ count' = [count EXCEPT ![q] = @ + 1]
    /\ UNCHANGED <<head, copied>>

\* Mutant: the new item displaces the oldest, which is still next to come out.
DisplaceKeepsHead(q, x) ==
    /\ buffer' = [buffer EXCEPT ![q][tail[q]] = x]
    /\ tail' = [tail EXCEPT ![q] = Succ(@)]
    /\ UNCHANGED <<head, count, copied>>

Displace(q, x) ==
    /\ buffer' = [buffer EXCEPT ![q][tail[q]] = x]
    /\ tail' = [tail EXCEPT ![q] = Succ(@)]
    /\ head' = [head EXCEPT ![q] = Succ(@)]
    /\ UNCHANGED <<count, copied>>

Extract(q) ==
    /\ copied' = [copied EXCEPT ![q] = buffer[q][head[q]]]
    /\ head' = [head EXCEPT ![q] = Succ(@)]
    /\ count' = [count EXCEPT ![q] = @ - 1]
    /\ UNCHANGED <<buffer, tail>>

-----------------------------------------------------------------------------
(* os_queue_send.                                                          *)

Sending(t, q) == Trying(t) /\ target[t] = SendList(q)

SendOk(t, q, x) ==
    /\ Sending(t, q) /\ ~Full(q)
    /\ Insert(q, x)
    /\ FinishWaking(t, ReceiveList(q))
    /\ UNCHANGED <<capacity, owned, mode>>

\* Out of patience, in overwrite mode.
SendDisplacing(t, q, x) ==
    /\ Sending(t, q) /\ Full(q)
    /\ mode[q] = "overwrite" /\ capacity[q] # 0
    /\ GivesUp(t)
    /\ Displace(q, x)
    /\ FinishWaking(t, ReceiveList(q))
    /\ UNCHANGED <<capacity, owned, mode>>

\* OS_ERR_FULL or OS_ERR_TIMEOUT.
SendFail(t, q) ==
    /\ Sending(t, q) /\ Full(q)
    /\ mode[q] = "normal" \/ capacity[q] = 0
    /\ GivesUp(t)
    /\ Finish(t)
    /\ UNCHANGED queueVars

SendBlock(t, q) ==
    /\ Sending(t, q) /\ Full(q)
    /\ WaitBegin(t)
    /\ UNCHANGED queueVars

\* A send whose wait ran out decides in one more attempt.
SendLastTry(t, q) ==
    /\ target[t] = SendList(q)
    /\ TryOnce(t)
    /\ UNCHANGED queueVars

-----------------------------------------------------------------------------
(* os_queue_receive.                                                       *)

Receiving(t, q) == Trying(t) /\ target[t] = ReceiveList(q)

\* Mutant: a receive wakes no sender.
ReceiveSilently(t, q) ==
    /\ Receiving(t, q) /\ count[q] > 0
    /\ Extract(q)
    /\ Finish(t)
    /\ UNCHANGED <<capacity, owned, mode>>

ReceiveOk(t, q) ==
    /\ Receiving(t, q) /\ count[q] > 0
    /\ Extract(q)
    /\ FinishWaking(t, SendList(q))
    /\ UNCHANGED <<capacity, owned, mode>>

\* OS_ERR_EMPTY, or OS_ERR_TIMEOUT when a wakeup came too late.
ReceiveFail(t, q) ==
    /\ Receiving(t, q) /\ count[q] = 0
    /\ GivesUp(t)
    /\ Finish(t)
    /\ UNCHANGED queueVars

ReceiveBlock(t, q) ==
    /\ Receiving(t, q) /\ count[q] = 0
    /\ WaitBegin(t)
    /\ UNCHANGED queueVars

\* A receive whose wait ran out.
ReceiveTimedOut(t, q) ==
    /\ target[t] = ReceiveList(q)
    /\ TimedOut(t)
    /\ UNCHANGED queueVars

-----------------------------------------------------------------------------
(* Interrupt handlers, which never wait.                                   *)

IsrSend(q, x) ==
    /\ \/ ~Full(q) /\ Insert(q, x)
       \/ Full(q) /\ mode[q] = "overwrite" /\ capacity[q] # 0 /\ Displace(q, x)
    /\ WakeOne(ReceiveList(q))
    /\ UNCHANGED <<capacity, owned, mode>>

IsrReceive(q) ==
    /\ count[q] > 0
    /\ Extract(q)
    /\ WakeOne(SendList(q))
    /\ UNCHANGED <<capacity, owned, mode>>

-----------------------------------------------------------------------------
(* Configuration.                                                          *)

ModeSet(q, m) ==
    /\ mode' = [mode EXCEPT ![q] = m]
    /\ UNCHANGED <<waitingVars, ringVars, capacity, owned>>

\* Refused while tasks wait.
Unwaited(q) == waiters[SendList(q)] = << >> /\ waiters[ReceiveList(q)] = << >>

Emptied(q) ==
    /\ head' = [head EXCEPT ![q] = 0]
    /\ tail' = [tail EXCEPT ![q] = 0]
    /\ count' = [count EXCEPT ![q] = 0]
    /\ UNCHANGED <<buffer, copied, mode, waitingVars>>

\* os_queue_init_dynamic, on zeroed storage; its allocation may fail before.
InitDynamic(q) ==
    /\ capacity[q] = 0
    /\ Unwaited(q)
    /\ Emptied(q)
    /\ capacity' = [capacity EXCEPT ![q] = Capacity]
    /\ owned' = [owned EXCEPT ![q] = TRUE]

Cleanup(q) ==
    /\ Unwaited(q)
    /\ Emptied(q)
    /\ capacity' = [capacity EXCEPT ![q] = IF owned[q] THEN 0 ELSE @]
    /\ owned' = [owned EXCEPT ![q] = FALSE]

-----------------------------------------------------------------------------
QueueStep(q) ==
    \/ \E x \in Item : IsrSend(q, x)
    \/ IsrReceive(q)
    \/ \E m \in {"normal", "overwrite"} : ModeSet(q, m)
    \/ InitDynamic(q)
    \/ Cleanup(q)

\* The steps of t's own send or receive.
SendReceiveStep(t) ==
    \E q \in QueueId :
        \/ \E x \in Item : SendOk(t, q, x) \/ SendDisplacing(t, q, x)
        \/ SendFail(t, q) \/ SendBlock(t, q) \/ SendLastTry(t, q)
        \/ ReceiveOk(t, q) \/ ReceiveFail(t, q) \/ ReceiveBlock(t, q)
        \/ ReceiveTimedOut(t, q)

-----------------------------------------------------------------------------
(* Properties.                                                             *)

\* No queue holds more than it has room for.
QueueTypeOK ==
    /\ buffer \in [QueueId -> [0 .. Capacity - 1 -> Item]]
    /\ head \in [QueueId -> 0 .. Capacity - 1]
    /\ tail \in [QueueId -> 0 .. Capacity - 1]
    /\ capacity \in [QueueId -> {0, Capacity}]
    /\ count \in [QueueId -> 0 .. Capacity]
    /\ \A q \in QueueId : count[q] <= capacity[q]
    /\ owned \in [QueueId -> BOOLEAN]
    /\ mode \in [QueueId -> {"normal", "overwrite"}]
    /\ copied \in [QueueId -> Item]

\* While a task waits for an item, every item is matched by a receiver that
\* was woken for it; while a task waits for room, so is every free slot by a
\* sender.
ItemsMatched ==
    \A q \in QueueId :
        /\ waiters[ReceiveList(q)] # << >>
              => count[q] <= Cardinality(Woken(ReceiveList(q)))
        /\ waiters[SendList(q)] # << >>
              => capacity[q] - count[q] <= Cardinality(Woken(SendList(q)))

\* The items of a queue, oldest first.
SlotOf(q, i) ==
    IF head[q] + i - 1 < Capacity THEN head[q] + i - 1 ELSE head[q] + i - 1 - Capacity

Items == [q \in QueueId |-> [i \in 1 .. count[q] |-> buffer[q][SlotOf(q, i)]]]

\* The ring is a queue, first in first out, whoever sends and receives, from
\* tasks and interrupt handlers, and across cleanup and overwriting.
Promise == INSTANCE Fifo WITH Queue <- QueueId, items <- Items

ImplementsFifo == Promise!Spec

\* An item does not stay beside a waiting receiver, nor a free slot beside a
\* waiting sender.
ItemsDelivered ==
    \A q \in QueueId :
        /\ (count[q] > 0 /\ waiters[ReceiveList(q)] # << >>)
              ~> (count[q] = 0 \/ waiters[ReceiveList(q)] = << >>)
        /\ (~Full(q) /\ waiters[SendList(q)] # << >>)
              ~> (Full(q) \/ waiters[SendList(q)] = << >>)
=============================================================================
