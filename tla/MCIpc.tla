-------------------------------- MODULE MCIpc --------------------------------
(* Small instances of Ipc for TLC.                                         *)
EXTENDS Ipc, TLC

CONSTANTS t1, t2, e1, m1, b1, b2

TwoTasks == {t1, t2}
OneEvent == {e1}
OneMsg == {m1}
MsgLists == {m1} \X {"senders", "receivers"}
EventAndMsgLists == {e1} \cup MsgLists
TwoBits == {b1, b2}
Requests ==
    {[bits |-> {b1, b2}, all |-> TRUE, clear |-> FALSE],
     [bits |-> {b1}, all |-> FALSE, clear |-> TRUE]}
OneByte == {7}
ShortAndLong == {1, 4}
Symmetry == Permutations(TwoTasks)

\* The application uses the event and notifications, or messages.
EventsUsed ==
    \/ \E t \in Task : pending[t] \/ waiting[t] \/ pc[t] \in {"ask", "asleep"}
    \/ \E t \in Task : pc[t] # "out" /\ target[t] \in EventId
    \/ \E e \in EventId : flags[e] # {}

MessagesUsed ==
    \/ \E t \in Task : pc[t] \in {"try", "wait", "expired"} /\ target[t] \in MsgLists
    \/ \E m \in MsgId : room[m] > 0

OneKind == ~(EventsUsed /\ MessagesUsed)

\* One task at a time is in a call with a finite timeout.
OneBudget == Cardinality({t \in Task : timeout[t] = "finite"}) <= 1

\* States that differ in what nothing reads any more are one to TLC: the
\* arguments of a finished call, and the ring's bytes outside of the messages.
View ==
    LET inUse == [t \in Task |-> IF pc[t] \in {"out", "ask", "asleep"} THEN NoList ELSE target[t]]
        args == [t \in Task |->
                   IF inUse[t] = NoList THEN << >>
                   ELSE IF inUse[t] \in EventId THEN <<request[t], result[t]>>
                   ELSE <<size[t]>>]
        live == [m \in MsgId |-> [j \in 0 .. MsgCapacity - 1 |->
                   IF (j - first[m]) % MsgCapacity < used[m] THEN bytes[m][j] ELSE 0]]
    IN  <<tcbVars, onCore, waiters, pc, inUse, timeout, spent, args, flags,
          notifyVars, live, first, last, used, messages, room, bufferOwned>>
=============================================================================
