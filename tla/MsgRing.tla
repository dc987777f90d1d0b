------------------------------- MODULE MsgRing -------------------------------
(***************************************************************************)
(* The ring of bytes inside a message buffer, kernel/os_msg.c: messages of *)
(* any length, each behind a two-byte length header, headers and payloads  *)
(* wrapping around the end wherever it falls.  Module Msg adds the tasks   *)
(* that wait; here the ring alone is shown to be a queue of messages.      *)
(*                                                                         *)
(* A message is as many copies of one byte as it is long: enough to tell   *)
(* its bytes from those of the messages around it.                         *)
(***************************************************************************)
EXTENDS Integers, Sequences

CONSTANTS
    MsgId,          \* the message buffers
    Byte,           \* the bytes that messages are made of
    Length,         \* the lengths they have, up to OS_MSG_LENGTH_MAX
    MsgCapacity     \* bytes of a ring that has storage

ASSUME MsgRingAssumption ==
    /\ Length \subseteq 1 .. 256 * 256 - 1 /\ 1 \in Length
    /\ MsgCapacity \in Nat /\ MsgCapacity > 2
    /\ Byte # {}

VARIABLES
    bytes,          \* msg->buffer
    first, last,    \* msg->head and msg->tail
    used, messages, \* msg->used and msg->count
    room,           \* msg->capacity, 0 while no storage is bound
    bufferOwned,    \* msg->buffer_owned
    taken           \* the message that the last receive copied out

byteVars == <<bytes, first, last, used, messages, taken>>
ringVars == <<byteVars, room, bufferOwned>>

Message == UNION {[1 .. n -> {x}] : n \in Length, x \in Byte}

\* OS_MSG_SPACE
Space(n) == n + 2

\* A buffer defined at compile time, or zeroed storage.
RingInit ==
    /\ bytes = [m \in MsgId |-> [i \in 0 .. MsgCapacity - 1 |-> 0]]
    /\ first = [m \in MsgId |-> 0]
    /\ last = [m \in MsgId |-> 0]
    /\ used = [m \in MsgId |-> 0]
    /\ messages = [m \in MsgId |-> 0]
    /\ room \in [MsgId -> {0, MsgCapacity}]
    /\ bufferOwned = [m \in MsgId |-> FALSE]
    /\ taken = [m \in MsgId |-> CHOOSE x \in Message : Len(x) = 1]

Free(m) == room[m] - used[m]

\* Mutant: the offset that is the end itself is not wrapped.
AdvancedLate(i, n) == IF i + n > MsgCapacity THEN i + n - MsgCapacity ELSE i + n

\* Where n bytes from offset i on end.
Advanced(i, n) == (i + n) % MsgCapacity

-----------------------------------------------------------------------------
\* The ring after os_msg_ring_write of s, at offset last.
Written(m, s) ==
    [j \in 0 .. MsgCapacity - 1 |->
        LET i == (j - last[m]) % MsgCapacity
        IN  IF i < Len(s) THEN s[i + 1] ELSE bytes[m][j]]

\* The n bytes from offset i on, as os_msg_ring_read copies them.
ReadAt(m, i, n) == [k \in 1 .. n |-> bytes[m][(i + k - 1) % MsgCapacity]]

\* os_msg_length_write: two bytes, least significant first.
Header(n) == <<n % 256, n \div 256>>

\* os_msg_length_peek for a header at offset i.
LengthAt(m, i) == LET h == ReadAt(m, i, 2) IN h[1] + 256 * h[2]

\* Mutant: the payload starts at the header.
PutOverHeader(m, x) ==
    /\ bytes' = [bytes EXCEPT ![m] = Written(m, <<Len(x)>> \o x)]
    /\ last' = [last EXCEPT ![m] = Advanced(@, Space(Len(x)))]
    /\ used' = [used EXCEPT ![m] = @ + Space(Len(x))]
    /\ messages' = [messages EXCEPT ![m] = @ + 1]
    /\ UNCHANGED <<first, taken, room, bufferOwned>>

Put(m, x) ==
    /\ bytes' = [bytes EXCEPT ![m] = Written(m, Header(Len(x)) \o x)]
    /\ last' = [last EXCEPT ![m] = Advanced(@, Space(Len(x)))]
    /\ used' = [used EXCEPT ![m] = @ + Space(Len(x))]
    /\ messages' = [messages EXCEPT ![m] = @ + 1]
    /\ UNCHANGED <<first, taken, room, bufferOwned>>

Get(m) ==
    LET n == LengthAt(m, first[m])
    IN  /\ taken' = [taken EXCEPT ![m] = ReadAt(m, first[m] + 2, n)]
        /\ first' = [first EXCEPT ![m] = Advanced(@, Space(n))]
        /\ used' = [used EXCEPT ![m] = @ - Space(n)]
        /\ messages' = [messages EXCEPT ![m] = @ - 1]
        /\ UNCHANGED <<bytes, last, room, bufferOwned>>

-----------------------------------------------------------------------------
(* Configuration.                                                          *)

Emptied(m) ==
    /\ first' = [first EXCEPT ![m] = 0]
    /\ last' = [last EXCEPT ![m] = 0]
    /\ used' = [used EXCEPT ![m] = 0]
    /\ messages' = [messages EXCEPT ![m] = 0]
    /\ UNCHANGED <<bytes, taken>>

\* os_msg_init_dynamic, on zeroed storage; its allocation may fail before.
Bind(m) ==
    /\ room[m] = 0
    /\ Emptied(m)
    /\ room' = [room EXCEPT ![m] = MsgCapacity]
    /\ bufferOwned' = [bufferOwned EXCEPT ![m] = TRUE]

\* os_msg_cleanup
Unbind(m) ==
    /\ Emptied(m)
    /\ room' = [room EXCEPT ![m] = IF bufferOwned[m] THEN 0 ELSE @]
    /\ bufferOwned' = [bufferOwned EXCEPT ![m] = FALSE]

-----------------------------------------------------------------------------
(* The ring alone: a send that fits, a receive that has room for what it   *)
(* takes, and configuration.                                               *)

RingNext ==
    \E m \in MsgId :
        \/ \E x \in Message : Space(Len(x)) <= Free(m) /\ Put(m, x)
        \/ messages[m] > 0 /\ Get(m)
        \/ Bind(m)
        \/ Unbind(m)

RingSpec == RingInit /\ [][RingNext]_ringVars

-----------------------------------------------------------------------------
(* Properties.                                                             *)

RingTypeOK ==
    /\ bytes \in [MsgId -> [0 .. MsgCapacity - 1 -> Byte \cup 0 .. 255]]
    /\ first \in [MsgId -> 0 .. MsgCapacity - 1]
    /\ last \in [MsgId -> 0 .. MsgCapacity - 1]
    /\ room \in [MsgId -> {0, MsgCapacity}]
    /\ used \in [MsgId -> 0 .. MsgCapacity]
    /\ messages \in [MsgId -> Nat]
    /\ bufferOwned \in [MsgId -> BOOLEAN]
    /\ taken \in [MsgId -> Message]

\* The messages in a ring, oldest first, as their headers delimit them.
Messages ==
    [m \in MsgId |->
        LET start[k \in 0 .. messages[m]] ==
                IF k = 0 THEN first[m]
                ELSE Advanced(start[k - 1], Space(LengthAt(m, start[k - 1])))
        IN  [k \in 1 .. messages[m] |->
                ReadAt(m, start[k - 1] + 2, LengthAt(m, start[k - 1]))]]

\* Messages come out whole and in order, wherever their headers and their
\* bytes wrap around the end of the ring, whoever sends and receives.
Whole ==
    INSTANCE Fifo WITH Queue <- MsgId, Item <- Message,
        Capacity <- MsgCapacity \div Space(1), items <- Messages, copied <- taken

\* Whole!Spec, looked at only where a step changes the ring: where none does,
\* neither the messages nor what was taken change.
ImplementsWhole ==
    Whole!Init /\ [][ringVars' # ringVars => [Whole!Next]_<<Messages, taken>>]_ringVars
=============================================================================
