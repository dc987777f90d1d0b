--------------------------------- MODULE Fifo --------------------------------
(***************************************************************************)
(* What a message queue promises: items come out in the order they went    *)
(* in, each once; a full queue takes no more, or gives up its oldest item. *)
(***************************************************************************)
EXTENDS Naturals, Sequences

CONSTANTS
    Queue, Item,
    Capacity        \* how many items a queue holds

VARIABLES
    items,          \* the items in each queue, oldest first
    copied          \* the item that the last receive of each queue returned

Init ==
    /\ items = [q \in Queue |-> << >>]
    /\ copied \in [Queue -> Item]

Put(q, x) ==
    /\ Len(items[q]) < Capacity
    /\ items' = [items EXCEPT ![q] = Append(@, x)]
    /\ UNCHANGED copied

\* The oldest item makes room.
Displace(q, x) ==
    /\ Len(items[q]) = Capacity
    /\ items' = [items EXCEPT ![q] = Append(Tail(@), x)]
    /\ UNCHANGED copied

Take(q) ==
    /\ items[q] # << >>
    /\ items' = [items EXCEPT ![q] = Tail(@)]
    /\ copied' = [copied EXCEPT ![q] = Head(items[q])]

Clear(q) ==
    /\ items' = [items EXCEPT ![q] = << >>]
    /\ UNCHANGED copied

Next ==
    \E q \in Queue :
        \/ \E x \in Item : Put(q, x) \/ Displace(q, x)
        \/ Take(q)
        \/ Clear(q)

Spec == Init /\ [][Next]_<<items, copied>>
=============================================================================
