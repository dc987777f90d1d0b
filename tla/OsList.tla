------------------------------- MODULE OsList -------------------------------
(***************************************************************************)
(* The intrusive doubly linked list of kernel/os_list.c, seen as the       *)
(* sequence of the nodes from head to tail.  A node sits at most once in a *)
(* list: the kernel gives every task one state_node and one wait_node.     *)
(***************************************************************************)
EXTENDS Naturals, SequencesExt

\* The nodes linked in list.
Members(list) == {list[i] : i \in DOMAIN list}

\* No node is linked twice.
NoRepeat(list) == \A i, j \in DOMAIN list : list[i] = list[j] => i = j

ListPushBack(list, node) == Append(list, node)

\* A detached node is left alone, so that removing twice is harmless.
ListRemove(list, node) ==
    IF node \in Members(list)
    THEN RemoveAt(list, CHOOSE i \in DOMAIN list : list[i] = node)
    ELSE list

\* A walk from head to tail that removes the nodes of gone.
ListWithout(list, gone) ==
    LET kept[i \in 0 .. Len(list)] ==
            IF i = 0 THEN << >>
            ELSE IF list[i] \in gone THEN kept[i - 1] ELSE Append(kept[i - 1], list[i])
    IN  kept[Len(list)]

\* position is an index of list, or Len(list) + 1 for the code's NULL.
ListInsertBefore(list, position, node) == InsertAt(list, position, node)
=============================================================================
