--------------------------------- MODULE Heap ---------------------------------
(***************************************************************************)
(* kernel/os_mem.c: the first-fit allocator.  Its free list is address     *)
(* ordered, threaded through the headers of the free blocks, and ends at a *)
(* marker at the top of the heap.  Each call is one critical section.      *)
(*                                                                         *)
(* A header is kept wherever one was ever written: os_mem_free believes    *)
(* what lies below the pointer it gets.  A holder may write over those     *)
(* inside its memory, with anything but the image of a plausible block.    *)
(***************************************************************************)
EXTENDS Naturals, FiniteSets, FiniteSetsExt

CONSTANTS
    HeapBase, HeapBytes, \* &os_mem_heap[0], OS_CONFIG_HEAP_SIZE
    Align,          \* OS_MEM_ALIGNMENT
    HeaderSize,     \* OS_MEM_HEADER_SIZE
    SizeModulus,    \* a size_t wraps here; its top bit is the flag
    Requests        \* the sizes asked for

ASSUME HeapAssumption ==
    /\ Align \in Nat \ {0} /\ HeaderSize \in Nat \ {0} /\ HeaderSize % Align = 0
    /\ HeapBase \in Nat \ {0} /\ HeapBytes \in Nat /\ HeapBytes >= 4 * HeaderSize + Align
    /\ SizeModulus \in Nat /\ SizeModulus > 2 * HeapBytes
    /\ Requests \subseteq 0 .. SizeModulus - 1

Null == 0
MinBlock == HeaderSize + Align      \* OS_MEM_MIN_BLOCK_SIZE
RoundDown(n) == n - (n % Align)
RoundUp(n) == RoundDown(n + Align - 1)

\* os_mem_init's bounds of the aligned part of the array.
HeapStart == RoundUp(HeapBase)
HeapEnd == RoundDown(HeapBase + HeapBytes - HeaderSize)
HeadBlock == HeapEnd + HeapBytes         \* os_mem_start: a static outside the heap

Aligned == {a \in HeapStart .. HeapEnd : a % Align = 0}
HeaderOf == [next : {Null} \cup Aligned, size : Nat, taken : BOOLEAN]

VARIABLES
    headerAt,       \* the headers in memory, and os_mem_start
    end,            \* os_mem_end
    freeBytes, minFreeBytes,
    granted         \* the blocks that callers own, with the size each asked for

heapCells == <<headerAt, end, freeBytes, minFreeBytes>>
heapVars == <<heapCells, granted>>

HeapInit ==
    /\ headerAt = [a \in Aligned \cup {HeadBlock} |-> [next |-> Null, size |-> 0, taken |-> FALSE]]
    /\ end = Null
    /\ freeBytes = 0 /\ minFreeBytes = 0
    /\ granted = [a \in {} |-> 0]

-----------------------------------------------------------------------------
(* os_mem_init, on the first call that looks at the heap: what the call    *)
(* finds then.                                                             *)

FreshHeap == end = Null
Headers ==
    IF ~FreshHeap THEN headerAt
    ELSE [headerAt EXCEPT ![HeapEnd] = [next |-> Null, size |-> 0, taken |-> FALSE],
                    ![HeapStart].size = HeapEnd - HeapStart,
                    ![HeapStart].next = HeapEnd,
                    ![HeadBlock].next = HeapStart, ![HeadBlock].size = 0]
FreeNow == IF FreshHeap THEN HeapEnd - HeapStart ELSE freeBytes
MinFreeNow == IF FreshHeap THEN HeapEnd - HeapStart ELSE minFreeBytes

\* The list from the head on: no two of its nodes are at one address, so that it
\* has come to the marker by then.
Nodes(hs) ==
    LET at[i \in 0 .. HeapEnd - HeapStart + 1] ==
          IF i = 0 THEN HeadBlock
          ELSE IF at[i - 1] = HeapEnd THEN HeapEnd ELSE hs[at[i - 1]].next
    IN  at

\* The node of the list after which a walk stops that is on its way to places.
StopAfter(hs, places) ==
    LET at == Nodes(hs)
    IN  at[Min({i \in 0 .. HeapEnd - HeapStart : at[i + 1] \in places})]

-----------------------------------------------------------------------------
(* os_mem_alloc                                                            *)

Need(size) == (HeaderSize + RoundDown((size + Align - 1) % SizeModulus)) % SizeModulus
Sensible(size) == size # 0 /\ Need(size) >= size /\ Need(size) < SizeModulus \div 2

\* The leftover is worth a block of its own, in the place of the old one.
Carved(hs, prev, b, need) ==
    IF hs[b].size - need >= MinBlock
    THEN [hs EXCEPT ![b + need].size = hs[b].size - need,
                    ![b + need].next = hs[b].next,
                    ![b + need].taken = FALSE,
                    ![prev].next = b + need,
                    ![b] = [next |-> Null, size |-> need, taken |-> TRUE]]
    ELSE [hs EXCEPT ![prev].next = hs[b].next,
                    ![b].next = Null, ![b].taken = TRUE]

Alloc(size) ==
    IF ~Sensible(size) THEN UNCHANGED heapVars
    ELSE LET need == Need(size)
             fits == {b \in Aligned : b = HeapEnd \/ Headers[b].size >= need}
             prev == StopAfter(Headers, fits)
             b == Headers[prev].next
             hs == Carved(Headers, prev, b, need)
         IN /\ end' = HeapEnd
            /\ IF b = HeapEnd
               THEN headerAt' = Headers /\ freeBytes' = FreeNow /\ minFreeBytes' = MinFreeNow
                    /\ UNCHANGED granted
               ELSE /\ headerAt' = hs
                    /\ freeBytes' = FreeNow - hs[b].size
                    /\ minFreeBytes' = Min({MinFreeNow, FreeNow - hs[b].size})
                    /\ granted' = [a \in DOMAIN granted \cup {b} |->
                                  IF a = b THEN size ELSE granted[a]]

-----------------------------------------------------------------------------
(* os_mem_free                                                             *)

\* Mutant: the header is not checked.
AnyPlausible(b) == TRUE
\* os_mem_block_plausible
Plausible(b) ==
    b % Align = 0 /\ headerAt[b].size >= MinBlock /\ b <= end /\ headerAt[b].size <= end - b

\* The successor is touched, and is not the marker.
Joins(b, size, after) == b + size = after /\ after # end

\* os_mem_block_insert: merged with the blocks it touches on both sides.
BlockInserted(hs, block) ==
    LET iter == StopAfter(hs, {a \in Aligned : a >= block})
        before == iter + hs[iter].size = block
        b == IF before THEN iter ELSE block
        size == IF before THEN hs[iter].size + hs[block].size ELSE hs[block].size
        after == hs[iter].next
        merges == Joins(b, size, after)
    IN [a \in DOMAIN hs |->
          IF a = b THEN [hs[b] EXCEPT !.size = IF merges THEN size + hs[after].size ELSE size,
                                      !.next = IF merges THEN hs[after].next ELSE after]
          ELSE IF a = iter THEN [hs[a] EXCEPT !.next = b] ELSE hs[a]]

\* What is read below a pointer that is not aligned is no header at all, and
\* Plausible refuses the block whatever it is.
FreeBlock(memory) ==
    LET b == memory - HeaderSize IN
    /\ memory >= HeapBase + HeaderSize
    /\ IF end # Null /\ b % Align = 0 /\ headerAt[b].taken /\ headerAt[b].next = Null /\ Plausible(b)
       THEN /\ headerAt' = BlockInserted([headerAt EXCEPT ![b].taken = FALSE], b)
            /\ freeBytes' = freeBytes + headerAt[b].size
            /\ granted' = [a \in DOMAIN granted \ {b} |-> granted[a]]
            /\ UNCHANGED <<end, minFreeBytes>>
       ELSE UNCHANGED heapVars

\* os_mem_free_get and os_mem_watermark_get.
HeapGet ==
    /\ headerAt' = Headers /\ end' = HeapEnd
    /\ freeBytes' = FreeNow /\ minFreeBytes' = MinFreeNow
    /\ UNCHANGED granted

\* A holder writes its memory: what may pass for a taken block there is too
\* small or too large.
Write(a, size) ==
    /\ \E b \in DOMAIN granted : b + HeaderSize <= a /\ a < b + headerAt[b].size
    /\ size < MinBlock \/ size > HeapEnd - a
    /\ headerAt' = [headerAt EXCEPT ![a] = [next |-> Null, size |-> size, taken |-> TRUE]]
    /\ UNCHANGED <<end, freeBytes, minFreeBytes, granted>>

HeapNext ==
    \/ \E size \in Requests : Alloc(size)
    \/ \E memory \in HeapBase .. HeapBase + HeapBytes - 1 : FreeBlock(memory)
    \/ HeapGet
    \/ \E a \in Aligned \ {HeapEnd}, size \in {Align, HeapBytes} : Write(a, size)

HeapSpec == HeapInit /\ [][HeapNext]_heapVars

-----------------------------------------------------------------------------
HeapTypeOK ==
    /\ headerAt \in [Aligned \cup {HeadBlock} -> HeaderOf]
    /\ end \in {Null, HeapEnd}
    /\ freeBytes \in 0 .. HeapBytes /\ minFreeBytes \in 0 .. HeapBytes
    /\ DOMAIN granted \subseteq Aligned

\* The blocks of the free list.
ChainOf(hs) == {Nodes(hs)[i] : i \in 1 .. HeapEnd - HeapStart + 1} \ {HeapEnd}
Chain == ChainOf(headerAt)
Extent(b) == b .. b + headerAt[b].size - 1

Tiled ==
    LET blocks == Chain \cup DOMAIN granted IN
    /\ Chain \cap DOMAIN granted = {}
    /\ UNION {Extent(b) : b \in blocks} = HeapStart .. HeapEnd - 1
    /\ \A b, c \in blocks : b # c => Extent(b) \cap Extent(c) = {}
Merged ==
    \A b \in Chain : /\ ~headerAt[b].taken /\ headerAt[b].next > b
                     /\ b + headerAt[b].size \notin Chain
Granted == \A b \in DOMAIN granted : headerAt[b].taken /\ headerAt[b].size >= HeaderSize + granted[b]
Counted ==
    /\ freeBytes = Cardinality(UNION {Extent(b) : b \in Chain})
    /\ minFreeBytes <= freeBytes

\* Free blocks and blocks in use tile the heap, each block in use holds what
\* its caller asked for, no two free blocks touch, the list is in the order of
\* the addresses, and the free total is that of the list: whatever is
\* allocated and freed, in any order, twice, or at a pointer into a block.
HeapExact == end # Null => Tiled /\ Merged /\ Granted /\ Counted

-----------------------------------------------------------------------------
(* The inductive invariant, of a heap with the headers hs, the free blocks *)
(* C and the blocks in use G.                                              *)

\* m comes next after n in the list.
Follows(C, n, m) ==
    /\ m \in C \cup {HeapEnd} /\ (n # HeadBlock => n < m)
    /\ \A c \in C : n = HeadBlock \/ n < c => m <= c

Threaded(hs, C) == \A n \in C \cup {HeadBlock} : Follows(C, n, hs[n].next)

\* No block that is not in use passes for one.
NoForgery(hs, G) ==
    \A a \in Aligned \ G : hs[a].taken => hs[a].size < MinBlock \/ hs[a].size > HeapEnd - a

Layout(hs, C, G) ==
    /\ hs \in [Aligned \cup {HeadBlock} -> HeaderOf] /\ hs[HeadBlock].size = 0
    /\ C \subseteq Aligned /\ G \subseteq Aligned /\ C \cap G = {}
    /\ \A b \in C \cup G : /\ hs[b].size >= MinBlock /\ hs[b].size % Align = 0
                          /\ b + hs[b].size <= HeapEnd
    /\ \A b, c \in C \cup G : b < c => b + hs[b].size <= c
    /\ \A x \in HeapStart .. HeapEnd - 1 : \E b \in C \cup G : b <= x /\ x < b + hs[b].size
    /\ \A b \in C : ~hs[b].taken
    /\ \A b \in G : hs[b].taken
    /\ Threaded(hs, C) /\ NoForgery(hs, G)

Apart(hs, C) == \A b \in C : b + hs[b].size \notin C
FreeSpan(hs, C) == UNION {b .. b + hs[b].size - 1 : b \in C}

HeapIInv ==
    /\ end \in {Null, HeapEnd}
    /\ end = Null => HeapInit
    /\ Layout(Headers, ChainOf(Headers), DOMAIN granted) /\ Apart(Headers, ChainOf(Headers))
    /\ \A b \in DOMAIN granted : Headers[b].size >= HeaderSize + granted[b]
    /\ FreeNow = Cardinality(FreeSpan(Headers, ChainOf(Headers)))
    /\ MinFreeNow \in Nat /\ MinFreeNow <= FreeNow

=============================================================================
