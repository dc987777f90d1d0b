-------------------------------- MODULE Stack --------------------------------
(***************************************************************************)
(* The stack of a task in kernel/os_task.c, as os_task_stack_watermark_get *)
(* reads it: os_task_create_any paints it, the task uses it, and another   *)
(* task counts what is still painted, outside of any critical section,     *)
(* while its owner may be running, deleted and created again.              *)
(*                                                                         *)
(* A cell is a word.  A task that happens to write the paint itself is     *)
(* left out, as is one that runs out of its stack.                         *)
(***************************************************************************)
EXTENDS Naturals, FiniteSetsExt

CONSTANT Depth      \* stack_bytes, in words

ASSUME StackAssumption == Depth \in Nat \ {0, 1}

Cell == 0 .. Depth - 1

VARIABLES
    cells,          \* the stack, from its lowest address: is it painted?
    live,           \* does the handle name a live task?
    creating,       \* "no", "fill", "frame" or "claim"
    filled,         \* the cells os_task_stack_fill has written
    deepest,        \* history: the lowest cell this task has written
    watermark       \* the call of os_task_stack_watermark_get

stackVars == <<cells, live, creating, filled, deepest, watermark>>

NotAsked == [at |-> "no", index |-> 0, from |-> 0, same |-> TRUE]

\* The memory of OS_TASK_DEFINE.
StackInit ==
    /\ cells = [i \in Cell |-> FALSE]
    /\ live = FALSE /\ creating = "no" /\ filled = 0
    /\ deepest = Depth
    /\ watermark = NotAsked

-----------------------------------------------------------------------------
(* os_task_create_any and os_task_delete; one creator, as it asks for.     *)

\* A live handle is refused.
CreateStack ==
    /\ creating = "no" /\ ~live
    /\ creating' = "fill" /\ filled' = 0
    /\ UNCHANGED <<cells, live, deepest, watermark>>

\* os_task_stack_fill, a word at a time.
Fill ==
    /\ creating = "fill"
    /\ IF filled < Depth
       THEN /\ cells' = [cells EXCEPT ![filled] = TRUE]
            /\ filled' = filled + 1
            /\ UNCHANGED creating
       ELSE /\ creating' = "frame" /\ filled' = 0
            /\ UNCHANGED cells
    /\ UNCHANGED <<live, deepest, watermark>>

\* Mutant: a guard word of another colour.
OddGuard == FALSE

\* OS_TASK_STACK_CANARY is four times OS_TASK_STACK_FILL_BYTE.
GuardPainted == TRUE

\* os_task_stack_guard_set, and the first frame at the other end.
LayFrame ==
    /\ creating = "frame"
    /\ cells' = [cells EXCEPT ![0] = GuardPainted, ![Depth - 1] = FALSE]
    /\ creating' = "claim"
    /\ UNCHANGED <<live, filled, deepest, watermark>>

\* The critical section that takes a slot and gives the handle its id.
Claim ==
    /\ creating = "claim"
    /\ live' = TRUE /\ creating' = "no"
    /\ deepest' = Depth - 1
    /\ UNCHANGED <<cells, filled, watermark>>

\* The task calls, or is interrupted: it writes further down, above the guard.
Descend(i) ==
    /\ live /\ i \in 1 .. deepest - 1
    /\ cells' = [cells EXCEPT ![i] = FALSE]
    /\ deepest' = i
    /\ UNCHANGED <<live, creating, filled, watermark>>

DeleteStack ==
    /\ live
    /\ live' = FALSE /\ deepest' = Depth
    /\ watermark' = [watermark EXCEPT !.same = FALSE]
    /\ UNCHANGED <<cells, creating, filled>>

-----------------------------------------------------------------------------
(* os_task_stack_watermark_get.                                            *)

Ask ==
    /\ watermark.at = "no" /\ live
    /\ watermark' = [at |-> "scan", index |-> 0, from |-> deepest, same |-> TRUE]
    /\ UNCHANGED <<cells, live, creating, filled, deepest>>

Scan ==
    /\ watermark.at = "scan"
    /\ watermark' = IF watermark.index < Depth /\ cells[watermark.index]
                    THEN [watermark EXCEPT !.index = @ + 1]
                    ELSE [watermark EXCEPT !.at = "recheck"]
    /\ UNCHANGED <<cells, live, creating, filled, deepest>>

\* The handle is looked up again: the base and the size of a live task are
\* those of its handle.
StillThere == live

Recheck ==
    /\ watermark.at = "recheck"
    /\ watermark' = IF StillThere THEN [watermark EXCEPT !.at = "published"] ELSE NotAsked
    /\ UNCHANGED <<cells, live, creating, filled, deepest>>

Publish ==
    /\ watermark.at = "published"
    /\ watermark' = NotAsked
    /\ UNCHANGED <<cells, live, creating, filled, deepest>>

StackNext ==
    \/ CreateStack \/ Fill \/ LayFrame \/ Claim \/ DeleteStack
    \/ \E i \in Cell : Descend(i)
    \/ Ask \/ Scan \/ Recheck \/ Publish

StackSpec == StackInit /\ [][StackNext]_stackVars

-----------------------------------------------------------------------------
(* Properties.                                                             *)

\* The variables keep their types.
StackTypeOK ==
    /\ cells \in [Cell -> BOOLEAN] /\ {live, watermark.same} \subseteq BOOLEAN
    /\ creating \in {"no", "fill", "frame", "claim"}
    /\ {filled, deepest, watermark.index, watermark.from} \subseteq 0 .. Depth
    /\ watermark.at \in {"no", "scan", "recheck", "published"}

\* What os_task_stack_watermark_get reports of a task that lived on through the
\* call lies between what the task had left when it began and what it has left
\* at the end, though the task went on using its stack under the scan, and
\* though another task had used the same memory before.
WatermarkHonest ==
    /\ watermark.at = "published" /\ watermark.same =>
           deepest <= watermark.index /\ watermark.index <= watermark.from
    /\ live => \A i \in Cell : i < deepest => cells[i]

\* The comment in the function says that the result "is only published if the
\* id still names the same live task". It does not hold: the handle, created
\* again on the same memory meanwhile, passes the second look.
WatermarkOfOneTask ==
    [][watermark.at = "recheck" /\ watermark'.at = "published" => watermark.same]_stackVars
=============================================================================
