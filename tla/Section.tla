------------------------------- MODULE Section -------------------------------
(***************************************************************************)
(* The critical section of kernel/os_critical.c, instruction by            *)
(* instruction where it matters: the interrupt mask of a core, the kernel  *)
(* spinlock taken with load-exclusive and store-exclusive, the nesting     *)
(* count, the door of module Tickless, and the handlers that come between. *)
(* The masks are those of arch/arm/common/os_arch_port_common.h and        *)
(* arch/riscv/common/os_arch_port_common.h.                                *)
(***************************************************************************)
EXTENDS Naturals, FiniteSetsExt, SequencesExt

CONSTANTS
    Core, Core0,    \* the cores, and the one that keeps the time
    Masking,        \* "primask", "basepri" or "mie"
    MaxNest         \* bound on nested sections of one context

ASSUME SectionAssumption ==
    /\ Core0 \in Core /\ IsFiniteSet(Core)
    /\ Masking \subseteq {"primask", "basepri", "mie"} /\ MaxNest \in Nat \ {0}

VARIABLES
    masking,
    locked,         \* os_critical_kernel_lock.locked
    reserved,       \* does the core have the lock word reserved?
    masked,         \* is the kernel mask of a core raised?
    nesting, savedMask,     \* os_critical_nesting_count, os_critical_saved_mask
    doorShut,       \* os_tickless_window_open
    contexts        \* what runs on a core: a task, and the handlers on top of it

sectionVars == <<masking, locked, reserved, masked, nesting, savedMask, doorShut, contexts>>

(* A context is at a step; mask is its mask_state, depth the sections it has *)
(* entered, walk: does it take the lock alone, without a section?  prior is  *)
(* history: the mask it had before its first section.                        *)
FreshContext(kind, maskNow) ==
    [kind |-> kind, at |-> "code", mask |-> FALSE, depth |-> 0, walk |-> FALSE,
     prior |-> maskNow]

Top(c) == Last(contexts[c])

SectionInit ==
    /\ masking \in Masking
    /\ locked = FALSE /\ doorShut = FALSE
    /\ reserved = [c \in Core |-> FALSE]
    /\ masked = [c \in Core |-> FALSE]
    /\ nesting = [c \in Core |-> 0] /\ savedMask = [c \in Core |-> FALSE]
    /\ contexts = [c \in Core |-> <<FreshContext("task", FALSE)>>]

SetTop(c, context) == contexts' = [contexts EXCEPT ![c][Len(contexts[c])] = context]
GoTo(c, step) == SetTop(c, [Top(c) EXCEPT !.at = step])

-----------------------------------------------------------------------------
(* Tasks and handlers.                                                     *)

\* The application masks and unmasks interrupts itself, outside any section.
MaskByHand(c) ==
    /\ Top(c).kind = "task" /\ Top(c).at = "code" /\ Top(c).depth = 0
    /\ masked' = [masked EXCEPT ![c] = ~@]
    /\ SetTop(c, [Top(c) EXCEPT !.prior = ~masked[c]])
    /\ UNCHANGED <<masking, locked, reserved, nesting, savedMask, doorShut>>

\* An interrupt; a trap on RISC-V masks what follows. "fast" is one above
\* OS_CONFIG_MAX_SYSCALL_IRQ_PRIORITY, or NMI: BASEPRI does not hold it back.
TakeInterrupt(c, kind) ==
    /\ Len(contexts[c]) = 1 /\ Top(c).at # "trapped"
    /\ IF kind = "fast" THEN masking = "basepri" ELSE ~masked[c]
    /\ masked' = [masked EXCEPT ![c] = @ \/ masking = "mie"]
    /\ reserved' = [reserved EXCEPT ![c] = FALSE]
    /\ contexts' = [contexts EXCEPT ![c] = Append(@, FreshContext(kind, masked'[c]))]
    /\ UNCHANGED <<masking, locked, nesting, savedMask, doorShut>>

ReturnFromInterrupt(c) ==
    /\ Len(contexts[c]) = 2 /\ Top(c).at = "code" /\ Top(c).depth = 0
    /\ contexts' = [contexts EXCEPT ![c] = Front(@)]
    /\ masked' = [masked EXCEPT ![c] = @ /\ masking # "mie"]
    /\ UNCHANGED <<masking, locked, reserved, nesting, savedMask, doorShut>>

\* os_arch_config_fault_trap.
TrapLoop(c) ==
    /\ Top(c).at = "trapped"
    /\ UNCHANGED sectionVars

-----------------------------------------------------------------------------
(* os_critical_enter; with walk, a handler that masks by itself and calls  *)
(* os_critical_multicore_lock.                                             *)

\* os_arch_kernel_mask_save, first half: the old state is read.
ReadMask(c, walk) ==
    /\ Top(c).at = "code" /\ Top(c).depth < MaxNest
    /\ walk => Top(c).kind = "interrupt" /\ Top(c).depth = 0
    /\ SetTop(c, [Top(c) EXCEPT !.at = "masking", !.mask = masked[c], !.walk = walk])
    /\ UNCHANGED <<masking, locked, reserved, masked, nesting, savedMask, doorShut>>

\* os_arch_isr_priority_check.
MayCall(kind) == kind # "fast"

\* Second half; then only the outermost section goes for the lock.
RaiseMask(c) ==
    /\ Top(c).at = "masking"
    /\ masked' = [masked EXCEPT ![c] = TRUE]
    /\ IF ~MayCall(Top(c).kind)
       THEN GoTo(c, "trapped") /\ UNCHANGED nesting
       ELSE IF nesting[c] = 0 \/ Top(c).walk
       THEN GoTo(c, "load") /\ UNCHANGED nesting
       ELSE /\ SetTop(c, [Top(c) EXCEPT !.at = "code", !.depth = @ + 1])
            /\ nesting' = [nesting EXCEPT ![c] = @ + 1]
    /\ UNCHANGED <<masking, locked, reserved, savedMask, doorShut>>

\* os_arch_spinlock_acquire, the inner loop: ldrex, lr.w.
LoadLock(c) ==
    /\ Top(c).at = "load"
    /\ reserved' = [reserved EXCEPT ![c] = TRUE]
    /\ IF locked THEN UNCHANGED contexts ELSE GoTo(c, "store")
    /\ UNCHANGED <<masking, locked, masked, nesting, savedMask, doorShut>>

\* Mutant: an ordinary store.
StoreSucceedsAlways(c) == TRUE

StoreSucceeds(c) == reserved[c]

\* strex, sc.w: no other store to the word has come between.
StoreLock(c) ==
    /\ Top(c).at = "store"
    /\ IF StoreSucceeds(c)
       THEN locked' = TRUE /\ GoTo(c, "door") /\ reserved' = [d \in Core |-> FALSE]
       ELSE GoTo(c, "load") /\ UNCHANGED <<locked, reserved>>
    /\ UNCHANGED <<masking, masked, nesting, savedMask, doorShut>>

\* A plain store, which takes the reservations of the other cores with it.
FreeLock == locked' = FALSE /\ reserved' = [d \in Core |-> FALSE]

\* os_tickless_remote_window_wait: release, and try again.
LeaveDoor(c) ==
    /\ Top(c).at = "door" /\ doorShut /\ c # Core0
    /\ FreeLock
    /\ GoTo(c, "load")
    /\ UNCHANGED <<masking, masked, nesting, savedMask, doorShut>>

PassDoor(c) ==
    /\ Top(c).at = "door" /\ ~(doorShut /\ c # Core0)
    /\ IF Top(c).walk
       THEN GoTo(c, "walking") /\ UNCHANGED <<nesting, savedMask>>
       ELSE /\ SetTop(c, [Top(c) EXCEPT !.at = "code", !.depth = @ + 1])
            /\ savedMask' = [savedMask EXCEPT ![c] = Top(c).mask]
            /\ nesting' = [nesting EXCEPT ![c] = @ + 1]
    /\ UNCHANGED <<masking, locked, reserved, masked, doorShut>>

-----------------------------------------------------------------------------
(* os_critical_exit, os_critical_multicore_unlock.                         *)

\* Core 0 opens and closes its window inside sections.
MoveDoor ==
    /\ Top(Core0).at = "code" /\ Top(Core0).depth > 0
    /\ doorShut' = ~doorShut
    /\ UNCHANGED <<masking, locked, reserved, masked, nesting, savedMask, contexts>>

ExitNested(c) ==
    /\ Top(c).at = "code" /\ Top(c).depth > 0 /\ nesting[c] > 1
    /\ nesting' = [nesting EXCEPT ![c] = @ - 1]
    /\ SetTop(c, [Top(c) EXCEPT !.depth = @ - 1])
    /\ UNCHANGED <<masking, locked, reserved, masked, savedMask, doorShut>>

\* os_arch_spinlock_release.
Unlock(c) ==
    /\ \/ Top(c).at = "code" /\ Top(c).depth > 0 /\ nesting[c] = 1
       \/ Top(c).at = "walking"
    /\ FreeLock
    /\ nesting' = [nesting EXCEPT ![c] = 0]
    /\ SetTop(c, [Top(c) EXCEPT !.at = "unmask", !.depth = 0])
    /\ UNCHANGED <<masking, masked, savedMask, doorShut>>

\* Mutant: interrupts are always enabled.
NothingSaved(c) == FALSE

SavedState(c) == IF Top(c).walk THEN Top(c).mask ELSE savedMask[c]

\* os_arch_kernel_mask_restore.
RestoreMask(c) ==
    /\ Top(c).at = "unmask"
    /\ masked' = [masked EXCEPT ![c] = SavedState(c)]
    /\ SetTop(c, [Top(c) EXCEPT !.at = "code", !.walk = FALSE])
    /\ UNCHANGED <<masking, locked, reserved, nesting, savedMask, doorShut>>

SectionNext ==
    \/ \E c \in Core : MaskByHand(c)
    \/ \E c \in Core, kind \in {"interrupt", "fast"} : TakeInterrupt(c, kind)
    \/ \E c \in Core : ReturnFromInterrupt(c)
    \/ \E c \in Core : TrapLoop(c)
    \/ \E c \in Core, walk \in BOOLEAN : ReadMask(c, walk)
    \/ \E c \in Core : RaiseMask(c)
    \/ \E c \in Core : LoadLock(c)
    \/ \E c \in Core : StoreLock(c)
    \/ \E c \in Core : LeaveDoor(c)
    \/ \E c \in Core : PassDoor(c)
    \/ MoveDoor
    \/ \E c \in Core : ExitNested(c)
    \/ \E c \in Core : Unlock(c)
    \/ \E c \in Core : RestoreMask(c)

SectionSpec == SectionInit /\ [][SectionNext]_sectionVars

-----------------------------------------------------------------------------
(* Properties.                                                             *)

\* The variables keep their types.
SectionTypeOK ==
    /\ {locked, doorShut} \subseteq BOOLEAN
    /\ {reserved, masked, savedMask} \subseteq [Core -> BOOLEAN]
    /\ nesting \in [Core -> 0 .. 2 * MaxNest]
    /\ \A c \in Core : Len(contexts[c]) \in 1 .. 2

Holds(context) == context.depth > 0 \/ context.at \in {"door", "walking"}

\* The kernel lock has one holder, which no interrupt can keep from releasing
\* it: a handler that entered the kernel on that core would spin for ever.
LockExcludes ==
    /\ locked <=> \E c \in Core : \E i \in DOMAIN contexts[c] : Holds(contexts[c][i])
    /\ \A c, d \in Core :
          \A i \in DOMAIN contexts[c], j \in DOMAIN contexts[d] :
              Holds(contexts[c][i]) /\ Holds(contexts[d][j]) => c = d /\ i = j
    /\ \A c \in Core : \A i \in DOMAIN contexts[c] :
          Holds(contexts[c][i]) \/ contexts[c][i].at = "load" => masked[c]

\* A context leaves its sections with the mask it brought: a caller that had
\* masked interrupts itself still has, one that had not has not, and what a
\* handler did in between does not show.
MaskRestored ==
    \A c \in Core : Top(c).at = "code" /\ Top(c).depth = 0 => masked[c] = Top(c).prior

\* What a critical section promises to the code inside and to its caller.
SectionSafe == LockExcludes /\ MaskRestored

-----------------------------------------------------------------------------
(* The inductive invariant.                                                *)

Step == {"code", "masking", "trapped", "load", "store", "door", "walking", "unmask"}
Context == [kind : {"task", "interrupt", "fast"}, at : Step, mask : BOOLEAN,
            depth : Nat, walk : BOOLEAN, prior : BOOLEAN]

SectionTypes ==
    /\ masking \in Masking /\ locked \in BOOLEAN
    /\ reserved \in [Core -> BOOLEAN] /\ masked \in [Core -> BOOLEAN]
    /\ nesting \in [Core -> Nat] /\ savedMask \in [Core -> BOOLEAN]
    /\ contexts \in [Core -> Seq(Context)]
    /\ \A c \in Core : Len(contexts[c]) \in {1, 2}

\* Context x of a core, if the mask of the core is as x left it.
Fits(x, maskNow, saved) ==
    /\ x.at # "trapped"
    /\ x.at \in {"load", "store", "door", "walking", "unmask"} => x.depth = 0 /\ maskNow
    /\ x.depth > 0 => maskNow /\ saved = x.prior /\ ~x.walk
    /\ x.at = "code" => ~x.walk
    /\ x.at \in {"code", "masking"} /\ x.depth = 0 => maskNow = x.prior
    /\ x.at = "masking" /\ x.depth = 0 => x.mask = x.prior
    /\ x.at \in {"load", "store", "door", "walking"} => x.mask = x.prior
    /\ x.at = "walking" => x.walk
    /\ x.at = "unmask" => x.prior = IF x.walk THEN x.mask ELSE saved

\* A handler came where the task could be interrupted.
UnderInterrupt(c) ==
    LET task == contexts[c][1]
        handler == contexts[c][2]
    IN  /\ handler.kind = "interrupt"
        /\ Fits(task, FALSE, savedMask[c])
        /\ Fits(handler, masked[c], savedMask[c])
        /\ handler.prior = (masking = "mie")
        /\ nesting[c] = handler.depth

\* A fast one comes anywhere, and must not enter the kernel.
UnderFast(c) ==
    LET task == contexts[c][1]
        handler == contexts[c][2]
    IN  /\ handler.kind = "fast" /\ masking = "basepri"
        /\ handler.depth = 0 /\ handler.at \in {"code", "masking", "trapped"}
        /\ ~handler.walk
        /\ IF handler.at = "trapped" THEN masked[c]
           ELSE /\ Fits(task, masked[c], savedMask[c])
                /\ nesting[c] = task.depth
                /\ handler.prior = masked[c]

CoreFits(c) ==
    /\ contexts[c][1].kind = "task"
    /\ Len(contexts[c]) = 1 =>
          Fits(contexts[c][1], masked[c], savedMask[c]) /\ nesting[c] = contexts[c][1].depth
    /\ Len(contexts[c]) = 2 => UnderInterrupt(c) \/ UnderFast(c)

Holders == {p \in Core \X {1, 2} :
               p[2] <= Len(contexts[p[1]]) /\ Holds(contexts[p[1]][p[2]])}

\* The exclusive store fails whenever the lock may have been taken since.
LockFits ==
    /\ locked <=> Holders # {}
    /\ \A p, q \in Holders : p = q
    /\ \A c \in Core : \A i \in DOMAIN contexts[c] :
          contexts[c][i].at = "store" /\ reserved[c] => ~locked

SectionIInv == SectionTypes /\ (\A c \in Core : CoreFits(c)) /\ LockFits
=============================================================================
