------------------------------- MODULE Atomics -------------------------------
(***************************************************************************)
(* kernel/os_atomic.c with arch/arm/common/os_arch_atomic.c and            *)
(* arch/riscv/common/os_arch_atomic.c: tasks on several cores that update  *)
(* one word.  A word is the set of its bits that are one.                  *)
(*                                                                         *)
(* A core either reserves the word, computes and stores, from the start if *)
(* the reservation is gone; or has an instruction that does it in one; or  *)
(* the port enters a critical section (module Section).                    *)
(***************************************************************************)
EXTENDS Naturals, FiniteSetsExt

CONSTANTS
    Updater, Host,  \* the tasks, the cores
    Width,          \* OS_ATOMIC_BITS
    Args,           \* the arguments of the calls
    Ways            \* "exclusive" (Arm), "amo" (RISC-V), "section": a port has one

ASSUME AtomicsAssumption ==
    /\ IsFiniteSet(Updater) /\ Width \in Nat \ {0}
    /\ Ways \subseteq {"exclusive", "amo", "section"} /\ Args \subseteq SUBSET (0 .. Width - 1)

Bit == 0 .. Width - 1
Word == SUBSET Bit

VARIABLES
    way,
    hostOf,         \* the core of each task
    word,
    monitor,        \* does the core hold a reservation of the word?
    onHost,         \* the task that runs on a core
    operation       \* of each task: the call it is in

atomicVars == <<way, hostOf, word, monitor, onHost, operation>>

Uncalled == [at |-> "idle", op |-> "get", arg |-> {}, expected |-> {}, seen |-> {}, ok |-> TRUE]

AtomicInit ==
    /\ way \in Ways
    /\ word = {}
    /\ monitor = [h \in Host |-> FALSE]
    /\ hostOf \in [Updater -> Host]
    /\ onHost \in [Host -> Updater]
    /\ \A h \in Host : (\E t \in Updater : hostOf[t] = h) => hostOf[onHost[h]] = h
    /\ operation = [t \in Updater |-> Uncalled]

-----------------------------------------------------------------------------
(* What the operations compute, in two's complement of Width bits.         *)

Number(w) == MapThenSumSet(LAMBDA b : 2 ^ b, w)
WordOf(n) == {b \in Bit : (n \div 2 ^ b) % 2 = 1}

\* os_atomic_add, os_atomic_sub, os_atomic_inc, os_atomic_dec.
Sum(v, arg) == WordOf((Number(v) + Number(arg)) % 2 ^ Width)
Difference(v, arg) == WordOf((Number(v) + 2 ^ Width - Number(arg)) % 2 ^ Width)

\* os_atomic_or, os_atomic_and, os_atomic_xor, os_atomic_nand; os_atomic_set_bit
\* and the like are the first two, with one bit, or all but one.
Bitwise(op, v, arg) ==
    CASE op = "or"   -> v \cup arg
      [] op = "and"  -> v \cap arg
      [] op = "xor"  -> (v \cup arg) \ (v \cap arg)
      [] op = "nand" -> Bit \ (v \cap arg)

\* os_atomic_set, os_atomic_clear, os_atomic_cas store their argument.
Updated(op, v, arg) ==
    CASE op \in {"exchange", "cas"} -> arg
      [] op = "add" -> Sum(v, arg)
      [] op = "sub" -> Difference(v, arg)
      [] OTHER -> Bitwise(op, v, arg)

\* os_atomic_set and os_atomic_clear exchange; os_atomic_get only reads.
Op == {"exchange", "cas", "add", "sub", "or", "and", "xor", "nand"}

-----------------------------------------------------------------------------
Runs(t) == onHost[hostOf[t]] = t

SetCall(t, step, loaded) == operation' = [operation EXCEPT ![t].at = step, ![t].seen = loaded]

\* The call returns what it has seen, or whether it has swapped.
Finish(t, loaded, ok) ==
    operation' = [operation EXCEPT ![t] = [Uncalled EXCEPT !.seen = loaded, !.ok = ok]]

CallAtomic(t, op, arg, expected) ==
    /\ Runs(t) /\ operation[t].at = "idle"
    /\ op # "cas" => expected = arg     \* not looked at
    /\ operation' = [operation EXCEPT ![t] = [at |-> "load", op |-> op, arg |-> arg,
                                    expected |-> expected, seen |-> {}, ok |-> TRUE]]
    /\ UNCHANGED <<way, hostOf, word, monitor, onHost>>

\* One instruction of RISC-V, which has none for nand and cas.
InOne(t) ==
    /\ Runs(t) /\ operation[t].at = "load"
    /\ way = "amo" /\ operation[t].op \notin {"nand", "cas"}
    /\ word' = Updated(operation[t].op, word, operation[t].arg)
    /\ Finish(t, word, TRUE)
    /\ monitor' = [h \in Host |-> FALSE]
    /\ UNCHANGED <<way, hostOf, onHost>>

\* A core without exclusives enters a critical section, loads, stores, leaves.
InSection(t) ==
    /\ Runs(t) /\ operation[t].at = "load" /\ way = "section"
    /\ LET match == operation[t].op = "cas" => word = operation[t].expected
       IN  /\ word' = IF match THEN Updated(operation[t].op, word, operation[t].arg) ELSE word
           /\ Finish(t, word, match)
    /\ UNCHANGED <<way, hostOf, monitor, onHost>>

\* ldrex, lr.w; a compare-and-swap that sees another value is over.
LoadExclusive(t) ==
    /\ Runs(t) /\ operation[t].at = "load"
    /\ way = "exclusive" \/ (way = "amo" /\ operation[t].op \in {"nand", "cas"})
    /\ LET match == operation[t].op = "cas" => word = operation[t].expected
       IN  /\ IF match THEN SetCall(t, "store", word) ELSE Finish(t, word, FALSE)
           /\ monitor' = [monitor EXCEPT ![hostOf[t]] = match \/ way = "amo"]
    /\ UNCHANGED <<way, hostOf, word, onHost>>

\* strex, sc.w: the value computed from what was loaded.
StoreExclusive(t) ==
    /\ Runs(t) /\ operation[t].at = "store" /\ monitor[hostOf[t]]
    /\ word' = Updated(operation[t].op, operation[t].seen, operation[t].arg)
    /\ monitor' = [h \in Host |-> FALSE]
    /\ Finish(t, operation[t].seen, TRUE)
    /\ UNCHANGED <<way, hostOf, onHost>>

\* Mutant: the caller is told that the value was another.
GiveUpOnce(t) ==
    IF operation[t].op = "cas" THEN Finish(t, operation[t].seen, FALSE) ELSE SetCall(t, "load", {})

TryAgain(t) == SetCall(t, "load", {})

\* The reservation is gone, for whatever reason.
StoreFails(t) ==
    /\ Runs(t) /\ operation[t].at = "store"
    /\ monitor' = [monitor EXCEPT ![hostOf[t]] = FALSE]
    /\ TryAgain(t)
    /\ UNCHANGED <<way, hostOf, word, onHost>>

\* Mutant: the next task inherits the reservation.
Inherited(h) == monitor[h]

\* clrex in os_arch_context_restore_asm. The RISC-V port has nothing like it:
\* there it is the trap that has to do this.
AfterSwitch(h) == FALSE

\* The kernel switches to another task.
SwitchTo(t) ==
    /\ ~Runs(t)
    /\ onHost' = [onHost EXCEPT ![hostOf[t]] = t]
    /\ monitor' = [monitor EXCEPT ![hostOf[t]] = AfterSwitch(hostOf[t])]
    /\ UNCHANGED <<way, hostOf, word, operation>>

AtomicNext ==
    \/ \E t \in Updater, op \in Op, arg, expected \in Args : CallAtomic(t, op, arg, expected)
    \/ \E t \in Updater : InOne(t)
    \/ \E t \in Updater : InSection(t)
    \/ \E t \in Updater : LoadExclusive(t)
    \/ \E t \in Updater : StoreExclusive(t)
    \/ \E t \in Updater : StoreFails(t)
    \/ \E t \in Updater : SwitchTo(t)

AtomicSpec == AtomicInit /\ [][AtomicNext]_atomicVars

-----------------------------------------------------------------------------
(* Properties.                                                             *)

\* The variables keep their types.
AtomicTypeOK ==
    /\ word \in Word /\ monitor \in [Host -> BOOLEAN] /\ onHost \in [Host -> Updater]
    /\ \A t \in Updater : operation[t].at \in {"idle", "load", "store"}

Completes(t) == operation[t].at # "idle" /\ operation'[t].at = "idle"

\* An update is one step for every other task and core: what it stores is
\* computed from the value that is there, and that value is what it returns.
\* Nobody's update is lost.
Indivisible ==
    [][word' # word =>
          \E t \in Updater :
              /\ Completes(t) /\ operation'[t].ok
              /\ word' = Updated(operation[t].op, word, operation[t].arg)
              /\ operation'[t].seen = word]_atomicVars

\* A compare-and-swap says it has not swapped only if the value was another: a
\* store that fails because an interrupt took the reservation is tried again.
RefusesForCause ==
    [][\A t \in Updater :
          Completes(t) /\ ~operation'[t].ok => word # operation[t].expected]_atomicVars

\* Every call is one step, and fails only for a reason its caller can see.
AtomicsSafe == Indivisible /\ RefusesForCause
=============================================================================
