------------------------------- MODULE Tickless -------------------------------
(***************************************************************************)
(* Tickless idle: kernel/os_tick.c with arch/common/os_arch_tickless.c.    *)
(* Core 0 plans how long nobody needs the tick, silences it, sleeps, and   *)
(* announces what has really elapsed.  While its window is open the count  *)
(* is behind the time, so other cores wait at the door of the kernel.      *)
(*                                                                         *)
(* An action is a critical section of one of the cores.  Of the lists of   *)
(* module DelayList and module Timer only the distances of their deadlines *)
(* from the tick count are left.  A wake source that opens late or runs    *)
(* over is left out: a window lasts at most as long as it was armed for.   *)
(***************************************************************************)
EXTENDS Naturals, FiniteSetsExt

CONSTANTS
    MaxDistance,    \* bound on a deadline
    Ceilings,       \* what os_arch_max_suppressed_ticks_get may answer
    Floor,          \* the higher of the two floors of a window
    MaxIdle,        \* OS_TICKLESS_MAX_IDLE_TICKS
    CountModulus    \* the tick count and the generation wrap, 2^32 in the code

ASSUME TicklessAssumption ==
    /\ MaxDistance \in Nat \ {0} /\ Ceilings \subseteq Nat
    /\ Floor \in Nat \ {0} /\ MaxIdle \in Nat \ {0}
    /\ CountModulus \in Nat /\ CountModulus > MaxIdle

Distance == 1 .. MaxDistance
Source == {"timer", "task"}     \* the two lists of deadlines

VARIABLES
    ceiling,
    count,          \* os_tick_count
    behind,         \* ticks that have passed and are not counted
    deadlines,      \* distances from count, by source
    windowOpen,     \* os_tickless_window_open
    planGeneration, lastPlanTick, lastPlanGeneration,   \* os_tickless_*
    core0,          \* where core 0 is: "run" or in os_tickless_idle_process
    planned,        \* planned_idle_ticks
    armed,          \* os_arch_tickless_planned
    pending0,       \* is an interrupt pending on core 0?
    remoteWaits     \* is another core at the door?

planVars == <<planGeneration, lastPlanTick, lastPlanGeneration>>
ticklessVars == <<ceiling, count, behind, deadlines, windowOpen, planVars, core0,
                  planned, armed, pending0, remoteWaits>>

TicklessInit ==
    /\ ceiling \in Ceilings
    /\ count = 0 /\ behind = 0
    /\ deadlines = [s \in Source |-> {}]
    /\ windowOpen = FALSE
    /\ planGeneration = 0 /\ lastPlanTick = 0 /\ lastPlanGeneration = 0
    /\ core0 = "run" /\ planned = 0 /\ armed = 0
    /\ pending0 = FALSE /\ remoteWaits = FALSE

-----------------------------------------------------------------------------
(* Time.                                                                   *)

\* n ticks are counted: the deadlines come nearer, those reached expire.
Pass(n) ==
    /\ count' = (count + n) % CountModulus
    /\ deadlines' = [s \in Source |-> {d - n : d \in {e \in deadlines[s] : e > n}}]

\* os_tick_handler on core 0.
CountTick ==
    /\ core0 = "run"
    /\ Pass(1)
    /\ UNCHANGED <<ceiling, behind, windowOpen, planVars, core0, planned, armed,
                   pending0, remoteWaits>>

-----------------------------------------------------------------------------
(* A new deadline, os_tickless_deadline_armed included.                    *)

Deadline(s, d) ==
    /\ deadlines' = [deadlines EXCEPT ![s] = @ \cup {d}]
    /\ planGeneration' = (planGeneration + 1) % CountModulus

\* A task or a handler on core 0.
ArmLocally(s, d) ==
    /\ core0 = "run"
    /\ Deadline(s, d)
    /\ UNCHANGED <<ceiling, count, behind, windowOpen, lastPlanTick,
                   lastPlanGeneration, core0, planned, armed, pending0, remoteWaits>>

\* Mutant: os_critical_enter does not look at the window.
DoorAlwaysOpen == TRUE

\* os_tickless_remote_window_wait, tested with the kernel spinlock held.
DoorOpen == ~windowOpen

\* Another core enters the kernel.
ArmRemotely(s, d) ==
    /\ DoorOpen
    /\ Deadline(s, d)
    /\ remoteWaits' = FALSE
    /\ UNCHANGED <<ceiling, count, behind, windowOpen, lastPlanTick,
                   lastPlanGeneration, core0, planned, armed, pending0>>

\* Or finds the window open, and wakes core 0.
WaitAtDoor ==
    /\ ~DoorOpen
    /\ remoteWaits' = TRUE
    /\ pending0' = TRUE
    /\ UNCHANGED <<ceiling, count, behind, deadlines, windowOpen, planVars, core0,
                   planned, armed>>

-----------------------------------------------------------------------------
(* os_tickless_idle_process on core 0, its interrupts masked.              *)

\* Planned before, and nothing new since.
NothingNew == count = lastPlanTick /\ planGeneration = lastPlanGeneration

\* The package may decline (module Park); the guard is taken note of anyway.
StartPlanning(declined) ==
    /\ core0 = "run" /\ ~NothingNew
    /\ lastPlanTick' = count
    /\ lastPlanGeneration' = planGeneration
    /\ core0' = IF declined THEN "run" ELSE "open"
    /\ UNCHANGED <<ceiling, count, behind, deadlines, windowOpen, planGeneration,
                   planned, armed, pending0, remoteWaits>>

OpenWindow ==
    /\ core0 = "open"
    /\ windowOpen' = TRUE
    /\ core0' = "plan"
    /\ UNCHANGED <<ceiling, count, behind, deadlines, planVars, planned, armed,
                   pending0, remoteWaits>>

\* Mutant: the sleeping tasks are forgotten.
TimersOnly == Min(deadlines["timer"] \cup {CountModulus - 1})

\* os_tickless_expected_idle_ticks_get.
ExpectedIdle == Min((UNION {deadlines[s] : s \in Source}) \cup {CountModulus - 1})

PlanWindow ==
    /\ core0 = "plan"
    /\ planned' = Min({ExpectedIdle, MaxIdle} \cup ({ceiling} \ {0}))
    /\ core0' = IF ceiling # 0 /\ planned' >= Floor THEN "prepare" ELSE "close"
    /\ UNCHANGED <<ceiling, count, behind, deadlines, windowOpen, planVars, armed,
                   pending0, remoteWaits>>

\* os_arch_sleep_prepare: a window is armed for two ticks or more. A port that
\* stretches its own tick declines when a tick is pending.
PrepareSleep ==
    /\ core0 = "prepare"
    /\ armed' \in (IF planned >= 2 THEN {planned} ELSE {0})
                     \cup (IF pending0 THEN {0} ELSE {})
    /\ core0' = "asleep"
    /\ UNCHANGED <<ceiling, count, behind, deadlines, windowOpen, planVars, planned,
                   pending0, remoteWaits>>

\* A tick passes that no interrupt counts; the last one wakes the core.
Elapse ==
    /\ core0 = "asleep" /\ behind < armed
    /\ behind' = behind + 1
    /\ pending0' = (pending0 \/ behind' = armed)
    /\ UNCHANGED <<ceiling, count, deadlines, windowOpen, planVars, core0, planned,
                   armed, remoteWaits>>

\* Some interrupt.
InterruptCore0 ==
    /\ core0 # "run"
    /\ pending0' = TRUE
    /\ UNCHANGED <<ceiling, count, behind, deadlines, windowOpen, planVars, core0,
                   planned, armed, remoteWaits>>

\* Mutant: the whole window is announced, whatever woke the core.
AnnouncesPlan == armed

\* os_arch_elapsed_ticks_get.
ElapsedTicks == IF armed = 0 THEN 0 ELSE Min({behind, armed})

\* The core is awake: os_tick_announce, before anybody may enter the kernel.
AnnounceElapsed ==
    /\ core0 = "asleep" /\ pending0
    /\ Pass(ElapsedTicks)
    /\ behind' = 0
    /\ armed' = 0
    /\ core0' = "close"
    /\ UNCHANGED <<ceiling, windowOpen, planVars, planned, pending0, remoteWaits>>

\* The window closes, and the mask goes down: the handlers run.
CloseWindow ==
    /\ core0 = "close"
    /\ windowOpen' = FALSE
    /\ pending0' = FALSE
    /\ core0' = "run"
    /\ UNCHANGED <<ceiling, count, behind, deadlines, planVars, planned, armed,
                   remoteWaits>>

-----------------------------------------------------------------------------
TicklessNext ==
    \/ CountTick
    \/ \E s \in Source, d \in Distance : ArmLocally(s, d)
    \/ \E s \in Source, d \in Distance : ArmRemotely(s, d)
    \/ WaitAtDoor
    \/ \E declined \in BOOLEAN : StartPlanning(declined)
    \/ OpenWindow \/ PlanWindow \/ PrepareSleep
    \/ Elapse \/ InterruptCore0
    \/ AnnounceElapsed \/ CloseWindow

TicklessSpec == TicklessInit /\ [][TicklessNext]_ticklessVars

-----------------------------------------------------------------------------
(* Properties.                                                             *)

\* The variables keep their types.
TicklessTypeOK ==
    /\ ceiling \in Ceilings
    /\ {count, planGeneration, lastPlanTick, lastPlanGeneration} \subseteq 0 .. CountModulus - 1
    /\ behind \in Nat /\ planned \in Nat /\ armed \in Nat
    /\ deadlines \in [Source -> SUBSET Distance]
    /\ {windowOpen, pending0, remoteWaits} \subseteq BOOLEAN
    /\ core0 \in {"run", "open", "plan", "prepare", "asleep", "close"}

\* Core 0 never sleeps past a deadline, whoever armed it and when.
NoDeadlineSlept == \A s \in Source : \A d \in deadlines[s] : behind <= d

\* A deadline is a distance from now: it is never added to a count that is
\* behind, which would make it late by the part of the window already slept.
MeasuredFromNow ==
    [][deadlines' # deadlines /\ count' = count => behind = 0]_ticklessVars

\* Time is neither lost nor counted twice: what is announced is what was slept.
WindowCounted ==
    [][behind' < behind => count' = (count + behind) % CountModulus]_ticklessVars

\* The window of the idle task and a deadline armed meanwhile, from this core or
\* another, whichever comes first: no deadline slept past, none late, no tick
\* lost.
TicklessSafe == []NoDeadlineSlept /\ MeasuredFromNow /\ WindowCounted
=============================================================================
