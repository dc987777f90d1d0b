-------------------------------- MODULE Mtime --------------------------------
(***************************************************************************)
(* The tick of soc/raspberrypi/rp235x_riscv/soc_cb.c and a light window on *)
(* it: mtime runs for ever, a core is interrupted while mtimecmp is in the *)
(* past, and pushing mtimecmp ahead both acknowledges a tick and silences  *)
(* those of a window.                                                      *)
(*                                                                         *)
(* mtime is 64 bits wide and only differences matter, so every deadline is *)
(* kept as its distance from now, negative once it has passed.             *)
(***************************************************************************)
EXTENDS Integers, FiniteSetsExt

CONSTANTS
    Interval,       \* soc_tick_interval
    MaxSkip,        \* bound on a window, in ticks
    MaxMissed       \* ticks that may be missed before a handler runs

ASSUME MtimeAssumption ==
    {Interval, MaxSkip, MaxMissed} \subseteq Nat \ {0}

VARIABLES
    mtimecmp,       \* the comparator
    baseTick,       \* soc_tickless_base
    skips,          \* soc_tickless_planned
    grid,           \* history: distance of the next tick, had there been no window
    uncounted       \* history: ticks that have passed and are not counted

mtimeVars == <<mtimecmp, baseTick, skips, grid, uncounted>>

\* os_arch_tick_init_cb.
MtimeInit ==
    /\ mtimecmp = Interval /\ grid = Interval
    /\ baseTick = 0 /\ skips = 0 /\ uncounted = 0

-----------------------------------------------------------------------------
Mcycle ==
    /\ uncounted < MaxSkip + MaxMissed
    /\ mtimecmp' = mtimecmp - 1
    /\ baseTick' = IF skips = 0 THEN 0 ELSE baseTick - 1
    /\ grid' = IF grid = 1 THEN Interval ELSE grid - 1
    /\ uncounted' = IF grid = 1 THEN uncounted + 1 ELSE uncounted
    /\ UNCHANGED skips

\* soc_tick_isr, however late: from the last deadline, not from now.
MtimeIsr ==
    /\ skips = 0 /\ mtimecmp <= 0
    /\ mtimecmp' = mtimecmp + Interval
    /\ uncounted' = uncounted - 1
    /\ UNCHANGED <<baseTick, skips, grid>>

\* os_arch_tick_suppress_cb: the tick the comparator is set to is the first of
\* the window, which may be due already.
Suppress(ticks) ==
    /\ skips = 0
    /\ baseTick' = mtimecmp
    /\ mtimecmp' = mtimecmp + (ticks - 1) * Interval
    /\ skips' = ticks
    /\ UNCHANGED <<grid, uncounted>>

Crossed == IF baseTick > 0 THEN 0 ELSE 1 + (-baseTick) \div Interval

\* Mutant: the tick that is pending is counted as well.
AllTicks == Min({Crossed, skips})

\* The last tick of a window is pending: its handler counts it.
ResumedTicks == Min({Crossed, skips - 1})

\* Mutant: the deadline is written whether or not a tick is pending.
AlwaysRewritten(elapsed) == baseTick + (elapsed + 1) * Interval

\* The next tick that nobody has counted; left alone by a window that ran to
\* its end.
Rewritten(elapsed) ==
    IF elapsed < skips - 1 THEN baseTick + elapsed * Interval ELSE mtimecmp

\* os_arch_tick_resume_cb; the kernel announces what it returns.
ResumeTick ==
    /\ skips # 0
    /\ uncounted' = uncounted - ResumedTicks
    /\ mtimecmp' = Rewritten(ResumedTicks)
    /\ skips' = 0 /\ baseTick' = 0
    /\ UNCHANGED grid

-----------------------------------------------------------------------------
MtimeNext ==
    \/ Mcycle \/ MtimeIsr
    \/ \E ticks \in 2 .. MaxSkip : Suppress(ticks)
    \/ ResumeTick

MtimeSpec == MtimeInit /\ [][MtimeNext]_mtimeVars

-----------------------------------------------------------------------------
(* Properties.                                                             *)

\* The variables keep their types.
MtimeTypeOK ==
    /\ {mtimecmp, baseTick, uncounted} \subseteq Int
    /\ grid \in 1 .. Interval /\ skips \in 0 .. MaxSkip

\* Every tick is counted once, by a window or by the handler, and none before
\* it has passed: outside of a window the comparator stands on the first tick
\* nobody has counted, wherever the window opened and whatever ended it.
CadenceKept ==
    /\ uncounted >= 0
    /\ skips = 0 => mtimecmp = grid - uncounted * Interval
=============================================================================
