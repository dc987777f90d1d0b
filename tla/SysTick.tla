------------------------------- MODULE SysTick -------------------------------
(***************************************************************************)
(* A suppressed window on the SysTick timer of a Cortex-M, cycle by cycle. *)
(* os_arch_port_v8m.c stretches the timer itself ("self").                 *)
(* arch/arm/common/os_arch_tickless.c lets it run, masks its interrupt and *)
(* asks a reference clock how often it came round ("light").               *)
(*                                                                         *)
(* The kernel mask is held in a window: the tick handler runs outside one. *)
(* While the timer is stopped no time passes here: the few cycles that     *)
(* takes are the drift that a self window has anyway.                      *)
(***************************************************************************)
EXTENDS Integers, FiniteSetsExt

CONSTANTS
    Cycles,         \* os_arch_tick_reload_cycles: a tick, in cycles
    MaxWindowTicks, \* the longest window: os_arch_max_window_ticks_get, a light sleep
    MaxGap,         \* cycles between two accesses to registers
    MaxError        \* of the reference clock, in cycles

ASSUME SysTickAssumption ==
    /\ Cycles \in Nat /\ Cycles >= 4 /\ MaxWindowTicks \in Nat /\ MaxWindowTicks >= 2
    /\ MaxGap \in Nat /\ MaxError \in Nat
    /\ 10 * MaxGap <= Cycles    \* the steps of a window take less than a tick
    /\ 2 * MaxError < Cycles    \* what os_arch_tick_wraps asks for

VARIABLES
    timer,          \* cvr, rvr, TICKINT and PENDSTSET; with them, as history, grid: the
                    \* cycles to the next tick as if there had been no window, and
                    \* uncounted: the ticks so far that the kernel has not counted
    mode,           \* "tick", "self" or a step of a light window
    startCount,     \* the first sample of a light window
    elapsedCycles,  \* since that sample, or since a self window opened
    gap,            \* cycles since the last step of the code
    windowTicks, head \* os_arch_tickless_planned, os_arch_suppressed_head_cycles

sysTickVars == <<timer, mode, startCount, elapsedCycles, gap, windowTicks, head>>

TimerRuns == [cvr |-> Cycles - 1, rvr |-> Cycles - 1, tickint |-> TRUE, pend |-> FALSE,
            grid |-> Cycles - 1, uncounted |-> 0]

SysTickInit ==
    /\ timer = TimerRuns
    /\ mode = "tick"
    /\ startCount = [cvr |-> 0, pend |-> FALSE]
    /\ elapsedCycles = 0 /\ gap = 0 /\ windowTicks = 0 /\ head = 0

Light == {"sampled", "silenced", "restored"}

-----------------------------------------------------------------------------
(* The hardware.                                                           *)

Clocked(t) ==
    [t EXCEPT !.cvr = IF @ = 0 THEN t.rvr ELSE @ - 1,
              !.pend = @ \/ (t.cvr = 1 /\ t.tickint),
              !.grid = IF @ = 1 THEN Cycles ELSE @ - 1,
              !.uncounted = IF t.grid = 1 THEN @ + 1 ELSE @]

AfterCycles(n) ==
    LET on[i \in 0 .. n] == IF i = 0 THEN timer ELSE Clocked(on[i - 1])
    IN  on[n]

\* Code takes less than a tick: a pending tick is served before long, it
\* ends a light window at once, the steps of a window are close together.
Recent == timer.cvr = 0 \/ timer.cvr >= Cycles - MaxGap

InTime ==
    CASE mode = "tick"     -> timer.pend => Recent
      [] mode = "self"     -> ~(timer.pend /\ timer.grid = 1)
      [] mode = "silenced" /\ ~timer.pend -> elapsedCycles < windowTicks * Cycles
      [] OTHER             -> gap < MaxGap

Cycle ==
    /\ InTime
    /\ timer' = Clocked(timer)
    /\ elapsedCycles' = IF mode = "tick" THEN 0 ELSE elapsedCycles + 1
    /\ gap' = IF mode \in Light /\ (mode = "silenced" => timer.pend) THEN gap + 1 ELSE 0
    /\ UNCHANGED <<mode, startCount, windowTicks, head>>

\* The tick handler.
CountPending ==
    /\ mode = "tick" /\ timer.pend
    /\ timer' = [timer EXCEPT !.pend = FALSE, !.uncounted = @ - 1]
    /\ UNCHANGED <<mode, startCount, elapsedCycles, gap, windowTicks, head>>

-----------------------------------------------------------------------------
(* The window of os_arch_port_v8m.c.                                       *)

\* Mutant: the tick already running is taken for a whole one.
WholeHead == Cycles

\* What is left of the tick that is already running.
RemainingHead == IF timer.cvr = 0 THEN Cycles ELSE timer.cvr

\* os_arch_tickless_self_open; it declines while a tick is pending. Whoever
\* reads the grid from here on starts with the timer's own.
SelfOpen(n) ==
    /\ mode = "tick" /\ ~timer.pend /\ timer.rvr = Cycles - 1
    /\ windowTicks' = n
    /\ head' = RemainingHead
    /\ timer' = [timer EXCEPT !.cvr = 0, !.rvr = head' + (n - 1) * Cycles - 1,
                              !.grid = IF timer.cvr = 0 THEN Cycles ELSE timer.cvr,
                              !.uncounted = 0]
    /\ mode' = "self" /\ elapsedCycles' = 0 /\ gap' = 0
    /\ UNCHANGED startCount

\* The cycles the timer has counted; the first one only reloads it.
SelfElapsed == IF timer.cvr = 0 THEN 0 ELSE timer.rvr - timer.cvr

SelfTicks ==
    IF timer.pend THEN windowTicks - 1      \* the handler counts the last
    ELSE IF SelfElapsed < head THEN 0
    ELSE 1 + (SelfElapsed - head) \div Cycles

\* With os_arch_tick_remaining.
SelfRemaining ==
    IF timer.pend THEN Cycles - (SelfElapsed % Cycles)
    ELSE IF SelfElapsed < head THEN head - SelfElapsed
    ELSE Cycles - ((SelfElapsed - head) % Cycles)

\* os_arch_tickless_self_close and os_arch_tickless_self_finish: only the first
\* tick is a partial one. The timer loads it in the barrier.
SelfClose ==
    /\ mode = "self"
    /\ LET loaded == [timer EXCEPT !.cvr = 0, !.rvr = Max({SelfRemaining, 2}) - 1]
       IN  timer' = [Clocked(loaded) EXCEPT !.rvr = Cycles - 1,
                                            !.uncounted = @ - SelfTicks]
    /\ mode' = "tick" /\ elapsedCycles' = 0 /\ windowTicks' = 0 /\ head' = 0
    /\ UNCHANGED <<startCount, gap>>

-----------------------------------------------------------------------------
(* The window of arch/arm/common/os_arch_tickless.c.                       *)

\* os_arch_tickless_sample: the counter, and the pending bit some cycles before
\* and after. A pair that straddles a reload or a tick is read again.
Coherent(before, here, after) == here.cvr <= before.cvr /\ after.pend = before.pend

\* os_arch_tickless_tick_silence, up to the sample.
LightOpen(n, a, b) ==
    /\ mode = "tick" /\ timer.rvr = Cycles - 1
    /\ timer.pend => Recent
    /\ Coherent(timer, AfterCycles(a), AfterCycles(a + b))
    /\ startCount' = [cvr |-> AfterCycles(a).cvr, pend |-> AfterCycles(a + b).pend]
    /\ timer' = AfterCycles(a + b)
    /\ windowTicks' = n
    /\ mode' = "sampled" /\ elapsedCycles' = b /\ gap' = 0
    /\ UNCHANGED head

Silence ==
    /\ mode = "sampled"
    /\ timer' = [timer EXCEPT !.tickint = FALSE]
    /\ mode' = "silenced" /\ gap' = 0
    /\ UNCHANGED <<startCount, elapsedCycles, windowTicks, head>>

\* os_arch_tickless_tick_restore.
Unsilence ==
    /\ mode = "silenced"
    /\ timer' = [timer EXCEPT !.tickint = TRUE]
    /\ mode' = "restored" /\ gap' = 0
    /\ UNCHANGED <<startCount, elapsedCycles, windowTicks, head>>

FullIfZero(cvr) == IF cvr = 0 THEN Cycles ELSE cvr

\* os_arch_tick_wraps: the reference clock, inexact, only tells the whole ticks.
Wraps(reference, startCvr, endCvr) ==
    LET whole == reference + FullIfZero(endCvr) - FullIfZero(startCvr)
    IN  IF whole <= 0 THEN 0 ELSE (whole + Cycles \div 2) \div Cycles

\* Mutant: a tick that is still pending is announced as well.
AdjustNothing(wraps, pendingNow) == wraps

\* A tick that has become pending in the window is the handler's.
Adjusted(wraps, pendingNow) ==
    IF ~startCount.pend /\ pendingNow /\ wraps # 0 THEN wraps - 1 ELSE wraps

\* os_arch_tickless_elapsed_adjust; the kernel announces what it returns.
LightClose(a, b, error) ==
    LET here  == AfterCycles(a)
        after == AfterCycles(a + b)
        wraps == Wraps(elapsedCycles + a + error, startCount.cvr, here.cvr)
    IN  /\ mode = "restored"
        /\ Coherent(timer, here, after)
        /\ timer' = [after EXCEPT !.uncounted = @ - Adjusted(wraps, after.pend)]
        /\ mode' = "tick" /\ elapsedCycles' = 0 /\ gap' = 0 /\ windowTicks' = 0
        /\ startCount' = [cvr |-> 0, pend |-> FALSE]
        /\ UNCHANGED head

-----------------------------------------------------------------------------
SysTickNext ==
    \/ Cycle
    \/ CountPending
    \/ \E n \in 2 .. MaxWindowTicks : SelfOpen(n)
    \/ SelfClose
    \/ \E n \in 2 .. MaxWindowTicks, a, b \in 0 .. MaxGap : LightOpen(n, a, b)
    \/ Silence
    \/ Unsilence
    \/ \E a, b \in 0 .. MaxGap, error \in -MaxError .. MaxError : LightClose(a, b, error)

SysTickSpec == SysTickInit /\ [][SysTickNext]_sysTickVars

-----------------------------------------------------------------------------
(* Properties.                                                             *)

\* The variables keep their types.
SysTickTypeOK ==
    /\ timer.cvr \in 0 .. MaxWindowTicks * Cycles /\ timer.rvr \in 1 .. MaxWindowTicks * Cycles
    /\ timer.grid \in 1 .. Cycles /\ timer.uncounted \in Int
    /\ {timer.tickint, timer.pend, startCount.pend} \subseteq BOOLEAN
    /\ mode \in {"tick", "self"} \cup Light
    /\ windowTicks \in 0 .. MaxWindowTicks /\ head \in 0 .. Cycles
    /\ {elapsedCycles, gap, startCount.cvr} \subseteq Nat

ToTick(t) == IF t.cvr = 0 THEN 1 + t.rvr ELSE t.cvr
CyclesToTick == ToTick(timer)

\* Every tick is counted once, by the announcement or by the handler, wherever
\* in a tick the window opens and closes and whatever is pending then; and the
\* next tick is where it would have been, or up to two cycles after it, the
\* reload and the shortest interval: a deadline is never early, and windows do
\* not push the tick by a part of one.
GridKept ==
    mode = "tick" =>
        LET missed == timer.uncounted - (IF timer.pend THEN 1 ELSE 0)
        IN  missed * Cycles + CyclesToTick - timer.grid \in 0 .. 2

-----------------------------------------------------------------------------
(* The rest of the inductive invariant.                                    *)

\* It grows by one with every cycle, wherever the ticks are.
OnGrid(t) == t.uncounted * Cycles - t.grid

PendingCycles(pend) == IF pend THEN Cycles ELSE 0

\* In a self window the timer counts the cycles since it was opened, and a
\* second time once it has come to zero.
InSelf ==
    /\ windowTicks \in 2 .. MaxWindowTicks /\ head \in 1 .. Cycles
    /\ timer.tickint /\ timer.rvr = head + (windowTicks - 1) * Cycles - 1
    /\ OnGrid(timer) + head = (IF timer.pend THEN 1 + timer.rvr ELSE 0)
                                 + (1 + timer.rvr - CyclesToTick)
    /\ timer.pend => timer.uncounted = windowTicks

\* The cycles that have passed since the tick before the one that is pending,
\* at most, as a step of a light window begins.
OldestPend ==
    CASE mode = "sampled" -> 3 * MaxGap
      [] mode = "silenced" -> 4 * MaxGap
      [] mode = "restored" -> 5 * MaxGap

\* In a light window the timer has come round a whole number of times since the
\* sample, and at least once if a tick has become pending.
InLight ==
    /\ timer.rvr = Cycles - 1 /\ startCount.cvr < Cycles /\ gap <= MaxGap
    /\ timer.tickint = (mode # "silenced")
    /\ OnGrid(timer) + FullIfZero(startCount.cvr) - elapsedCycles
          - PendingCycles(startCount.pend) \in 0 .. 2
    /\ \E rounds \in 0 .. elapsedCycles :
          /\ elapsedCycles + CyclesToTick = FullIfZero(startCount.cvr) + rounds * Cycles
          /\ timer.pend /\ ~startCount.pend => rounds # 0
    /\ startCount.pend => timer.pend
    /\ timer.pend => CyclesToTick >= Cycles - OldestPend - gap

GridIInv ==
    /\ SysTickTypeOK
    /\ timer \in [cvr : Nat, rvr : Nat \ {0}, tickint : BOOLEAN, pend : BOOLEAN,
                  grid : 1 .. Cycles, uncounted : Int]
    /\ timer.cvr <= timer.rvr
    /\ startCount \in [cvr : Nat, pend : BOOLEAN]
    /\ mode = "tick" =>
          /\ timer.tickint /\ timer.rvr = Cycles - 1
          /\ OnGrid(timer) - PendingCycles(timer.pend) + CyclesToTick \in 0 .. 2
    /\ mode = "self" => InSelf
    /\ mode \in Light => InLight
=============================================================================
