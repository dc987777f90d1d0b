-------------------------------- MODULE Delay --------------------------------
(***************************************************************************)
(* Time in the kernel of AhuraRTOS: the wrapping tick counter of           *)
(* kernel/os_tick.c, the delays of kernel/os_delay.c, and the retry loop   *)
(* with which every blocking call spends its timeout (os_sem_take and its  *)
(* likes, with os_internal_wait_origin and os_internal_wait_remaining).    *)
(*                                                                         *)
(* The delay list is what module Alarm says of it: a countdown per task.   *)
(* Dispatching is free, so that a woken task may run any number of ticks   *)
(* late.                                                                   *)
(***************************************************************************)
EXTENDS Integers

CONSTANTS
    Task,
    W,              \* the tick counter counts modulo W, 2^32 in the code
    NumCores,       \* OS_CONFIG_CORE_COUNT
    Windows,        \* the lengths of a suppressed window
    MaxPassed       \* no call lasts longer than this many ticks

ASSUME DelayAssumption ==
    /\ W \in Nat /\ W > 2
    /\ NumCores \in Nat \ {0}
    /\ Windows \subseteq 1 .. W - 1
    /\ MaxPassed \in Nat

Tick == 0 .. W - 1
Forever == W - 1                        \* OS_WAIT_FOREVER
Finite == 1 .. Forever - 1

VARIABLES
    tickCount,      \* os_tick_count
    uncharged,      \* ticks counted that os_task_tick_update has not seen
    call,           \* what each task does: "none", "delay", "park" or "wait"
    pc,             \* where in it: "out", "check", "blocked", "ready", "expired"
    start,          \* start_tick
    budget,         \* wait_ticks, budget_ticks
    remaining,      \* wait_ticks - elapsed, remaining_ticks
    signaled,       \* tcb->wait_signaled
    left,           \* ticks to go in the delay list; 0 or Forever: not in it
    passed          \* history: the ticks counted since the call

timeVars == <<tickCount, uncharged>>
callVars == <<call, start, budget>>
vars == <<timeVars, callVars, pc, remaining, signaled, left, passed>>

Init ==
    /\ tickCount \in Tick
    /\ uncharged = 0
    /\ call = [t \in Task |-> "none"]
    /\ pc = [t \in Task |-> "out"]
    /\ start = [t \in Task |-> 0]
    /\ budget = [t \in Task |-> 0]
    /\ remaining = [t \in Task |-> 0]
    /\ signaled = [t \in Task |-> FALSE]
    /\ left = [t \in Task |-> 0]
    /\ passed = [t \in Task |-> 0]

\* A task runs. On one core it cannot while the tick handler does.
Running == NumCores > 1 \/ uncharged = 0

-----------------------------------------------------------------------------
(* The calls.                                                              *)

Call(t, kind, ticks) ==
    /\ Running /\ pc[t] = "out"
    /\ call' = [call EXCEPT ![t] = kind]
    /\ pc' = [pc EXCEPT ![t] = "check"]
    /\ start' = [start EXCEPT ![t] = tickCount]
    /\ budget' = [budget EXCEPT ![t] = ticks]
    /\ remaining' = [remaining EXCEPT ![t] = ticks]
    /\ UNCHANGED <<timeVars, signaled, left, passed>>

\* Mutant: a delay of 2^32 - 1 ticks meets the sentinel.
WaitTicksAsIs(n) == n

\* A finite duration must not read as "until woken".
WaitTicks(n) == IF n = Forever THEN n - 1 ELSE n

\* os_delay_ms with a duration that is n ticks after the conversion.
DelayTicks(t, n) == Call(t, "delay", WaitTicks(n))

\* os_delay_ms(OS_WAIT_FOREVER).
DelayForever(t) == Call(t, "park", Forever)

\* A blocking call with a timeout of n ticks, or OS_WAIT_FOREVER.
WaitCall(t, n) == Call(t, "wait", n)

-----------------------------------------------------------------------------
(* Blocking, waking and trying again.                                      *)

\* os_task_sleep_ticks, os_task_wait_begin.
Block(t) ==
    /\ Running /\ pc[t] = "check"
    /\ remaining[t] # 0
    /\ pc' = [pc EXCEPT ![t] = "blocked"]
    /\ left' = [left EXCEPT ![t] = remaining[t]]
    /\ signaled' = [signaled EXCEPT ![t] = FALSE]
    /\ UNCHANGED <<timeVars, callVars, remaining, passed>>

\* Mutant: the reason of the wake-up is not recorded.
SignalUnmarked(t) ==
    /\ pc[t] = "blocked"
    /\ pc' = [pc EXCEPT ![t] = "ready"]
    /\ left' = [left EXCEPT ![t] = 0]
    /\ UNCHANGED <<timeVars, callVars, remaining, signaled, passed>>

\* The object signals the task, or os_task_start or os_task_wake forces it.
Signal(t) ==
    /\ pc[t] = "blocked"
    /\ pc' = [pc EXCEPT ![t] = "ready"]
    /\ left' = [left EXCEPT ![t] = 0]
    /\ signaled' = [signaled EXCEPT ![t] = TRUE]
    /\ UNCHANGED <<timeVars, callVars, remaining, passed>>

\* os_tick_get() - start_tick, in 32 bits.
Elapsed(t) ==
    IF tickCount >= start[t] THEN tickCount - start[t] ELSE tickCount - start[t] + W

\* Mutants: a wake restarts the whole wait; a wake ends it.
RemainingRestarted(t) == budget[t]
RemainingForgotten(t) == 0

\* os_internal_wait_remaining, and the loop of os_delay_ticks.
Remaining(t) ==
    IF budget[t] = Forever THEN Forever
    ELSE IF Elapsed(t) >= budget[t] THEN 0
    ELSE budget[t] - Elapsed(t)

\* Back on a core. A wait that was not signaled has timed out.
Resume(t) ==
    /\ Running /\ pc[t] = "ready"
    /\ call[t] = "wait" => signaled[t]
    /\ pc' = [pc EXCEPT ![t] = "check"]
    /\ remaining' = [remaining EXCEPT ![t] = Remaining(t)]
    /\ UNCHANGED <<timeVars, callVars, signaled, left, passed>>

ResumeExpired(t) ==
    /\ Running /\ pc[t] = "ready"
    /\ call[t] = "wait" /\ ~signaled[t]
    /\ pc' = [pc EXCEPT ![t] = "expired"]
    /\ UNCHANGED <<timeVars, callVars, remaining, signaled, left, passed>>

-----------------------------------------------------------------------------
(* Returning.                                                              *)

Leave(t) ==
    /\ pc' = [pc EXCEPT ![t] = "out"]
    /\ call' = [call EXCEPT ![t] = "none"]
    /\ passed' = [passed EXCEPT ![t] = 0]
    /\ UNCHANGED <<timeVars, start, budget, remaining, signaled, left>>

\* The call gives up: a delay is over, a wait returns OS_ERR_TIMEOUT.
GivesUp(t) == pc[t] = "expired" \/ (pc[t] = "check" /\ remaining[t] = 0)

GiveUp(t) == Running /\ GivesUp(t) /\ Leave(t)

\* The object is available.
Acquire(t) == Running /\ pc[t] = "check" /\ call[t] = "wait" /\ Leave(t)

-----------------------------------------------------------------------------
(* Time.                                                                   *)

TickAfter(n) == IF tickCount + n < W THEN tickCount + n ELSE tickCount + n - W

\* The counter is stepped.
Count(n) ==
    /\ \A t \in Task : pc[t] # "out" => passed[t] + n <= MaxPassed
    /\ tickCount' = TickAfter(n)
    /\ passed' = [t \in Task |-> IF pc[t] = "out" THEN 0 ELSE passed[t] + n]

\* t is in the delay list.
Sleeping(t) == left[t] \in Finite

\* os_task_tick_update(n).
Charge(n) ==
    /\ left' = [t \in Task |-> IF ~Sleeping(t) THEN left[t]
                               ELSE IF left[t] > n THEN left[t] - n ELSE 0]
    /\ pc' = [t \in Task |-> IF Sleeping(t) /\ left[t] <= n THEN "ready" ELSE pc[t]]

\* os_tick_handler steps the counter first and takes the critical section of
\* os_task_tick_update afterwards.
TickHandlerCount ==
    /\ uncharged = 0
    /\ Count(1)
    /\ uncharged' = 1
    /\ UNCHANGED <<callVars, pc, remaining, signaled, left>>

TickHandlerUpdate ==
    /\ uncharged = 1
    /\ Charge(1)
    /\ uncharged' = 0
    /\ UNCHANGED <<tickCount, callVars, remaining, signaled, passed>>

\* os_tick_announce, in one critical section.
Announce(n) ==
    /\ uncharged = 0
    /\ Count(n)
    /\ Charge(n)
    /\ UNCHANGED <<uncharged, callVars, remaining, signaled>>

-----------------------------------------------------------------------------
TaskStep(t) ==
    \/ \E n \in 1 .. Forever : DelayTicks(t, n)
    \/ DelayForever(t)
    \/ \E n \in 1 .. Forever : WaitCall(t, n)
    \/ Block(t)
    \/ Signal(t)
    \/ Resume(t)
    \/ ResumeExpired(t)
    \/ GiveUp(t)
    \/ Acquire(t)

Next ==
    \/ \E t \in Task : TaskStep(t)
    \/ TickHandlerCount
    \/ TickHandlerUpdate
    \/ \E n \in Windows : Announce(n)

Spec == Init /\ [][Next]_vars

-----------------------------------------------------------------------------
(* Properties.                                                             *)

\* The variables keep their types, and a delay of a finite length is always in
\* the delay list while it blocks: it never turns into "until woken".
TypeOK ==
    /\ tickCount \in Tick
    /\ uncharged \in {0, 1}
    /\ call \in [Task -> {"none", "delay", "park", "wait"}]
    /\ pc \in [Task -> {"out", "check", "blocked", "ready", "expired"}]
    /\ start \in [Task -> Tick]
    /\ budget \in [Task -> Tick]
    /\ remaining \in [Task -> Tick]
    /\ signaled \in [Task -> BOOLEAN]
    /\ left \in [Task -> Tick]
    /\ passed \in [Task -> Nat]
    /\ \A t \in Task : call[t] = "delay" /\ pc[t] = "blocked" => Sleeping(t)

\* os_delay never returns before its time, however often it was woken, on any
\* number of cores and across a wrap of the counter.
DelayNotShort ==
    \A t \in Task : call[t] = "delay" /\ GivesUp(t) => passed[t] >= budget[t]

\* No blocking call times out before its time: "A timeout expiring early is a
\* real fault, not a rounding error" (os_internal.h).
TimeoutNotEarly ==
    \A t \in Task : call[t] = "wait" /\ GivesUp(t) => passed[t] >= budget[t]

\* A task that is back on a core after its time is up does not wait again, if
\* it is back before the counter has come round once since its call.
NotOverslept ==
    [][\A t \in Task :
          (pc[t] = "ready" /\ pc'[t] = "check" /\ passed[t] \in budget[t] .. W - 1)
             => budget[t] = Forever \/ remaining'[t] = 0]_vars

-----------------------------------------------------------------------------
(* The rest of the inductive invariant.                                    *)

\* Exactly the blocked tasks have something left to wait for, a task in a call
\* has a kind, and a delay is finite.
CallsExact ==
    \A t \in Task :
        /\ left[t] # 0 <=> pc[t] = "blocked"
        /\ call[t] = "none" <=> pc[t] = "out"
        /\ pc[t] = "expired" => call[t] = "wait"
        /\ call[t] = "delay" => budget[t] # Forever /\ remaining[t] # Forever

\* The counter never shows more time than has passed, and what a call has
\* computed to remain reaches its budget.
TimeBounded ==
    \A t \in Task :
        /\ pc[t] # "out" => Elapsed(t) <= passed[t]
        /\ pc[t] = "check" => remaining[t] + passed[t] >= budget[t]

\* On one core the delay list charges a wait for no tick that it did not see.
OneCoreBounded ==
    NumCores = 1 =>
        \A t \in Task : call[t] = "wait" =>
            /\ Sleeping(t) => left[t] + passed[t] >= budget[t] + uncharged
            /\ pc[t] = "ready" /\ ~signaled[t] => passed[t] >= budget[t]
            /\ pc[t] = "expired" => passed[t] >= budget[t]

IInv == TypeOK /\ CallsExact /\ TimeBounded /\ OneCoreBounded
=============================================================================
