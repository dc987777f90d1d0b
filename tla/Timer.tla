-------------------------------- MODULE Timer --------------------------------
(***************************************************************************)
(* The software timers of kernel/os_timer.c: the running list, a delta     *)
(* list like the delay list of the tasks; the ready list of expiries that  *)
(* wait for the timer task; the pools of os_timer_submit; the timer task.  *)
(*                                                                         *)
(* Every action is one critical section of the code.  A timer's callback   *)
(* is code of the application: what it calls are other actions.  Callback, *)
(* context and value are data and left out.                                *)
(***************************************************************************)
EXTENDS FiniteSetsExt, OsList

CONSTANTS
    Periodic, OneShot, \* the timers of OS_TIMER_DEFINE_*
    Entry,          \* the entries of OS_TIMER_DEFINE_SUBMIT
    Pool, PoolOf,   \* the pools, and the pool of each entry
    PoolDelay,      \* delay_ticks of a pool
    MaxPeriod,      \* bound on a period
    MaxElapsed      \* bound on an announced window

ASSUME TimerAssumption ==
    /\ Periodic \cap OneShot = {} /\ (Periodic \cup OneShot) \cap Entry = {}
    /\ IsFiniteSet(Entry)
    /\ PoolOf \in [Entry -> Pool] /\ PoolDelay \in [Pool -> Nat]
    /\ MaxPeriod \in Nat \ {0} /\ MaxElapsed \in Nat \ {0}

User == Periodic \cup OneShot
AnyTimer == User \cup Entry
Period == 1 .. MaxPeriod

VARIABLES
    running,        \* os_timer_running_list
    ready,          \* os_timer_ready_list
    free,           \* the free_list of each pool
    active, paused, queued, \* the flags of a timer
    ticksLeft,      \* remaining_ticks: a delta while the timer is running
    period,         \* period_ticks
    timerTask,      \* "fetch", "callback", "check" or "asleep"
    until,          \* history: ticks to the expiry of an active timer, or of a
                    \* paused one once it is resumed
    owed            \* history: has it expired without a delivery since, or a
                    \* call that discards it?

timerVars == <<running, ready, free, active, paused, queued, ticksLeft, period,
               timerTask, until, owed>>

\* os_timer_pool_prepare_locked: the free list of a pool.  The code threads it
\* in the first submission to the pool, which nothing can tell from here.
Prepared(pool) == SetToSeq({e \in Entry : PoolOf[e] = pool})

\* os_timer_system_init.
TimerInit ==
    /\ running = << >> /\ ready = << >>
    /\ free = [pool \in Pool |-> Prepared(pool)]
    /\ active = [t \in AnyTimer |-> FALSE]
    /\ paused = [t \in AnyTimer |-> FALSE]
    /\ queued = [t \in AnyTimer |-> FALSE]
    /\ ticksLeft = [t \in AnyTimer |-> 0]
    /\ period \in [User -> Period]
    /\ timerTask = "fetch"
    /\ until = [t \in AnyTimer |-> 0]
    /\ owed = [t \in AnyTimer |-> FALSE]

-----------------------------------------------------------------------------
(* The running list.  An operator takes it and the remaining ticks as one  *)
(* record, [list, ticks], and returns the two once it is done.             *)

Now == [list |-> running, ticks |-> ticksLeft]

\* The ticks from now to the expiry of the i-th entry.
TicksTo(c, i) ==
    LET sum[k \in 0 .. Len(c.list)] == IF k = 0 THEN 0 ELSE sum[k - 1] + c.ticks[c.list[k]]
    IN  sum[i]

\* os_timer_running_insert.
Inserted(c, t) ==
    LET later == {k \in DOMAIN c.list : TicksTo(c, k) > c.ticks[t]}
        i     == Min(later \cup {Len(c.list) + 1})
        ahead == c.ticks[t] - TicksTo(c, i - 1)
    IN  [list  |-> ListInsertBefore(c.list, i, t),
         ticks |-> [u \in AnyTimer |->
                       IF u = t THEN ahead
                       ELSE IF later # {} /\ u = c.list[i] THEN c.ticks[u] - ahead
                       ELSE c.ticks[u]]]

\* os_timer_is_running_linked, os_timer_member_locked: the list is believed, not
\* what the timer says of itself.
Linked(list, t) == t \in Members(list)

\* os_timer_unlink_locked.
Unlinked(list, t) == IF Linked(list, t) THEN ListRemove(list, t) ELSE list

\* Mutant: the entry behind does not inherit the ticks of t.
RemovedAlone(c, t) ==
    IF ~Linked(c.list, t) THEN c
    ELSE [list  |-> ListRemove(c.list, t),
          ticks |-> [c.ticks EXCEPT ![t] = TicksTo(c, CHOOSE k \in DOMAIN c.list : c.list[k] = t)]]

\* os_timer_running_remove: the entry behind inherits the ticks of t, which
\* keeps its own, counted from now.
Removed(c, t) ==
    IF ~Linked(c.list, t) THEN c
    ELSE LET i == CHOOSE k \in DOMAIN c.list : c.list[k] = t
         IN  [list  |-> ListRemove(c.list, t),
              ticks |-> [u \in AnyTimer |->
                            IF u = t THEN TicksTo(c, i)
                            ELSE IF i < Len(c.list) /\ u = c.list[i + 1]
                                 THEN c.ticks[u] + c.ticks[t]
                            ELSE c.ticks[u]]]

SetRunning(c) == running' = c.list /\ ticksLeft' = c.ticks

\* Mutant: the first of the list, whatever already waits to be delivered.
HeadOnly == IF running = << >> THEN {} ELSE {ticksLeft[Head(running)]}

\* os_timer_next_expiry_ticks_get, what the tickless idle may sleep through; the
\* empty set for UINT32_MAX.
NextExpiry ==
    IF ready # << >> THEN {0}
    ELSE IF running = << >> THEN {}
    ELSE {ticksLeft[Head(running)]}

\* os_task_wake_tcb on the timer task.
WakeTimerTask == timerTask' = IF timerTask = "asleep" THEN "fetch" ELSE timerTask

-----------------------------------------------------------------------------
(* The calls of the application.                                           *)

\* Mutant: a restart leaves the expiry in the ready list.
ArmKeepsExpiry(t, reload) ==
    LET fresh == reload \/ ~paused[t]
        c     == Removed(Now, t)
    IN  /\ SetRunning(Inserted(IF fresh THEN [c EXCEPT !.ticks[t] = period[t]] ELSE c, t))
        /\ until' = [until EXCEPT ![t] = IF fresh THEN period[t] ELSE @]
        /\ owed' = [owed EXCEPT ![t] = @ /\ ~fresh]
        /\ paused' = [paused EXCEPT ![t] = FALSE]
        /\ active' = [active EXCEPT ![t] = TRUE]
        /\ UNCHANGED <<ready, queued, free, period, timerTask>>

\* os_timer_arm: os_timer_start without reload, os_timer_restart with.
Arm(t, reload) ==
    LET fresh == reload \/ ~paused[t]
        c     == Removed(Now, t)
    IN  /\ SetRunning(Inserted(IF fresh THEN [c EXCEPT !.ticks[t] = period[t]] ELSE c, t))
        /\ ready' = IF fresh /\ queued[t] THEN Unlinked(ready, t) ELSE ready
        /\ queued' = [queued EXCEPT ![t] = @ /\ ~fresh]
        /\ until' = [until EXCEPT ![t] = IF fresh THEN period[t] ELSE @]
        /\ owed' = [owed EXCEPT ![t] = @ /\ ~fresh]
        /\ paused' = [paused EXCEPT ![t] = FALSE]
        /\ active' = [active EXCEPT ![t] = TRUE]
        /\ UNCHANGED <<free, period, timerTask>>

\* os_timer_pause, on a timer that is running.
PauseTimer(t) ==
    /\ active[t]
    /\ SetRunning(Removed(Now, t))
    /\ active' = [active EXCEPT ![t] = FALSE]
    /\ paused' = [paused EXCEPT ![t] = TRUE]
    /\ UNCHANGED <<ready, free, queued, period, timerTask, until, owed>>

\* os_timer_detach_locked.
Detach(t) ==
    /\ SetRunning(Removed(Now, t))
    /\ ready' = Unlinked(ready, t)
    /\ queued' = [queued EXCEPT ![t] = FALSE]

\* os_timer_stop.
StopTimer(t) ==
    /\ Detach(t)
    /\ active' = [active EXCEPT ![t] = FALSE]
    /\ paused' = [paused EXCEPT ![t] = FALSE]
    /\ until' = [until EXCEPT ![t] = 0]
    /\ owed' = [owed EXCEPT ![t] = FALSE]
    /\ UNCHANGED <<free, period, timerTask>>

\* os_timer_period_set.
SetPeriod(t, p) ==
    /\ period' = [period EXCEPT ![t] = p]
    /\ UNCHANGED <<running, ready, free, active, paused, queued, ticksLeft,
                   timerTask, until, owed>>

\* os_timer_submit, with an entry left; OS_ERR_FULL changes nothing.
Submit(pool) ==
    /\ free[pool] # << >>
    /\ LET e == Head(free[pool])
           delay == PoolDelay[pool]
       IN  /\ free' = [free EXCEPT ![pool] = Tail(@)]
           /\ paused' = [paused EXCEPT ![e] = FALSE]
           /\ active' = [active EXCEPT ![e] = delay # 0]
           /\ until' = [until EXCEPT ![e] = delay]
           /\ IF delay = 0
              THEN /\ ticksLeft' = [ticksLeft EXCEPT ![e] = 0]
                   /\ queued' = [queued EXCEPT ![e] = TRUE]
                   /\ owed' = [owed EXCEPT ![e] = TRUE]
                   /\ ready' = ListPushBack(ready, e)
                   /\ WakeTimerTask
                   /\ UNCHANGED running
              ELSE /\ SetRunning(Inserted([Now EXCEPT !.ticks[e] = delay], e))
                   /\ UNCHANGED <<ready, queued, owed, timerTask>>
    /\ UNCHANGED period

-----------------------------------------------------------------------------
(* The tick.                                                               *)

\* os_timer_tick_process, first loop: what is left of the running list once
\* the timers due have been taken from its front.
Rest(dueCount, elapsed) ==
    LET rest == SubSeq(running, dueCount + 1, Len(running))
    IN  [list  |-> rest,
         ticks |-> IF rest = << >> THEN ticksLeft
                   ELSE [ticksLeft EXCEPT ![Head(rest)] =
                            @ - (elapsed - TicksTo(Now, dueCount))]]

\* Second loop: a periodic timer counts a period from now on, a one-shot and
\* an entry of a pool are done.
Rearmed(c, t) ==
    IF t \in Periodic THEN Inserted([c EXCEPT !.ticks[t] = period[t]], t)
    ELSE [c EXCEPT !.ticks[t] = 0]

\* The timers due, one after the other.
AllRearmed(c, due) ==
    LET done[i \in 0 .. Len(due)] == IF i = 0 THEN c ELSE Rearmed(done[i - 1], due[i])
    IN  done[Len(due)]

\* Expiries that come faster than their delivery coalesce.
Noted(due) == ListWithout(due, {t \in AnyTimer : queued[t]})

TimerTick(elapsed) ==
    LET dueCount == Max({0} \cup {k \in DOMAIN running : TicksTo(Now, k) <= elapsed})
        due      == SubSeq(running, 1, dueCount)
        noted    == Noted(due)
    IN  /\ SetRunning(AllRearmed(Rest(dueCount, elapsed), due))
        /\ active' = [t \in AnyTimer |-> active[t] /\ (t \in Members(due) => t \in Periodic)]
        /\ queued' = [t \in AnyTimer |-> queued[t] \/ t \in Members(due)]
        /\ ready' = ready \o noted
        /\ IF noted = << >> THEN UNCHANGED timerTask ELSE WakeTimerTask
        /\ until' = [t \in AnyTimer |->
                        IF ~active[t] THEN until[t]
                        ELSE IF until[t] > elapsed THEN until[t] - elapsed
                        ELSE IF t \in Periodic THEN period[t] ELSE 0]
        /\ owed' = [t \in AnyTimer |-> owed[t] \/ (active[t] /\ until[t] <= elapsed)]
        /\ UNCHANGED <<free, paused, period>>

-----------------------------------------------------------------------------
(* The timer task, os_timer_task_entry.                                    *)

\* Mutant: the entry is forgotten.
SlotLost(t) == free

\* The pools once t is delivered: an entry is back before its callback starts.
SlotBack(t) ==
    IF t \in Entry THEN [free EXCEPT ![PoolOf[t]] = ListPushBack(@, t)] ELSE free

\* os_timer_expired_fetch, with an expiry.
Fetch ==
    /\ timerTask = "fetch" /\ ready # << >>
    /\ LET t == Head(ready)
           finished == ~active[t] /\ ~paused[t]
       IN  /\ ready' = Tail(ready)
           /\ queued' = [queued EXCEPT ![t] = FALSE]
           /\ owed' = [owed EXCEPT ![t] = FALSE]
           /\ SetRunning(IF finished THEN Removed(Now, t) ELSE Now)
           /\ free' = IF finished THEN SlotBack(t) ELSE free
    /\ timerTask' = "callback"
    /\ UNCHANGED <<active, paused, period, until>>

FetchNothing ==
    /\ timerTask = "fetch" /\ ready = << >>
    /\ timerTask' = "check"
    /\ UNCHANGED <<running, ready, free, active, paused, queued, ticksLeft, period,
                   until, owed>>

CallbackReturns ==
    /\ timerTask = "callback"
    /\ timerTask' = "fetch"
    /\ UNCHANGED <<running, ready, free, active, paused, queued, ticksLeft, period,
                   until, owed>>

\* Mutant: the task sleeps without looking again.
AlwaysSleepy == TRUE

NothingReady == ready = << >>

\* The critical section that looks again and sleeps.
CheckAndSleep ==
    /\ timerTask = "check"
    /\ timerTask' = IF NothingReady THEN "asleep" ELSE "fetch"
    /\ UNCHANGED <<running, ready, free, active, paused, queued, ticksLeft, period,
                   until, owed>>

-----------------------------------------------------------------------------
TimerNext ==
    \/ \E t \in User : Arm(t, FALSE)
    \/ \E t \in User : Arm(t, TRUE)
    \/ \E t \in User : PauseTimer(t)
    \/ \E t \in User : StopTimer(t)
    \/ \E t \in User, p \in Period : SetPeriod(t, p)
    \/ \E pool \in Pool : Submit(pool)
    \/ \E n \in 1 .. MaxElapsed : TimerTick(n)
    \/ Fetch
    \/ FetchNothing
    \/ CallbackReturns
    \/ CheckAndSleep

TimerSpec == TimerInit /\ [][TimerNext]_timerVars

-----------------------------------------------------------------------------
(* Properties.                                                             *)

\* The variables keep their types.
TimerTypeOK ==
    /\ running \in Seq(AnyTimer) /\ ready \in Seq(AnyTimer) /\ free \in [Pool -> Seq(Entry)]
    /\ {active, paused, queued, owed} \subseteq [AnyTimer -> BOOLEAN]
    /\ {ticksLeft, until} \subseteq [AnyTimer -> Nat]
    /\ period \in [User -> Period]
    /\ timerTask \in {"fetch", "callback", "check", "asleep"}

\* The deltas of the running list add up to the time each timer really has
\* left, whatever was started, restarted, paused, stopped or re-armed by a
\* window longer than its period in the meantime: no timer fires early, none
\* late, none twice in a window.  A paused timer keeps its time.  The idle task,
\* which asks the head alone, sleeps to the earliest expiry and never with one
\* owed.
CountdownsExact ==
    /\ NoRepeat(running)
    /\ Members(running) = {t \in AnyTimer : active[t]}
    /\ \A k \in DOMAIN running : TicksTo(Now, k) = until[running[k]]
    /\ \A t \in AnyTimer : paused[t] => ticksLeft[t] = until[t]
    /\ \A n \in NextExpiry :
          n = Min({until[t] : t \in {u \in AnyTimer : active[u]}}
                     \cup {0 : t \in {u \in AnyTimer : owed[u]}})
    /\ NextExpiry = {} => \A t \in AnyTimer : ~active[t] /\ ~owed[t]

\* The callbacks that will run are those of the expiries that are owed: a
\* restart or a stop takes its timer's expiry back from the ready list, a pause
\* and a resume do not, and a second expiry joins the first.  os_timer_stop
\* trusts the queued flag to be the other view of the ready list.
DeliveriesOwed ==
    /\ NoRepeat(ready)
    /\ Members(ready) = {t \in AnyTimer : owed[t]}
    /\ Members(ready) = {t \in AnyTimer : queued[t]}

\* An entry is in one place: free in its pool, counting down or about to be
\* delivered.  None is lost to a stale flag, none is handed out twice.
SlotsExact ==
    /\ \A pool \in Pool : NoRepeat(free[pool])
    /\ \A e \in Entry :
          Cardinality({l \in {"free", "running", "ready"} :
              e \in Members(CASE l = "free" -> free[PoolOf[e]]
                            [] l = "running" -> running
                            [] l = "ready" -> ready)}) = 1

\* The timer task does not sleep while a callback waits for it.
NoSleptExpiry == timerTask = "asleep" => ready = << >>

\* Every expiry is delivered, once, and none waits for a task that sleeps.
DeliveriesExact == DeliveriesOwed /\ SlotsExact /\ NoSleptExpiry

-----------------------------------------------------------------------------
(* The rest of the inductive invariant.                                    *)

\* The ticks of a list are the differences between the times of its timers.
DeltaOf(c, time) ==
    /\ NoRepeat(c.list)
    /\ \A k \in DOMAIN c.list :
          c.ticks[c.list[k]] = time[c.list[k]] - (IF k = 1 THEN 0 ELSE time[c.list[k - 1]])

\* Who counts down is active, and who is paused keeps the time it has left.
CountingDown ==
    /\ DeltaOf(Now, until)
    /\ Members(running) = {t \in AnyTimer : active[t]}
    /\ \A t \in AnyTimer : paused[t] => ~active[t] /\ t \in User /\ ticksLeft[t] = until[t]

\* An entry is in one of three places.
InPlace ==
    \A e \in Entry :
        /\ e \in Members(free[PoolOf[e]]) <=> e \notin Members(running) /\ e \notin Members(ready)
        /\ e \notin Members(running) \/ e \notin Members(ready)
FreeOnce ==
    \A pool \in Pool : /\ NoRepeat(free[pool])
                       /\ Members(free[pool]) \subseteq {e \in Entry : PoolOf[e] = pool}

TimerIInv ==
    TimerTypeOK /\ CountingDown /\ DeliveriesOwed /\ InPlace /\ FreeOnce /\ NoSleptExpiry
=============================================================================
