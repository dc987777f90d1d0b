----------------------------- MODULE DelayList ------------------------------
(***************************************************************************)
(* The delay list of kernel/os_task.c: a delta list, in which every task   *)
(* holds the ticks it waits after the task in front of it.                 *)
(*                                                                         *)
(* The two loops over the list, in os_task_delay_insert and in             *)
(* os_task_tick_update, take a step per entry; they run in a critical      *)
(* section, so that nothing happens between their steps.                   *)
(***************************************************************************)
EXTENDS Integers, OsList

CONSTANTS
    Sleeper,
    MaxTicks,       \* bound on a delay and on an announced window
    NoSleeper       \* no insertion in progress

ASSUME DelayListAssumption ==
    /\ MaxTicks \in Nat \ {0}
    /\ NoSleeper \notin Sleeper

Ticks == 1 .. MaxTicks

VARIABLES
    list,           \* os_task_delay_list
    delta,          \* tcb->delay_ticks
    inserting,      \* the task os_task_delay_insert was called for
    at,             \* the position of its local variable node
    ticking,        \* is os_task_tick_update in its loop?
    carry,          \* remaining of the first, elapsed_ticks of the second
    toWake          \* history: the ticks to go until each task must wake

listVars == <<list, delta, inserting, at, ticking, carry, toWake>>

Asleep == Members(list)
Idle == inserting = NoSleeper /\ ~ticking

ListInit ==
    /\ list = << >>
    /\ delta = [t \in Sleeper |-> 0]
    /\ inserting = NoSleeper
    /\ at = 1
    /\ ticking = FALSE
    /\ carry = 0
    /\ toWake = [t \in Sleeper |-> 0]

-----------------------------------------------------------------------------
(* os_task_delay_insert, called by os_task_sleep_ticks and by              *)
(* os_task_wait_begin for a task that is in no list.                       *)

Sleep(t, n) ==
    /\ Idle
    /\ t \notin Asleep
    /\ inserting' = t
    /\ at' = 1
    /\ carry' = n
    /\ toWake' = [toWake EXCEPT ![t] = n]
    /\ UNCHANGED <<list, delta, ticking>>

\* Mutant: the walk does not stop at an entry that wakes later.
WakesBeforeAlways == at <= Len(list)

\* The entry at the position wakes first, or at the same time.
WakesBefore == at <= Len(list) /\ delta[list[at]] <= carry

InsertWalk ==
    /\ inserting # NoSleeper
    /\ WakesBefore
    /\ carry' = carry - delta[list[at]]
    /\ at' = at + 1
    /\ UNCHANGED <<list, delta, inserting, ticking, toWake>>

\* Mutant: the entry behind keeps the time it waited after its old neighbour.
LinkKeepsFollower(t) == [delta EXCEPT ![t] = carry]

\* The deltas once t is linked in front of the entry at the position.
LinkedDelta(t) ==
    [u \in Sleeper |-> IF u = t THEN carry
                    ELSE IF at <= Len(list) /\ u = list[at] THEN delta[u] - carry
                    ELSE delta[u]]

InsertLink ==
    /\ inserting # NoSleeper
    /\ ~WakesBefore
    /\ delta' = LinkedDelta(inserting)
    /\ list' = ListInsertBefore(list, at, inserting)
    /\ inserting' = NoSleeper
    /\ UNCHANGED <<at, ticking, carry, toWake>>

-----------------------------------------------------------------------------
(* os_task_delay_remove: an early wake, a pause, a deletion.               *)

\* Mutant: the entry behind wakes early by the time t was waiting for.
RemoveDropsShare(t) == delta

\* The deltas once t has handed its share to the entry behind it.
HandedOver(t) ==
    [u \in Sleeper |->
        IF \E i \in 1 .. Len(list) - 1 : list[i] = t /\ list[i + 1] = u
        THEN delta[u] + delta[t]
        ELSE delta[u]]

RemoveSleeper(t) ==
    /\ Idle
    /\ t \in Asleep
    /\ delta' = HandedOver(t)
    /\ list' = ListRemove(list, t)
    /\ toWake' = [toWake EXCEPT ![t] = 0]
    /\ UNCHANGED <<inserting, at, ticking, carry>>

-----------------------------------------------------------------------------
(* os_task_tick_update, from the tick interrupt (one tick) and from        *)
(* os_tick_announce (a suppressed window).                                 *)

TickUpdate(n) ==
    /\ Idle
    /\ ticking' = TRUE
    /\ carry' = n
    /\ toWake' = [t \in Sleeper |-> IF t \in Asleep THEN toWake[t] - n ELSE toWake[t]]
    /\ UNCHANGED <<list, delta, inserting, at>>

Due == list # << >> /\ delta[Head(list)] <= carry

\* Mutant: the whole window is charged to every entry.
CarryAll == carry

\* The elapsed ticks that remain for the entry behind the head.
CarryOn == carry - delta[Head(list)]

\* The entry is zeroed, unlinked and made ready.
TickExpire ==
    /\ ticking /\ Due
    /\ carry' = CarryOn
    /\ delta' = [delta EXCEPT ![Head(list)] = 0]
    /\ list' = Tail(list)
    /\ toWake' = [toWake EXCEPT ![Head(list)] = 0]
    /\ UNCHANGED <<inserting, at, ticking>>

TickEnd ==
    /\ ticking /\ ~Due
    /\ ticking' = FALSE
    /\ delta' = IF list = << >> THEN delta
                ELSE [delta EXCEPT ![Head(list)] = @ - carry]
    /\ UNCHANGED <<list, inserting, at, carry, toWake>>

-----------------------------------------------------------------------------
ListNext ==
    \/ \E t \in Sleeper, n \in Ticks : Sleep(t, n)
    \/ InsertWalk
    \/ InsertLink
    \/ \E t \in Sleeper : RemoveSleeper(t)
    \/ \E n \in Ticks : TickUpdate(n)
    \/ TickExpire
    \/ TickEnd

ListSpec == ListInit /\ [][ListNext]_listVars

-----------------------------------------------------------------------------
(* Properties.                                                             *)

\* The variables keep their types: no delta and no carry goes below zero,
\* which in the code would be a wait of 2^32 ticks.
ListTypeOK ==
    /\ list \in Seq(Sleeper)
    /\ delta \in [Sleeper -> Nat]
    /\ inserting \in Sleeper \cup {NoSleeper}
    /\ at \in Nat \ {0}
    /\ ticking \in BOOLEAN
    /\ carry \in Nat
    /\ toWake \in [Sleeper -> Int]

\* The deltas are the differences between the times at which the sleepers must
\* wake; inside os_task_tick_update the head also holds the time not yet spent.
DeltasExact ==
    /\ NoRepeat(list)
    /\ list # << >> =>
          delta[list[1]] = toWake[list[1]] + (IF ticking THEN carry ELSE 0)
    /\ \A i \in 1 .. Len(list) - 1 :
          delta[list[i + 1]] = toWake[list[i + 1]] - toWake[list[i]]

\* os_task_next_delay_ticks_get: one read of the head says how long nobody
\* needs to be woken, which is what tickless idle sleeps for.
NextDelay == delta[Head(list)]

NextDelayExact ==
    Idle /\ list # << >> =>
        /\ \E t \in Asleep : toWake[t] = NextDelay
        /\ \A t \in Asleep : toWake[t] >= NextDelay

\* The delay list implements an alarm for every sleeper: it rings in the
\* update that reaches its time, never earlier, and the earliest first.
Alarms == INSTANCE Alarm WITH
    asleep <- Asleep,
    Task <- Sleeper,
    left <- [t \in Sleeper |-> IF t = inserting THEN 0 ELSE toWake[t]]

ImplementsAlarm == Alarms!Spec

-----------------------------------------------------------------------------
(* The rest of the inductive invariant.                                    *)

\* The sleepers are in the order of their times, none of them overdue outside
\* of os_task_tick_update, and nobody else has a time to wait for.
Sorted ==
    /\ \A i, j \in 1 .. Len(list) : i < j => toWake[list[i]] <= toWake[list[j]]
    /\ ~ticking => \A t \in Asleep : toWake[t] > 0
    /\ \A t \in Sleeper \ Asleep : t # inserting => toWake[t] = 0

\* What os_task_delay_insert has walked past wakes first, and carry is what
\* remains of the wait behind it.
Walked ==
    inserting # NoSleeper =>
        /\ ~ticking
        /\ inserting \notin Asleep
        /\ toWake[inserting] \in Ticks
        /\ at <= Len(list) + 1
        /\ carry = toWake[inserting] - (IF at = 1 THEN 0 ELSE toWake[list[at - 1]])

ListIInv == ListTypeOK /\ DeltasExact /\ Sorted /\ Walked
=============================================================================
