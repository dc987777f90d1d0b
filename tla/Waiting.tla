------------------------------- MODULE Waiting -------------------------------
(***************************************************************************)
(* The waiting machinery of kernel/os_task.c, which every blocking object  *)
(* is built on: priority-ordered waiter lists, advisory wakeups that make  *)
(* the woken task try again, wait timeouts, and os_task_wake_compensate,   *)
(* which passes an unconsumed wakeup on when the woken task is paused or   *)
(* deleted.                                                                *)
(*                                                                         *)
(* The modules of the objects extend this one, say what the waiter lists   *)
(* are, and add what the object holds.  An action here is a step of the    *)
(* waiting machinery alone; it says nothing about the object.              *)
(*                                                                         *)
(* A step is one critical section.  The scheduler (module Scheduler) is    *)
(* reduced to which task contexts are on a core.  Time is reduced to       *)
(* whether a wait's budget is spent.                                       *)
(***************************************************************************)
EXTENDS Integers, FiniteSets, OsList

CONSTANTS
    Task,           \* the tasks
    WaitList,       \* the waiter lists of all objects
    NoList,         \* a NULL list pointer
    MaxPrio,        \* priorities are 1..MaxPrio
    NumCores        \* OS_CONFIG_CORE_COUNT

ASSUME WaitingAssumption ==
    /\ IsFiniteSet(Task)
    /\ NoList \notin WaitList
    /\ MaxPrio \in Nat \ {0}
    /\ NumCores \in Nat \ {0}

Prio == 1 .. MaxPrio
Timeout == {"nothing", "finite", "forever"}

VARIABLES
    \* the TCBs
    state,          \* tcb->state
    prio,           \* tcb->priority
    delayed,        \* the tasks linked in os_task_delay_list
    signaled,       \* tcb->wait_signaled
    wokenFrom,      \* tcb->woken_from
    \* the cores
    onCore,         \* the tasks that are some core's os_task_current
    \* the objects
    waiters,        \* the tasks linked in each list, head first
    \* the blocking calls in progress
    pc,             \* "out" of a call, "try", "wait" or "expired"; "ask" or
                    \* "asleep" in os_notify_wait, which waits in no list
    target,         \* the list the call waits in
    timeout,        \* its timeout_ms
    spent           \* is remaining_ticks 0?

tcbVars == <<state, prio, delayed, signaled, wokenFrom>>
callVars == <<pc, target, timeout, spent>>
waitingVars == <<tcbVars, onCore, waiters, callVars>>

\* t executes its own code.
Executing(t) == t \in onCore /\ state[t] = "RUNNING"

Live(t) == state[t] # "INACTIVE"

WaitingInit ==
    /\ state = [t \in Task |-> "SUSPENDED"]
    /\ prio \in [Task -> Prio]
    /\ delayed = {}
    /\ signaled = [t \in Task |-> FALSE]
    /\ wokenFrom = [t \in Task |-> NoList]
    /\ onCore = {}
    /\ waiters = [s \in WaitList |-> << >>]
    /\ pc = [t \in Task |-> "out"]
    /\ target \in [Task -> WaitList]
    /\ timeout = [t \in Task |-> "nothing"]
    /\ spent = [t \in Task |-> FALSE]

-----------------------------------------------------------------------------
(* Waiter lists.                                                           *)

\* Mutant: waiters queue in order of arrival.
IsLastPosition(list, i, p) == i = Len(list) + 1

\* Where os_task_wait_node_insert puts a task of priority p: before the first
\* waiter of strictly lower priority.
IsWaitPosition(list, i, p) ==
    /\ \A j \in 1 .. i - 1 : prio[list[j]] >= p
    /\ i <= Len(list) => prio[list[i]] < p

\* The task os_task_waiters_wake_one takes from list s, if any.
Waking(s) == IF waiters[s] = << >> THEN {} ELSE {Head(waiters[s])}

\* t was woken and has not looked at what it was woken for.
Unconsumed(t) == state[t] = "READY" /\ signaled[t] /\ wokenFrom[t] # NoList

\* Mutant: an unconsumed wakeup is dropped.
CompensatingNobody(t) == {}

\* The task that os_task_wake_compensate wakes instead of t, if any.
Compensating(t) == IF Unconsumed(t) THEN Waking(wokenFrom[t]) ELSE {}

\* waiters once the tasks of gone, at most one per list, have left it.
WaitersWithout(gone) ==
    [s \in WaitList |->
        IF gone \cap Members(waiters[s]) = {} THEN waiters[s]
        ELSE ListRemove(waiters[s], CHOOSE t \in gone \cap Members(waiters[s]) : TRUE)]

-----------------------------------------------------------------------------
(* A blocking call: it tries; if it may, it waits, and tries again once it *)
(* is signaled.  A call under the scheduler lock cannot block and behaves  *)
(* as one with OS_WAIT_NOTHING.                                            *)

Call(t, s, limit) ==
    /\ Executing(t) /\ pc[t] = "out"
    /\ pc' = [pc EXCEPT ![t] = "try"]
    /\ target' = [target EXCEPT ![t] = s]
    /\ timeout' = [timeout EXCEPT ![t] = limit]
    /\ UNCHANGED <<tcbVars, onCore, waiters, spent>>

Trying(t) == Executing(t) /\ pc[t] = "try"

\* The call may not wait, or not any more.
GivesUp(t) == timeout[t] = "nothing" \/ spent[t]

\* os_task_wait_end for t.
WaitEnd(t) ==
    /\ signaled' = [signaled EXCEPT ![t] = FALSE]
    /\ wokenFrom' = [wokenFrom EXCEPT ![t] = NoList]

Return(t) ==
    /\ pc' = [pc EXCEPT ![t] = "out"]
    /\ timeout' = [timeout EXCEPT ![t] = "nothing"]
    /\ spent' = [spent EXCEPT ![t] = FALSE]
    /\ UNCHANGED target

\* The call ends, with whatever result.
Finish(t) ==
    /\ WaitEnd(t)
    /\ Return(t)
    /\ UNCHANGED <<state, prio, delayed, onCore, waiters>>

\* os_task_wait_begin.
WaitBegin(t) ==
    LET s == target[t]
    IN  /\ ~GivesUp(t)
        /\ \E i \in 1 .. Len(waiters[s]) + 1 :
              /\ IsWaitPosition(waiters[s], i, prio[t])
              /\ waiters' = [waiters EXCEPT ![s] = ListInsertBefore(@, i, t)]
        /\ signaled' = [signaled EXCEPT ![t] = FALSE]
        /\ wokenFrom' = [wokenFrom EXCEPT ![t] = NoList]
        /\ state' = [state EXCEPT ![t] = "BLOCKED"]
        /\ delayed' = IF timeout[t] = "finite" THEN delayed \cup {t} ELSE delayed
        /\ pc' = [pc EXCEPT ![t] = "wait"]
        /\ UNCHANGED <<prio, onCore, target, timeout, spent>>

\* Back on a core: os_task_wait_signaled, os_internal_wait_remaining.
Resume(t) ==
    /\ Executing(t) /\ pc[t] = "wait"
    /\ IF signaled[t]
       THEN /\ pc' = [pc EXCEPT ![t] = "try"]
            /\ \E zero \in IF timeout[t] = "finite" THEN BOOLEAN ELSE {FALSE} :
                  spent' = [spent EXCEPT ![t] = zero]
       ELSE /\ pc' = [pc EXCEPT ![t] = "expired"]
            /\ UNCHANGED spent
    /\ UNCHANGED <<tcbVars, onCore, waiters, target, timeout>>

\* OS_ERR_TIMEOUT.
TimedOut(t) ==
    /\ Executing(t) /\ pc[t] = "expired"
    /\ Finish(t)

\* The wait ran out; the call tries once more, without a budget.
TryOnce(t) ==
    /\ Executing(t) /\ pc[t] = "expired"
    /\ WaitEnd(t)
    /\ pc' = [pc EXCEPT ![t] = "try"]
    /\ spent' = [spent EXCEPT ![t] = TRUE]
    /\ UNCHANGED <<state, prio, delayed, onCore, waiters, target, timeout>>

-----------------------------------------------------------------------------
(* Waking.                                                                 *)

\* os_task_waiters_wake_one on s, by a task or an interrupt handler; the waits
\* of the tasks in enders end in the same critical section.
Wakes(s, enders) ==
    /\ state' = [t \in Task |-> IF t \in Waking(s) THEN "READY" ELSE state[t]]
    /\ signaled' = [t \in Task |-> t \in Waking(s) \/ (signaled[t] /\ t \notin enders)]
    /\ wokenFrom' = [t \in Task |-> IF t \in Waking(s) THEN s
                                    ELSE IF t \in enders THEN NoList ELSE wokenFrom[t]]
    /\ delayed' = delayed \ Waking(s)
    /\ waiters' = WaitersWithout(Waking(s))
    /\ UNCHANGED <<prio, onCore>>

WakeOne(s) ==
    /\ Wakes(s, {})
    /\ UNCHANGED callVars

\* os_task_waiters_wake_match, where the callback accepts hits, each from the
\* list it waits in; the waits of the tasks in enders end in the same section.
WakeAll(hits, enders) ==
    /\ state' = [t \in Task |-> IF t \in hits THEN "READY" ELSE state[t]]
    /\ signaled' = [t \in Task |-> t \in hits \/ (signaled[t] /\ t \notin enders)]
    /\ wokenFrom' = [t \in Task |-> IF t \in hits THEN target[t]
                                    ELSE IF t \in enders THEN NoList ELSE wokenFrom[t]]
    /\ delayed' = delayed \ hits
    /\ waiters' = [s \in WaitList |-> ListWithout(waiters[s], hits)]
    /\ UNCHANGED <<prio, onCore>>

\* t's attempt succeeds and lets a waiter of s try.
FinishWaking(t, s) ==
    /\ Wakes(s, {t})
    /\ Return(t)

(* The tick expires a wait: os_task_tick_update, one expiry.  A tick that  *)
(* expires several waits is as many of these steps in a row.               *)

\* Mutant: the expired task stays in the waiter list.
ExpireKeepsWaiter(t) ==
    /\ t \in delayed
    /\ delayed' = delayed \ {t}
    /\ state' = [state EXCEPT ![t] = "READY"]
    /\ UNCHANGED <<prio, signaled, wokenFrom, onCore, waiters, callVars>>

Expire(t) ==
    /\ t \in delayed
    /\ delayed' = delayed \ {t}
    /\ waiters' = WaitersWithout({t})
    /\ state' = [state EXCEPT ![t] = "READY"]
    /\ UNCHANGED <<prio, signaled, wokenFrom, onCore, callVars>>

-----------------------------------------------------------------------------
(* Task control, by other tasks.                                           *)

\* Mutant: a wait cut short by os_task_start looks like a timeout.
StartUnsignaled(t) ==
    /\ Live(t)
    /\ waiters' = WaitersWithout({t})
    /\ delayed' = delayed \ {t}
    /\ state' = [state EXCEPT ![t] = IF t \in onCore THEN "RUNNING" ELSE "READY"]
    /\ UNCHANGED <<prio, signaled, wokenFrom, onCore, callVars>>

Start(t) ==
    /\ Live(t)
    /\ waiters' = WaitersWithout({t})
    /\ delayed' = delayed \ {t}
    /\ signaled' = [signaled EXCEPT ![t] = @ \/ state[t] = "BLOCKED"]
    /\ state' = [state EXCEPT ![t] = IF t \in onCore THEN "RUNNING" ELSE "READY"]
    /\ UNCHANGED <<prio, wokenFrom, onCore, callVars>>

\* The caller itself is outside of a blocking call; others are on no core.
MayTearDown(t) ==
    /\ Live(t)
    /\ t \notin onCore \/ (Executing(t) /\ pc[t] = "out")

Pause(t) ==
    LET next == Compensating(t)
    IN  /\ MayTearDown(t)
        /\ state' = [u \in Task |-> IF u = t THEN "SUSPENDED"
                                    ELSE IF u \in next THEN "READY" ELSE state[u]]
        /\ signaled' = [u \in Task |-> \/ signaled[u]
                                       \/ u \in next
                                       \/ u = t /\ state[t] = "BLOCKED"]
        /\ wokenFrom' = [u \in Task |-> IF u \in next THEN wokenFrom[t]
                                        ELSE IF u = t /\ Unconsumed(t) THEN NoList
                                        ELSE wokenFrom[u]]
        /\ waiters' = WaitersWithout({t} \cup next)
        /\ delayed' = delayed \ ({t} \cup next)
        /\ UNCHANGED <<prio, onCore, callVars>>

\* os_task_delete and os_task_tcb_clear; the call t was in is gone with it.
Delete(t) ==
    LET next == Compensating(t)
    IN  /\ MayTearDown(t)
        /\ state' = [u \in Task |-> IF u = t THEN "INACTIVE"
                                    ELSE IF u \in next THEN "READY" ELSE state[u]]
        /\ signaled' = [u \in Task |-> u # t /\ (signaled[u] \/ u \in next)]
        /\ wokenFrom' = [u \in Task |-> IF u \in next THEN wokenFrom[t]
                                        ELSE IF u = t THEN NoList
                                        ELSE wokenFrom[u]]
        /\ waiters' = WaitersWithout({t} \cup next)
        /\ delayed' = delayed \ ({t} \cup next)
        /\ onCore' = onCore \ {t}
        /\ Return(t)
        /\ UNCHANGED prio

Create(t, p) ==
    /\ state[t] = "INACTIVE"
    /\ state' = [state EXCEPT ![t] = "SUSPENDED"]
    /\ prio' = [prio EXCEPT ![t] = p]
    /\ UNCHANGED <<delayed, signaled, wokenFrom, onCore, waiters, callVars>>

\* os_task_effective_priority_set; a queued task is taken out and inserted
\* again.
Reprioritize(t, p) ==
    LET s == target[t]
        rest == WaitersWithout({t})
    IN  /\ prio' = [prio EXCEPT ![t] = p]
        /\ IF t \in Members(waiters[s]) /\ p # prio[t]
           THEN \E i \in 1 .. Len(rest[s]) + 1 :
                  /\ IsWaitPosition(rest[s], i, p)
                  /\ waiters' = [rest EXCEPT ![s] = ListInsertBefore(@, i, t)]
           ELSE UNCHANGED waiters
        /\ UNCHANGED <<state, delayed, signaled, wokenFrom, onCore, callVars>>

-----------------------------------------------------------------------------
(* The scheduler.                                                          *)

Dispatch(t) ==
    /\ state[t] = "READY" /\ t \notin onCore
    /\ Cardinality(onCore) < NumCores
    /\ state' = [state EXCEPT ![t] = "RUNNING"]
    /\ onCore' = onCore \cup {t}
    /\ UNCHANGED <<prio, delayed, signaled, wokenFrom, waiters, callVars>>

SwitchOut(t) ==
    /\ t \in onCore
    /\ onCore' = onCore \ {t}
    /\ state' = [state EXCEPT ![t] = IF @ = "RUNNING" THEN "READY" ELSE @]
    /\ UNCHANGED <<prio, delayed, signaled, wokenFrom, waiters, callVars>>

-----------------------------------------------------------------------------
(* The steps that are the same for every object.                           *)

\* Timeouts, task control and the scheduler.
ControlStep(t) ==
    \/ Expire(t)
    \/ Start(t)
    \/ Pause(t)
    \/ Delete(t)
    \/ \E p \in Prio : Create(t, p)
    \/ \E p \in Prio : Live(t) /\ Reprioritize(t, p)
    \/ Dispatch(t)
    \/ SwitchOut(t)

WaitStep(t) ==
    \/ \E s \in WaitList, limit \in Timeout : Call(t, s, limit)
    \/ ControlStep(t)

\* What any step of an object does to the waiting machinery.
WaitingStep ==
    \/ \E t \in Task :
          \/ WaitStep(t) \/ Resume(t) \/ TimedOut(t) \/ TryOnce(t)
          \/ Executing(t) /\ Finish(t)
          \/ Trying(t) /\ WaitBegin(t)
          \/ Trying(t) /\ \E s \in WaitList : FinishWaking(t, s)
    \/ \E s \in WaitList : WakeOne(s)
    \/ UNCHANGED waitingVars

-----------------------------------------------------------------------------
(* What every object expects of its waiter lists.                          *)

\* The variables keep their types.
WaitingTypeOK ==
    /\ state \in [Task -> {"INACTIVE", "SUSPENDED", "READY", "RUNNING", "BLOCKED"}]
    /\ prio \in [Task -> Prio]
    /\ delayed \subseteq Task
    /\ signaled \in [Task -> BOOLEAN]
    /\ wokenFrom \in [Task -> WaitList \cup {NoList}]
    /\ onCore \subseteq Task
    /\ waiters \in [WaitList -> Seq(Task)]
    /\ pc \in [Task -> {"out", "try", "wait", "expired", "ask", "asleep"}]
    /\ target \in [Task -> WaitList]
    /\ timeout \in [Task -> Timeout]
    /\ spent \in [Task -> BOOLEAN]

\* A task is in a waiter list exactly while it is BLOCKED in a call that waits
\* there, once, and only such a task can time out.
WaitersExact ==
    /\ \A s \in WaitList : NoRepeat(waiters[s])
    /\ \A s \in WaitList, t \in Task :
          t \in Members(waiters[s])
             <=> state[t] = "BLOCKED" /\ pc[t] = "wait" /\ target[t] = s
    /\ \A t \in delayed : state[t] = "BLOCKED" /\ timeout[t] = "finite"

\* The head of a waiter list is a waiter of the highest priority, whatever
\* the task's priority was when it joined: wake_one relies on it.
WaitersSorted ==
    \A s \in WaitList : \A i, j \in DOMAIN waiters[s] :
        i < j => prio[waiters[s][i]] >= prio[waiters[s][j]]

\* The tasks that hold a wakeup of s they have not consumed.
Woken(s) == {t \in Task : wokenFrom[t] = s}

\* A woken task is able to run, and will look at the object it was woken for.
WokenAlive ==
    \A s \in WaitList : \A t \in Woken(s) :
        /\ state[t] \in {"READY", "RUNNING"}
        /\ signaled[t]
        /\ pc[t] \in {"wait", "try"} /\ target[t] = s

\* A call with OS_WAIT_FOREVER never reports a timeout, whoever pauses, starts
\* or reprioritises the task meanwhile.
ForeverWaits ==
    \A t \in Task : timeout[t] = "forever" => pc[t] # "expired" /\ ~spent[t]
=============================================================================
