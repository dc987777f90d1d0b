-------------------------------- MODULE Mutex --------------------------------
(***************************************************************************)
(* Mutexes with priority inheritance, kernel/os_mutex.c and                *)
(* kernel/os_task_mutex.c, over the waiting machinery of kernel/os_task.c  *)
(* (module Waiting), with one waiter list per mutex.  Module Locks         *)
(* composes them with semaphores.                                          *)
(*                                                                         *)
(* A task's priority follows those who wait behind it.  What changes a     *)
(* priority walks the chain of owners, one task per WalkStep; the walk and *)
(* what the call does after it are still the same critical section, so     *)
(* every other step needs Quiet.                                           *)
(*                                                                         *)
(* tcb->pi_owner_id is left out: it is read only where blocked_on_mutex is *)
(* NULL, and both are set and cleared in the same critical sections.       *)
(***************************************************************************)
EXTENDS Waiting

CONSTANTS
    Mutex,          \* the mutexes, each named by its waiter list
    Nobody,         \* the task id 0, and a NULL TCB
    Gone,           \* the id of a task that was deleted
    MaxDepth        \* OS_TASK_DEADLOCK_MAX_DEPTH

ASSUME MutexAssumption ==
    /\ Mutex \subseteq WaitList
    /\ Nobody \notin Task /\ Gone \notin Task /\ Nobody # Gone
    /\ MaxDepth \in Nat \ {0}

VARIABLES
    asserting,      \* OS_CONFIG_ASSERT_ENABLE of the build
    locked,         \* mutex->locked
    owner,          \* mutex->owner_id
    ownedMutexes,   \* tcb->owned_mutexes, as a set
    base,           \* tcb->base_priority
    blockedOn,      \* tcb->blocked_on_mutex
    blockedForever, \* tcb->blocked_forever
    \* the critical section in progress
    walk,           \* the task the chain walk is at
    depth,          \* the tasks it recomputed before
    joining,        \* the task that boosted an owner and is about to wait
    releasing       \* the mutex just unlocked, whose waiter is about to wake

ownerVars == <<locked, owner, ownedMutexes>>
edgeVars == <<blockedOn, blockedForever>>
sectionVars == <<walk, depth, joining, releasing>>
mutexVars == <<asserting, ownerVars, base, edgeVars, sectionVars>>

\* No critical section is half way.
Quiet == walk = Nobody /\ joining = Nobody /\ releasing = NoList

\* Code that ran before os_start may have locked mutexes, in nobody's name.
MutexesInit ==
    /\ asserting \in BOOLEAN
    /\ locked \in [Mutex -> BOOLEAN]
    /\ owner = [m \in Mutex |-> Nobody]
    /\ ownedMutexes = [t \in Task |-> {}]
    /\ base = prio
    /\ blockedOn = [t \in Task |-> NoList]
    /\ blockedForever = [t \in Task |-> FALSE]
    /\ walk = Nobody /\ depth = 0
    /\ joining = Nobody /\ releasing = NoList

-----------------------------------------------------------------------------
(* Priority inheritance, os_task_mutex.c.                                  *)

\* Mutant: the id of a deleted task still finds its TCB.
FindSlot(id) == id

\* os_task_find_by_id.
FindById(id) == IF id \in Task THEN id ELSE Nobody

\* The priorities owed to t: the heads of the waiter lists of what it owns.
Owed(t) == {prio[Head(waiters[m])] : m \in {h \in ownedMutexes[t] : waiters[h] # << >>}}

\* p is what os_task_mutex_effective_recompute gives t.
IsRecomputed(t, p) ==
    /\ p \in {base[t]} \cup Owed(t)
    /\ \A q \in {base[t]} \cup Owed(t) : q <= p

\* os_task_mutex_priority_recompute starts at t.
RecomputeFrom(t) == walk' = t /\ depth' = 0

\* The task that t waits behind.
NextInChain(t) == IF blockedOn[t] = NoList THEN Nobody ELSE FindById(owner[blockedOn[t]])

WalkStep ==
    /\ walk # Nobody
    /\ \E p \in Prio : IsRecomputed(walk, p) /\ Reprioritize(walk, p)
    /\ IF depth + 1 < MaxDepth /\ NextInChain(walk) # Nobody
       THEN walk' = NextInChain(walk) /\ depth' = depth + 1
       ELSE RecomputeFrom(Nobody)
    /\ UNCHANGED <<asserting, ownerVars, base, edgeVars, joining, releasing>>

\* os_task_mutex_waiter_depart_tcb for the tasks of gone, of which one at most
\* waited for a mutex.
Depart(gone) ==
    LET owners == {NextInChain(t) : t \in gone} \ {Nobody}
    IN  /\ blockedOn' = [t \in Task |-> IF t \in gone THEN NoList ELSE blockedOn[t]]
        /\ blockedForever' = [t \in Task |-> t \notin gone /\ blockedForever[t]]
        /\ RecomputeFrom(IF owners = {} THEN Nobody ELSE CHOOSE o \in owners : TRUE)

\* The tasks linked in some waiter list, for which os_task_unlink departs.
Queued == UNION {Members(waiters[s]) : s \in WaitList}

-----------------------------------------------------------------------------
(* os_mutex_lock.                                                          *)

\* os_task_mutex_owner_link: t now owes its priority to those who wait on.
LinkOwned(t, m) ==
    /\ ownedMutexes' = [ownedMutexes EXCEPT ![t] = @ \cup {m}]
    /\ RecomputeFrom(IF waiters[m] = << >> THEN Nobody ELSE t)

\* os_task_mutex_blocked_on_set.
Publish(t, m, endless) ==
    /\ blockedOn' = [blockedOn EXCEPT ![t] = m]
    /\ blockedForever' = [blockedForever EXCEPT ![t] = endless]

Locking(t, m) == Quiet /\ Trying(t) /\ target[t] = m

LockOk(t, m) ==
    /\ Locking(t, m) /\ ~locked[m]
    /\ locked' = [locked EXCEPT ![m] = TRUE]
    /\ owner' = [owner EXCEPT ![m] = t]
    /\ LinkOwned(t, m)
    /\ Finish(t)
    /\ Publish(t, NoList, FALSE)
    /\ UNCHANGED <<asserting, base, joining, releasing>>

\* OS_ERR_BUSY, also when t holds m already, or OS_ERR_TIMEOUT.
LockFail(t, m) ==
    /\ Locking(t, m) /\ locked[m]
    /\ owner[m] = t \/ GivesUp(t)
    /\ Finish(t)
    /\ Depart({t})
    /\ UNCHANGED <<asserting, ownerVars, base, joining, releasing>>

\* The mutexes that os_task_mutex_deadlock_check visits from m on.
Link(m) ==
    LET link[n \in 0 .. MaxDepth - 1] ==
            IF n = 0 THEN m
            ELSE LET holder == IF link[n - 1] = NoList THEN Nobody
                               ELSE FindById(owner[link[n - 1]])
                 IN  IF holder # Nobody /\ blockedForever[holder]
                     THEN blockedOn[holder] ELSE NoList
    IN  link

\* Mutant: only the mutex that is asked for is looked at.
HeldByCaller(t, m) == owner[m] = t

\* Would t close a cycle of endless waits?
DeadlockCheck(t, m) ==
    \E n \in 0 .. MaxDepth - 1 : Link(m)[n] # NoList /\ owner[Link(m)[n]] = t

\* t is about to wait for m.  A failed assertion stops the program.
MustWait(t, m) ==
    /\ Locking(t, m) /\ locked[m]
    /\ owner[m] # t /\ ~GivesUp(t)
    /\ asserting /\ timeout[t] = "forever" => ~DeadlockCheck(t, m)

Outranks(t, m) == owner[m] \in Task /\ prio[t] > prio[owner[m]]

\* os_task_mutex_priority_inherit, when there is a boost to give.
LockBoost(t, m) ==
    /\ MustWait(t, m) /\ Outranks(t, m)
    /\ Reprioritize(owner[m], prio[t])
    /\ RecomputeFrom(NextInChain(owner[m]))
    /\ joining' = t
    /\ UNCHANGED <<asserting, ownerVars, base, edgeVars, releasing>>

\* The rest: os_task_mutex_blocked_on_set and os_task_wait_begin.
LockJoin(t, m) ==
    /\ \/ joining = t /\ walk = Nobody /\ target[t] = m
       \/ MustWait(t, m) /\ ~Outranks(t, m)
    /\ joining' = Nobody
    /\ Publish(t, m, timeout[t] = "forever")
    /\ WaitBegin(t)
    /\ UNCHANGED <<asserting, ownerVars, base, walk, depth, releasing>>

LockTimedOut(t, m) ==
    /\ Quiet /\ target[t] = m
    /\ TimedOut(t)
    /\ Depart({t})
    /\ UNCHANGED <<asserting, ownerVars, base, joining, releasing>>

-----------------------------------------------------------------------------
(* os_mutex_unlock.                                                        *)

\* Mutant: an unlocked mutex stays in its owner's list.
UnlinkForgotten(m) ==
    /\ UNCHANGED ownedMutexes
    /\ RecomputeFrom(IF waiters[m] = << >> THEN Nobody ELSE FindById(owner[m]))

\* os_task_mutex_owner_unlink_and_reprioritize: the owner, who need not be the
\* caller, is owed nothing by those who wait on.
UnlinkOwned(m) ==
    /\ ownedMutexes' = [t \in Task |-> IF t = owner[m] THEN ownedMutexes[t] \ {m}
                                       ELSE ownedMutexes[t]]
    /\ RecomputeFrom(IF waiters[m] = << >> THEN Nobody ELSE FindById(owner[m]))

\* ERROR if m is not locked, NOT_OWNER if it is another task's.
Unlock(t, m) ==
    /\ Quiet /\ Executing(t) /\ pc[t] = "out"
    /\ locked[m] /\ owner[m] \in {t, Nobody}
    /\ locked' = [locked EXCEPT ![m] = FALSE]
    /\ owner' = [owner EXCEPT ![m] = Nobody]
    /\ UnlinkOwned(m)
    /\ releasing' = IF waiters[m] = << >> THEN NoList ELSE m
    /\ UNCHANGED <<waitingVars, asserting, base, edgeVars, joining>>

\* Mutant: nobody is woken.
ReleaseSilently(m) ==
    /\ releasing = m /\ walk = Nobody
    /\ releasing' = NoList
    /\ UNCHANGED <<waitingVars, asserting, ownerVars, base, edgeVars, walk, depth, joining>>

\* The rest: the highest waiter tries again.
Release(m) ==
    /\ releasing = m /\ walk = Nobody
    /\ WakeOne(m)
    /\ Depart(Waking(m))
    /\ releasing' = NoList
    /\ UNCHANGED <<asserting, ownerVars, base, joining>>

-----------------------------------------------------------------------------
(* Task control in a build with mutexes.                                   *)

\* Mutant: a wait that ends early leaves the boost where it is.
LeaveBoosted(t) ==
    /\ Quiet
    /\ Expire(t)
    /\ Publish(t, NoList, FALSE)
    /\ UNCHANGED <<asserting, ownerVars, base, sectionVars>>

ExpireWait(t) ==
    /\ Quiet
    /\ Expire(t)
    /\ Depart({t} \cap Queued)
    /\ UNCHANGED <<asserting, ownerVars, base, joining, releasing>>

StartTask(t) ==
    /\ Quiet
    /\ Start(t)
    /\ Depart({t} \cap Queued)
    /\ UNCHANGED <<asserting, ownerVars, base, joining, releasing>>

PauseTask(t) ==
    /\ Quiet
    /\ Pause(t)
    /\ Depart(({t} \cup Compensating(t)) \cap Queued)
    /\ UNCHANGED <<asserting, ownerVars, base, joining, releasing>>

\* What t still owns stays locked, by an id that names nobody any more: an
\* assertion stops the program here where assertions are on.
DeleteTask(t) ==
    /\ Quiet
    /\ asserting => ownedMutexes[t] = {}
    /\ Delete(t)
    /\ Depart(({t} \cup Compensating(t)) \cap Queued)
    /\ owner' = [m \in Mutex |-> IF owner[m] = t THEN Gone ELSE owner[m]]
    /\ ownedMutexes' = [ownedMutexes EXCEPT ![t] = {}]
    /\ UNCHANGED <<asserting, locked, base, joining, releasing>>

CreateTask(t, p) ==
    /\ Quiet
    /\ Create(t, p)
    /\ base' = [base EXCEPT ![t] = p]
    /\ UNCHANGED <<asserting, ownerVars, edgeVars, sectionVars>>

\* os_task_priority_set.
PrioritySet(t, p) ==
    /\ Quiet /\ Live(t)
    /\ base' = [base EXCEPT ![t] = p]
    /\ RecomputeFrom(t)
    /\ UNCHANGED <<waitingVars, asserting, ownerVars, edgeVars, joining, releasing>>

TaskStep(t) ==
    \/ ExpireWait(t)
    \/ StartTask(t)
    \/ PauseTask(t)
    \/ DeleteTask(t)
    \/ \E p \in Prio : CreateTask(t, p) \/ PrioritySet(t, p)

-----------------------------------------------------------------------------
\* The steps of t's own calls, up to the walk they start.
MutexCallStep(t) ==
    \E m \in Mutex :
        \/ LockOk(t, m) \/ LockFail(t, m) \/ LockBoost(t, m) \/ LockJoin(t, m)
        \/ LockTimedOut(t, m)
        \/ Unlock(t, m)

SectionStep == WalkStep \/ \E m \in Mutex : Release(m)

-----------------------------------------------------------------------------
(* Properties.                                                             *)

MutexTypeOK ==
    /\ asserting \in BOOLEAN
    /\ locked \in [Mutex -> BOOLEAN]
    /\ owner \in [Mutex -> Task \cup {Nobody, Gone}]
    /\ ownedMutexes \in [Task -> SUBSET Mutex]
    /\ base \in [Task -> Prio]
    /\ blockedOn \in [Task -> Mutex \cup {NoList}]
    /\ blockedForever \in [Task -> BOOLEAN]
    /\ walk \in Task \cup {Nobody}
    /\ depth \in 0 .. MaxDepth - 1
    /\ joining \in Task \cup {Nobody}
    /\ releasing \in Mutex \cup {NoList}

\* A mutex is in the list of the one task it names as its owner, which is
\* live; and a task's wait edge names the mutex it is queued on, while it is
\* queued: what the walks follow is what is.
ChainsExact ==
    /\ \A m \in Mutex, t \in Task :
          m \in ownedMutexes[t] <=> owner[m] = t
    /\ \A m \in Mutex : owner[m] # Nobody => locked[m]
    /\ \A t \in Task : ownedMutexes[t] # {} => Live(t)
    /\ \A m \in Mutex, t \in Task : blockedOn[t] = m <=> t \in Members(waiters[m])
    /\ \A t \in Task : blockedForever[t] <=> blockedOn[t] # NoList /\ timeout[t] = "forever"

\* Everyone who waits behind t.
BehindOf(t) == UNION {Members(waiters[m]) : m \in ownedMutexes[t]}

\* Between critical sections no live task runs below a task that waits for it,
\* and none above both its base priority and everyone who waits for it.
PriorityExact ==
    Quiet => \A t \in Task : Live(t) =>
        /\ \A u \in BehindOf(t) : prio[u] <= prio[t]
        /\ prio[t] >= base[t]
        /\ prio[t] > base[t] => \E u \in BehindOf(t) : prio[u] = prio[t]

\* A mutex that is free has no waiters, or one of them was woken to take it.
FreeIsOffered ==
    Quiet => \A m \in Mutex : ~locked[m] /\ waiters[m] # << >> => Woken(m) # {}

\* With assertions on, no cycle of tasks (of a length the check can follow)
\* ever waits forever for each other's mutexes.
NoEndlessCycle ==
    asserting => \A S \in SUBSET Task :
        S # {} /\ Cardinality(S) <= MaxDepth =>
            \E t \in S : ~blockedForever[t] \/ owner[blockedOn[t]] \notin S
=============================================================================
