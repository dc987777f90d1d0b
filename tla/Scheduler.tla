----------------------------- MODULE Scheduler ------------------------------
(***************************************************************************)
(* The preemptive priority scheduler of kernel/os_task.c with the parts of *)
(* os_kernel.c, os_tick.c and the PendSV handlers it interacts with: the   *)
(* per-priority ready lists and their bitmap, os_task_current[] and        *)
(* running_core, the scheduler lock, the time slice, deferred switch       *)
(* requests and inter-core interrupts.                                     *)
(*                                                                         *)
(* A step is one kernel critical section.  Every call is made on a core,   *)
(* either by the task that runs there or by an interrupt handler.  The     *)
(* context switch is two critical sections, os_task_stack_save_current and *)
(* os_task_stack_select_next, with interrupts enabled in between.          *)
(***************************************************************************)
EXTENDS Integers, FiniteSets, OsList

CONSTANTS
    Task,           \* the task handles, each with its own stack and TCB
    SystemTask,     \* those of the kernel's own service tasks
    NumCores,       \* OS_CONFIG_CORE_COUNT
    MaxPrio,        \* user priorities are 1..MaxPrio, the idle tasks have 0
    AffinityMask,   \* the core_affinity masks the application uses
    TimeSlice,      \* OS_CONFIG_TIME_SLICE_TICKS
    MaxLock,        \* bound on the nesting of os_kernel_lock
    IsrStarts,      \* do interrupt handlers call os_task_start?
    Idle, None      \* a core's idle TCB; the NULL pointer

Core == 0 .. NumCores - 1
NoCore == NumCores
Prio == 1 .. MaxPrio
AnyCore == {}       \* OS_TASK_CORE_ANY
State == {"INACTIVE", "SUSPENDED", "READY", "RUNNING", "BLOCKED"}

ASSUME ConfigAssumption ==
    /\ IsFiniteSet(Task)
    /\ NumCores \in Nat \ {0}
    /\ MaxPrio \in Nat \ {0}
    /\ TimeSlice \in Nat \ {0}
    /\ MaxLock \in Nat
    /\ IsrStarts \in BOOLEAN
    /\ SystemTask \subseteq Task
    /\ AffinityMask \subseteq SUBSET Core
    /\ NumCores = 1 => AffinityMask = {AnyCore}
    /\ Idle \notin Task /\ None \notin Task /\ Idle # None

VARIABLES
    \* per task
    state,          \* tcb->state
    prio,           \* tcb->priority
    affinity,       \* tcb->core_affinity
    runningCore,    \* tcb->running_core, the core whose registers hold it
    delayed,        \* the tasks linked in os_task_delay_list
    \* the shared ready queue
    ready,          \* os_task_ready_list[]
    bitmap,         \* the priorities whose bit is set in os_task_ready_bitmap
    \* per core
    current,        \* os_task_current[]
    sliceLeft,      \* os_task_slice_left[]
    lockCount,      \* os_kernel_lock_count[]
    switchPending,  \* os_kernel_switch_pending[]
    pendsv,         \* is PendSV pended on this core?
    ipi,            \* has another core sent an interrupt not yet taken?
    phase,          \* "boot", "thread", or "saved" between the two halves
    cpu,            \* the task context in the core's registers
    running         \* os_kernel_running

taskVars == <<state, prio, affinity, runningCore, delayed>>
queueVars == <<ready, bitmap>>
requestVars == <<switchPending, pendsv, ipi>>
coreVars == <<current, sliceLeft, lockCount, phase, cpu>>
vars == <<taskVars, queueVars, requestVars, coreVars, running>>

-----------------------------------------------------------------------------
(* Who may call.                                                           *)

\* The current task of core c is executing its own code.
InTask(c) ==
    /\ phase[c] = "thread"
    /\ current[c] \in Task
    /\ ~pendsv[c]

\* An interrupt handler runs on core c.
InIsr(c) == running /\ phase[c] # "boot"

\* The application's main(), before os_start().
InBoot(c) == ~running /\ c = 0

InAnyContext(c) == InBoot(c) \/ InTask(c) \/ InIsr(c)

Live(t) == state[t] # "INACTIVE"

-----------------------------------------------------------------------------
(* Helpers on the ready lists and the switch requests.                     *)

PrioOf(x) == IF x \in Task THEN prio[x] ELSE 0

\* Mutant: the state alone is taken to say that t has not switched out yet.
IsCurrentByState(t) == state[t] \in {"RUNNING", "BLOCKED"}

\* os_task_running_core(tcb) < OS_CONFIG_CORE_COUNT
IsCurrent(t) == \E c \in Core : current[c] = t

Allowed(t, c) == affinity[t] = AnyCore \/ c \in affinity[t]

\* The ready lists and the bitmap once os_task_unlink has taken t out.
UnlinkedReady(t) ==
    IF state[t] = "READY"
    THEN [ready EXCEPT ![prio[t]] = ListRemove(@, t)]
    ELSE ready

\* Mutant: the bit of a list that became empty stays set.
StaleBitmap(t) == bitmap

UnlinkedBitmap(t) ==
    IF state[t] = "READY" /\ UnlinkedReady(t)[prio[t]] = << >>
    THEN bitmap \ {prio[t]}
    ELSE bitmap

\* os_task_unlink for a task that becomes neither READY nor BLOCKED.
Unlink(t) ==
    /\ ready' = UnlinkedReady(t)
    /\ bitmap' = UnlinkedBitmap(t)
    /\ delayed' = delayed \ {t}

\* Mutant: a task rejoins its ready list at the head.
MakeReadyAtHead(t, p) ==
    /\ state' = [state EXCEPT ![t] = "READY"]
    /\ ready' = [UnlinkedReady(t) EXCEPT ![p] = ListInsertBefore(@, 1, t)]
    /\ bitmap' = UnlinkedBitmap(t) \cup {p}
    /\ delayed' = delayed \ {t}

\* os_task_unlink followed by os_task_make_ready at priority p.
MakeReady(t, p) ==
    /\ state' = [state EXCEPT ![t] = "READY"]
    /\ ready' = [UnlinkedReady(t) EXCEPT ![p] = ListPushBack(@, t)]
    /\ bitmap' = UnlinkedBitmap(t) \cup {p}
    /\ delayed' = delayed \ {t}

\* The one core os_task_preempt_request, called on core c, asks to switch
\* in favour of t at priority p: none when no core it looks at is outranked.
Nudge(c, t, p) ==
    LET Outranked(d) == current[d] # t /\ (current[d] = None \/ p > PrioOf(current[d]))
        others == {d \in Core \ {c} : Allowed(t, d) /\ Outranked(d)}
    IN  IF ~Allowed(t, c) THEN {Min(affinity[t])}
        ELSE IF Outranked(c) THEN {c}
        ELSE IF others # {} THEN {Min(others)}
        ELSE {}

\* Mutant: the request is sent to this core only.
RequestLocally(c, targets) ==
    /\ pendsv' = [pendsv EXCEPT ![c] = @ \/ (c \in targets /\ lockCount[c] = 0)]
    /\ switchPending' =
          [switchPending EXCEPT ![c] = @ \/ (c \in targets /\ lockCount[c] # 0)]
    /\ UNCHANGED ipi

\* A switch is wanted on the cores of targets, as seen from core c: the local
\* request goes through os_task_switch_request, the others are IPIs.
Request(c, targets) ==
    /\ pendsv' = [pendsv EXCEPT ![c] = @ \/ (c \in targets /\ lockCount[c] = 0)]
    /\ switchPending' =
          [switchPending EXCEPT ![c] = @ \/ (c \in targets /\ lockCount[c] # 0)]
    /\ ipi' = [d \in Core |-> ipi[d] \/ (d # c /\ d \in targets)]

RequestIfRunning(c, targets) == Request(c, IF running THEN targets ELSE {})

-----------------------------------------------------------------------------
(* Boot.                                                                   *)

Init ==
    /\ state = [t \in Task |-> "INACTIVE"]
    /\ prio = [t \in Task |-> 0]
    /\ affinity = [t \in Task |-> AnyCore]
    /\ runningCore = [t \in Task |-> NoCore]
    /\ delayed = {}
    /\ ready = [p \in Prio |-> << >>]
    /\ bitmap = {}
    /\ current = [c \in Core |-> None]
    /\ sliceLeft = [c \in Core |-> TimeSlice]
    /\ lockCount = [c \in Core |-> 0]
    /\ switchPending = [c \in Core |-> FALSE]
    /\ pendsv = [c \in Core |-> FALSE]
    /\ ipi = [c \in Core |-> FALSE]
    /\ phase = [c \in Core |-> "boot"]
    /\ cpu = [c \in Core |-> None]
    /\ running = FALSE

\* os_start on core 0; os_arch_start_first_task pends the first PendSV.
KernelStart ==
    /\ ~running
    /\ running' = TRUE
    /\ pendsv' = [pendsv EXCEPT ![0] = TRUE]
    /\ UNCHANGED <<taskVars, queueVars, coreVars, switchPending, ipi>>

\* os_core_start on a secondary core.
CoreStart(c) ==
    /\ running
    /\ phase[c] = "boot" /\ ~pendsv[c]
    /\ pendsv' = [pendsv EXCEPT ![c] = TRUE]
    /\ UNCHANGED <<taskVars, queueVars, coreVars, switchPending, ipi, running>>

-----------------------------------------------------------------------------
(* The task API.                                                           *)

Create(c, t, p, mask) ==
    /\ InBoot(c) \/ InTask(c)
    /\ state[t] = "INACTIVE"
    /\ state' = [state EXCEPT ![t] = "SUSPENDED"]
    /\ prio' = [prio EXCEPT ![t] = p]
    /\ affinity' = [affinity EXCEPT ![t] = mask]
    /\ UNCHANGED <<runningCore, delayed, queueVars, requestVars, coreVars, running>>

Start(c, t) ==
    /\ InBoot(c) \/ InTask(c) \/ (IsrStarts /\ InIsr(c))
    /\ Live(t)
    /\ IF IsCurrent(t)
       THEN /\ Unlink(t)
            /\ state' = [state EXCEPT ![t] = "RUNNING"]
       ELSE MakeReady(t, prio[t])
    /\ RequestIfRunning(c, Nudge(c, t, prio[t]))
    /\ UNCHANGED <<prio, affinity, runningCore, coreVars, running>>

\* The calls that tear a context down are refused for a service task, for a
\* task current on another core, and for the caller under a scheduler lock.
MayTearDown(c, t) ==
    /\ InBoot(c) \/ InTask(c)
    /\ t \notin SystemTask
    /\ \/ current[c] = t /\ lockCount[c] = 0
       \/ ~IsCurrent(t)

Pause(c, t) ==
    /\ MayTearDown(c, t)
    /\ Live(t)
    /\ Unlink(t)
    /\ state' = [state EXCEPT ![t] = "SUSPENDED"]
    /\ RequestIfRunning(c, IF current[c] = t THEN {c} ELSE {})
    /\ UNCHANGED <<prio, affinity, runningCore, coreVars, running>>

\* os_task_tcb_clear, and for the caller itself os_task_current[core] = NULL.
Delete(c, t) ==
    /\ MayTearDown(c, t)
    /\ Live(t)
    /\ Unlink(t)
    /\ state' = [state EXCEPT ![t] = "INACTIVE"]
    /\ prio' = [prio EXCEPT ![t] = 0]
    /\ affinity' = [affinity EXCEPT ![t] = AnyCore]
    /\ runningCore' = [runningCore EXCEPT ![t] = NoCore]
    /\ current' = [current EXCEPT ![c] = IF @ = t THEN None ELSE @]
    /\ RequestIfRunning(c, IF current[c] = t THEN {c} ELSE {})
    /\ UNCHANGED <<sliceLeft, lockCount, phase, cpu, running>>

Yield(c) ==
    /\ InTask(c)
    /\ Request(c, {c})
    /\ UNCHANGED <<taskVars, queueVars, coreVars, running>>

\* Mutant: lowering the running task's priority asks nobody to switch.
LoweredUnnoticed(t, p) == {}

\* The cores asked to switch when t, RUNNING, drops to priority p.
LoweredNudge(t, p) ==
    {d \in Core : current[d] = t /\ p < prio[t] /\ \E q \in bitmap : q > p}

\* os_task_priority_set and os_task_effective_priority_set.
PrioritySet(c, t, p) ==
    /\ InAnyContext(c)
    /\ Live(t) /\ t \notin SystemTask
    /\ p # prio[t]
    /\ prio' = [prio EXCEPT ![t] = p]
    /\ IF state[t] = "READY"
       THEN /\ MakeReady(t, p)
            /\ RequestIfRunning(c, IF p > prio[t] THEN Nudge(c, t, p) ELSE {})
       ELSE /\ UNCHANGED <<state, delayed, queueVars>>
            /\ RequestIfRunning(c, IF state[t] = "RUNNING" THEN LoweredNudge(t, p) ELSE {})
    /\ UNCHANGED <<affinity, runningCore, coreVars, running>>

AffinitySet(c, t, mask) ==
    /\ NumCores > 1
    /\ InAnyContext(c)
    /\ Live(t)
    /\ affinity' = [affinity EXCEPT ![t] = mask]
    /\ RequestIfRunning(c, {d \in Core : current[d] = t /\ mask # AnyCore /\ d \notin mask})
    /\ UNCHANGED <<state, prio, runningCore, delayed, queueVars, coreVars, running>>

-----------------------------------------------------------------------------
(* Blocking and waking: the scheduling half of os_task_sleep_ticks,        *)
(* os_task_wait_begin and of every wake.                                   *)

\* The current task blocks, with a finite timeout when timed.
Block(c, timed) ==
    LET t == current[c]
    IN  /\ running
        /\ InTask(c)
        /\ lockCount[c] = 0
        /\ state' = [state EXCEPT ![t] = "BLOCKED"]
        /\ delayed' = IF timed THEN delayed \cup {t} ELSE delayed
        /\ Request(c, {c})
        /\ UNCHANGED <<prio, affinity, runningCore, queueVars, coreVars, running>>

Wake(c, t) ==
    /\ InTask(c) \/ InIsr(c)
    /\ state[t] = "BLOCKED"
    /\ MakeReady(t, prio[t])
    /\ Request(c, Nudge(c, t, prio[t]))
    /\ UNCHANGED <<prio, affinity, runningCore, coreVars, running>>

-----------------------------------------------------------------------------
(* The scheduler lock.  Locking may find a PendSV already pended: inside   *)
(* os_critical_enter, or when an IPI came in under the mask.               *)

Lock(c) ==
    /\ phase[c] = "thread" /\ current[c] \in Task
    /\ state[current[c]] = "RUNNING"
    /\ lockCount[c] < MaxLock
    /\ lockCount' = [lockCount EXCEPT ![c] = @ + 1]
    /\ UNCHANGED <<taskVars, queueVars, requestVars, current, sliceLeft, phase, cpu, running>>

Unlock(c) ==
    /\ InTask(c)
    /\ lockCount[c] > 0
    /\ lockCount' = [lockCount EXCEPT ![c] = @ - 1]
    /\ IF lockCount[c] = 1
       THEN /\ pendsv' = [pendsv EXCEPT ![c] = @ \/ (switchPending[c] /\ running)]
            /\ switchPending' = [switchPending EXCEPT ![c] = FALSE]
       ELSE UNCHANGED <<pendsv, switchPending>>
    /\ UNCHANGED <<taskVars, queueVars, ipi, current, sliceLeft, phase, cpu, running>>

-----------------------------------------------------------------------------
(* Interrupts.                                                             *)

\* os_task_reschedule_possible on core c, over the bitmap and the slice the
\* tick leaves behind.
ReschedulePossible(c, bits, left) ==
    /\ lockCount[c] = 0
    /\ IF current[c] = None
       THEN bits # {}
       ELSE \/ \E p \in bits : p > PrioOf(current[c])
            \/ left = 0 /\ PrioOf(current[c]) \in bits

\* Mutant: the quantum wraps below zero.
SliceWraps(c) == sliceLeft[c] - 1

\* os_task_slice_tick(1).
SliceAfterTick(c) == IF sliceLeft[c] > 1 THEN sliceLeft[c] - 1 ELSE 0

\* The orders in which the tasks of S may follow each other in a list.
Orders(S) == {f \in [1 .. Cardinality(S) -> S] : NoRepeat(f)}

\* os_tick_handler.  Core 0 owns the time base: the tasks in due are those
\* whose delay expires, in an order the delay list decides.
Tick(c, due) ==
    LET left == SliceAfterTick(c)
        bits == bitmap \cup {prio[t] : t \in due}
        nudged == UNION {Nudge(c, t, prio[t]) : t \in due}
    IN  /\ InIsr(c)
        /\ c # 0 => due = {}
        /\ state' = [t \in Task |-> IF t \in due THEN "READY" ELSE state[t]]
        /\ delayed' = delayed \ due
        /\ \E order \in [Prio -> UNION {Orders(S) : S \in SUBSET due}] :
              /\ \A p \in Prio : Members(order[p]) = {t \in due : prio[t] = p}
              /\ ready' = [p \in Prio |-> ready[p] \o order[p]]
        /\ bitmap' = bits
        /\ sliceLeft' = [sliceLeft EXCEPT ![c] = left]
        /\ Request(c, nudged \cup (IF ReschedulePossible(c, bits, left) THEN {c} ELSE {}))
        /\ UNCHANGED <<prio, affinity, runningCore, current, lockCount, phase, cpu, running>>

\* The interrupt os_arch_core_ipi_request_cb raises pends PendSV on core c.
IpiDeliver(c) ==
    /\ InIsr(c)
    /\ ipi[c]
    /\ ipi' = [ipi EXCEPT ![c] = FALSE]
    /\ pendsv' = [pendsv EXCEPT ![c] = TRUE]
    /\ UNCHANGED <<taskVars, queueVars, coreVars, switchPending, running>>

-----------------------------------------------------------------------------
(* The context switch.                                                     *)

\* Mutant: the context switch does not look at the scheduler lock.
NeverPinned(c) == FALSE

\* A scheduler-locked core keeps the task it was running.
Pinned(c) ==
    /\ lockCount[c] # 0
    /\ current[c] \in Task
    /\ state[current[c]] = "RUNNING"

\* PendSV with PSP == 0: nothing to save yet.
FirstPendSV(c) ==
    /\ pendsv[c] /\ phase[c] = "boot"
    /\ pendsv' = [pendsv EXCEPT ![c] = FALSE]
    /\ phase' = [phase EXCEPT ![c] = "saved"]
    /\ UNCHANGED <<taskVars, queueVars, switchPending, ipi, running,
                   current, sliceLeft, lockCount, cpu>>

\* os_task_stack_save_current.
Save(c) ==
    LET t == current[c]
    IN  /\ pendsv[c] /\ phase[c] = "thread"
        /\ pendsv' = [pendsv EXCEPT ![c] = FALSE]
        /\ phase' = [phase EXCEPT ![c] = "saved"]
        /\ cpu' = [cpu EXCEPT ![c] = None]
        /\ IF Pinned(c)
           THEN /\ switchPending' = [switchPending EXCEPT ![c] = TRUE]
                /\ UNCHANGED <<taskVars, queueVars>>
           ELSE /\ runningCore' = IF t \in Task
                                  THEN [runningCore EXCEPT ![t] = NoCore]
                                  ELSE runningCore
                /\ IF t \in Task /\ state[t] = "RUNNING"
                   THEN MakeReady(t, prio[t])
                   ELSE UNCHANGED <<state, delayed, queueVars>>
                /\ UNCHANGED <<prio, affinity, switchPending>>
        /\ UNCHANGED <<ipi, running, current, sliceLeft, lockCount>>

\* Mutant: running_core is not consulted.
EligibleUnsaved(c, t) == NumCores > 1 => Allowed(t, c)

\* A task whose context another core has not saved yet is passed over, and so
\* is one whose affinity excludes this core.
Eligible(c, t) ==
    NumCores > 1 => Allowed(t, c) /\ runningCore[t] = NoCore

\* Core c's context becomes that of next.
Dispatch(c, next) ==
    /\ current' = [current EXCEPT ![c] = next]
    /\ cpu' = [cpu EXCEPT ![c] = next]
    /\ phase' = [phase EXCEPT ![c] = "thread"]

\* os_task_stack_select_next, scheduler locked: the running task goes on.
SelectPinned(c) ==
    /\ phase[c] = "saved" /\ Pinned(c)
    /\ Dispatch(c, current[c])
    /\ UNCHANGED <<taskVars, queueVars, requestVars, sliceLeft, lockCount, running>>

\* The first eligible task of the highest priority that has one.
SelectTask(c) ==
    /\ phase[c] = "saved" /\ ~Pinned(c)
    /\ \E p \in bitmap : \E i \in DOMAIN ready[p] :
         LET t == ready[p][i]
         IN  /\ Eligible(c, t)
             /\ \A j \in 1 .. i - 1 : ~Eligible(c, ready[p][j])
             /\ \A q \in bitmap : q > p => \A u \in Members(ready[q]) : ~Eligible(c, u)
             /\ ready' = [ready EXCEPT ![p] = ListRemove(@, t)]
             /\ bitmap' = IF ListRemove(ready[p], t) = << >> THEN bitmap \ {p} ELSE bitmap
             /\ state' = [state EXCEPT ![t] = "RUNNING"]
             /\ runningCore' = [runningCore EXCEPT ![t] = c]
             /\ Dispatch(c, t)
    /\ sliceLeft' = [sliceLeft EXCEPT ![c] = TimeSlice]
    /\ UNCHANGED <<prio, affinity, delayed, requestVars, lockCount, running>>

SelectIdle(c) ==
    /\ phase[c] = "saved" /\ ~Pinned(c)
    /\ \A p \in bitmap : \A t \in Members(ready[p]) : ~Eligible(c, t)
    /\ Dispatch(c, Idle)
    /\ sliceLeft' = [sliceLeft EXCEPT ![c] = TimeSlice]
    /\ UNCHANGED <<taskVars, queueVars, requestVars, lockCount, running>>

Select(c) == SelectPinned(c) \/ SelectTask(c) \/ SelectIdle(c)

-----------------------------------------------------------------------------
TaskApi(c, t) ==
    \/ \E p \in Prio, mask \in AffinityMask : Create(c, t, p, mask)
    \/ Start(c, t)
    \/ Pause(c, t)
    \/ Delete(c, t)
    \/ \E p \in Prio : PrioritySet(c, t, p)
    \/ \E mask \in AffinityMask : AffinitySet(c, t, mask)
    \/ Wake(c, t)

CoreStep(c) ==
    \/ CoreStart(c)
    \/ Yield(c)
    \/ \E timed \in BOOLEAN : Block(c, timed)
    \/ Lock(c)
    \/ Unlock(c)
    \/ \E due \in SUBSET delayed : Tick(c, due)
    \/ IpiDeliver(c)
    \/ FirstPendSV(c)
    \/ Save(c)
    \/ Select(c)

Next ==
    \/ KernelStart
    \/ \E c \in Core : CoreStep(c) \/ \E t \in Task : TaskApi(c, t)

Spec == Init /\ [][Next]_vars

-----------------------------------------------------------------------------
(* Properties.                                                             *)

\* The variables keep their types.
TypeOK ==
    /\ state \in [Task -> State]
    /\ prio \in [Task -> Prio \cup {0}]
    /\ affinity \in [Task -> AffinityMask \cup {AnyCore}]
    /\ runningCore \in [Task -> Core \cup {NoCore}]
    /\ delayed \subseteq Task
    /\ ready \in [Prio -> Seq(Task)]
    /\ bitmap \subseteq Prio
    /\ current \in [Core -> Task \cup {Idle, None}]
    /\ sliceLeft \in [Core -> 0 .. TimeSlice]
    /\ lockCount \in [Core -> 0 .. MaxLock]
    /\ switchPending \in [Core -> BOOLEAN]
    /\ pendsv \in [Core -> BOOLEAN]
    /\ ipi \in [Core -> BOOLEAN]
    /\ phase \in [Core -> {"boot", "thread", "saved"}]
    /\ cpu \in [Core -> Task \cup {Idle, None}]
    /\ running \in BOOLEAN

\* A task is linked in the ready list of its priority exactly while it is
\* READY, once, and the bitmap names the non-empty lists: every path that
\* moves a task between states, priorities or cores keeps the three in step.
QueuesExact ==
    /\ \A p \in Prio : NoRepeat(ready[p])
    /\ \A p \in Prio, t \in Task :
          t \in Members(ready[p]) <=> state[t] = "READY" /\ prio[t] = p
    /\ bitmap = {p \in Prio : ready[p] # << >>}
    /\ \A t \in delayed : state[t] = "BLOCKED"

\* No task context is in the registers of two cores, the hazard the
\* running_core check of os_task_stack_select_next closes.  A core whose task
\* has just deleted itself runs on a dead context.
OneCore ==
    \A c, d \in Core :
        c # d /\ cpu[c] \in Task /\ cpu[d] = cpu[c] => None \in {current[c], current[d]}

\* "Starting a running task keeps it running; anything else queues" it: a
\* RUNNING task is some core's current task, or nothing will ever run it.
RunningIsCurrent ==
    \A t \in Task : state[t] = "RUNNING" => \E c \in Core : current[c] = t

\* On one core, a ready task that outranks the one executing always has a
\* switch requested for it, pended or remembered by the scheduler lock.
PreemptionRequested ==
    \A c \in Core :
        /\ phase[c] = "thread"
        /\ \E p \in bitmap : p > PrioOf(current[c])
        => pendsv[c] \/ (lockCount[c] > 0 /\ switchPending[c])

\* A core that executes a task whose affinity excludes it has been asked to
\* switch: the local request, the IPI or the lock's memory of either is never
\* dropped on the way.
AffinityRequested ==
    \A c \in Core :
        phase[c] = "thread" /\ current[c] \in Task /\ ~Allowed(current[c], c)
        => \/ pendsv[c] \/ ipi[c]
           \/ lockCount[c] > 0 /\ switchPending[c]

\* A task that holds the scheduler lock of its core is not switched out, not
\* even by a PendSV that was pended before it took the lock.
LockPinsTask == [][\A c \in Core : lockCount[c] > 0 => current'[c] = current[c]]_vars

\* A handle is refused by os_task_create while its stack is in use.
StackFreeOnCreate ==
    [][\A t \in Task : state[t] = "INACTIVE" /\ state'[t] = "SUSPENDED"
                          => \A c \in Core : cpu[c] # t]_vars

-----------------------------------------------------------------------------
(* Liveness.  Interrupts are served and tasks end their locked regions,    *)
(* however they nest; a tick or a PendSV that falls in a locked region     *)
(* switches nothing, so both must also keep falling outside of them.  IPIs *)
(* need not arrive.                                                        *)

OpenTick(c) == lockCount[c] = 0 /\ \E due \in SUBSET delayed : Tick(c, due)
OpenSave(c) == lockCount[c] = 0 /\ Save(c)
LastUnlock(c) == lockCount[c] = 1 /\ Unlock(c)

Fairness ==
    /\ WF_vars(KernelStart)
    /\ \A c \in Core :
          /\ WF_vars(CoreStart(c))
          /\ WF_vars(FirstPendSV(c))
          /\ WF_vars(Save(c))
          /\ WF_vars(Select(c))
          /\ WF_vars(Unlock(c))
          /\ SF_vars(LastUnlock(c))
          /\ SF_vars(OpenTick(c))
          /\ SF_vars(OpenSave(c))

FairSpec == Spec /\ Fairness

\* Others keep sending t to the tail of its ready list, or from core to core.
Disturbed(t) ==
    \E c \in Core : Start(c, t) \/ \E mask \in AffinityMask : AffinitySet(c, t, mask)

\* Round robin starves nobody: a task ready at the highest priority is
\* dispatched, if it is not disturbed for ever.
TopPriorityRuns ==
    \A t \in Task :
        \/ []<>~(state[t] = "READY" /\ prio[t] = MaxPrio)
        \/ []<><<Disturbed(t)>>_vars
=============================================================================
