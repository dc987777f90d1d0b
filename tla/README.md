# AhuraRTOS in TLA+

A model of AhuraRTOS, a preemptive priority RTOS for ARM Cortex-M and RISC-V
microcontrollers with one or more cores: of its kernel (`src/kernel/`), of its ports
(`src/arch/`), and of the parts of its SoC packages (`src/soc/`) that keep time, start cores
and stop clocks; with the TLC configurations that check it on small instances and the TLAPS
proofs of its central invariants.

## 1. The system

### 1.1 Components

| Component | State it keeps | Operations | What makes it correct |
|---|---|---|---|
| Intrusive lists, `os_list.c` | head, tail, links; every task has one `state_node` and one `wait_node` | push back, insert before, remove, pop front | no node is linked twice, removal of a detached node is harmless |
| Scheduler and task control, `os_task.c` | TCBs (`state`, `priority`, `core_affinity`, `running_core`), `os_task_ready_list[]` and its bitmap, per core `os_task_current`, `os_task_slice_left` | create, start, pause, delete, yield, sleep, wake, priority and affinity changes, the two halves of the context switch | the ready lists agree with the states; a context is on one core at most; a task that should run is asked for; round robin starves nobody |
| Kernel lock and lifecycle, `os_kernel.c` | `os_kernel_running`, per core `os_kernel_lock_count`, `os_kernel_switch_pending` | `os_start`, `os_core_start`, lock, unlock | the lock pins its task; a switch swallowed under it is not forgotten |
| Critical sections, `os_critical.c` | nesting depth, saved mask, the kernel spinlock | enter, exit, hand-over to a switched-in task | everything in between is one atomic step |
| Tick and tickless idle, `os_tick.c`, `os_arch_tickless.c` | tick count, suppression window | `os_tick_handler`, announce, sleep plan | a window never sleeps past a deadline, wherever that is armed |
| Delay list, `os_task.c`, `os_delay.c` | delta list of finite waits | insert, remove, expire, next delay | nobody wakes early; nobody is forgotten; equal deadlines in order |
| Waiting on objects, `os_task.c` | `wait_list`, `wait_signaled`, `woken_from`, the objects' waiter lists | wait begin and end, wake one, wake match, timeouts, compensation | lists agree with states and stay sorted; a wakeup is never lost |
| Semaphore, `os_sem.c` | `count`, `max_count`, waiters | init, give, take | as above, and no token is stranded beside a waiter |
| Mutex, `os_mutex.c`, `os_task_mutex.c` | locked, owner, waiters, list of owned mutexes, wait edges, base and effective priorities | lock, unlock, inheritance, deadlock check | one owner; effective priority is the highest of base and waiters along the chain |
| Event flags, `os_event.c` | bits, waiters, what each waits for and was given | set, clear, wait any/all | every satisfied waiter is delivered once, from one snapshot |
| Notifications, `os_notify.c` | value, pending, waiting | give, wait | the last value given is received |
| Message queue, `os_queue.c` | ring of items, two waiter lists, mode | send, receive, overwrite, dynamic storage | FIFO, bounded, nobody waits beside usable room or items |
| Message buffer, `os_msg.c` | ring of bytes with headers, two waiter lists | send, receive, dynamic storage | messages whole and in order; a sender whose message fits is awake |
| Software timers, `os_timer.c` | running delta list, delivery list, pools of deferred calls | start, stop, pause, resume, submit, tick, fetch | callbacks neither early, lost nor repeated |
| Heap, `os_mem.c` | address-ordered free list, two totals | alloc, free | blocks tile the heap, neighbours coalesce |
| Log, `os_log.c` | ring, drop counters | write, drain | whole lines, in order, drops announced |
| Atomics, `os_atomic.c`, `os_arch_atomic.c` | a word, reservations | update, exchange, compare and swap | every call is one step |
| Ports, `src/arch/` | the saved contexts and the handlers' stacks; mask and spinlock; SysTick and the counter made from it | switch, first start, mask, suppress and resume the tick | a task finds its registers and its stack as it left them; no tick is lost |
| SoC packages, `src/soc/` | inter-core FIFOs and doorbells, window timers, the handshake of a deep sleep | launch of core 1, windows, parking, vetoes | cores start on a finished kernel; no clock is slowed under somebody who uses it |
| Installer tools, examples, tests | – | – | not kernel state |

### 1.2 How they interact

Every blocking object calls `os_task_wait_begin`, `os_task_wait_end` and
`os_task_waiters_wake_one` or `_wake_match`, which move a task between the
object's waiter list, the delay list and the ready list of its priority in one
critical section. The tick expires waits out of the same lists. Every path that makes a
task READY asks `os_task_preempt_request` which core should look, which pends
PendSV locally, remembers the request under a scheduler lock, or sends an
inter-core interrupt. PendSV then runs `os_task_stack_save_current` and
`os_task_stack_select_next`, two critical sections with interrupts enabled in
between on ARM, and with other cores running in between everywhere.

The idle task of core 0 plans a window with the next deadlines of the delay list and of the
timers, asks the port or the SoC package to silence the tick, sleeps, and announces what has
elapsed, which feeds the same lists as a tick. While the window is open every other core
waits at the outermost `os_critical_enter`.

### 1.3 What is hard

Steps of two cores, or of a task and an interrupt, in an order no test
provokes; a request that is pended, locked out or sent to another core and must
not get lost on the way; a wakeup that is given to a task which then times out,
is paused, is deleted or is restarted; a list position that goes stale when a
priority changes; delta lists; priority inheritance along chains; a counter that
wraps, or a tick that becomes due, between two accesses to its registers; two cores that agree
on something over shared words without a lock. The full list is `hazards` in `PROJECT.json`, each entry at its line.

## 2. The plan

In the order of what can go wrong most expensively:

1. `OsList`, `Scheduler`: who runs, on which core. *Done, with proofs.*
2. `Waiting`, `Sem`, `Queue`, composed in `Objects`: the waiting machinery and its
   first two clients; a bounded FIFO as the queue's abstract specification.
   *Done, with proofs.*
3. `DelayList` with its abstraction `Alarm`, and `Delay`: the delta list, and the
   timeouts and delays over the wrapping tick counter. *Done, with proofs.*
4. `Mutex`, over `Waiting`, composed with `Sem` in `Locks`: ownership, eager
   transitive priority inheritance with its depth limit, the departure of waiters,
   the deadlock check. *Done, with proofs.*
5. `Event`, `Notify`, `MsgRing` and `Msg`, composed in `Ipc`: delivery when the bits are
   set, the one-value mailbox, messages of any length; the FIFO again as the abstract
   specification of the message ring. *Done, with proofs.*
6. `Timer`. *Done, with proofs.*
7. Time without a tick: `Tickless`, and what a window is measured with (`SysTick`, `Window`, `Mtime`,
   `CycleCounter`); `Park` and `DeepClocks` for the deep sleep of two cores. *Done, with proofs.*
8. What everything else rests on: `Section`, `Atomics`, `Switch`, `Boot`, `Log`, `Stack`, `Heap`,
   `CpuTime`. *Done, with proofs.*
9. The components side by side, as `MCComponents` has them: what is proved of each alone holds of
   all together. *Done.*
10. Left: the liveness properties, which only TLC checks; the tick grid of the RISC-V package around a
   deep window.

## 3. The modules

| Module | Models | Proofs |
|---|---|---|
| `OsList` | `os_list.c` | `OsListProofs` |
| `Scheduler` | `os_task.c` (scheduling), `os_kernel.c`, the switch and the tick | `SchedulerProofs` |
| `Waiting` | `os_task.c` (waiting) | `WaitingProofs` |
| `Sem`, `Queue` | `os_sem.c`, `os_queue.c`, both over `Waiting` | in `ObjectsProofs` |
| `Fifo` | what a queue promises | |
| `Objects` | tasks and interrupt handlers that use any of the objects | `ObjectsProofs` |
| `Mutex` | `os_mutex.c`, `os_task_mutex.c`, over `Waiting` | in `LocksProofs` |
| `Locks` | tasks that use mutexes and semaphores together | `LocksProofs` |
| `DelayList`, `Alarm` | the delta list of `os_task.c`; what it promises | `TimeProofs` |
| `Delay` | `os_delay.c`, `os_tick.c`, the retry loops of blocking calls | `TimeProofs` |
| `Event`, `Notify`, `Msg` | `os_event.c`, `os_notify.c`, `os_msg.c`, each over `Waiting` | in `IpcProofs` |
| `MsgRing` | the ring of `os_msg.c`, which implements `Fifo` | `IpcProofs` |
| `Ipc` | tasks and handlers that use any of these three | `IpcProofs` |
| `Timer` | `os_timer.c` | `TimeProofs` |
| `Tickless` | the window of `os_tick.c`, `arch/common/os_arch_tickless.c` | `TimeProofs` |
| `SysTick` | the windows on SysTick: `os_arch_port_v8m.c`, `arch/arm/common/os_arch_tickless.c` | `PortProofs` |
| `Window` | the windows on LPTIM (STM32), TIMER (RP2040), POWMAN (RP2350) | `TimeProofs` |
| `Mtime` | the tick and the light window of the RP2350's RISC-V package | `TimeProofs` |
| `CycleCounter` | `os_arch_cycle_systick.c` | `PortProofs` |
| `CpuTime` | the busy waits of `os_delay.c`, the usage counters of `os_tick.c` | `TimeProofs` |
| `Park`, `DeepClocks` | the two cores of an RP2350 before a deep sleep; what keeps them from it | `PortProofs` |
| `Section` | `os_critical.c`, the masks and the spinlock of both ports | `PortProofs` |
| `Atomics` | `os_atomic.c`, both `os_arch_atomic.c` | `PortProofs` |
| `Switch` | the context switch and the first start of every port | `PortProofs` |
| `Boot` | `os_init`, `os_start`, `os_core_start`, the launch of core 1 | `PortProofs` |
| `Heap` | `os_mem.c` | `PortProofs` |
| `Log` | `os_log.c` | `IpcProofs` |
| `Stack` | the stacks of `os_task.c` | `PortProofs` |
| `MC...` | small instances for TLC | `MCComponents`: `TimeProofs` |

The names of variables and operations are the code's. `PROJECT.json` maps every
definition to its lines.

### OsList

`os_list.c` as operations on sequences: head first, a node at most once. Every
other module uses it. `OsListProofs` states what push, remove and insert do to
the set of members and to "no node twice", that `ListWithout` drops exactly the nodes
it is told to and keeps the order of the others, and that a set of natural numbers has a least;
the other proofs rest on these lemmas.

### Scheduler

One step is one kernel critical section, taken on a core by its task, by an
interrupt handler, or by `main` before `os_start`.

| Model | Code |
|---|---|
| `state`, `prio`, `affinity`, `runningCore`, `delayed` | the TCB; `delayed` is membership in the delay list, without the ticks |
| `ready`, `bitmap` | `os_task_ready_list[]`, `os_task_ready_bitmap` |
| `current`, `sliceLeft`, `lockCount`, `switchPending` | the arrays of the same names |
| `pendsv`, `ipi` | PendSV pended; an inter-core interrupt sent and not yet taken |
| `phase`, `cpu` | where a core is in its context switch, and whose registers it holds: what the hardware knows and the C code does not |
| `Save(c)`, `SelectPinned/Task/Idle(c)` | `os_task_stack_save_current`, `os_task_stack_select_next` |
| `Create` .. `AffinitySet`, `Block`, `Wake`, `Lock`, `Unlock`, `Tick`, `IpiDeliver` | one action per function |

`Block` and `Wake` are the scheduling half of every sleep, wait and wake; the
other half is `Waiting`. The idle task of a core is the value `Idle`: it has
priority 0, is in no ready list and is never blocked. Interrupt handlers make
every call the kernel allows them; whether they call `os_task_start` is the
constant `IsrStarts`, because one property depends on it (see the findings).

One thing is coarser than the code. `os_kernel_unlock` restores the interrupt
mask before it pends PendSV; both are one step. Nothing reads the request in
between, and the window only makes the switch later. On RISC-V the switch runs
in a trap with interrupts off, so the window between its two halves is open to
other cores only; the model's interrupt steps in it are ARM's.

### Waiting, Sem, Queue, Objects

`Waiting` is what `os_task.c` offers every blocking object: one waiter list per
semaphore, two per queue, kept in priority order; `os_task_wait_begin`,
`os_task_wait_end`, `os_task_waiters_wake_one`, the expiry of a wait,
`os_task_wake_compensate`, and what start, pause, delete and a change of priority
do to a waiting task. A blocking call is a small program with the position `pc`:
"try" at the head of its loop, "wait" while blocked or woken and not yet
running, "expired" between the wake-up and the next look at the object.
`spent` says that the remaining wait is zero. A finite wait expires at any
moment, so TLC sees every order of give, timeout and task control. Switching is
reduced to `Dispatch` and `SwitchOut` on at most `NumCores` cores: which task they
choose is the subject of `Scheduler`, and these modules must be correct
whichever it is.

| Model | Code |
|---|---|
| `waiters[s]`, `target[t]` | the object's list(s); `tcb->wait_list`, while it waits |
| `signaled[t]`, `wokenFrom[t]` | `tcb->wait_signaled`, `tcb->woken_from` |
| `WaitBegin`, `WaitEnd`, `WakeOne`, `Wakes` | `os_task_wait_begin`, `_wait_end`, `_waiters_wake_one` |
| `Compensating(t)` in `Pause`, `Delete` | `os_task_wake_compensate` |
| `FinishWaking(t, s)` | a successful call, which ends its wait and wakes the other side in one critical section |
| `TakeOk`, `TakeFail`, `TakeBlock`, `TakeTimedOut`, `IsrTake`, `Give`, `SemInit` | the critical sections of `os_sem.c` |
| `buffer`, `head`, `tail`, `count` with `Insert`, `Displace`, `Extract` | the ring of `os_queue.c` |
| `SendOk` .. `SendLastTry`, `ReceiveOk` .. `ReceiveTimedOut` | the critical sections of `os_queue_send` and `_receive` |
| `IsrSend`, `IsrReceive`, `ModeSet`, `InitDynamic`, `Cleanup` | the rest of `os_queue.c` |

The slots of a ring are items, not bytes. The storage of `os_queue_init_dynamic`
comes and goes as `capacity` and `owned`; its allocation may fail before anything
changes. `head` and `tail` wrap exactly as the code's modulo.

`Objects` puts them together: `Next` is a step of an interrupt handler on an
object, of a task's own call, or of `Waiting` alone. `WaitingStep` in `Waiting` is
the step that any object may take; a new object has to show that its actions
are such steps, and inherits the invariant of the waiter lists.

### Mutex, Locks

`Mutex` is `os_mutex.c` and `os_task_mutex.c`, with what `os_task.c` does to waiters and
owners in a build with mutexes: `os_task_unlink` makes the task it takes out of a
mutex's list depart, so the expiry of a wait, start, pause and delete all revoke
what they owe.

| Model | Code |
|---|---|
| `locked[m]`, `owner[m]` | `mutex->locked`, `mutex->owner_id`; `Nobody` is the id 0, `Gone` the id of a deleted task, which stays in a mutex that the task left locked |
| `ownedMutexes[t]`, `base[t]` | `tcb->owned_mutexes`, `tcb->base_priority`; `prio` of `Waiting` is the effective one |
| `blockedOn[t]`, `blockedForever[t]` | `tcb->blocked_on_mutex`, `tcb->blocked_forever` |
| `WalkStep` | one turn of the loop of `os_task_mutex_priority_recompute`, with `os_task_mutex_effective_recompute` |
| `walk`, `depth` | its loop variables |
| `LockBoost` .. `LockJoin`, `Unlock` .. `Release` | the two halves of a lock that has to wait, and of an unlock with waiters, around the walk they start |
| `Depart` | `os_task_mutex_waiter_depart_tcb`: the edge is cleared, and the walk starts at the owner |
| `DeadlockCheck`, `Link` | `os_task_mutex_deadlock_check` |

A call that changes a priority is one critical section in the code and several steps
here, because the walk is a loop: every step but those of the section itself needs
`Quiet`, so nothing comes in between. `asserting` is `OS_CONFIG_ASSERT_ENABLE`: an
assertion that fails stops the program, so with assertions on the step that would
fail it is not taken, and with assertions off it is. `Init` chooses it once.

`os_mutex_init` on an object in use is refused, and on any other it only writes what
is there already; a mutex locked before `os_start` has no owner (`doc/api.md`, "Take a
mutex only after `os_start()`"), which `MutexesInit` allows.

`Locks` joins mutexes with semaphores: a task that waits for a semaphore while it
owns a mutex is boosted where it is queued, in a list that is no mutex's.

### DelayList, Alarm, Delay

`DelayList` is the delta list with its loops taken entry by entry:
`os_task_delay_insert` walks (`InsertWalk`) and links (`InsertLink`),
`os_task_tick_update` expires one entry after the other and carries the rest of
the window on (`TickExpire`, `CarryOn`). Its history variable `toWake` is the time each
sleeper has to go. `Alarm` is the promise: a countdown per sleeper that rings in
the update that reaches its time, earliest first.

`Delay` takes the delay list as `Alarm` describes it, and models time: the counter
modulo `W`, its step in `os_tick_handler` and the separate critical section that
charges it to the delay list (`TickHandlerCount`, `TickHandlerUpdate`), the window
of `os_tick_announce`, and the loops of `os_delay_ticks` and of the blocking calls,
which re-arm with `os_internal_wait_remaining`. Dispatching is free: a woken task
may run any number of ticks late. `passed` is a history variable, the ticks that
have gone by since the call.

### Event, Notify, MsgRing, Msg, Ipc

All three objects are clients of `Waiting`, as `Sem` and `Queue` are.

| Model | Code |
|---|---|
| `flags`, `request[t]`, `result[t]` | `event->flags`; what `os_task_wait_data_set` publishes; `tcb->wait_result` |
| `Satisfied`, `Match`, `Matching`, `SetBits` | the callback of `os_task_waiters_wake_match`, and `os_event_set_bits`: every waiter is judged by one snapshot, the bits consumed are cleared afterwards |
| `pending[t]`, `waiting[t]`, `NotifyGive` | the slot of a TCB; `os_notify_give` addresses its task, which is in no list |
| `bytes`, `first`, `last`, `used`, `messages` with `Put` and `Get` | the byte ring, a two-byte header before each message, both wrapping wherever they fall |
| `Senders(m)`, `Receivers(m)`, `size[t]` | the two waiter lists; a receive wakes the senders whose messages fit the room there is |

A notification's value and a message's content beyond one repeated byte make no difference
and are left out. `MsgRing` alone is a component of its own run, with the FIFO it promises;
`Msg` adds the tasks.

### Timer

One action per critical section of `os_timer.c`: start, stop, pause and resume by tasks
and handlers, `os_timer_submit` from its pools, the processing of a window of any length,
and the timer task (`timerTask`) with its fetch, its callback and its look before it sleeps.
`ticksLeft` is `remaining_ticks`, a delta while the timer runs. `until` and `owed` are
history: the time a timer really has left, and whether an expiry is owed. A callback is
application code and may make any call.

### Tickless, SysTick, Window, Mtime, CycleCounter, CpuTime

`Tickless` is the idle pass of core 0: plan, prepare, arm, sleep, close, with the
planning guard and its wrapping generation, and the other core that arms a deadline or
waits at the door. Deadlines are distances from the count; `behind` is the time that has
passed and is not yet counted.

The four modules under it look at one window, register by register, on the timers there
are: one that is stretched or masked (`SysTick`), a counter that never stops and whose tick
is no whole number of counts (`Window`), a comparator (`Mtime`), and the cycle counter that
has to go on through all this (`CycleCounter`). Each keeps as history where the tick would
have been had there been no window.

`CpuTime` has the two things that the processor's own time is for: waiting in chunks that a
wrapping counter can hold, and counting which ticks found core 0 idle.

### Park, DeepClocks

`Park` is the handshake over `soc_sleep_request`, `soc_sleep_ack`, `soc_sleep_abort` and
`soc_sleep_peer_idle`, a step between any two accesses, on both packages of the RP2350.
`generation` wraps early. `DeepClocks` is `soc_sleep.h`: which configuration of clocks and
devices lets the clocks be slowed, against what the hardware would then do.

### Section, Atomics, Switch, Boot, Stack

`Section` takes the critical section of `os_critical.c` apart: read the mask, raise it, take
the spinlock with load-exclusive and store-exclusive, look at the door of the tickless
window, count, release, restore; with interrupts that come wherever the mask lets them, and fast
ones above the mask. The other modules take a critical section as one step; this is the
module that says when they may.

`Atomics` is every atomic operation in the three ways the ports do them. `Switch` keeps a
core's registers in parts that travel on their own (core, FP, stack limit, secure context) and
the stack each core works on, on v6m, v7m, v8m with and without TrustZone, and RISC-V.
`Boot` is the order of both cores' first steps, with ticks and inter-core interrupts that
come as soon as they can. `Stack` is the watermark scan, word by word, under a task that goes on,
is deleted, or is created again.

### Heap, Log

`Heap` keeps a header wherever one was ever written: `os_mem_free` believes what lies below the pointer
it gets, and is given every pointer. A holder writes its memory, but not beyond it, and not
the image of a plausible block. `Log` is the ring, the drop counters and the log task; a byte is
its line's colour and its place in it.

## 4. The runs

| Run | What it asks | Bounds |
|---|---|---|
| `scheduler_live` | `TypeOK`, `QueuesExact`, `RunningIsCurrent`, `PreemptionRequested`, `TopPriorityRuns` | one core, three tasks, two priorities, a slice of two ticks, locks nested twice, no symmetry: enough for a task to outrank, be outranked and tie, for an inner unlock that must not switch, and for a rotation that falls due under the lock |
| `scheduler_smp` | `OneCore`, `LockPinsTask`, `AffinityRequested` | two cores, two tasks, masks "any" and "only core 1", one service task, starts from interrupts in the switch window |
| `scheduler_start_window`, `scheduler_stack_reuse` | findings, section 6 | the smallest instance that shows each |
| `objects_safe` | `WaitersExact`, `WaitersSorted`, `NoLostWakeup`, `ForeverWaits` | a semaphore and a queue of one slot, three waiter lists, two tasks of two priorities: a stale `woken_from` would reach another object's list |
| `objects_fifo` | `TypeOK`, `ImplementsFifo` | a queue of two slots, two items: the ring wraps, is displaced while full, and is emptied while tasks wait to try again |
| `objects_live` | `ItemsDelivered` | a queue of one slot, two tasks, so that one is left beside the item when the other leaves |
| `ipc_safe` | `TypeOK`, `NoLostWakeup`, `DeliveryFits` | two tasks, an event of two bits with one request for both and one that consumes, a message ring of six bytes for messages of one and of four: one long message fills it, two short ones do, and a long one waits behind a short one |
| `locks_mutex` | `ChainsExact`, `PriorityExact`, `FreeIsOffered`, `NoEndlessCycle` | one core, three tasks, two mutexes, a semaphore, two priorities, the code's depth limit of 8: chains of three, cycles of two that a timeout breaks, a boost that reaches a task queued elsewhere |
| `delay_early` | finding, section 6 | two cores, one task |
| `components_safe` | eighteen properties of twenty components that share no state | below |
| `deep_listener` | finding, section 6 | four settings unlike an idle chip's |

In `components_safe` a behaviour is one of any component, chosen in the initial state (`part`),
while the variables of all others keep their initial values and `View` leaves them out. No
component reads another's variables, so each is checked exactly as by a run of its own; the
million states are the sum, not the product. Its instances:

| Part | Properties | Bounds |
|---|---|---|
| `list` (`DelayList`) | `ImplementsAlarm` | three sleepers, delays of up to three ticks: an insertion or removal in front, between and behind, with equal times |
| `delay` | `DelayNotShort`, `TimeoutNotEarly`, `NotOverslept` | one core, a counter modulo 5, calls of up to 8 ticks, so that the counter comes round inside a call; a window of two ticks |
| `timer` | `CountdownsExact`, `DeliveriesExact` | a periodic timer, a one-shot, two pools of one entry, at once and after two ticks; periods of one or two ticks under windows of three, so that one window holds several expiries |
| `tickless` | `TicklessSafe` | deadlines of up to three ticks in two lists, a floor of two, count and generation modulo 4 |
| `systick`, `window`, `mtime`, `cycles` | `TimekeepingExact` | a tick of 10 cycles and windows of up to three, with a cycle between two accesses; a counter modulo 10 of 4 counts to 3 ticks, the true rate one off either way; an interval of 3 with windows of up to four ticks; a period of 3 cycles and a counter modulo 50 |
| `busy`, `usage` (`CpuTime`) | `TimekeepingExact` | waits of up to seven chunks on a counter modulo 16, so that it comes round inside a wait; usage counters modulo 4, so that the total comes round alone |
| `park`, `clocks` | `DeepSafe` | both packages, a generation that wraps after two; four settings unlike an idle chip's |
| `section` | `SectionSafe` | two cores, two ways of masking, two nested sections, one handler on top of each task (a third way, PRIMASK, is BASEPRI's without the fast handlers) |
| `atomics` | `AtomicsSafe` | two tasks on one core or on two, a word of two bits, all three ways |
| `heap` | `HeapExact` | 17 bytes not on a boundary, a header of two bytes, requests of 0, 1, 3, and of sizes that round over the flag and over the end of a `size_t` |
| `log` | `LogFaithful` | a ring of 7 bytes, lines of three, four and five, drop counts modulo 3 |
| `switch` | `SwitchSafe` | two cores, a task and the two idle tasks; one core where secure contexts are banked |
| `boot` | `BootSafe` | FIFO and doorbell packages, a handshake of two words, FIFOs two words deep |
| `ring` (`MsgRing`) | `ImplementsWhole` | 7 bytes, messages of one and two bytes, so that headers and payloads wrap at every byte |
| `stack` | `WatermarkHonest` | four words |
| all | `ComponentsTypeOK` | |

`TimekeepingExact` is a conjunction of seven properties, one or two to a module, and several other
properties here are conjunctions too. Where a module holds an operator commented "Mutant:" that
`PROJECT.json` does not list, it is the bug with which another conjunct was tried.

The bounds are named constants: `MaxLock` (nesting of the scheduler lock),
`MaxPassed` (how long a call may last), `MaxTicks` (the longest delay), `W`, `MaxCount`,
`Capacity`, and those the table names. `MCObjects!View` and `MCIpc!View` take two states for one if they differ only in the
arguments of a call that has ended and in the slots of a ring that hold no item,
which nothing reads: a call sets its arguments when it starts, and a slot is written before it is
read. Symmetry on tasks and items is used for invariants and safety properties only; no
choice in the models orders them. The liveness runs use neither.

`MCIpc` keeps to behaviours in which the application uses the event and notifications, or
messages (`OneKind`), and one task at a time has a finite timeout (`OneBudget`). What one
object does to a task that another one woke is the subject of `objects_safe`.

`MCLocks` leaves out interleavings that repeat others, and says which in its
constraints. `TypeOK` and `WaitersSorted` of `Locks` are left to their theorems there. A task is preempted inside a call only while it waits
(`PreemptedWaiting`): before its critical section it has done nothing, and after it
nobody can tell. A task outside of any call is not paused (`PausedInCall`): a task that
is not dispatched does as little. The others are bounds. All three tasks take part only with assertions on and
every lock in somebody's name (`TwoOrThree`), so builds without assertions and
mutexes locked before `os_start` are explored with two. One task at a time is deleted
or paused in a call (`OneAway`), while of three none waits with a limit; of three, two wait
with a limit only if they are of the lowest priority (`FewLimits`). The semaphore is
used while nobody waits with a limit or is away and one mutex is idle
(`SemaphoreOrMutex`).
Tasks and mutexes are symmetric: the `CHOOSE` in `Depart` never has two owners to choose from.

Two tasks are few for waiter lists, and the runs of `Objects` afford no third: what they
cannot show, a list that loses its order among three or a wakeup that passes
through a chain of lists, is what sections 5's theorems say for any number.

### Properties of Scheduler

* `QueuesExact`: a task is in exactly the ready list of its priority exactly
  while READY, once, and the bitmap names the non-empty lists.
* `OneCore`: no context is in the registers of two cores. What protects it is
  `running_core`, read in `Eligible`.
* `LockPinsTask`: a core that holds the scheduler lock does not change its task.
* `RunningIsCurrent`: a RUNNING task is the current task of some core.
* `PreemptionRequested`: when a ready task outranks the running one, a switch is
  pended, remembered, or (SMP) on its way.
* `AffinityRequested`: a core that runs a task it may not run has been asked to
  switch.
* `TopPriorityRuns`: a task of the highest priority that stays ready runs, unless
  it is disturbed: paused, deleted, reprioritised, or the like.

### Properties of the objects

* `WaitersExact`, `WaitersSorted`: the waiter lists against the states and priorities.
* `NoLostWakeup`: while a task waits, every token, item or free slot is matched by
  a task that was woken for it, can run, and will try again. This is what the
  compensation in `os_task_wake_compensate` is for.
* `ForeverWaits`: a call with `OS_WAIT_FOREVER` never reports a timeout.
* `ImplementsFifo`: every step of a queue is a put, a take, a displacement of the
  oldest item or a clearing of `Fifo`, and nothing else changes its items.
* `ItemsDelivered`: an item does not stay beside a waiting receiver, nor a free slot
  beside a waiting sender.

### Properties of locks

* `ChainsExact`: a mutex is in the list of the one live task it names as its owner;
  `blocked_on_mutex` names the list the task is linked in. The walks and the
  deadlock check follow these, across every way a wait or a task can end.
* `PriorityExact`: between critical sections no live task runs below one that waits
  behind it, none is below its base priority, and one that is above has somebody
  behind it with that priority. In a cycle of waits the walk goes round until `MaxDepth`
  cuts it; the property says that the priorities have settled by then.
* `FreeIsOffered`: a mutex that is free beside waiters has been offered to one that was
  woken for it and will try.
* `NoEndlessCycle`: with assertions on no set of tasks ever waits for ever for one
  another. The check is made only when a wait begins, so every edge that closes a
  cycle later has to be harmless.

### Properties of Ipc

* `NoLostWakeup` has four parts. `NoSatisfiedWaiter`: no task waits for bits that are there.
  `MailboxExact`: a task sleeps in `os_notify_wait` only with an empty mailbox that the next
  give would wake it from, and a give wakes nobody out of another wait. `NoFittingSender`: no
  sender waits although its message fits. `MessagesMatched`: while a receiver waits, every
  message is matched by a receiver woken for it, also after a receive with too little room.
* `DeliveryFits`: what a woken task will report satisfies the wait it is in, and is not the
  delivery of an earlier one.
* `ImplementsWhole` (`MsgRing`): the ring is a queue of whole messages, wherever they wrap.

### Properties of time

* `ImplementsAlarm`: the delta list rings each alarm in the update that reaches it.
  `DeltasExact` and `NextDelayExact` of `DelayList` are proved and no longer run.
* `DelayNotShort`, `TimeoutNotEarly`: no delay ends and no call times out before its
  ticks have passed; the latter on one core only (see the findings).
* `NotOverslept`: a delay that is cut short by a wake-up is not slept again once
  its ticks have passed, unless the counter has come round meanwhile.
* `CountdownsExact`: the deltas of the running timers add up to the time each really has
  left, through restarts, pauses and windows longer than a period; the idle task's question is
  answered with the earliest of them. `DeliveriesExact`: the callbacks that will run are those
  that are owed, every pool entry is in one place, and the timer task does not sleep on one.
* `TicklessSafe`: no deadline is slept past, whoever arms it and when; none is added to a count
  that is behind; what is announced is what was slept.
* `TimekeepingExact`: every tick is counted once, by the announcement or by the handler, and
  windows do not move the ones after (`GridKept`, `CadenceKept`); a window reaches its deadline
  and ends (`AlarmInTime`); what is measured beyond whole ticks is kept (`NothingDropped`); the cycle counter does not run
  backwards (`NeverBackwards`); a busy wait lasts as long as asked and not much longer
  (`BusyWaitExact`); the usage reported is that of the ticks gone by (`UsageHonest`).
* `DeepSafe`: PLL and clocks are stopped or slowed only under a peer parked for this very request,
  no release and (on Arm) no abort is missed, and nothing that works or answers runs on a slowed clock.

### Properties of what the rest stands on

* `SectionSafe`: the kernel lock has one holder, with the mask raised while it spins or holds;
  and a context leaves its sections with the mask it brought.
* `AtomicsSafe`: every call is one step for all others, and a compare-and-swap refuses only for
  cause.
* `SwitchSafe`: a task finds every part of its registers as it left them, and no two cores
  work on one stack.
* `BootSafe`: no switch stores a context through a PSP that was never a stack, no core
  dispatches from a kernel half made, and the launch is not robbed of its words.
* `HeapExact`: free and used blocks tile the heap, no two free ones touch, each holds what was asked
  for, and the total is that of the list, whatever is freed.
* `LogFaithful`: accepted lines reach the hook whole and in order, every drop is reported
  once and never inside a line, and the log task does not sleep on either.
* `WatermarkHonest`: for a task that lives through the call, the watermark lies between what it
  had left at its begin and at its end.

### Fairness

`Scheduler`: a core that may start, switch or select does so (weak fairness: these
are interrupts the hardware takes once nothing masks them); a task leaves its
locked region (weak fairness on `Unlock`, strong fairness on `LastUnlock`, because a region
that is nested again and again could otherwise last for ever: without it nothing can be promised);
the tick keeps arriving outside the locked regions (strong fairness, because the
lock may be taken again between any two ticks). An inter-core interrupt need
not be delivered.

`Objects`: a ready task is dispatched and takes the steps of its call infinitely
often if it is able to infinitely often (strong fairness), and a task that has
blocked leaves its core (weak fairness). That is the promise of
`TopPriorityRuns` for tasks of one priority, which is what `objects_live` uses. No
interrupt handler, no timeout and no other task's call is assumed to happen.

## 5. The proofs

TLAPS proves, for every value of the constants, from the assumptions on them that
the modules state (every `...Assumption`: the limits of `os_config.h`, that a waiter list belongs to
one object, that a ring is longer than a header or a line, and that the special values are distinct).
TLC evaluates these assumptions in the runs:

| Theorem | Property |
|---|---|
| `SchedulerProofs!TypeCorrect` | `TypeOK` |
| `SchedulerProofs!QueuesAlwaysExact` | `QueuesExact` |
| `SchedulerProofs!NeverOnTwoCores` | `OneCore` |
| `SchedulerProofs!LockAlwaysPins` | `LockPinsTask` |
| `SchedulerProofs!AffinityAlwaysRequested` | `AffinityRequested` |
| `SchedulerProofs!PreemptionAlwaysRequested` | `PreemptionRequested`, if there is one core |
| `SchedulerProofs!RunningStaysCurrent` | `RunningIsCurrent`, if there is one core and no handler starts a task |
| `WaitingProofs!WaitingKept` | the waiting machinery's invariant, for any object |
| `ObjectsProofs!TypeCorrect` | `TypeOK` |
| `ObjectsProofs!WaitersAlwaysExact` | `WaitersExact` |
| `ObjectsProofs!WaitersAlwaysSorted` | `WaitersSorted` |
| `ObjectsProofs!NeverLostWakeup` | `NoLostWakeup` |
| `ObjectsProofs!ForeverAlwaysWaits` | `ForeverWaits` |
| `ObjectsProofs!FifoImplemented` | `ImplementsFifo` |
| `LocksProofs!TypeCorrect` | `TypeOK` |
| `LocksProofs!ChainsAlwaysExact` | `ChainsExact` |
| `LocksProofs!WaitersAlwaysSorted` | `WaitersSorted` |
| `LocksProofs!FreeAlwaysOffered` | `FreeIsOffered` |
| `LocksProofs!PriorityAlwaysExact` | `PriorityExact`, while no chain is longer than a walk |
| `LocksProofs!PriorityOfFewExact` | `PriorityExact`, if there are no more tasks than that |
| `LocksProofs!NeverEndlessCycle` | `NoEndlessCycle` |
| `IpcProofs!IpcAlwaysTyped` | `TypeOK` |
| `IpcProofs!IpcNeverLosesWakeup` | `NoLostWakeup` of `Ipc` |
| `IpcProofs!IpcAlwaysDelivers` | `DeliveryFits` |
| `IpcProofs!RingImplementsWhole`, `IpcKeepsMessages` | `ImplementsWhole`, for the ring alone and in `Ipc` |
| `IpcProofs!LogAlwaysFaithful` | `LogFaithful` |
| `TimeProofs!ListTypeCorrect` | `ListTypeOK` |
| `TimeProofs!DeltasAlwaysExact` | `DeltasExact` |
| `TimeProofs!NextDelayAlwaysExact` | `NextDelayExact` |
| `TimeProofs!AlarmsImplemented` | `ImplementsAlarm` |
| `TimeProofs!DelayTypeCorrect` | `TypeOK` |
| `TimeProofs!DelayNeverShort` | `DelayNotShort` |
| `TimeProofs!TimeoutNeverEarly` | `TimeoutNotEarly`, if there is one core |
| `TimeProofs!NeverOverslept` | `NotOverslept` |
| `TimeProofs!TicklessAlwaysSafe` | `TicklessSafe` |
| `TimeProofs!CountdownsAlwaysExact` | `CountdownsExact` |
| `TimeProofs!DeliveriesAlwaysExact` | `DeliveriesExact` |
| `TimeProofs!NothingEverDropped`, `CadenceAlwaysKept`, `BusyWaitAlwaysExact`, `UsageAlwaysHonest` | `NothingDropped`, `CadenceKept`, `BusyWaitExact`, `UsageHonest`: four of the seven parts of `TimekeepingExact` |
| `TimeProofs!AlarmAlwaysInTime` | `AlarmInTime`, a fifth, if a window is longer than it takes to arm |
| `PortProofs!GridAlwaysKept`, `CounterNeverBackwards` | `GridKept` and `NeverBackwards`, the other two |
| `TimeProofs!TimekeepingAlwaysExact` | `TimekeepingExact`, with the premise of `AlarmAlwaysInTime` |
| `PortProofs!SectionAlwaysSafe` | `SectionSafe` |
| `PortProofs!SectionTypesHold` | `SectionTypeOK`: how deep sections nest is bounded |
| `PortProofs!SwitchAlwaysSafe` | `SwitchSafe`, if builds that bank secure contexts have one core |
| `PortProofs!StacksAlwaysApart` | `StacksApart`, the half of `SwitchSafe` that needs no such premise |
| `PortProofs!BootAlwaysSafe` | `BootSafe` |
| `PortProofs!WatermarkAlwaysHonest` | `WatermarkHonest` |
| `PortProofs!AtomicsAlwaysSafe` | `AtomicsSafe` |
| `PortProofs!ParkAlwaysSafe`, `DeepAlwaysQuiet` | `ParkSafe` and `DeepIsQuiet`, whose conjunction over the two parts is `DeepSafe` |
| `TimeProofs!DeepAlwaysSafe` | `DeepSafe` |
| `PortProofs!HeapAlwaysExact` | `HeapExact` |
| `TimeProofs!ComponentsAlwaysTyped` | `ComponentsTypeOK`, from `RingAlwaysTyped` and `LogAlwaysFaithful` of `IpcProofs` |

Some theorems have a premise beyond those assumptions, and the code gives the reason each time. On two cores
`TimeoutNotEarly` and, with a start from an interrupt or another core in the switch window,
`RunningIsCurrent` are false: `delay_early` and `scheduler_start_window` are findings. So is
`SwitchSafe` with banked contexts on two cores (section 6). `PreemptionRequested` is about one core
as it stands: between cores the request travels, which `AffinityRequested` covers for affinities. And a
walk that is cut at `OS_TASK_DEADLOCK_MAX_DEPTH` leaves the rest of a longer chain unboosted: with
`MaxDepth = 1` TLC finds `PriorityExact` violated in twelve steps, by two tasks. `AlarmInTime` needs
`ArmedBeforeItEnds`, which the usual configurations satisfy and the code does not check (section 6);
so does `TimekeepingExact`, of which it is a part.

`TimekeepingExact`, `DeepSafe` and `ComponentsTypeOK` are about the specification of `MCComponents`, in
which a behaviour is one of one component while the others stand still. A step of all is a step of each or leaves
its variables (`PartSteps`), so that the behaviours of all are behaviours of each (`PartsAlone`), and what is
proved of a component alone holds of them together. `ComponentsAlwaysTyped` states two facts of
`IpcProofs` as its premises, `RingSpec => []RingTypeOK` and `LogSpec => []LogTypeOK`: `Ipc` and `Delay` both
have an `Init`, so that the module of the composition cannot extend `IpcProofs`, which proves them.

The inductive invariants:

* `Scheduler`: `TypeOK` and `QueuesExact`, that live tasks have a real priority
  (`LivePrio`), and `CoresExact`, which ties `runningCore` to the core whose
  registers hold the context (`Owned`), says that a lock is held by a task that
  runs (`LockedRuns`), that the registers hold the current task outside the
  switch window (`CpuIsCurrent`), and that a core that has not started holds
  nothing (`BootIsEmpty`). `OneCore` is not inductive alone because
  `os_task_stack_select_next` only reads `running_core`. The requests need to know what a core
  between the halves of a switch will do: keep its task only if it is locked and the request
  is remembered (`SavedRemembers`). `RunningIsCurrent` needs that there, unless the core is locked, no
  task is RUNNING (`SavedStops`), which is what a start in that window breaks.
* `Waiting`: `WInv` adds to the properties that a RUNNING task is on a core
  (`RunningOnCore`), that a wait for ever that left its list was signaled
  (`ForeverSignaled`), and that a task outside of a call has no wait open
  (`IdleCall`). `WaitersSorted` is kept because a task whose priority changes is
  taken out and inserted again in the same step.
* `Objects`: `StockMatched` is `NoLostWakeup` said once for every list: what the object
  holds for those who wait there (`Stock`: tokens, items, or free slots) does not
  exceed the tasks woken from it. It is a counting argument. A give adds one unit
  and one woken task; a call takes a unit and forgets at most its own wakeup; a
  successful send takes a slot and gives an item; a task that leaves with an
  unconsumed wakeup passes it on. The `Credit...` lemmas of `WaitingProofs` are these
  sentences for any object, about the cardinality of `Woken(s)`.
* `Locks`: the waiting machinery is `WInv` again, since a walk only reprioritises. Beside
  it `OwnersFollow` (a mutex is listed by its owner, who is live) needs to know that a
  task about to be boosted is live, which is `SectionExact`: what is left of a critical
  section concerns live tasks, and the task about to join a mutex's waiters still finds it
  locked by another. `EdgesFollow` says who is blocked where, `SelfFree` that no task
  waits for, or was woken for, a mutex it owns: without it the deletion of an owner
  could start a walk at the task it deletes. `Offered` is `FreeIsOffered` with the
  critical section in progress: a mutex just unlocked is about to be offered.
* `PriorityExact`: `PrioInv`. Each task is `Fair` if nobody behind it outranks it and a priority above
  its base is that of somebody behind it. A walk is one task away from that: all are fair but the
  task it has reached (`FairBut`), and the tasks it has visited are a chain whose priorities climb
  with it (`Climbs`). When the walk ends on a task whose priority does not change, or has come back to a task it
  visited, that one is fair too. In a circle of timed waits it goes round until `MaxDepth` cuts
  it; from the second round on it changes nothing, because all priorities of the circle are equal
  (`Circling`). Between the boost and the wait that follows it, the task about to join counts as being behind
  the owner (`Backs`, `BoostHeld`). What is left is a cut in the open, and `ShortChains` rules that out.
* `NoEndlessCycle`: `CycleInv` adds that the check a task has passed still holds when it joins
  (`CheckHeld`). No other step
  draws an edge, and who is given a mutex waits for none (`EdgesShrink`). If the edge of the joining task closed a circle of at most `MaxDepth` tasks, the
  check would have met that task, or, by the pigeonhole principle, some other one twice; in between
  those two visits would lie an endless cycle without the joining task, from before it joined
  (`CheckFinds`).
* The ring of `os_queue.c`: `TailFollows` says that `tail` is the slot behind the last item, which is
  what lets `Insert` append and `Displace` reuse the head's slot. The rest is that
  the slots of the items are distinct.
* The ring of `os_msg.c`: `RingInv`. Some cut of the bytes into headers and payloads (`Cuts`), from the
  oldest message on and modulo the ring's size, spells the messages it holds; a put makes the cut
  longer, a get takes its first piece (`PutCuts`, `GetCuts`). What one reads by following the headers is this
  cut and no other (`Delimited`): the first message at which they differed would follow the same
  header. That is the least-number principle (`LeastNatural`) in the place of an induction.
* `Ipc`: the waiting machinery is `WInv` unchanged, and each object adds its own. Of events, the
  bits judged are those of one snapshot, and a delivery is judged by the request it was made for.
  Of notifications (`NotifyInv`), a task that sleeps in `os_notify_wait` is marked as waiting and has
  an empty slot, and nobody else is marked. Of messages (`MsgInv`), every message is matched by a
  woken receiver, as the items of a queue are, but a sender is judged by its size: after a receive no
  sender whose message fits is left, because `ListWithout` takes all of those out.
* `Log`: `LogInv`. The bytes behind the tail are those owed to the hook, but for a chunk it has just seen
  (`Owing`, `ChunkFits`); once the ring was found empty what is in it starts with a whole line, so that
  a notice comes between lines (`AtLineStart`); a drop after the last notice leaves
  a line behind that keeps the task awake (`DropsSeen`).
* `DelayList`: `Sorted` and `Walked`, where `Walked` says what the local variables of
  `os_task_delay_insert` mean half way through its loop.
* `Section`: `SectionIInv`. `Fits` ties the mask of a core, its saved mask and its nesting
  count to where a context is in its section and to the mask it brought; `UnderInterrupt` and
  `UnderFast` say where a handler can have come between, so that what it leaves behind fits the
  context below again. `LockFits` says that the lock is taken exactly if it has a holder,
  that there is one holder, and that a store-exclusive whose reservation still stands finds the
  lock free. Neither half of `SectionSafe` is inductive without the other: the mask is what
  keeps a second context of the core from the lock.
* `Tickless`: `TickIInv`. While core 0 plans and sleeps, the window keeps every other core at its door
  (`WindowFits`), and no deadline is nearer than the end of the window planned (`PlanFits`): a deadline set
  between the plan and the door changes the generation, and the planning guard drops the plan.
* `Switch`: `SwitchIInv`. Who owns a context is what `runningCore` says, except between the halves of a
  switch, where the stack is already free to another core (`Ownership`); where the context of a
  task then is, in which frame or registers, and that it is complete there (`FramesFit`); the same of its
  secure part, if one core has banks (`SecureFit`).
* `Boot`: what each core has reached says which flags it has raised (`Core0Fits`, `Core1Fits`), and a word of
  the launch is in a FIFO until its echo (`LaunchFits`). `Park`: what each core has reached says what the
  shared words hold; an acknowledgement is of the generation the peer parks for (`AckFits`), and a release that
  finds the peer on its way into WFE leaves an event behind (`EventFits`).
* `Stack`: nothing above the deepest word used is touched (`Painted`), and the scan stays below what the
  task had used when it began (`ScanFits`). `Atomics`: a reservation that stands vouches for the value
  loaded (`ReservationFits`). `DeepClocks`: a configuration once accepted stays acceptable.
* `Delay`: the counter never shows more time than has passed (`TimeBounded`), and on
  one core a wait is charged only ticks that it saw (`OneCoreBounded`). Until it has come round
  since a call it shows exactly the time that has passed (`TimeExact`).
* `Window`: `WindowIInv`. The counter stands where the counts since the window opened have taken it, which
  is less than once round; what is owed is what is banked. `AlarmIInv` adds where the target lies, and that
  the flag is up if and only if it has been reached or an older target matched.
* `Mtime`: `MtimeIInv`, the place of both deadlines on the grid of the ticks. `CpuTime`: a busy wait has taken
  at least the chunks behind it and at most two looks at the counter more for each (`SpentOn`); until they
  come round, the usage counters show the ticks gone by (`UsageFits`).

* `Timer`: `TimerIInv`. The ticks of the list are the differences between the times its timers have left
  (`DeltaOf`), where a timer's time is that of its request and not what the list says. An insertion, a
  removal and a tick keep that for any list; the timers due are armed again one by one, which is an
  induction over them. An entry is free, counting down or ready, and in one of the three (`InPlace`).
* `SysTick`: `GridIInv`. `OnGrid` grows by one with every cycle, wherever the ticks are: what it lacks to the
  timer's position is within two cycles between windows, is exact in a self window (`InSelf`), and in a light one
  is the cycles since the sample, the timer having come round a whole number of times (`InLight`). The few
  accesses that open or close a window take less than a tick together (`SysTickAssumption`): a second tick that became pending
  between them would be one the hardware does not count either.
* `CycleCounter`: `CycleIInv`. The last value read is at most a period ahead of the cycles that have passed,
  and less than half the counter behind them (`AheadOfRead`): that is what tells a late read
  from one that has come round. It rests on a read taking less than a period (`CycleCounterAssumption`).
* `Section`, its nesting: `NestFits`. A section deeper than its bound is never begun, and a handler brings at most as
  much again.
* `Heap`: `HeapIInv`, of which `Layout` is about any headers, a set of free blocks and one of blocks in use: their
  extents tile the heap, and from each free block the list goes to the next higher one (`Threaded`). The chain the
  list spells is then that set, in order: since its addresses grow it reaches the marker within as many steps as the
  heap has bytes (`Nodes`), which takes the place of an induction. Carving, joining and inserting blocks
  take a layout to a layout. Between critical sections no two free blocks touch (`Apart`), the free total is
  the number of bytes free, and no address outside the blocks in use passes for one (`NoForgery`): that is what
  keeps a second free, or one of a pointer into a block, from being taken for a first.

Only model-checked:

* `TopPriorityRuns` and `ItemsDelivered`: liveness under fairness, and the `ENABLED` in it, are out of the
  prover's reach.
* That the assumptions on the constants hold of the instances, which TLC evaluates; that the code's configurations
  satisfy them is read from `os_config.h` and the packages.

## 6. Findings

With a run that shows them:

* `scheduler_start_window`: `os_task_start` asks `os_task_running_core` whether the
  task is running. Between the two halves of the switch `os_task_current` still
  names the outgoing task, so a start that lands there marks a task RUNNING that
  has switched out, and queues it nowhere. It is never run again.
* `scheduler_stack_reuse`: a task that deletes itself frees its handle while it
  still executes on its stack; another core may re-create it in between.
* `delay_early`: `os_tick_handler` steps the count before the critical section that
  charges the tick. On two cores a call that starts in between is charged a tick
  it never waited and times out one tick early.
* `deep_listener`: `soc_deep_uart_ready` keeps the clocks only for a byte that is under way or has
  been received. A UART that waits for its first byte with the receive interrupt armed is slowed,
  though `doc/raspberry-pi.md:796` and a test say that it keeps its clock.

Smaller differences between the code and its documentation, met while
translating and not given a run:

* `doc/design.md:376` says that every switch swallowed by the scheduler lock is
  remembered. The rotation at the end of a time slice is not
  (`os_task.c:1556`); the next tick takes it.
* `doc/design.md:710` says that there is no wrap to handle anywhere in a wait of any
  length. A delay whose task runs again only after the counter has come round
  (2^32 - 2 ticks, dispatched two ticks late) is slept a second time
  (`os_delay.c:184`); the premise of `NotOverslept` leaves this case out.
* `os_queue.c:112` says that a full queue can hold no blocked receiver. With two
  receivers blocked on a queue of one slot, one send fills it and wakes one of
  them. Nothing is lost: the wake that the comment calls redundant is the one
  that reaches the other.
* `os_queue.c:398` says that binding a buffer makes exactly the assignments of
  `OS_QUEUE_INITIALIZER`; it leaves `mode` as it was.
* `kernel/os_task_mutex.c:236` says that the walk is correct in both directions, a
  boost released lowering each link by the rule that raised it, and `doc/api.md:289`
  that timeouts revoke inheritance. In a cycle of timed waits, which the deadlock
  check rightly lets through, a boost does not go away: once a third task has boosted
  one of the two and left, each of them derives its priority from the other until
  one of the waits ends. `PriorityExact` holds of such a state, because the task behind
  does have that priority.
* `doc/design.md:340` says that a boost does not propagate through a chain and is
  recomputed lazily; the code and `doc/api.md:278` do both eagerly and transitively.
* `doc/design.md:794` says that a boost does not reposition a task queued at an unrelated
  object; `os_task.c:2785` does. `WaitersSorted` in `locks_mutex` depends on it.

Met in the proof of `AlarmAlwaysInTime`: `os_arch_tick_suppress_min_cb` computes the shortest window
from the declared rate of the LPTIM (`soc/st/stm32/soc_cb.c:834`), while the target of a window is computed
from the measured one (`:512`), which may be a quarter lower. A window can then be shorter than the
`SOC_LPTIM_ARM_COUNTS` it may take to arm, although the comment at line 813 says that it has to last longer:
if the counter has passed the target when the write settles, the core sleeps until it comes round or another
interrupt comes. With ticks of 16384 Hz on a clock declared as 32768 Hz that runs a quarter slow, the shortest window,
two ticks, is three counts. `tlc` on `Window` alone with `Declared = 4`, `TickHz = 2`, `Span = 12` and
`ArmCounts = 4` finds `AlarmInTime` violated in eight steps. At the usual tick of 1 kHz a window is far
longer than that.

Met in the modules of `components_safe`. Each shows when the property named, which its module
defines, is added to `MCComponents_safe.cfg` in the place of the others, the two marked (action)
as a PROPERTY and the others as an INVARIANT:

* `Boot!LaunchedBeforeTasks`. Interrupts are on while `os_start` runs, and `os_kernel_running`
  is set before the other cores are launched. A tick that comes in between dispatches the
  first task and abandons `os_start`: core 1 is never launched. The comment at `os_kernel.c:214`
  takes the order of the calls for the order of events; `os_arch_port_v7m.c:226` names the same gap.
* `Park!AbortHeard`. On RISC-V the owner retires its software interrupt
  (`rp235x_riscv/soc_cb.c:635`) after it has opened the window; the abort of a peer that lands before is
  cleared with it, and the owner sleeps until its deadline. The comment at line 796 says that a real
  request is never missed. Nothing but that time is lost.
* `Window!ClockConverges`. `os_arch_tickless.c:257` cuts what a window measured to what was planned. A
  window that closes a tick late, or that ran to its end with nearly a tick left over from earlier
  ones, measures one tick more, and that tick is announced to nobody, while the comment at
  `soc/st/stm32/soc_cb.c:470` says that the announced time converges on the real one.
* `Stack!WatermarkOfOneTask` (action). The second look of `os_task_stack_watermark_get` reads the
  id from the handle again. A task deleted and created again on the same handle and memory under
  the scan passes it, which the comment before the scan (`os_task.c:796`) rules out.
* `CycleCounter!NeverOvercounts` (action). The tick is pending from when SysTick reaches zero, a
  cycle before it reloads. A read that finds the position at or just before zero and the tick
  pending (`os_arch_cycle_systick.c:199`) counts a period that is not over. The next reads are held
  there until time has caught up, so the counter never runs backwards and does not drift, but
  that one interval is up to a period too long; the comment at line 210 expects only intervals that are
  too short.
* `Switch!ContextIntact` on `[port |-> "v8m", banks |-> TRUE, cores |-> {h0, h1}]`, which
  `MCBuilds` leaves out. In a non-secure kernel PendSV banks the secure context after
  `os_task_stack_save_current`, whose comment (`os_task.c:1874`) says that the context is safely saved
  and that any core may take the task from there on. Another core that takes it before
  `os_arch_tz_context_save` runs loads a secure context that has not been put away. No
  check of the build keeps two cores and `OS_CONFIG_TRUSTZONE_NON_SECURE` apart; the default is
  without TrustZone.

## 7. Not modelled

* What the RISC-V package does to its tick grid around a deep window (`rp235x_riscv/soc_cb.c`, the
  re-basing of `mtimecmp` on another clock), and the interrupt enable a core of it boots with, which is
  the SDK's.
* Stack overflow: the limit register travels with a task in `Switch`, but nobody overruns a
  stack, and the software guard word of the cores without that register is not checked.
* Fault handlers, reports, consoles, the setup of clocks and pins: input and output of hardware
  without kernel state. `os_log_hex`, and the formatting of a line beyond its length.
* The names of objects, the task table's search by id, the two snapshots of a queue.
* That a log line is shorter than the log's ring: no check of the code holds it, and
  `LogAssumption` names what happens otherwise.
* The installer tools, the examples, the template and the tests, which were read as documentation.
