--------------------------------- MODULE Boot --------------------------------
(***************************************************************************)
(* How the two cores of an RP2040 or an RP235x (Arm) come up: os_init and  *)
(* os_start in kernel/os_kernel.c, os_arch_init in the port, the launch of *)
(* core 1 in soc/raspberrypi/common/soc_common.c, and the inter-core       *)
(* interrupt of each package.                                              *)
(*                                                                         *)
(* Core 0 runs all of it with interrupts enabled; its tick runs from       *)
(* os_tick_init on.  A switch is taken as soon as it is pended and         *)
(* interrupts are on.  The task it selects runs from then on, and what the *)
(* core was doing before is abandoned.  No application interrupt and no    *)
(* failing initialisation: os_kernel_init_require stops the core.          *)
(***************************************************************************)
EXTENDS Naturals

CONSTANTS
    Packages,       \* "fifo" (RP2040: IPIs and the launch share the FIFOs),
                    \* "doorbell" (RP235x)
    LaunchWords,    \* words of the launch handshake, 6 in the SDK
    FifoDepth       \* words an inter-core FIFO holds

ASSUME BootAssumption ==
    /\ Packages \subseteq {"fifo", "doorbell"}
    /\ LaunchWords \in Nat \ {0}
    /\ FifoDepth \in Nat \ {0}

BootCore == {0, 1}
OtherCore(c) == 1 - c

VARIABLES
    package,
    stage,          \* what each core executes
    irqOff,         \* PRIMASK
    bootPsp,        \* "unknown" at reset, "none" (0), or "task"
    switchDue,      \* is the switch exception pended?
    tickOn,         \* does the core's SysTick run?
    ipiArmed,       \* is its inter-core interrupt enabled?
    fifo,           \* words in its receive FIFO
    bell,           \* its doorbell
    launched,       \* words of the handshake core 0 has sent
    echoDue,        \* core 0 waits for the echo of the last one
    tasksMade,      \* do the idle and service tasks exist?
    initialized,    \* os_kernel_initialized
    kernelRunning,  \* os_kernel_running
    strayStore      \* has a switch stored a context through an unknown PSP?

kernelFlags == <<tasksMade, initialized, kernelRunning>>
launchVars == <<launched, echoDue>>
irqVars == <<irqOff, bootPsp, switchDue, tickOn, ipiArmed>>
signalVars == <<fifo, bell>>
bootVars == <<package, stage, irqVars, signalVars, launchVars, kernelFlags, strayStore>>

BootInit ==
    /\ package \in Packages
    /\ stage = [c \in BootCore |-> IF c = 0 THEN "soc" ELSE "rom"]
    /\ irqOff = [c \in BootCore |-> FALSE]
    /\ bootPsp = [c \in BootCore |-> "unknown"]
    /\ switchDue = [c \in BootCore |-> FALSE]
    /\ tickOn = [c \in BootCore |-> FALSE]
    /\ ipiArmed = [c \in BootCore |-> FALSE]
    /\ fifo = [c \in BootCore |-> 0]
    /\ bell = [c \in BootCore |-> FALSE]
    /\ launched = 0 /\ echoDue = FALSE
    /\ tasksMade = FALSE /\ initialized = FALSE /\ kernelRunning = FALSE
    /\ strayStore = FALSE

\* Core c executes `from` and goes on with `to`; a pended switch comes first.
Goes(c, from, to) ==
    /\ stage[c] = from
    /\ switchDue[c] => irqOff[c]
    /\ stage' = [stage EXCEPT ![c] = to]
    /\ UNCHANGED <<package, strayStore>>

-----------------------------------------------------------------------------
(* os_init, on core 0.                                                     *)

\* Mutant: core 0 arms its inter-core interrupt as it readies the SoC.
SocInitArms ==
    /\ Goes(0, "soc", "arch")
    /\ ipiArmed' = [ipiArmed EXCEPT ![0] = TRUE]
    /\ UNCHANGED <<irqOff, bootPsp, switchDue, tickOn, signalVars, launchVars, kernelFlags>>

\* os_arch_soc_init_cb: the clock and the spinlock; the interrupt is not armed.
SocInit ==
    /\ Goes(0, "soc", "arch")
    /\ UNCHANGED <<irqVars, signalVars, launchVars, kernelFlags>>

\* os_arch_init: no task context yet.
ArchInit(c) ==
    /\ Goes(c, "arch", IF c = 0 THEN "create" ELSE "tick")
    /\ bootPsp' = [bootPsp EXCEPT ![c] = "none"]
    /\ UNCHANGED <<irqOff, switchDue, tickOn, ipiArmed, signalVars, launchVars, kernelFlags>>

\* os_task_system_init and the idle, timer, log and main tasks.
CreateTasks ==
    /\ Goes(0, "create", "tick")
    /\ tasksMade' = TRUE
    /\ UNCHANGED <<irqVars, signalVars, launchVars, initialized, kernelRunning>>

\* os_arch_tick_init.
TickInit(c) ==
    /\ Goes(c, "tick", IF c = 0 THEN "inited" ELSE "first")
    /\ tickOn' = [tickOn EXCEPT ![c] = TRUE]
    /\ UNCHANGED <<irqOff, bootPsp, switchDue, ipiArmed, signalVars, launchVars, kernelFlags>>

Initialized ==
    /\ Goes(0, "inited", "start")
    /\ initialized' = TRUE
    /\ UNCHANGED <<irqVars, signalVars, launchVars, tasksMade, kernelRunning>>

-----------------------------------------------------------------------------
(* os_start, on core 0: launch core 1, then start the first task.          *)

Start ==
    /\ initialized /\ ~kernelRunning /\ tasksMade
    /\ Goes(0, "start", "launch")
    /\ kernelRunning' = TRUE
    /\ UNCHANGED <<irqVars, signalVars, launchVars, tasksMade, initialized>>

\* multicore_launch_core1 sends a word and waits for its echo.
SendWord ==
    /\ launched < LaunchWords /\ ~echoDue /\ fifo[1] < FifoDepth
    /\ Goes(0, "launch", "launch")
    /\ fifo' = [fifo EXCEPT ![1] = @ + 1]
    /\ echoDue' = TRUE
    /\ UNCHANGED <<irqVars, bell, launched, kernelFlags>>

HearEcho ==
    /\ echoDue /\ fifo[0] > 0
    /\ Goes(0, "launch", IF launched + 1 = LaunchWords THEN "arm" ELSE "launch")
    /\ fifo' = [fifo EXCEPT ![0] = @ - 1]
    /\ echoDue' = FALSE
    /\ launched' = launched + 1
    /\ UNCHANGED <<irqVars, bell, kernelFlags>>

\* The boot ROM of core 1 echoes each word, and enters after the last.
RomEcho ==
    /\ fifo[1] > 0 /\ fifo[0] < FifoDepth
    /\ Goes(1, "rom", IF echoDue /\ launched + 1 = LaunchWords THEN "entry" ELSE "rom")
    /\ fifo' = [fifo EXCEPT ![1] = @ - 1, ![0] = @ + 1]
    /\ UNCHANGED <<irqVars, bell, launchVars, kernelFlags>>

\* soc_ipi_arm.
ArmIpi(c) ==
    /\ Goes(c, "arm", IF c = 0 THEN "first" ELSE "enter")
    /\ ipiArmed' = [ipiArmed EXCEPT ![c] = TRUE]
    /\ UNCHANGED <<irqOff, bootPsp, switchDue, tickOn, signalVars, launchVars, kernelFlags>>

\* os_arch_start_first_task: pend the first switch, with interrupts on.
FirstTask(c) ==
    /\ Goes(c, "first", "spin")
    /\ bootPsp' = [bootPsp EXCEPT ![c] = "none"]
    /\ switchDue' = [switchDue EXCEPT ![c] = TRUE]
    /\ irqOff' = [irqOff EXCEPT ![c] = FALSE]
    /\ UNCHANGED <<tickOn, ipiArmed, signalVars, launchVars, kernelFlags>>

-----------------------------------------------------------------------------
(* soc_core1_entry and os_core_start.                                      *)

\* Mutant: core 1 leaves its interrupts on.
EntryUnmasked ==
    /\ Goes(1, "entry", "arm")
    /\ UNCHANGED <<irqVars, signalVars, launchVars, kernelFlags>>

Core1Entry ==
    /\ Goes(1, "entry", "arm")
    /\ irqOff' = [irqOff EXCEPT ![1] = TRUE]
    /\ UNCHANGED <<bootPsp, switchDue, tickOn, ipiArmed, signalVars, launchVars, kernelFlags>>

\* os_core_start stops a core that was released too early.
EnterKernel ==
    /\ Goes(1, "enter", IF initialized /\ kernelRunning /\ tasksMade THEN "arch" ELSE "trap")
    /\ UNCHANGED <<irqVars, signalVars, launchVars, kernelFlags>>

-----------------------------------------------------------------------------
(* Interrupts.                                                             *)

Taken(c) == ~irqOff[c] /\ stage[c] # "rom" /\ UNCHANGED <<package, stage, strayStore>>

\* Mutant: the tick asks for a switch in a kernel that is not running.
TickAlways(c) ==
    /\ tickOn[c] /\ Taken(c)
    /\ switchDue' = [switchDue EXCEPT ![c] = TRUE]
    /\ UNCHANGED <<irqOff, bootPsp, tickOn, ipiArmed, signalVars, launchVars, kernelFlags>>

\* os_tick_handler: with no current task, any ready task calls for a switch.
TickInterrupt(c) ==
    /\ tickOn[c] /\ Taken(c)
    /\ kernelRunning
    /\ switchDue' = [switchDue EXCEPT ![c] = TRUE]
    /\ UNCHANGED <<irqOff, bootPsp, tickOn, ipiArmed, signalVars, launchVars, kernelFlags>>

\* soc_ipi_handler: clear the signal, which drains the FIFO on the RP2040.
IpiInterrupt(c) ==
    /\ ipiArmed[c] /\ Taken(c)
    /\ IF package = "fifo" THEN fifo[c] > 0 ELSE bell[c]
    /\ IF package = "fifo"
       THEN fifo' = [fifo EXCEPT ![c] = 0] /\ UNCHANGED bell
       ELSE bell' = [bell EXCEPT ![c] = FALSE] /\ UNCHANGED fifo
    /\ switchDue' = [switchDue EXCEPT ![c] = TRUE]
    /\ UNCHANGED <<irqOff, bootPsp, tickOn, ipiArmed, launchVars, kernelFlags>>

\* os_arch_core_ipi_request_cb, called by a task; a full FIFO takes no more.
IpiRequest(c) ==
    /\ stage[c] = "tasks"
    /\ IF package = "fifo"
       THEN fifo[OtherCore(c)] < FifoDepth /\ fifo' = [fifo EXCEPT ![OtherCore(c)] = @ + 1] /\ UNCHANGED bell
       ELSE bell' = [bell EXCEPT ![OtherCore(c)] = TRUE] /\ UNCHANGED fifo
    /\ UNCHANGED <<package, stage, irqVars, launchVars, kernelFlags, strayStore>>

\* The switch: it saves a context unless PSP is 0, and starts a task.
TakeSwitch(c) ==
    /\ switchDue[c] /\ ~irqOff[c]
    /\ strayStore' = (strayStore \/ bootPsp[c] = "unknown")
    /\ bootPsp' = [bootPsp EXCEPT ![c] = "task"]
    /\ stage' = [stage EXCEPT ![c] = "tasks"]
    /\ switchDue' = [switchDue EXCEPT ![c] = FALSE]
    /\ UNCHANGED <<package, irqOff, tickOn, ipiArmed, signalVars, launchVars, kernelFlags>>

BootNext ==
    \/ SocInit \/ CreateTasks \/ Initialized
    \/ Start \/ SendWord \/ HearEcho \/ RomEcho
    \/ Core1Entry \/ EnterKernel
    \/ \E c \in BootCore :
         \/ ArchInit(c) \/ TickInit(c) \/ ArmIpi(c) \/ FirstTask(c)
         \/ TickInterrupt(c) \/ IpiInterrupt(c) \/ IpiRequest(c) \/ TakeSwitch(c)

BootSpec == BootInit /\ [][BootNext]_bootVars

-----------------------------------------------------------------------------
(* Properties.                                                             *)

Stage == {"soc", "rom", "entry", "arm", "enter", "arch", "create", "tick", "inited",
          "start", "launch", "first", "spin", "tasks", "trap"}

BootTypeOK ==
    /\ package \in Packages /\ stage \in [BootCore -> Stage]
    /\ irqOff \in [BootCore -> BOOLEAN] /\ bootPsp \in [BootCore -> {"unknown", "none", "task"}]
    /\ switchDue \in [BootCore -> BOOLEAN] /\ tickOn \in [BootCore -> BOOLEAN]
    /\ ipiArmed \in [BootCore -> BOOLEAN]
    /\ fifo \in [BootCore -> 0 .. FifoDepth] /\ bell \in [BootCore -> BOOLEAN]
    /\ launched \in 0 .. LaunchWords /\ echoDue \in BOOLEAN
    /\ {tasksMade, initialized, kernelRunning, strayStore} \subseteq BOOLEAN

\* A core that runs tasks finds a complete kernel: no tick and no launch lets
\* a core dispatch before os_init is done, and core 1 is never turned away.
CompleteKernel ==
    \A c \in BootCore :
        /\ stage[c] = "tasks" => tasksMade /\ initialized /\ kernelRunning
        /\ stage[c] # "trap"

\* While core 0 waits for an echo, the word or its echo is in a FIFO: no
\* handler has drained it (the comment in os_arch_core_launch_cb).
EchoHeard == stage[0] = "launch" /\ echoDue => fifo[0] + fifo[1] > 0

\* Core 1 and core 0 come up in order whatever interrupts: no switch stores a
\* context through a PSP that was never a stack, no core dispatches from a
\* kernel half made, and the handshake is not robbed of its words.
BootSafe == ~strayStore /\ CompleteKernel /\ EchoHeard

\* Once core 0 runs tasks, core 1 was launched and core 0 hears its requests:
\* what the comment in os_start says of the order of its calls.
LaunchedBeforeTasks == stage[0] = "tasks" => launched = LaunchWords /\ ipiArmed[0]
=============================================================================
