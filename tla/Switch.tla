-------------------------------- MODULE Switch --------------------------------
(***************************************************************************)
(* The context switch of the ports: the PendSV handlers of                 *)
(* arch/arm/common/os_arch_port_v6m.c, _v7m.c and _v8m.c, the software     *)
(* interrupt of arch/riscv/common/os_arch_port_rv32.c, the first start and *)
(* the frame of a new task, between os_task_stack_save_current and         *)
(* os_task_stack_select_next of kernel/os_task.c.                          *)
(*                                                                         *)
(* A core's registers come in parts that travel on their own: what every   *)
(* frame holds, the FP registers (saved only for a task that has used      *)
(* them), the stack limit, the secure side's context.  A value names its   *)
(* task and one of two versions.  Which ready task is picked is module     *)
(* Scheduler's; here it is any.                                            *)
(***************************************************************************)
EXTENDS Naturals, FiniteSets

CONSTANTS
    SwitchTask, SwitchCore, IdleOf, \* IdleOf[c]: the idle task of core c
    NoTask, NoHost, \* NULL, OS_CONFIG_CORE_COUNT
    Builds          \* the port, does it bank secure contexts, its cores

ASSUME SwitchAssumption ==
    /\ NoTask \notin SwitchTask /\ NoHost \notin SwitchCore
    /\ IdleOf \in [SwitchCore -> SwitchTask]
    /\ \A c, d \in SwitchCore : IdleOf[c] = IdleOf[d] => c = d  \* os_task_idle_tcb[core]
    /\ Builds \subseteq [port : {"v6m", "v7m", "v8m", "rv32"}, banks : BOOLEAN,
                         cores : SUBSET SwitchCore]

Part == {"core", "fp", "limit", "secure"}
Value == (SwitchTask \cup {NoTask}) \X {0, 1}
Kind == {"boot", "handler", "task"}

VARIABLES
    build,
    regs,           \* of each core: its registers, by part
    fpca,           \* has what runs on the core used the FP registers?
    psp,            \* the task whose stack the process stack pointer is in, or 0
    handlerStack,   \* the stack of the handlers of a core
    place,          \* where each core is
    pended,         \* is a switch pending there?
    pushed,         \* the frame a core has pushed on the outgoing stack
    frame,          \* of each task: what its stack_ptr points to
    bank,           \* of each task: its secure context, put away
    taskState, runningCore, current, \* of the TCBs, os_task_current
    version, usedFp \* what each task left in its registers

kernelVars == <<taskState, runningCore, current>>
switchVars == <<build, regs, fpca, psp, handlerStack, place, pended, pushed, frame, bank,
                kernelVars, version, usedFp>>

Frame == [core : Value, fp : Value, limit : Value, exc : BOOLEAN]

\* os_arch_task_stack_initialize: the limit is the task's own, and the first
\* EXC_RETURN says that the FP registers are not used.
NewFrame(t) == [core |-> <<t, 0>>, fp |-> <<NoTask, 0>>, limit |-> <<t, 0>>, exc |-> FALSE]

\* os_arch_init primes the process stack pointer with 0.
SwitchInit ==
    /\ build \in Builds
    /\ regs = [c \in SwitchCore |-> [p \in Part |-> <<NoTask, 0>>]]
    /\ fpca = [c \in SwitchCore |-> FALSE]
    /\ psp = [c \in SwitchCore |-> NoTask]
    /\ handlerStack = [c \in SwitchCore |-> <<"boot", c>>]
    /\ place = [c \in SwitchCore |-> "boot"]
    /\ pended = [c \in SwitchCore |-> FALSE]
    /\ frame = [t \in SwitchTask |-> NewFrame(t)]
    /\ pushed = [c \in SwitchCore |-> NewFrame(NoTask)]
    /\ bank = [t \in SwitchTask |-> <<t, 0>>]
    /\ taskState = [t \in SwitchTask |-> "ready"]
    /\ runningCore = [t \in SwitchTask |-> NoHost]
    /\ current = [c \in SwitchCore |-> NoTask]
    /\ version = [t \in SwitchTask |-> 0]
    /\ usedFp = [t \in SwitchTask |-> FALSE]

RiscV == build.port = "rv32"
HasFp == build.port \in {"v7m", "v8m"}
HasLimit == build.port = "v8m"

-----------------------------------------------------------------------------
(* What runs on a core, and the calls that reach the scheduler.            *)

\* The running task changes what it has in its registers.
Compute(c) ==
    LET t == current[c]
        new == <<t, 1 - version[t]>>
    IN /\ place[c] = "thread"
       /\ version' = [version EXCEPT ![t] = 1 - @]
       /\ regs' = [regs EXCEPT ![c].core = new,
                               ![c].fp = IF fpca[c] THEN new ELSE @,
                               ![c].secure = IF build.banks THEN new ELSE @]
       /\ UNCHANGED <<build, fpca, psp, handlerStack, place, pended, pushed, frame, bank,
                      kernelVars, usedFp>>

\* Its first FP instruction.
UseFp(c) ==
    LET t == current[c] IN
    /\ place[c] = "thread" /\ HasFp /\ ~fpca[c]
    /\ fpca' = [fpca EXCEPT ![c] = TRUE]
    /\ regs' = [regs EXCEPT ![c].fp = <<t, version[t]>>]
    /\ usedFp' = [usedFp EXCEPT ![t] = TRUE]
    /\ UNCHANGED <<build, psp, handlerStack, place, pended, pushed, frame, bank, kernelVars, version>>

\* OS_ARCH_CONTEXT_SWITCH_REQUEST, from here or from another core; the task
\* blocks, or only yields.
Request(c, blocks) ==
    /\ place[c] = "thread" /\ ~pended[c]
    /\ blocks => current[c] # IdleOf[c]
    /\ pended' = [pended EXCEPT ![c] = TRUE]
    /\ taskState' = IF blocks THEN [taskState EXCEPT ![current[c]] = "blocked"] ELSE taskState
    /\ UNCHANGED <<build, regs, fpca, psp, handlerStack, place, pushed, frame, bank,
                   runningCore, current, version, usedFp>>

\* A task that blocked is made ready, perhaps while its core still switches.
Wakes(t) ==
    /\ taskState[t] = "blocked"
    /\ taskState' = [taskState EXCEPT ![t] = "ready"]
    /\ UNCHANGED <<build, regs, fpca, psp, handlerStack, place, pended, pushed, frame, bank,
                   runningCore, current, version, usedFp>>

-----------------------------------------------------------------------------
(* The handler.                                                            *)

\* os_arch_start_first_task.  Arm pends a switch and finds no process stack;
\* RISC-V lends the boot stack to the scheduler and calls it.
StartFirst(c) ==
    /\ place[c] = "boot" /\ c \in build.cores
    /\ place' = [place EXCEPT ![c] = "select"]
    /\ fpca' = [fpca EXCEPT ![c] = FALSE]
    /\ UNCHANGED <<build, regs, psp, handlerStack, pended, pushed, frame, bank, kernelVars,
                   version, usedFp>>

\* The exception is taken, unless the kernel masks it.
Enter(c) ==
    /\ place[c] = "thread" /\ pended[c]
    /\ pended' = [pended EXCEPT ![c] = FALSE]
    /\ place' = [place EXCEPT ![c] = "push"]
    /\ UNCHANGED <<build, regs, fpca, psp, handlerStack, pushed, frame, bank, kernelVars,
                   version, usedFp>>

\* Mutant: the FP registers are never saved.
NeverFp(c) == FALSE
\* EXC_RETURN of the exception: the interrupted task has used them.
FpFrame(c) == fpca[c]

\* The registers go to the outgoing task's stack, and the calls that follow
\* use them.
Push(c) ==
    /\ place[c] = "push"
    /\ pushed' = [pushed EXCEPT ![c] =
         [core |-> regs[c].core,
          fp |-> IF FpFrame(c) THEN regs[c].fp ELSE <<NoTask, 0>>,
          limit |-> regs[c].limit, exc |-> fpca[c]]]
    /\ regs' = [regs EXCEPT ![c].core = <<NoTask, 0>>]
    /\ place' = [place EXCEPT ![c] = "save"]
    /\ UNCHANGED <<build, fpca, psp, handlerStack, pended, frame, bank, kernelVars,
                   version, usedFp>>

\* os_task_stack_save_current: from here on any core may take the task.
SaveCurrent(c) ==
    LET t == current[c] IN
    /\ place[c] = "save"
    /\ frame' = [frame EXCEPT ![t] = pushed[c]]
    /\ pushed' = [pushed EXCEPT ![c] = NewFrame(NoTask)]
    /\ runningCore' = [runningCore EXCEPT ![t] = NoHost]
    /\ taskState' = [taskState EXCEPT ![t] = IF @ = "running" THEN "ready" ELSE @]
    /\ place' = [place EXCEPT ![c] = IF build.banks THEN "bank" ELSE "select"]
    /\ UNCHANGED <<build, regs, fpca, psp, handlerStack, pended, bank, current,
                   version, usedFp>>

\* os_arch_tz_context_save.
BankSave(c) ==
    /\ place[c] = "bank"
    /\ bank' = [bank EXCEPT ![current[c]] = regs[c].secure]
    /\ place' = [place EXCEPT ![c] = "select"]
    /\ UNCHANGED <<build, regs, fpca, psp, handlerStack, pended, pushed, frame, kernelVars,
                   version, usedFp>>

\* Mutant: a task that is still being switched out is taken.
ReadyAtAll(t) == taskState[t] = "ready"
Takeable(t) == taskState[t] = "ready" /\ runningCore[t] = NoHost

\* os_task_stack_select_next: a ready task, or the idle task of the core.
SelectNext(c) ==
    LET idle == {IdleOf[d] : d \in SwitchCore}
        isReady == {t \in SwitchTask \ idle : Takeable(t)}
    IN /\ place[c] = "select"
       /\ \E t \in IF isReady = {} THEN {IdleOf[c]} ELSE isReady :
            /\ taskState' = [taskState EXCEPT ![t] = "running"]
            /\ runningCore' = [runningCore EXCEPT ![t] = c]
            /\ current' = [current EXCEPT ![c] = t]
       /\ place' = [place EXCEPT ![c] = IF build.banks THEN "unbank" ELSE "restore"]
       /\ UNCHANGED <<build, regs, fpca, psp, handlerStack, pended, pushed, frame, bank,
                      version, usedFp>>

\* os_arch_tz_context_restore.
BankLoad(c) ==
    /\ place[c] = "unbank"
    /\ regs' = [regs EXCEPT ![c].secure = bank[current[c]]]
    /\ place' = [place EXCEPT ![c] = "restore"]
    /\ UNCHANGED <<build, fpca, psp, handlerStack, pended, pushed, frame, bank, kernelVars,
                   version, usedFp>>

\* Mutant: every core takes the stack that the vector table names.
TableStack(c) == <<"handler", CHOOSE d \in SwitchCore : TRUE>>
\* os_arch_handler_stack_top_cb, and the boot stack of a RISC-V hart.
HandlerTop(c) == IF RiscV THEN <<"boot", c>> ELSE <<"handler", c>>

\* os_arch_context_restore_asm; on the first start the boot context is given up.
Restore(c) ==
    LET f == frame[current[c]] IN
    /\ place[c] = "restore"
    /\ regs' = [regs EXCEPT ![c].core = f.core,
                            ![c].fp = IF f.exc THEN f.fp ELSE @,
                            ![c].limit = IF HasLimit THEN f.limit ELSE @]
    /\ fpca' = [fpca EXCEPT ![c] = f.exc]
    /\ handlerStack' = IF psp[c] = NoTask
                       THEN [handlerStack EXCEPT ![c] = HandlerTop(c)] ELSE handlerStack
    /\ psp' = [psp EXCEPT ![c] = current[c]]
    /\ place' = [place EXCEPT ![c] = "thread"]
    /\ UNCHANGED <<build, pended, pushed, frame, bank, kernelVars, version, usedFp>>

SwitchNext ==
    \/ \E c \in SwitchCore :
         \/ Compute(c) \/ UseFp(c) \/ StartFirst(c) \/ Enter(c) \/ Push(c)
         \/ SaveCurrent(c) \/ BankSave(c) \/ SelectNext(c) \/ BankLoad(c) \/ Restore(c)
         \/ \E blocks \in BOOLEAN : Request(c, blocks)
    \/ \E t \in SwitchTask : Wakes(t)

SwitchSpec == SwitchInit /\ [][SwitchNext]_switchVars

-----------------------------------------------------------------------------
SwitchTypeOK ==
    /\ build \in Builds
    /\ regs \in [SwitchCore -> [Part -> Value]]
    /\ {frame[t] : t \in SwitchTask} \cup {pushed[c] : c \in SwitchCore} \subseteq Frame
    /\ bank \in [SwitchTask -> Value]
    /\ taskState \in [SwitchTask -> {"ready", "running", "blocked"}]
    /\ runningCore \in [SwitchTask -> SwitchCore \cup {NoHost}]
    /\ current \in [SwitchCore -> SwitchTask \cup {NoTask}]
    /\ place \in [SwitchCore -> {"boot", "thread", "push", "save", "bank", "select",
                              "unbank", "restore"}]

\* A task finds every part of its registers as it left them, whichever core
\* took it up, whoever ran there before, and however its wake raced the switch.
ContextIntact ==
    \A c \in SwitchCore : place[c] = "thread" =>
        LET t == current[c] IN
        /\ regs[c].core = <<t, version[t]>>
        /\ build.banks => regs[c].secure = <<t, version[t]>>
        /\ HasLimit => regs[c].limit = <<t, 0>>
        /\ fpca[c] = usedFp[t]
        /\ fpca[c] => regs[c].fp = <<t, version[t]>>

\* The stack a core works on: on RISC-V the frame is pushed and popped on the
\* task's own.
StackOf(c) ==
    IF place[c] = "boot" THEN <<"boot", c>>
    ELSE IF place[c] = "thread" \/ (RiscV /\ place[c] \in {"push", "restore"})
         THEN <<"task", current[c]>>
         ELSE handlerStack[c]

\* No two cores work on one stack, through any switch and any first start.
StacksApart ==
    \A c, d \in SwitchCore : c # d => StackOf(c) # StackOf(d)

\* A switch hands a task its own registers and its own stack.
SwitchSafe == ContextIntact /\ StacksApart
=============================================================================
