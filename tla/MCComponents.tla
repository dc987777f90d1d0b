----------------------------- MODULE MCComponents -----------------------------
(***************************************************************************)
(* Small instances for TLC of the components that share no state with each *)
(* other in the models: a behaviour is one of any of them, named by part,  *)
(* while the variables of the others keep their initial values.  A state   *)
(* that one part cannot reach alone is none of these, so each is checked   *)
(* as by a run of its own.                                                 *)
(***************************************************************************)
EXTENDS DelayList, Delay, Timer, Tickless, SysTick, CycleCounter, Park, MsgRing,
        Section, Atomics, Heap, Log, Switch, Boot, Window, Mtime, Stack, DeepClocks,
        CpuTime, TLC

\* The instances.
CONSTANTS s1, s2, s3, p1, o1, e1, e2, atOnce, deferred, m1, c0, c1, w, i0, i1, h0, h1

MCSleeper == {s1, s2, s3}
MCTask == {"t"}
MCWindows == {2}

MCPeriodic == {p1}
MCOneShot == {o1}
MCEntry == {e1, e2}
MCPool == {atOnce, deferred}
MCPoolOf == e1 :> atOnce @@ e2 :> deferred
MCPoolDelay == atOnce :> 0 @@ deferred :> 2

MCArgs == {{0}, {0, 1}}

MCSwitchTask == {w, i0, i1}
MCIdleOf == h0 :> i0 @@ h1 :> i1
MCBuilds ==
    {[port |-> "v8m", banks |-> FALSE, cores |-> {h0, h1}],
     [port |-> "v8m", banks |-> TRUE, cores |-> {h0}],
     [port |-> "v6m", banks |-> FALSE, cores |-> {h0}],
     [port |-> "rv32", banks |-> FALSE, cores |-> {h0, h1}]}

Parts == {"list", "delay", "timer", "tickless", "systick", "cycles", "park", "ring",
          "section", "atomics", "heap", "log", "switch", "boot", "window", "mtime",
          "stack", "clocks", "busy", "usage"}

VARIABLE part       \* the component this behaviour is one of

AllInit ==
    /\ part \in Parts
    /\ ListInit /\ Init /\ (part # "delay" => tickCount = 0)
    /\ TimerInit /\ (part # "timer" => period \in [User -> {1}])
    /\ TicklessInit /\ (part # "tickless" => ceiling = CHOOSE c \in Ceilings : TRUE)
    /\ SysTickInit /\ CycleInit
    /\ ParkInit /\ (part # "park" => port = "arm")
    /\ RingInit /\ (part # "ring" => room[m1] = 0)
    /\ SectionInit /\ (part # "section" => masking = "basepri")
    /\ AtomicInit /\ hostOf["t"] = 0 /\ onHost[1] = "u"      \* the cores are alike
    /\ (part # "atomics" => way = "amo" /\ hostOf["u"] = 0 /\ onHost[0] = "t")
    /\ HeapInit /\ LogInit
    /\ SwitchInit /\ (part # "switch" => build.port = "rv32")
    /\ BootInit /\ (part # "boot" => package = "fifo")
    /\ WindowInit /\ (part # "window" => rate = Declared)
    /\ MtimeInit /\ StackInit /\ DeepInit /\ BusyInit /\ UsageInit

\* The variables of every part but p.
Kept(p) ==
    /\ IF p = "list" THEN TRUE ELSE UNCHANGED listVars
    /\ IF p = "delay" THEN TRUE ELSE UNCHANGED vars
    /\ IF p = "timer" THEN TRUE ELSE UNCHANGED timerVars
    /\ IF p = "tickless" THEN TRUE ELSE UNCHANGED ticklessVars
    /\ IF p = "systick" THEN TRUE ELSE UNCHANGED sysTickVars
    /\ IF p = "cycles" THEN TRUE ELSE UNCHANGED cycleVars
    /\ IF p = "park" THEN TRUE ELSE UNCHANGED parkVars
    /\ IF p = "ring" THEN TRUE ELSE UNCHANGED ringVars
    /\ IF p = "section" THEN TRUE ELSE UNCHANGED sectionVars
    /\ IF p = "atomics" THEN TRUE ELSE UNCHANGED atomicVars
    /\ IF p = "heap" THEN TRUE ELSE UNCHANGED heapVars
    /\ IF p = "log" THEN TRUE ELSE UNCHANGED logVars
    /\ IF p = "switch" THEN TRUE ELSE UNCHANGED switchVars
    /\ IF p = "boot" THEN TRUE ELSE UNCHANGED bootVars
    /\ IF p = "window" THEN TRUE ELSE UNCHANGED windowVars
    /\ IF p = "mtime" THEN TRUE ELSE UNCHANGED mtimeVars
    /\ IF p = "stack" THEN TRUE ELSE UNCHANGED stackVars
    /\ IF p = "clocks" THEN TRUE ELSE UNCHANGED deepVars
    /\ IF p = "busy" THEN TRUE ELSE UNCHANGED busyVars
    /\ IF p = "usage" THEN TRUE ELSE UNCHANGED usageVars

AllNext ==
    /\ UNCHANGED part
    /\ \/ part = "list" /\ ListNext /\ Kept("list")
       \/ part = "delay" /\ Next /\ Kept("delay")
       \/ part = "timer" /\ TimerNext /\ Kept("timer")
       \/ part = "tickless" /\ TicklessNext /\ Kept("tickless")
       \/ part = "systick" /\ SysTickNext /\ Kept("systick")
       \/ part = "cycles" /\ CycleNext /\ Kept("cycles")
       \/ part = "park" /\ ParkNext /\ Kept("park")
       \/ part = "ring" /\ RingNext /\ Kept("ring")
       \/ part = "section" /\ SectionNext /\ Kept("section")
       \/ part = "atomics" /\ AtomicNext /\ Kept("atomics")
       \/ part = "heap" /\ HeapNext /\ Kept("heap")
       \/ part = "log" /\ LogNext /\ Kept("log")
       \/ part = "switch" /\ SwitchNext /\ Kept("switch")
       \/ part = "boot" /\ BootNext /\ Kept("boot")
       \/ part = "window" /\ WindowNext /\ Kept("window")
       \/ part = "mtime" /\ MtimeNext /\ Kept("mtime")
       \/ part = "stack" /\ StackNext /\ Kept("stack")
       \/ part = "clocks" /\ DeepNext /\ Kept("clocks")
       \/ part = "busy" /\ BusyNext /\ Kept("busy")
       \/ part = "usage" /\ UsageNext /\ Kept("usage")

allVars == <<part, listVars, vars, timerVars, ticklessVars, sysTickVars,
             cycleVars, parkVars, ringVars, sectionVars, atomicVars,
             heapVars, logVars, switchVars, bootVars, windowVars, mtimeVars,
             stackVars, deepVars, busyVars, usageVars>>

AllSpec == AllInit /\ [][AllNext]_allVars

\* What a part does not use says nothing of a state.
View ==
    CASE part = "list" -> <<part, listVars>>
      [] part = "delay" -> <<part, vars>>
      [] part = "timer" -> <<part, timerVars>>
      [] part = "tickless" -> <<part, ticklessVars>>
      [] part = "systick" -> <<part, sysTickVars>>
      [] part = "cycles" -> <<part, cycleVars>>
      [] part = "park" -> <<part, parkVars>>
      [] part = "ring" -> <<part, ringVars>>
      [] part = "section" -> <<part, sectionVars>>
      [] part = "atomics" -> <<part, atomicVars>>
      [] part = "heap" -> <<part, heapVars>>
      [] part = "log" -> <<part, logVars>>
      [] part = "switch" -> <<part, switchVars>>
      [] part = "boot" -> <<part, bootVars>>
      [] part = "window" -> <<part, windowVars>>
      [] part = "mtime" -> <<part, mtimeVars>>
      [] part = "stack" -> <<part, stackVars>>
      [] part = "clocks" -> <<part, deepVars>>
      [] part = "busy" -> <<part, busyVars>>
      [] part = "usage" -> <<part, usageVars>>

-----------------------------------------------------------------------------
\* The variables of every component keep their types; those of the others are
\* still what they were.
ComponentsTypeOK ==
    CASE part = "list" -> ListTypeOK
      [] part = "delay" -> TypeOK
      [] part = "timer" -> TimerTypeOK
      [] part = "tickless" -> TicklessTypeOK
      [] part = "systick" -> SysTickTypeOK
      [] part = "cycles" -> handed \in Nat
      [] part = "park" -> ParkTypeOK
      [] part = "ring" -> RingTypeOK
      [] part = "section" -> SectionTypeOK
      [] part = "atomics" -> AtomicTypeOK
      [] part = "heap" -> HeapTypeOK
      [] part = "log" -> LogTypeOK
      [] part = "switch" -> SwitchTypeOK
      [] part = "boot" -> BootTypeOK
      [] part = "window" -> WindowTypeOK
      [] part = "mtime" -> MtimeTypeOK
      [] part = "stack" -> StackTypeOK
      [] part = "clocks" -> DeepTypeOK
      [] part = "busy" -> BusyTypeOK
      [] part = "usage" -> UsageTypeOK

\* Whatever the tick and the cycle counter are made from, and however a window
\* cuts into it: no tick is lost, none is counted twice, no alarm comes early or
\* never, and time does not run backwards. Busy waits last as long as they were
\* asked to, and the usage that is reported is that of the ticks gone by.
TimekeepingExact ==
    /\ []GridKept /\ []AlarmInTime /\ []NothingDropped /\ []CadenceKept
    /\ NeverBackwards /\ []BusyWaitExact /\ []UsageHonest

\* The two cores agree on a deep window, and the chip can stand it.
DeepSafe == ParkSafe /\ DeepIsQuiet
=============================================================================
