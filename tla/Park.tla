-------------------------------- MODULE Park ---------------------------------
(***************************************************************************)
(* Deep sleep on the RP2350, soc/raspberrypi/rp235x_arm/soc_cb.c and       *)
(* soc/raspberrypi/rp235x_riscv/soc_cb.c: core 0 (the owner) asks core 1   *)
(* (the peer) to park before it stops the PLL that clocks both.            *)
(*                                                                         *)
(* The two cores share four words, each written by one of them, and no     *)
(* lock.  An action is a step between two accesses to those words, or to   *)
(* the pending interrupts.  The two packages differ in how a core is woken *)
(* and in what the owner does to its software interrupt before it sleeps.  *)
(* Which peripherals are busy, and how long anything takes, is left open.  *)
(***************************************************************************)
EXTENDS Naturals

CONSTANTS
    Ports,          \* the packages looked at: "arm", "riscv"
    MaxGeneration   \* the generation wraps after it, 2^32 - 1 in the code

ASSUME ParkAssumption ==
    /\ Ports \subseteq {"arm", "riscv"}
    /\ MaxGeneration \in Nat \ {0}

Generation == 1 .. MaxGeneration

VARIABLES
    port,
    request,        \* soc_sleep_request, written by the owner
    ack, abort,     \* soc_sleep_ack, soc_sleep_abort, written by the peer
    peerIdle,       \* soc_sleep_peer_idle, written by the peer
    generation,     \* soc_sleep_generation
    held,           \* soc_sleep_owner_held
    ownerAt,        \* where the owner is in the idle pass
    pllOff,         \* is the PLL stopped?
    irq0, swi0,     \* the owner's pending interrupts: any other, the IPI
    peerAt,         \* where the peer is in os_arch_soc_idle_cb
    again,          \* is it in the second call of soc_sleep_peer_park?
    seen,           \* its local variable generation
    wakeSent,       \* its local variable wake_sent
    irq1,           \* an interrupt is pending on the peer
    event1,         \* the peer's event register
    tick1           \* does the peer's tick run?

ownerVars == <<request, generation, held, ownerAt, pllOff>>
peerVars == <<ack, abort, peerIdle, peerAt, again, seen, wakeSent, tick1>>
parkVars == <<port, ownerVars, irq0, swi0, peerVars, irq1, event1>>

ParkInit ==
    /\ port \in Ports
    /\ request = 0 /\ ack = 0 /\ abort = 0 /\ peerIdle = FALSE /\ generation = 0
    /\ held = FALSE /\ ownerAt = "idle" /\ pllOff = FALSE
    /\ irq0 = FALSE /\ swi0 = FALSE
    /\ peerAt = "out" /\ again = FALSE /\ seen = 0 /\ wakeSent = FALSE
    /\ irq1 = FALSE /\ event1 = FALSE /\ tick1 = TRUE

Work0 == irq0 \/ swi0           \* soc_sleep_work_pending on the owner

-----------------------------------------------------------------------------
(* The owner.                                                              *)

\* Mutant: the peer is not told.
ReleaseSilently == event1' = event1

\* soc_sleep_release: the peer is told by an event; the RISC-V package keeps
\* quiet when nothing was asked.
TellPeer == event1' = (event1 \/ port = "arm" \/ request # 0)

Release ==
    /\ request' = 0
    /\ TellPeer
    /\ held' = FALSE

\* os_arch_soc_sleep_prepare_cb declines the pass: there is work to do.
PrepareDeclines ==
    /\ ownerAt = "idle" /\ Work0
    /\ Release
    /\ UNCHANGED <<port, generation, ownerAt, pllOff, irq0, swi0, peerVars, irq1>>

\* It does not ask; the pass goes ahead as a light sleep.
PrepareLight ==
    /\ ownerAt = "idle" /\ ~Work0
    /\ ~peerIdle \/ ack # 0
    /\ Release
    /\ ownerAt' = "open"
    /\ UNCHANGED <<port, generation, pllOff, irq0, swi0, peerVars, irq1>>

NextGeneration == IF generation = MaxGeneration THEN 1 ELSE generation + 1

\* It asks.
PrepareAsks ==
    /\ ownerAt = "idle" /\ ~Work0
    /\ peerIdle /\ ack = 0
    /\ generation' = NextGeneration
    /\ request' = NextGeneration
    /\ event1' = TRUE
    /\ ownerAt' = "ask"
    /\ UNCHANGED <<port, held, pllOff, irq0, swi0, peerVars, irq1>>

Acknowledged == ack = generation /\ abort # generation

\* The answer, or work of its own, or 100 us without either: the loop can end
\* at any time. A peripheral may still object.
PrepareDecides(peripheralsReady) ==
    /\ ownerAt = "ask"
    /\ IF Acknowledged /\ ~Work0 /\ peripheralsReady
       THEN held' = TRUE /\ UNCHANGED <<request, event1>>
       ELSE Release
    /\ ownerAt' = "open"
    /\ UNCHANGED <<port, generation, pllOff, irq0, swi0, peerVars, irq1>>

\* The kernel's window is too short to sleep.
TooShort ==
    /\ ownerAt = "open"
    /\ ownerAt' = "finish"
    /\ UNCHANGED <<port, request, generation, held, pllOff, irq0, swi0, peerVars,
                   irq1, event1>>

\* The work that keeps the owner out of a deep sleep.
Work0Matters == IF port = "arm" THEN Work0 ELSE irq0

\* os_arch_soc_sleep_cb looks again and stops the PLL.
SleepDeep ==
    /\ ownerAt = "open"
    /\ held /\ ~Work0Matters
    /\ request # 0 /\ ack = request /\ abort # request
    /\ ownerAt' = "retire"
    /\ pllOff' = TRUE
    /\ UNCHANGED <<port, request, generation, held, irq0, swi0, peerVars, irq1, event1>>

\* It cannot, or a peripheral is busy now: the clocks stay.
SleepLight ==
    /\ ownerAt = "open"
    /\ ownerAt' = "retire"
    /\ UNCHANGED <<port, request, generation, held, pllOff, irq0, swi0, peerVars,
                   irq1, event1>>

\* soc_sleep_swi_retire, which only the RISC-V package has.
Retire ==
    /\ ownerAt = "retire"
    /\ ownerAt' = "wfi"
    /\ swi0' = (swi0 /\ port = "arm")
    /\ UNCHANGED <<port, request, generation, held, pllOff, irq0, peerVars, irq1, event1>>

\* WFI returns on a pending interrupt; the PLL is restored.
Wake ==
    /\ ownerAt = "wfi" /\ Work0
    /\ ownerAt' = "finish"
    /\ pllOff' = FALSE
    /\ UNCHANGED <<port, request, generation, held, irq0, swi0, peerVars, irq1, event1>>

\* os_arch_soc_sleep_finish_cb.
FinishSleep ==
    /\ ownerAt = "finish"
    /\ IF held THEN Release ELSE UNCHANGED <<request, event1, held>>
    /\ ownerAt' = "idle"
    /\ UNCHANGED <<port, generation, pllOff, irq0, swi0, peerVars, irq1>>

\* The mask is down: the handlers run.
Handle0 ==
    /\ ownerAt = "idle" /\ Work0
    /\ irq0' = FALSE /\ swi0' = FALSE
    /\ UNCHANGED <<port, ownerVars, peerVars, irq1, event1>>

Owner ==
    \/ PrepareDeclines \/ PrepareLight \/ PrepareAsks
    \/ \E isReady \in BOOLEAN : PrepareDecides(isReady)
    \/ TooShort \/ SleepDeep \/ SleepLight \/ Retire \/ Wake \/ FinishSleep
    \/ Handle0

-----------------------------------------------------------------------------
(* The peer.                                                               *)

PeerOnly == UNCHANGED <<port, ownerVars, irq0>>

\* os_arch_soc_idle_cb on core 1.
EnterIdle ==
    /\ peerAt = "out"
    /\ peerIdle' = TRUE
    /\ again' = FALSE
    /\ peerAt' = "look"
    /\ PeerOnly /\ UNCHANGED <<swi0, ack, abort, seen, wakeSent, irq1, event1, tick1>>

\* soc_sleep_peer_park reads the request, and stops this core's tick if it may
\* park.
Look ==
    /\ peerAt = "look"
    /\ seen' = request
    /\ IF request # 0 /\ ~irq1
       THEN tick1' = FALSE /\ peerAt' = "confirm"
       ELSE UNCHANGED tick1 /\ peerAt' = "return"
    /\ wakeSent' = FALSE
    /\ PeerOnly /\ UNCHANGED <<swi0, ack, abort, peerIdle, again, irq1, event1>>

\* The tick is stopped: is the request still there, and still no work?
Confirm ==
    /\ peerAt = "confirm"
    /\ IF ~irq1 /\ request = seen
       THEN peerAt' = "acknowledge" /\ UNCHANGED abort
       ELSE peerAt' = "restore" /\ abort' = seen
    /\ PeerOnly /\ UNCHANGED <<swi0, ack, peerIdle, again, seen, wakeSent, irq1,
                               event1, tick1>>

Acknowledge ==
    /\ peerAt = "acknowledge"
    /\ ack' = seen
    /\ peerAt' = "loop"
    /\ PeerOnly /\ UNCHANGED <<swi0, abort, peerIdle, again, seen, wakeSent, irq1,
                               event1, tick1>>

\* One round of the loop up to WFE: work that came in is a reason to abort.
ParkLoop ==
    /\ peerAt = "loop"
    /\ IF request # seen THEN peerAt' = "restore" /\ UNCHANGED abort
       ELSE IF ~wakeSent /\ irq1 THEN peerAt' = "abort" /\ abort' = seen
       ELSE peerAt' = "wfe" /\ UNCHANGED abort
    /\ PeerOnly /\ UNCHANGED <<swi0, ack, peerIdle, again, seen, wakeSent, irq1,
                               event1, tick1>>

\* Mutant: an event is thought to be enough to wake the owner.
AbortByEvent == FALSE

\* The abort reaches the owner as an interrupt.
AbortByInterrupt == TRUE

ParkAbort ==
    /\ peerAt = "abort"
    /\ swi0' = (swi0 \/ AbortByInterrupt)
    /\ wakeSent' = TRUE
    /\ peerAt' = "wfe"
    /\ PeerOnly /\ UNCHANGED <<ack, abort, peerIdle, again, seen, irq1, event1, tick1>>

\* WFE with SEVONPEND, and h3.block, which a pending interrupt does not let
\* block at all.
Woken1 == event1 \/ (port = "riscv" /\ irq1)

ParkWake ==
    /\ peerAt = "wfe" /\ Woken1
    /\ event1' = FALSE
    /\ peerAt' = "loop"
    /\ PeerOnly /\ UNCHANGED <<swi0, ack, abort, peerIdle, again, seen, wakeSent,
                               irq1, tick1>>

\* The tick runs again before the acknowledgement is taken back.
RestoreTick ==
    /\ peerAt = "restore"
    /\ tick1' = TRUE
    /\ peerAt' = "withdraw"
    /\ PeerOnly /\ UNCHANGED <<swi0, ack, abort, peerIdle, again, seen, wakeSent,
                               irq1, event1>>

Withdraw ==
    /\ peerAt = "withdraw"
    /\ ack' = 0
    /\ peerAt' = "return"
    /\ PeerOnly /\ UNCHANGED <<swi0, abort, peerIdle, again, seen, wakeSent, irq1,
                               event1, tick1>>

\* The idle callback waits between its two calls, and leaves after the second.
IdleWait ==
    /\ peerAt = "return" /\ ~again
    /\ event1 \/ irq1
    /\ event1' = FALSE
    /\ again' = TRUE
    /\ peerAt' = "look"
    /\ PeerOnly /\ UNCHANGED <<swi0, ack, abort, peerIdle, seen, wakeSent, irq1, tick1>>

LeaveIdle ==
    /\ peerAt = "return" /\ again
    /\ peerIdle' = FALSE
    /\ peerAt' = "out"
    /\ PeerOnly /\ UNCHANGED <<swi0, ack, abort, again, seen, wakeSent, irq1, event1,
                               tick1>>

\* The peer's interrupts are not masked.
Unmasked1 == peerAt \in {"out", "return"}

\* A handler, and the tasks it makes run, before the idle task goes on.
Handle1 ==
    /\ Unmasked1 /\ irq1
    /\ irq1' = FALSE
    /\ PeerOnly /\ UNCHANGED <<swi0, peerVars, event1>>

\* A task on core 1 readies one for core 0: os_arch_core_ipi_request_cb(0).
Ipi0 ==
    /\ Unmasked1
    /\ swi0' = TRUE
    /\ PeerOnly /\ UNCHANGED <<peerVars, irq1, event1>>

Peer ==
    \/ EnterIdle \/ Look \/ Confirm \/ Acknowledge \/ ParkLoop \/ ParkAbort
    \/ ParkWake \/ RestoreTick \/ Withdraw \/ IdleWait \/ LeaveIdle
    \/ Handle1 \/ Ipi0

-----------------------------------------------------------------------------
(* The interrupts: the wake timer of the window is one of the owner's.     *)

Interrupt0 ==
    /\ irq0' = TRUE
    /\ UNCHANGED <<port, ownerVars, swi0, peerVars, irq1, event1>>

\* On Arm the interrupt that becomes pending is an event, too.
Interrupt1 ==
    /\ ~irq1
    /\ irq1' = TRUE
    /\ event1' = (event1 \/ port = "arm")
    /\ UNCHANGED <<port, ownerVars, irq0, swi0, peerVars>>

ParkNext == Owner \/ Peer \/ Interrupt0 \/ Interrupt1

ParkSpec == ParkInit /\ [][ParkNext]_parkVars

-----------------------------------------------------------------------------
(* Properties.                                                             *)

\* The variables keep their types.
ParkTypeOK ==
    /\ port \in Ports
    /\ {request, ack, abort, generation, seen} \subseteq Generation \cup {0}
    /\ {peerIdle, held, pllOff, irq0, swi0, again, wakeSent, irq1, event1, tick1}
          \subseteq BOOLEAN
    /\ ownerAt \in {"idle", "ask", "open", "retire", "wfi", "finish"}
    /\ peerAt \in {"out", "look", "confirm", "acknowledge", "loop", "abort", "wfe",
                   "restore", "withdraw", "return"}

\* The PLL stops only while core 1 stands in the park of this very request,
\* with its tick stopped: a late or old acknowledgement authorizes nothing,
\* "even a wrap" of the generation.
DeepMeansParked ==
    pllOff => /\ peerAt \in {"loop", "abort", "wfe"}
              /\ seen = request /\ ack = request
              /\ ~tick1

\* A peer that waits in a park nobody asks for any more will be woken: no
\* release is lost between its look at the request and its WFE.
ReleaseHeard == peerAt = "wfe" /\ request # seen => Woken1

\* "A real request that arrives while this core is parked is never missed":
\* once the peer has aborted, the owner does not sleep on.
AbortHeard ==
    ownerAt = "wfi" /\ pllOff /\ abort = request => Work0 \/ peerAt = "abort"

AbortHeardOnArm == port = "arm" => AbortHeard

\* The handshake of the two cores: nothing is slowed under a peer that has not
\* agreed to it, and neither sleeps through what the other has to say.
ParkSafe == DeepMeansParked /\ ReleaseHeard /\ AbortHeardOnArm
=============================================================================
