------------------------------ MODULE DeepClocks ------------------------------
(***************************************************************************)
(* What keeps an RP235x from slowing its clocks in a DEEP window:          *)
(* soc/raspberrypi/common/soc_sleep.h. The application sets up clocks and  *)
(* devices as it likes; while the window lasts only the world outside goes *)
(* on.  There is one device of each kind, one GPOUT and one DMA channel:   *)
(* the code asks each of several the same.                                 *)
(***************************************************************************)
EXTENDS Naturals, FiniteSetsExt

CONSTANT MaxChanges \* bound: how much of a configuration is unlike an idle one

ASSUME DeepClocksAssumption == MaxChanges \in Nat

\* "other" is any source that a window leaves alone: the crystal, PLL_USB.
Slice == {"peri", "hstx", "usb", "adc", "gpout"}
SourceOf(s) ==
    CASE s \in {"peri", "hstx"} -> {"other", "pll_sys", "clk_sys"}
      [] s \in {"usb", "adc"}   -> {"other", "pll_sys"}
      [] s = "gpout"            -> {"other", "pll_sys", "clk_sys", "peri", "hstx", "usb", "adc"}

\* What a device can be doing. A UART is "held" when a byte it has received is
\* still there, and listens with its receive interrupt armed.
Device == {"dma", "usb", "pio", "pwm", "hstx", "i2c", "spi", "uart"}
Doing(d) ==
    CASE d \in {"dma", "usb", "pio", "pwm", "hstx"} -> {"off", "busy"}
      [] d \in {"i2c", "spi"} -> {"off", "idle", "slave", "busy"}
      [] d = "uart" -> {"off", "idle", "held", "listening", "heard", "busy"}

VARIABLES
    normalTree,     \* clk_sys from the locked PLL_SYS, clk_ref from the crystal
    source, enabled,\* the AUXSRC and the ENABLE of each slice
    device,
    deep            \* do the clocks stand slowed?

deepVars == <<normalTree, source, enabled, device, deep>>

DeepInit ==
    /\ normalTree = TRUE
    /\ source = [s \in Slice |-> "other"]
    /\ enabled = [s \in Slice |-> FALSE]
    /\ device = [d \in Device |-> "off"]
    /\ deep = FALSE

Unlike ==
    Cardinality({s \in Slice : source[s] # "other"}) + Cardinality({s \in Slice : enabled[s]})
    + Cardinality({d \in Device : device[d] # "off"}) + (IF normalTree THEN 0 ELSE 1)

-----------------------------------------------------------------------------
(* soc_sleep.h.                                                            *)

\* soc_deep_uart_ready.
UartReady == device["uart"] \notin {"busy", "heard"}

\* Mutant: a slave that nobody addresses is idle.
SpiQuiet == device["spi"] # "busy"

\* soc_deep_spi_ready.
SpiReady == device["spi"] \in {"off", "idle"}

\* soc_deep_i2c_ready.
I2cReady == device["i2c"] \in {"off", "idle"}

Changes(s) == source[s] \in {"clk_sys", "pll_sys"}

\* The devices on clk_sys, and those on clk_hstx and clk_peri if these change.
DevicesReady ==
    /\ \A d \in {"dma", "usb", "pio", "pwm"} : device[d] = "off"
    /\ Changes("hstx") => device["hstx"] = "off"
    /\ I2cReady
    /\ Changes("peri") => UartReady /\ SpiReady

\* No other slice may lose its source.
SlicesReady == \A s \in Slice \ {"gpout"} : enabled[s] => source[s] # "pll_sys"

\* Mutant: an output is asked for its own source only.
OutputDirect == enabled["gpout"] => source["gpout"] \notin {"pll_sys", "clk_sys"}

\* The GPOUTs, through the slice they follow.
OutputReady ==
    enabled["gpout"] =>
        /\ source["gpout"] \notin {"pll_sys", "clk_sys"}
        /\ Changes("peri") => source["gpout"] # "peri"
        /\ Changes("hstx") => source["gpout"] # "hstx"

\* soc_deep_peripherals_ready.
PeripheralsReady == normalTree /\ DevicesReady /\ SlicesReady /\ OutputReady

-----------------------------------------------------------------------------
(* The application.                                                        *)

SwitchTree ==
    /\ ~deep
    /\ normalTree' = ~normalTree
    /\ UNCHANGED <<source, enabled, device, deep>>

SetSource(s, from) ==
    /\ ~deep /\ source[s] # from
    /\ source' = [source EXCEPT ![s] = from]
    /\ UNCHANGED <<normalTree, enabled, device, deep>>

EnableSlice(s) ==
    /\ ~deep
    /\ enabled' = [enabled EXCEPT ![s] = ~@]
    /\ UNCHANGED <<normalTree, source, device, deep>>

Use(d, what) ==
    /\ ~deep /\ device[d] # what
    /\ device' = [device EXCEPT ![d] = what]
    /\ UNCHANGED <<normalTree, source, enabled, deep>>

\* A bus is addressed from outside; one that only listens may be, deep or not.
Addressed(d) ==
    /\ device[d] = "slave"
    /\ device' = [device EXCEPT ![d] = "busy"]
    /\ UNCHANGED <<normalTree, source, enabled, deep>>

\* os_arch_soc_sleep_cb: the last look before the clocks are touched.
SlowDown ==
    /\ ~deep /\ PeripheralsReady
    /\ deep' = TRUE
    /\ UNCHANGED <<normalTree, source, enabled, device>>

\* Everything is written back as it was.
SpeedUp ==
    /\ deep
    /\ deep' = FALSE
    /\ UNCHANGED <<normalTree, source, enabled, device>>

DeepNext ==
    \/ SwitchTree /\ Unlike' <= MaxChanges
    \/ \E s \in Slice : \E from \in SourceOf(s) : SetSource(s, from) /\ Unlike' <= MaxChanges
    \/ \E s \in Slice : EnableSlice(s) /\ Unlike' <= MaxChanges
    \/ \E d \in Device : \E what \in Doing(d) : Use(d, what) /\ Unlike' <= MaxChanges
    \/ \E d \in Device : Addressed(d)
    \/ SlowDown \/ SpeedUp

DeepSpec == DeepInit /\ [][DeepNext]_deepVars

-----------------------------------------------------------------------------
(* Properties.                                                             *)

\* The variables keep their types.
DeepTypeOK ==
    /\ {normalTree, deep} \subseteq BOOLEAN
    /\ \A s \in Slice : source[s] \in SourceOf(s) /\ enabled[s] \in BOOLEAN
    /\ \A d \in Device : device[d] \in Doing(d)

\* The clock trees of the chip: what a clock comes from in the end.
Root(s) == IF source[s] \in Slice THEN source[source[s]] ELSE source[s]
Slowed(s) ==
    /\ enabled[s] /\ (source[s] \in Slice => enabled[source[s]])
    /\ Root(s) \in {"clk_sys", "pll_sys"}

ClockOf(d) == CASE d \in {"uart", "spi"} -> "peri" [] d = "hstx" -> "hstx" [] OTHER -> "clk_sys"

\* With the clocks slowed nothing works on one of them, nothing outside can make
\* it work, and no clock that leaves the chip or another slice has changed,
\* through however many slices it comes.
DeepIsQuiet ==
    deep =>
        /\ \A d \in Device :
              device[d] = "busy" => ClockOf(d) # "clk_sys" /\ ~Slowed(ClockOf(d))
        /\ \A s \in Slice \ {"peri", "hstx"} : ~Slowed(s)
        /\ \A s \in {"peri", "hstx"} : Slowed(s) => source[s] = "clk_sys"

\* doc/raspberry-pi.md says of these checks that "interrupt-driven UART receive
\* and externally clocked serial slave operation keep normal clocks", and
\* test/audit_arch/smp_deep_run.py asserts that an armed receive interrupt alone
\* is refused. It does not hold: only a byte already received is.
ListenerKeepsClock == deep /\ Slowed("peri") => device["uart"] \notin {"listening", "heard"}
=============================================================================
