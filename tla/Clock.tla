------------------------------- MODULE Clock -------------------------------
(***************************************************************************)
(* The clocks at start-up: sysclk_init (sysclk.c, pmc.c, osc.h, pll.h) and *)
(* sysclk_disable_usb and sysclk_enable_usb, which udc_stop and udc_start  *)
(* call.  The processor runs from the clock it is reconfiguring, and reads *)
(* its instructions from a flash whose wait states must suit that clock.   *)
(*                                                                         *)
(* A register says what the program has asked for; the oscillator, the     *)
(* PLLs and the multiplexers follow later and report it in PMC_SR.  The    *)
(* loops wait for that, for ever but for those of                          *)
(* pmc_switch_mck_to_pllack, which give up and leave sysclk_init unaware.  *)
(*                                                                         *)
(* Frequencies are in MHz; the configuration (conf_clock.h) is the crystal *)
(* times Mul on PLLA, divided by Pres.                                     *)
(***************************************************************************)
EXTENDS Naturals

CONSTANTS Rc,        \* OSC_MAINCK_4M_RC_HZ
          Xtal,      \* BOARD_FREQ_MAINCK_XTAL
          Mul,       \* CONFIG_PLL0_MUL
          Pres,      \* CONFIG_SYSCLK_PRES
          CpuMax,    \* CHIP_FREQ_CPU_MAX
          Fws,       \* CHIP_FREQ_FWS_0, ..., CHIP_FREQ_FWS_3, a sequence
          MayBreak   \* the crystal may fail to start

ASSUME ClockAssumption ==
    /\ {Rc, Xtal, Mul, Pres, CpuMax} \subseteq Nat \ {0}
    /\ MayBreak \in BOOLEAN
    /\ Rc <= CpuMax /\ Xtal <= CpuMax /\ (Xtal * Mul) \div Pres <= CpuMax
    /\ Fws \in [1..4 -> Nat] /\ \A i \in 1..3 : Fws[i] <= Fws[i + 1]
    /\ Rc < Fws[1] /\ Xtal < Fws[1]    \* no wait states before the PLL runs

VARIABLES
    step,          \* where start-up is
    xtal, xtalRdy, \* the crystal oscillator: "off", "starting", "on"; MOSCXTS
    sel, main,     \* the main clock asked for (MOSCSEL) and in use: "rc", "xtal"
    plla, upll,    \* the PLLs: "off", "locking", "on"
    mckr, mck,     \* PMC_MCKR and the master clock in use: source and prescaler
    fws,           \* wait states of the flash
    core,          \* SystemCoreClock
    broken         \* the crystal does not start

hw == <<xtal, xtalRdy, sel, main, plla, upll, mckr, mck, broken>>
clockVars == <<step, hw, fws, core>>

MainFreq == IF main = "rc" THEN Rc ELSE Xtal

Freq(m) == (IF m.css = "plla" THEN MainFreq * Mul ELSE MainFreq) \div m.pres

\* system_init_flash
WaitStates(f) == IF f < Fws[1] THEN 0 ELSE IF f < Fws[2] THEN 1
                 ELSE IF f < Fws[3] THEN 2 ELSE IF f < Fws[4] THEN 3 ELSE 4

F_CPU == (Xtal * Mul) \div Pres     \* also sysclk_get_cpu_hz

\* What the firmware may find: after a reset the chip runs from its RC
\* oscillator; the boot loader, which jumps to the flash it has written,
\* leaves the crystal and perhaps the PLLs running.  It is taken not to run from
\* PLLA, which PllDisable would stop.
PowerOn  == [xtal : {"off"}, main : {"rc"}, plla : {"off"}, upll : {"off"}, pres : {1},
             broken : {FALSE, MayBreak}]
Handover == [xtal : {"on"}, main : {"xtal"}, plla : {"off", "on"}, upll : {"off", "on"},
             pres : {1, Pres}, broken : {FALSE}]

ClockInit == \E s \in PowerOn :
    /\ step = "flash" /\ fws = 0 /\ core = Rc
    /\ xtal = s.xtal /\ xtalRdy = (s.xtal = "on") /\ sel = s.main /\ main = s.main
    /\ plla = s.plla /\ upll = s.upll /\ broken = s.broken
    /\ mckr = [css |-> "main", pres |-> s.pres] /\ mck = [css |-> "main", pres |-> s.pres]

\* The firmware begins again, finding one of the states S.
ClockBegins(S) == \E s \in S :
    /\ step' = "flash" /\ fws' = 0 /\ core' = Rc
    /\ xtal' = s.xtal /\ xtalRdy' = (s.xtal = "on") /\ sel' = s.main /\ main' = s.main
    /\ plla' = s.plla /\ upll' = s.upll /\ broken' = s.broken
    /\ mckr' = [css |-> "main", pres |-> s.pres] /\ mck' = [css |-> "main", pres |-> s.pres]

-----------------------------------------------------------------------------
(* sysclk_init.                                                            *)

Goto(from, to) == step = from /\ step' = to

\* Mutant: the wait states are set once the clock is known.
FlashMaxLate ==
    /\ Goto("flash", "xtal") /\ fws' = WaitStates(core)
    /\ UNCHANGED <<hw, core>>

\* system_init_flash(CHIP_FREQ_CPU_MAX).
FlashMax ==
    /\ Goto("flash", "xtal") /\ fws' = WaitStates(CpuMax)
    /\ UNCHANGED <<hw, core>>

\* osc_enable and osc_wait_ready.  The oscillator may report itself not ready
\* again when its start-up time is written a second time; it runs on.
OscEnable(from, to) ==
    /\ Goto(from, to)
    /\ xtal' = IF xtal = "off" THEN "starting" ELSE xtal
    /\ xtalRdy' \in {FALSE, xtalRdy}
    /\ UNCHANGED <<sel, main, plla, upll, mckr, mck, broken, fws, core>>

OscWait(from, to) == xtalRdy /\ Goto(from, to) /\ UNCHANGED <<hw, fws, core>>

\* pmc_mainck_osc_select(CKGR_MOR_MOSCSEL) and the loop behind it.
SelectXtal ==
    /\ Goto("select", "select_wait") /\ sel' = "xtal"
    /\ UNCHANGED <<xtal, xtalRdy, main, plla, upll, mckr, mck, broken, fws, core>>

SelectWait == main = sel /\ Goto("select_wait", "pll") /\ UNCHANGED <<hw, fws, core>>

\* pll_enable for PLLA: stopped first, then started; pll_wait_for_lock.
PllDisable ==
    /\ Goto("pll", "pll_on") /\ plla' = "off"
    /\ UNCHANGED <<xtal, xtalRdy, sel, main, upll, mckr, mck, broken, fws, core>>

PllEnable ==
    /\ Goto("pll_on", "pll_wait") /\ plla' = "locking"
    /\ UNCHANGED <<xtal, xtalRdy, sel, main, upll, mckr, mck, broken, fws, core>>

PllWait == plla = "on" /\ Goto("pll_wait", "pres") /\ UNCHANGED <<hw, fws, core>>

\* pmc_switch_mck_to_pllack writes the prescaler first.
SwitchOrder == [mckr EXCEPT !.pres = Pres]

SetPres ==
    /\ Goto("pres", "pres_wait") /\ mckr' = SwitchOrder
    /\ UNCHANGED <<xtal, xtalRdy, sel, main, plla, upll, mck, broken, fws, core>>

\* MCKRDY, or the timeout: the result is not looked at.
PresWait ==
    /\ step = "pres_wait"
    /\ step' = IF mck = mckr THEN "source" ELSE "update"
    /\ UNCHANGED <<hw, fws, core>>

SetSource ==
    /\ Goto("source", "source_wait") /\ mckr' = [css |-> "plla", pres |-> Pres]
    /\ UNCHANGED <<xtal, xtalRdy, sel, main, plla, upll, mck, broken, fws, core>>

SourceWait == Goto("source_wait", "update") /\ UNCHANGED <<hw, fws, core>>

\* SystemCoreClockUpdate works from the registers.
CoreClock == Freq(mckr)

\* SystemCoreClockUpdate; system_init_flash(sysclk_get_cpu_hz()).
Update ==
    /\ Goto("update", "usb_off") /\ core' = CoreClock /\ fws' = WaitStates(F_CPU)
    /\ UNCHANGED hw

-----------------------------------------------------------------------------
(* udc_stop and udc_start.                                                 *)

\* sysclk_disable_usb: pll_disable(1), as MCK does not run from UPLL.
UsbClockOff ==
    /\ Goto("usb_off", "usb_xtal") /\ upll' = "off"
    /\ UNCHANGED <<xtal, xtalRdy, sel, main, plla, mckr, mck, broken, fws, core>>

UsbLock == upll = "on"

\* sysclk_enable_usb, behind pll_enable_source.
UsbPllEnable ==
    /\ Goto("upll", "upll_wait") /\ upll' = "locking"
    /\ UNCHANGED <<xtal, xtalRdy, sel, main, plla, mckr, mck, broken, fws, core>>

UsbPllWait == UsbLock /\ Goto("upll_wait", "up") /\ UNCHANGED <<hw, fws, core>>

Startup ==
    \/ FlashMax \/ OscEnable("xtal", "xtal_wait") \/ OscWait("xtal_wait", "select")
    \/ SelectXtal \/ SelectWait \/ PllDisable \/ PllEnable \/ PllWait
    \/ SetPres \/ PresWait \/ SetSource \/ SourceWait \/ Update
    \/ UsbClockOff \/ OscEnable("usb_xtal", "usb_wait") \/ OscWait("usb_wait", "upll")
    \/ UsbPllEnable \/ UsbPllWait

-----------------------------------------------------------------------------
(* The clock generator.                                                    *)

XtalStarts ==
    /\ xtal # "off" /\ ~xtalRdy /\ ~broken
    /\ xtal' = "on" /\ xtalRdy' = TRUE
    /\ UNCHANGED <<step, sel, main, plla, upll, mckr, mck, broken, fws, core>>

MainFollows ==
    /\ main # sel /\ main' = sel
    /\ UNCHANGED <<step, xtal, xtalRdy, sel, plla, upll, mckr, mck, broken, fws, core>>

PllLocks ==
    /\ main = "rc" \/ xtal = "on"
    /\ \/ plla = "locking" /\ plla' = "on" /\ upll' = upll
       \/ upll = "locking" /\ upll' = "on" /\ plla' = plla
    /\ UNCHANGED <<step, xtal, xtalRdy, sel, main, mckr, mck, broken, fws, core>>

MckFollows ==
    /\ mck # mckr /\ mck' = mckr
    /\ UNCHANGED <<step, xtal, xtalRdy, sel, main, plla, upll, mckr, broken, fws, core>>

Generator == XtalStarts \/ MainFollows \/ PllLocks \/ MckFollows

-----------------------------------------------------------------------------
(* Properties.                                                             *)

\* The processor never stops the clock it runs from and never moves to one that
\* is not there yet, neither at first nor when udc_start writes the
\* oscillator's registers again.
ClockRuns ==
    /\ main = "xtal" => xtal = "on"
    /\ mck.css = "plla" => plla = "on"

\* At every moment of the switch the processor is within its limit and the
\* flash has the wait states its clock needs, also when a wait gives up.
ClockInRange == Freq(mck) <= CpuMax /\ fws >= WaitStates(Freq(mck))

\* SystemCoreClock is the clock in use, once that has settled, and not the one
\* configured: also after a wait that gave up half way.
CoreClockTrue == step \in {"usb_off", "up"} /\ mck = mckr => core = Freq(mck)

\* The clock the processor runs from, through the whole of its start-up.
ClockSafe == ClockRuns /\ ClockInRange /\ CoreClockTrue

\* A start of the firmware ends with the USB clock running, unless the crystal
\* is broken: no wait is for a signal that cannot come.
UsbClocked ==
    (step \notin {"flash", "up"} /\ ~broken) ~> (step = "up" /\ upll = "on")
===========================================================================
