--------------------------- MODULE BoardProofs ---------------------------
(***************************************************************************)
(* What the firmware waits for on the board: its clocks, for all           *)
(* frequencies, and the TWI bus, for transfers of every length and every   *)
(* timeout.                                                                *)
(***************************************************************************)
EXTENDS Boot, TwiMaster, TLAPS

(***************************************************************************)
(* The clocks.                                                             *)
(***************************************************************************)
Early == {"flash", "xtal", "xtal_wait", "select", "select_wait"}
Before == Early \cup {"pll", "pll_on", "pll_wait"}
Switching == {"pres", "pres_wait", "source"}
Running == {"usb_off", "usb_xtal", "usb_wait", "upll", "upll_wait", "up"}
Steps == Before \cup Switching \cup {"source_wait", "update"} \cup Running

Sources == [css : {"main", "plla"}, pres : {1, Pres}]

ClockTypes ==
    /\ step \in Steps
    /\ xtal \in {"off", "starting", "on"} /\ xtalRdy \in BOOLEAN
    /\ sel \in {"rc", "xtal"} /\ main \in {"rc", "xtal"}
    /\ plla \in {"off", "locking", "on"}
    /\ mckr \in Sources /\ mck \in Sources
    /\ fws \in 0..4

\* What runs: nothing is selected that does not, and the crystal has been
\* selected when the PLL is started.
Sound ==
    /\ xtalRdy => xtal = "on"
    /\ sel = "xtal" \/ main = "xtal" \/ step \notin {"flash", "xtal", "xtal_wait"} => xtal = "on"
    /\ step = "select_wait" => sel = "xtal"
    /\ step \notin Early => sel = "xtal" /\ main = "xtal"

\* The PLL is stopped only while nothing runs from it, and selected only while
\* it is locked.
Switch ==
    /\ step \notin Before => plla = "on"
    /\ step \in Before \cup Switching => mckr.css = "main" /\ mck.css = "main"
    /\ mck.css = "plla" => mck.pres = Pres
    /\ mckr.css = "plla" => mckr.pres = Pres

\* The wait states suit the fastest clock there will be; SystemCoreClock is what
\* the registers say.
Settled ==
    /\ step # "flash" => WaitStates(F_CPU) <= fws
    /\ step \in Running => core = Freq(mckr)

ClockInv == ClockTypes /\ Sound /\ Switch /\ Settled

-----------------------------------------------------------------------------
\* Dividing by the prescaler makes no clock faster.
LEMMA Divided ==
    ASSUME NEW f \in Nat, NEW p \in Nat \ {0}
    PROVE  f \div p \in Nat /\ f \div p <= f
  OBVIOUS

\* system_init_flash gives a faster clock no fewer wait states, and none to the
\* clocks of the oscillators.
LEMMA WaitStatesGrow ==
    ASSUME NEW f \in Nat, NEW g \in Nat, f <= g
    PROVE  /\ WaitStates(f) \in 0..4 /\ WaitStates(f) <= WaitStates(g)
           /\ f <= Rc \/ f <= Xtal => WaitStates(f) = 0
<1>1. /\ Fws[1] \in Nat /\ Fws[2] \in Nat /\ Fws[3] \in Nat /\ Fws[4] \in Nat
      /\ Rc \in Nat /\ Xtal \in Nat /\ Rc < Fws[1] /\ Xtal < Fws[1]
  BY ClockAssumption
<1>2. Fws[1] <= Fws[2] /\ Fws[2] <= Fws[3] /\ Fws[3] <= Fws[4]
  <2>1. \A i \in 1..3 : Fws[i] <= Fws[i + 1]
    BY ClockAssumption
  <2>2. 1 \in 1..3 /\ 2 \in 1..3 /\ 3 \in 1..3 /\ 1 + 1 = 2 /\ 2 + 1 = 3 /\ 3 + 1 = 4
    OBVIOUS
  <2>3. Fws[1] <= Fws[1 + 1] /\ Fws[2] <= Fws[2 + 1] /\ Fws[3] <= Fws[3 + 1]
    BY <2>1, <2>2
  <2>. QED  BY <2>2, <2>3
<1>. QED  BY <1>1, <1>2 DEF WaitStates

LEMMA Frequencies ==
    /\ Rc \in Nat /\ Xtal \in Nat /\ CpuMax \in Nat /\ Pres \in Nat \ {0}
    /\ F_CPU \in Nat /\ F_CPU <= CpuMax /\ Rc <= CpuMax /\ Xtal <= CpuMax
    /\ WaitStates(CpuMax) \in 0..4 /\ WaitStates(F_CPU) \in 0..4
    /\ WaitStates(F_CPU) <= WaitStates(CpuMax)
<1>1. Xtal * Mul \in Nat
  BY ClockAssumption
<1>2. /\ Rc \in Nat /\ Xtal \in Nat /\ CpuMax \in Nat /\ Pres \in Nat \ {0}
      /\ (Xtal * Mul) \div Pres <= CpuMax /\ Rc <= CpuMax /\ Xtal <= CpuMax
  BY ClockAssumption
<1>3. F_CPU \in Nat /\ F_CPU <= CpuMax
  BY <1>1, <1>2, Divided DEF F_CPU
<1>. QED  BY <1>2, <1>3, WaitStatesGrow

\* The clock in use is an oscillator's, divided, or the one configured.
LEMMA InRange ==
    ASSUME ClockInv
    PROVE  ClockInRange
<1>. USE DEF ClockInv
<1>1. CASE mck.css = "main"
  <2>1. MainFreq \in Nat /\ MainFreq \in {Rc, Xtal} /\ mck.pres \in Nat \ {0}
    BY Frequencies DEF MainFreq, ClockTypes, Sources
  <2>2. Freq(mck) \in Nat /\ Freq(mck) <= MainFreq
    BY <1>1, <2>1, Divided DEF Freq
  <2>3. WaitStates(Freq(mck)) = 0
    BY <2>1, <2>2, WaitStatesGrow
  <2>4. Freq(mck) <= CpuMax
    BY <2>1, <2>2, Frequencies
  <2>. QED  BY <2>3, <2>4 DEF ClockInRange, ClockTypes
<1>2. CASE mck.css = "plla"
  <2>1. step # "flash" /\ main = "xtal" /\ mck.pres = Pres
    BY <1>2 DEF Switch, Sound, Before, Early
  <2>2. Freq(mck) = F_CPU
    BY <1>2, <2>1 DEF Freq, MainFreq, F_CPU
  <2>. QED  BY <2>1, <2>2, Frequencies DEF ClockInRange, Settled
<1>. QED  BY <1>1, <1>2 DEF ClockTypes, Sources

LEMMA ClockIsSafe == ASSUME ClockInv PROVE ClockSafe
<1>1. ClockRuns
  BY DEF ClockInv, Sound, Switch, ClockRuns, Before
<1>2. CoreClockTrue
  BY DEF ClockInv, Settled, CoreClockTrue, Running
<1>. QED  BY <1>1, <1>2, InRange DEF ClockSafe

\* Whatever the firmware finds, it finds its clocks running.
LEMMA Found ==
    ASSUME NEW s \in PowerOn \cup Handover
    PROVE  /\ s.main \in {"rc", "xtal"} /\ s.xtal \in {"off", "on"}
           /\ s.main = "xtal" => s.xtal = "on"
           /\ s.plla \in {"off", "on"} /\ s.pres \in {1, Pres}
           /\ [css |-> "main", pres |-> s.pres] \in Sources
  BY DEF PowerOn, Handover, Sources

LEMMA ClockInvInit == ClockInit => ClockInv
<1>. SUFFICES ASSUME ClockInit PROVE ClockInv
  OBVIOUS
<1>1. PICK s \in PowerOn :
         /\ step = "flash" /\ fws = 0 /\ core = Rc
         /\ xtal = s.xtal /\ xtalRdy = (s.xtal = "on") /\ sel = s.main /\ main = s.main
         /\ plla = s.plla /\ upll = s.upll /\ broken = s.broken
         /\ mckr = [css |-> "main", pres |-> s.pres] /\ mck = [css |-> "main", pres |-> s.pres]
  BY DEF ClockInit
<1>2. ClockTypes
  BY <1>1, Found DEF ClockTypes, Steps, Before, Early
<1>3. Sound /\ Switch /\ Settled
  BY <1>1, Found DEF Sound, Switch, Settled, Before, Early, Switching, Running
<1>. QED  BY <1>2, <1>3 DEF ClockInv

LEMMA BeginsKeeps ==
    ASSUME ClockBegins(PowerOn) \/ ClockBegins(Handover)
    PROVE  ClockInv'
<1>1. PICK s \in PowerOn \cup Handover :
         /\ step' = "flash" /\ fws' = 0 /\ core' = Rc
         /\ xtal' = s.xtal /\ xtalRdy' = (s.xtal = "on") /\ sel' = s.main /\ main' = s.main
         /\ plla' = s.plla /\ upll' = s.upll /\ broken' = s.broken
         /\ mckr' = [css |-> "main", pres |-> s.pres] /\ mck' = [css |-> "main", pres |-> s.pres]
  BY DEF ClockBegins
<1>2. ClockTypes'
  BY <1>1, Found DEF ClockTypes, Steps, Before, Early
<1>3. Sound' /\ Switch' /\ Settled'
  BY <1>1, Found DEF Sound, Switch, Settled, Before, Early, Switching, Running
<1>. QED  BY <1>2, <1>3 DEF ClockInv

\* SystemCoreClock depends on the main clock and the register only.
LEMMA SettledKept ==
    ASSUME Settled, step # "flash" \/ step' = "flash", fws' = fws, core' = core,
           step' \in Running => step \in Running /\ main' = main /\ mckr' = mckr
    PROVE  Settled'
<1>1. step' \in Running => Freq(mckr)' = Freq(mckr)
  BY DEF Freq, MainFreq
<1>2. WaitStates(F_CPU)' = WaitStates(F_CPU)
  BY DEF WaitStates, F_CPU
<1>. QED  BY <1>1, <1>2 DEF Settled

LEMMA StartupKeeps == ASSUME ClockInv, Startup PROVE ClockInv'
<1>. USE DEF ClockInv, hw, Goto
<1>. DEFINE Names == ClockTypes /\ Sound /\ Switch
<1>1. CASE FlashMax
  <2>1. Names'
    BY <1>1, Frequencies DEF FlashMax, ClockTypes, Sound, Switch, Steps, Before, Early, Switching, Running
  <2>2. Settled'
    BY <1>1, Frequencies DEF FlashMax, Settled, Running, WaitStates, F_CPU
  <2>. QED  BY <2>1, <2>2
<1>2. ASSUME NEW from, NEW to, OscEnable(from, to),
             <<from, to>> \in {<<"xtal", "xtal_wait">>, <<"usb_xtal", "usb_wait">>}
      PROVE  ClockInv'
  <2>0. \/ from = "xtal" /\ to = "xtal_wait"
        \/ from = "usb_xtal" /\ to = "usb_wait"
    BY <1>2
  <2>1. ClockTypes' /\ Switch'
    BY <1>2, <2>0 DEF OscEnable, ClockTypes, Switch, Steps, Before, Early, Switching, Running
  <2>3. Sound'
    <3>1. /\ xtal = "on" => xtal' = "on"
          /\ sel' = sel /\ main' = main /\ step = from /\ step' = to
      BY <1>2 DEF OscEnable
    <3>2. xtalRdy' => xtalRdy
      BY <1>2, Zenon DEF OscEnable
    <3>. QED  BY <2>0, <3>1, <3>2 DEF Sound, Early
  <2>2. Settled'
    BY <1>2, <2>0, SettledKept DEF OscEnable, Running
  <2>. QED  BY <2>1, <2>2, <2>3
<1>3. ASSUME NEW from, NEW to, OscWait(from, to),
             <<from, to>> \in {<<"xtal_wait", "select">>, <<"usb_wait", "upll">>}
      PROVE  ClockInv'
  <2>1. Names'
    BY <1>3 DEF OscWait, ClockTypes, Sound, Switch, Steps, Before, Early, Switching, Running
  <2>2. Settled'
    BY <1>3, SettledKept DEF OscWait, Running
  <2>. QED  BY <2>1, <2>2
<1>4. CASE SelectXtal \/ SelectWait
  <2>1. Names'
    BY <1>4 DEF SelectXtal, SelectWait, ClockTypes, Sound, Switch, Steps, Before, Early, Switching, Running
  <2>2. Settled'
    BY <1>4, SettledKept DEF SelectXtal, SelectWait, Running
  <2>. QED  BY <2>1, <2>2
<1>5. CASE PllDisable \/ PllEnable \/ PllWait
  <2>1. Names'
    BY <1>5 DEF PllDisable, PllEnable, PllWait, ClockTypes, Sound, Switch, Steps, Before, Early, Switching, Running
  <2>2. Settled'
    BY <1>5, SettledKept DEF PllDisable, PllEnable, PllWait, Running
  <2>. QED  BY <2>1, <2>2
<1>6. CASE SetPres \/ SetSource
  <2>0. /\ mckr' \in Sources
        /\ SetPres => mckr'.css = mckr.css
        /\ mckr'.css = "plla" => mckr'.pres = Pres
    BY <1>6 DEF SetPres, SetSource, SwitchOrder, ClockTypes, Sources, Switch
  <2>1. Names'
    BY <1>6, <2>0 DEF SetPres, SetSource, ClockTypes, Sound, Switch, Steps, Before, Early, Switching, Running
  <2>2. Settled'
    BY <1>6, SettledKept DEF SetPres, SetSource, Running
  <2>. QED  BY <2>1, <2>2
<1>7. CASE PresWait \/ SourceWait
  <2>1. Names'
    BY <1>7 DEF PresWait, SourceWait, ClockTypes, Sound, Switch, Steps, Before, Early, Switching, Running
  <2>2. Settled'
    BY <1>7, SettledKept DEF PresWait, SourceWait, Running
  <2>. QED  BY <2>1, <2>2
<1>8. CASE Update
  <2>1. Names'
    BY <1>8, Frequencies DEF Update, ClockTypes, Sound, Switch, Steps, Before, Early, Switching, Running
  <2>2. Freq(mckr)' = Freq(mckr) /\ WaitStates(F_CPU)' = WaitStates(F_CPU)
    BY <1>8 DEF Update, Freq, MainFreq, WaitStates, F_CPU
  <2>3. WaitStates(F_CPU) <= WaitStates(F_CPU)
    BY Frequencies
  <2>4. Settled'
    BY <1>8, <2>2, <2>3 DEF Update, CoreClock, Settled
  <2>. QED  BY <2>1, <2>4
<1>9. CASE UsbClockOff \/ UsbPllEnable \/ UsbPllWait
  <2>1. Names'
    BY <1>9 DEF UsbClockOff, UsbPllEnable, UsbPllWait, ClockTypes, Sound, Switch, Steps, Before, Early, Switching, Running
  <2>2. Settled'
    BY <1>9, SettledKept DEF UsbClockOff, UsbPllEnable, UsbPllWait, Running
  <2>. QED  BY <2>1, <2>2
<1>. QED  BY <1>1, <1>2, <1>3, <1>4, <1>5, <1>6, <1>7, <1>8, <1>9 DEF Startup

LEMMA GeneratorKeeps == ASSUME ClockInv, Generator PROVE ClockInv'
<1>. USE DEF ClockInv
<1>1. ClockTypes' /\ Sound' /\ Switch'
  <2>1. CASE XtalStarts
    BY <2>1 DEF XtalStarts, ClockTypes, Sound, Switch
  <2>2. CASE MainFollows
    BY <2>2 DEF MainFollows, ClockTypes, Sound, Switch
  <2>3. CASE PllLocks
    BY <2>3 DEF PllLocks, ClockTypes, Sound, Switch
  <2>4. CASE MckFollows
    BY <2>4 DEF MckFollows, ClockTypes, Sound, Switch
  <2>. QED  BY <2>1, <2>2, <2>3, <2>4 DEF Generator
<1>2. step' \in Running => main' = main
  BY DEF Generator, XtalStarts, MainFollows, PllLocks, MckFollows, Sound, Running, Early
<1>3. step' = step /\ fws' = fws /\ core' = core /\ mckr' = mckr
  BY DEF Generator, XtalStarts, MainFollows, PllLocks, MckFollows
<1>4. Settled'
  <2>1. step' \in Running => Freq(mckr)' = Freq(mckr)
    BY <1>2, <1>3 DEF Freq, MainFreq
  <2>2. WaitStates(F_CPU)' = WaitStates(F_CPU)
    BY DEF WaitStates, F_CPU
  <2>. QED  BY <1>3, <2>1, <2>2 DEF Settled
<1>. QED  BY <1>1, <1>4

LEMMA StillKeeps == ASSUME ClockInv, UNCHANGED clockVars PROVE ClockInv'
  BY DEF ClockInv, ClockTypes, Sound, Switch, Settled, clockVars, hw, Freq, MainFreq,
         WaitStates, F_CPU

\* From power-on or a boot loader's hand-over to the running USB clock, through
\* every restart of the chip and every wait that gives up, the processor runs
\* from a clock that is there, not too fast for it or for the wait states of its
\* flash, and SystemCoreClock tells its frequency: for all crystals, PLL
\* factors, prescalers and thresholds of the flash.
THEOREM ClockStaysSafe == Spec => []ClockSafe
<1>1. Init => ClockInv
  BY ClockInvInit DEF Init
<1>2. ClockInv /\ [Next]_vars => ClockInv'
  <2>. SUFFICES ASSUME ClockInv, [Next]_vars PROVE ClockInv'
    OBVIOUS
  <2>1. CASE ClockStep
    BY <2>1, StartupKeeps DEF ClockStep
  <2>2. CASE ClockMoves(Generator)
    BY <2>2, GeneratorKeeps DEF ClockMoves
  <2>3. CASE WatchdogFires \/ PowerCycle
    BY <2>3, BeginsKeeps DEF WatchdogFires, PowerCycle, Restart
  <2>4. CASE Reflashed
    BY <2>4, BeginsKeeps DEF Reflashed
  <2>5. CASE InitHardware \/ StartUsb \/ SetPots \/ Loop
    BY <2>5, StillKeeps DEF InitHardware, StartUsb, SetPots, Loop
  <2>6. CASE Usb \/ ClearGpnvm \/ Stick \/ Tick
    BY <2>6, StillKeeps DEF Usb, TwiWritten, TwiRead, ClearGpnvm, Stick, Tick
  <2>7. CASE \E wait \in {"write", "read"} : Request(wait)
    BY <2>7, StillKeeps DEF Request
  <2>8. CASE UNCHANGED vars
    BY <2>8, StillKeeps DEF vars
  <2>. QED
    BY <2>1, <2>2, <2>3, <2>4, <2>5, <2>6, <2>7, <2>8 DEF Next, Main
<1>3. ClockInv => ClockSafe
  BY ClockIsSafe
<1>. QED  BY <1>1, <1>2, <1>3, PTL DEF Spec

(***************************************************************************)
(* The TWI bus.  The invariant accounts for every byte of a transfer as    *)
(* moved, in the shifter, in THR or still with the driver.                 *)
(***************************************************************************)
Types ==
    /\ at \in {"idle", "write", "write_last", "write_done", "read", "read_done", "over"}
    /\ kind \in {"none", "write", "read"}
    /\ len \in Nat /\ cnt \in Nat /\ moved \in Nat /\ timeout \in Nat
    /\ phase \in {"off", "address", "byte"}
    /\ stop_sent \in BOOLEAN /\ full \in BOOLEAN /\ rxrdy \in BOOLEAN /\ nack \in BOOLEAN
    /\ txcomp \in BOOLEAN /\ stop \in BOOLEAN /\ held \in BOOLEAN /\ faulty \in BOOLEAN

\* The flags between operations and in general.
Flags ==
    /\ phase # "off" => ~txcomp
    /\ phase = "off" => ~full
    /\ at \in {"idle", "over"} => ~nack /\ ~rxrdy /\ (phase = "off" \/ held)
    /\ nack => faulty /\ phase = "off"
    /\ held => faulty
    /\ at \in {"write", "write_last", "write_done"} => kind = "write" /\ ~rxrdy
    /\ at \in {"read", "read_done"} => kind = "read" /\ ~full

\* The bytes of a write: outside the driver, one in THR and one in the shifter
\* at most.
WriteAccount ==
    /\ at \in {"write", "write_last"} /\ ~nack =>
          \/ phase = "off" /\ at = "write" /\ cnt = len /\ moved = 0
          \/ phase = "address" /\ full /\ moved = 0 /\ cnt + 1 = len
          \/ phase = "byte" /\ full /\ moved + 2 + cnt = len
          \/ phase = "byte" /\ ~full /\ moved + 1 + cnt = len
    /\ at = "write" => cnt > 0
    /\ at = "write_last" => cnt = 0
    /\ at = "write_done" =>
          /\ ~full
          /\ \/ phase = "byte" /\ moved + 1 = len
             \/ phase = "off" /\ moved = len
             \/ phase = "off" /\ moved + 1 = len /\ faulty

\* The bytes of a read: one in RHR at most; the STOP is asked for before the
\* last one ends.
ReadAccount ==
    /\ at = "read" /\ ~nack =>
          /\ cnt > 0 /\ cnt <= len
          /\ rxrdy => moved + cnt = len + 1
          /\ ~rxrdy => moved + cnt = len
          /\ rxrdy => (cnt = 1 <=> phase = "off")
          /\ stop_sent /\ cnt = 1 => stop
          /\ timeout < Timeout => held /\ ~rxrdy
          /\ cnt > 1 => ~stop /\ ~stop_sent
          /\ phase = "off" => rxrdy
    /\ at = "read" /\ nack => phase = "off" /\ ~rxrdy
    /\ at = "read_done" => cnt = 0 /\ moved = len /\ phase = "off" /\ ~nack /\ ~rxrdy

Results == TransferExact /\ FailureReported

TwiInv == Types /\ Flags /\ WriteAccount /\ ReadAccount /\ Results

-----------------------------------------------------------------------------
LEMMA InitTwi == TwiInit => TwiInv
  <1> SUFFICES ASSUME TwiInit PROVE TwiInv
    OBVIOUS
  <1>1. Types
    BY TwiAssumption DEF TwiInit, Types
  <1>2. Flags /\ WriteAccount /\ ReadAccount /\ Results
    BY DEF TwiInit, Flags, WriteAccount, ReadAccount, Results, TransferExact, FailureReported
  <1> QED
    BY <1>1, <1>2 DEF TwiInv

LEMMA CallTwi == ASSUME TwiInv, NEW n \in 0 .. MaxLength, Write(n) \/ Read(n) PROVE TwiInv'
  <1> USE DEF TwiInv, Types, call, Begin, Over
  <1>0. n \in Nat /\ Timeout \in Nat
    BY TwiAssumption
  <1>1. CASE Write(n)
    <2>1. Types'
      BY <1>0, <1>1 DEF Write
    <2>2. Flags'
      BY <1>0, <1>1 DEF Write, Flags
    <2>3. WriteAccount'
      BY <1>0, <1>1 DEF Write, WriteAccount, Flags
    <2>4. ReadAccount'
      BY <1>0, <1>1 DEF Write, ReadAccount
    <2>5. Results'
      BY <1>0, <1>1 DEF Write, Results, TransferExact, FailureReported
    <2> QED
      BY <2>1, <2>2, <2>3, <2>4, <2>5
  <1>2. CASE Read(n)
    <2>1. Types'
      BY <1>0, <1>2 DEF Read
    <2>2. Flags'
      BY <1>0, <1>2 DEF Read, Flags
    <2>3. WriteAccount'
      BY <1>0, <1>2 DEF Read, WriteAccount
    <2>4. ReadAccount'
      BY <1>0, <1>2 DEF Read, ReadAccount, Flags
    <2>5. Results'
      BY <1>0, <1>2 DEF Read, Results, TransferExact, FailureReported
    <2> QED
      BY <2>1, <2>2, <2>3, <2>4, <2>5
  <1> QED
    BY <1>1, <1>2

LEMMA WritePollTwi == ASSUME TwiInv, WritePoll PROVE TwiInv'
  <1> USE DEF TwiInv, Types, call, Over, WritePoll, LastWrite
  <1>0. cnt - 1 \in Nat
    BY DEF WriteAccount
  <1>1. Types'
    BY <1>0
  <1>2. Flags'
    BY DEF Flags
  <1>3. WriteAccount'
    BY DEF WriteAccount, Flags
  <1>4. ReadAccount'
    BY DEF ReadAccount
  <1>5. Results'
    BY DEF Results, TransferExact, FailureReported, Flags
  <1> QED
    BY <1>1, <1>2, <1>3, <1>4, <1>5

LEMMA WriteEndTwi == ASSUME TwiInv, WriteLast \/ WriteDone PROVE TwiInv'
  <1> USE DEF TwiInv, Types, call, Over
  <1>1. CASE WriteLast
    <2>1. Types'
      BY <1>1 DEF WriteLast
    <2>2. Flags'
      BY <1>1 DEF WriteLast, Flags
    <2>3. WriteAccount'
      BY <1>1 DEF WriteLast, WriteAccount
    <2>4. ReadAccount'
      BY <1>1 DEF WriteLast, ReadAccount
    <2>5. Results'
      BY <1>1 DEF WriteLast, Results, TransferExact, FailureReported, Flags
    <2> QED
      BY <2>1, <2>2, <2>3, <2>4, <2>5
  <1>2. CASE WriteDone
    <2>0. phase = "off" /\ kind = "write"
      BY <1>2 DEF WriteDone, Flags
    <2>1. Types'
      BY <1>2 DEF WriteDone
    <2>2. Flags'
      BY <1>2, <2>0 DEF WriteDone, Flags
    <2>3. WriteAccount' /\ ReadAccount'
      BY <1>2 DEF WriteDone, WriteAccount, ReadAccount
    <2>4. Results'
      BY <1>2, <2>0 DEF WriteDone, WriteAccount, Results, TransferExact, FailureReported
    <2> QED
      BY <2>1, <2>2, <2>3, <2>4
  <1> QED
    BY <1>1, <1>2

LEMMA ReadPollTwi == ASSUME TwiInv, ReadPoll PROVE TwiInv'
  <1> USE DEF TwiInv, Types, call, Over, ReadPoll, LastByte, TimeoutStep
  <1>0. Timeout \in Nat /\ 0 < Timeout
    BY TwiAssumption
  <1>1. Types'
    <2>1. ~nack => cnt - 1 \in Nat
      BY DEF ReadAccount
    <2>2. timeout # 0 => timeout - 1 \in Nat
      OBVIOUS
    <2>3. cnt' \in Nat
      BY <2>1
    <2>4. timeout' \in Nat
      BY <1>0, <2>2
    <2>5. stop' \in BOOLEAN /\ stop_sent' \in BOOLEAN
      OBVIOUS
    <2> QED
      BY <2>3, <2>4, <2>5
  <1>2. Flags'
    BY <1>0 DEF Flags, ReadAccount
  <1>3. WriteAccount'
    BY DEF WriteAccount
  <1>4. ReadAccount'
    BY <1>0 DEF ReadAccount
  <1>5. Results'
    BY <1>0 DEF Results, TransferExact, FailureReported, Flags, ReadAccount
  <1> QED
    BY <1>1, <1>2, <1>3, <1>4, <1>5

LEMMA ReadEndTwi == ASSUME TwiInv, ReadDone \/ Return PROVE TwiInv'
  <1> USE DEF TwiInv, Types, call, Over
  <1>1. CASE ReadDone
    <2>1. Types'
      BY <1>1 DEF ReadDone
    <2>2. Flags'
      BY <1>1 DEF ReadDone, Flags, ReadAccount
    <2>3. WriteAccount' /\ ReadAccount'
      BY <1>1 DEF ReadDone, WriteAccount, ReadAccount
    <2>4. Results'
      BY <1>1 DEF ReadDone, ReadAccount, Results, TransferExact, FailureReported
    <2> QED
      BY <2>1, <2>2, <2>3, <2>4
  <1>2. CASE Return
    BY <1>2 DEF Return, bus, Flags, WriteAccount, ReadAccount, Results, TransferExact,
                FailureReported
  <1> QED
    BY <1>1, <1>2

LEMMA BusTwi == ASSUME TwiInv, BusStep PROVE TwiInv'
  <1> USE DEF TwiInv, Types, call, BusStep, Moves, Acting, LastByte, Refused, Onward
  <1>0. at \notin {"idle", "over"}
    BY DEF Flags
  <1>1. Types'
    <2>1. moved' \in Nat
      OBVIOUS
    <2>2. phase' \in {"off", "address", "byte"}
      OBVIOUS
    <2>3. full' \in BOOLEAN /\ rxrdy' \in BOOLEAN /\ nack' \in BOOLEAN
      OBVIOUS
    <2>4. txcomp' \in BOOLEAN /\ faulty' \in BOOLEAN
      OBVIOUS
    <2> QED
      BY <2>1, <2>2, <2>3, <2>4
  <1>2. Flags'
    BY <1>0 DEF Flags, WriteAccount, ReadAccount
  <1>3. WriteAccount'
    BY DEF WriteAccount, Flags
  <1>4. ReadAccount'
    <2>0. at' = at /\ cnt' = cnt /\ len' = len /\ timeout' = timeout /\ stop' = stop
          /\ stop_sent' = stop_sent /\ held' = held /\ ~held
      OBVIOUS
    <2>1. CASE at = "read"
      <3>1. kind = "read" /\ ~rxrdy /\ ~nack /\ phase # "off"
        BY <2>1 DEF Flags, ReadAccount
      <3>2. CASE phase = "address"
        BY <2>0, <2>1, <3>1, <3>2 DEF ReadAccount
      <3>3. CASE phase = "byte"
        <4>1. moved' = moved + 1 /\ rxrdy' /\ ~nack'
          BY <3>1, <3>3
        <4>2. cnt = 1 => stop
          BY <2>1, <3>1 DEF ReadAccount
        <4>3. phase' = IF stop THEN "off" ELSE "byte"
          BY <3>1, <3>3
        <4>4. cnt > 0 /\ cnt <= len /\ moved + cnt = len /\ (cnt > 1 => ~stop /\ ~stop_sent)
          BY <2>1, <3>1 DEF ReadAccount
        <4>5. ~(timeout < Timeout)
          BY <2>0, <2>1, <3>1 DEF ReadAccount
        <4>6. cnt = 1 <=> phase' = "off"
          BY <4>2, <4>3, <4>4
        <4> QED
          BY <2>0, <2>1, <4>1, <4>2, <4>4, <4>5, <4>6 DEF ReadAccount
      <3> QED
        BY <3>1, <3>2, <3>3
    <2>2. CASE at # "read"
      BY <2>0, <2>2 DEF ReadAccount, Flags
    <2> QED
      BY <2>1, <2>2
  <1>5. Results'
    BY <1>0 DEF Results, TransferExact, FailureReported
  <1> QED
    BY <1>1, <1>2, <1>3, <1>4, <1>5

LEMMA FaultTwi == ASSUME TwiInv, HoldBus \/ TwiRestart PROVE TwiInv'
  <1>1. CASE HoldBus
    BY <1>1 DEF HoldBus, TwiInv, Types, call, bus, Flags, WriteAccount, ReadAccount, Results,
                TransferExact, FailureReported
  <1>2. CASE TwiRestart
    <2>1. Types'
      BY <1>2, TwiAssumption DEF TwiRestart, Types
    <2>2. Flags' /\ WriteAccount' /\ ReadAccount' /\ Results'
      BY <1>2 DEF TwiRestart, Flags, WriteAccount, ReadAccount, Results, TransferExact,
                  FailureReported
    <2> QED
      BY <2>1, <2>2 DEF TwiInv
  <1> QED
    BY <1>1, <1>2

\* Every byte of every transfer is accounted for, through refusals, a held bus
\* and restarts (twi_master_write, twi_master_read).
THEOREM BytesAccounted == TwiSpec => []TwiInv
  <1>1. TwiInit => TwiInv
    BY InitTwi
  <1>2. TwiInv /\ [TwiNext]_twiVars => TwiInv'
    <2> SUFFICES ASSUME TwiInv, [TwiNext]_twiVars PROVE TwiInv'
      OBVIOUS
    <2>1. CASE Calls
      BY <2>1, CallTwi DEF Calls
    <2>2. CASE Driver
      BY <2>2, WritePollTwi, WriteEndTwi, ReadPollTwi, ReadEndTwi DEF Driver
    <2>3. CASE BusStep
      BY <2>3, BusTwi
    <2>4. CASE HoldBus \/ TwiRestart
      BY <2>4, FaultTwi
    <2>5. CASE UNCHANGED twiVars
      BY <2>5 DEF twiVars, call, bus, TwiInv, Types, Flags, WriteAccount, ReadAccount, Results,
                  TransferExact, FailureReported
    <2> QED
      BY <2>1, <2>2, <2>3, <2>4, <2>5 DEF TwiNext
  <1> QED
    BY <1>1, <1>2, PTL DEF TwiSpec

\* A transfer with a chip that answers moves exactly its bytes and frees the bus,
\* for every length: the STOP of twi_master_read comes in time.
THEOREM TransfersAreExact == TwiSpec => []TransferExact
  <1>1. TwiInv => TransferExact
    BY DEF TwiInv, Results
  <1> QED
    BY <1>1, BytesAccounted, PTL

\* A success of twi_master_write or twi_master_read hides at most the refusal of
\* the last byte written.
THEOREM FailuresAreReported == TwiSpec => []FailureReported
  <1>1. TwiInv => FailureReported
    BY DEF TwiInv, Results
  <1> QED
    BY <1>1, BytesAccounted, PTL
==========================================================================
