------------------------------- MODULE Boot -------------------------------
(***************************************************************************)
(* Start-up, watchdog and the way to the boot loader (main.c).             *)
(*                                                                         *)
(* main initialises the board, arms the watchdog, starts the USB stack,    *)
(* sets the potentiometers and enters the loop that alone restarts the     *)
(* watchdog.  The USB interrupt preempts it from udc_start on; requests    *)
(* 0xCC and 0x59 wait in twi_master_write without a timeout, 0x17 in       *)
(* twi_master_read with one (module TwiMaster).  0xBB clears the bit       *)
(* that makes the chip boot from flash and sets reset, after which the     *)
(* loop leaves the watchdog alone.                                         *)
(*                                                                         *)
(* Module Clock has the steps of sysclk_init, with which main begins, and   *)
(* of udc_stop and udc_start; a crystal that does not start holds main in  *)
(* the first of them, under the watchdog's period after a reset.           *)
(*                                                                         *)
(* Time passes in ticks of the watchdog.  Whatever does not wait for the   *)
(* bus takes less than what is left of a period.                           *)
(***************************************************************************)
EXTENDS Clock

CONSTANTS Default,      \* the watchdog's period after a reset (16 s)
          Period,       \* the period wdt_init sets (200 ms)
          BusSticks,    \* a chip may hold the TWI bus
          FlashFails    \* a flash command may fail

ASSUME BootAssumption ==
    /\ Period \in Nat \ {0} /\ Default \in Nat /\ Default >= Period
    /\ BusSticks \in BOOLEAN /\ FlashFails \in BOOLEAN

VARIABLES where,      \* what runs: "firmware" or "loader"
          pc,         \* where main is
          isr,        \* the wait the USB interrupt is in, or "none"
          reset,      \* as in main.h
          flashBoot,  \* GPNVM bit 1
          attached,   \* the device is visible on the bus
          wdt,        \* ticks until the watchdog fires; Off when disabled
          period,     \* what a restart loads
          stuck       \* the TWI bus is held

bootVars == <<where, pc, isr, reset, flashBoot, attached, wdt, period, stuck>>
vars == <<bootVars, clockVars>>

Off == Default + 1

Init ==
    /\ flashBoot = TRUE /\ where = "firmware" /\ pc = "init"
    /\ isr = "none" /\ reset = FALSE /\ attached = FALSE
    /\ wdt = Default /\ period = Default /\ stuck = FALSE
    /\ ClockInit

-----------------------------------------------------------------------------
(* main.                                                                   *)

\* sysclk_init, before anything else, and the USB clock in udc_stop and udc_start.
ClockStep ==
    /\ (pc = "init" /\ step # "usb_off") \/ pc = "usb"
    /\ Startup /\ UNCHANGED bootVars

\* Mutant: the watchdog is disabled instead.
InitHardwareNoWdt ==
    /\ pc = "init" /\ step = "usb_off" /\ pc' = "usb"
    /\ period' = Period /\ wdt' = Off
    /\ UNCHANGED <<where, isr, reset, flashBoot, attached, stuck, clockVars>>

\* Up to and including wdt_init.
InitHardware ==
    /\ pc = "init" /\ step = "usb_off" /\ pc' = "usb"
    /\ period' = Period /\ wdt' = Period
    /\ UNCHANGED <<where, isr, reset, flashBoot, attached, stuck, clockVars>>

\* udc_detach, udc_stop, udc_start, udc_attach: the rest, once the clock runs.
StartUsb ==
    /\ pc = "usb" /\ step = "up" /\ pc' = "pots"
    /\ attached' = TRUE
    /\ UNCHANGED <<where, isr, reset, flashBoot, wdt, period, stuck, clockVars>>

\* The DAC and, over the TWI bus, the potentiometers.
SetPots ==
    /\ pc = "pots" /\ isr = "none" /\ ~stuck /\ pc' = "loop"
    /\ UNCHANGED <<where, isr, reset, flashBoot, attached, wdt, period, stuck, clockVars>>

\* Mutant: the loop restarts the watchdog whatever reset says.
LoopRestarts ==
    /\ pc = "loop" /\ isr = "none"
    /\ wdt' = (IF wdt = Off THEN Off ELSE period)
    /\ attached' = (attached /\ ~reset)
    /\ UNCHANGED <<where, pc, isr, reset, flashBoot, period, stuck, clockVars>>

\* The end of the main loop's body; the transfers it starts are in Streaming.
Loop ==
    /\ pc = "loop" /\ isr = "none"
    /\ IF reset THEN attached' = FALSE /\ wdt' = wdt
                ELSE attached' = attached /\ wdt' = IF wdt = Off THEN Off ELSE period
    /\ UNCHANGED <<where, pc, isr, reset, flashBoot, period, stuck, clockVars>>

-----------------------------------------------------------------------------
(* The requests, in the USB interrupt.                                     *)

Request(wait) ==
    /\ attached /\ isr = "none" /\ pc \in {"pots", "loop"}
    /\ isr' = wait
    /\ UNCHANGED <<where, pc, reset, flashBoot, attached, wdt, period, stuck, clockVars>>

\* config_hardware and write_ad5122 return only if the bus moves.
TwiWritten ==
    /\ isr = "write" /\ ~stuck /\ isr' = "none"
    /\ UNCHANGED <<where, pc, reset, flashBoot, attached, wdt, period, stuck, clockVars>>

\* read_adm1177 returns by its timeout, unless it waits for TXCOMP.
TwiRead ==
    /\ isr = "read" /\ isr' \in (IF stuck THEN {"none", "hung"} ELSE {"none"})
    /\ UNCHANGED <<where, pc, reset, flashBoot, attached, wdt, period, stuck, clockVars>>

\* 0xBB: flash_clear_gpnvm and reset = true.  A bit found clear is not cleared
\* again; a failed reading of it counts as set; the result is ignored.
ClearGpnvm ==
    /\ attached /\ isr = "none" /\ pc \in {"pots", "loop"}
    /\ flashBoot' \in (IF FlashFails THEN {flashBoot, FALSE} ELSE {FALSE})
    /\ reset' = TRUE
    /\ UNCHANGED <<where, pc, isr, attached, wdt, period, stuck, clockVars>>

-----------------------------------------------------------------------------
(* The bus, the watchdog and power.                                        *)

Stick ==
    /\ BusSticks /\ ~stuck /\ (isr \in {"write", "read"} \/ pc = "pots")
    /\ stuck' = TRUE
    /\ UNCHANGED <<where, pc, isr, reset, flashBoot, attached, wdt, period, clockVars>>

Hung ==
    \/ stuck /\ (isr \in {"write", "hung"} \/ pc = "pots")
    \/ broken /\ step = "xtal_wait"

\* The loop comes round once a tick; what is not hung ends within the period.
Tick ==
    /\ where = "firmware" /\ wdt > 0 /\ wdt # Off
    /\ Hung \/ reset \/ (wdt > 1 /\ (pc = "loop" /\ isr = "none" => wdt = period))
    /\ wdt' = wdt - 1
    /\ UNCHANGED <<where, pc, isr, reset, flashBoot, attached, period, stuck, clockVars>>

\* A chip reset: RAM, peripherals and watchdog as after power on.  The chip on
\* the bus may or may not let go of it.
Restart ==
    /\ IF flashBoot THEN where' = "firmware" /\ pc' = "init"
                    ELSE where' = "loader" /\ pc' = "none"
    /\ isr' = "none" /\ reset' = FALSE /\ attached' = FALSE
    /\ wdt' = Default /\ period' = Default
    /\ stuck' \in {FALSE, stuck}
    /\ flashBoot' = flashBoot
    /\ ClockBegins(PowerOn)

\* Power is cut while the device is up: a cut during start-up leads to nothing
\* that start-up has not begun with.
WatchdogFires == where = "firmware" /\ wdt = 0 /\ Restart
PowerCycle    == pc \in {"pots", "loop"} /\ Restart

\* The boot loader writes a new firmware and sets the bit again.
Reflashed ==
    /\ where = "loader" /\ flashBoot' = TRUE
    /\ where' = "firmware" /\ pc' = "init"
    /\ ClockBegins(Handover)
    /\ UNCHANGED <<isr, reset, attached, wdt, period, stuck>>

ClockMoves(A) == A /\ UNCHANGED bootVars

Main == ClockStep \/ InitHardware \/ StartUsb \/ SetPots \/ Loop
Usb  == TwiWritten \/ TwiRead

Next == \/ Main \/ Usb \/ ClearGpnvm \/ Stick \/ Tick
        \/ WatchdogFires \/ PowerCycle \/ Reflashed
        \/ ClockMoves(Generator)
        \/ \E wait \in {"write", "read"} : Request(wait)

\* The processor runs and time passes; the host need not ask for anything.
Spec ==
    /\ Init /\ [][Next]_vars
    /\ WF_vars(Main) /\ WF_vars(Usb) /\ WF_vars(Tick) /\ WF_vars(WatchdogFires)
    /\ WF_vars(ClockMoves(XtalStarts)) /\ WF_vars(ClockMoves(MainFollows))
    /\ WF_vars(ClockMoves(PllLocks)) /\ WF_vars(ClockMoves(MckFollows))

-----------------------------------------------------------------------------
(* Properties.                                                             *)

\* A wait without a timeout on a held bus, in the interrupt or at start-up, or
\* on a crystal that does not start, ends in a restart of the chip: the loop
\* that restarts the watchdog is the one thing it stops.
HangRecovers == Hung ~> step = "flash"

\* Start-up comes to its end, or to another start of the chip.
StartUpEnds == HangRecovers /\ UsbClocked

\* "erase and reset to bootloader": request 0xBB ends in the boot loader,
\* unless the power is cut at the wrong moment, which ends there as well.
ResetReachesLoader == reset ~> where = "loader"
===========================================================================
