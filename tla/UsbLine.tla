------------------------------ MODULE UsbLine ------------------------------
(***************************************************************************)
(* The line events of the USB driver (UDPHS_Handler, udd_attach): suspend, *)
(* wake-up and bus reset, and the peripheral clock, which is off from the  *)
(* attachment to the first event and again while the bus is suspended;     *)
(* composed with the device core (UdcCore), which bus resets and requests  *)
(* reach through the handler, and the IN half of the main loop.            *)
(*                                                                         *)
(* The handler's accesses are separate steps, between which the controller *)
(* sets its flags.  The sleep manager is compiled out, so the main loop    *)
(* and the sampling timer run on while the bus is suspended.               *)
(*                                                                         *)
(* With the clock off the controller reports nothing but a wake-up.  A     *)
(* suspension takes 3 ms of idle bus: what is pending is served before.    *)
(***************************************************************************)
EXTENDS UdcCore

CONSTANT Overlap      \* the host may resume right before udd_ack_wake_up

ASSUME LineAssumption == Overlap \in BOOLEAN

VARIABLES
    host,             \* the bus as the host drives it: "active" or "suspended"
    clock,            \* udd_enable_periph_ck, udd_disable_periph_ck
    suspend, wakeup, eor,  \* flags of UDPHS_INTSTA: DET_SUSPD, WAKE_UP, ENDRESET
    done,             \* the IN transfer has ended
    suspendInt, wakeupInt, \* their bits of UDPHS_IEN; ENDRESET stays enabled
    isr,              \* the step the handler is at
    told,             \* the last of UDC_SUSPEND_EVENT and UDC_RESUME_EVENT
    send_in, sending_in,
    job,              \* the IN transfer: "none", "busy", or "lost" to a dead register
    dead              \* a transfer was started with the clock off or on a halted
                      \* endpoint, or aborted by a halt, and since then neither
                      \* main_vendor_enable nor request 0xC5 has forgotten it

line == <<suspend, wakeup, eor, done>>
app  == <<send_in, sending_in, job, dead>>
core == vars
lineVars == <<host, clock, line, suspendInt, wakeupInt, isr, told, app, core>>

\* udd_attach.
LineInit ==
    /\ host = "suspended" /\ clock = FALSE
    /\ suspend = FALSE /\ wakeup = FALSE /\ eor = FALSE /\ done = FALSE
    /\ suspendInt = TRUE /\ wakeupInt = TRUE
    /\ isr = "none" /\ told = "none"
    /\ send_in = FALSE /\ sending_in = FALSE /\ job = "none" /\ dead = FALSE
    /\ Init

-----------------------------------------------------------------------------
(* UDPHS_Handler.                                                          *)

Pending ==
    \/ suspend /\ suspendInt
    \/ wakeup /\ wakeupInt
    \/ eor \/ done

\* The handler turns the clock on and serves the first event it finds: a
\* transfer that has ended (main_vendor_bulk_in_received, if its job was not
\* aborted meanwhile),
EnterDone ==
    /\ isr = "none" /\ done /\ clock' = TRUE
    /\ done' = FALSE /\ job' = "none"
    /\ sending_in' = (sending_in /\ job # "busy")
    /\ UNCHANGED <<host, suspend, wakeup, eor, suspendInt, wakeupInt, isr, told, send_in,
                   dead, core>>

\* a bus reset, in which the aborted transfer's callback does nothing,
EnterReset ==
    /\ isr = "none" /\ ~done /\ eor /\ clock' = TRUE
    /\ eor' = FALSE /\ suspendInt' = TRUE /\ job' = "none"
    /\ BusReset
    /\ UNCHANGED <<host, suspend, wakeup, done, wakeupInt, isr, told, send_in, sending_in,
                   dead>>

\* or the line's state, in steps of their own.
EnterLine ==
    /\ isr = "none" /\ ~done /\ ~eor /\ Pending /\ clock' = TRUE
    /\ isr' = IF suspendInt /\ suspend THEN "suspend" ELSE "wake"
    /\ UNCHANGED <<host, line, suspendInt, wakeupInt, told, app, core>>

\* The branch of a suspension: udd_ack_wake_up,
AckOldWakeUp ==
    /\ isr = "suspend" /\ isr' = "suspend_ints" /\ wakeup' = FALSE
    /\ UNCHANGED <<host, clock, suspend, eor, done, suspendInt, wakeupInt, told, app,
                   core>>

\* the two interrupts exchanged,
SuspendInts ==
    /\ isr = "suspend_ints" /\ isr' = "suspend_ack"
    /\ suspendInt' = FALSE /\ wakeupInt' = TRUE
    /\ UNCHANGED <<host, clock, line, told, app, core>>

\* udd_ack_suspend, the clock off, UDC_SUSPEND_EVENT.
SuspendEnds ==
    /\ isr = "suspend_ack" /\ isr' = "none"
    /\ suspend' = FALSE /\ clock' = FALSE /\ told' = "suspend"
    /\ UNCHANGED <<host, wakeup, eor, done, suspendInt, wakeupInt, app, core>>

\* Mutant: the wake-up is served without UDC_RESUME_EVENT.
WakeUpSilent ==
    /\ isr = "wake" /\ isr' = "none"
    /\ suspend' = FALSE /\ wakeup' = FALSE
    /\ wakeupInt' = FALSE /\ suspendInt' = TRUE
    /\ UNCHANGED <<host, clock, told, eor, done, app, core>>

\* The branch of a wake-up: both flags removed, the interrupts exchanged back,
\* UDC_RESUME_EVENT.
WakeUp ==
    /\ isr = "wake" /\ isr' = "none"
    /\ suspend' = FALSE /\ wakeup' = FALSE
    /\ wakeupInt' = FALSE /\ suspendInt' = TRUE /\ told' = "resume"
    /\ UNCHANGED <<host, clock, eor, done, app, core>>

Handler == EnterDone \/ EnterReset \/ EnterLine
           \/ AckOldWakeUp \/ SuspendInts \/ SuspendEnds \/ WakeUp

-----------------------------------------------------------------------------
(* Requests, and the main loop and the timer, which the handler preempts.  *)

\* Mutant: main_vendor_enable leaves sending_in as it is.
VendorEnableNot == UNCHANGED <<sending_in, dead>>

\* main_vendor_enable.
VendorEnable == sending_in' = FALSE /\ dead' = FALSE

\* The request halts the IN endpoint; the callback of the transfer that is
\* aborted returns without clearing sending_in.
HaltsIn == answer'.req = "halt in"

\* The request has been accepted as far as udc_iface_disable, which frees the
\* endpoints of setting 1.
Disables == /\ config # 0 /\ alt = 1
            /\ answer'.req \in {"set configuration", "set interface", "test mode"}
            /\ answer'.ok \/ state' # state

Enables == answer'.req = "set interface" /\ answer'.ok /\ enabled'

\* udd_ep_free and udd_ep_abort end the transfer; udd_ep_alloc starts again one it
\* finds.
JobServed == IF Disables \/ HaltsIn THEN "none"
             ELSE IF job = "lost" /\ "in" \in eps' \ eps THEN "busy" ELSE job

\* A control request, served by the handler; the sampling timer is left alone.
Request ==
    /\ host = "active" /\ clock /\ isr = "none" /\ ~eor
    /\ Requests
    /\ job' = JobServed
    /\ IF Enables THEN VendorEnable
                  ELSE /\ dead' = (dead \/ (HaltsIn /\ job = "busy"))
                       /\ UNCHANGED sending_in
    /\ UNCHANGED <<host, clock, line, suspendInt, wakeupInt, isr, told, send_in>>

\* Request 0xC5 starts a new session: the transfer is aborted and forgotten.
StartSession ==
    /\ host = "active" /\ clock /\ isr = "none" /\ ~eor /\ Idle
    /\ send_in' = FALSE /\ sending_in' = FALSE /\ job' = "none" /\ dead' = FALSE
    /\ UNCHANGED <<host, clock, line, suspendInt, wakeupInt, isr, told, core>>

\* The timer fills an IN packet; it runs on through resets and suspensions.
FillPacket ==
    /\ isr = "none" /\ ~send_in /\ send_in' = TRUE
    /\ UNCHANGED <<host, clock, line, suspendInt, wakeupInt, isr, told, sending_in, job,
                   dead, core>>

\* The IN branch of the loop.  With its clock off the endpoint reads as disabled,
\* and udd_ep_run refuses, or what it writes is lost; it refuses one that is halted.
SendPacket ==
    /\ isr = "none" /\ send_in /\ ~sending_in
    /\ send_in' = FALSE /\ sending_in' = TRUE
    /\ job' \in IF ~clock THEN {"none", "lost"}
                ELSE IF "in" \in eps \ halted /\ job = "none" THEN {"busy"} ELSE {job}
    /\ dead' = (dead \/ ~clock \/ "in" \in halted)
    /\ UNCHANGED <<host, clock, line, suspendInt, wakeupInt, isr, told, core>>

-----------------------------------------------------------------------------
(* The bus.                                                                *)

\* The controller notices an idle bus if it has its clock.
HostSuspends ==
    /\ host = "active" /\ host' = "suspended" /\ isr = "none" /\ ~Pending
    /\ suspend' = (suspend \/ clock)
    /\ UNCHANGED <<clock, wakeup, eor, done, suspendInt, wakeupInt, isr, told, app, core>>

\* A wake-up clears the suspend status by itself.
HostResumes ==
    /\ host = "suspended" /\ host' = "active"
    /\ isr = "suspend" => Overlap
    /\ wakeup' = TRUE /\ suspend' = FALSE
    /\ UNCHANGED <<clock, eor, done, suspendInt, wakeupInt, isr, told, app, core>>

HostResets ==
    /\ host = "active" /\ clock /\ isr = "none" /\ ~eor /\ eor' = TRUE
    /\ UNCHANGED <<host, clock, suspend, wakeup, done, suspendInt, wakeupInt, isr, told,
                   app, core>>

HostTakesPacket ==
    /\ host = "active" /\ clock /\ isr = "none" /\ job = "busy" /\ ~done
    /\ done' = TRUE
    /\ UNCHANGED <<host, clock, suspend, wakeup, eor, suspendInt, wakeupInt, isr, told,
                   app, core>>

Host == HostSuspends \/ HostResumes \/ HostResets \/ HostTakesPacket

LineNext == Handler \/ Request \/ StartSession \/ FillPacket \/ SendPacket \/ Host

\* An interrupt is served.
LineSpec == LineInit /\ [][LineNext]_lineVars /\ WF_lineVars(Handler)

-----------------------------------------------------------------------------
(* Properties.                                                             *)

\* "Called when USB bus is wakeup": after a suspension the handler saw, a bus
\* that stays active is noticed, wherever in the handler it became active
\* (with Overlap FALSE, but for the instant before udd_ack_wake_up).
ResumeTold == host = "active" /\ ~clock ~> told = "resume" \/ host = "suspended"

\* A bus that stays suspended is noticed and the clock turned off, an old
\* wake-up status notwithstanding.
SuspendHonoured == host = "suspended" ~> ~clock \/ host = "active"

\* Nothing waits for an event the controller cannot report: whenever
\* the clock is off and no event is pending, a wake-up would be reported.
WakeUpArmed == ~clock /\ isr = "none" => wakeupInt

\* No event is lost on the way: while the device sleeps on an active bus, or is
\* awake on a suspended one, the controller has the event pending and enabled,
\* or the handler is at it (udd_ack_wake_up and udd_ack_suspend removed no event
\* that was not served).
EventsPending ==
    /\ host = "active" /\ ~clock => wakeup /\ wakeupInt
    /\ host = "suspended" /\ clock /\ isr = "none" => suspend /\ suspendInt

\* No event of the line goes unnoticed.
LineNoticed == []WakeUpArmed /\ []EventsPending /\ ResumeTold /\ SuspendHonoured

\* While the interface is enabled, a set sending_in has a transfer behind it
\* that will clear it, through resets, suspensions, failing allocations and changes
\* of the setting.  Two things the IN stream does not survive before the interface
\* is enabled or a session started again: a transfer that the main loop starts with
\* the peripheral clock off, and a halt, whose aborted transfer does not clear
\* sending_in.  A halt that meets no transfer and is cleared in time is survived.
InFlows == enabled /\ sending_in => job = "busy" \/ dead
===========================================================================
