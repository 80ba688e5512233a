----------------------------- MODULE UsbControl -----------------------------
(***************************************************************************)
(* The control endpoint of the USB device driver (udphs_device.c), driven  *)
(* by a host that makes one control transfer after the other.              *)
(*                                                                         *)
(* ep0 holds the registers of endpoint 0, the driver's static variables    *)
(* and udd_g_ctrlreq.  udd_ctrl_interrupt reads the endpoint's status once *)
(* and then runs one handler: the two are separate steps, so that packets  *)
(* can arrive in between.  Each handler is a function from ep0 to ep0.     *)
(*                                                                         *)
(* Payload bytes are counted, not stored; an IN packet remembers where in  *)
(* the payload it was read.  No request of this firmware registers         *)
(* over_under_run, so its branches are left out.                           *)
(***************************************************************************)
EXTENDS Integers

CONSTANTS
    Pkt,        \* USB_DEVICE_EP_CTRL_SIZE, 64 in the firmware
    MaxLen,     \* bound on wLength and payload_size
    Faults      \* what the host may do besides completing its transfers

ASSUME CtrlAssumption ==
    /\ Pkt \in Nat \ {0} /\ MaxLen \in Nat
    /\ Faults \subseteq {"cut_in", "cut_out", "mismatch", "abandon", "reset"}

Len == 0..MaxLen
RequestType == [dir : {"in", "out"}, len : Len, size : Len, cb : BOOLEAN, ok : BOOLEAN]

\* What a request sets up: size is payload_size and cb whether there is a
\* callback.  Standard requests (udc_reqstd) cut an IN payload to wLength and
\* have no OUT data; SET_ADDRESS sets a callback.
StandardAnswer(r) ==
    IF r.dir = "in" THEN ~r.cb /\ r.size <= r.len ELSE r.len = 0 /\ r.size = 0

\* Vendor requests (main_setup_handle): 0x02 and 0x05 set payload_size to
\* wLength, and a callback; the others have a payload of their own, whatever
\* direction and wLength the host has asked for.  A host that knows them asks
\* for at least the payload and sends no OUT data; one with "mismatch" may not.
VendorAnswer(r) ==
    \/ r.cb /\ r.size = r.len
    \/ ~r.cb /\ IF r.dir = "in" THEN r.size <= r.len ELSE r.len = 0 /\ r.size = 0
    \/ ~r.cb /\ "mismatch" \in Faults

\* udc_process_setup refuses an IN request with wLength 0.  ok is its result;
\* ok = FALSE also stands for a SETUP packet that is not 8 bytes long.
Requests ==
    {r \in RequestType :
        IF r.ok THEN (r.dir = "in" => r.len > 0) /\ (StandardAnswer(r) \/ VendorAnswer(r))
                ELSE r.size = 0 /\ ~r.cb}

NoReq == [dir |-> "out", len |-> 0, size |-> 0, cb |-> FALSE, ok |-> TRUE]
NoPacket == [n |-> -1, from |-> 0]

VARIABLES
    ep0,    \* registers and driver state of the control endpoint
    isr,    \* the event udd_ctrl_interrupt has found, or "none"
    host    \* the transfer the host is making

vars == <<ep0, isr, host>>

States == {"SETUP", "DATA_OUT", "DATA_IN", "WAIT_IN_ZLP", "WAIT_OUT_ZLP", "STALL_REQ"}

\* Registers: rxSetup, out (bytes received, -1: none), tx (the packet in the
\* IN bank), complt, nakIn, nakOut, frcestall, and three interrupt enables.
\* fifo is the SETUP packet.  Driver: state, req, size, cb, cnt, prev, short.
\* ledger and shortSent are history: what became of the callback of the
\* current request, and whether the current request has sent a short packet.
Init ==
    /\ ep0 = [rxSetup |-> FALSE, fifo |-> NoReq, out |-> -1, tx |-> NoPacket,
              complt |-> FALSE, nakIn |-> FALSE, nakOut |-> FALSE, frcestall |-> FALSE,
              inSendIe |-> FALSE, nakInIe |-> FALSE, nakOutIe |-> FALSE,
              state |-> "SETUP", req |-> NoReq, size |-> 0, cb |-> FALSE,
              cnt |-> 0, prev |-> 0, short |-> FALSE,
              ledger |-> "clear", shortSent |-> FALSE]
    /\ isr = "none"
    /\ host = [stage |-> "idle", req |-> NoReq, n |-> 0, cut |-> FALSE, result |-> "none"]

(***************************************************************************)
(* The driver's routines.                                                  *)
(***************************************************************************)
\* A callback dropped after the host has completed its request is lost.
Dropped(l) == CASE l = "done" -> "lost" [] l = "open" -> "clear" [] OTHER -> l

\* Mutant: the IN interrupt stays enabled.
CtrlInitKeepsInt(d) ==
    [d EXCEPT !.out = -1, !.cb = FALSE, !.size = 0, !.state = "SETUP", !.ledger = Dropped(@)]

CtrlInit(d) ==
    [d EXCEPT !.inSendIe = FALSE, !.out = -1, !.cb = FALSE, !.size = 0,
              !.state = "SETUP", !.ledger = Dropped(@)]

EndOfRequest(d) ==
    IF d.cb THEN [d EXCEPT !.ledger = IF @ = "done" THEN "clear" ELSE "early"] ELSE d

StallData(d) == [d EXCEPT !.state = "STALL_REQ", !.frcestall = TRUE]

\* Mutant: the driver does not ask to be told when the packet is sent.
TransmitDeaf(d, n, from) == [d EXCEPT !.complt = FALSE, !.tx = [n |-> n, from |-> from]]

Transmit(d, n, from) ==
    [d EXCEPT !.complt = FALSE, !.tx = [n |-> n, from |-> from], !.inSendIe = TRUE]

\* Mutant: an old NAK is not acknowledged before its interrupt is enabled.
SendZlpInStaleNak(d) ==
    [Transmit(d, 0, 0) EXCEPT !.state = "WAIT_IN_ZLP", !.nakOutIe = TRUE]

SendZlpIn(d) ==
    [Transmit(d, 0, 0) EXCEPT !.state = "WAIT_IN_ZLP", !.nakOut = FALSE, !.nakOutIe = TRUE]

SendZlpOut(d) == [d EXCEPT !.state = "WAIT_OUT_ZLP", !.nakIn = FALSE, !.nakInIe = TRUE]

\* Mutant: every packet is sent with its full length.
ChunkFull(remain) == Pkt

Chunk(remain) == IF remain >= Pkt THEN Pkt ELSE remain

\* The next IN packet, unless an OUT packet has ended the data phase.
SendData(d) ==
    LET n == Chunk(d.size - d.cnt)
        e == [d EXCEPT !.short = (n < Pkt)]
    IN  IF d.out # -1
          THEN [e EXCEPT !.state = "WAIT_OUT_ZLP"]
          ELSE [Transmit(e, n, d.cnt) EXCEPT !.cnt = @ + n, !.shortSent = @ \/ n < Pkt]

\* The payload is sent: the data phase is over, or a ZLP has to end it.
PayloadSent(d) ==
    LET e == [d EXCEPT !.prev = @ + d.cnt]
    IN  IF e.prev = d.req.len \/ d.short THEN SendZlpOut(e) ELSE SendData(e)

InSent(d) ==
    LET e == [d EXCEPT !.inSendIe = FALSE]
    IN  CASE d.state = "WAIT_IN_ZLP" -> CtrlInit(EndOfRequest(e))
          [] d.state # "WAIT_IN_ZLP" /\ d.size = d.cnt -> PayloadSent(e)
          [] OTHER -> SendData(e)

\* Mutant: the request that a SETUP packet finds unfinished is dropped.
UnfinishedDropped(d) == IF d.state # "SETUP" THEN CtrlInit(d) ELSE d

\* A SETUP packet that comes before the end of the previous request was seen.
Unfinished(d) == IF d.state # "SETUP" THEN CtrlInit(EndOfRequest(d)) ELSE d

ResetCounts(d) == [d EXCEPT !.cnt = 0, !.prev = 0]

SetupReceived(d) ==
    LET r == d.fifo
        e == [Unfinished(d) EXCEPT !.req = r, !.size = r.size, !.cb = r.cb,
                 !.rxSetup = FALSE, !.shortSent = FALSE,
                 !.ledger = IF r.cb /\ @ = "clear" THEN "open" ELSE @]
    IN  CASE ~r.ok -> StallData(e)
          [] r.ok /\ r.dir = "in" -> InSent([ResetCounts(e) EXCEPT !.state = "DATA_IN"])
          [] r.ok /\ r.dir = "out" /\ r.len = 0 -> SendZlpIn(e)
          [] OTHER -> [ResetCounts(e) EXCEPT !.state = "DATA_OUT",
                                             !.nakIn = FALSE, !.nakInIe = TRUE]

\* Mutant: the data phase ends one byte early.
OutDoneEarly(d, n) == n # Pkt \/ d.req.len <= d.prev + d.cnt + 1

\* A short packet, or wLength bytes, end the OUT data phase.
OutDone(d, n) == n # Pkt \/ d.req.len <= d.prev + d.cnt

\* An OUT packet of the data phase; what does not fit in the payload is cut.
StoreData(d) ==
    LET n == IF d.size < d.cnt + d.out THEN d.size - d.cnt ELSE d.out
        e == [d EXCEPT !.cnt = @ + n, !.out = -1]
    IN  CASE OutDone(e, n) -> SendZlpIn([e EXCEPT !.size = e.cnt])
          [] ~OutDone(e, n) /\ e.size = e.cnt -> StallData(e)
          [] OTHER -> [e EXCEPT !.nakIn = FALSE, !.nakInIe = TRUE]

OutReceived(d) ==
    CASE d.state = "DATA_OUT" -> StoreData(d)
      [] d.state \in {"DATA_IN", "WAIT_OUT_ZLP"} -> CtrlInit(EndOfRequest(d))
      [] OTHER -> CtrlInit(StallData(d))

\* An IN token was NAKed.
Underflow(d) ==
    CASE d.out = -1 /\ d.state = "DATA_OUT" -> SendZlpIn(d)
      [] d.out = -1 /\ d.state = "WAIT_OUT_ZLP" -> [d EXCEPT !.frcestall = TRUE]
      [] OTHER -> d

\* An OUT packet was NAKed.
Overflow(d) ==
    IF ~d.complt /\ d.state = "WAIT_IN_ZLP" THEN [d EXCEPT !.frcestall = TRUE] ELSE d

(***************************************************************************)
(* udd_ctrl_interrupt, in its order of precedence.                         *)
(***************************************************************************)
InEvent  == ep0.complt /\ ep0.inSendIe
OutEvent == ep0.out # -1
Pending ==
    ep0.rxSetup \/ InEvent \/ OutEvent
    \/ (ep0.nakIn /\ ep0.nakInIe) \/ (ep0.nakOut /\ ep0.nakOutIe)

IsrEnter ==
    /\ isr = "none" /\ Pending
    /\ isr' = CASE ep0.rxSetup -> "setup"
                [] ~ep0.rxSetup /\ InEvent -> "in"
                [] ~ep0.rxSetup /\ ~InEvent /\ OutEvent -> "out"
                [] ~ep0.rxSetup /\ ~InEvent /\ ~OutEvent /\ ep0.nakOut -> "nakOut"
                [] OTHER -> "nakIn"
    /\ ep0' = [ep0 EXCEPT !.nakInIe = FALSE, !.nakOutIe = FALSE]
    /\ UNCHANGED host

IsrHandle ==
    /\ \/ isr = "setup" /\ ep0' = SetupReceived(ep0)
       \/ isr = "in" /\ ep0' = InSent(ep0)
       \/ isr = "out" /\ ep0' = OutReceived(ep0)
       \/ isr = "nakOut" /\ ep0' = Overflow([ep0 EXCEPT !.nakOut = FALSE])
       \/ isr = "nakIn" /\ ep0' = Underflow([ep0 EXCEPT !.nakIn = FALSE])
    /\ isr' = "none"
    /\ UNCHANGED host

(***************************************************************************)
(* The host and the endpoint's hardware.  A SETUP packet is always taken;  *)
(* it clears a stall and an unsent IN packet.  A forced stall answers any  *)
(* other packet.  An IN token without a packet, and an OUT packet that     *)
(* finds the bank in use, are NAKed and repeated.                          *)
(***************************************************************************)
HostSetup(r) ==
    /\ host.stage = "idle" /\ ~ep0.rxSetup
    /\ host' = [stage |-> IF r.len > 0 THEN "data" ELSE "status", req |-> r, n |-> 0,
                cut |-> FALSE, result |-> "none"]
    /\ ep0' = [ep0 EXCEPT !.rxSetup = TRUE, !.fifo = r, !.frcestall = FALSE, !.tx = NoPacket]
    /\ UNCHANGED isr

Finish(res) == host' = [host EXCEPT !.stage = "idle", !.result = res]

\* The host expects an IN packet next (and otherwise sends an OUT packet).
Reads == IF host.stage = "data" THEN host.req.dir = "in"
                                ELSE host.req.dir = "out" \/ host.req.len = 0

\* The status stage is over; the callback of the request is due.
Complete(d) == [d EXCEPT !.ledger = IF @ = "open" THEN "done" ELSE @]

HostStalled ==
    /\ host.stage # "idle" /\ ep0.frcestall /\ ~ep0.rxSetup
    /\ Finish("stall")
    /\ UNCHANGED <<ep0, isr>>

HostIn ==
    /\ host.stage # "idle" /\ Reads /\ ~ep0.frcestall
    /\ \/ /\ ep0.tx = NoPacket /\ ~ep0.nakIn
          /\ ep0' = [ep0 EXCEPT !.nakIn = TRUE]
          /\ UNCHANGED host
       \/ /\ host.stage = "data" /\ ep0.tx # NoPacket
          /\ host.n + ep0.tx.n <= host.req.len
          /\ ep0' = [ep0 EXCEPT !.tx = NoPacket, !.complt = TRUE]
          /\ host' = [host EXCEPT !.n = @ + ep0.tx.n,
                !.stage = IF ep0.tx.n < Pkt \/ host.n + ep0.tx.n = host.req.len
                            THEN "status" ELSE "data"]
       \/ /\ host.stage = "data" /\ host.n + ep0.tx.n > host.req.len
          /\ Finish("overrun")
          /\ UNCHANGED ep0
       \/ /\ host.stage = "status" /\ ep0.tx # NoPacket
          /\ ep0' = Complete([ep0 EXCEPT !.tx = NoPacket, !.complt = TRUE])
          /\ Finish(IF ep0.tx.n = 0 THEN "ok" ELSE "error")
    /\ UNCHANGED isr

HostOut ==
    /\ host.stage # "idle" /\ ~Reads /\ ~ep0.frcestall
    /\ \/ /\ (ep0.out # -1 \/ ep0.rxSetup) /\ ~ep0.nakOut
          /\ ep0' = [ep0 EXCEPT !.nakOut = TRUE]
          /\ UNCHANGED host
       \/ /\ host.stage = "data" /\ ep0.out = -1 /\ ~ep0.rxSetup
          /\ LET n == Chunk(host.req.len - host.n) IN
               /\ ep0' = [ep0 EXCEPT !.out = n]
               /\ host' = [host EXCEPT !.n = @ + n,
                     !.stage = IF host.n + n = host.req.len THEN "status" ELSE "data"]
       \/ /\ host.stage = "status" /\ ep0.out = -1 /\ ~ep0.rxSetup
          /\ ep0' = Complete([ep0 EXCEPT !.out = 0])
          /\ Finish("ok")
    /\ UNCHANGED isr

\* The host times out, long after the driver has gone quiet: because its IN
\* token is NAKed for ever or, with "abandon", for reasons of its own.
HostGivesUp ==
    /\ host.stage # "idle" /\ isr = "none" /\ ~Pending
    /\ "abandon" \in Faults \/ (Reads /\ ~ep0.frcestall /\ ep0.tx = NoPacket /\ ep0.nakIn)
    /\ Finish("timeout")
    /\ UNCHANGED <<ep0, isr>>

\* The host ends the data stage early.
HostCut ==
    /\ host.stage = "data"
    /\ (IF host.req.dir = "in" THEN "cut_in" ELSE "cut_out") \in Faults
    /\ host' = [host EXCEPT !.stage = "status", !.cut = TRUE]
    /\ UNCHANGED <<ep0, isr>>

\* USB reset: the control endpoint is configured anew.
BusReset ==
    /\ "reset" \in Faults /\ isr = "none"
    /\ ep0' = CtrlInit([ep0 EXCEPT !.rxSetup = FALSE, !.tx = NoPacket, !.complt = FALSE,
                 !.nakIn = FALSE, !.nakOut = FALSE, !.frcestall = FALSE,
                 !.nakInIe = FALSE, !.nakOutIe = FALSE])
    /\ Finish("reset")
    /\ UNCHANGED isr

Driver == IsrEnter \/ IsrHandle
HostToken == HostIn \/ HostOut \/ HostStalled

Next ==
    \/ Driver \/ HostToken
    \/ \E r \in Requests : HostSetup(r)
    \/ HostCut \/ HostGivesUp \/ BusReset

Spec == Init /\ [][Next]_vars

\* The interrupt is served, and the host repeats what was NAKed.
FairSpec == Spec /\ WF_vars(Driver) /\ WF_vars(HostToken)

(***************************************************************************)
(* Properties.                                                             *)
(***************************************************************************)
\* The types of the variables.  The counts of the driver and of the host stay
\* within the longest payload, so the payload is never read or written outside.
CtrlTypeOK ==
    /\ ep0 \in [rxSetup : BOOLEAN, fifo : RequestType, out : -1..Pkt,
                tx : {NoPacket} \cup [n : 0..Pkt, from : Len],
                complt : BOOLEAN, nakIn : BOOLEAN, nakOut : BOOLEAN, frcestall : BOOLEAN,
                inSendIe : BOOLEAN, nakInIe : BOOLEAN, nakOutIe : BOOLEAN,
                state : States, req : RequestType, size : Len, cb : BOOLEAN,
                cnt : Len, prev : 0..(2 * MaxLen), short : BOOLEAN,
                ledger : {"clear", "open", "done", "early", "lost"},
                shortSent : BOOLEAN]
    /\ isr \in {"none", "setup", "in", "out", "nakOut", "nakIn"}
    /\ host \in [stage : {"idle", "data", "status"}, req : RequestType, n : Len,
                 cut : BOOLEAN,
                 result : {"none", "ok", "stall", "overrun", "error", "reset", "timeout"}]

\* Assert(udd_ep_control_state == UDD_EPCTRL_DATA_IN) in udd_ctrl_in_sent: the
\* IN interrupt only comes when a data packet or the IN handshake was sent,
\* whatever SETUP packets, aborts and resets came before.
InSentExpected ==
    isr = "in" \/ InEvent => ep0.state \in {"DATA_IN", "WAIT_IN_ZLP"}

\* While the host reads the data of the request the driver is serving, the
\* packet in the IN bank is the next part of this request's payload.
InPacketInPlace ==
    host.stage = "data" /\ host.req.dir = "in" /\ ep0.tx # NoPacket
        => ep0.tx.from = host.n

\* A transfer that the host sees complete and did not cut short has moved the
\* whole payload: min(wLength, payload_size) bytes IN, wLength bytes OUT.
TransferComplete ==
    host.result = "ok" /\ ~host.cut =>
        /\ host.req.dir = "in" => host.n = IF host.req.size < host.req.len
                                             THEN host.req.size ELSE host.req.len
        /\ host.req.dir = "out" /\ host.req.size = host.req.len /\ host.req.len > 0
              => ep0.cnt = host.req.len

\* What the host is given is the payload of its own request, in order and
\* whole (udd_ctrl_in_sent, udd_ctrl_out_received).
TransferFaithful == InPacketInPlace /\ TransferComplete

\* The callback of a request runs once its status stage is over, and it does
\* run, also when the next SETUP packet comes before the driver has seen the
\* end of the status stage: unless the host abandons requests or resets.
CallbackOnce == ep0.ledger \notin {"early", "lost"}

\* "Callback called after reception of ZLP from setup request" (udd.h): it does
\* not run for a request whose status stage never took place.  No run checks it:
\* with "abandon" in Faults TLC refutes it (udd_ctrl_setup_received).
CallbackAfterStatus == ep0.ledger # "early"

\* A request that is supported, and whose payload is as long as the driver and
\* the host expect, is not stalled.  Part of ImplementsTransfer where the host
\* only cuts; by itself it holds of hosts that abandon requests and reset too.
Regular(r) ==
    /\ r.ok
    /\ r.dir = "in" => r.size \in 1..r.len
    /\ r.dir = "out" => r.size = r.len

RegularServed == Regular(host.req) /\ ~host.cut => host.result # "stall"

\* "All data requested are transfered or a short packet has been sent then it
\* is the end of data phase" (udd_ctrl_in_sent): a driver that waits for the
\* OUT handshake, no OUT packet having come, has sent one or the other.  No run
\* checks it: TLC refutes it, b_shortpacket being older than the request.
DataPhaseEnds ==
    ep0.state = "WAIT_OUT_ZLP" /\ ep0.out = -1 => ep0.shortSent \/ ep0.cnt = ep0.req.len

\* A transfer of such a request comes to an end: the host is not NAKed for ever,
\* whatever the requests before it left in the endpoint's status.
RegularEnds ==
    (host.stage # "idle" /\ Regular(host.req) /\ ~host.cut) ~> (host.stage = "idle" \/ host.cut)

\* "Host want to stop OUT transaction then stop to wait OUT data phase and wait
\* IN ZLP handshake" (udd_ctrl_underflow): a host that cuts the OUT data stage
\* short gets its handshake.  No run checks it: with "cut_out" in Faults TLC
\* refutes it, by a stale NAK_OUT status (udd_ctrl_interrupt).
CutOutServed ==
    (host.stage = "status" /\ host.cut /\ host.req.dir = "out") ~> (host.stage = "idle")

(***************************************************************************)
(* The contract of a control transfer.  Stored is what the driver has      *)
(* stored of the payload of the host's request; it has seen nothing of a   *)
(* request whose SETUP packet still waits.                                 *)
(***************************************************************************)
Stored == IF ep0.rxSetup \/ ~host.req.ok \/ host.req.len = 0 THEN 0 ELSE ep0.cnt

Transfer == INSTANCE ControlTransfer WITH
    Supported <- Regular,
    phase <- IF host.stage = "idle" THEN "idle" ELSE "run",
    req <- host.req,
    moved <- IF host.req.dir = "in" THEN host.n ELSE Stored,
    cut <- host.cut,
    outcome <- host.result,
    due <- ep0.ledger = "done"

\* The driver, its interrupt routine racing the packets of the host, keeps the
\* contract of udd.h (ControlTransfer): a supported request moves its payload
\* and succeeds, its callback runs once after the status stage and before the
\* next request ends, and nothing else fails.
ImplementsTransfer == Transfer!TransferSpec

=============================================================================
