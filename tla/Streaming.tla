------------------------------ MODULE Streaming ------------------------------
(***************************************************************************)
(* The sample streaming engine of the ADALM1000 firmware (src/src/main.c). *)
(*                                                                         *)
(* Three contexts share the state: TC2_Handler (priority 0) preempts       *)
(* everything, so a tick is one atomic action that may fall between any    *)
(* two steps of the others; the UDPHS interrupt (priority 1: SOF, control  *)
(* request 0xC5, bulk transfer callbacks, bus events) preempts the main    *)
(* loop; the main loop hands full packets to the bulk endpoints.           *)
(*                                                                         *)
(* Two double buffers: packets_in is filled by the ADCs' PDC and read by   *)
(* the bulk IN DMA, packets_out is filled by the bulk OUT DMA and read by  *)
(* the DAC's PDC.  Which buffer a packet uses is state; sample values are  *)
(* not.  sent_in is written and never read, so it is left out.             *)
(***************************************************************************)
EXTENDS Naturals, Sequences

CONSTANTS
    Slots,      \* sample slots in a packet: the wrap of the uint8_t offsets
    Lag,        \* slots by which the ADC trails the DAC (254 = 256 - 2)
    Warm,       \* slots played once as a warm-up, then rewound
    OutReq,     \* the slot at which the next OUT packet is requested
    Frames,     \* USB frame numbers; 0 means "start at any frame" in 0xC5
    MaxStarts,  \* bound on the number of start requests
    HostOps     \* what the host does; "serve": it goes on after the first packet

\* In the firmware: 256, 2, 4 and 127.
ASSUME SlotsAssumption ==
    /\ Slots \in Nat /\ Lag \in Nat /\ Warm \in Nat /\ OutReq \in Nat
    /\ 0 < Lag /\ Lag < Warm /\ Warm < OutReq /\ OutReq < Slots

ASSUME FramesAssumption == Frames \subseteq Nat /\ 0 \in Frames

ASSUME HostOpsAssumption ==
    /\ MaxStarts \in Nat
    /\ HostOps \subseteq {"serve", "stop", "restart_running", "reconfigure", "halt"}

Dir == {"in", "out"}
Buf == {0, 1}
None == 2                        \* no buffer: the DMA channel is disabled

VARIABLES
    timerOn,                     \* TC0 channel 2 is counting
    current_chan, slot_offset_in, slot_offset_out,
    packet_index_in, packet_index_out, not_a_new_transfer,
    pdc,                         \* where the USARTs' PDC was last pointed
    send, sending,               \* send_in, send_out; sending_in, sending_out
    packet_index_send,           \* packet_index_send_in, packet_index_send_out
    sent_out, start_timer, start_frame,
    enabled, halted,             \* endpoints allocated; halted[d]: stalled by the host
    job,                         \* udd_ep_job[] and its DMA channel
    mloop,                       \* where the main loop is
    c5                           \* where the 0xC5 handler is

\* History variables: they record the past for the properties and guard nothing.
VARIABLES
    starts,      \* start requests so far
    session,     \* "none", or how the current session was started
    raced,       \* a tick fell inside the 0xC5 handler (or no session yet)
    late,        \* late[d]: a packet boundary found transfer d unfinished
    inState,     \* inState[b]: "stale", "ready" (complete) or "sent"
    outState,    \* outState[b]: "empty" or "full"
    owed,        \* owed[d]: callback of the accepted, unfinished transfer
    stopped      \* a stop was requested after the stream had started

tickVars == <<current_chan, slot_offset_in, slot_offset_out, packet_index_in,
              packet_index_out, not_a_new_transfer, pdc>>
flagVars == <<send, sending, packet_index_send, sent_out, start_timer, start_frame>>
history  == <<starts, session, raced, late, inState, outState, owed, stopped>>
vars == <<timerOn, tickVars, flagVars, enabled, halted, job, mloop, c5, history>>

MainAt == {"test", "reads_send", "reads_sending", "clear", "set", "arg",
           "check", "busy", "buf", "cnt", "cb", "trans"}
C5At == {"idle", "stores", "config", "run"}

\* Stores of the 0xC5 reset block.  The plain variables may be written in any
\* order; the volatile ones are written in program order.  flags_in stands for
\* sending_in and send_in: a tick does not touch the former.
PlainStores == {"current_chan", "slot_offset_in", "slot_offset_out",
                "packet_index_in", "packet_index_out"}
VolatileStores == <<"flags_in", "packet_index_send_out", "packet_index_send_in">>
Stores == PlainStores \cup {VolatileStores[i] : i \in 1..3}

idleJob == [busy |-> FALSE, buf |-> 0, loaded |-> FALSE, cb |-> "null", dma |-> None]

Init ==
    /\ timerOn = FALSE /\ current_chan = "A"
    /\ slot_offset_in = 0 /\ slot_offset_out = 0
    /\ packet_index_in = 0 /\ packet_index_out = 0
    /\ not_a_new_transfer = 0
    /\ pdc = [d \in Dir |-> [buf |-> 0, slot |-> 0]]
    /\ send = [d \in Dir |-> FALSE] /\ sending = [d \in Dir |-> FALSE]
    /\ packet_index_send = [d \in Dir |-> 0]
    /\ sent_out = FALSE /\ start_timer = FALSE /\ start_frame = 0
    /\ enabled = FALSE /\ halted = [d \in Dir |-> FALSE]
    /\ job = [d \in Dir |-> idleJob]
    /\ mloop = [dir |-> "in", at |-> "test", arg |-> 0]
    /\ c5 = [at |-> "idle", todo |-> {}, frame |-> 0]
    /\ starts = 0 /\ session = "none" /\ raced = TRUE
    /\ late = [d \in Dir |-> FALSE]
    /\ inState = [b \in Buf |-> "stale"]
    /\ outState = [b \in Buf |-> "empty"]
    /\ owed = [d \in Dir |-> "none"]
    /\ stopped = FALSE

(***************************************************************************)
(* TC2_Handler.  The PDC pointers are programmed from the offsets as they  *)
(* are on entry; the offsets advance on channel B only.                    *)
(***************************************************************************)
InBranch(d) == mloop.dir = d /\ mloop.at \notin {"test", "reads_send"}
Unfinished(d) == send[d] \/ sending[d] \/ InBranch(d)

PointPdc ==
    pdc' = [d \in Dir |->
              IF d = "in" THEN [buf |-> packet_index_in, slot |-> slot_offset_in]
                          ELSE [buf |-> packet_index_out, slot |-> slot_offset_out]]

\* Bound: at most one tick falls inside one execution of the 0xC5 handler,
\* which is shorter than the timer's period.
TickAllowed == timerOn /\ (c5.at = "idle" \/ ~raced)

TickA ==
    /\ TickAllowed /\ current_chan = "A"
    /\ PointPdc
    /\ current_chan' = "B"
    /\ raced' = (raced \/ c5.at # "idle")
    /\ UNCHANGED <<timerOn, slot_offset_in, slot_offset_out, packet_index_in,
                   packet_index_out, not_a_new_transfer, flagVars, enabled, halted, job,
                   mloop, c5, starts, session, late, inState, outState, owed, stopped>>

\* The history of the buffers is kept for clean sessions only.
Track(d, b, st) ==
    IF d = "in"
      THEN inState' = IF session = "clean" THEN [inState EXCEPT ![b] = st] ELSE inState
      ELSE outState' = IF session = "clean" THEN [outState EXCEPT ![b] = st] ELSE outState

\* Mutant: the rewind of a signed offset does not wrap.
SubSigned(s, k) == s - k

\* uint8_t arithmetic on the slot offsets.
Inc(s) == (s + 1) % Slots
Sub(s, k) == (s + Slots - k) % Slots

\* The end of a packet: the filled IN buffer is announced, the DAC changes
\* buffers.
PacketEnd ==
    /\ packet_index_send' = [packet_index_send EXCEPT !["in"] = packet_index_in]
    /\ packet_index_out' = 1 - packet_index_out
    /\ send' = [send EXCEPT !["in"] = TRUE]
    /\ late' = IF session = "clean" THEN [d \in Dir |-> late[d] \/ Unfinished(d)] ELSE late
    /\ Track("in", packet_index_in, "ready")
    /\ Track("out", packet_index_out, "empty")
    /\ UNCHANGED <<packet_index_in, not_a_new_transfer>>

\* Mutant: the ADC is not moved to the other buffer.
InSwitchNever ==
    UNCHANGED <<packet_index_in, packet_index_send, packet_index_out, send, late,
                inState, outState, not_a_new_transfer>>

InSwitch ==
    /\ packet_index_in' = 1 - packet_index_in
    /\ UNCHANGED <<packet_index_send, packet_index_out, send, late, inState,
                   outState, not_a_new_transfer>>

\* Mutant: not_a_new_transfer is not reset, so that every packet is rewound.
EndWarmUpNever ==
    UNCHANGED <<packet_index_send, packet_index_out, packet_index_in, send, late,
                inState, outState, not_a_new_transfer>>

EndWarmUp ==
    /\ not_a_new_transfer' = 0
    /\ UNCHANGED <<packet_index_send, packet_index_out, packet_index_in, send,
                   late, inState, outState>>

RequestOut ==
    /\ packet_index_send' = [packet_index_send EXCEPT !["out"] = 1 - packet_index_out]
    /\ send' = [send EXCEPT !["out"] = TRUE]
    /\ UNCHANGED <<packet_index_out, packet_index_in, late, inState, outState,
                   not_a_new_transfer>>

PlainSlot ==
    UNCHANGED <<packet_index_send, packet_index_out, packet_index_in, send, late,
                inState, outState, not_a_new_transfer>>

\* What the rewind at slot Warm subtracts from both offsets.
Rewind(out) == IF out = Warm THEN not_a_new_transfer ELSE 0

TickB ==
    LET out == Inc(slot_offset_out) IN
    /\ TickAllowed /\ current_chan = "B"
    /\ PointPdc
    /\ current_chan' = "A"
    /\ slot_offset_out' = Sub(out, Rewind(out))
    /\ slot_offset_in' = Sub(Inc(slot_offset_in), Rewind(out))
    /\ \/ out = 0 /\ PacketEnd
       \/ out = Lag /\ InSwitch
       \/ out = Warm /\ EndWarmUp
       \/ out = OutReq /\ RequestOut
       \/ out \notin {0, Lag, Warm, OutReq} /\ PlainSlot
    /\ raced' = (raced \/ c5.at # "idle")
    /\ UNCHANGED <<timerOn, sending, sent_out, start_timer, start_frame, enabled, halted,
                   job, mloop, c5, starts, session, owed, stopped>>

(***************************************************************************)
(* Bulk transfers: udd_ep_run, udd_ep_trans_done, udd_ep_finish_job and    *)
(* the three callbacks of main.c.  A packet is one DMA transfer; loaded    *)
(* stands for buf_cnt = buf_size.  On UDD_EP_TRANSFER_ABORT the callbacks  *)
(* return at once, so an abort only drops the job.                         *)
(***************************************************************************)
\* Mutants: sent_out is never set; every OUT packet arms the timer; the first
\* one does not; sending is not cleared.
CallbackForgetsSent(cb) ==
    /\ sending' = IF cb = "in" THEN [sending EXCEPT !["in"] = FALSE]
                               ELSE [sending EXCEPT !["out"] = FALSE]
    /\ start_timer' = (start_timer \/ (cb = "first" /\ ~sent_out))
    /\ UNCHANGED sent_out

CallbackRearms(cb) ==
    /\ sending' = IF cb = "in" THEN [sending EXCEPT !["in"] = FALSE]
                               ELSE [sending EXCEPT !["out"] = FALSE]
    /\ start_timer' = (start_timer \/ cb \in {"out", "first"})
    /\ sent_out' = (sent_out \/ cb = "first")

CallbackNeverArms(cb) ==
    /\ sending' = IF cb = "in" THEN [sending EXCEPT !["in"] = FALSE]
                               ELSE [sending EXCEPT !["out"] = FALSE]
    /\ sent_out' = (sent_out \/ cb = "first")
    /\ UNCHANGED start_timer

CallbackKeepsSending(cb) ==
    /\ start_timer' = (start_timer \/ (cb = "first" /\ ~sent_out))
    /\ sent_out' = (sent_out \/ cb = "first")
    /\ UNCHANGED sending

Callback(cb) ==
    /\ sending' = CASE cb = "in" -> [sending EXCEPT !["in"] = FALSE]
                    [] cb \in {"out", "first"} -> [sending EXCEPT !["out"] = FALSE]
                    [] OTHER -> sending
    /\ start_timer' = (start_timer \/ (cb = "first" /\ ~sent_out))
    /\ sent_out' = (sent_out \/ cb = "first")

NoCallback == UNCHANGED <<sending, start_timer, sent_out>>

\* udd_ep_trans_done: load the next part of the job, or end it.  j is the job
\* of endpoint d as its caller leaves it.
TransDone(d, j) ==
    \/ /\ ~j.busy
       /\ job' = [job EXCEPT ![d] = j]
       /\ NoCallback /\ UNCHANGED <<inState, outState, owed>>
    \/ /\ j.busy /\ ~j.loaded
       /\ job' = [job EXCEPT ![d] = [j EXCEPT !.loaded = TRUE, !.dma = j.buf]]
       /\ NoCallback /\ UNCHANGED <<inState, outState, owed>>
    \/ /\ j.busy /\ j.loaded
       /\ job' = [job EXCEPT ![d] = [j EXCEPT !.busy = FALSE]]
       /\ Callback(j.cb)
       /\ IF d = "in" THEN Track("in", j.buf, "sent") /\ UNCHANGED outState
                      ELSE Track("out", j.buf, "full") /\ UNCHANGED inState
       /\ owed' = [owed EXCEPT ![d] = "none"]

\* udd_ep_run accepts a job only on an enabled endpoint that is not halted.
Ready(d) == enabled /\ ~halted[d]

\* The USB interrupt does not preempt itself.
UsbIsr == c5.at = "idle"

\* udd_ep_interrupt: the DMA channel of endpoint d has moved its packet.
DmaDone(d) ==
    /\ UsbIsr /\ Ready(d) /\ job[d].dma # None
    /\ "serve" \in HostOps \/ job[d].cb = "first"
    /\ TransDone(d, [job[d] EXCEPT !.dma = None])
    /\ UNCHANGED <<timerOn, tickVars, send, packet_index_send, start_frame, enabled, halted,
                   mloop, c5, starts, session, raced, late, stopped>>

Aborted(j) == [j EXCEPT !.busy = FALSE, !.dma = None]

(***************************************************************************)
(* main_sof_action: the timer is started at the requested frame.           *)
(***************************************************************************)
Sof(frame) ==
    /\ UsbIsr
    /\ start_timer /\ (frame = start_frame \/ start_frame = 0)
    /\ timerOn' = TRUE
    /\ start_timer' = FALSE
    /\ UNCHANGED <<tickVars, send, sending, packet_index_send, sent_out, start_frame,
                   enabled, halted, job, mloop, c5, history>>

(***************************************************************************)
(* Vendor request 0xC5.  With wValue = 0 it stops the timer and nothing    *)
(* else; otherwise it resets the engine and asks for the first OUT packet. *)
(***************************************************************************)
C5Stop ==
    /\ UsbIsr /\ "stop" \in HostOps
    /\ timerOn' = FALSE
    /\ stopped' = (stopped \/ (sent_out /\ ~start_timer))
    /\ UNCHANGED <<tickVars, flagVars, enabled, halted, job, mloop, c5, starts, session, raced, late,
                   inState, outState, owed>>

Forget ==
    /\ late' = [d \in Dir |-> FALSE]
    /\ inState' = [b \in Buf |-> "stale"]
    /\ outState' = [b \in Buf |-> "empty"]

\* A session starts clean when nothing of the previous one is still going on.
Quiescent == enabled /\ (\A d \in Dir : ~halted[d] /\ ~InBranch(d)) /\ ~timerOn /\ ~start_timer

C5Begin(frame) ==
    /\ UsbIsr
    /\ starts < MaxStarts /\ starts' = starts + 1
    /\ ~timerOn \/ "restart_running" \in HostOps
    /\ not_a_new_transfer' = Warm
    /\ job' = [d \in Dir |-> Aborted(job[d])]
    /\ c5' = [at |-> "stores", todo |-> Stores, frame |-> frame]
    /\ session' = IF Quiescent THEN "clean" ELSE "dirty"
    /\ raced' = FALSE
    /\ Forget
    /\ owed' = [d \in Dir |-> "none"]
    /\ stopped' = FALSE
    /\ UNCHANGED <<timerOn, current_chan, slot_offset_in, slot_offset_out,
                   packet_index_in, packet_index_out, pdc, flagVars, enabled, halted, mloop>>

\* The stores that may come next: one whose earlier volatile stores are done.
\* With the timer stopped no tick can tell in which order they are done.
NextStores ==
    IF timerOn
      THEN {{x} : x \in {y \in c5.todo : \A i, j \in 1..3 :
               y = VolatileStores[j] /\ i < j => VolatileStores[i] \notin c5.todo}}
      ELSE {c5.todo}

C5Store(X) ==
    /\ c5.at = "stores"
    /\ current_chan' = IF "current_chan" \in X THEN "A" ELSE current_chan
    /\ slot_offset_in' = IF "slot_offset_in" \in X THEN Slots - Lag ELSE slot_offset_in
    /\ slot_offset_out' = IF "slot_offset_out" \in X THEN 0 ELSE slot_offset_out
    /\ packet_index_in' = IF "packet_index_in" \in X THEN 0 ELSE packet_index_in
    /\ packet_index_out' = IF "packet_index_out" \in X THEN 0 ELSE packet_index_out
    /\ sending' = [sending EXCEPT !["in"] = @ /\ "flags_in" \notin X]
    /\ send' = [send EXCEPT !["in"] = @ /\ "flags_in" \notin X]
    /\ packet_index_send' =
          [packet_index_send EXCEPT
             !["in"] = IF "packet_index_send_in" \in X THEN 0 ELSE @,
             !["out"] = IF "packet_index_send_out" \in X THEN 0 ELSE @]
    /\ c5' = [c5 EXCEPT !.todo = @ \ X, !.at = IF c5.todo = X THEN "config" ELSE @]
    /\ UNCHANGED <<timerOn, not_a_new_transfer, pdc, sent_out, start_timer,
                   start_frame, enabled, halted, job, mloop, history>>

C5Config ==
    /\ c5.at = "config"
    /\ start_frame' = c5.frame
    /\ sent_out' = FALSE
    /\ sending' = [sending EXCEPT !["out"] = TRUE]
    /\ send' = [send EXCEPT !["out"] = FALSE]
    /\ c5' = [c5 EXCEPT !.at = "run"]
    /\ UNCHANGED <<timerOn, tickVars, packet_index_send, start_timer, enabled, halted, job,
                   mloop, history>>

\* udd_ep_run inside the interrupt: nothing but a tick can come between its
\* steps, and the job was aborted by C5Begin.  The result is ignored.
C5Run ==
    /\ c5.at = "run"
    /\ \/ /\ Ready("out")
          /\ job' = [job EXCEPT !["out"] = [busy |-> TRUE, loaded |-> TRUE, cb |-> "first",
                                            buf |-> packet_index_send["out"],
                                            dma |-> packet_index_send["out"]]]
          /\ owed' = [owed EXCEPT !["out"] = "first"]
       \/ ~Ready("out") /\ UNCHANGED <<job, owed>>
    /\ c5' = [c5 EXCEPT !.at = "idle"]
    /\ UNCHANGED <<timerOn, tickVars, flagVars, enabled, halted, mloop, starts, session, raced, late,
                   inState, outState, stopped>>

(***************************************************************************)
(* Bus events.  udc_iface_disable frees both endpoints and ends their jobs *)
(* but does not stop the DMA channels, which go on once the endpoints are  *)
(* enabled again; udc_iface_enable allocates them, restarts a job it finds *)
(* busy and calls main_vendor_enable, which clears sending_in.             *)
(***************************************************************************)
Dirty ==
    /\ session' = IF session = "none" THEN "none" ELSE "dirty"
    /\ Forget

EpFree(j) == [j EXCEPT !.busy = FALSE]

EpAlloc(j) == IF j.busy THEN [j EXCEPT !.loaded = TRUE, !.dma = j.buf] ELSE j

UsbDisable ==
    /\ UsbIsr /\ "reconfigure" \in HostOps /\ enabled
    /\ enabled' = FALSE
    /\ halted' = [d \in Dir |-> FALSE]
    /\ job' = [d \in Dir |-> EpFree(job[d])]
    /\ owed' = [d \in Dir |-> "none"]
    /\ Dirty
    /\ UNCHANGED <<timerOn, tickVars, flagVars, mloop, c5, starts, raced, stopped>>

UsbEnable ==
    /\ UsbIsr /\ ~enabled
    /\ enabled' = TRUE
    /\ job' = [d \in Dir |-> EpAlloc(job[d])]
    /\ sending' = [sending EXCEPT !["in"] = FALSE]
    /\ Dirty
    /\ UNCHANGED <<timerOn, tickVars, send, packet_index_send, sent_out, start_timer,
                   start_frame, halted, mloop, c5, starts, raced, owed, stopped>>

\* SET_FEATURE(ENDPOINT_HALT): udd_ep_abort, then udd_ep_set_halt.
EpSetHalt(d) ==
    /\ UsbIsr /\ "halt" \in HostOps /\ enabled
    /\ halted' = [halted EXCEPT ![d] = TRUE]
    /\ job' = [job EXCEPT ![d] = Aborted(@)]
    /\ owed' = [owed EXCEPT ![d] = "none"]
    /\ Dirty
    /\ UNCHANGED <<timerOn, tickVars, flagVars, enabled, mloop, c5, starts, raced, stopped>>

\* CLEAR_FEATURE(ENDPOINT_HALT).  If a job slipped in after the halt, its
\* callback is called as call_nohalt, without arguments: the status it reads
\* is whatever the register holds.
EpClearHalt(d) ==
    /\ UsbIsr /\ "halt" \in HostOps /\ enabled /\ halted[d]
    /\ halted' = [halted EXCEPT ![d] = FALSE]
    /\ job' = [job EXCEPT ![d].busy = FALSE]
    /\ \/ job[d].busy /\ Callback(job[d].cb)
       \/ NoCallback
    /\ owed' = [owed EXCEPT ![d] = "none"]
    /\ UNCHANGED <<timerOn, tickVars, send, packet_index_send, start_frame, enabled,
                   mloop, c5, starts, session, raced, late, inState, outState, stopped>>

(***************************************************************************)
(* The main loop, for d = "in" and then d = "out":                         *)
(*    if ((!sending_d) & send_d) {                                         *)
(*       send_d = false; sending_d = true;                                 *)
(*       udi_vendor_bulk_d_run(packets_d[packet_index_send_d], ...); }     *)
(* The two flags are read in either order, one access at a time; the body  *)
(* of udd_ep_run is split where an interrupt can see the difference.       *)
(***************************************************************************)
Thread == c5.at = "idle"
At(d, l) == Thread /\ mloop.dir = d /\ mloop.at = l
Goto(l) == mloop' = [mloop EXCEPT !.at = l]
Leave(d) == mloop' = [mloop EXCEPT !.dir = IF d = "in" THEN "out" ELSE "in", !.at = "test"]

MainTest(d) ==
    /\ At(d, "test")
    /\ \/ ~sending[d] /\ Goto("reads_send")
       \/ send[d] /\ Goto("reads_sending")
       \/ (sending[d] \/ ~send[d]) /\ Leave(d)
    /\ UNCHANGED <<timerOn, tickVars, flagVars, enabled, halted, job, c5, history>>

MainReadsOther(d) ==
    /\ \/ At(d, "reads_send") /\ IF send[d] THEN Goto("clear") ELSE Leave(d)
       \/ At(d, "reads_sending") /\ IF ~sending[d] THEN Goto("clear") ELSE Leave(d)
    /\ UNCHANGED <<timerOn, tickVars, flagVars, enabled, halted, job, c5, history>>

MainClear(d) ==
    /\ At(d, "clear")
    /\ send' = [send EXCEPT ![d] = FALSE]
    /\ Goto("set")
    /\ UNCHANGED <<timerOn, tickVars, sending, packet_index_send, sent_out, start_timer,
                   start_frame, enabled, halted, job, c5, history>>

MainSet(d) ==
    /\ At(d, "set")
    /\ sending' = [sending EXCEPT ![d] = TRUE]
    /\ Goto("arg")
    /\ UNCHANGED <<timerOn, tickVars, send, packet_index_send, sent_out, start_timer,
                   start_frame, enabled, halted, job, c5, history>>

MainArg(d) ==
    /\ At(d, "arg")
    /\ mloop' = [mloop EXCEPT !.arg = packet_index_send[d], !.at = "check"]
    /\ UNCHANGED <<timerOn, tickVars, flagVars, enabled, halted, job, c5, history>>

\* A refused run returns false, which the main loop ignores.
MainCheck(d) ==
    /\ At(d, "check")
    /\ IF Ready(d) THEN Goto("busy") ELSE Leave(d)
    /\ UNCHANGED <<timerOn, tickVars, flagVars, enabled, halted, job, c5, history>>

MainBusy(d) ==
    /\ At(d, "busy")
    /\ \/ job[d].busy /\ Leave(d) /\ UNCHANGED <<job, owed>>
       \/ /\ ~job[d].busy /\ Goto("buf")
          /\ job' = [job EXCEPT ![d].busy = TRUE]
          /\ owed' = [owed EXCEPT ![d] = d]
    /\ UNCHANGED <<timerOn, tickVars, flagVars, enabled, halted, c5, starts, session, raced,
                   late, inState, outState, stopped>>

MainFill(d) ==
    /\ \/ /\ At(d, "buf") /\ Goto("cnt")
          /\ job' = [job EXCEPT ![d].buf = mloop.arg]
       \/ /\ At(d, "cnt") /\ Goto("cb")
          /\ job' = [job EXCEPT ![d].loaded = FALSE]
       \/ /\ At(d, "cb") /\ Goto("trans")
          /\ job' = [job EXCEPT ![d].cb = d]
    /\ UNCHANGED <<timerOn, tickVars, flagVars, enabled, halted, c5, history>>

MainTrans(d) ==
    /\ At(d, "trans")
    /\ TransDone(d, job[d])
    /\ Leave(d)
    /\ UNCHANGED <<timerOn, tickVars, send, packet_index_send, start_frame, enabled,
                   halted, c5, starts, session, raced, late, stopped>>

Main == \E d \in Dir :
    \/ MainTest(d) \/ MainReadsOther(d) \/ MainClear(d) \/ MainSet(d) \/ MainArg(d)
    \/ MainCheck(d) \/ MainBusy(d) \/ MainFill(d) \/ MainTrans(d)

C5Step == (\E X \in NextStores : C5Store(X)) \/ C5Config \/ C5Run

Next ==
    \/ TickA \/ TickB
    \/ Main
    \/ C5Step
    \/ \E f \in Frames : Sof(f) \/ C5Begin(f)
    \/ C5Stop
    \/ \E d \in Dir : DmaDone(d) \/ EpSetHalt(d) \/ EpClearHalt(d)
    \/ UsbDisable \/ UsbEnable

Spec == Init /\ [][Next]_vars

(***************************************************************************)
(* Fairness: interrupts are served, the main loop runs whenever none is,   *)
(* the running timer ticks, every frame number comes round again, and the  *)
(* host keeps serving the two bulk endpoints.                              *)
(***************************************************************************)
Fairness ==
    /\ WF_vars(TickA \/ TickB) /\ WF_vars(Main) /\ WF_vars(C5Step)
    /\ \A f \in Frames : WF_vars(Sof(f))
    /\ \A d \in Dir : WF_vars(DmaDone(d))

FairSpec == Spec /\ Fairness

(***************************************************************************)
(* Properties.                                                             *)
(***************************************************************************)

Slot == 0..(Slots - 1)
PdcType == [buf : Buf, slot : Slot]
JobType == [busy : BOOLEAN, buf : Buf, loaded : BOOLEAN,
            cb : {"null", "in", "out", "first"}, dma : Buf \cup {None}]

TickType ==
    /\ current_chan \in {"A", "B"}
    /\ slot_offset_in \in Slot /\ slot_offset_out \in Slot
    /\ packet_index_in \in Buf /\ packet_index_out \in Buf
    /\ not_a_new_transfer \in {0, Warm}
    /\ pdc \in [Dir -> PdcType]

FlagType ==
    /\ timerOn \in BOOLEAN
    /\ send \in [Dir -> BOOLEAN] /\ sending \in [Dir -> BOOLEAN]
    /\ packet_index_send \in [Dir -> Buf]
    /\ sent_out \in BOOLEAN /\ start_timer \in BOOLEAN /\ start_frame \in Frames

EndpointType ==
    enabled \in BOOLEAN /\ halted \in [Dir -> BOOLEAN] /\ job \in [Dir -> JobType]

ControlType ==
    /\ mloop \in [dir : Dir, at : MainAt, arg : Buf]
    /\ c5 \in [at : C5At, todo : SUBSET Stores, frame : Frames]

HistoryType ==
    /\ starts \in 0..MaxStarts /\ session \in {"none", "clean", "dirty"}
    /\ raced \in BOOLEAN /\ stopped \in BOOLEAN
    /\ late \in [Dir -> BOOLEAN]
    /\ inState \in [Buf -> {"stale", "ready", "sent"}]
    /\ outState \in [Buf -> {"empty", "full"}]
    /\ owed \in [Dir -> {"none", "in", "out", "first"}]

\* The type of every variable; in particular every PDC pointer TC2_Handler
\* programs stays inside packets_in and packets_out.
TypeOK == TickType /\ FlagType /\ EndpointType /\ ControlType /\ HistoryType

\* The ADC trails the DAC by Lag slots, and fills the buffer the DAC plays
\* except in the first Lag slots of a packet; in the warm-up it is the other
\* way round.
Aligned ==
    /\ slot_offset_in = Sub(slot_offset_out, Lag)
    /\ (not_a_new_transfer = 0) =>
          ((packet_index_in = packet_index_out) <=> (slot_offset_out >= Lag))
    /\ (not_a_new_transfer = Warm) =>
          /\ slot_offset_out < Warm
          /\ (packet_index_in = packet_index_out) <=> (slot_offset_out < Lag)

\* Unless a tick of TC2_Handler fell inside the reset of request 0xC5, the ADC
\* and the DAC stay aligned through the warm-up, its rewind and every wrap,
\* also when the stream is restarted while it runs.
SlotsAligned == c5.at = "idle" /\ ~raced => Aligned

\* In a clean session the timer neither runs nor is armed before the host's
\* first OUT packet has arrived (main_vendor_bulk_out_received_first).
NoStartBeforeFirstPacket ==
    session = "clean" /\ c5.at = "idle" /\ (timerOn \/ start_timer) => sent_out

\* While the bulk IN DMA reads a packet of a clean, timely session, the packet
\* is complete and not yet sent, and the ADC's PDC writes to it, if at all,
\* only in its last Lag + 1 slots: send_in is raised that much too early.
InPacketOwned ==
    LET b == job["in"].dma IN
    session = "clean" /\ c5.at = "idle" /\ ~late["in"] /\ b # None =>
        /\ inState[b] = "ready"
        /\ (pdc["in"].buf = b) => (pdc["in"].slot >= Slots - Lag - 1)

\* In a clean session in which every packet boundary found the IN transfer
\* finished, the ADC never starts to refill a packet that was not sent.
NoPacketLost ==
    session = "clean" /\ c5.at = "idle" /\ ~late["in"] /\ slot_offset_out >= Lag
        => inState[packet_index_in] # "ready"

\* In a clean session in which every packet boundary found the OUT transfer
\* finished, the DAC plays a packet the host has delivered since that buffer
\* was last played, and the bulk OUT DMA does not write to it.
DacPlaysFullPacket ==
    session = "clean" /\ c5.at = "idle" /\ ~late["out"] /\ timerOn =>
        /\ outState[packet_index_out] = "full"
        /\ job["out"].dma # packet_index_out

\* The double buffers of both directions: no packet is shared by PDC and DMA,
\* lost, or played twice, as long as the host keeps up (TC2_Handler, main loop).
BuffersKept == InPacketOwned /\ NoPacketLost /\ DacPlaysFullPacket

\* In a clean session a set sending flag is backed by a job on the endpoint, so
\* some callback will clear it; udd_ep_run is never refused behind its back.
SendingBacked ==
    \A d \in Dir : session = "clean" /\ c5.at = "idle" /\ sending[d] /\ ~InBranch(d)
        => job[d].busy

\* A stop (0xC5 with wValue 0) that finds the stream started and not armed is
\* final: the timer stays off until the next start request.
StopHolds == stopped => ~timerOn /\ ~start_timer

\* "When the transfer is finished or aborted (stall, reset, ...), the callback
\* is called" (udi_vendor.h): while the DMA moves an accepted transfer, the
\* callback in the job is the one that was registered for it.
CallbackRegistered ==
    \A d \in Dir : owed[d] # "none" /\ job[d].dma # None => job[d].cb = owed[d]

\* The same for the sessions started while the main loop was not inside
\* udi_vendor_bulk_*_run.
CallbackRegisteredClean == session = "clean" => CallbackRegistered

\* What the main loop and 0xC5 wait for in a clean session is on its way: a job
\* is on the endpoint and will call back the function it was given.
TransfersBacked == SendingBacked /\ CallbackRegisteredClean

\* A clean session gets going: once 0xC5 has been handled the timer ends up
\* running, unless the host stops, restarts or reconfigures the device.
StreamStarts ==
    (session = "clean" /\ c5.at = "run") ~>
        (timerOn \/ c5.at = "stores" \/ session = "dirty")

\* While a clean session keeps running, IN packets keep being sent and OUT
\* packets keep being requested and received: no flag is stuck.
StreamFlows ==
    <>[](session = "clean" /\ timerOn /\ c5.at = "idle") =>
        \A d \in Dir : []<>(sending[d]) /\ []<>(~sending[d])

\* A session gets going and keeps going.
StreamLives == StreamStarts /\ StreamFlows

=============================================================================
