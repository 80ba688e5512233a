--------------------------- MODULE AnalogOutput ---------------------------
(***************************************************************************)
(* The outputs of the analog front end (main.c): the AD5663 behind USART0  *)
(* and the pin N_SYNC, the switches of the two channels and the digital    *)
(* potentiometers.                                                         *)
(*                                                                         *)
(* TC2_Handler writes the converter at every tick of the sampling timer.   *)
(* The vendor requests write it from the USB interrupt, which the timer    *)
(* interrupt preempts between any two accesses: TC2_IRQn has priority 0,   *)
(* the USB interrupt UDD_USB_INT_LEVEL.  What the peripheral DMA           *)
(* controller (PDC) has been told to send leaves the processor behind, so  *)
(* it is a process of its own.                                             *)
(*                                                                         *)
(* A tick's own frame takes about 1 us: it is over before the next tick    *)
(* and before a request is decoded.                                        *)
(***************************************************************************)
EXTENDS Naturals, Sequences

CONSTANT Requests     \* the vendor requests the host uses

Channels == {"A", "B"}

\* set_mode acts on one of the two channels and no other, 0x24 and 0x25 name
\* one each; write_ad5122 takes any number for a channel.  The pin requests
\* name a switch of a channel ("pin"), N_SYNC ("sync") or another pin of the
\* link to the converter ("link").
ASSUME RequestsAssumption ==
    \A r \in Requests :
        /\ r.op \in {"mode", "pin", "command"} => r.chan \in Channels
        /\ r.op = "sync" => r.level \in BOOLEAN
        /\ r.op = "pots" => r.chan \in Channels \cup {"neither"}

Other(c) == IF c = "A" THEN "B" ELSE "A"

\* Junk is whatever lies behind a buffer already sent.
Junk == "junk"

VARIABLES
    timer, armed,    \* TC2 runs; main_sof_action will start it
    chan,            \* current_chan
    req, pc,         \* the request being handled and the handler's step
    command,         \* da and db
    mode, pins,      \* ma and mb; the levels of the switch pins
    pots,            \* the wipers the potentiometers hold
    link,            \* USART0, its PDC and N_SYNC
    dac, ref,        \* the input registers of the AD5663; internal reference on
    cut,             \* the host has taken a pin of the link
    disturbed,       \* a tick came while the last request was handled
    mixed,           \* a tick has come inside a DAC write or a request for N_SYNC
    edge             \* N_SYNC was high when the last DAC write began

sampling == <<timer, armed, chan>>
settings == <<command, mode, pins, pots>>
vars == <<sampling, req, pc, settings, link, dac, ref, cut, disturbed, mixed, edge>>

NoReq == [op |-> "none"]

\* What init_hardware and the start-up code of main leave behind.
Init ==
    /\ timer = FALSE /\ armed = FALSE /\ chan = "A"
    /\ req = NoReq /\ pc = "idle"
    /\ command = [A |-> "A", B |-> "B"]
    /\ mode = [c \in Channels |-> "DISABLED"]
    /\ pins = [c \in Channels |-> [swmode |-> "1", sense |-> "0", output |-> "1"]]
    /\ pots = [c \in Channels |-> <<"p1_simv", "p2_simv">>]
    /\ link = [ptr |-> <<>>, next |-> <<"i0_dac", "i0_dac">>, count |-> 0,
               nextCount |-> 0, tick |-> FALSE, wire |-> <<>>, frame |-> <<>>,
               sync |-> TRUE]
    /\ dac = [c \in Channels |-> "i0_dac"] /\ ref = TRUE /\ cut = FALSE
    /\ disturbed = FALSE /\ mixed = FALSE /\ edge = TRUE

-----------------------------------------------------------------------------
(* The AD5663 and USART0.  A frame begins when N_SYNC falls; its third     *)
(* byte executes it; bytes after that, and bytes sent while N_SYNC is      *)
(* high, are ignored.  A command byte names a channel's input register or  *)
(* the reference; a byte out of place makes an unknown command.  Once the   *)
(* host has taken a pin from it nothing is known of what the converter     *)
(* reads.                                                                  *)

LinkIdle == link.count = 0 /\ link.nextCount = 0 /\ link.wire = <<>>
TxEmpty  == LinkIdle

\* N_SYNC driven to a level: only a falling edge begins a frame.
Sync(l, level) ==
    [l EXCEPT !.sync = level,
              !.frame = IF level \/ ~l.sync THEN @ ELSE <<>>]

\* TPR and TNPR, then TCR and TNCR.
Point(l, byte, word) == [l EXCEPT !.ptr = <<byte>>, !.next = <<word, word>>]

Launch(l, tick) == [l EXCEPT !.count = 1, !.nextCount = 2, !.tick = tick]

\* The PDC moves one byte into the transmitter, which holds two.
PdcLoad ==
    /\ link.count > 0 /\ Len(link.wire) < 2
    /\ LET byte == IF link.ptr = <<>> THEN Junk ELSE Head(link.ptr)
           rest == IF link.ptr = <<>> THEN <<>> ELSE Tail(link.ptr)
           over == link.count = 1 /\ link.nextCount > 0
       IN  link' = [link EXCEPT
               !.wire = Append(@, byte),
               !.ptr = IF over THEN link.next ELSE rest,
               !.count = IF over THEN link.nextCount ELSE @ - 1,
               !.nextCount = IF over THEN 0 ELSE @]
    /\ UNCHANGED <<sampling, req, pc, settings, dac, ref, cut, disturbed, mixed, edge>>

\* The converter executes something nobody asked for, or nothing.
Garbled ==
    /\ \E hit \in SUBSET Channels :
          dac' = [c \in Channels |-> IF c \in hit THEN Junk ELSE dac[c]]
    /\ ref' \in {ref, FALSE}

\* A whole frame: a command, then the two bytes of one word.
Execute(f) ==
    IF f[1] \in Channels /\ f[2] = f[3] /\ f[2] \in {"i0_dac", "sample"}
    THEN dac' = [dac EXCEPT ![f[1]] = f[2]] /\ ref' = ref
    ELSE IF f = <<"ref", "on", "on">>
    THEN ref' = TRUE /\ dac' = dac
    ELSE Garbled

\* One byte leaves the transmitter.
ShiftByte ==
    /\ link.wire # <<>>
    /\ LET taken == ~link.sync /\ Len(link.frame) < 3
           frame == IF taken THEN Append(link.frame, Head(link.wire)) ELSE link.frame
       IN  /\ link' = [link EXCEPT !.wire = Tail(@), !.frame = frame]
           /\ IF cut THEN Garbled
              ELSE IF taken /\ Len(frame) = 3 THEN Execute(frame)
              ELSE UNCHANGED <<dac, ref>>
    /\ UNCHANGED <<sampling, req, pc, settings, cut, disturbed, mixed, edge>>

-----------------------------------------------------------------------------
(* The sampling timer.                                                     *)

\* TC2_Handler, as far as the output sees it.
TC2_Handler ==
    /\ timer
    /\ LinkIdle \/ ~link.tick
    /\ link' = Launch(Sync(Point(Sync(link, TRUE), command[chan], "sample"), FALSE), TRUE)
    /\ chan' = Other(chan)
    /\ disturbed' = (disturbed \/ pc # "idle")
    /\ mixed' = (mixed \/ pc \notin {"idle", "ret"})
    /\ UNCHANGED <<timer, armed, req, pc, settings, dac, ref, cut, edge>>

\* main_sof_action at the frame the host asked for.
Sof ==
    /\ armed /\ pc = "idle"
    /\ timer' = TRUE /\ armed' = FALSE
    /\ UNCHANGED <<chan, req, pc, settings, link, dac, ref, cut, disturbed, mixed, edge>>

-----------------------------------------------------------------------------
(* The USB interrupt: one vendor request at a time.                        *)

\* main_setup_handle begins; the last tick's frame is over by then.
Begin(r, next) ==
    /\ pc = "idle" /\ LinkIdle
    /\ req' = r /\ pc' = next /\ disturbed' = FALSE
    /\ UNCHANGED <<link, dac, ref, cut, mixed, edge>>

\* set_mode (0x53): switch, sense and output pins; DISABLED also writes the DAC.
SetMode(r) ==
    /\ r.op = "mode" /\ Begin(r, IF r.mode = "DISABLED" THEN "dac_point" ELSE "ret")
    /\ mode' = [mode EXCEPT ![r.chan] = r.mode]
    /\ pins' = [pins EXCEPT ![r.chan] =
                   [swmode |-> IF r.mode = "SVMI" THEN "0" ELSE "1", sense |-> "0",
                    output |-> IF r.mode = "DISABLED" THEN "1" ELSE "0"]]
    /\ UNCHANGED <<sampling, command, pots>>

\* config_hardware (0xCC): the hot-swap controller is written over the TWI bus,
\* then the reference of the DAC is turned on.
ConfigHardware(r) ==
    /\ r.op = "config" /\ Begin(r, "dac_point")
    /\ UNCHANGED <<sampling, settings>>

\* write_ad5122 (0x59): two writes, each of which the chip may refuse; their
\* results are ignored.  A channel that is neither A nor B leaves the address
\* of the chip uninitialised.
WriteAd5122(r) ==
    /\ r.op = "pots" /\ Begin(r, "ret")
    /\ \E c \in IF r.chan \in Channels THEN {r.chan} ELSE Channels,
          done \in SUBSET {1, 2} :
          pots' = [pots EXCEPT ![c] =
                      <<IF 1 \in done THEN r.wipers[1] ELSE @[1],
                        IF 2 \in done THEN r.wipers[2] ELSE @[2]>>]
    /\ UNCHANGED <<sampling, command, mode, pins>>

\* Requests 0x50, 0x51 and 0x91 take any pin, drive it low or high or make it
\* an input: here a switch of a channel.
SetPin(r) ==
    /\ r.op = "pin" /\ Begin(r, "ret")
    /\ pins' = [pins EXCEPT ![r.chan][r.pin] = r.level]
    /\ UNCHANGED <<sampling, command, mode, pots>>

\* The same requests on N_SYNC or on another pin of the link.
TakePin(r) ==
    /\ r.op \in {"sync", "link"} /\ Begin(r, "pin")
    /\ UNCHANGED <<sampling, settings>>

\* Requests 0x24 and 0x25: the command byte a tick sends.
SetCommand(r) ==
    /\ r.op = "command" /\ Begin(r, "ret")
    /\ command' = [command EXCEPT ![r.chan] = r.byte]
    /\ UNCHANGED <<sampling, mode, pins, pots>>

\* Request 0xC5: stop, or start at a frame.
Sampling(r) ==
    /\ r.op \in {"start", "stop"} /\ Begin(r, "ret")
    /\ IF r.op = "stop" THEN timer' = FALSE /\ UNCHANGED <<armed, chan>>
                        ELSE armed' = TRUE /\ chan' = "A" /\ timer' = timer
    /\ UNCHANGED settings

Request == \E r \in Requests :
    \/ SetMode(r)  \/ ConfigHardware(r) \/ WriteAd5122(r)
    \/ SetPin(r)   \/ TakePin(r)        \/ SetCommand(r)   \/ Sampling(r)

-----------------------------------------------------------------------------
(* write_ad5663, between whose accesses a tick may come.                   *)

DacCommand == IF req.op = "mode" THEN req.chan ELSE "ref"
DacWord    == IF req.op = "mode" THEN "i0_dac" ELSE "on"

\* The handler passes from one step to the next.
Step(from, to) ==
    /\ pc = from /\ pc' = to
    /\ UNCHANGED <<sampling, req, settings, dac, ref, cut, disturbed, mixed>>

DacPoint ==
    /\ Step("dac_point", "dac_fall")
    /\ link' = Point(link, DacCommand, DacWord) /\ edge' = link.sync

\* Mutant: N_SYNC is not pulled low.
DacFallNot == Step("dac_fall", "dac_launch") /\ UNCHANGED <<link, edge>>

DacFall == Step("dac_fall", "dac_launch") /\ link' = Sync(link, FALSE) /\ edge' = edge

\* Mutant: two bytes are sent from the address of the command.
DacLaunchTwo ==
    /\ Step("dac_launch", "dac_wait")
    /\ link' = [Launch(link, FALSE) EXCEPT !.count = 2] /\ edge' = edge

DacLaunch == Step("dac_launch", "dac_wait") /\ link' = Launch(link, FALSE) /\ edge' = edge

DacWait == TxEmpty /\ Step("dac_wait", "dac_rise") /\ UNCHANGED <<link, edge>>
DacRise == Step("dac_rise", "ret") /\ link' = Sync(link, TRUE) /\ edge' = edge

\* The pin changes; a tick may have come since the request began.  N_SYNC
\* driven by the host obeys write_ad5663 and TC2_Handler again, as an input it
\* does not.
DrivePin ==
    /\ pc = "pin" /\ pc' = "ret"
    /\ IF req.op = "sync"
         THEN link' = Sync(link, req.level) /\ UNCHANGED <<dac, ref, cut>>
         ELSE cut' = TRUE /\ Garbled /\ link' = link
    /\ UNCHANGED <<sampling, req, settings, disturbed, mixed, edge>>

Return ==
    /\ pc = "ret" /\ pc' = "idle" /\ req' = NoReq
    /\ UNCHANGED <<sampling, settings, link, dac, ref, cut, disturbed, mixed, edge>>

Handler == DacPoint \/ DacFall \/ DacLaunch \/ DacWait \/ DacRise \/ DrivePin \/ Return
Pdc     == PdcLoad \/ ShiftByte

Next == Request \/ Handler \/ Pdc \/ TC2_Handler \/ Sof

Spec == Init /\ [][Next]_vars

-----------------------------------------------------------------------------
(* Properties.                                                             *)

\* What write_ad5663 was called for has reached the converter.
Landed == IF req.op = "mode" THEN dac[req.chan] = "i0_dac" ELSE ref

DacWrite ==
    /\ pc = "ret"
    /\ req.op = "config" \/ (req.op = "mode" /\ req.mode = "DISABLED")

\* A DAC write of a request no tick disturbs, begun with N_SYNC high, has
\* taken effect when write_ad5663 returns, whatever was streamed before and
\* however the host has driven N_SYNC, while the converter has its pins.
WriteLands == DacWrite /\ ~disturbed /\ edge /\ ~cut => Landed

\* The converter never executes anything but whole commands, and keeps its
\* reference, as long as it has its pins and no tick comes inside a DAC write or
\* a request for N_SYNC: in particular when writes, streams and such requests
\* alternate and N_SYNC is left low between them.
WholeCommands == ~mixed /\ ~cut => ref /\ \A c \in Channels : dac[c] # Junk
===========================================================================
