---------------------------- MODULE AnalogInput ----------------------------
(***************************************************************************)
(* The inputs of the analog front end (main.c): the two AD7682 converters  *)
(* behind USART1 and USART2 and the pin CNV.                               *)
(*                                                                         *)
(* TC2_Handler reads both converters at every tick of the sampling timer,  *)
(* which drives CNV.  Request 0x19 reads one of them from the USB          *)
(* interrupt, which a tick preempts between any two accesses, and drives   *)
(* CNV, the pin of both, by hand.  The bytes of a transfer go on by        *)
(* themselves, one by one; those of a tick are over when the timer starts  *)
(* the next conversion.                                                    *)
(***************************************************************************)
EXTENDS Naturals

CONSTANTS Requests,    \* the vendor requests the host uses
          Converters   \* those that are followed of "A" and "B", behind USART1 and USART2

Channels == {"A", "B"}
Other(c) == IF c = "A" THEN "B" ELSE "A"

\* The configuration words, which name the four slots of a sample as well.
Slots == {"v1_adc_conf", "i1_adc_conf", "v2_adc_conf", "i2_adc_conf"}
Temp  == "temperature"
Junk  == "junk"              \* no configuration: a buffer already sent, a torn word

\* Requests 0x20 to 0x23 each name a slot; 0x19 uses the lowest bit of wValue;
\* the pin requests name CNV or a pin of the link to one of the converters.
ASSUME RequestsAssumption ==
    \A r \in Requests : /\ r.op = "conf" => r.name \in Slots
                        /\ r.op = "temperature" => r.chan \in Converters
                        /\ r.op = "pin" => r.pin \in Converters \cup {"CNV"}

ASSUME ConvertersAssumption == Converters \subseteq Channels

VARIABLES
    timer,           \* TC2 runs
    line,            \* TIOB2, which is CNV unless the handler holds the pin
    chan,            \* current_chan
    req, pc,         \* the request being handled and the handler's step
    pass, call,      \* iteration of get_sample_ad7682, and which call of it
    conf,            \* the configuration word of each slot
    adc,             \* the USARTs with their PDC and their converter
    cnv,             \* who drives CNV: "timer", "pio" or "host"
    cut,             \* the converters the host has taken a pin of the link from
    ret_data,        \* what the reply to the host holds
    disturbed,       \* a tick's transfers met the handling of the last request
    calm             \* ticks since a request last used or configured a converter

sampling == <<timer, line, chan>>
handler  == <<req, pc, pass, call>>
vars == <<sampling, handler, conf, adc, cnv, cut, ret_data, disturbed, calm>>

NoReq == [op |-> "none"]

\* The configuration get_sample_ad7682 is given to restore a converter.
Usual(c) == IF c = "A" THEN "v1_adc_conf" ELSE "v2_adc_conf"

\* A configuration is two bytes, <<w, 1>> and <<w, 2>>; other pairs are none.
Word(b1, b2) == IF b1 = <<b2[1], 1>> /\ b2[2] = 2 THEN b2[1] ELSE Junk
Stray        == <<Junk, 1>>
None         == <<"none", 0>>
Taken        == <<"taken", 0>>

\* What init_hardware leaves behind.
Init ==
    /\ timer = FALSE /\ line = FALSE /\ chan = "A"
    /\ req = NoReq /\ pc = "idle" /\ pass = 0 /\ call = 0
    /\ conf = [w \in Slots |-> w]
    /\ adc = [c \in Converters |->
                 [tp |-> Junk, word |-> Junk, left |-> 0, tick |-> FALSE,
                  rp |-> "beyond", got |-> None, rcr |-> 0, full |-> FALSE,
                  out |-> Usual(c), acq |-> Usual(c), reg |-> Usual(c), din |-> Taken,
                  right |-> TRUE]]
    /\ cnv = "timer" /\ cut = {} /\ ret_data = "old"
    /\ disturbed = FALSE /\ calm = 0

-----------------------------------------------------------------------------
(* A USART and its PDC.  tp is the word US_TPR points to, word and left    *)
(* the bytes on their way out, two of which the transmitter holds already. *)
(* rp is where US_RPR points, got the first byte of a word that arrived    *)
(* there, right says that the last sample was taken with the configuration *)
(* of its slot.  rcr is US_RCR, and full says that US_RHR holds a byte     *)
(* nobody asked for: of a USART out of step by such a byte only the counts *)
(* are followed.                                                           *)

\* The receiver hands a byte to memory.
Store(a, b) ==
    IF a.got = None
      THEN [a EXCEPT !.rcr = a.rcr - 1, !.got = b]
      ELSE [a EXCEPT !.rcr = a.rcr - 1, !.got = None, !.rp = "beyond",
                     !.right = IF a.rp \in Slots THEN Word(a.got, b) = conf[a.rp] ELSE a.right]

WriteTpr(a, w) == [a EXCEPT !.tp = w]
WriteRpr(a, t) == [a EXCEPT !.rp = t, !.got = None]

\* A byte waiting in US_RHR is taken at once.
WriteRcr(a) == IF a.full THEN Store([a EXCEPT !.rcr = 2, !.full = FALSE], Stray)
                         ELSE [a EXCEPT !.rcr = 2]

\* What the transmitter holds already is still sent.
WriteTcr(a, tick) ==
    LET left == (IF a.left > 2 THEN 2 ELSE a.left) + 2
    IN  IF left > a.rcr
          THEN [a EXCEPT !.word = Junk, !.left = left, !.tp = Junk, !.tick = tick,
                         !.rp = "beyond", !.out = Junk, !.acq = Junk, !.reg = Junk,
                         !.din = Taken, !.right = FALSE]
          ELSE [a EXCEPT !.word = a.tp, !.left = left, !.tp = Junk, !.tick = tick]

EndRx(c) == adc[c].rcr = 0
AtRest   == \A c \in Converters : adc[c].left = 0
Quiet    == \A c \in Converters : ~adc[c].tick

(* The AD7682: out is the configuration of the word being read, acq of the *)
(* one being acquired, and reg the register, to which the first two bytes  *)
(* after a rising edge of CNV are written; din is what came of them.       *)
Convert(a) == [a EXCEPT !.out = a.acq, !.acq = a.reg, !.din = None]

\* The byte the converter is sent and the one it sends meanwhile.
Sent(a)   == <<a.word, IF a.left = 2 THEN 1 ELSE 2>>
Answer(a) == IF a.left > a.rcr \/ a.din = Taken THEN Stray
             ELSE <<a.out, IF a.din = None THEN 1 ELSE 2>>

Exchanged(a) ==
    [a EXCEPT !.left = a.left - 1, !.tick = (a.tick /\ a.left > 1),
              !.din  = IF a.din = None THEN Sent(a) ELSE Taken,
              !.reg  = IF a.din \in {None, Taken} THEN a.reg ELSE Word(a.din, Sent(a))]

\* One more byte than was asked for stays in US_RHR.
Received(a) == IF a.rcr > 0 THEN Store(Exchanged(a), Answer(a))
                            ELSE [Exchanged(a) EXCEPT !.full = TRUE]

\* A converter that is cut off takes nothing and sends nothing.
Lost(a) == [a EXCEPT !.out = Junk, !.acq = Junk, !.reg = Junk, !.right = FALSE]

\* A byte is exchanged on the USART of converter c.
AdcTransfer(c) ==
    /\ adc[c].left > 0
    /\ adc' = [adc EXCEPT ![c] = IF c \in cut THEN Lost(Received(adc[c]))
                                              ELSE Received(adc[c])]
    /\ ret_data' = LET a == adc[c]
                   IN  IF a.rcr > 0 /\ a.rp = "ret_data" /\ a.got # None
                         THEN IF c \in cut THEN Junk ELSE Word(a.got, Answer(a))
                         ELSE ret_data
    /\ UNCHANGED <<sampling, handler, conf, cnv, cut, disturbed, calm>>

-----------------------------------------------------------------------------
(* The sampling timer.                                                     *)

\* The slots of the sample a tick fills, one from each converter.
TickSlots(c) == IF c = "A" THEN [A |-> "v1_adc_conf", B |-> "v2_adc_conf"]
                           ELSE [A |-> "i1_adc_conf", B |-> "i2_adc_conf"]

\* Mutant: every tick sends the configurations of the first two slots.
TickWordsSame(c) == [d \in Converters |-> conf[TickSlots("A")[d]]]

\* The configurations a tick sends.
TickWords(c) == [d \in Converters |-> conf[TickSlots(c)[d]]]

\* The accesses of TC2_Handler to a USART, with word w and target t.
Sampled(a, w, t) == WriteTcr(WriteRcr(WriteRpr(WriteTpr(a, w), t)), TRUE)

\* RB takes CNV from low to high: both converters start a conversion.
CompareRb ==
    /\ timer /\ ~line /\ Quiet
    /\ line' = TRUE
    /\ adc' = IF cnv = "timer" THEN [c \in Converters |-> Convert(adc[c])] ELSE adc
    /\ UNCHANGED <<timer, chan, handler, conf, cnv, cut, ret_data, disturbed, calm>>

\* RC takes it low, and TC2_Handler reads them.
TC2_Handler ==
    /\ timer /\ line /\ Quiet
    /\ adc' = [c \in Converters |-> Sampled(adc[c], TickWords(chan)[c], TickSlots(chan)[c])]
    /\ line' = FALSE /\ chan' = Other(chan)
    /\ disturbed' = (disturbed \/ pc # "idle")
    /\ calm' = IF cnv # "timer" THEN 0 ELSE IF calm < 4 THEN calm + 1 ELSE 4
    /\ UNCHANGED <<timer, handler, conf, cnv, cut, ret_data>>

\* main_sof_action starts the timer, at any frame.  (What arms it is in
\* Streaming.)
Sof ==
    /\ pc = "idle"
    /\ timer' = TRUE
    /\ UNCHANGED <<line, chan, handler, conf, adc, cnv, cut, ret_data, disturbed, calm>>

-----------------------------------------------------------------------------
(* The USB interrupt: one vendor request at a time.                        *)

\* main_setup_handle begins.
Begin(r, next) ==
    /\ pc = "idle"
    /\ req' = r /\ pc' = next /\ disturbed' = ~AtRest

\* Requests 0x20 to 0x23.
SetConf(r) ==
    /\ r.op = "conf" /\ Begin(r, "ret")
    /\ conf' = [conf EXCEPT ![r.name] = r.word]
    /\ calm' = 0
    /\ UNCHANGED <<sampling, pass, call, adc, cnv, cut, ret_data>>

\* Request 0xC5: stop, or start again with channel A.
Sampling(r) ==
    /\ r.op \in {"start", "stop"} /\ Begin(r, "ret")
    /\ IF r.op = "stop" THEN timer' = FALSE /\ UNCHANGED <<line, chan>>
                        ELSE chan' = "A" /\ UNCHANGED <<timer, line>>
    /\ calm' = 0
    /\ UNCHANGED <<pass, call, conf, adc, cnv, cut, ret_data>>

\* Request 0x19: two calls of get_sample_ad7682 for the temperature, one to
\* give the converter its usual configuration back.
Temperature(r) ==
    /\ r.op = "temperature" /\ Begin(r, "adc_take")
    /\ pass' = 1 /\ call' = 1
    /\ UNCHANGED <<sampling, conf, adc, cnv, cut, ret_data, calm>>

\* Requests 0x50, 0x51 and 0x91 take the pin from the peripheral.  CNV rises
\* if it was low; request 0x19 gives it back, the others nobody does.
SetPin(r) ==
    /\ r.op = "pin" /\ Begin(r, "ret")
    /\ calm' = 0
    /\ IF r.pin = "CNV"
         THEN /\ cnv' = "host" /\ cut' = cut
              /\ adc' \in {adc, [c \in Converters |-> Convert(adc[c])]}
         ELSE cut' = cut \cup {r.pin} /\ UNCHANGED <<adc, cnv>>
    /\ UNCHANGED <<sampling, pass, call, conf, ret_data>>

Request == \E r \in Requests :
    SetConf(r) \/ Sampling(r) \/ Temperature(r) \/ SetPin(r)

\* The reply is sent; ret_data is free for the next request.
Return ==
    /\ pc = "ret"
    /\ req' = NoReq /\ pc' = "idle" /\ pass' = 0 /\ call' = 0
    /\ ret_data' = "old" /\ disturbed' = FALSE
    /\ UNCHANGED <<sampling, conf, adc, cnv, cut, calm>>

-----------------------------------------------------------------------------
(* get_sample_ad7682: three conversions, CNV driven by hand.               *)

\* The handler passes from one step to the next.
Step(from, to) ==
    /\ pc = from /\ pc' = to
    /\ calm' = 0
    /\ UNCHANGED <<sampling, req, conf, cut, ret_data, disturbed>>

\* One access to the USART of its converter.
Access(from, to, a) ==
    /\ Step(from, to)
    /\ adc' = [adc EXCEPT ![req.chan] = a]
    /\ UNCHANGED <<pass, call, cnv>>

SampleTarget == IF call < 3 THEN "ret_data" ELSE "dummy"
SampleWord   == IF call < 3 THEN Temp ELSE Usual(req.chan)

AdcTake ==
    /\ Step("adc_take", "adc_cnv")
    /\ cnv' = "pio" /\ UNCHANGED <<pass, call, adc>>

AdcCnv ==
    /\ Step("adc_cnv", "adc_tpr")
    /\ adc' = [c \in Converters |-> Convert(adc[c])]
    /\ UNCHANGED <<pass, call, cnv>>

AdcTpr == Access("adc_tpr", "adc_rpr", WriteTpr(adc[req.chan], SampleWord))
AdcRpr == Access("adc_rpr", "adc_rcr", WriteRpr(adc[req.chan], SampleTarget))
AdcRcr == Access("adc_rcr", "adc_tcr", WriteRcr(adc[req.chan]))
AdcTcr == Access("adc_tcr", "adc_wait", WriteTcr(adc[req.chan], FALSE))

\* Mutant: the usual configuration is not restored.
CallsTwo == 2

Calls == 3

\* Mutant: the conversions are not counted.
AdcWaitUncounted ==
    /\ pc = "adc_wait" /\ EndRx(req.chan)
    /\ Step("adc_wait", "adc_cnv") /\ UNCHANGED <<pass, call, cnv, adc>>

\* The loops of get_sample_ad7682 and the calls of request 0x19.  The pin
\* rises with its release if the timer's line is high.
AdcWait ==
    /\ pc = "adc_wait" /\ EndRx(req.chan)
    /\ IF pass < 3
         THEN /\ Step("adc_wait", "adc_cnv") /\ pass' = pass + 1
              /\ UNCHANGED <<call, cnv, adc>>
         ELSE /\ Step("adc_wait", IF call < Calls THEN "adc_take" ELSE "ret")
              /\ cnv' = "timer" /\ pass' = 1
              /\ call' = IF call < Calls THEN call + 1 ELSE call
              /\ adc' = IF line THEN [c \in Converters |-> Convert(adc[c])] ELSE adc

Handler == AdcTake \/ AdcCnv \/ AdcTpr \/ AdcRpr \/ AdcRcr \/ AdcTcr \/ AdcWait \/ Return
Pdc     == \E c \in Converters : AdcTransfer(c)

Next == Request \/ Handler \/ Pdc \/ CompareRb \/ TC2_Handler \/ Sof

\* The interrupt goes on between ticks, and its waiting loop polls faster than
\* ticks come: a condition that is true again and again is seen.
Spec == Init /\ [][Next]_vars /\ SF_vars(Handler) /\ WF_vars(Pdc)

-----------------------------------------------------------------------------
(* Properties.                                                             *)

\* More bytes come in than were asked for.  This is what a tick leaves behind
\* that meets a transfer of request 0x19; nothing reads US_RHR, so the byte
\* shifts every transfer of the USART from then on.
Surplus(c) ==
    \/ adc[c].full
    \/ adc[c].left + (IF pc = "adc_tcr" /\ req.chan = c THEN 2 ELSE 0) > adc[c].rcr

TemperatureOver ==
    /\ pc = "ret" /\ req.op = "temperature" /\ ~disturbed
    /\ ~Surplus(req.chan) /\ req.chan \notin cut

\* A temperature request no tick disturbs replies with a temperature, whatever
\* was converted before it, unless an earlier one left a surplus byte or the
\* converter is cut off.
TemperatureRead == TemperatureOver => ret_data = Temp

\* It leaves its converter with none but usual configurations pending and
\* the timer in command of CNV.
AdcReady == TemperatureOver =>
    /\ cnv = "timer"
    /\ Temp \notin {adc[req.chan].out, adc[req.chan].acq, adc[req.chan].reg}

\* Request 0x19 as a whole.
TemperatureServed == TemperatureRead /\ AdcReady

\* Two rounds of ticks after any request that used or configured a converter,
\* in the middle of a stream too, every sample was taken with the
\* configuration of the slot it is stored in, on each USART that has no
\* surplus byte and all its pins.
SlotsMatch ==
    calm = 4 => \A c \in Converters \ cut :
        ~Surplus(c) => adc[c].right

\* The loops that wait for ENDRX end, whatever the timer does.
Served == pc # "idle" ~> pc = "idle"
===========================================================================
