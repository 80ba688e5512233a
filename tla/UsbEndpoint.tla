---------------------------- MODULE UsbEndpoint ----------------------------
(***************************************************************************)
(* One bulk endpoint of udphs_device.c with its job, its DMA channel, its  *)
(* banks and the data toggle, and the host at the other end.  It is the    *)
(* driver as the vendor interface uses it: b_shortpacket is false, sizes   *)
(* are not zero, and an endpoint is halted only after its job was aborted, *)
(* so that the ZLP and the delayed stall of the driver are never reached.  *)
(*                                                                         *)
(* udd_ep_run is called by the main loop.  It tests the endpoint, takes    *)
(* the job with interrupts off, fills it in and starts its DMA, one step   *)
(* per access (Run...): control requests, a bus reset and the interrupt of *)
(* a DMA channel that an older job left running come between any two.      *)
(* Requests are further apart than udd_ep_run takes: of two, the second    *)
(* does not meet the job that the first found before it was taken.         *)
(***************************************************************************)
EXTENDS Integers, Sequences

CONSTANTS Sizes,      \* buf_size of a transfer
          Packet,     \* size of the endpoint
          Max,        \* UDD_ENDPOINT_MAX_TRANS
          Banks,      \* banks of the endpoint
          Word,       \* iram_size_t has the values 0 .. Word - 1
          MaxCalls    \* bound on the transfers

ASSUME EndpointAssumption ==
    /\ Sizes \subseteq Nat \ {0}
    /\ Packet \in Nat \ {0} /\ Max \in Nat \ {0} /\ Banks \in Nat \ {0}
    /\ MaxCalls \in Nat
    /\ Max % Packet = 0
    /\ Word \in Nat \ {0} /\ \A n \in Sizes : n + Max < Word

VARIABLES dir,        \* "in" or "out", for good
          enabled,    \* the endpoint is enabled
          stalled,    \* STALL handshake requested
          stallSent,  \* STALL_SNT: a packet has been stalled
          pc, arg, next,             \* udd_ep_run: the step it is at, the size it
                                     \* was called with, its next_trans
          busy, size, cnt, load,     \* udd_ep_job
          call,       \* whose call_trans is: of the transfer last taken ("own"),
                      \* an older one ("old"), or NULL ("none")
          on, left, irq, dmaInt,     \* DMA channel: CHANN_ENB, BUFF_COUNT, its
                                     \* interrupt and the enable of that
          bank,       \* lengths of the packets in the banks
          devToggle, hostToggle,
          \* History:
          moved,      \* bytes moved for the job
          calls, report,             \* callbacks so far, whose the last one was
                                     \* and its arguments
          torn,       \* the job was taken on a halted endpoint, or an interrupt
                      \* used it while udd_ep_run filled it in
          unmet       \* the host has cleared a halt it had not met, or none, and
                      \* no packet has been lost since

run    == <<pc, arg, next>>
job    == <<busy, size, cnt, load, call>>
dma    == <<on, left, irq, dmaInt>>
line   == <<dir, enabled, stalled, stallSent>>
called == <<calls, report>>
toggle == <<devToggle, hostToggle, unmet>>
vars   == <<line, run, job, dma, bank, moved, called, torn, toggle>>

\* Where the job is taken and udd_ep_run has not ended.
Filling == {"size", "cnt", "load", "call", "trans", "dma", "zlp", "end"}
RunAt   == {"idle", "take"} \cup Filling

Least(a, b) == IF a < b THEN a ELSE b

Wrap(n)     == n % Word

Init ==
    /\ dir \in {"in", "out"}
    /\ enabled = FALSE /\ stalled = FALSE /\ stallSent = FALSE
    /\ pc = "idle" /\ arg = 0 /\ next = 0
    /\ busy = FALSE /\ size = 0 /\ cnt = 0 /\ load = 0 /\ call = "none"
    /\ on = FALSE /\ left = 0 /\ irq = FALSE /\ dmaInt = FALSE
    /\ bank = <<>> /\ moved = 0 /\ calls = 0 /\ report = <<"none", "none", 0>>
    /\ devToggle = 0 /\ hostToggle = 0 /\ torn = FALSE /\ unmet = FALSE

---------------------------------------------------------------------------
\* An interrupt that uses the job tears the transfer udd_ep_run is filling in.
Tears == torn' = (torn \/ (busy /\ pc \in Filling))

\* The callback, if there is one.
Callback(status, n) ==
    IF call = "none" THEN UNCHANGED called
    ELSE calls' = calls + 1 /\ report' = <<call, status, n>>

\* udd_ep_finish_job for a busy job whose buf_size has become n.
FinishJob(status, n) ==
    busy' = FALSE /\ size' = n /\ moved' = 0 /\ Callback(status, n)

\* udd_ep_abort_job: nothing happens when no job is running.
AbortJob ==
    IF busy THEN FinishJob("abort", size) ELSE UNCHANGED <<busy, size, moved, called>>

\* Mutant: the rest is not cut to what one DMA transfer can move.
NextTransWhole(n, c) == Wrap(n - c)

NextTrans(n, c) == Least(Wrap(n - c), Max)

\* The BUFF_LENGTH field has room for Max - 1; 0 stands for Max.
BuffLength(n) == IF n % Max = 0 THEN Max ELSE n % Max

\* udd_ep_trans_done starts the DMA for the rest of a job of size n that has
\* c bytes behind it.  Reading the status clears the DMA interrupt.
StartDma(n, c) ==
    /\ c # n
    /\ on' = TRUE /\ left' = BuffLength(NextTrans(n, c))
    /\ irq' = FALSE /\ dmaInt' = TRUE
    /\ busy' = TRUE /\ size' = n
    /\ cnt' = Wrap(c + NextTrans(n, c)) /\ load' = NextTrans(n, c)
    /\ UNCHANGED <<moved, called, bank>>

\* udd_ep_trans_done finds END_TR_ST: a ZLP has come after the last DMA
\* transfer and is taken out of its bank.
ZlpFound == dir = "out" /\ bank # <<>> /\ Head(bank) = 0

\* In the interrupt, the job then ends with what it has.
EndByZlp(n, c) ==
    /\ c # n /\ ZlpFound
    /\ FinishJob("ok", c)
    /\ cnt' = c /\ irq' = FALSE /\ bank' = Tail(bank)
    /\ UNCHANGED load

---------------------------------------------------------------------------
(* udd_ep_run.  A pending DMA interrupt is served before it goes on.       *)

RunStep(from, to) ==
    /\ pc = from /\ ~(dmaInt /\ irq)
    /\ pc' = to
    /\ arg' = IF to = "idle" THEN 0 ELSE arg
    /\ next' = IF from = "trans" /\ to = "dma" THEN NextTrans(size, cnt)
               ELSE IF to = "idle" THEN 0 ELSE next
    /\ UNCHANGED <<line, toggle>>

\* The tests of the endpoint.  OUT transfers are of whole packets.
RunCheck(n) ==
    /\ pc = "idle" /\ pc' = "take" /\ arg' = n
    /\ enabled /\ ~stalled
    /\ calls < MaxCalls
    /\ dir = "out" => n % Packet = 0
    /\ UNCHANGED <<line, next, job, dma, bank, moved, called, torn, toggle>>

\* Interrupts off: the test of busy, and busy = true.  call_trans is then the
\* one of an older transfer.
RunTake ==
    /\ \/ busy /\ RunStep("take", "idle") /\ UNCHANGED <<busy, call, torn>>
       \/ /\ ~busy /\ RunStep("take", "size")
          /\ busy' = TRUE /\ torn' = stalled
          /\ call' = IF call = "none" THEN "none" ELSE "old"
    /\ UNCHANGED <<size, cnt, load, dma, bank, moved, called>>

\* Interrupts on: the stores to the job.
RunFill ==
    /\ \/ RunStep("size", "cnt") /\ size' = arg /\ UNCHANGED <<cnt, load, call>>
       \/ RunStep("cnt", "load") /\ cnt' = 0 /\ UNCHANGED <<size, load, call>>
       \/ RunStep("load", "call") /\ load' = 0 /\ UNCHANGED <<size, cnt, call>>
       \/ RunStep("call", "trans") /\ call' = "own" /\ UNCHANGED <<size, cnt, load>>
    /\ UNCHANGED <<busy, dma, bank, moved, called, torn>>

\* udd_ep_trans_done up to cpu_irq_save.
RunTrans ==
    /\ \/ ~busy /\ RunStep("trans", "idle")
       \/ busy /\ cnt # size /\ RunStep("trans", "dma")
       \/ busy /\ cnt = size /\ RunStep("trans", "end")
    /\ UNCHANGED <<job, dma, bank, moved, called, torn>>

\* Interrupts off: the DMA is started, or a ZLP found.
RunDma ==
    /\ irq' = FALSE
    /\ \/ /\ RunStep("dma", "idle")
          /\ on' = TRUE /\ left' = BuffLength(next) /\ dmaInt' = TRUE
          /\ cnt' = Wrap(cnt + next) /\ load' = next
          /\ UNCHANGED bank
       \/ /\ ZlpFound /\ RunStep("dma", "zlp")
          /\ bank' = Tail(bank)
          /\ UNCHANGED <<cnt, load, on, left, dmaInt>>
    /\ UNCHANGED <<busy, size, call, moved, called, torn>>

\* After the ZLP: buf_size, and udd_ep_finish_job up to its test.
RunZlp ==
    /\ RunStep("zlp", IF busy THEN "end" ELSE "idle")
    /\ size' = cnt
    /\ UNCHANGED <<busy, cnt, load, call, dma, bank, moved, called, torn>>

\* The rest of udd_ep_finish_job.
RunEnd ==
    /\ RunStep("end", "idle")
    /\ FinishJob("ok", size)
    /\ UNCHANGED <<cnt, load, call, dma, bank, torn>>

Run == RunTake \/ RunFill \/ RunTrans \/ RunDma \/ RunZlp \/ RunEnd

---------------------------------------------------------------------------
(* The interrupt of the DMA channel.                                       *)

\* Mutant: the bytes the DMA did not transfer are not taken off.
CountedAll == cnt

\* The bytes udd_ep_interrupt takes as transferred after a short packet.
Counted == Wrap(cnt - left)

\* Mutant: only a DMA transfer that is complete is taken as ended.
DmaEventComplete == dmaInt /\ irq /\ left = 0

\* A DMA event to serve; the channel it comes from has ended (TypeOK).
DmaEvent == dmaInt /\ irq

\* udd_ep_interrupt: the DMA event.
Isr ==
    /\ DmaEvent
    /\ LET c == IF left > 0 THEN Counted ELSE cnt
           n == IF left > 0 THEN Counted ELSE size
       IN  \/ /\ ~busy                 \* udd_ep_trans_done ignores it
              /\ size' = n /\ cnt' = c
              /\ irq' = FALSE /\ dmaInt' = FALSE
              /\ UNCHANGED <<busy, load, on, left, bank, moved, called>>
           \/ busy /\ StartDma(n, c)
           \/ /\ busy /\ EndByZlp(n, c)
              /\ dmaInt' = FALSE /\ UNCHANGED <<on, left>>
           \/ /\ busy /\ c = n /\ FinishJob("ok", n)
              /\ cnt' = c /\ irq' = FALSE /\ dmaInt' = FALSE
              /\ UNCHANGED <<load, on, left, bank>>
    /\ Tears
    /\ UNCHANGED <<line, run, call, toggle>>

---------------------------------------------------------------------------
(* Control requests and the bus reset, served in the USB interrupt.        *)

\* udd_ep_alloc; a job found running is started again.
Alloc ==
    /\ ~enabled /\ enabled' = TRUE
    /\ busy => pc \notin Filling
    /\ devToggle' = 0 /\ hostToggle' = 0 /\ unmet' = FALSE
    /\ IF busy THEN StartDma(Wrap(size - (cnt - load)), 0)
               ELSE UNCHANGED <<busy, size, cnt, load, dma, bank, moved, called>>
    /\ UNCHANGED <<dir, stalled, stallSent, run, call, torn>>

\* What udd_ep_free and the bus reset share: the DMA is not stopped.
Disable ==
    /\ enabled' = FALSE /\ stalled' = FALSE /\ stallSent' = FALSE
    /\ bank' = <<>>
    /\ AbortJob /\ Tears
    /\ UNCHANGED <<dir, run, cnt, load, call, dma, toggle>>

Free == enabled /\ Disable

BusReset == Disable

\* SET_FEATURE(ENDPOINT_HALT): udd_ep_abort, then udd_ep_set_halt.
SetHalt ==
    /\ enabled
    /\ on' = FALSE
    /\ bank' = IF dir = "in" THEN <<>> ELSE bank
    /\ AbortJob /\ Tears
    /\ stalled' = TRUE /\ stallSent' = (stalled /\ stallSent)
    /\ UNCHANGED <<dir, enabled, run, cnt, load, call, left, irq, dmaInt, toggle>>

\* Mutant: the data toggle is not reset.
ClearHaltKeepsToggle ==
    /\ enabled
    /\ stalled' = FALSE /\ stallSent' = FALSE
    /\ hostToggle' = 0 /\ unmet' = ~(stalled /\ stallSent)
    /\ UNCHANGED <<dir, enabled, run, job, dma, bank, moved, called, torn, devToggle>>

\* CLEAR_FEATURE(ENDPOINT_HALT): udd_ep_clear_halt, whether the host has met a
\* halt or not.  A busy job is taken for one that waits for the end of the
\* halt: its callback is called as one without arguments.
ClearHalt ==
    /\ enabled
    /\ stalled /\ busy => pc \notin Filling
    /\ stalled' = FALSE /\ stallSent' = FALSE
    /\ devToggle' = IF stalled /\ stallSent THEN 0 ELSE devToggle
    /\ hostToggle' = 0 /\ unmet' = ~(stalled /\ stallSent)
    /\ IF stalled /\ busy THEN busy' = FALSE /\ moved' = 0 /\ Callback("nohalt", 0)
                          ELSE UNCHANGED <<busy, moved, called>>
    /\ UNCHANGED <<dir, enabled, run, size, cnt, load, call, dma, bank, torn>>

---------------------------------------------------------------------------
(* The DMA channel, the banks and the host.                                *)

\* The DMA has moved k bytes; short: a packet smaller than the endpoint ends
\* the transfer.
Move(k, short) ==
    LET ends == short \/ left = k
    IN  /\ left' = left - k
        /\ on' = ~ends /\ irq' = (irq \/ ends)
        /\ moved' = IF busy /\ pc \notin Filling /\ ~torn THEN moved + k ELSE moved
        /\ UNCHANGED <<line, run, job, dmaInt, called, torn, toggle>>

DmaIn ==
    /\ dir = "in" /\ on /\ enabled /\ ~stalled /\ Len(bank) < Banks
    /\ bank' = Append(bank, Least(Packet, left))
    /\ Move(Least(Packet, left), FALSE)

\* The DMA stays within its buffer; a packet fits, Max and the size being whole packets.
DmaOut ==
    /\ dir = "out" /\ on /\ enabled /\ ~stalled /\ bank # <<>>
    /\ bank' = Tail(bank)
    /\ Move(Least(Head(bank), left), Head(bank) < Packet)

\* A packet with the wrong data toggle is acknowledged and thrown away, by the
\* device (HostSend) or by the host (HostTake).
HostSend(k) ==
    /\ dir = "out" /\ enabled /\ ~stalled /\ Len(bank) < Banks
    /\ hostToggle' = 1 - hostToggle
    /\ IF devToggle = hostToggle
       THEN devToggle' = 1 - devToggle /\ bank' = Append(bank, k)
       ELSE UNCHANGED <<devToggle, bank>>
    /\ unmet' = (unmet /\ devToggle = hostToggle)
    /\ UNCHANGED <<line, run, job, dma, moved, called, torn>>

HostTake ==
    /\ dir = "in" /\ enabled /\ ~stalled /\ bank # <<>>
    /\ bank' = Tail(bank)
    /\ devToggle' = 1 - devToggle
    /\ hostToggle' = IF devToggle = hostToggle THEN 1 - hostToggle ELSE hostToggle
    /\ unmet' = (unmet /\ devToggle = hostToggle)
    /\ UNCHANGED <<line, run, job, dma, moved, called, torn>>

HostMeetsStall ==
    /\ enabled /\ stalled /\ ~stallSent
    /\ stallSent' = TRUE
    /\ UNCHANGED <<dir, enabled, stalled, run, job, dma, bank, moved, called, torn, toggle>>

---------------------------------------------------------------------------
Next ==
    \/ \E n \in Sizes : RunCheck(n)
    \/ Run \/ Isr
    \/ Alloc \/ Free \/ BusReset \/ SetHalt \/ ClearHalt
    \/ DmaIn \/ DmaOut \/ HostTake \/ HostMeetsStall
    \/ \E k \in 0 .. Packet : HostSend(k)

Spec == Init /\ [][Next]_vars

\* The processor and the DMA run on, and the host goes on with its pipe.
Fairness ==
    /\ WF_vars(Run) /\ WF_vars(Isr) /\ WF_vars(DmaIn) /\ WF_vars(DmaOut)
    /\ WF_vars(HostTake) /\ WF_vars(\E k \in 0 .. Packet : HostSend(k))

FairSpec == Spec /\ Fairness

---------------------------------------------------------------------------
TypeOK ==
    /\ dir \in {"in", "out"}
    /\ {enabled, stalled, stallSent, busy, on, irq, dmaInt, torn, unmet} \subseteq BOOLEAN
    /\ pc \in RunAt /\ arg \in Sizes \cup {0} /\ next \in 0 .. Max
    /\ size \in 0 .. Word - 1 /\ cnt \in 0 .. Word - 1
    /\ load \in 0 .. Max /\ left \in 0 .. Max
    /\ call \in {"none", "old", "own"}
    /\ irq => ~on          \* no interrupt is ignored for the running channel
    /\ busy /\ pc \notin Filling /\ ~torn => cnt <= size /\ left <= load /\ load <= cnt
    /\ bank \in Seq(0 .. Packet) /\ Len(bank) <= Banks
    /\ moved \in Nat /\ calls \in Nat
    /\ devToggle \in {0, 1} /\ hostToggle \in {0, 1}

Phase ==
    IF pc \in Filling THEN IF torn THEN "torn" ELSE "setup"
    ELSE IF ~busy THEN "idle" ELSE IF torn THEN "torn" ELSE "run"

Job == INSTANCE BulkJob WITH
           phase <- Phase,
           want  <- IF Phase = "run" THEN size ELSE 0,
           moved <- IF Phase = "run" THEN moved ELSE 0

\* The driver implements BulkJob: every transfer that was accepted is answered
\* by one call of its own callback, with what the DMA has moved, whatever
\* requests, resets and stale DMA interrupts come while it runs or came before.
\* Only a transfer that one of them hits inside udd_ep_run is torn, and it does
\* not harm the next (udd_ep_run, udd_ep_trans_done, udd_ep_interrupt).
ImplementsJob == Job!JobSpec

\* The host and the endpoint agree on the next data toggle through halts, resets
\* and changes of the setting.  A halt that the host clears without having met it
\* leaves the toggle of the device as it is; that costs one packet at most, and
\* the two agree again (udd_ep_clear_halt, udd_ep_set_halt, udd_ep_alloc).
ToggleInSync == enabled /\ ~unmet => devToggle = hostToggle

\* The chain of DMA transfers of udd_ep_trans_done never breaks off: once
\* udd_ep_run is through, a job that runs, be it torn, has its DMA interrupt
\* enabled, and the channel has bytes to move or has raised it, whatever was
\* halted, freed, aborted or restarted before.
JobBacked == busy /\ pc \notin Filling => dmaInt /\ (irq \/ (on /\ left > 0))

\* A transfer that runs is backed, and on an endpoint in service it is answered
\* as long as the host keeps using the pipe, though a halt was cleared that was
\* not met: only a host that clears halts for ever keeps a transfer waiting
\* (udd_ep_trans_done, udd_ep_alloc, udd_ep_clear_halt).
JobAnswered ==
    /\ []JobBacked
    /\ \/ (busy /\ enabled) ~> (~busy \/ ~enabled \/ stalled)
       \/ []<><<ClearHalt>>_vars
============================================================================
