# TLA+ model of the ADALM1000 (M1K) firmware

The firmware in `src/` turns a SAM3U2C into a two-channel source-measure unit
on a USB high-speed bus.  This directory models its control logic in TLA+: the
application (`src/src/main.c`), the USB device stack, the flash service, the
TWI driver and the clock start-up it is built on (`src/asf/...`).  TLC checks
the modules on small instances, TLAPS proves the theorems of `*Proofs.tla` for
all values of the constants.

## 1. Inventory

### Execution contexts

| context | priority | code |
|---|---|---|
| `TC2_Handler` | 0, preempts everything | programs the ADC and DAC PDC for one sample slot, moves the slot offsets, raises `send_in` and `send_out` |
| `UDPHS_Handler` | 1, preempts the main loop | start of frame, control requests, bulk DMA completion, bus reset, halt |
| main loop | thread | hands complete packets to the bulk endpoints, restarts the watchdog |

Nothing but `cpu_irq_save` in `udd_ep_run` protects the state these share.

### Components

| component | state | operations | interacts with |
|---|---|---|---|
| Streaming engine (`main.c`) | slot offsets, packet indices, `send_*`, `sending_*`, `sent_out`, `start_timer`, `start_frame`, TC0 channel 2 | `TC2_Handler`, `main_sof_action`, request 0xC5, the bulk callbacks, the main loop | bulk endpoints, USARTs' PDC |
| Bulk endpoints (`udphs_device.c`) | `udd_ep_job[]`, DMA channels, stall bits, data toggle | `udd_ep_alloc/free/run/abort/set_halt/clear_halt`, DMA interrupt | streaming engine, control endpoint |
| Control endpoint (`udphs_device.c`) | `udd_ep_control_state`, `udd_g_ctrlreq`, payload counters | setup, IN sent, OUT received, underflow, overflow, ZLPs, end of request | UDC core, `main_setup_handle` |
| USB line events and peripheral clock (`udphs_device.c`) | interrupt enables, the clock of the UDPHS | attach, bus reset, suspend, wake-up | UDC core, main loop |
| UDC core and vendor interface (`udc.c`, `udi_vendor.c`) | address, configuration, alternate setting, `main_b_vendor_enable`, type byte of the descriptors | standard requests, interface enable and disable, reset | endpoints, control endpoint |
| Vendor requests (`main_setup_handle`) | front-end configuration, `reset`, `flash_table`, `serial_number` | requests 0x02 ... 0xEE | flash, TWI, SPI, streaming engine |
| Calibration table and serial number (`store_flash_table`, `flash_efc.c`, `efc.c`) | the last flash page, lock bits, `flash_table`, `serial_number` | unlock, write, lock, read, unique id | vendor requests, start-up, ticks |
| Analog front end (`set_mode`, `config_hardware`, `write_ad5122`, `write_ad5663`, `get_sample_ad7682`) | pins, potentiometers, DAC registers, ADC configuration, N_SYNC, CNV | per-mode switching, DAC writes, temperature readings | its USARTs are shared with `TC2_Handler` |
| TWI driver (`twi.c`) | status register, byte counters | `twi_master_write`, `twi_master_read` | front end, hot-swap controller, start-up |
| Start-up, watchdog, reset to boot loader (`main`, 0xBB, `wdt.c`) | `reset`, the watchdog, GPNVM bit 1 | initialisation order, detach and wait for the watchdog | all |
| Clocks at start-up (`sysclk.c`, `pmc.c`, `osc.h`, `pll.h`) | oscillator, PLLs, master clock, flash wait states, `SystemCoreClock` | `sysclk_init`, `sysclk_enable_usb`, `sysclk_disable_usb` | start-up, USB |
| Register drivers, CMSIS, descriptors, host scripts | registers | | |

### What is hard

* A tick of `TC2_Handler` can fall between any two instructions of the 0xC5
  reset, of the main loop, of a DAC write and of an ADC reading; it uses the
  same variables, USARTs and pins.
* `main_sof_action` starts the timer later than the request that armed it; a
  stop request in between does not disarm it.
* The main loop announces a transfer (`sending_* = true`) before
  `udd_ep_run` accepts it, ignores a refusal, and a callback with status ABORT
  does not clear the flag.
* `udd_ep_run` marks a job busy with interrupts off but tests the endpoint and
  fills the job in with interrupts on.  `udd_ep_free` ends a job without
  stopping its DMA channel.
* A SETUP packet can arrive before the control endpoint's interrupt has seen
  the end of the previous request, and the NAK status bits and the static
  `b_shortpacket` outlive their request.
* Suspend and wake-up flags change while the handler removes them, and the
  main loop runs on while the peripheral has no clock.
* SET_INTERFACE and SET_CONFIGURATION disable what they replace before they
  know whether the replacement can be enabled.
* The only copy of the calibration page is rewritten in place; a power cut or
  an error return loses it or leaves it unlocked.  While the unique id is read
  the flash does not read as code.
* `twi_master_write` waits without a timeout, in an interrupt: only the
  watchdog ends it.  The waits of `sysclk_init` come before the watchdog is set
  up at all.
* The processor reconfigures the clock it runs from.

### What makes each component correct

* Streaming: the ADC and the DAC keep their distance and their buffers; the
  DMA and the PDC never share a slot; no packet is lost or replayed as long as
  the host keeps up; a stop is final; a start gets going; no flag is stuck.
* Bulk endpoints: a transfer that was accepted ends in one call of its
  callback, with what was moved; both ends agree on the data toggle.
* Control endpoint: a request moves its whole payload, its callback runs once
  and after the status stage, nothing of one request leaks into the next, and
  the host is always answered.
* Line events: no suspension and no resume goes unnoticed, and the stream
  survives the ones it can.
* UDC core: the application is enabled exactly while the setting is in place
  with both its endpoints; a descriptor is the one asked for.
* Calibration table: what the host wrote and did not see fail is there after a
  power cycle, the serial number and the lock bit are right at rest, the
  program is never touched.
* Front end: an undisturbed write or reading takes effect, and a stream
  recovers from a disturbed one.
* TWI: a transfer is exact or reported as failed, a read comes to an end.
* Start-up and reset: every hang ends in a restart, 0xBB ends in the boot
  loader, the processor never runs without a clock or too fast for its flash.

## 2. Modules

| module | models | composes |
|---|---|---|
| `Streaming` | streaming engine | tick, USB interrupt, main loop, and the bulk endpoints as it uses them |
| `ControlTransfer` | what `udd.h` promises of a control request | abstract specification |
| `UsbControl` | control endpoint | driver, endpoint hardware and host; implements `ControlTransfer` |
| `BulkJob` | what `udd.h` promises of a transfer | abstract specification |
| `UsbEndpoint` | bulk endpoint | driver, DMA channel and host; implements `BulkJob` |
| `UdcCore` | UDC core and vendor interface | |
| `UsbLine` | line events and peripheral clock | `UdcCore` with the interrupt handler, the bus and the IN half of the main loop |
| `FlashService` | flash service and controller | |
| `FlashTable` | calibration table and serial number | `FlashService` with the requests, start-up, ticks and power |
| `AnalogOutput`, `AnalogInput` | analog front end | USB interrupt, tick, PDC and converters |
| `TwiMaster` | TWI driver | driver and bus |
| `Clock` | clock start-up | program and clock generator |
| `Boot` | start-up, watchdog, reset to boot loader | `Clock` with main, the waits of the requests, the watchdog and power |
| `*Proofs` | theorems about the module of that name; `UsbLineProofs` holds those about `UdcCore` too, `BoardProofs` those about `Boot` with `Clock` and about `TwiMaster` | |
| `MC*` | instances for TLC | |

The definitions marked "Mutant" are plausible mistakes; each replaces one
definition in turn to show that the property paired with it in `PROJECT.json`
notices.

### `Streaming`

State.  The variables carry the names of `main.h`; `send`, `sending` and
`packet_index_send` are indexed by direction.  `timerOn` is TC0 channel 2.
`pdc` is where the last tick pointed the USARTs' PDC.  `job[d]` is
`udd_ep_job[]` (`busy`, `buf`, the callback, `loaded` for
`buf_cnt = buf_size`) with its DMA channel (`dma`).  `mloop` and `c5` are
program counters.  The last group of variables is history and guards nothing
but the bounds.

Actions.  `TickA` and `TickB` are the two branches of `TC2_Handler`, atomic
because nothing preempts it.  `Main*` are the accesses of the main loop and of
`udd_ep_run` in order.  `C5*` are the stores of request 0xC5: the variables
that are not volatile may be written in any order, as the compiler is free to
do, the volatile ones in program order; with the timer stopped nobody can see
the order and the stores are one step.  `DmaDone`, `EpSetHalt`, `EpClearHalt`,
`UsbDisable`, `UsbEnable` and `Sof` run in the USB interrupt, which the 0xC5
handler and the main loop's `cpu_irq_save` exclude.

Abstractions.  Samples are not modelled, only which buffer and slot they go
to.  A packet is one DMA transfer, as `UDD_ENDPOINT_MAX_TRANS` allows.  At most
one tick falls inside one run of the 0xC5 handler, which is far shorter than
the timer's period.  After a halt is cleared on an endpoint with a job, the
transfer callback is called without arguments and may read any status.

A session is *clean* when 0xC5 found the timer stopped and unarmed, both
endpoints ready and the main loop outside its transfer branches, and no bus
event has hit it since; *late* records that a packet boundary found a transfer
unfinished.  Most properties are about clean sessions, and the buffer
properties about those in which the host kept up: the code does nothing to
protect the others.

### `UsbControl` and `ControlTransfer`

State.  `ep0` holds the status and interrupt-enable bits of endpoint 0, the
SETUP packet, the IN bank, the byte count of the OUT bank, and the driver's
variables (`udd_ep_control_state`, `udd_g_ctrlreq`, the two counters and
`b_shortpacket`).  `host` is the transfer the host is making.  `ledger` and
`shortSent` are history.

Actions.  `IsrEnter` reads the status word and disables the NAK interrupts,
`IsrHandle` runs the handler it selects; packets can arrive between the two.
A handler itself is one step: the packets of a transfer are at least a bus
transaction apart, and the handlers read the status again where it matters.
Requests are inputs: `StandardAnswer` and `VendorAnswer` say which payload
lengths and callbacks the standard and the vendor requests set up.

The host and the endpoint's hardware are modelled from how the driver uses
them: a SETUP packet is always accepted, clears a stall and discards an unsent
IN packet; a forced stall answers everything else; an IN token without a
packet and an OUT packet that finds the bank in use are NAKed and set the NAK
bit.  A host times out only when the driver has been quiet.  `Faults` selects
what else it does: cut the IN or the OUT data stage, ask for other lengths than
the payload's, abandon a transfer at any quiet moment, reset the bus.

`ControlTransfer` is the contract, without packets, banks, interrupts and
states: `Ask` begins a request, `Move` moves bytes of its payload, `Cut` is a
host that reads no further, `Succeed` and `Fail` end the request and `Callback`
runs what is due.  A request succeeds only with its whole payload moved or cut,
and with the callback of the one before it already run; it fails only if it is
not supported.  The next request may begin before the callback has run, as it
does when a SETUP packet overtakes the interrupt.  The refinement maps the
phase, the request, the cut and the outcome to the host's, the bytes moved to
those the host has read (IN) or the driver has stored (OUT; none while the SETUP
packet waits), and `due` to the ledger.

### `UsbEndpoint` and `BulkJob`

`BulkJob` is the contract: a transfer is accepted when none is running, data
move, and one callback ends it, with status OK and the bytes moved, or ABORT.
`UsbEndpoint` has the job (`busy`, `size`, `cnt`, `load`, `call`), the DMA
channel, the packet banks and the toggles of both ends.  `udd_ep_run` and the
`udd_ep_trans_done` it calls are one step per access: `RunCheck` tests the
endpoint, `RunTake` takes the job with interrupts off, `RunFill` makes the four
stores of lines 1101 to 1106 with interrupts on, `RunTrans` decides on the next
DMA transfer, `RunDma` starts it with interrupts off (or takes a ZLP out of its
bank, after which `RunZlp` and `RunEnd` finish the job).  Requests, a bus reset
and a DMA interrupt may come between any two of them, the interrupt of a channel
that `udd_ep_free` left running included; the counters have the width of
`iram_size_t` (`Word`), so an underflow of `buf_cnt` wraps.  `Isr` is the DMA
interrupt, `Alloc` includes the restart of a job that it finds, `SetHalt` the
abort that the core calls first, and `ClearHalt` may come whether the host has
met the halt, has not, or there is none.

A transfer is *torn* when `udd_ep_run` took its job on an endpoint that had just
been halted, or when an interrupt used the job while it was being filled in.
`BulkJob` then promises nothing of the answer to this transfer (it may be ended
by the callback of an older one, or twice), but everything of the next.  The
refinement maps `phase` to "setup" or "torn" while `udd_ep_run` is at work, to
"run" or "torn" while `busy` is set afterwards, and size and bytes moved to those
of the job while it runs.  `unmet` records that the host has cleared a halt it had
not met, until the packet this costs is lost.

Timing assumption: requests are further apart than one call of `udd_ep_run`
takes, so that the second of two does not meet the job that the first found before
it was taken.  Left out because no caller in this firmware reaches them: the
ZLP that ends an IN transfer on request, the delayed stall of a busy IN
endpoint, `udd_ep_wait_stall_clear`, isochronous endpoints.

### `UdcCore` and `UsbLine`

`UdcCore` has one action per standard request that changes state or is answered
from it; an allocation fails when the endpoint is in use or, `MaxFaults` times,
for reasons of the hardware.  `callback` is what the end of the request will
do.  `descType` is the type byte that GET_DESCRIPTOR writes into the shared
descriptors.  `halted` are the endpoints that SET_FEATURE(ENDPOINT_HALT) has
halted; freeing one ends its halt.  Left out are the GET_STATUS and
CLEAR_FEATURE requests of the device, which change nothing here, and endpoint
requests that name endpoint 0, for which `udd_ep_job[]` has no entry.

`UsbLine` puts the core behind `UDPHS_Handler`.  The accesses of its suspend
branch are steps of their own (`AckOldWakeUp`, `SuspendInts`, `SuspendEnds`);
the controller sets its flags in between.  `Request` is any request of
`UdcCore`, together with what it does to the transfer and to `sending_in`: a
freed endpoint and a halt abort the transfer, whose callback then leaves
`sending_in` set, and only `main_vendor_enable` clears it; `StartSession` is
request 0xC5, which clears it too.  `SendPacket` is the IN branch of the main loop, here in
one step (`Streaming` has its accesses): with the clock off the endpoint reads
as disabled and the transfer is refused, or what is written is lost; a halted
endpoint refuses it.  `dead` records a transfer that was lost in one of these
ways.
A suspension takes 3 ms of idle bus, so what is pending is served before it.
`Overlap` lets the host resume in the one instant the driver cannot tell.

### `FlashService` and `FlashTable`

`FlashService` has the loops of `flash_write`, `flash_lock` and
`flash_unlock`, one step per command to the controller, any of which may
fail.  A byte programmed without an erase reads as `Mixed`.  `FlashTable` calls
it from `store_flash_table`; `ram`, `serial` and the pages of `mem` are
`flash_table`, `serial_number` and the flash.  A write request brings its data
packet by packet and may be abandoned or reset; its callback still runs when
the next SETUP packet comes.  Its range is not held against the size of the
table, so its last bytes may go behind it (`Spill`): they may change
`serial_number` (`spilt`, until the string is built again), and what they do to
other variables is not modelled.  `StartTimer` is `main_sof_action`, which may
come between the packets of a request, `StopTimer` request 0xC5.  `UidStart` and `UidStop` enclose the time in
which the flash reads as the unique id.  `PowerCut` may come anywhere; inside
the programming of a page it leaves any mixture of old, new and undefined
bytes.  `expected` is what the host may rely on: the bytes of a
request are unknown from its SETUP packet to the end of its store, and all are
after a cut in the middle of the programming.

### `AnalogOutput` and `AnalogInput`

The handler's accesses to USART, PDC and pins are single steps, a tick is one
step and may come between any two, and the PDC and the converters are
processes of their own that exchange single bytes, so a tick may also come
between two bytes of a transfer.

In `AnalogOutput` bytes are shifted into the DAC and executed as frames as N_SYNC
says; a frame that is torn gives `Junk`.  In `AnalogInput` each converter has its
pipeline (configuration being loaded, acquired with, read out), moved by the
rising edges of CNV, and each USART its counts and US_RHR.  US_RCR and US_TCR are
written in steps of their own: a tick between them, or between the bytes they
ask for, makes more bytes come in than were asked for, and the last one stays in
US_RHR (`full`).  Nothing in the program reads it there, so it becomes the first
byte of the next word, and every later sample of that USART is shifted by a byte
(`SurplusLasts` proves that it never ends).  Of such a USART only the counts are
followed; `Surplus` names it, and the properties about its words are about the
others.

Requests 0x50, 0x51 and 0x91 may take any pin.  In `AnalogOutput`, `TakePin` and
`DrivePin` are those on N_SYNC, which the handler goes on using, and on the other
pins of the link, after which the converter is cut off for good (`cut`); `SetPin`
is about the pins of the channels.  In `AnalogInput`, `SetPin` takes CNV, which
request 0x19 gives back, or a pin of one converter's link.  The modes, pins and
wipers of the channels are followed because requests set them; no property is
about them, the code for the two channels being two copies of the same lines.

Timing assumption: what a tick itself starts (1 us) is over before the next
conversion starts and before a request is decoded.  Voltages, delays and LDAC
are left out.

### `TwiMaster`

The two functions poll by poll against a peripheral that shifts byte after
byte.  Timing assumptions, from the 100 kHz bus: the driver has acted on what
it polled before the bus moves on, and the read timeout runs down only on a bus
that is held.

### `Clock` and `Boot`

A register holds what was asked for; the generator follows in steps of its
own.  The waits of `pmc_switch_mck_to_pllack` may give up at any time.  `Boot`
runs the clock steps inside `main`, counts watchdog ticks and lets the loop
come round at least once per tick.  A boot loader's hand-over is assumed not to
run from PLLA, whose disabling would stop it; power is cut only while the device
is up, since start-up begins with nothing it could lose.

## 3. Runs

| run | properties | instance |
|---|---|---|
| `stream` | `TypeOK`, `SlotsAligned`, `NoStartBeforeFirstPacket`, `StopHolds`, `BuffersKept` (`InPacketOwned`, `NoPacketLost`, `DacPlaysFullPacket`), `TransfersBacked` (`SendingBacked`, `CallbackRegisteredClean`) | 6 slots, two starts; three kinds of hosts |
| `stream_live` | `StreamLives` (`StreamStarts`, `StreamFlows`) | 4 slots, one session, two frames, fair |
| `stream_callback` | counterexample to `CallbackRegistered` | 4 slots, two starts |
| `ctrl` | `CallbackOnce`, `ImplementsTransfer` (which includes `RegularServed`), `RegularEnds` | packets of 2, payloads up to 4, cut IN stages, fair |
| `ctrl_faults` | `CtrlTypeOK`, `InSentExpected`, `TransferFaithful` (`InPacketInPlace`, `TransferComplete`) | packets of 2, payloads up to 3, all faults |
| `ep` | `TypeOK`, `ToggleInSync`, `ImplementsJob`, `JobAnswered` (with `JobBacked`) | both directions, packets of 2, DMA transfers of 4, sizes 3 and 6, words of 11 values, two banks, two answers, fair |
| `line` | `EnabledConsistent`, `EndpointsOwned`, `DescriptorAsRequested`, `InFlows`, `LineNoticed` (`WakeUpArmed`, `EventsPending`, `ResumeTold`, `SuspendHonoured`) | one address, one failing allocation |
| `flash_table` | `DurableCells`, `SoundAtRest` (`LockedSerial`, `LockedAtRest`), `LockExact`, `FetchesCode`, `ProgramIntact`, `TableSettles` | two regions of two pages of 3 bytes, two requests, one byte behind the table, one power cut |
| `analog_out` | `WriteLands`, `WholeCommands` | a host that streams, writes and drives N_SYNC, or one that sets up both channels and takes a pin |
| `analog_in` | `TemperatureServed` (`TemperatureRead`, `AdcReady`), `SlotsMatch`, `Served` | one converter, its pins and CNV taken, and either one slot configured or the temperature read, fair |
| `twi` | `TransferExact`, `FailureReported`, `ReadReturns` | up to 3 bytes, NACKs and a held bus |
| `boot` | `ClockSafe` (`ClockRuns`, `ClockInRange`, `CoreClockTrue`), `StartUpEnds` (`HangRecovers`, `UsbClocked`), `ResetReachesLoader` | the board's frequencies, periods of 6 and 3 ticks |

Names in brackets are the conjuncts of the property before them.

What they show.  `stream`: the ping-pong of both directions is right for every
interleaving in a session that found the engine quiescent, and a restart of a
running stream leaves ADC and DAC aligned if no tick fell into it.  `ctrl` and
`ctrl_faults`: a cooperative host is always served, any other one corrupts
nothing; the driver implements `ControlTransfer`.  `ep`: it implements `BulkJob`,
and what comes between two accesses of `udd_ep_run` costs that transfer only; a
halt the host has not met costs one packet.  `line`: no order of requests,
resets, failures and line events leaves an endpoint or the enable flag behind,
or the device asleep, and only a halt or a stopped clock stops the IN stream.
`flash_table`: only a power cut inside the programming
itself can lose cells.  `analog_out`: writes that no tick disturbs land, and as
long as none is disturbed no command is torn, however streams, writes and
requests for N_SYNC alternate; nothing is said of the time after a torn frame.
`analog_in`: a reading that no tick disturbs is right, and a stream is in step two
rounds of ticks after the last request, but both only until a race of a reading
with a tick leaves its surplus byte behind: from then on that USART stays
shifted.  The waits end in either case.  `twi`: the byte accounting of the poll loops is
exact.  `boot`: every wait that cannot end is ended by the watchdog.

Bounds.  The constants of `Streaming` only have to keep the order
`0 < Lag < Warm < OutReq < Slots` of the firmware's 2, 4, 127 and 256: the
handler compares the offset with these values and nothing else, so 4 slots
reach every branch, and 6 add the slots between them.  Two starts are enough
for one session to disturb the next.  `MCStreaming` gives each behaviour one of
three kinds of hosts, so that the state spaces add instead of multiply, and
drops states from which the property in question can no longer fail (`raced`
and a dirty session are only reset by another start).  In `UsbControl`,
packets of 2 bytes give empty, short, exactly full and two-packet payloads; the
number of requests is not bounded.  In `UsbEndpoint`, the sizes are one with a
short packet and one of two DMA transfers, of which the first fills the DMA's
maximum; `Word` is the smallest that leaves a wrapped count apart from every
count in use; `MaxCalls` bounds the callbacks: two leave a torn transfer and the
next.  `FlashTable` needs the table's page to share
its lock region with a program page and a region below it that is locked; two
requests allow a failed store or a power cut and a store after it, and one byte
behind the table is as good as many.
`TwiMaster` needs a first, a middle and a last byte.  `Boot` needs periods long
enough for the loop to come round between two ticks.  `UsbLine`, `AnalogInput`
and `AnalogOutput` bound nothing but the requests offered; `analog_in` follows
one of the two converters, whose USARTs have nothing in common but CNV and the
tick, and a host that either configures a slot or reads the temperature (both
together double the states); `AnalogInputProofs` shows `TemperatureServed` and
`SlotsMatch` for both converters and every host.

Fairness.  `Streaming`: a pending interrupt is served and the main loop runs
when none is (there is no other thread and every handler ends); a running
timer ticks; frame numbers come round; the host serves both bulk endpoints,
which is what a session is for and is needed for any flow.  `UsbControl`: the
interrupt is served and the host repeats what was NAKed, as the USB
specification makes its controller do.  `UsbEndpoint`: interrupt, DMA and the
rest of `udd_ep_run` go on, and the host takes and sends packets.  `UsbLine`:
a pending interrupt is served.  `FlashTable`: the processor runs, a command
ends.  `AnalogInput`: the PDC moves, and the handler is strongly fair because
its loop polls many times between two ticks and so sees a condition that keeps
becoming true.  `TwiMaster`: driver and bus go on, unless the bus is held.
`Boot`: main, interrupt, clock generator and watchdog go on; nothing is assumed
of the host or the bus.  No fairness is assumed of requests, cuts, halts,
aborts, resets or power cuts.

### Disagreements found

A comment, a header or an assertion says one thing and the code does another.
`stream_callback` is kept as a run; the others can be reproduced by the setting
named, where there is one.

* `stream_callback`: 0xC5 aborts and replaces a job that the main loop is
  still filling in (`udphs_device.c:1098`); the main loop then overwrites the
  callback.  `udi_vendor.h:324` promises the callback.  The session never
  starts its timer.
* `UsbControl`, `Faults = {"abandon"}`, `CallbackAfterStatus`: a request that
  is abandoned in its data stage has its callback run by the next SETUP packet
  (`udphs_device.c:1298`), against `udd.h:93`; 0x02 then stores a partly
  received table.
* `UsbControl`, `Faults = {}`, `DataPhaseEnds`: a stale `b_shortpacket` ends
  the data stage of an IN request with an empty payload before anything was
  sent (`udphs_device.c:1390`), against the comment below it.
* `UsbControl`, `Faults = {"cut_out"}`, `CutOutServed` (under `FairSpec`): a
  stale NAK_OUT bit makes the interrupt miss NAK_IN (`udphs_device.c:1668`), so
  that a cut OUT data stage is not answered, against the comment at 1551.
* `udd_ep_clear_halt` resets the data toggle only if a packet was stalled
  (`udphs_device.c:1046`), `udd.h:276` says that it starts at DATA0.  After a
  CLEAR_FEATURE of a halt the host has not met, or of none, the two ends may
  differ and the next packet is acknowledged and thrown away: `unmet` in
  `UsbEndpoint`, where `ToggleInSync` and `JobAnswered` say that this is all it
  costs.
* A halt between the test of the endpoint and the taking of the job in
  `udd_ep_run` (`udphs_device.c:1084`) lets the job run on a halted endpoint,
  and `udd_ep_clear_halt` (line 1062) calls its transfer callback as one without
  arguments, against `udd.h:130`; a request, a reset or a stale DMA interrupt
  while the job is filled in (1096 to 1108) has it answered by the callback of an
  older transfer.  Both are the *torn* transfers of `UsbEndpoint`.
* After `udd_ep_clear_halt` "any transaction on ep will be handled normally"
  (`udd.h:274`); there is none left on the IN endpoint, since the halt aborted the
  transfer and the callback returned without clearing `sending_in`
  (`main.c:837`).  `InFlows` says what is left: the IN stream stops until the
  interface is enabled or a session started again (`dead`).
* `udd_ep_finish_job` (`udphs_device.c:1736`) reports the size of the buffer
  for an aborted transfer, where `udd.h:132` says "number of data transfered":
  this is why `BulkJob` asks nothing of an aborted transfer's size.
* `udc.c:1093` says that an unsupported request is stalled; what the core
  refuses, `main_setup_handle` accepts by default (`main.c:821`).
* `udi.h:111` says that `getsetting` returns the current setting; after a
  refused SET_INTERFACE it is 1 with no endpoint enabled (`udi_vendor.c:141`).
* `UsbLine`, `Overlap = TRUE`, `ResumeTold`: a resume between the test of the
  suspend flag and `udd_ack_wake_up` (`udphs_device.c:584`) is removed as an old
  wake-up and not told, against line 119.
* `udphs_device.h:151` says that the registers need the peripheral clock; the
  main loop starts transfers while it is off (`main.c:517`).  `InFlows` says
  what is left, as for the halt above.
* `write_ad5663` is called a "synchronous write" (`main.c:327`); after a
  stream was stopped, N_SYNC is still low (`main.c:94`), the write has no
  falling edge and is lost.  `WriteLands` is about the others (`edge`).
* `twi.c:328` says `TWI_SUCCESS` if all bytes were written; a NACK of the last
  byte is never looked at (`twi.c:379`).  `FailureReported` allows just that.
* `Boot`, `FlashFails = TRUE`, `ResetReachesLoader`: "erase and reset to
  bootloader" (`main.c:754`) restarts the firmware when `flash_clear_gpnvm`
  failed, its result being ignored (`main.c:756`).

## 4. Proofs

For all values of the constants that satisfy the named assumptions of the
modules, and for any number of requests, ticks, transfers and faults.  Hardly
any of the properties is inductive as it stands; the column on the right says
what the inductive invariant adds and why.

`StreamingProofs`

| theorem | property | argument |
|---|---|---|
| `Typing` | `TypeOK` | inductive by itself; one lemma per group of variables |
| `Alignment` | `SlotsAligned` | `AlignInv`: also follows the stores of the reset, saying which variables already have their final values while no tick has come, and keeps the warm-up below slot `Warm` |
| `StopIsFinal` | `StopHolds` | `StopInv`: a stopped stream has `sent_out` set, so no callback can arm the timer again |
| `FirstPacketFirst` | `NoStartBeforeFirstPacket` | `StartInv`: while 0xC5 resets the engine, a clean session's timer is off and unarmed |
| `TransfersAreBacked` | `TransfersBacked` | `TransferInv`: at each access of the main loop's branch and of `udd_ep_run`, what the job, the DMA and the owed callback hold; while 0xC5 runs, both endpoints are empty; before the first packet nothing is flagged |
| `BuffersAreKept` | `BuffersKept` | `BufferInv`, on top of the four above: a request is either flagged or being served, it uses the buffer last announced, and that buffer is the one the tick does not use |

`UsbControlProofs`

| theorem | property | argument |
|---|---|---|
| `CountsStayInBounds` | `CtrlTypeOK` | `FaithfulInv`: relates the driver's state, the event the interrupt has read and the host's transfer; which interrupts may be enabled or pending in which state, whose request the driver holds, and how `cnt`, the packet in the FIFO and what the host has moved add up.  For all `Faults` |
| `TransfersAreFaithful` | `TransferFaithful` | the same invariant |
| `InSentAssertion` | `InSentExpected` | the same invariant: the IN interrupt is enabled only in states DATA_IN and WAIT_IN_ZLP |
| `RegularRequestsAreServed` | `RegularServed` | `ServiceInv`: no NAK event or stall of an older request is left when the driver turns to the next.  Assumes `"mismatch"` not in `Faults`; with it the property is false: a surplus OUT packet that is handled after the next SETUP packet has come makes the endpoint stall that request |
| `CallbacksRunOnce` | `CallbackOnce` | `LedgerInv`: the driver holds a callback exactly while it serves a request that has one, and it is due exactly when the host has seen the status stage.  Assumes `Faults` within `{"cut_in"}`: the callback of a request abandoned in its data stage runs when the next SETUP packet comes (see the disagreements in section 3) |
| `ControlImplementsTransfer` | `ImplementsTransfer` | the three invariants above, and `CtrlZlpInv`: the IN handshake is an empty packet, sent only for a request that is supported.  One lemma per action says which step of `ControlTransfer` it is: a handler stores data (`Move`), runs the callback (`Callback`) or does nothing the host can see; the host's tokens are `Move`, `Succeed` or nothing; a stall or a timeout is `Fail`, since `ServiceInv` leaves neither to a supported request.  Assumes `Faults` within `{"cut_in"}`, as `CallbacksRunOnce` does |

`UsbEndpointProofs`

| theorem | property | argument |
|---|---|---|
| `EndpointTypes` | `TypeOK` | `JobInv = Types /\ MeetPart /\ FillPart /\ Accounts /\ JobBacked`: who can meet a job on an endpoint out of service or halted (`MeetPart`), how far `udd_ep_run` has filled in a job that is not torn (`FillPart`), and that `moved`, the rest of the running DMA transfer and `cnt` add up for a job that runs (`Accounts`).  No claim about the counts of a torn transfer but that they are of their type: there `buf_cnt` does underflow |
| `EndpointImplementsJob` | `ImplementsJob` | the same invariant; every access of `udd_ep_run`, every interrupt and every request is then a step of `BulkJob` or a stutter, a torn transfer's included |
| `ToggleInStep` | `ToggleInSync` | inductive with `JobInv`: after a halt that was cleared unmet, the packet whose toggles differ is thrown away and brings them together again |
| `JobsAreBacked` | `JobBacked` (part of `JobAnswered`) | with `TypeOK`: a DMA transfer is never programmed with no bytes (`BuffLength`, the length field 0 being the maximum), and one that moves its last byte raises its interrupt; for torn transfers too |

`UsbLineProofs`

| theorem | property | argument |
|---|---|---|
| `EnabledIsConsistent` | `EnabledConsistent` | `UdcInv`: the enable flag, the setting and the endpoints go together; one lemma per request |
| `EndpointsAreOwned` | `EndpointsOwned` | the same invariant, as long as no allocation has failed |
| `DescriptorIsAsRequested` | `DescriptorAsRequested` | `DescInv`: the speeds index the descriptors |
| `LineImplementsCore` | `LineSpec => Spec` | every step of the composed system is a step of `UdcCore` or leaves it alone; the three theorems above therefore hold in it |
| `InStreamFlows` | `InFlows` | `FlowInv = UdcInv` and: a job is lost to a dead register only if the main loop started it without a clock, and the callback of an older request is none that enabled the interface, so a transfer and its flag go together through every change of setting |
| `WakeUpIsArmed` | `WakeUpArmed` (part of `LineNoticed`) | `ArmInv`: inside the handler the clock runs, and between the exchange of the two interrupts and the stopping of the clock the wake-up is enabled |
| `EventsArePending` | `EventsPending` (part of `LineNoticed`) | `EventInv`: from `udd_ack_wake_up` until the clock is back the wake-up flag is set exactly if the host has resumed, a suspend flag means a suspended bus, and the handler runs with the clock on.  Assumes `~Overlap`; with it a resume is lost (section 3) |

`FlashTableProofs`, from `TableInv = Types /\ CallShape /\ LockWork /\ Rest /\
Copies /\ Fetches`

| theorem | property | argument |
|---|---|---|
| `TableIsDurable` | `DurableCells` | `Copies`: when a store's last byte is programmed RAM and page agree, and a cell in the data stage is one the host may not rely on.  The lemmas about `flash_write` say which addresses a step of it can change, for every geometry |
| `RestIsSound` | `SoundAtRest` | `Rest`: an unlocked page at rest was left by a failed command or a cut; a locked one is the one the serial number was read from |
| `LockIsExact` | `LockExact` | `LockWork`: the page counter of `flash_lock` and `flash_unlock` says whether the bit of the table's region has been written |
| `CodeIsFetched` | `FetchesCode` | `Fetches`: the identifier is mapped only between the two commands of the sequence; `main_sof_action` cannot run inside the store, so a timer that runs then ran when it began, at whatever frame it was started |
| `ProgramIsIntact` | `ProgramIntact` | action property: a programmed page is the table's |

`AnalogOutputProofs`, `AnalogInputProofs`

| theorem | property | argument |
|---|---|---|
| `WritesLand` | `WriteLands` | `WriteInv`: at every access of `write_ad5663` and every byte of the PDC, what the converter has taken, what is on the wire and what the PDC still holds make up the command (`Sending`) |
| `CommandsAreWhole` | `WholeCommands` | `MixInv`: between two frames N_SYNC is high or the last frame is whole, so stray bytes are ignored; covers the tick's own frames too.  Assumes that 0x24 and 0x25 set command bytes of the two channels, as their initial values are: a tick sends whatever byte was set |
| `SamplesMatch` | `SlotsMatch` | `UsartInv /\ Streams`: `UsartInv` says what the counts of each USART, the handler's step and CNV can be together, `Streams` how much of each converter's pipeline a number of undisturbed ticks has put in step, from byte to byte.  For converters without a surplus byte and with all their pins |
| `SurplusLasts` | | action property from `UsartInv`: whoever writes US_RCR and US_TCR asks for as many bytes as it sends, and the surplus byte takes one of them |
| `TemperatureIsServed` | `TemperatureServed` | `UsartInv /\ TempInv`: at every access and byte, what each of the calls of `get_sample_ad7682` has left in the pipeline, and that the transfer whose end is polled is the handler's own |

`BoardProofs`

| theorem | property | argument |
|---|---|---|
| `ClockStaysSafe` | `ClockSafe` | `ClockInv = ClockTypes /\ Sound /\ Switch /\ Settled`: nothing is selected that does not run, PLLA is stopped only while neither PMC_MCKR nor the master clock names it, the prescaler of PLLA is the configured one before the switch, and the wait states are those of the final frequency from the first step on.  `WaitStatesGrow`: a slower clock never needs more of them, whatever the thresholds.  Every step of `Boot` is one of `Clock`, leaves the clocks alone or begins anew |
| `TransfersAreExact` | `TransferExact` | `TwiInv = Types /\ Flags /\ WriteAccount /\ ReadAccount /\ Results`: at every poll the bytes still to move, the one in the register and the ones moved add up to the length |
| `FailuresAreReported` | `FailureReported` | the same invariant |

Assumptions on the constants that the proofs use: `Streaming` the order of the
slot constants; `UsbControl` and `UsbEndpoint` positive packet and DMA
sizes, `UsbEndpoint` also that a size and one DMA transfer fit into the word and
that the DMA's maximum is a number of packets; `FlashService` and `FlashTable` a flash whose regions are whole pages
and a table that is its last page; `AnalogInput` and `AnalogOutput` that a
request names a channel where the code has a case for each (`RequestsAssumption`);
`TwiMaster` a positive timeout and lengths from one byte on; `Clock` that the
oscillators and the configured clock are not too fast for the processor, and
that the thresholds of the wait states ascend and lie above both oscillators
(`sam3u2c.h` has them from 24 MHz on).  They are in the modules, and TLC
evaluates them for every instance.

Only model-checked is liveness, which the prover does not handle: `StreamLives`,
`RegularEnds`, `JobAnswered` but for `JobBacked`, `TableSettles`, `LineNoticed`
but for `WakeUpArmed` and `EventsPending`, `Served`, `ReadReturns`, `StartUpEnds`, `ResetReachesLoader`.

## 5. Not modelled

* Register drivers (`pio.c`, `usart.c`, `tc.c`, `pwm.c`, most of `pmc.c`),
  CMSIS and component headers, compiler and parts headers, descriptors: nine
  tenths of the lines under `src/asf`.  They are vendor code, mostly functions
  and declarations this firmware does not use, or straight-line register
  accesses without state of their own; their effects are part of the actions
  that call them.  What remains to be modelled of the repository's own logic is
  small.
* The LEDs (0x03), the replies of 0x17 and 0x6F, `twi_set_speed` (arithmetic on constants), the timing of LDAC
  and CNV, voltages and sample values.
* The sleep manager, which is a dummy in this build; GET_STATUS of the device,
  which only reads; the functions of `twi.c`, `flash_efc.c` and `udphs_device.c` that are
  not called.
* Host scripts: read for how the device is used.
* The clock in which the boot loader in ROM hands over, which is not in the
  repository (`Clock` assumes that it is not PLLA).
* Requests during the start-up writes of `main.c:504` to 510: a host that
  obeys the USB specification is not that fast.

## 6. Plan

Every safety property of a run is proved.  Progress as a safety property (what
is due is pending, and its interrupt enabled), from which liveness follows by the
fairness of section 3, is proved for the line events (`EventsPending`) and the
bulk jobs (`JobBacked`).  Left: the same for the control endpoint, the streaming
engine and the table's requests.
