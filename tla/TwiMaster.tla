----------------------------- MODULE TwiMaster -----------------------------
(***************************************************************************)
(* The TWI master driver (twi.c) through which the firmware reaches the    *)
(* hot-swap controller and the potentiometers: twi_master_read and         *)
(* twi_master_write poll the status register in loops.                     *)
(*                                                                         *)
(* The peripheral shifts one byte at a time, about 90 us each, while the   *)
(* driver polls in less than 1 us: the bus moves only once the driver has  *)
(* acted on what it saw.  The chip may refuse a byte, and it may hold the  *)
(* bus for ever.  TWI_TIMEOUT polls last longer than a byte, so the        *)
(* driver's timeout runs down only on a bus that is held.                  *)
(***************************************************************************)
EXTENDS Naturals

CONSTANTS MaxLength,    \* bound on the length of a transfer
          Timeout,      \* TWI_TIMEOUT
          Faults        \* what the chip may do wrong: "nack", "stick"

ASSUME TwiAssumption ==
    MaxLength \in Nat \ {0} /\ Timeout \in Nat \ {0} /\ Faults \subseteq {"nack", "stick"}

VARIABLES
    at,          \* where the driver is
    kind, len,   \* the operation and p_packet->length
    cnt,         \* bytes the driver still has to move
    timeout,
    stop_sent,
    result,      \* what the last call returned
    phase,       \* of the bus: "off", "address" or "byte"
    full,        \* THR holds a byte: TXRDY is its negation
    rxrdy, nack, txcomp,   \* bits of the status register
    stop,        \* a STOP has been asked for
    held,        \* the bus is held
    moved,       \* bytes the chip has taken or given in this operation
    faulty       \* the chip did something wrong in this operation

call == <<kind, len>>
bus  == <<phase, full, rxrdy, nack, txcomp, stop>>
twiVars == <<at, call, cnt, timeout, stop_sent, result, bus, held, moved, faulty>>

\* twi_reset and twi_master_init.
TwiInit ==
    /\ at = "idle" /\ kind = "none" /\ len = 0 /\ cnt = 0
    /\ timeout = Timeout /\ stop_sent = FALSE /\ result = "none"
    /\ phase = "off" /\ full = FALSE /\ rxrdy = FALSE /\ nack = FALSE
    /\ txcomp = TRUE /\ stop = FALSE
    /\ held = FALSE /\ moved = 0 /\ faulty = FALSE

-----------------------------------------------------------------------------
(* The driver.  Every poll reads the status register, which clears NACK.   *)

Over(code) == at' = "over" /\ result' = code

Begin(k, n) ==
    /\ at = "idle" /\ phase = "off"
    /\ kind' = k /\ len' = n /\ cnt' = n /\ moved' = 0 /\ faulty' = held
    /\ UNCHANGED <<full, rxrdy, nack, held>>

\* twi_master_write and twi_master_read up to their first poll.
Write(n) ==
    /\ Begin("write", n)
    /\ IF n = 0 THEN Over("TWI_INVALID_ARGUMENT") ELSE at' = "write" /\ result' = result
    /\ UNCHANGED <<timeout, stop_sent, phase, txcomp, stop>>

Read(n) ==
    /\ Begin("read", n)
    /\ timeout' = Timeout
    /\ IF n = 0
         THEN Over("TWI_INVALID_ARGUMENT") /\ UNCHANGED <<phase, txcomp, stop, stop_sent>>
         ELSE /\ at' = "read" /\ result' = result
              /\ phase' = "address" /\ txcomp' = FALSE
              /\ stop' = (n = 1) /\ stop_sent' = (n = 1)

LastWrite == cnt = 1

\* The first loop of twi_master_write.
WritePoll ==
    /\ at = "write" /\ (nack \/ ~full) /\ nack' = FALSE
    /\ IF nack
         THEN Over("TWI_RECEIVE_NACK") /\ UNCHANGED <<cnt, full, txcomp, phase, stop>>
         ELSE /\ full' = TRUE /\ txcomp' = FALSE /\ stop' = FALSE
              /\ phase' = IF phase = "off" THEN "address" ELSE phase
              /\ cnt' = cnt - 1
              /\ at' = IF LastWrite THEN "write_last" ELSE "write"
              /\ result' = result
    /\ UNCHANGED <<call, timeout, stop_sent, rxrdy, held, moved, faulty>>

\* Mutant: the second loop only waits for TXRDY.
WriteLastBlind ==
    /\ at = "write_last" /\ ~full
    /\ at' = "write_done" /\ result' = result /\ stop' = TRUE /\ nack' = FALSE
    /\ UNCHANGED <<call, cnt, timeout, stop_sent, phase, full, rxrdy, txcomp, held,
                   moved, faulty>>

\* The second loop, which ends when the last byte is in the shifter, and the STOP.
WriteLast ==
    /\ at = "write_last" /\ (nack \/ ~full) /\ nack' = FALSE
    /\ IF nack THEN Over("TWI_RECEIVE_NACK") /\ stop' = stop
               ELSE at' = "write_done" /\ result' = result /\ stop' = TRUE
    /\ UNCHANGED <<call, cnt, timeout, stop_sent, phase, full, rxrdy, txcomp, held,
                   moved, faulty>>

\* Mutant: the end of the transfer is not waited for.
WriteDoneEarly ==
    /\ at = "write_done"
    /\ Over("TWI_SUCCESS") /\ nack' = FALSE
    /\ UNCHANGED <<call, cnt, timeout, stop_sent, phase, full, rxrdy, txcomp, stop,
                   held, moved, faulty>>

\* The last loop waits for TXCOMP and looks at nothing else.
WriteDone ==
    /\ at = "write_done" /\ txcomp
    /\ Over("TWI_SUCCESS") /\ nack' = FALSE
    /\ UNCHANGED <<call, cnt, timeout, stop_sent, phase, full, rxrdy, txcomp, stop,
                   held, moved, faulty>>

LastByte == cnt = 1

\* Mutant: every poll starts the timeout again.
TimeoutStepRestarted == Timeout

TimeoutStep == timeout - 1

\* The loop of twi_master_read.
ReadPoll ==
    /\ at = "read" /\ nack' = FALSE
    /\ IF nack
         THEN Over("TWI_RECEIVE_NACK") /\ UNCHANGED <<cnt, timeout, stop, stop_sent, rxrdy>>
         ELSE IF timeout = 0
         THEN Over("TWI_ERROR_TIMEOUT") /\ UNCHANGED <<cnt, timeout, stop, stop_sent, rxrdy>>
         ELSE /\ stop' = (stop \/ (LastByte /\ ~stop_sent))
              /\ stop_sent' = (stop_sent \/ LastByte)
              /\ rxrdy' = FALSE
              /\ cnt' = IF rxrdy THEN cnt - 1 ELSE cnt
              /\ timeout' = IF rxrdy THEN Timeout ELSE IF held THEN TimeoutStep ELSE timeout
              /\ at' = IF rxrdy /\ cnt = 1 THEN "read_done" ELSE "read"
              /\ result' = result
    /\ UNCHANGED <<call, phase, full, txcomp, held, moved, faulty>>

ReadDone ==
    /\ at = "read_done" /\ txcomp
    /\ Over("TWI_SUCCESS") /\ nack' = FALSE
    /\ UNCHANGED <<call, cnt, timeout, stop_sent, phase, full, rxrdy, txcomp, stop,
                   held, moved, faulty>>

\* The caller goes on; no caller looks at the result.
Return ==
    /\ at = "over" /\ at' = "idle"
    /\ UNCHANGED <<call, cnt, timeout, stop_sent, result, bus, held, moved, faulty>>

-----------------------------------------------------------------------------
(* The bus.                                                                *)

\* The driver would act on what it sees.
Acting ==
    \/ nack /\ at \in {"write", "write_last", "read"}
    \/ at \in {"write", "write_last"} /\ ~full
    \/ at = "read" /\ (rxrdy \/ (LastByte /\ ~stop_sent))

Moves == ~held /\ ~Acting

Refused == /\ "nack" \in Faults
           /\ phase' = "off" /\ nack' = TRUE /\ txcomp' = TRUE /\ full' = FALSE
           /\ faulty' = TRUE /\ UNCHANGED <<rxrdy, moved>>

\* The bus after a byte: the next one, or the end.  The driver has always
\* either written the next byte or asked for the STOP by then.
Onward ==
    IF kind = "read"
    THEN IF stop THEN phase' = "off" /\ txcomp' = TRUE /\ full' = full
                 ELSE phase' = "byte" /\ UNCHANGED <<txcomp, full>>
    ELSE IF full THEN phase' = "byte" /\ full' = FALSE /\ txcomp' = txcomp
                 ELSE phase' = "off" /\ txcomp' = TRUE /\ full' = full

BusStep ==
    /\ Moves
    /\ \/ /\ phase = "address"
          /\ \/ Refused
             \/ /\ phase' = "byte" /\ full' = FALSE
                /\ UNCHANGED <<rxrdy, nack, txcomp, moved, faulty>>
       \/ /\ phase = "byte"
          /\ \/ kind = "write" /\ Refused
             \/ /\ Onward /\ moved' = moved + 1
                /\ rxrdy' = (kind = "read") /\ UNCHANGED <<nack, faulty>>
    /\ UNCHANGED <<at, call, cnt, timeout, stop_sent, result, stop, held>>

HoldBus ==
    /\ "stick" \in Faults /\ ~held /\ phase # "off"
    /\ held' = TRUE /\ faulty' = TRUE
    /\ UNCHANGED <<at, call, cnt, timeout, stop_sent, result, bus, moved>>

\* The device restarts: through the watchdog when the driver hangs, by hand
\* when a read has timed out and left its transfer open.
TwiRestart ==
    /\ held
    /\ at' = "idle" /\ kind' = "none" /\ len' = 0 /\ cnt' = 0
    /\ timeout' = Timeout /\ stop_sent' = FALSE /\ result' = "none"
    /\ phase' = "off" /\ full' = FALSE /\ rxrdy' = FALSE /\ nack' = FALSE
    /\ txcomp' = TRUE /\ stop' = FALSE
    /\ held' = FALSE /\ moved' = 0 /\ faulty' = FALSE

Driver == WritePoll \/ WriteLast \/ WriteDone \/ ReadPoll \/ ReadDone \/ Return
Calls  == \E n \in 0 .. MaxLength : Write(n) \/ Read(n)

TwiNext == Calls \/ Driver \/ BusStep \/ HoldBus \/ TwiRestart

TwiSpec == TwiInit /\ [][TwiNext]_twiVars /\ WF_twiVars(Driver) /\ WF_twiVars(BusStep)

-----------------------------------------------------------------------------
(* Properties.                                                             *)

\* A transfer with a chip that answers moves all its bytes and no more, and
\* leaves the bus free: the STOP of a read is asked for in time for the
\* chip not to be clocked once more, the byte of a one-byte read included.
TransferExact ==
    at = "over" /\ ~faulty /\ len > 0 =>
        result = "TWI_SUCCESS" /\ moved = len /\ phase = "off"

\* A write that fails before its last byte is reported, and so is every read:
\* a success hides at most the refusal of the last byte of a write, which is
\* acknowledged after the driver's last look at NACK.
FailureReported ==
    at = "over" /\ result = "TWI_SUCCESS" =>
        moved = len \/ (kind = "write" /\ moved = len - 1)

\* A read whose bus is held returns, unless it is held after the last byte.
ReadReturns == at = "read" ~> at \in {"over", "read_done", "idle"}
===========================================================================
