---------------------------- MODULE FlashTable ----------------------------
(***************************************************************************)
(* The calibration table and the serial number (main.c): flash_table in    *)
(* RAM, its only persistent copy in the last page of the flash, and the    *)
(* string serial_number the device reports.  Requests 0x02 and 0x05 write  *)
(* the RAM table packet by packet; when the request ends, its callback     *)
(* store_flash_table unlocks, rewrites and locks the page and rebuilds the *)
(* serial number, and returns silently at the first step that fails.       *)
(*                                                                         *)
(* Power may fail between any two steps and inside the programming of the  *)
(* page; the timer interrupt may come at any step, in particular while the *)
(* flash is mapped to the unique identifier.                               *)
(***************************************************************************)
EXTENDS FlashService

CONSTANTS MagicAt,       \* CUSTOM_SERIAL_VALID_OFFSET
          SerialAt,      \* CUSTOM_SERIAL_OFFSET
          Valid,         \* CUSTOM_SERIAL_VALID
          Unknown,       \* no promise about this byte
          Spill,         \* bound on the bytes of a request behind the table
          MaxRequests,   \* bound on the write requests
          MaxCuts        \* bound on the power cuts

\* Mutant: the base is computed from the last address.
TableBaseLow == Size - 1 - PageSize

Cells     == 0 .. PageSize - 1
TableBase == Size - PageSize            \* FLASH_TABLE_BASE
TableEnd  == TableBase + PageSize - 1

ASSUME TableAssumption ==
    /\ MagicAt \in Cells /\ SerialAt \in Cells
    /\ Valid \in Values
    /\ Unknown \notin Bytes
    /\ Spill \in Nat

VARIABLES pc,        \* what the processor is doing
          ram,       \* flash_table
          serial,    \* serial_number
          view,      \* what a read of the flash returns: "code" or "uid"
          timer,     \* TC2 is running
          req,       \* the bytes the write request in progress still expects
          requests, cuts,
          expected,  \* what the host may rely on, byte by byte
          fault,     \* a store has not run to its end since the last one that did
          spilt,     \* a request wrote behind the table since serial was built
          risky,     \* a table was stored with the timer running
          fetched    \* an interrupt fetched its code from the identifier

tableVars == <<pc, ram, serial, view, timer, req, requests, cuts,
               expected, fault, spilt, risky, fetched>>
vars == <<flashVars, tableVars>>

Furthest == PageSize - 1 + Spill       \* that a request reaches
Stored  == [c \in Cells |-> mem[TableBase + c]]
Locked  == RegionOf(PageOf(TableBase)) \in lock
Cleared == [c \in Cells |-> Mixed]      \* .bss before read_flash_table
NoReq   == [next |-> 0, last |-> -1]
Nothing == [c \in Cells |-> Unknown]

\* init_build_usb_serial_number: the string it builds from table t.
SerialOf(t) == IF t[MagicAt] = Valid THEN <<"custom", t[SerialAt]>> ELSE <<"uid">>

TableInit ==
    /\ FlashInit
    /\ pc = "off" /\ ram = Cleared /\ serial = <<>> /\ view = "code"
    /\ timer = FALSE /\ req = NoReq /\ requests = 0 /\ cuts = 0
    /\ expected = Stored
    /\ fault = ~Locked /\ spilt = FALSE /\ risky = FALSE /\ fetched = FALSE

---------------------------------------------------------------------------
\* Start-up, up to the main loop.
PowerOn ==
    /\ pc = "off"
    /\ pc' = "boot"
    /\ UNCHANGED <<flashVars, ram, serial, view, timer, req, requests, cuts,
                   expected, fault, spilt, risky, fetched>>

ReadFlashTable ==
    /\ pc = "boot"
    /\ ram' = Stored
    /\ pc' = "uid"
    /\ UNCHANGED <<flashVars, serial, view, timer, req, requests, cuts,
                   expected, fault, spilt, risky, fetched>>

\* flash_read_unique_id: STUI maps the identifier over the flash, SPUI ends
\* it; interrupts stay enabled in between.
UidStart ==
    /\ pc = "uid"
    /\ view' = "uid"
    /\ pc' = "uidcopy"
    /\ UNCHANGED <<flashVars, ram, serial, timer, req, requests, cuts,
                   expected, fault, spilt, risky, fetched>>

\* Mutant: the read mode is not stopped.
UidStopNot ==
    /\ pc = "uidcopy"
    /\ serial' = SerialOf(ram) /\ spilt' = FALSE
    /\ pc' = "idle"
    /\ UNCHANGED <<flashVars, ram, view, timer, req, requests, cuts,
                   expected, fault, risky, fetched>>

\* ... and the rest of init_build_usb_serial_number.
UidStop ==
    /\ pc = "uidcopy"
    /\ view' = "code"
    /\ serial' = SerialOf(ram) /\ spilt' = FALSE
    /\ pc' = "idle"
    /\ UNCHANGED <<flashVars, ram, timer, req, requests, cuts,
                   expected, fault, risky, fetched>>

---------------------------------------------------------------------------
\* main_sof_action starts the timer: at any frame, also between the packets
\* of a write request.  (What arms it is in Streaming.)
StartTimer ==
    /\ pc \in {"idle", "data", "status"}
    /\ timer' = TRUE
    /\ UNCHANGED <<flashVars, pc, ram, serial, view, req, requests, cuts,
                   expected, fault, spilt, risky, fetched>>

\* Request 0xC5 stops it: a request of its own, so no other is in progress.
StopTimer ==
    /\ pc = "idle"
    /\ timer' = FALSE
    /\ UNCHANGED <<flashVars, pc, ram, serial, view, req, requests, cuts,
                   expected, fault, spilt, risky, fetched>>

\* TC2_Handler runs from flash, whatever the flash reads as.
Tick ==
    /\ timer
    /\ fetched' = (fetched \/ view = "uid")
    /\ UNCHANGED <<flashVars, pc, ram, serial, view, timer, req, requests, cuts,
                   expected, fault, spilt, risky>>

\* Requests 0x02 (any range) and 0x05 (a range from MagicAt on).  Neither
\* wIndex nor wLength is held against the size of the table.
WriteSetup(first, last) ==
    /\ pc = "idle" /\ requests < MaxRequests
    /\ pc' = IF first <= last THEN "data" ELSE "status"
    /\ req' = [next |-> first, last |-> last]
    /\ requests' = requests + 1
    /\ expected' = [c \in Cells |-> IF c \in first .. last THEN Unknown ELSE expected[c]]
    /\ UNCHANGED <<flashVars, ram, serial, view, timer, cuts, fault, spilt, risky, fetched>>

\* A byte behind the table falls into serial_number, its neighbour in
\* main.h, or somewhere else.
Behind ==
    /\ serial' \in {serial, <<"spilt">>}
    /\ spilt' = TRUE
    /\ UNCHANGED ram

\* Mutant: the packet is stored one byte too far.
DataPacketShifted(v) ==
    /\ pc = "data"
    /\ \/ /\ req.next \in Cells
          /\ ram' = [ram EXCEPT ![(req.next + 1) % PageSize] = v]
          /\ UNCHANGED <<serial, spilt>>
       \/ req.next \notin Cells /\ Behind
    /\ req' = [req EXCEPT !.next = @ + 1]
    /\ pc' = IF req.next = req.last THEN "status" ELSE "data"
    /\ UNCHANGED <<flashVars, view, timer, requests, cuts,
                   expected, fault, risky, fetched>>

\* udd_ctrl_out_received copies a packet to where the request points.
DataPacket(v) ==
    /\ pc = "data"
    /\ \/ /\ req.next \in Cells
          /\ ram' = [ram EXCEPT ![req.next] = v]
          /\ UNCHANGED <<serial, spilt>>
       \/ req.next \notin Cells /\ Behind
    /\ req' = [req EXCEPT !.next = @ + 1]
    /\ pc' = IF req.next = req.last THEN "status" ELSE "data"
    /\ UNCHANGED <<flashVars, view, timer, requests, cuts,
                   expected, fault, risky, fetched>>

\* udd_ctrl_endofrequest calls store_flash_table: after the status stage,
\* which the host may ask for early, or, when the host has abandoned the
\* request at any point, on the next SETUP packet.
EndOfRequest ==
    /\ pc \in {"data", "status"}
    /\ pc' = "store"
    /\ req' = NoReq
    /\ risky' = (risky \/ timer)
    /\ UNCHANGED <<flashVars, ram, serial, view, timer, requests, cuts,
                   expected, fault, spilt, fetched>>

\* A bus reset drops the request and its callback.
BusReset ==
    /\ pc \in {"data", "status"}
    /\ pc' = "idle"
    /\ req' = NoReq
    /\ UNCHANGED <<flashVars, ram, serial, view, timer, requests, cuts,
                   expected, fault, spilt, risky, fetched>>

---------------------------------------------------------------------------
\* store_flash_table.
StoreReturns ==
    /\ pc' = "idle"
    /\ fault' = TRUE
    /\ UNCHANGED flashVars

StoreBegin ==
    /\ pc = "store"
    /\ FlashInitCall
    /\ StartLock("unlock", TableBase, TableEnd)
    /\ pc' = "unlock"
    /\ UNCHANGED <<ram, serial, view, timer, req, requests, cuts,
                   expected, fault, spilt, risky, fetched>>

StoreUnlocked ==
    /\ pc = "unlock" /\ Returned
    /\ \/ /\ call.ret = "ok"
          /\ StartWrite(TableBase, PageSize, ram)
          /\ pc' = "write"
          /\ UNCHANGED fault
       \/ call.ret # "ok" /\ StoreReturns
    /\ UNCHANGED <<ram, serial, view, timer, req, requests, cuts,
                   expected, spilt, risky, fetched>>

StoreWritten ==
    /\ pc = "write" /\ Returned
    /\ \/ /\ call.ret = "ok"
          /\ StartLock("lock", TableBase, TableEnd) /\ UNCHANGED fws
          /\ pc' = "lock"
          /\ UNCHANGED fault
       \/ call.ret # "ok" /\ StoreReturns
    /\ UNCHANGED <<ram, serial, view, timer, req, requests, cuts,
                   expected, spilt, risky, fetched>>

\* Mutant: the serial number is not rebuilt.
StoreLockedReturns ==
    /\ pc = "lock" /\ Returned
    /\ pc' = "idle"
    /\ \/ call.ret = "ok" /\ fault' = FALSE /\ expected' = ram
       \/ call.ret # "ok" /\ fault' = TRUE /\ UNCHANGED expected
    /\ UNCHANGED <<flashVars, ram, serial, view, timer, req, requests, cuts,
                   spilt, risky, fetched>>

StoreLocked ==
    /\ pc = "lock" /\ Returned
    /\ \/ call.ret = "ok" /\ pc' = "uid" /\ fault' = FALSE /\ expected' = ram
          /\ UNCHANGED flashVars
       \/ call.ret # "ok" /\ StoreReturns /\ UNCHANGED expected
    /\ UNCHANGED <<ram, serial, view, timer, req, requests, cuts,
                   spilt, risky, fetched>>

\* The loops of the flash service, called from the steps above.
Service == FlashStep /\ UNCHANGED tableVars

---------------------------------------------------------------------------
\* What the page holds when power fails inside EWP: any part of it erased
\* or half programmed, the rest still the old or already the new contents.
TornPages ==
    {[a \in Addresses |-> IF a \in half THEN Mixed ELSE m[a]] :
        half \in SUBSET PageBytes(call.page), m \in {mem, Programmed}}

InEwp == pc = "write" /\ call.fn = "write" /\ call.size > 0
         /\ RegionOf(call.page) \notin lock

PowerCut ==
    /\ pc # "off" /\ cuts < MaxCuts
    /\ cuts' = cuts + 1
    /\ IF InEwp THEN mem' \in TornPages /\ expected' = Nothing
                ELSE UNCHANGED <<mem, expected>>
    /\ pc' = "off" /\ ram' = Cleared /\ serial' = <<>> /\ view' = "code"
    /\ timer' = FALSE /\ req' = NoReq /\ fws' = 0 /\ spilt' = FALSE
    /\ call' = Idle /\ args' = NoArgs
    /\ fault' = (fault \/ pc \in {"unlock", "write", "lock"})
    /\ UNCHANGED <<lock, requests, risky, fetched>>

Device ==
    \/ PowerOn \/ ReadFlashTable \/ UidStart \/ UidStop
    \/ StoreBegin \/ StoreUnlocked \/ StoreWritten \/ StoreLocked \/ Service

Environment ==
    \/ StartTimer \/ StopTimer \/ Tick \/ EndOfRequest \/ BusReset \/ PowerCut
    \/ \E first \in 0 .. Furthest : \E last \in first - 1 .. Furthest : WriteSetup(first, last)
    \/ \E v \in Values : DataPacket(v)

Next == Device \/ Environment

Spec == TableInit /\ [][Next]_vars /\ WF_vars(Device)

---------------------------------------------------------------------------
\* What the host may rely on is stored and loaded: a byte of the table that
\* was stored once and not written since keeps its value, in flash and in
\* RAM, through requests for other bytes, stores that fail at any command,
\* requests cut off by a bus reset, and power cuts, except one that hits the
\* programming of the page itself.
DurableCells ==
    \A c \in Cells : expected[c] # Unknown =>
        /\ mem[TableBase + c] = expected[c]
        /\ pc = "idle" => ram[c] = expected[c]

\* As long as the page is locked, the serial number the device reports at
\* rest is the one it will report after the next power cycle.  (A store
\* whose flash_lock fails leaves the page unlocked and the old string, and
\* a request that reaches behind the table may change the string directly
\* until a store rebuilds it.)
LockedSerial == pc = "idle" /\ Locked /\ ~spilt => serial = SerialOf(Stored)

\* At rest the page is locked, unless a command of a store failed or power
\* was cut inside one and no store has run to its end since.
LockedAtRest == pc = "idle" /\ ~Locked => fault

\* The device at rest: page, lock bit and serial number agree.
SoundAtRest == LockedSerial /\ LockedAtRest

\* The program that shares lock region and controller with the table is
\* never rewritten, not even by a power cut.
ProgramIntact == [][\A a \in 0 .. TableBase - 1 : mem'[a] = mem[a]]_vars

\* No interrupt fetches its code from the unique identifier, unless a store
\* began with the timer running; a timer that starts between the packets of
\* a write request is one that runs when its store begins.
FetchesCode == fetched => risky

\* Every store and every start-up ends: the device comes to rest or loses
\* power again.
TableSettles == (pc \in {"boot", "store"}) ~> (pc \in {"idle", "off"})
===========================================================================
