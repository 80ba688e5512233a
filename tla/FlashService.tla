--------------------------- MODULE FlashService ---------------------------
(***************************************************************************)
(* The flash service (flash_efc.c) over the flash controller (efc.c): the  *)
(* calls flash_write, flash_lock and flash_unlock, each a loop that sends  *)
(* one command per page or per lock region to the controller and returns   *)
(* at the first command that fails.                                        *)
(*                                                                         *)
(* An address is a byte of the single flash plane, counted from            *)
(* IFLASH_ADDR.  A byte holds a member of Values; Mixed stands for what a  *)
(* byte reads as when it was programmed without an erase, or when power    *)
(* failed while its page was programmed.                                   *)
(***************************************************************************)
EXTENDS Integers

CONSTANTS PageSize,     \* IFLASH_PAGE_SIZE
          RegionPages,  \* pages of a lock region
          Regions,      \* lock regions of the plane
          Values,       \* what a byte may be programmed with
          Mixed         \* the contents of a half programmed byte

ASSUME GeometryAssumption ==
    /\ PageSize \in Nat \ {0}
    /\ RegionPages \in Nat \ {0, 1}
    /\ Regions \in Nat \ {0}
    /\ Mixed \notin Values

RegionSize == RegionPages * PageSize
Size       == Regions * RegionSize
Addresses  == 0 .. Size - 1
Pages      == 0 .. Regions * RegionPages - 1
Bytes      == Values \cup {Mixed}

VARIABLES mem,    \* the flash plane
          lock,   \* the lock regions whose lock bit is set
          fws,    \* wait states in EEFC_FMR
          call,   \* the call in progress and its loop variables
          args    \* the arguments of the last call and the lock bits it found

flashVars == <<mem, lock, fws, call, args>>

\* translate_address and compute_address
PageOf(a)       == a \div PageSize
OffsetOf(a)     == a % PageSize
Address(p, off) == p * PageSize + off

\* Mutant: the end of the last region is forgotten.
ActualEndShort(a) == a - (a % RegionSize)

\* compute_lock_range
ActualStart(a) == a - (a % RegionSize)
ActualEnd(a)   == a - (a % RegionSize) + RegionSize - 1

RegionOf(p) == p \div RegionPages

PageBytes(p) == Address(p, 0) .. Address(p, PageSize - 1)

Idle   == [fn |-> "none", ret |-> "ok"]
NoArgs == [fn |-> "none", first |-> 0, last |-> 0, buf |-> <<>>, lock |-> {}]

FlashInit ==
    /\ mem \in [Addresses -> Values]
    /\ lock \in SUBSET (0 .. Regions - 1)
    /\ fws = 0
    /\ call = Idle
    /\ args = NoArgs

---------------------------------------------------------------------------
\* flash_init and efc_init: the wait states the firmware asks for.
FlashInitCall == fws' = 6

Returned == call.fn = "none"

Return(r) == call' = [fn |-> "none", ret |-> r]

\* flash_lock and flash_unlock up to their loop.
StartLock(fn, start, end) ==
    /\ Returned
    /\ call' = [fn |-> fn, page |-> PageOf(ActualStart(start)),
                           end  |-> PageOf(ActualEnd(end))]
    /\ args' = [fn |-> fn, first |-> start, last |-> end, buf |-> <<>>,
                lock |-> lock]
    /\ UNCHANGED <<mem, lock>>

\* flash_write up to its loop: p_buffer holds buf[0 .. size - 1].
StartWrite(addr, size, buf) ==
    /\ Returned
    /\ call' = [fn |-> "write", page |-> PageOf(addr), offset |-> OffsetOf(addr),
                size |-> size, pos |-> 0, saved |-> fws]
    /\ fws' = 6
    /\ args' = [fn |-> "write", first |-> addr, last |-> addr + size - 1, buf |-> buf,
                lock |-> lock]
    /\ UNCHANGED <<mem, lock>>

\* One turn of the loop of flash_lock (SLB) or flash_unlock (CLB): the
\* command either does its work or fails and ends the call.
LockStep ==
    /\ call.fn \in {"lock", "unlock"}
    /\ call.page < call.end
    /\ \/ /\ lock' = IF call.fn = "lock" THEN lock \cup {RegionOf(call.page)}
                                         ELSE lock \ {RegionOf(call.page)}
          /\ call' = [call EXCEPT !.page = @ + RegionPages]
       \/ Return("error") /\ UNCHANGED lock
    /\ UNCHANGED <<mem, fws, args>>

\* Mutant: the loop runs until the page counter meets the last page, which
\* it steps over: the region is locked again and again.
LockReturnExact ==
    /\ call.fn \in {"lock", "unlock"}
    /\ ~(call.page < call.end)
    /\ IF call.page = call.end THEN Return("ok") ELSE call' = [call EXCEPT !.page = @ - RegionPages]
    /\ UNCHANGED <<mem, lock, fws, args>>

LockReturn ==
    /\ call.fn \in {"lock", "unlock"}
    /\ ~(call.page < call.end)
    /\ Return("ok")
    /\ UNCHANGED <<mem, lock, fws, args>>

WriteSize == IF PageSize - call.offset < call.size
             THEN PageSize - call.offset ELSE call.size

\* gs_ul_page_buffer: what the page holds before the data, the data, and
\* what the page holds behind it.
PageBuffer ==
    [o \in 0 .. PageSize - 1 |->
        IF o \in call.offset .. call.offset + WriteSize - 1
        THEN args.buf[call.pos + o - call.offset]
        ELSE mem[Address(call.page, o)]]

\* The page after EWP: erased, then programmed from the latch buffer.
Programmed ==
    [a \in Addresses |-> IF a \in PageBytes(call.page)
                         THEN PageBuffer[OffsetOf(a)] ELSE mem[a]]

\* One turn of the loop of flash_write.  A locked page refuses the command.
WritePage ==
    /\ call.fn = "write"
    /\ call.size > 0
    /\ \/ /\ RegionOf(call.page) \notin lock
          /\ mem' = Programmed
          /\ call' = [call EXCEPT !.pos = @ + WriteSize, !.size = @ - WriteSize,
                                  !.page = @ + 1, !.offset = 0]
       \/ Return("error") /\ UNCHANGED mem
    /\ UNCHANGED <<lock, fws, args>>

WriteReturn ==
    /\ call.fn = "write"
    /\ call.size = 0
    /\ Return("ok")
    /\ fws' = call.saved
    /\ UNCHANGED <<mem, lock, args>>

FlashStep == LockStep \/ LockReturn \/ WritePage \/ WriteReturn

---------------------------------------------------------------------------
Range == args.first .. args.last

RegionsOf(r) == {RegionOf(PageOf(a)) : a \in r}

Succeeded(fn) == args.fn = fn /\ Returned /\ call.ret = "ok"

\* A successful flash_lock (flash_unlock) has set (cleared) the lock bit of
\* every region the range touches, and neither call, successful or not, has
\* touched the lock bit of any other region.
LockExact ==
    args.fn \in {"lock", "unlock"} =>
        LET rs == RegionsOf(Range) IN
        /\ lock \ rs = args.lock \ rs
        /\ Succeeded("lock")   => rs \subseteq lock
        /\ Succeeded("unlock") => rs \cap lock = {}
===========================================================================
