------------------------- MODULE FlashTableProofs -------------------------
(***************************************************************************)
(* The calibration table survives its stores, for every size of the flash, *)
(* its pages and its lock regions, any number of requests and any number   *)
(* of power cuts.                                                          *)
(*                                                                         *)
(* Two arguments meet.  The arithmetic of flash_efc.c: from the address of *)
(* the table it computes the last page, the last lock region and one turn  *)
(* of each loop.  And the order of the steps of store_flash_table: which   *)
(* of the RAM table, the page, the lock bit and the serial number agree at *)
(* which step.                                                             *)
(***************************************************************************)
EXTENDS FlashTable, TLAPS

LastRegion == Regions - 1
LastPage   == Regions * RegionPages - 1
FirstPage  == LastRegion * RegionPages       \* of the last region

-----------------------------------------------------------------------------
(* The arithmetic of translate_address and compute_lock_range.             *)

LEMMA Quotient ==
    ASSUME NEW d \in Nat \ {0}, NEW q \in Nat, NEW r \in 0 .. d - 1
    PROVE  (q * d + r) \div d = q /\ (q * d + r) % d = r
OBVIOUS

LEMMA Geometry ==
    /\ FirstPage \in Nat /\ LastPage \in Nat /\ LastRegion \in Nat
    /\ LastPage = FirstPage + (RegionPages - 1)
    /\ FirstPage < LastPage /\ ~(FirstPage + RegionPages < LastPage)
    /\ RegionSize \in Nat \ {0} /\ Size \in Nat /\ TableBase \in Nat
    /\ TableBase = LastPage * PageSize
    /\ TableBase = LastRegion * RegionSize + (RegionSize - PageSize)
    /\ Size = LastRegion * RegionSize + RegionSize
    /\ RegionSize - PageSize \in 0 .. RegionSize - 1
    /\ FirstPage * PageSize = LastRegion * RegionSize
  <1> USE GeometryAssumption DEF LastRegion, LastPage, FirstPage
  <1>1. LastRegion \in Nat /\ FirstPage \in Nat
    OBVIOUS
  <1>2. Regions * RegionPages = LastRegion * RegionPages + RegionPages
    OBVIOUS
  <1>3. /\ LastPage = FirstPage + (RegionPages - 1)
        /\ LastPage \in Nat /\ FirstPage < LastPage /\ ~(FirstPage + RegionPages < LastPage)
    BY <1>1, <1>2
  <1>4. RegionSize \in Nat /\ RegionSize = PageSize + (RegionPages - 1) * PageSize
        /\ (RegionPages - 1) * PageSize \in Nat
    BY DEF RegionSize
  <1>5. RegionSize \in Nat \ {0} /\ RegionSize - PageSize \in 0 .. RegionSize - 1
    BY <1>4
  <1>6. Size = LastRegion * RegionSize + RegionSize /\ LastRegion * RegionSize \in Nat
    BY <1>1, <1>5 DEF Size
  <1>7. FirstPage * PageSize = LastRegion * RegionSize
    BY <1>1 DEF RegionSize
  <1>8. TableBase = LastRegion * RegionSize + (RegionSize - PageSize) /\ TableBase \in Nat
    BY <1>5, <1>6 DEF TableBase
  <1>9. LastPage * PageSize = FirstPage * PageSize + (RegionPages - 1) * PageSize
    BY <1>1, <1>3
  <1>10. TableBase = LastPage * PageSize
    BY <1>4, <1>6, <1>7, <1>8, <1>9
  <1> HIDE DEF LastRegion, LastPage, FirstPage
  <1> QED
    BY <1>1, <1>3, <1>5, <1>6, <1>7, <1>8, <1>10

\* Where a cell of the table lies.
LEMMA CellAddress ==
    ASSUME NEW c \in Cells
    PROVE  /\ PageOf(TableBase + c) = LastPage /\ OffsetOf(TableBase + c) = c
           /\ TableBase + c \in Addresses
  <1>1. TableBase + c = LastPage * PageSize + c /\ TableBase \in Nat /\ c \in Nat
    BY Geometry, GeometryAssumption DEF Cells
  <1>2. PageOf(TableBase + c) = LastPage /\ OffsetOf(TableBase + c) = c
    BY <1>1, Geometry, GeometryAssumption, Quotient DEF PageOf, OffsetOf, Cells
  <1>3. TableBase + c \in Addresses
    BY <1>1, Geometry, GeometryAssumption DEF Addresses, TableBase, Cells
  <1> QED
    BY <1>2, <1>3

LEMMA TableAddress == PageOf(TableBase) = LastPage /\ OffsetOf(TableBase) = 0
  <1>1. 0 \in Cells
    BY GeometryAssumption DEF Cells
  <1>2. TableBase + 0 = TableBase
    BY Geometry
  <1> QED
    BY <1>1, <1>2, CellAddress

\* The page of the table, and nothing else, lies from TableBase on.
LEMMA TablePage ==
    /\ PageBytes(LastPage) = TableBase .. Size - 1
    /\ \A a \in PageBytes(LastPage) :
          a - TableBase \in Cells /\ OffsetOf(a) = a - TableBase
  <1>1. Address(LastPage, 0) = TableBase /\ Address(LastPage, PageSize - 1) = Size - 1
    BY Geometry, GeometryAssumption DEF Address, TableBase
  <1>2. PageBytes(LastPage) = TableBase .. Size - 1
    BY <1>1 DEF PageBytes
  <1>3. ASSUME NEW a \in TableBase .. Size - 1
        PROVE  a - TableBase \in Cells /\ OffsetOf(a) = a - TableBase
    <2>1. a - TableBase \in Cells /\ a = TableBase + (a - TableBase)
      BY Geometry, GeometryAssumption DEF Cells, TableBase
    <2> QED
      BY <2>1, CellAddress
  <1> QED
    BY <1>2, <1>3

\* compute_lock_range turns the page of the table into its lock region.
LEMMA LockRange ==
    /\ PageOf(ActualStart(TableBase)) = FirstPage
    /\ PageOf(ActualEnd(TableEnd)) = LastPage
    /\ RegionOf(FirstPage) = LastRegion /\ RegionOf(LastPage) = LastRegion
  <1>0. RegionSize \in Nat \ {0} /\ LastRegion \in Nat
    BY Geometry
  <1>10. \A r \in 0 .. RegionSize - 1 : (LastRegion * RegionSize + r) % RegionSize = r
    BY <1>0, Quotient
  <1>1. TableBase % RegionSize = RegionSize - PageSize
    <2>1. /\ TableBase = LastRegion * RegionSize + (RegionSize - PageSize)
          /\ RegionSize - PageSize \in 0 .. RegionSize - 1
      BY Geometry
    <2> QED
      BY <1>10, <2>1
  <1>2. ActualStart(TableBase) = FirstPage * PageSize + 0
    BY <1>1, Geometry, GeometryAssumption DEF ActualStart
  <1>3. PageOf(ActualStart(TableBase)) = FirstPage
    BY <1>2, Geometry, GeometryAssumption, Quotient DEF PageOf
  <1>4. TableEnd = LastRegion * RegionSize + (RegionSize - 1)
        /\ RegionSize - 1 \in 0 .. RegionSize - 1
    BY Geometry, GeometryAssumption DEF TableEnd
  <1>5. TableEnd % RegionSize = RegionSize - 1
    BY <1>4, <1>10
  <1>6. ActualEnd(TableEnd) = LastPage * PageSize + (PageSize - 1)
    <2>1. TableEnd = LastPage * PageSize + (PageSize - 1) /\ TableEnd \in Int
      BY Geometry, GeometryAssumption DEF TableEnd
    <2>2. ActualEnd(TableEnd) = TableEnd
      BY <1>0, <1>5, <2>1 DEF ActualEnd
    <2> QED
      BY <2>1, <2>2
  <1>7. PageOf(ActualEnd(TableEnd)) = LastPage
    BY <1>6, Geometry, GeometryAssumption, Quotient DEF PageOf
  <1>8. FirstPage = LastRegion * RegionPages + 0
        /\ LastPage = LastRegion * RegionPages + (RegionPages - 1)
    BY Geometry, GeometryAssumption DEF FirstPage
  <1>9. RegionOf(FirstPage) = LastRegion /\ RegionOf(LastPage) = LastRegion
    BY <1>8, Geometry, GeometryAssumption, Quotient DEF RegionOf
  <1> QED
    BY <1>3, <1>7, <1>9

LEMMA TableRegions == RegionsOf(TableBase .. TableEnd) = {LastRegion}
  <1>1. ASSUME NEW a \in TableBase .. TableEnd
        PROVE  RegionOf(PageOf(a)) = LastRegion
    <2>1. a - TableBase \in Cells /\ a = TableBase + (a - TableBase)
      BY Geometry, GeometryAssumption DEF Cells, TableEnd
    <2> QED
      BY <2>1, CellAddress, LockRange
  <1>2. TableBase \in TableBase .. TableEnd
    BY Geometry, GeometryAssumption DEF TableEnd
  <1> QED
    BY <1>1, <1>2 DEF RegionsOf
-----------------------------------------------------------------------------
(* The inductive invariant.                                                *)

Calls ==
    [fn : {"none"}, ret : {"ok", "error"}]
    \cup [fn : {"lock", "unlock"}, page : {FirstPage, FirstPage + RegionPages},
          end : {LastPage}]
    \cup [fn : {"write"}, page : {LastPage}, offset : {0}, size : {PageSize}, pos : {0},
          saved : Nat]
    \cup [fn : {"write"}, page : {LastPage + 1}, offset : {0}, size : {0}, pos : {PageSize},
          saved : Nat]

Resting == {"off", "boot", "uid", "uidcopy", "idle", "data", "status", "store"}

Types ==
    /\ mem \in [Addresses -> Bytes] /\ fws \in Nat
    /\ pc \in Resting \cup {"unlock", "write", "lock"}
    /\ ram \in [Cells -> Bytes]
    /\ expected \in [Cells -> Bytes \cup {Unknown}]
    /\ timer \in BOOLEAN /\ risky \in BOOLEAN /\ fault \in BOOLEAN /\ fetched \in BOOLEAN
    /\ spilt \in BOOLEAN
    /\ req \in [next : Int, last : Int] /\ call \in Calls

\* Which call runs at which step of store_flash_table, and with what.
CallShape ==
    /\ call.fn # "none" => pc = call.fn /\ pc \notin Resting
    /\ pc \in {"unlock", "write", "lock"} => args.fn = pc
    /\ pc = "write" => args.buf = ram
    /\ args.fn \in {"lock", "unlock"} => args.first = TableBase /\ args.last = TableEnd

\* What the calls have done to the lock bits.
LockWork ==
    /\ args.fn \in {"lock", "unlock"} =>
          lock \ {LastRegion} = args.lock \ {LastRegion}
    /\ args.fn = "lock" /\ Returned /\ call.ret = "ok" => LastRegion \in lock
    /\ args.fn = "unlock" /\ Returned /\ call.ret = "ok" => LastRegion \notin lock
    /\ call.fn = "unlock" /\ call.page # FirstPage => LastRegion \notin lock
    /\ call.fn = "lock" => (call.page = FirstPage <=> LastRegion \notin lock)
    /\ pc = "lock" /\ Returned /\ call.ret # "ok" => LastRegion \notin lock
    /\ pc = "write" => LastRegion \notin lock

\* The lock bit, the fault and the serial number.
Rest ==
    /\ pc \in Resting /\ LastRegion \notin lock => fault
    /\ pc \in {"idle", "data", "status", "store", "unlock"} /\ LastRegion \in lock /\ ~spilt =>
          serial = SerialOf(Stored)

\* The copies of the table.
Copies ==
    /\ pc \in {"uid", "uidcopy", "lock"} => ram = Stored
    /\ pc = "write" /\ (call.fn = "write" => call.size = 0)
          /\ (Returned => call.ret = "ok") => ram = Stored
    /\ \A c \in Cells : expected[c] # Unknown =>
          /\ Stored[c] = expected[c]
          /\ pc \notin {"off", "boot"} => ram[c] = expected[c]
    /\ pc = "data" =>
          /\ req.next <= req.last
          /\ \A c \in Cells : c \in req.next .. req.last => expected[c] = Unknown

\* The timer while the identifier is mapped.
Fetches ==
    /\ view = "uid" => pc = "uidcopy"
    /\ timer /\ pc \notin {"idle", "data", "status"} => risky
    /\ fetched => risky

TableInv == Types /\ CallShape /\ LockWork /\ Rest /\ Copies /\ Fetches

-----------------------------------------------------------------------------
LEMMA InitTable == TableInit => TableInv
  <1> SUFFICES ASSUME TableInit PROVE TableInv
    OBVIOUS
  <1> USE DEF TableInit, FlashInit
  <1>1. \A c \in Cells : TableBase + c \in Addresses
    BY CellAddress
  <1>2. Stored \in [Cells -> Bytes]
    BY <1>1 DEF Stored, Bytes
  <1>3. Locked <=> LastRegion \in lock
    BY TableAddress, LockRange DEF Locked
  <1>4. Types
    <2>1. call \in Calls
      BY DEF Calls, Idle
    <2>2. ram \in [Cells -> Bytes] /\ mem \in [Addresses -> Bytes]
      BY DEF Cleared, Bytes
    <2>3. req \in [next : Int, last : Int]
      BY DEF NoReq
    <2>4. expected \in [Cells -> Bytes \cup {Unknown}] /\ fws \in Nat
      BY <1>2
    <2>5. /\ timer \in BOOLEAN /\ risky \in BOOLEAN /\ fault \in BOOLEAN
          /\ fetched \in BOOLEAN /\ spilt \in BOOLEAN /\ pc \in Resting
      BY DEF Resting
    <2> QED
      BY <2>1, <2>2, <2>3, <2>4, <2>5 DEF Types
  <1>5. CallShape
    BY DEF CallShape, Idle, NoArgs
  <1>6. LockWork
    BY DEF LockWork, Idle, NoArgs
  <1>7. Rest
    BY <1>3 DEF Rest
  <1>8. Copies
    BY DEF Copies, Stored
  <1>9. Fetches
    BY DEF Fetches
  <1> QED
    BY <1>4, <1>5, <1>6, <1>7, <1>8, <1>9 DEF TableInv

\* A step outside the flash service leaves what it did to the flash.
LEMMA FlashKept ==
    ASSUME UNCHANGED flashVars PROVE Stored' = Stored
BY DEF flashVars, Stored

\* Start-up: the table is read, the serial number built from it.
LEMMA BootTable ==
    ASSUME TableInv, PowerOn \/ ReadFlashTable \/ UidStart \/ UidStop PROVE TableInv'
  <1> USE DEF TableInv, Types, Resting
  <1>0. UNCHANGED flashVars
    BY DEF PowerOn, ReadFlashTable, UidStart, UidStop
  <1>8. Stored' = Stored
    BY <1>0, FlashKept
  <1>9. UNCHANGED <<mem, lock, fws, call, args>>
    BY <1>0 DEF flashVars
  <1>10. Stored \in [Cells -> Bytes]
    BY CellAddress DEF Stored
  <1>1. CASE PowerOn
    <2> USE <1>1 DEF PowerOn
    <2>1. Types'
      BY <1>9
    <2>3. CallShape'
      BY <1>9 DEF CallShape
    <2>4. LockWork'
      BY <1>9 DEF LockWork, Returned
    <2>2. Rest' /\ Copies' /\ Fetches'
      BY <1>9, <1>8 DEF Rest, Copies, Fetches, Returned
    <2> QED
      BY <2>1, <2>2, <2>3, <2>4
  <1>2. CASE ReadFlashTable
    <2> USE <1>2 DEF ReadFlashTable
    <2>1. Types'
      BY <1>9, <1>10
    <2>3. CallShape'
      BY <1>9 DEF CallShape
    <2>4. LockWork'
      BY <1>9 DEF LockWork, Returned
    <2>2. Rest' /\ Copies' /\ Fetches'
      BY <1>9, <1>8 DEF Rest, Copies, Fetches, Returned
    <2> QED
      BY <2>1, <2>2, <2>3, <2>4
  <1>3. CASE UidStart
    <2> USE <1>3 DEF UidStart
    <2>1. Types'
      BY <1>9
    <2>3. CallShape'
      BY <1>9 DEF CallShape
    <2>4. LockWork'
      BY <1>9 DEF LockWork, Returned
    <2>2. Rest' /\ Copies' /\ Fetches'
      BY <1>9, <1>8 DEF Rest, Copies, Fetches, Returned
    <2> QED
      BY <2>1, <2>2, <2>3, <2>4
  <1>4. CASE UidStop
    <2> USE <1>4 DEF UidStop
    <2>1. Types'
      BY <1>9
    <2>3. CallShape'
      BY <1>9 DEF CallShape
    <2>4. LockWork'
      BY <1>9 DEF LockWork, Returned
    <2>2. Rest' /\ Copies' /\ Fetches'
      BY <1>9, <1>8 DEF Rest, Copies, Fetches, Returned
    <2> QED
      BY <2>1, <2>2, <2>3, <2>4
  <1> QED
    BY <1>1, <1>2, <1>3, <1>4

\* The timer and the packets of a write request.
LEMMA RequestTable ==
    ASSUME TableInv,
           \/ StartTimer \/ StopTimer \/ Tick \/ EndOfRequest \/ BusReset
           \/ \E first \in 0 .. Furthest : \E last \in first - 1 .. Furthest : WriteSetup(first, last)
           \/ \E v \in Values : DataPacket(v)
    PROVE  TableInv'
  <1> USE DEF TableInv, Types, Resting
  <1>0. UNCHANGED flashVars
    BY DEF StartTimer, StopTimer, Tick, EndOfRequest, BusReset, WriteSetup, DataPacket, Behind
  <1>8. Stored' = Stored
    BY <1>0, FlashKept
  <1>9. UNCHANGED <<mem, lock, fws, call, args>>
    BY <1>0 DEF flashVars
  <1>1. CASE StartTimer \/ StopTimer
    <2> USE <1>1, <1>9 DEF StartTimer, StopTimer
    <2>1. Types'
      OBVIOUS
    <2>2. CallShape' /\ LockWork'
      BY DEF CallShape, LockWork, Returned
    <2>3. Rest' /\ Copies' /\ Fetches'
      BY <1>8 DEF Rest, Copies, Fetches, Returned
    <2> QED
      BY <2>1, <2>2, <2>3
  <1>2. CASE Tick
    <2> USE <1>2, <1>9 DEF Tick
    <2>1. Types'
      OBVIOUS
    <2>2. CallShape' /\ LockWork'
      BY DEF CallShape, LockWork, Returned
    <2>3. Rest' /\ Copies' /\ Fetches'
      BY <1>8 DEF Rest, Copies, Fetches, Returned
    <2> QED
      BY <2>1, <2>2, <2>3
  <1>3. CASE EndOfRequest \/ BusReset
    <2> USE <1>3, <1>9 DEF EndOfRequest, BusReset, NoReq
    <2>1. Types'
      OBVIOUS
    <2>2. CallShape' /\ LockWork'
      BY DEF CallShape, LockWork, Returned
    <2>3. Rest' /\ Copies' /\ Fetches'
      BY <1>8 DEF Rest, Copies, Fetches, Returned
    <2> QED
      BY <2>1, <2>2, <2>3
  <1>5. ASSUME NEW first \in 0 .. Furthest, NEW last \in first - 1 .. Furthest,
               WriteSetup(first, last)
        PROVE  TableInv'
    <2> USE <1>5, <1>9 DEF WriteSetup
    <2>0. Furthest \in Int
      BY GeometryAssumption, TableAssumption DEF Furthest
    <2>1. Types'
      BY <2>0
    <2>2. CallShape' /\ LockWork'
      BY DEF CallShape, LockWork, Returned
    <2>3. Rest' /\ Fetches'
      BY <1>8 DEF Rest, Fetches
    <2>4. Copies'
      <3>1. \A c \in Cells : expected'[c] # Unknown => expected'[c] = expected[c]
        OBVIOUS
      <3>2. pc' = "data" =>
               /\ req'.next <= req'.last
               /\ \A c \in Cells : c \in req'.next .. req'.last => expected'[c] = Unknown
        OBVIOUS
      <3> QED
        BY <1>8, <3>1, <3>2 DEF Copies, Returned
    <2> QED
      BY <2>1, <2>2, <2>3, <2>4
  <1>6. ASSUME NEW v \in Values, DataPacket(v) PROVE TableInv'
    <2> USE <1>6, <1>9 DEF DataPacket
    <2>0. /\ req' \in [next : Int, last : Int]
          /\ req'.next = req.next + 1 /\ req'.last = req.last
          /\ \/ req.next \in Cells /\ ram' = [ram EXCEPT ![req.next] = v]
                /\ UNCHANGED <<serial, spilt>>
             \/ UNCHANGED ram /\ spilt' = TRUE
      BY DEF Behind
    <2>1. Types'
      <3>0. ram \in [Cells -> Bytes] /\ v \in Bytes /\ spilt \in BOOLEAN
        BY DEF Bytes
      <3>1. ram' \in [Cells -> Bytes] /\ spilt' \in BOOLEAN
        <4> HIDE DEF DataPacket, TableInv, Types
        <4>1. ram' \in [Cells -> Bytes]
          BY <2>0, <3>0
        <4>2. spilt' \in BOOLEAN
          BY <2>0, <3>0, Zenon
        <4> QED
          BY <4>1, <4>2
      <3> QED
        BY <2>0, <3>1
    <2>2. CallShape' /\ LockWork'
      BY DEF CallShape, LockWork, Returned
    <2>3. Rest' /\ Fetches'
      BY <1>8, <2>0 DEF Rest, Fetches
    <2>4. Copies'
      <3>1. /\ req.next \in Int /\ req.last \in Int /\ req.next <= req.last
            /\ \A c \in Cells : c \in req.next .. req.last => expected[c] = Unknown
        BY DEF Copies
      <3>2. \A c \in Cells : expected[c] # Unknown => ram'[c] = ram[c]
        <4>1. req.next \in Cells => expected[req.next] = Unknown
          BY <3>1
        <4> QED
          BY <2>0, <4>1
      <3>3. pc' = "data" =>
               /\ req'.next <= req'.last
               /\ \A c \in Cells : c \in req'.next .. req'.last => expected[c] = Unknown
        <4>1. \A c \in req.next + 1 .. req.last : c \in req.next .. req.last
          BY <3>1
        <4> QED
          BY <2>0, <3>1, <4>1
      <3> QED
        BY <1>8, <3>2, <3>3 DEF Copies, Returned
    <2> QED
      BY <2>1, <2>2, <2>3, <2>4
  <1> QED
    BY <1>1, <1>2, <1>3, <1>5, <1>6

-----------------------------------------------------------------------------
(* store_flash_table between its calls.                                    *)

LEMMA StoreTable ==
    ASSUME TableInv, StoreBegin \/ StoreUnlocked \/ StoreWritten \/ StoreLocked
    PROVE  TableInv'
  <1> USE DEF TableInv, Types, Resting
  <1>0. PageSize \in Nat /\ FirstPage \in Nat /\ LastPage \in Nat /\ RegionPages \in Nat
    BY Geometry, GeometryAssumption
  <1>8. Stored' = Stored /\ UNCHANGED <<mem, lock>>
    BY DEF StoreBegin, StoreUnlocked, StoreWritten, StoreLocked, StartLock, StartWrite,
           StoreReturns, Stored, flashVars
  <1>1. CASE StoreBegin
    <2> USE <1>1, <1>8 DEF StoreBegin
    <2>1. /\ call' = [fn |-> "unlock", page |-> FirstPage, end |-> LastPage]
          /\ args' = [fn |-> "unlock", first |-> TableBase, last |-> TableEnd, buf |-> <<>>,
                      lock |-> lock]
          /\ fws' = 6
      BY LockRange DEF StartLock, FlashInitCall
    <2>2. call' \in Calls
      BY <2>1 DEF Calls
    <2>3. Types'
      BY <2>1, <2>2
    <2>4. CallShape' /\ LockWork'
      BY <2>1 DEF CallShape, LockWork, Returned
    <2>5. Rest' /\ Copies' /\ Fetches'
      BY <2>1 DEF Rest, Copies, Fetches, Returned
    <2> QED
      BY <2>3, <2>4, <2>5
  <1>2. CASE StoreUnlocked /\ call.ret = "ok"
    <2> USE <1>2, <1>8 DEF StoreUnlocked
    <2>1. /\ call' = [fn |-> "write", page |-> LastPage, offset |-> 0, size |-> PageSize,
                      pos |-> 0, saved |-> fws]
          /\ args'.fn = "write" /\ args'.buf = ram /\ fws' = 6
      BY TableAddress DEF StartWrite
    <2>2. call' \in Calls
      BY <2>1 DEF Calls
    <2>3. Types'
      BY <2>1, <2>2
    <2>4. CallShape' /\ LockWork'
      BY <2>1 DEF CallShape, LockWork, Returned
    <2>5. call'.fn = "write" /\ call'.size # 0
      BY <2>1, GeometryAssumption
    <2>6. Rest' /\ Copies' /\ Fetches'
      BY <2>1, <2>5 DEF Rest, Copies, Fetches, Returned
    <2> QED
      BY <2>3, <2>4, <2>6
  <1>3. CASE StoreWritten /\ call.ret = "ok"
    <2> USE <1>3, <1>8 DEF StoreWritten
    <2>1. /\ call' = [fn |-> "lock", page |-> FirstPage, end |-> LastPage]
          /\ args' = [fn |-> "lock", first |-> TableBase, last |-> TableEnd, buf |-> <<>>,
                      lock |-> lock]
          /\ fws' = fws
      BY LockRange DEF StartLock
    <2>2. call' \in Calls
      BY <2>1 DEF Calls
    <2>3. Types'
      BY <2>1, <2>2
    <2>4. CallShape' /\ LockWork'
      BY <2>1 DEF CallShape, LockWork, Returned
    <2>5. Rest' /\ Copies' /\ Fetches'
      BY <2>1 DEF Rest, Copies, Fetches, Returned
    <2> QED
      BY <2>3, <2>4, <2>5
  <1>4. CASE StoreLocked /\ call.ret = "ok"
    <2> USE <1>4, <1>8 DEF StoreLocked
    <2>1. UNCHANGED <<call, args, fws>>
      BY DEF flashVars
    <2>2. Types'
      BY <2>1
    <2>3. CallShape' /\ LockWork'
      BY <2>1 DEF CallShape, LockWork, Returned
    <2>4. LastRegion \in lock
      BY DEF CallShape, LockWork
    <2>5. Rest' /\ Copies' /\ Fetches'
      BY <2>1, <2>4 DEF Rest, Copies, Fetches, Returned
    <2> QED
      BY <2>2, <2>3, <2>5
  <1>5. CASE (StoreUnlocked \/ StoreWritten \/ StoreLocked) /\ call.ret # "ok"
    <2>1. /\ UNCHANGED <<call, args, fws, ram, serial, view, timer, req, expected, spilt, risky,
                         fetched>>
          /\ pc \in {"unlock", "write", "lock"} /\ Returned /\ pc' = "idle" /\ fault' = TRUE
      BY <1>5 DEF StoreUnlocked, StoreWritten, StoreLocked, StoreReturns, flashVars
    <2> USE <1>5, <1>8, <2>1
    <2>2. Types'
      OBVIOUS
    <2>3. CallShape' /\ LockWork'
      BY DEF CallShape, LockWork, Returned
    <2>4. Rest' /\ Copies' /\ Fetches'
      BY DEF Rest, Copies, Fetches, Returned, LockWork
    <2> QED
      BY <2>2, <2>3, <2>4
  <1> QED
    BY <1>1, <1>2, <1>3, <1>4, <1>5

-----------------------------------------------------------------------------
(* The calls.                                                              *)

\* Each loop makes one turn.
LEMMA CallCases ==
    ASSUME TableInv
    PROVE  /\ call.fn \in {"none", "lock", "unlock", "write"}
           /\ call.fn \in {"lock", "unlock"} =>
                 /\ call = [fn |-> call.fn, page |-> call.page, end |-> LastPage]
                 /\ \/ call.page = FirstPage /\ call.page < call.end
                    \/ call.page = FirstPage + RegionPages /\ ~(call.page < call.end)
                       /\ call.page # FirstPage
           /\ call.fn = "write" /\ call.size > 0 =>
                 /\ call = [fn |-> "write", page |-> LastPage, offset |-> 0,
                            size |-> PageSize, pos |-> 0, saved |-> call.saved]
                 /\ call.saved \in Nat
           /\ call.fn = "write" => call.saved \in Nat
  <1>1. call \in Calls
    BY DEF TableInv, Types
  <1>2. CASE call \in [fn : {"none"}, ret : {"ok", "error"}]
    BY <1>2
  <1>3. CASE call \in [fn : {"lock", "unlock"}, page : {FirstPage, FirstPage + RegionPages},
                       end : {LastPage}]
    <2>1. /\ FirstPage < LastPage /\ ~(FirstPage + RegionPages < LastPage)
          /\ FirstPage + RegionPages # FirstPage
      BY Geometry, GeometryAssumption
    <2> QED
      BY <1>3, <2>1
  <1>4. CASE call \in [fn : {"write"}, page : {LastPage}, offset : {0}, size : {PageSize},
                       pos : {0}, saved : Nat]
    BY <1>4
  <1>5. CASE call \in [fn : {"write"}, page : {LastPage + 1}, offset : {0}, size : {0},
                       pos : {PageSize}, saved : Nat]
    BY <1>5
  <1> QED
    BY <1>1, <1>2, <1>3, <1>4, <1>5 DEF Calls

\* What the turn of flash_write programs: the table in RAM, and nothing in
\* front of the page.
LEMMA ProgrammedIs ==
    ASSUME TableInv, call.fn = "write", call.size > 0
    PROVE  /\ call.page = LastPage
           /\ Programmed \in [Addresses -> Bytes]
           /\ \A c \in Cells : Programmed[TableBase + c] = ram[c]
           /\ \A a \in Addresses : a \notin PageBytes(LastPage) => Programmed[a] = mem[a]
  <1>1. /\ call.page = LastPage /\ call.offset = 0 /\ call.size = PageSize /\ call.pos = 0
        /\ args.buf = ram
    BY CallCases DEF TableInv, CallShape
  <1>2. WriteSize = PageSize
    BY <1>1, GeometryAssumption DEF WriteSize
  <1>3. \A o \in Cells : PageBuffer[o] = ram[o]
    BY <1>1, <1>2, GeometryAssumption DEF PageBuffer, Cells
  <1>4. \A a \in PageBytes(LastPage) : OffsetOf(a) \in Cells /\ Programmed[a] = ram[OffsetOf(a)]
        /\ a \in Addresses
    <2>1. \A a \in PageBytes(LastPage) : OffsetOf(a) \in Cells /\ a \in Addresses
      BY TablePage, Geometry DEF Addresses
    <2> QED
      BY <1>1, <1>3, <2>1 DEF Programmed
  <1>5. \A a \in Addresses : a \notin PageBytes(LastPage) => Programmed[a] = mem[a]
    BY <1>1 DEF Programmed
  <1>6. \A c \in Cells : TableBase + c \in PageBytes(LastPage) /\ OffsetOf(TableBase + c) = c
    BY TablePage, CellAddress, Geometry, GeometryAssumption DEF Cells, Addresses
  <1>7. Programmed \in [Addresses -> Bytes]
    <2>1. \A a \in Addresses : Programmed[a] \in Bytes
      BY <1>4, <1>5 DEF TableInv, Types
    <2>2. Programmed = [a \in Addresses |-> Programmed[a]]
      BY DEF Programmed
    <2> QED
      BY <2>1, <2>2
  <1> QED
    BY <1>1, <1>4, <1>5, <1>6, <1>7

LEMMA ServiceTable == ASSUME TableInv, Service PROVE TableInv'
  <1> USE DEF TableInv, Types, Resting
  <1>0. UNCHANGED <<pc, ram, serial, view, timer, req, expected, fault, spilt, risky, fetched>>
    BY DEF Service, tableVars
  <1>1. CASE LockStep
    <2>1. /\ call.fn \in {"lock", "unlock"} /\ call.page = FirstPage
          /\ call = [fn |-> call.fn, page |-> FirstPage, end |-> LastPage]
          /\ UNCHANGED <<mem, fws, args>> /\ Stored' = Stored
      BY <1>1, CallCases DEF LockStep, Stored
    <2>2. pc = call.fn /\ args.fn = call.fn
      BY <2>1 DEF CallShape
    <2>3. CASE Return("error") /\ UNCHANGED lock
      <3>1. call' = [fn |-> "none", ret |-> "error"]
        BY <2>3 DEF Return
      <3>2. call' \in Calls
        BY <3>1 DEF Calls
      <3>3. Types'
        BY <1>0, <2>1, <3>2
      <3>4. CallShape' /\ LockWork'
        BY <1>0, <2>1, <2>2, <2>3, <3>1 DEF CallShape, LockWork, Returned
      <3>5. Rest' /\ Copies' /\ Fetches'
        BY <1>0, <2>1, <2>2, <2>3, <3>1 DEF Rest, Copies, Fetches, Returned
      <3> QED
        BY <3>3, <3>4, <3>5
    <2>4. CASE /\ lock' = IF call.fn = "lock" THEN lock \cup {RegionOf(call.page)}
                                              ELSE lock \ {RegionOf(call.page)}
               /\ call' = [call EXCEPT !.page = @ + RegionPages]
      <3>1. /\ call' = [fn |-> call.fn, page |-> FirstPage + RegionPages, end |-> LastPage]
            /\ lock' = IF call.fn = "lock" THEN lock \cup {LastRegion} ELSE lock \ {LastRegion}
        BY <2>1, <2>4, LockRange
      <3>2. call' \in Calls /\ call'.page # FirstPage /\ call'.fn = call.fn
        BY <2>1, <3>1, Geometry, GeometryAssumption DEF Calls
      <3>3. Types'
        BY <1>0, <2>1, <3>2
      <3>4. CallShape'
        BY <1>0, <2>1, <2>2, <3>2 DEF CallShape
      <3>5. LockWork'
        BY <1>0, <2>1, <2>2, <3>1, <3>2 DEF LockWork, Returned
      <3>6. Rest' /\ Copies' /\ Fetches'
        BY <1>0, <2>1, <2>2, <3>1, <3>2 DEF Rest, Copies, Fetches, Returned
      <3> QED
        BY <3>3, <3>4, <3>5, <3>6
    <2> QED
      BY <1>1, <2>3, <2>4 DEF LockStep
  <1>2. CASE LockReturn
    <2>1. /\ call.fn \in {"lock", "unlock"} /\ call.page # FirstPage
          /\ UNCHANGED <<mem, lock, fws, args>> /\ Stored' = Stored
          /\ call' = [fn |-> "none", ret |-> "ok"]
      BY <1>2, CallCases DEF LockReturn, Return, Stored
    <2>2. pc = call.fn /\ args.fn = call.fn
      BY <2>1 DEF CallShape
    <2>3. call' \in Calls
      BY <2>1 DEF Calls
    <2>4. Types'
      BY <1>0, <2>1, <2>3
    <2>5. CallShape' /\ LockWork'
      BY <1>0, <2>1, <2>2 DEF CallShape, LockWork, Returned
    <2>6. Rest' /\ Copies' /\ Fetches'
      BY <1>0, <2>1, <2>2 DEF Rest, Copies, Fetches, Returned
    <2> QED
      BY <2>4, <2>5, <2>6
  <1>3. CASE WritePage
    <2>1. /\ call.fn = "write" /\ call.size > 0 /\ UNCHANGED <<lock, fws, args>>
          /\ pc = "write" /\ args.fn = "write"
      BY <1>3 DEF WritePage, CallShape
    <2>2. CASE Return("error") /\ UNCHANGED mem
      <3>1. call' = [fn |-> "none", ret |-> "error"] /\ Stored' = Stored
        BY <2>2 DEF Return, Stored
      <3>2. call' \in Calls
        BY <3>1 DEF Calls
      <3>3. Types'
        BY <1>0, <2>1, <2>2, <3>2
      <3>4. CallShape' /\ LockWork'
        BY <1>0, <2>1, <3>1 DEF CallShape, LockWork, Returned
      <3>5. Rest' /\ Copies' /\ Fetches'
        BY <1>0, <2>1, <3>1 DEF Rest, Copies, Fetches, Returned
      <3> QED
        BY <3>3, <3>4, <3>5
    <2>3. CASE /\ mem' = Programmed
               /\ call' = [call EXCEPT !.pos = @ + WriteSize, !.size = @ - WriteSize,
                                       !.page = @ + 1, !.offset = 0]
      <3>1. /\ call = [fn |-> "write", page |-> LastPage, offset |-> 0, size |-> PageSize,
                       pos |-> 0, saved |-> call.saved]
            /\ call.saved \in Nat
        BY <2>1, CallCases
      <3>2. WriteSize = PageSize
        BY <3>1, GeometryAssumption DEF WriteSize
      <3>3. call' = [fn |-> "write", page |-> LastPage + 1, offset |-> 0, size |-> 0,
                     pos |-> PageSize, saved |-> call.saved]
        <4>1. PICK s \in Nat : call = [fn |-> "write", page |-> LastPage, offset |-> 0,
                                      size |-> PageSize, pos |-> 0, saved |-> s]
          BY <3>1
        <4>2. 0 + PageSize = PageSize /\ PageSize - PageSize = 0
          BY GeometryAssumption
        <4>3. call' = [call EXCEPT !.pos = @ + PageSize, !.size = @ - PageSize,
                                   !.page = @ + 1, !.offset = 0]
          BY <2>3, <3>2
        <4> QED
          BY <4>1, <4>2, <4>3
      <3>4. call' \in Calls /\ call'.fn = "write"
        BY <3>1, <3>3 DEF Calls
      <3>5. mem' \in [Addresses -> Bytes] /\ Stored' = ram
        <4>1. \A c \in Cells : mem'[TableBase + c] = ram[c]
          BY <2>1, <2>3, ProgrammedIs
        <4>2. ram = [c \in Cells |-> ram[c]]
          OBVIOUS
        <4>3. Stored' = ram
          BY <4>1, <4>2 DEF Stored
        <4> QED
          BY <2>1, <2>3, <4>3, ProgrammedIs
      <3>6. Types'
        BY <1>0, <2>1, <3>4, <3>5
      <3>7. CallShape' /\ LockWork'
        BY <1>0, <2>1, <3>4 DEF CallShape, LockWork, Returned
      <3>8. Rest' /\ Copies' /\ Fetches'
        BY <1>0, <2>1, <3>4, <3>5 DEF Rest, Copies, Fetches, Returned
      <3> QED
        BY <3>6, <3>7, <3>8
    <2> QED
      BY <1>3, <2>2, <2>3 DEF WritePage
  <1>4. CASE WriteReturn
    <2>1. /\ call.fn = "write" /\ call.size = 0 /\ UNCHANGED <<mem, lock, args>>
          /\ Stored' = Stored /\ call' = [fn |-> "none", ret |-> "ok"]
          /\ pc = "write" /\ args.fn = "write" /\ fws' \in Nat
      BY <1>4, CallCases DEF WriteReturn, Return, Stored, CallShape
    <2>2. call' \in Calls
      BY <2>1 DEF Calls
    <2>3. Types'
      BY <1>0, <2>1, <2>2
    <2>4. CallShape' /\ LockWork'
      BY <1>0, <2>1 DEF CallShape, LockWork, Returned
    <2>5. Rest' /\ Copies' /\ Fetches'
      BY <1>0, <2>1 DEF Rest, Copies, Fetches, Returned
    <2> QED
      BY <2>3, <2>4, <2>5
  <1> QED
    BY <1>1, <1>2, <1>3, <1>4 DEF Service, FlashStep

-----------------------------------------------------------------------------
(* A power cut.                                                            *)

\* Inside EWP it leaves the program in front of the page alone.
LEMMA TornIs ==
    ASSUME TableInv, InEwp, NEW m \in TornPages
    PROVE  /\ m \in [Addresses -> Bytes]
           /\ \A a \in Addresses : a \notin PageBytes(LastPage) => m[a] = mem[a]
  <1>1. /\ call.page = LastPage
        /\ Programmed \in [Addresses -> Bytes] /\ mem \in [Addresses -> Bytes]
        /\ \A a \in Addresses : a \notin PageBytes(LastPage) => Programmed[a] = mem[a]
    BY ProgrammedIs DEF InEwp, TableInv, Types
  <1>2. PICK half \in SUBSET PageBytes(LastPage), n \in {mem, Programmed} :
            m = [a \in Addresses |-> IF a \in half THEN Mixed ELSE n[a]]
    BY <1>1 DEF TornPages
  <1>3. /\ n \in [Addresses -> Bytes]
        /\ \A a \in Addresses : a \notin PageBytes(LastPage) => n[a] = mem[a]
    BY <1>1, <1>2
  <1> HIDE DEF Programmed
  <1> QED
    BY <1>2, <1>3 DEF Bytes

LEMMA CutTable == ASSUME TableInv, PowerCut PROVE TableInv'
  <1> USE DEF TableInv, Types, Resting, PowerCut
  <1>1. call' = [fn |-> "none", ret |-> "ok"] /\ args'.fn = "none"
    BY DEF Idle, NoArgs
  <1>2. call' \in Calls
    BY <1>1 DEF Calls
  <1>3. mem' \in [Addresses -> Bytes]
    BY TornIs
  <1>4. expected' \in [Cells -> Bytes \cup {Unknown}]
    BY DEF Nothing
  <1>5. ram' \in [Cells -> Bytes] /\ req' \in [next : Int, last : Int]
    BY DEF Cleared, Bytes, NoReq
  <1>6. Types'
    BY <1>2, <1>3, <1>4, <1>5
  <1>7. CallShape' /\ LockWork'
    BY <1>1 DEF CallShape, LockWork, Returned
  <1>8. Rest' /\ Fetches'
    BY DEF Rest, Fetches
  <1>9. Copies'
    <2>1. CASE InEwp
      <3>1. \A c \in Cells : expected'[c] = Unknown
        BY <2>1 DEF Nothing
      <3> QED
        BY <3>1 DEF Copies
    <2>2. CASE ~InEwp
      <3>1. expected' = expected /\ Stored' = Stored
        BY <2>2 DEF Stored
      <3> QED
        BY <3>1 DEF Copies
    <2> QED
      BY <2>1, <2>2
  <1> QED
    BY <1>6, <1>7, <1>8, <1>9

LEMMA StutterTable == ASSUME TableInv, UNCHANGED vars PROVE TableInv'
  <1>1. /\ UNCHANGED <<mem, lock, fws, call, args>>
        /\ UNCHANGED <<pc, ram, serial, view, timer, req, expected, fault, spilt, risky, fetched>>
        /\ Stored' = Stored
    BY DEF vars, flashVars, tableVars, Stored
  <1>2. Types' /\ CallShape' /\ LockWork'
    BY <1>1 DEF TableInv, Types, CallShape, LockWork, Returned
  <1>3. Rest' /\ Copies' /\ Fetches'
    BY <1>1 DEF TableInv, Rest, Copies, Fetches, Returned
  <1> QED
    BY <1>2, <1>3 DEF TableInv

LEMMA NextTable == ASSUME TableInv, [Next]_vars PROVE TableInv'
BY BootTable, RequestTable, StoreTable, ServiceTable, CutTable, StutterTable
   DEF Next, Device, Environment

-----------------------------------------------------------------------------
\* The invariant holds in every state.
LEMMA TableInvariant == Spec => []TableInv
  <1>1. TableInv /\ [Next]_vars => TableInv'
    BY NextTable
  <1> QED
    BY InitTable, <1>1, PTL DEF Spec

\* A byte that was stored and not written since keeps its value in the page and
\* in flash_table, through failing stores, other requests, bus resets and power
\* cuts outside the programming of the page.
THEOREM TableIsDurable == Spec => []DurableCells
  <1>1. TableInv => DurableCells
    BY DEF TableInv, Copies, DurableCells, Stored
  <1> QED
    BY TableInvariant, <1>1, PTL

\* At rest a locked page and the serial number agree, and the page is locked
\* unless a store was cut short: store_flash_table returns early only with the
\* lock bit cleared or nothing written.
THEOREM RestIsSound == Spec => []SoundAtRest
  <1>1. Locked <=> LastRegion \in lock
    BY TableAddress, LockRange DEF Locked
  <1>2. TableInv => SoundAtRest
    BY <1>1 DEF TableInv, Rest, Resting, SoundAtRest, LockedSerial, LockedAtRest
  <1> QED
    BY TableInvariant, <1>2, PTL

\* flash_lock and flash_unlock, called for the page of the table, touch the lock
\* bit of its region only, and a success means that the bit has its new value.
THEOREM LockIsExact == Spec => []LockExact
  <1>1. ASSUME TableInv PROVE LockExact
    <2>1. args.fn \in {"lock", "unlock"} => RegionsOf(Range) = {LastRegion}
      BY <1>1, TableRegions DEF TableInv, CallShape, Range
    <2> QED
      BY <1>1, <2>1 DEF TableInv, LockWork, LockExact, Succeeded
  <1> QED
    BY TableInvariant, <1>1, PTL

\* TC2_Handler never fetches its code from the unique identifier, unless a store
\* began with the timer running: main_sof_action starts the timer at any frame up
\* to the store, also between the packets of the request, but not inside it.
THEOREM CodeIsFetched == Spec => []FetchesCode
  <1>1. TableInv => FetchesCode
    BY DEF TableInv, Fetches, FetchesCode
  <1> QED
    BY TableInvariant, <1>1, PTL

\* No step of the table's stores, nor a power cut inside one, changes a byte of
\* the program.
THEOREM ProgramIsIntact == Spec => ProgramIntact
  <1>1. ASSUME TableInv, [Next]_vars
        PROVE  [\A a \in 0 .. TableBase - 1 : mem'[a] = mem[a]]_vars
    <2>1. \A a \in 0 .. TableBase - 1 : a \in Addresses /\ a \notin PageBytes(LastPage)
      BY TablePage, Geometry, GeometryAssumption DEF Addresses, TableBase
    <2>2. CASE Service
      <3>1. UNCHANGED mem \/ (call.fn = "write" /\ call.size > 0 /\ mem' = Programmed)
        BY <2>2 DEF Service, FlashStep, LockStep, LockReturn, WritePage, WriteReturn
      <3> QED
        BY <1>1, <2>1, <3>1, ProgrammedIs
    <2>3. CASE PowerCut
      <3>1. UNCHANGED mem \/ (InEwp /\ mem' \in TornPages)
        BY <2>3 DEF PowerCut
      <3> QED
        BY <1>1, <2>1, <3>1, TornIs
    <2>4. CASE UNCHANGED vars
      BY <2>4
    <2>5. CASE ~Service /\ ~PowerCut /\ Next
      <3>1. UNCHANGED mem
        BY <2>5 DEF Next, Device, Environment, PowerOn, ReadFlashTable, UidStart, UidStop,
               StoreBegin, StoreUnlocked, StoreWritten, StoreLocked, StoreReturns, StartLock,
               StartWrite, StartTimer, StopTimer, Tick, EndOfRequest, BusReset, WriteSetup,
               DataPacket, Behind, flashVars
      <3> QED
        BY <3>1
    <2> QED
      BY <1>1, <2>2, <2>3, <2>4, <2>5
  <1> QED
    BY TableInvariant, <1>1, PTL DEF Spec, ProgramIntact
===========================================================================
