-------------------------- MODULE StreamingProofs --------------------------
(***************************************************************************)
(* Proofs about Streaming, for every packet size, lag, warm-up and request *)
(* slot that SlotsAssumption allows, and for every behaviour of the host.  *)
(***************************************************************************)
EXTENDS Streaming, TLAPS

\* Arithmetic modulo n, of a number that wraps at most once.
LEMMA ModSmall ==
    ASSUME NEW n \in Nat, NEW x \in Nat, x < n
    PROVE  x % n = x
  OBVIOUS

LEMMA ModWrap ==
    ASSUME NEW n \in Nat, NEW x \in Nat, n <= x, x < n + n
    PROVE  x % n = x - n
  OBVIOUS

\* The uint8_t increment of TC2_Handler.
LEMMA IncValue ==
    ASSUME NEW s \in 0..(Slots - 1)
    PROVE  Inc(s) = IF s = Slots - 1 THEN 0 ELSE s + 1
  <1>1. CASE s = Slots - 1
    BY <1>1, ModWrap, SlotsAssumption DEF Inc
  <1>2. CASE s # Slots - 1
    <2>1. s + 1 \in Nat /\ s + 1 < Slots
      BY <1>2, SlotsAssumption
    <2>2. (s + 1) % Slots = s + 1
      BY <2>1, ModSmall, SlotsAssumption
    <2>. QED  BY <2>2, <1>2 DEF Inc
  <1>. QED  BY <1>1, <1>2

\* The uint8_t subtraction that rewinds the offsets.
LEMMA SubValue ==
    ASSUME NEW s \in 0..(Slots - 1), NEW k \in 0..(Slots - 1)
    PROVE  Sub(s, k) = IF s >= k THEN s - k ELSE s + Slots - k
  <1>1. CASE s >= k
    <2>1. s + Slots - k \in Nat /\ Slots <= s + Slots - k /\ s + Slots - k < Slots + Slots
      BY <1>1, SlotsAssumption
    <2>2. (s + Slots - k) % Slots = s + Slots - k - Slots
      BY <2>1, ModWrap, SlotsAssumption
    <2>. QED  BY <2>2, <1>1, SlotsAssumption DEF Sub
  <1>2. CASE ~(s >= k)
    <2>1. s + Slots - k \in Nat /\ s + Slots - k < Slots
      BY <1>2, SlotsAssumption
    <2>2. (s + Slots - k) % Slots = s + Slots - k
      BY <2>1, ModSmall, SlotsAssumption
    <2>. QED  BY <2>2, <1>2, SlotsAssumption DEF Sub
  <1>. QED  BY <1>1, <1>2

\* Every value the initial state and an action give a variable is of its type.
LEMMA TypeInit == Init => TypeOK
<1>. SUFFICES ASSUME Init PROVE TypeOK
  OBVIOUS
<1>. USE SlotsAssumption, FramesAssumption, HostOpsAssumption
<1>1. TickType
  BY DEF Init, TickType, PdcType, Slot, Buf
<1>2. FlagType
  BY DEF Init, FlagType, Buf
<1>3. EndpointType
  BY DEF Init, EndpointType, JobType, idleJob, Buf
<1>4. ControlType
  <2>1. mloop \in [dir : Dir, at : MainAt, arg : Buf]
    BY DEF Init, MainAt, Dir, Buf
  <2>2. c5 \in [at : C5At, todo : SUBSET Stores, frame : Frames]
    BY DEF Init, C5At
  <2>. QED  BY <2>1, <2>2 DEF ControlType
<1>5. HistoryType
  <2>1. starts \in 0..MaxStarts
    BY DEF Init
  <2>2. session \in {"none", "clean", "dirty"} /\ raced \in BOOLEAN /\ stopped \in BOOLEAN
    BY DEF Init
  <2>3. late \in [Dir -> BOOLEAN]
    BY DEF Init
  <2>4. inState \in [Buf -> {"stale", "ready", "sent"}]
    BY DEF Init
  <2>5. outState \in [Buf -> {"empty", "full"}]
    BY DEF Init
  <2>6. owed \in [Dir -> {"none", "in", "out", "first"}]
    BY DEF Init
  <2>. QED  BY <2>1, <2>2, <2>3, <2>4, <2>5, <2>6 DEF HistoryType
<1>. QED  BY <1>1, <1>2, <1>3, <1>4, <1>5 DEF TypeOK

\* What each group of variables is changed by.
LEMMA TickFrame ==
    [Next]_vars => \/ TickA \/ TickB \/ (\E X \in NextStores : C5Store(X))
                   \/ (\E f \in Frames : C5Begin(f)) \/ UNCHANGED tickVars
  BY DEF Next, C5Step, Main, MainTest, MainReadsOther, MainClear, MainSet, MainArg, MainCheck,
         MainBusy, MainFill, MainTrans, C5Config, C5Run, Sof, C5Stop, DmaDone, EpSetHalt,
         EpClearHalt, UsbDisable, UsbEnable, vars

LEMMA TickTypeNext == TypeOK /\ [Next]_vars => TickType'
<1>. SUFFICES ASSUME TypeOK, [Next]_vars PROVE TickType'
  OBVIOUS
<1>. USE SlotsAssumption DEF TypeOK, TickType
<1>1. CASE TickA
  BY <1>1 DEF TickA, PointPdc, PdcType, Dir
<1>2. CASE TickB
  <2>1. pdc' \in [Dir -> PdcType]
    BY <1>2 DEF TickB, PointPdc, PdcType, Dir
  <2>2. Inc(slot_offset_in) \in Slot /\ Inc(slot_offset_out) \in Slot
    BY IncValue DEF Slot
  <2>3. Rewind(Inc(slot_offset_out)) \in Slot
    BY DEF Rewind, Slot
  <2>4. slot_offset_in' \in Slot /\ slot_offset_out' \in Slot
    BY <1>2, <2>2, <2>3, SubValue DEF TickB, Slot
  <2>5. current_chan' \in {"A", "B"} /\ packet_index_in' \in Buf /\ packet_index_out' \in Buf
        /\ not_a_new_transfer' \in {0, Warm}
    BY <1>2 DEF TickB, PacketEnd, InSwitch, EndWarmUp, RequestOut, PlainSlot, Buf
  <2>. QED  BY <2>1, <2>4, <2>5
<1>3. CASE \E X \in NextStores : C5Store(X)
  BY <1>3 DEF C5Store, Slot, Buf
<1>4. CASE \E f \in Frames : C5Begin(f)
  BY <1>4 DEF C5Begin
<1>5. CASE UNCHANGED tickVars
  BY <1>5 DEF tickVars
<1>. QED  BY <1>1, <1>2, <1>3, <1>4, <1>5, TickFrame

LEMMA FlagTypeNext == TypeOK /\ [Next]_vars => FlagType'
<1>. SUFFICES ASSUME TypeOK, [Next]_vars PROVE FlagType'
  OBVIOUS
<1>. USE FramesAssumption DEF TypeOK, FlagType, flagVars
<1>1. CASE TickA
  BY <1>1 DEF TickA
<1>2. CASE TickB
  <2>1. send' \in [Dir -> BOOLEAN]
    BY <1>2 DEF TickB, PacketEnd, InSwitch, EndWarmUp, RequestOut, PlainSlot
  <2>2. packet_index_send' \in [Dir -> Buf]
    BY <1>2 DEF TickB, PacketEnd, InSwitch, EndWarmUp, RequestOut, PlainSlot, TickType, Buf
  <2>. QED  BY <1>2, <2>1, <2>2 DEF TickB
<1>3. CASE Main
  <2>0. PICK d \in Dir :
          \/ MainTest(d) \/ MainReadsOther(d) \/ MainClear(d) \/ MainSet(d) \/ MainArg(d)
          \/ MainCheck(d) \/ MainBusy(d) \/ MainFill(d) \/ MainTrans(d)
    BY <1>3 DEF Main
  <2>1. CASE MainTest(d) \/ MainReadsOther(d) \/ MainArg(d) \/ MainCheck(d) \/ MainBusy(d) \/ MainFill(d)
    BY <2>1 DEF MainTest, MainReadsOther, MainArg, MainCheck, MainBusy, MainFill
  <2>2. CASE MainClear(d)
    BY <2>2 DEF MainClear
  <2>3. CASE MainSet(d)
    BY <2>3 DEF MainSet
  <2>4. CASE MainTrans(d)
    BY <2>4 DEF MainTrans, TransDone, Callback, NoCallback
  <2>. QED  BY <2>0, <2>1, <2>2, <2>3, <2>4
<1>4. CASE \E X \in NextStores : C5Store(X)
  <2>0. PICK X : C5Store(X)
    BY <1>4
  <2>1. send' \in [Dir -> BOOLEAN] /\ sending' \in [Dir -> BOOLEAN]
    BY <2>0 DEF C5Store
  <2>2. packet_index_send' \in [Dir -> Buf]
    BY <2>0 DEF C5Store, Buf
  <2>. QED  BY <2>0, <2>1, <2>2 DEF C5Store
<1>5. CASE C5Config
  <2>1. start_frame' \in Frames
    BY <1>5 DEF C5Config, ControlType
  <2>2. send' \in [Dir -> BOOLEAN] /\ sending' \in [Dir -> BOOLEAN]
    BY <1>5 DEF C5Config
  <2>. QED  BY <1>5, <2>1, <2>2 DEF C5Config
<1>6. CASE C5Run
  BY <1>6 DEF C5Run
<1>7. CASE \E f \in Frames : Sof(f)
  BY <1>7 DEF Sof
<1>8. CASE \E f \in Frames : C5Begin(f)
  BY <1>8 DEF C5Begin
<1>9. CASE C5Stop
  BY <1>9 DEF C5Stop
<1>10. CASE \E d \in Dir : DmaDone(d)
  BY <1>10 DEF DmaDone, TransDone, Callback, NoCallback
<1>11. CASE \E d \in Dir : EpSetHalt(d)
  BY <1>11 DEF EpSetHalt
<1>12. CASE \E d \in Dir : EpClearHalt(d)
  BY <1>12 DEF EpClearHalt, Callback, NoCallback
<1>13. CASE UsbDisable
  BY <1>13 DEF UsbDisable
<1>14. CASE UsbEnable
  BY <1>14 DEF UsbEnable
<1>15. CASE UNCHANGED vars
  BY <1>15 DEF vars
<1>. QED
  BY <1>1, <1>2, <1>3, <1>4, <1>5, <1>6, <1>7, <1>8, <1>9, <1>10, <1>11, <1>12, <1>13,
     <1>14, <1>15 DEF Next, C5Step

\* The jobs stay jobs under each kind of update.
LEMMA JobUpdates ==
    ASSUME NEW j \in JobType
    PROVE  /\ Aborted(j) \in JobType
           /\ \A b \in BOOLEAN : /\ [j EXCEPT !.busy = b] \in JobType
                                 /\ [j EXCEPT !.loaded = b] \in JobType
           /\ \A b \in Buf : [j EXCEPT !.buf = b] \in JobType
           /\ \A d \in Dir : [j EXCEPT !.cb = d] \in JobType
           /\ [j EXCEPT !.dma = None] \in JobType
           /\ [j EXCEPT !.loaded = TRUE, !.dma = j.buf] \in JobType
  BY DEF JobType, Aborted, Dir

LEMMA EndpointTypeNext == TypeOK /\ [Next]_vars => EndpointType'
<1>. SUFFICES ASSUME TypeOK, [Next]_vars PROVE EndpointType'
  OBVIOUS
<1>. USE DEF EndpointType
<1>0. EndpointType
  BY DEF TypeOK
<1>1. CASE TickA \/ TickB \/ C5Config \/ C5Stop \/ (\E f \in Frames : Sof(f))
           \/ (\E X \in NextStores : C5Store(X)) \/ UNCHANGED vars
  BY <1>0, <1>1 DEF TickA, TickB, C5Config, C5Stop, Sof, C5Store, vars
<1>2. ASSUME NEW d \in Dir, NEW j \in JobType, TransDone(d, j)
      PROVE  job' \in [Dir -> JobType]
  <2>1. \/ job' = [job EXCEPT ![d] = j]
        \/ job' = [job EXCEPT ![d] = [j EXCEPT !.loaded = TRUE, !.dma = j.buf]]
        \/ job' = [job EXCEPT ![d] = [j EXCEPT !.busy = FALSE]]
    BY <1>2 DEF TransDone
  <2>. QED  BY <1>0, <2>1, JobUpdates
<1>3. CASE Main
  <2>0. PICK d \in Dir :
          \/ MainTest(d) \/ MainReadsOther(d) \/ MainClear(d) \/ MainSet(d) \/ MainArg(d)
          \/ MainCheck(d) \/ MainBusy(d) \/ MainFill(d) \/ MainTrans(d)
    BY <1>3 DEF Main
  <2>1. CASE MainTest(d) \/ MainReadsOther(d) \/ MainArg(d) \/ MainCheck(d) \/ MainClear(d)
             \/ MainSet(d)
    BY <1>0, <2>1 DEF MainTest, MainReadsOther, MainArg, MainCheck, MainClear, MainSet
  <2>2. CASE MainBusy(d)
    <3>1. job' = job \/ job' = [job EXCEPT ![d].busy = TRUE]
      BY <2>2 DEF MainBusy
    <3>2. job' \in [Dir -> JobType]
      <4>1. CASE job' = job
        BY <1>0, <4>1
      <4>2. CASE job' = [job EXCEPT ![d].busy = TRUE]
        BY <1>0, <4>2 DEF JobType
      <4>. QED  BY <3>1, <4>1, <4>2
    <3>. QED  BY <1>0, <2>2, <3>2 DEF MainBusy
  <2>3. CASE MainFill(d)
    <3>1. mloop.arg \in Buf
      BY DEF TypeOK, ControlType
    <3>2. \/ job' = [job EXCEPT ![d].buf = mloop.arg]
          \/ job' = [job EXCEPT ![d].loaded = FALSE]
          \/ job' = [job EXCEPT ![d].cb = d]
      BY <2>3 DEF MainFill
    <3>3. job' \in [Dir -> JobType]
      <4>1. CASE job' = [job EXCEPT ![d].buf = mloop.arg]
        BY <1>0, <3>1, <4>1 DEF JobType
      <4>2. CASE job' = [job EXCEPT ![d].loaded = FALSE]
        BY <1>0, <4>2 DEF JobType
      <4>3. CASE job' = [job EXCEPT ![d].cb = d]
        <5>1. d \in {"null", "in", "out", "first"}
          BY DEF Dir
        <5>. QED  BY <1>0, <4>3, <5>1 DEF JobType
      <4>. QED  BY <3>2, <4>1, <4>2, <4>3
    <3>. QED  BY <1>0, <2>3, <3>3 DEF MainFill
  <2>4. CASE MainTrans(d)
    BY <1>0, <2>4, <1>2 DEF MainTrans
  <2>. QED  BY <2>0, <2>1, <2>2, <2>3, <2>4
<1>4. CASE C5Run
  <2>1. packet_index_send["out"] \in Buf
    BY DEF TypeOK, FlagType, Dir
  <2>2. [busy |-> TRUE, loaded |-> TRUE, cb |-> "first", buf |-> packet_index_send["out"],
         dma |-> packet_index_send["out"]] \in JobType
    BY <2>1 DEF JobType
  <2>. QED  BY <1>0, <1>4, <2>2 DEF C5Run
<1>5. CASE \E f \in Frames : C5Begin(f)
  BY <1>0, <1>5, JobUpdates DEF C5Begin
<1>6. CASE \E d \in Dir : DmaDone(d)
  <2>0. PICK d \in Dir : DmaDone(d)
    BY <1>6
  <2>1. [job[d] EXCEPT !.dma = None] \in JobType
    BY <1>0, JobUpdates
  <2>. QED  BY <1>0, <2>0, <2>1, <1>2 DEF DmaDone
<1>7. CASE \E d \in Dir : EpSetHalt(d)
  <2>0. PICK d \in Dir : EpSetHalt(d)
    BY <1>7
  <2>1. job' \in [Dir -> JobType]
    BY <1>0, <2>0, JobUpdates DEF EpSetHalt
  <2>2. halted' \in [Dir -> BOOLEAN]
    BY <1>0, <2>0 DEF EpSetHalt
  <2>. QED  BY <1>0, <2>0, <2>1, <2>2 DEF EpSetHalt
<1>8. CASE \E d \in Dir : EpClearHalt(d)
  <2>0. PICK d \in Dir : EpClearHalt(d)
    BY <1>8
  <2>1. job' \in [Dir -> JobType]
    BY <1>0, <2>0 DEF EpClearHalt, JobType
  <2>2. halted' \in [Dir -> BOOLEAN]
    BY <1>0, <2>0 DEF EpClearHalt
  <2>. QED  BY <1>0, <2>0, <2>1, <2>2 DEF EpClearHalt
<1>9. CASE UsbDisable
  <2>1. job' \in [Dir -> JobType]
    BY <1>0, <1>9, JobUpdates DEF UsbDisable, EpFree
  <2>. QED  BY <1>9, <2>1 DEF UsbDisable
<1>10. CASE UsbEnable
  <2>1. job' \in [Dir -> JobType]
    BY <1>0, <1>10, JobUpdates DEF UsbEnable, EpAlloc
  <2>. QED  BY <1>0, <1>10, <2>1 DEF UsbEnable
<1>. QED
  BY <1>1, <1>3, <1>4, <1>5, <1>6, <1>7, <1>8, <1>9, <1>10 DEF Next, C5Step

LEMMA ControlTypeNext == TypeOK /\ [Next]_vars => ControlType'
<1>. SUFFICES ASSUME TypeOK, [Next]_vars PROVE ControlType'
  OBVIOUS
<1>. USE DEF ControlType
<1>0. ControlType
  BY DEF TypeOK
<1>1. CASE TickA \/ TickB \/ C5Stop \/ (\E f \in Frames : Sof(f)) \/ UsbDisable \/ UsbEnable
           \/ (\E d \in Dir : DmaDone(d) \/ EpSetHalt(d) \/ EpClearHalt(d)) \/ UNCHANGED vars
  BY <1>0, <1>1 DEF TickA, TickB, C5Stop, Sof, UsbDisable, UsbEnable, DmaDone, EpSetHalt,
       EpClearHalt, vars
<1>2. CASE Main
  <2>0. PICK d \in Dir :
          \/ MainTest(d) \/ MainReadsOther(d) \/ MainClear(d) \/ MainSet(d) \/ MainArg(d)
          \/ MainCheck(d) \/ MainBusy(d) \/ MainFill(d) \/ MainTrans(d)
    BY <1>2 DEF Main
  <2>1. Leave(d) \/ (\E l \in MainAt : Goto(l)) \/ MainArg(d)
    BY <2>0 DEF MainTest, MainReadsOther, MainClear, MainSet, MainCheck, MainBusy, MainFill,
         MainTrans, MainAt
  <2>2. c5' = c5
    BY <2>0 DEF MainTest, MainReadsOther, MainClear, MainSet, MainCheck, MainBusy, MainFill,
         MainTrans, MainArg
  <2>3. mloop' \in [dir : Dir, at : MainAt, arg : Buf]
    <3>1. CASE Leave(d)
      BY <1>0, <3>1 DEF Leave, Dir, MainAt
    <3>2. CASE \E l \in MainAt : Goto(l)
      BY <1>0, <3>2 DEF Goto
    <3>3. CASE MainArg(d)
      <4>1. packet_index_send[d] \in Buf
        BY DEF TypeOK, FlagType
      <4>. QED  BY <1>0, <3>3, <4>1 DEF MainArg, MainAt
    <3>. QED  BY <2>1, <3>1, <3>2, <3>3
  <2>. QED  BY <1>0, <2>2, <2>3
<1>3. CASE \E X \in NextStores : C5Store(X)
  <2>0. PICK X \in NextStores : C5Store(X)
    BY <1>3
  <2>1. c5.todo \ X \in SUBSET Stores
    BY <1>0
  <2>2. (IF c5.todo = X THEN "config" ELSE c5.at) \in C5At
    BY <1>0 DEF C5At
  <2>3. c5' = [c5 EXCEPT !.todo = c5.todo \ X, !.at = IF c5.todo = X THEN "config" ELSE c5.at]
    BY <2>0 DEF C5Store
  <2>. QED  BY <1>0, <2>0, <2>1, <2>2, <2>3 DEF C5Store
<1>4. CASE C5Config
  BY <1>0, <1>4 DEF C5Config, C5At
<1>5. CASE C5Run
  BY <1>0, <1>5 DEF C5Run, C5At
<1>6. CASE \E f \in Frames : C5Begin(f)
  BY <1>0, <1>6 DEF C5Begin, C5At
<1>. QED
  BY <1>1, <1>2, <1>3, <1>4, <1>5, <1>6 DEF Next, C5Step

\* History variables change with the actions that name them.
LEMMA HistoryTypeNext == TypeOK /\ [Next]_vars => HistoryType'
<1>. SUFFICES ASSUME TypeOK, [Next]_vars PROVE HistoryType'
  OBVIOUS
<1>. USE DEF HistoryType, history
<1>0. HistoryType
  BY DEF TypeOK
<1>1. CASE (\E f \in Frames : Sof(f)) \/ C5Config \/ (\E X \in NextStores : C5Store(X))
           \/ UNCHANGED vars
  BY <1>0, <1>1 DEF Sof, C5Config, C5Store, vars
<1>2. ASSUME Forget
      PROVE  /\ late' \in [Dir -> BOOLEAN]
             /\ inState' \in [Buf -> {"stale", "ready", "sent"}]
             /\ outState' \in [Buf -> {"empty", "full"}]
  <2>1. late' \in [Dir -> BOOLEAN]
    BY <1>2 DEF Forget
  <2>2. inState' \in [Buf -> {"stale", "ready", "sent"}]
    BY <1>2 DEF Forget
  <2>3. outState' \in [Buf -> {"empty", "full"}]
    BY <1>2 DEF Forget
  <2>. QED  BY <2>1, <2>2, <2>3
<1>3. CASE TickA
  <2>1. raced' \in BOOLEAN
    BY <1>3 DEF TickA
  <2>. QED  BY <1>0, <1>3, <2>1 DEF TickA
<1>4. CASE TickB
  <2>1. late' \in [Dir -> BOOLEAN]
    BY <1>0, <1>4 DEF TickB, PacketEnd, InSwitch, EndWarmUp, RequestOut, PlainSlot
  <2>2. inState' \in [Buf -> {"stale", "ready", "sent"}]
    BY <1>0, <1>4 DEF TickB, PacketEnd, InSwitch, EndWarmUp, RequestOut, PlainSlot, Track
  <2>3. outState' \in [Buf -> {"empty", "full"}]
    BY <1>0, <1>4 DEF TickB, PacketEnd, InSwitch, EndWarmUp, RequestOut, PlainSlot, Track
  <2>. QED  BY <1>0, <1>4, <2>1, <2>2, <2>3 DEF TickB
<1>5. ASSUME NEW d \in Dir, NEW j, TransDone(d, j)
      PROVE  /\ inState' \in [Buf -> {"stale", "ready", "sent"}]
             /\ outState' \in [Buf -> {"empty", "full"}]
             /\ owed' \in [Dir -> {"none", "in", "out", "first"}]
  <2>1. inState' \in [Buf -> {"stale", "ready", "sent"}]
    BY <1>0, <1>5 DEF TransDone, Track
  <2>2. outState' \in [Buf -> {"empty", "full"}]
    BY <1>0, <1>5 DEF TransDone, Track
  <2>3. owed' \in [Dir -> {"none", "in", "out", "first"}]
    BY <1>0, <1>5 DEF TransDone
  <2>. QED  BY <2>1, <2>2, <2>3
<1>6. CASE Main
  <2>0. PICK d \in Dir :
          \/ MainTest(d) \/ MainReadsOther(d) \/ MainClear(d) \/ MainSet(d) \/ MainArg(d)
          \/ MainCheck(d) \/ MainBusy(d) \/ MainFill(d) \/ MainTrans(d)
    BY <1>6 DEF Main
  <2>1. CASE ~MainBusy(d) /\ ~MainTrans(d)
    BY <1>0, <2>0, <2>1 DEF MainTest, MainReadsOther, MainClear, MainSet, MainArg, MainCheck, MainFill
  <2>2. CASE MainBusy(d)
    <3>1. owed' \in [Dir -> {"none", "in", "out", "first"}]
      BY <1>0, <2>2 DEF MainBusy, Dir
    <3>. QED  BY <1>0, <2>2, <3>1 DEF MainBusy
  <2>3. CASE MainTrans(d)
    BY <1>0, <1>5, <2>3 DEF MainTrans
  <2>. QED  BY <2>1, <2>2, <2>3
<1>7. CASE C5Run
  <2>1. owed' \in [Dir -> {"none", "in", "out", "first"}]
    BY <1>0, <1>7 DEF C5Run
  <2>. QED  BY <1>0, <1>7, <2>1 DEF C5Run
<1>8. CASE \E f \in Frames : C5Begin(f)
  <2>1. owed' \in [Dir -> {"none", "in", "out", "first"}]
    BY <1>8 DEF C5Begin
  <2>2. starts' \in 0..MaxStarts
    BY <1>0, <1>8, HostOpsAssumption DEF C5Begin
  <2>. QED  BY <1>2, <1>8, <2>1, <2>2 DEF C5Begin
<1>9. CASE C5Stop
  BY <1>0, <1>9 DEF C5Stop
<1>10. CASE \E d \in Dir : DmaDone(d)
  BY <1>0, <1>5, <1>10 DEF DmaDone
<1>11. CASE \E d \in Dir : EpSetHalt(d)
  <2>1. owed' \in [Dir -> {"none", "in", "out", "first"}]
    BY <1>0, <1>11 DEF EpSetHalt
  <2>. QED  BY <1>0, <1>2, <1>11, <2>1 DEF EpSetHalt, Dirty
<1>12. CASE \E d \in Dir : EpClearHalt(d)
  <2>1. owed' \in [Dir -> {"none", "in", "out", "first"}]
    BY <1>0, <1>12 DEF EpClearHalt
  <2>. QED  BY <1>0, <1>12, <2>1 DEF EpClearHalt
<1>13. CASE UsbDisable
  <2>1. owed' \in [Dir -> {"none", "in", "out", "first"}]
    BY <1>13 DEF UsbDisable
  <2>. QED  BY <1>0, <1>2, <1>13, <2>1 DEF UsbDisable, Dirty
<1>14. CASE UsbEnable
  BY <1>0, <1>2, <1>14 DEF UsbEnable, Dirty
<1>. QED
  BY <1>1, <1>3, <1>4, <1>6, <1>7, <1>8, <1>9, <1>10, <1>11, <1>12, <1>13, <1>14
  DEF Next, C5Step

\* Every variable keeps its type, and so every PDC pointer TC2_Handler programs
\* stays inside its packet, whatever the host does and whenever it does it.
THEOREM Typing == Spec => []TypeOK
<1>1. TypeOK /\ [Next]_vars => TypeOK'
  BY TickTypeNext, FlagTypeNext, EndpointTypeNext, ControlTypeNext, HistoryTypeNext DEF TypeOK
<1>. QED  BY <1>1, TypeInit, PTL DEF Spec

(***************************************************************************)
(* SlotsAligned is not inductive: it says nothing while the 0xC5 handler   *)
(* runs.  AlignInv adds what the stores done so far have established.      *)
(***************************************************************************)
ResetDone ==
    /\ not_a_new_transfer = Warm
    /\ "slot_offset_in" \notin c5.todo => slot_offset_in = Slots - Lag
    /\ "slot_offset_out" \notin c5.todo => slot_offset_out = 0
    /\ "packet_index_in" \notin c5.todo => packet_index_in = 0
    /\ "packet_index_out" \notin c5.todo => packet_index_out = 0

AlignInv ==
    /\ c5.at # "stores" => c5.todo = {}
    /\ ~raced => IF c5.at = "idle" THEN Aligned ELSE ResetDone

\* A slot's end on channel B keeps the ADC and the DAC aligned.
LEMMA TickAligned == TypeOK /\ Aligned /\ TickB => Aligned'
<1>. SUFFICES ASSUME TypeOK, Aligned, TickB PROVE Aligned'
  OBVIOUS
<1>. DEFINE out == Inc(slot_offset_out)
            in == Inc(slot_offset_in)
<1>1. slot_offset_out \in Slot /\ slot_offset_in \in Slot /\ packet_index_in \in Buf
      /\ packet_index_out \in Buf /\ not_a_new_transfer \in {0, Warm}
  BY DEF TypeOK, TickType
<1>2. /\ out = IF slot_offset_out = Slots - 1 THEN 0 ELSE slot_offset_out + 1
      /\ in = IF slot_offset_in = Slots - 1 THEN 0 ELSE slot_offset_in + 1
      /\ out \in Slot /\ in \in Slot
  BY <1>1, IncValue, SlotsAssumption DEF Slot
<1>3. \A s, k \in Slot : Sub(s, k) = IF s >= k THEN s - k ELSE s + Slots - k
  BY SubValue DEF Slot
<1>4. in = Sub(out, Lag)
  <2>. HIDE DEF out, in
  <2>1. Lag \in Slot
    BY SlotsAssumption DEF Slot
  <2>2. slot_offset_in = IF slot_offset_out >= Lag THEN slot_offset_out - Lag
                                                  ELSE slot_offset_out + Slots - Lag
    BY <1>1, <1>3, <2>1 DEF Aligned
  <2>3. Sub(out, Lag) = IF out >= Lag THEN out - Lag ELSE out + Slots - Lag
    BY <1>2, <1>3, <2>1
  <2>. QED  BY <1>1, <1>2, <2>2, <2>3, SlotsAssumption DEF Slot
<1>5. /\ slot_offset_out' = Sub(out, Rewind(out))
      /\ slot_offset_in' = Sub(in, Rewind(out))
  BY DEF TickB
<1>. HIDE DEF out, in
<1>6. CASE out = Warm /\ not_a_new_transfer = Warm
  <2>1. slot_offset_out' = 0 /\ slot_offset_in' = Slots - Lag
    <3>1. Lag \in Slot /\ Warm \in Slot /\ Rewind(out) = Warm
      BY <1>6, SlotsAssumption DEF Rewind, Slot
    <3>2. in = Warm - Lag
      BY <1>3, <1>4, <1>6, <3>1, SlotsAssumption
    <3>3. Sub(out, Warm) = 0
      BY <1>3, <1>6, <3>1, SlotsAssumption
    <3>4. Sub(in, Warm) = in + Slots - Warm
      BY <1>2, <1>3, <3>1, <3>2, SlotsAssumption
    <3>. QED  BY <1>5, <3>1, <3>2, <3>3, <3>4, SlotsAssumption
  <2>2. slot_offset_in' = Sub(slot_offset_out', Lag)
    BY <2>1, <1>3, SlotsAssumption DEF Slot
  <2>3. EndWarmUp
    BY <1>6, SlotsAssumption DEF TickB, out
  <2>4. packet_index_in # packet_index_out
    BY <1>1, <1>2, <1>6, SlotsAssumption DEF Aligned, Slot
  <2>. QED  BY <2>1, <2>2, <2>3, <2>4, SlotsAssumption DEF Aligned, EndWarmUp
<1>7. CASE ~(out = Warm /\ not_a_new_transfer = Warm)
  <2>1. Rewind(out) = 0
    BY <1>1, <1>7 DEF Rewind
  <2>2. slot_offset_out' = out /\ slot_offset_in' = in
    BY <1>2, <1>3, <1>5, <2>1, SlotsAssumption DEF Slot
  <2>3. slot_offset_in' = Sub(slot_offset_out', Lag)
    BY <2>2, <1>4
  <2>4. CASE out = 0
    <3>1. PacketEnd
      BY <2>4, SlotsAssumption DEF TickB, out
    <3>. QED  BY <1>1, <1>2, <2>2, <2>3, <2>4, <3>1, SlotsAssumption DEF Aligned, PacketEnd, Slot, Buf
  <2>5. CASE out = Lag
    <3>1. InSwitch
      BY <2>5, SlotsAssumption DEF TickB, out
    <3>. QED  BY <1>1, <1>2, <2>2, <2>3, <2>5, <3>1, SlotsAssumption DEF Aligned, InSwitch, Slot, Buf
  <2>6. CASE out \notin {0, Lag}
    <3>1. UNCHANGED <<packet_index_in, packet_index_out>>
          /\ not_a_new_transfer' = not_a_new_transfer
      <4>1. EndWarmUp \/ RequestOut \/ PlainSlot
        BY <2>6 DEF TickB, out
      <4>2. EndWarmUp => not_a_new_transfer = 0
        BY <1>1, <1>7, <2>6, SlotsAssumption DEF TickB, out, EndWarmUp, PlainSlot, RequestOut
      <4>. QED  BY <4>1, <4>2 DEF EndWarmUp, RequestOut, PlainSlot
    <3>. QED  BY <1>1, <1>2, <1>7, <2>2, <2>3, <2>6, <3>1, SlotsAssumption DEF Aligned, Slot
  <2>. QED  BY <2>4, <2>5, <2>6
<1>. QED  BY <1>6, <1>7

\* AlignInv is inductive, given the types.
LEMMA AlignInit == Init => AlignInv
  BY DEF Init, AlignInv

LEMMA AlignNext == TypeOK /\ AlignInv /\ [Next]_vars => AlignInv'
<1>. SUFFICES ASSUME TypeOK, AlignInv, [Next]_vars PROVE AlignInv'
  OBVIOUS
<1>. USE SlotsAssumption
<1>0. c5.at \in C5At /\ c5 = [at |-> c5.at, todo |-> c5.todo, frame |-> c5.frame]
      /\ not_a_new_transfer \in {0, Warm}
  BY DEF TypeOK, ControlType, TickType
<1>1. CASE TickA
  BY <1>1 DEF TickA, AlignInv, Aligned, ResetDone
<1>2. CASE TickB
  <2>1. c5' = c5 /\ (~raced' => ~raced /\ c5.at = "idle")
    BY <1>2 DEF TickB
  <2>2. ~raced' => Aligned'
    BY <1>2, <2>1, TickAligned DEF AlignInv
  <2>. QED  BY <2>1, <2>2 DEF AlignInv
<1>3. CASE \E X \in NextStores : C5Store(X)
  <2>0. PICK X \in NextStores : C5Store(X)
    BY <1>3
  <2>1. /\ c5.at = "stores" /\ raced' = raced /\ not_a_new_transfer' = not_a_new_transfer
        /\ c5'.todo = c5.todo \ X
        /\ c5'.at = IF c5.todo = X THEN "config" ELSE "stores"
    BY <1>0, <2>0 DEF C5Store, history
  <2>2. ~raced => ResetDone'
    BY <2>0, <2>1 DEF AlignInv, ResetDone, C5Store
  <2>. QED  BY <2>1, <2>2 DEF AlignInv
<1>4. CASE C5Config
  BY <1>0, <1>4 DEF C5Config, AlignInv, ResetDone, tickVars, history
<1>5. CASE C5Run
  <2>1. c5'.at = "idle" /\ c5'.todo = c5.todo /\ raced' = raced /\ UNCHANGED tickVars
    BY <1>0, <1>5 DEF C5Run
  <2>2. ~raced => Aligned'
    <3>1. ASSUME ~raced
          PROVE  slot_offset_in = Slots - Lag /\ slot_offset_out = 0 /\ packet_index_in = 0
                 /\ packet_index_out = 0 /\ not_a_new_transfer = Warm
      BY <1>5, <3>1 DEF AlignInv, ResetDone, C5Run
    <3>2. 0 \in 0..(Slots - 1) /\ Lag \in 0..(Slots - 1)
      OBVIOUS
    <3>3. Sub(0, Lag) = Slots - Lag
      BY <3>2, SubValue
    <3>. QED  BY <2>1, <3>1, <3>3 DEF Aligned, tickVars
  <2>. QED  BY <1>5, <2>1, <2>2 DEF AlignInv, C5Run
<1>6. CASE \E f \in Frames : C5Begin(f)
  BY <1>6 DEF C5Begin, AlignInv, ResetDone, Stores, PlainStores
<1>7. CASE UNCHANGED <<tickVars, c5, raced>>
  BY <1>7 DEF AlignInv, Aligned, ResetDone, tickVars
<1>8. \/ TickA \/ TickB \/ (\E X \in NextStores : C5Store(X)) \/ C5Config \/ C5Run
      \/ (\E f \in Frames : C5Begin(f)) \/ UNCHANGED <<tickVars, c5, raced>>
  BY DEF Next, C5Step, Main, MainTest, MainReadsOther, MainClear, MainSet, MainArg, MainCheck,
         MainBusy, MainFill, MainTrans, Sof, C5Stop, DmaDone, EpSetHalt, EpClearHalt,
         UsbDisable, UsbEnable, vars, history
<1>. QED  BY <1>1, <1>2, <1>3, <1>4, <1>5, <1>6, <1>7, <1>8

\* The ADC and the DAC stay aligned in every session in which no tick fell
\* inside the 0xC5 handler, for every packet size, lag and warm-up.
THEOREM Alignment == Spec => []SlotsAligned
<1>1. AlignInv => SlotsAligned
  BY DEF AlignInv, SlotsAligned
<1>. QED  BY <1>1, AlignInit, AlignNext, Typing, PTL DEF Spec

(***************************************************************************)
(* When the timer may run.  Both invariants turn on sent_out: it is set by *)
(* the first callback only, together with start_timer, and cleared by the  *)
(* 0xC5 handler only.                                                      *)
(***************************************************************************)
StopInv ==
    /\ stopped => ~timerOn /\ ~start_timer /\ sent_out
    /\ c5.at # "idle" => ~stopped

StartInv ==
    session = "clean" => /\ c5.at # "idle" => ~timerOn /\ ~start_timer
                         /\ c5.at = "idle" /\ (timerOn \/ start_timer) => sent_out

\* What the end of a transfer does to the variables of the two invariants.
LEMMA TransDoneStarts ==
    ASSUME TypeOK, NEW d, NEW j, TransDone(d, j)
    PROVE  (start_timer' /\ ~start_timer => ~sent_out /\ sent_out') /\ (sent_out => sent_out')
<1>. start_timer \in BOOLEAN /\ sent_out \in BOOLEAN
  BY DEF TypeOK, FlagType
<1>1. CASE NoCallback
  BY <1>1 DEF NoCallback
<1>2. CASE Callback(j.cb)
  BY <1>2 DEF Callback
<1>. QED  BY <1>1, <1>2 DEF TransDone

LEMMA StartFrame ==
    ASSUME TypeOK, [Next]_vars
    PROVE  \/ /\ UNCHANGED <<timerOn, stopped, c5>>
              /\ session' = session \/ session' # "clean"
              /\ c5.at # "idle" => start_timer' = start_timer
              /\ start_timer' /\ ~start_timer => ~sent_out /\ sent_out'
              /\ sent_out => sent_out'
           \/ (\E f \in Frames : Sof(f)) \/ C5Step \/ C5Stop
           \/ (\E f \in Frames : C5Begin(f))
<1>1. CASE Main
  <2>0. PICK d \in Dir :
          \/ MainTest(d) \/ MainReadsOther(d) \/ MainClear(d) \/ MainSet(d) \/ MainArg(d)
          \/ MainCheck(d) \/ MainBusy(d) \/ MainFill(d) \/ MainTrans(d)
    BY <1>1 DEF Main
  <2>1. CASE MainTrans(d)
    BY <2>1, TransDoneStarts DEF MainTrans, At, Thread
  <2>2. CASE ~MainTrans(d)
    BY <2>0, <2>2 DEF MainTest, MainReadsOther, MainClear, MainSet, MainArg, MainCheck,
         MainBusy, MainFill, flagVars, history
  <2>. QED  BY <2>1, <2>2
<1>2. CASE \E d \in Dir : DmaDone(d)
  BY <1>2, TransDoneStarts DEF DmaDone, UsbIsr
<1>3. CASE \E d \in Dir : EpClearHalt(d)
  BY <1>3 DEF EpClearHalt, UsbIsr, Callback, NoCallback
<1>4. CASE TickA \/ TickB \/ UsbDisable \/ UsbEnable \/ (\E d \in Dir : EpSetHalt(d))
           \/ UNCHANGED vars
  BY <1>4 DEF TickA, TickB, UsbDisable, UsbEnable, EpSetHalt, Dirty, flagVars, history, vars
<1>. QED  BY <1>1, <1>2, <1>3, <1>4 DEF Next

\* A stop that finds the stream started and not armed is final.
THEOREM StopIsFinal == Spec => []StopHolds
<1>1. Init => StopInv
  BY DEF Init, StopInv
<1>2. TypeOK /\ StopInv /\ [Next]_vars => StopInv'
  <2>. SUFFICES ASSUME TypeOK, StopInv, [Next]_vars PROVE StopInv'
    OBVIOUS
  <2>1. CASE \E f \in Frames : Sof(f)
    BY <2>1 DEF Sof, StopInv, history
  <2>2. CASE C5Step
    <3>1. c5.at # "idle" /\ stopped' = stopped
      BY <2>2 DEF C5Step, C5Store, C5Config, C5Run, history
    <3>. QED  BY <3>1 DEF StopInv
  <2>3. CASE C5Stop
    BY <2>3 DEF C5Stop, UsbIsr, StopInv, flagVars
  <2>4. CASE \E f \in Frames : C5Begin(f)
    BY <2>4 DEF C5Begin, StopInv
  <2>. QED  BY <2>1, <2>2, <2>3, <2>4, StartFrame DEF StopInv
<1>3. StopInv => StopHolds
  BY DEF StopInv, StopHolds
<1>. QED  BY <1>1, <1>2, <1>3, Typing, PTL DEF Spec

\* StartInv is an invariant: the handler clears sent_out before it asks for the
\* first OUT packet, whose callback alone arms the timer.
LEMMA StartInvariant == Spec => []StartInv
<1>1. Init => StartInv
  BY DEF Init, StartInv
<1>2. TypeOK /\ StartInv /\ [Next]_vars => StartInv'
  <2>. SUFFICES ASSUME TypeOK, StartInv, [Next]_vars PROVE StartInv'
    OBVIOUS
  <2>1. CASE \E f \in Frames : Sof(f)
    BY <2>1 DEF Sof, UsbIsr, StartInv, history
  <2>2. CASE C5Step
    <3>1. c5.at # "idle" /\ UNCHANGED <<timerOn, start_timer, session>>
      BY <2>2 DEF C5Step, C5Store, C5Config, C5Run, flagVars, history
    <3>. QED  BY <3>1 DEF StartInv
  <2>3. CASE C5Stop
    BY <2>3 DEF C5Stop, UsbIsr, StartInv, flagVars
  <2>4. CASE \E f \in Frames : C5Begin(f)
    <3>1. c5'.at = "stores" /\ UNCHANGED <<timerOn, start_timer>>
          /\ (session' = "clean" => ~timerOn /\ ~start_timer)
      BY <2>4 DEF C5Begin, Quiescent, flagVars
    <3>. QED  BY <3>1 DEF StartInv
  <2>5. CASE /\ UNCHANGED <<timerOn, stopped, c5>>
             /\ session' = session \/ session' # "clean"
             /\ c5.at # "idle" => start_timer' = start_timer
             /\ start_timer' /\ ~start_timer => ~sent_out /\ sent_out'
             /\ sent_out => sent_out'
    <3>1. timerOn' = timerOn /\ c5' = c5
      BY <2>5
    <3>2. timerOn \in BOOLEAN /\ start_timer \in BOOLEAN /\ sent_out \in BOOLEAN
      BY DEF TypeOK, FlagType
    <3>3. CASE session' # "clean"
      BY <3>3 DEF StartInv
    <3>4. CASE session' = "clean" /\ c5.at # "idle"
      <4>1. session = "clean" /\ ~timerOn /\ ~start_timer
        BY <2>5, <3>4 DEF StartInv
      <4>2. ~timerOn' /\ ~start_timer' /\ c5'.at # "idle"
        BY <2>5, <3>1, <3>4, <4>1
      <4>. QED  BY <4>2 DEF StartInv
    <3>5. CASE session' = "clean" /\ c5.at = "idle"
      <4>1. session = "clean" /\ (timerOn \/ start_timer => sent_out) /\ c5'.at = "idle"
        BY <2>5, <3>1, <3>5 DEF StartInv
      <4>2. timerOn' \/ start_timer' => sent_out'
        BY <2>5, <3>1, <3>2, <4>1
      <4>. QED  BY <4>1, <4>2 DEF StartInv
    <3>. QED  BY <3>3, <3>4, <3>5
  <2>. QED  BY <2>1, <2>2, <2>3, <2>4, <2>5, StartFrame
<1>. QED  BY <1>1, <1>2, Typing, PTL DEF Spec

\* A clean session never starts the timer before its first OUT packet.
THEOREM FirstPacketFirst == Spec => []NoStartBeforeFirstPacket
<1>1. StartInv => NoStartBeforeFirstPacket
  BY DEF StartInv, NoStartBeforeFirstPacket
<1>. QED  BY <1>1, StartInvariant, PTL

(***************************************************************************)
(* The transfers of a clean session.  Where the main loop stands with      *)
(* direction d says what the endpoint holds: Rest(d) between two bodies of *)
(* its if statement, and inside the body one fact more at each step of     *)
(* udd_ep_run.  While 0xC5 runs, both endpoints are empty.                 *)
(***************************************************************************)
Where(d) == IF mloop.dir = d THEN mloop.at ELSE "test"

Quiet(d) == ~job[d].busy /\ job[d].dma = None /\ owed[d] = "none"

Moving(d) ==
    /\ job[d].busy /\ job[d].loaded /\ job[d].dma = job[d].buf
    /\ owed[d] = job[d].cb
    /\ job[d].cb = d \/ (d = "out" /\ job[d].cb = "first")

Rest(d) == IF sending[d] THEN Moving(d) ELSE Quiet(d)

Body(d) ==
    CASE Where(d) \in {"test", "reads_send"} -> Rest(d)
      [] Where(d) = "reads_sending" -> Rest(d) /\ send[d]
      [] Where(d) = "clear" -> ~sending[d] /\ Quiet(d) /\ send[d]
      [] Where(d) = "set" -> ~sending[d] /\ Quiet(d)
      [] Where(d) \in {"arg", "check", "busy"} -> sending[d] /\ Quiet(d)
      [] OTHER -> /\ sending[d] /\ job[d].busy /\ job[d].dma = None /\ owed[d] = d
                  /\ Where(d) \in {"cb", "trans"} => ~job[d].loaded
                  /\ Where(d) = "trans" => job[d].cb = d

\* Until the first OUT packet has arrived nothing is sent, and a main loop that
\* found sending_out clear before 0xC5 set it finds send_out clear as well.
Waiting(d) ==
    /\ ~sent_out => ~send[d] /\ ~InBranch(d) /\ (d = "in" => ~sending[d])
    /\ Where(d) = "reads_send" /\ sending[d] => ~sent_out

\* The 0xC5 handler at work, the timer off.
Resetting ==
    /\ \A d \in Dir : ~InBranch(d) /\ Quiet(d)
    /\ c5.at = "stores" => c5.todo = Stores
    /\ c5.at # "stores" => ~send["in"] /\ ~sending["in"] /\ packet_index_send["out"] = 0
    /\ c5.at = "run" => ~send["out"] /\ sending["out"] /\ ~sent_out

TransferInv ==
    session = "clean" =>
        /\ enabled /\ ~raced /\ \A d \in Dir : ~halted[d]
        /\ IF c5.at = "idle" THEN \A d \in Dir : Body(d) /\ Waiting(d) ELSE Resetting

\* Nothing of direction d has changed, except that its flag may have been set.
SameSide(d) ==
    /\ sending'[d] = sending[d] /\ job'[d] = job[d] /\ owed'[d] = owed[d]
    /\ Where(d)' = Where(d)
    /\ send[d] => send'[d]

LEMMA SideKept ==
    ASSUME NEW d \in Dir, SameSide(d), Body(d)
    PROVE  Body(d)'
<1>1. (Rest(d) <=> Rest(d)') /\ (Quiet(d) <=> Quiet(d)')
  BY DEF SameSide, Rest, Quiet, Moving
<1>. QED  BY <1>1 DEF Body, SameSide

\* InBranch and Where are two views of the main loop's position.
LEMMA BranchIs ==
    ASSUME NEW d
    PROVE  InBranch(d) <=> Where(d) \notin {"test", "reads_send"}
  BY DEF InBranch, Where

\* A step of the main loop for d leaves the other direction alone.
MainStep(d) ==
    \/ MainTest(d) \/ MainReadsOther(d) \/ MainClear(d) \/ MainSet(d) \/ MainArg(d)
    \/ MainCheck(d) \/ MainBusy(d) \/ MainFill(d) \/ MainTrans(d)

\* Where the main loop stands after a step of direction d.
LEMMA MainMoves ==
    ASSUME TypeOK, NEW d \in Dir, mloop.dir = d
    PROVE  /\ \A l \in MainAt : Goto(l) => /\ Where(d)' = l /\ mloop'.arg = mloop.arg
                                           /\ \A e \in Dir \ {d} : Where(e)' = "test"
           /\ Leave(d) => Where(d)' = "test" /\ \A e \in Dir \ {d} : Where(e)' = "test"
           /\ Where(d) = mloop.at
           /\ \A e \in Dir \ {d} : Where(e) = "test"
<1>1. mloop \in [dir : Dir, at : MainAt, arg : Buf]
  BY DEF TypeOK, ControlType
<1>2. ASSUME NEW l \in MainAt, Goto(l)
      PROVE  mloop'.dir = d /\ mloop'.at = l /\ mloop'.arg = mloop.arg
  BY <1>1, <1>2 DEF Goto
<1>3. ASSUME Leave(d)
      PROVE  mloop'.at = "test"
  BY <1>1, <1>3 DEF Leave
<1>. QED  BY <1>2, <1>3 DEF Where

\* Handing the packet to the endpoint starts the DMA and calls nothing back.
LEMMA TransStarts ==
    ASSUME TypeOK, NEW d \in Dir, Body(d), MainTrans(d)
    PROVE  /\ job[d].busy /\ ~job[d].loaded /\ job[d].cb = d /\ owed[d] = d /\ sending[d]
           /\ job' = [job EXCEPT ![d] = [job[d] EXCEPT !.loaded = TRUE, !.dma = job[d].buf]]
           /\ UNCHANGED <<flagVars, history>> /\ Leave(d) /\ Where(d) = "trans"
<1>1. Where(d) = "trans"
  BY DEF MainTrans, At, Where
<1>2. job[d].busy /\ ~job[d].loaded /\ job[d].cb = d /\ owed[d] = d /\ sending[d]
  BY <1>1 DEF Body
<1>3. TransDone(d, job[d])
  BY DEF MainTrans
<1>4. /\ job' = [job EXCEPT ![d] = [job[d] EXCEPT !.loaded = TRUE, !.dma = job[d].buf]]
      /\ NoCallback /\ UNCHANGED <<inState, outState, owed>>
  BY <1>2, <1>3 DEF TransDone
<1>. QED  BY <1>1, <1>2, <1>4 DEF MainTrans, NoCallback, flagVars, history

LEMMA MainFrame ==
    ASSUME TypeOK, NEW d \in Dir, Body(d), MainStep(d)
    PROVE  /\ c5.at = "idle" /\ mloop.dir = d
           /\ UNCHANGED <<timerOn, tickVars, packet_index_send, start_frame, enabled, halted,
                          c5, starts, session, raced, late, stopped>>
           /\ \A e \in Dir \ {d} : SameSide(e) /\ send'[e] = send[e] /\ Where(e) = "test"
<1>. DEFINE e == IF d = "in" THEN "out" ELSE "in"
<1>1. c5.at = "idle" /\ mloop.dir = d
  BY DEF MainStep, MainTest, MainReadsOther, MainClear, MainSet, MainArg, MainCheck, MainBusy,
         MainFill, MainTrans, At, Thread
<1>2. UNCHANGED <<timerOn, tickVars, packet_index_send, start_frame, enabled, halted,
                  c5, starts, session, raced, late, stopped>>
  BY DEF MainStep, MainTest, MainReadsOther, MainClear, MainSet, MainArg, MainCheck, MainBusy,
         MainFill, MainTrans, flagVars, history
<1>3. e \in Dir /\ e # d /\ \A x \in Dir \ {d} : x = e
  BY DEF Dir
<1>4. Where(e)' = "test" /\ Where(e) = "test"
  <2>1. Leave(d) \/ (\E l \in MainAt : Goto(l)) \/ MainArg(d)
    BY DEF MainStep, MainTest, MainReadsOther, MainClear, MainSet, MainCheck, MainBusy, MainFill,
           MainTrans, MainAt
  <2>2. CASE MainArg(d)
    <3>1. mloop'.dir = d
      BY <1>1, <2>2 DEF MainArg, TypeOK, ControlType
    <3>. QED  BY <1>1, <1>3, <3>1 DEF Where
  <2>. QED  BY <1>1, <1>3, <2>1, <2>2, MainMoves
<1>5. send'[e] = send[e] /\ sending'[e] = sending[e] /\ job'[e] = job[e] /\ owed'[e] = owed[e]
  <2>. HIDE DEF e
  <2>0. /\ send \in [Dir -> BOOLEAN] /\ sending \in [Dir -> BOOLEAN] /\ job \in [Dir -> JobType]
        /\ DOMAIN owed = Dir
    BY DEF TypeOK, FlagType, EndpointType, HistoryType
  <2>1. CASE MainTest(d) \/ MainReadsOther(d) \/ MainArg(d) \/ MainCheck(d)
    BY <2>1 DEF MainTest, MainReadsOther, MainArg, MainCheck, flagVars, history
  <2>2. CASE MainClear(d) \/ MainSet(d)
    BY <2>0, <2>2, <1>3 DEF MainClear, MainSet, history
  <2>3. CASE MainBusy(d)
    BY <2>0, <2>3, <1>3 DEF MainBusy, flagVars
  <2>4. CASE MainFill(d)
    BY <2>0, <2>4, <1>3 DEF MainFill, flagVars, history
  <2>5. CASE MainTrans(d)
    <3>1. PICK j : job' = [job EXCEPT ![d] = j]
      BY <2>5, TransStarts
    <3>2. UNCHANGED <<flagVars, history>>
      BY <2>5, TransStarts
    <3>. QED  BY <2>0, <1>3, <3>1, <3>2 DEF flagVars, history
  <2>. QED  BY <2>1, <2>2, <2>3, <2>4, <2>5 DEF MainStep
<1>. QED  BY <1>1, <1>2, <1>3, <1>4, <1>5 DEF SameSide

\* The main loop's own direction: one fact more at each step of the body.
LEMMA BodyMain ==
    ASSUME TypeOK, NEW d \in Dir, enabled, ~halted[d], Body(d), Waiting(d), MainStep(d)
    PROVE  Body(d)' /\ Waiting(d)'
<1>0. /\ mloop.dir = d /\ Where(d) = mloop.at /\ Where(d) \in MainAt
      /\ \A l \in MainAt : Goto(l) => Where(d)' = l
      /\ Leave(d) => Where(d)' = "test"
  <2>1. mloop.dir = d
    BY MainFrame
  <2>. QED  BY <2>1, MainMoves DEF TypeOK, ControlType
<1>1. /\ send \in [Dir -> BOOLEAN] /\ sending \in [Dir -> BOOLEAN] /\ job \in [Dir -> JobType]
      /\ owed \in [Dir -> {"none", "in", "out", "first"}]
  BY DEF TypeOK, FlagType, EndpointType, HistoryType
<1>2. ASSUME sending'[d] = sending[d], job'[d] = job[d], owed'[d] = owed[d]
      PROVE  (Rest(d)' <=> Rest(d)) /\ (Quiet(d)' <=> Quiet(d))
  BY <1>2 DEF Rest, Quiet, Moving
<1>3. sent_out' = sent_out
  <2>1. CASE MainTrans(d)
    BY <2>1, TransStarts DEF flagVars
  <2>. QED  BY <2>1 DEF MainStep, MainTest, MainReadsOther, MainClear, MainSet, MainArg, MainCheck,
              MainBusy, MainFill, flagVars
<1>4. ASSUME Where(d)' \notin {"test", "reads_send"} => send[d] \/ InBranch(d),
             Where(d)' = "reads_send" => ~sending'[d],
             send'[d] => send[d],
             sending'[d] => sending[d] \/ InBranch(d)
      PROVE  Waiting(d)'
  BY <1>3, <1>4, BranchIs DEF Waiting, InBranch, Where
<1>5. CASE MainTest(d)
  <2>1. sending' = sending /\ send' = send /\ job' = job /\ owed' = owed
    BY <1>5 DEF MainTest, flagVars, history
  <2>2. Where(d) = "test" /\ Rest(d)
    BY <1>0, <1>5 DEF MainTest, At, Body
  <2>3. \/ ~sending[d] /\ Where(d)' = "reads_send"
        \/ send[d] /\ Where(d)' = "reads_sending"
        \/ Where(d)' = "test"
    BY <1>0, <1>5 DEF MainTest, MainAt
  <2>4. Body(d)'
    BY <1>2, <2>1, <2>2, <2>3 DEF Body
  <2>. QED  BY <1>4, <2>1, <2>3, <2>4
<1>6. CASE MainReadsOther(d)
  <2>1. sending' = sending /\ send' = send /\ job' = job /\ owed' = owed
    BY <1>6 DEF MainReadsOther, flagVars, history
  <2>2. Rest(d) /\ Where(d) \in {"reads_send", "reads_sending"}
    BY <1>0, <1>6 DEF MainReadsOther, At, Body
  <2>3. \/ Where(d)' = "clear" /\ send[d] /\ ~sending[d]
        \/ Where(d)' = "test"
    <3>1. CASE Where(d) = "reads_send"
      <4>1. IF send[d] THEN Goto("clear") ELSE Leave(d)
        BY <1>0, <1>6, <3>1 DEF MainReadsOther, At
      <4>2. send[d] => ~sending[d]
        BY <3>1 DEF Waiting
      <4>. QED  BY <1>0, <4>1, <4>2 DEF MainAt
    <3>2. CASE Where(d) = "reads_sending"
      <4>1. IF ~sending[d] THEN Goto("clear") ELSE Leave(d)
        BY <1>0, <1>6, <3>2 DEF MainReadsOther, At
      <4>2. send[d]
        BY <3>2 DEF Body
      <4>. QED  BY <1>0, <4>1, <4>2 DEF MainAt
    <3>. QED  BY <2>2, <3>1, <3>2
  <2>4. Body(d)'
    BY <1>2, <2>1, <2>2, <2>3 DEF Body, Rest
  <2>. QED  BY <1>4, <2>1, <2>3, <2>4
<1>7. CASE MainClear(d)
  <2>1. /\ sending' = sending /\ job' = job /\ owed' = owed /\ ~send'[d] /\ Where(d)' = "set"
        /\ Where(d) = "clear"
    BY <1>0, <1>1, <1>7 DEF MainClear, At, MainAt, history
  <2>2. Body(d)'
    BY <1>2, <2>1 DEF Body
  <2>. QED  BY <1>4, <2>1, <2>2, BranchIs
<1>8. CASE MainSet(d)
  <2>1. /\ sending'[d] /\ job' = job /\ owed' = owed /\ send' = send /\ Where(d)' = "arg"
        /\ Where(d) = "set"
    BY <1>0, <1>1, <1>8 DEF MainSet, At, MainAt, history
  <2>2. Quiet(d)' <=> Quiet(d)
    BY <2>1 DEF Quiet
  <2>3. Body(d)'
    BY <2>1, <2>2 DEF Body
  <2>. QED  BY <1>4, <2>1, <2>3, BranchIs
<1>9. CASE MainArg(d)
  <2>1. /\ sending' = sending /\ job' = job /\ owed' = owed /\ send' = send /\ Where(d) = "arg"
    BY <1>0, <1>9 DEF MainArg, At, flagVars, history
  <2>2. Where(d)' = "check"
    <3>1. mloop'.dir = d /\ mloop'.at = "check"
      BY <1>0, <1>9 DEF MainArg, TypeOK, ControlType
    <3>. QED  BY <3>1 DEF Where
  <2>3. Body(d)'
    BY <1>2, <2>1, <2>2 DEF Body
  <2>. QED  BY <1>4, <2>1, <2>2, <2>3, BranchIs
<1>10. CASE MainCheck(d)
  <2>1. /\ sending' = sending /\ job' = job /\ owed' = owed /\ send' = send /\ Where(d) = "check"
        /\ Where(d)' = "busy"
    BY <1>0, <1>10 DEF MainCheck, At, MainAt, Ready, flagVars, history
  <2>2. Body(d)'
    BY <1>2, <2>1 DEF Body
  <2>. QED  BY <1>4, <2>1, <2>2, BranchIs
<1>11. CASE MainBusy(d)
  <2>1. sending' = sending /\ send' = send /\ Where(d) = "busy"
    BY <1>0, <1>11 DEF MainBusy, At, flagVars
  <2>2. sending[d] /\ ~job[d].busy /\ job[d].dma = None
    BY <2>1 DEF Body, Quiet
  <2>3. Where(d)' = "buf" /\ job' = [job EXCEPT ![d].busy = TRUE] /\ owed' = [owed EXCEPT ![d] = d]
    BY <1>0, <1>11, <2>2 DEF MainBusy, MainAt
  <2>4. job'[d].busy /\ job'[d].dma = None /\ owed'[d] = d
    BY <1>1, <2>2, <2>3 DEF JobType
  <2>5. Body(d)'
    BY <2>1, <2>2, <2>3, <2>4 DEF Body
  <2>. QED  BY <1>4, <2>1, <2>3, <2>5, BranchIs
<1>12. CASE MainFill(d)
  <2>1. sending' = sending /\ send' = send /\ owed' = owed
    BY <1>12 DEF MainFill, flagVars, history
  <2>2. /\ Where(d) \in {"buf", "cnt", "cb"}
        /\ sending[d] /\ job[d].busy /\ job[d].dma = None /\ owed[d] = d
        /\ Where(d) = "cb" => ~job[d].loaded
    BY <1>0, <1>12 DEF MainFill, At, Body
  <2>3. /\ job'[d].busy = job[d].busy /\ job'[d].dma = job[d].dma
        /\ \/ Where(d)' = "cnt"
           \/ Where(d)' = "cb" /\ ~job'[d].loaded
           \/ Where(d)' = "trans" /\ job'[d].loaded = job[d].loaded /\ Where(d) = "cb" /\ job'[d].cb = d
    BY <1>0, <1>1, <1>12 DEF MainFill, At, MainAt, JobType
  <2>4. Body(d)'
    BY <2>1, <2>2, <2>3 DEF Body
  <2>. QED  BY <1>4, <2>1, <2>2, <2>3, <2>4, BranchIs
<1>13. CASE MainTrans(d)
  <2>1. /\ job[d].busy /\ job[d].cb = d /\ owed[d] = d /\ sending[d] /\ Where(d) = "trans"
        /\ job' = [job EXCEPT ![d] = [job[d] EXCEPT !.loaded = TRUE, !.dma = job[d].buf]]
        /\ UNCHANGED <<flagVars, history>> /\ Leave(d)
    BY <1>13, TransStarts
  <2>2. /\ job'[d].busy /\ job'[d].loaded /\ job'[d].dma = job'[d].buf /\ job'[d].cb = d
        /\ sending'[d] /\ owed'[d] = d /\ send' = send /\ sending' = sending
    <3>1. job'[d] = [job[d] EXCEPT !.loaded = TRUE, !.dma = job[d].buf]
      BY <1>1, <2>1
    <3>. QED  BY <1>1, <2>1, <3>1 DEF JobType, flagVars, history
  <2>3. Where(d)' = "test"
    BY <1>0, <2>1
  <2>4. Rest(d)'
    BY <2>2 DEF Rest, Moving
  <2>5. Body(d)'
    BY <2>3, <2>4 DEF Body
  <2>. QED  BY <1>4, <2>2, <2>3, <2>5
<1>. QED  BY <1>5, <1>6, <1>7, <1>8, <1>9, <1>10, <1>11, <1>12, <1>13 DEF MainStep

\* The end of a DMA transfer finds the job complete: it calls back the function
\* the job was given, which clears sending_d, and nothing is owed any more.
LEMMA DmaEnds ==
    ASSUME TypeOK, NEW d \in Dir, Body(d), DmaDone(d)
    PROVE  /\ Where(d) \in {"test", "reads_send", "reads_sending"} /\ sending[d] /\ Moving(d)
           /\ job' = [job EXCEPT ![d] = [job[d] EXCEPT !.dma = None, !.busy = FALSE]]
           /\ ~job'[d].busy /\ job'[d].dma = None
           /\ owed' = [owed EXCEPT ![d] = "none"]
           /\ sending' = [sending EXCEPT ![d] = FALSE]
           /\ sent_out' = (sent_out \/ (d = "out" /\ job[d].cb = "first"))
           /\ IF d = "in" THEN Track("in", job[d].buf, "sent") /\ UNCHANGED outState
                          ELSE Track("out", job[d].buf, "full") /\ UNCHANGED inState
<1>0. job \in [Dir -> JobType] /\ job[d] \in JobType
  BY DEF TypeOK, EndpointType
<1>1. job[d].dma # None /\ TransDone(d, [job[d] EXCEPT !.dma = None])
  BY DEF DmaDone
<1>2. Where(d) \in {"test", "reads_send", "reads_sending"} /\ Rest(d)
  BY <1>1 DEF Body, Quiet
<1>3. sending[d] /\ Moving(d)
  BY <1>1, <1>2 DEF Rest, Quiet
<1>4. PICK j : j = [job[d] EXCEPT !.dma = None]
  OBVIOUS
<1>5. j.busy /\ j.loaded /\ j.cb = job[d].cb /\ j.buf = job[d].buf /\ j.dma = None
  BY <1>0, <1>3, <1>4 DEF Moving, JobType
<1>6. /\ job' = [job EXCEPT ![d] = [j EXCEPT !.busy = FALSE]]
      /\ Callback(job[d].cb)
      /\ IF d = "in" THEN Track("in", job[d].buf, "sent") /\ UNCHANGED outState
                     ELSE Track("out", job[d].buf, "full") /\ UNCHANGED inState
      /\ owed' = [owed EXCEPT ![d] = "none"]
  BY <1>1, <1>4, <1>5 DEF TransDone
<1>7. [j EXCEPT !.busy = FALSE] = [job[d] EXCEPT !.dma = None, !.busy = FALSE]
  BY <1>0, <1>4 DEF JobType
<1>8. ~job'[d].busy /\ job'[d].dma = None
  BY <1>0, <1>4, <1>6 DEF JobType
<1>9. sending' = [sending EXCEPT ![d] = FALSE]
  <2>1. job[d].cb = d \/ (d = "out" /\ job[d].cb = "first")
    BY <1>3 DEF Moving
  <2>. QED  BY <1>6, <2>1 DEF Callback, Dir
<1>10. sent_out' = (sent_out \/ (d = "out" /\ job[d].cb = "first"))
  <2>1. job[d].cb = d \/ (d = "out" /\ job[d].cb = "first")
    BY <1>3 DEF Moving
  <2>. QED  BY <1>6, <2>1 DEF Callback, Dir
<1>. QED  BY <1>2, <1>3, <1>6, <1>7, <1>8, <1>9, <1>10

LEMMA BodyDma ==
    ASSUME TypeOK, NEW d \in Dir, DmaDone(d), \A e \in Dir : Body(e) /\ Waiting(e)
    PROVE  \A e \in Dir : Body(e)' /\ Waiting(e)'
<1>0. /\ sending \in [Dir -> BOOLEAN] /\ job \in [Dir -> JobType] /\ DOMAIN owed = Dir
      /\ sent_out \in BOOLEAN
  BY DEF TypeOK, FlagType, EndpointType, HistoryType
<1>1. UNCHANGED <<send, mloop>>
  BY DEF DmaDone
<1>2. \A e \in Dir : Where(e)' = Where(e) /\ (InBranch(e)' <=> InBranch(e))
  BY <1>1 DEF Where, InBranch
<1>3. /\ Where(d) \in {"test", "reads_send", "reads_sending"} /\ Moving(d)
      /\ ~job'[d].busy /\ job'[d].dma = None
      /\ owed' = [owed EXCEPT ![d] = "none"]
      /\ sending' = [sending EXCEPT ![d] = FALSE]
      /\ sent_out' = (sent_out \/ (d = "out" /\ job[d].cb = "first"))
  BY DmaEnds
<1>4. Body(d)'
  <2>1. Quiet(d)' /\ ~sending'[d]
    BY <1>0, <1>3 DEF Quiet
  <2>2. Where(d)' = "reads_sending" => send'[d]
    BY <1>1, <1>2 DEF Body
  <2>. QED  BY <1>2, <1>3, <2>1, <2>2 DEF Body, Rest
<1>5. ASSUME NEW e \in Dir, e # d PROVE Body(e)'
  <2>1. PICK j : job' = [job EXCEPT ![d] = j]
    BY DmaEnds
  <2>2. SameSide(e)
    BY <1>0, <1>1, <1>2, <1>3, <1>5, <2>1 DEF SameSide
  <2>. QED  BY <2>2, SideKept
<1>6. ASSUME NEW e \in Dir PROVE Waiting(e)'
  <2>1. sending'[e] => sending[e] /\ e # d
    BY <1>0, <1>3
  <2>2. sent_out' => sent_out \/ d = "out"
    BY <1>3
  <2>3. sent_out => sent_out'
    BY <1>3
  <2>4. Where(e)' = "reads_send" /\ sending'[e] => ~sent_out'
    <3>1. SUFFICES ASSUME Where(e)' = "reads_send", sending'[e], sent_out' PROVE FALSE
      OBVIOUS
    <3>2. ~sent_out /\ e # d
      BY <1>2, <2>1, <3>1 DEF Waiting
    <3>3. d = "out" /\ e = "in"
      BY <2>2, <3>1, <3>2 DEF Dir
    <3>. QED  BY <2>1, <3>1, <3>2, <3>3 DEF Waiting
  <2>. QED  BY <1>1, <1>2, <2>1, <2>3, <2>4 DEF Waiting
<1>. QED  BY <1>4, <1>5, <1>6

\* TransferInv is inductive, given the types and StartInv.
LEMMA TransferInit == Init => TransferInv
  BY DEF Init, TransferInv

LEMMA ResetStep ==
    ASSUME TypeOK, StartInv, TransferInv, session = "clean", C5Step
    PROVE  TransferInv'
<1>. USE DEF TransferInv
<1>0. /\ send \in [Dir -> BOOLEAN] /\ sending \in [Dir -> BOOLEAN] /\ job \in [Dir -> JobType]
      /\ DOMAIN owed = Dir /\ packet_index_send \in [Dir -> Buf]
      /\ c5 = [at |-> c5.at, todo |-> c5.todo, frame |-> c5.frame]
  BY DEF TypeOK, FlagType, EndpointType, HistoryType, ControlType
<1>1. /\ c5.at # "idle" /\ Resetting /\ ~timerOn
      /\ UNCHANGED <<mloop, enabled, halted, raced, session>>
  BY DEF C5Step, C5Store, C5Config, C5Run, StartInv, history
<1>2. \A d \in Dir : (InBranch(d)' <=> InBranch(d)) /\ Where(d)' = Where(d)
  BY <1>1 DEF InBranch, Where
<1>3. CASE \E X \in NextStores : C5Store(X)
  <2>1. C5Store(Stores) /\ c5.todo = Stores
    BY <1>1, <1>3 DEF NextStores, C5Store, Resetting
  <2>2. "flags_in" \in Stores /\ "packet_index_send_out" \in Stores
    BY DEF Stores, VolatileStores
  <2>3. /\ c5'.at = "config" /\ ~send'["in"] /\ ~sending'["in"] /\ packet_index_send'["out"] = 0
        /\ job' = job /\ owed' = owed
    <3>1. c5' = [c5 EXCEPT !.todo = c5.todo \ Stores,
                           !.at = IF c5.todo = Stores THEN "config" ELSE c5.at]
      BY <2>1 DEF C5Store
    <3>2. c5'.at = "config"
      BY <1>0, <2>1, <3>1
    <3>3. ~send'["in"] /\ ~sending'["in"]
      BY <1>0, <2>1, <2>2 DEF C5Store, Dir
    <3>4. packet_index_send'["out"] = 0
      BY <1>0, <2>1, <2>2 DEF C5Store, Dir
    <3>. QED  BY <2>1, <3>2, <3>3, <3>4 DEF C5Store, history
  <2>4. \A d \in Dir : Quiet(d)' <=> Quiet(d)
    BY <2>3 DEF Quiet
  <2>. QED  BY <1>1, <1>2, <2>3, <2>4 DEF Resetting
<1>4. CASE C5Config
  <2>1. /\ c5'.at = "run" /\ send'["in"] = send["in"] /\ sending'["in"] = sending["in"]
        /\ ~send'["out"] /\ sending'["out"] /\ ~sent_out'
        /\ job' = job /\ owed' = owed /\ packet_index_send' = packet_index_send
        /\ c5.at = "config"
    BY <1>0, <1>4 DEF C5Config, Dir, history
  <2>2. \A d \in Dir : Quiet(d)' <=> Quiet(d)
    BY <2>1 DEF Quiet
  <2>. QED  BY <1>1, <1>2, <2>1, <2>2 DEF Resetting
<1>5. CASE C5Run
  <2>1. /\ c5'.at = "idle" /\ send' = send /\ sending' = sending /\ sent_out' = sent_out
        /\ Ready("out") /\ c5.at = "run"
    BY <1>0, <1>1, <1>5 DEF C5Run, Ready, flagVars, Dir
  <2>2. PICK j : /\ j = [busy |-> TRUE, loaded |-> TRUE, cb |-> "first",
                         buf |-> packet_index_send["out"], dma |-> packet_index_send["out"]]
                 /\ job' = [job EXCEPT !["out"] = j]
    BY <1>5, <2>1 DEF C5Run
  <2>3. owed' = [owed EXCEPT !["out"] = "first"]
    BY <1>5, <2>1 DEF C5Run
  <2>4. ~send["in"] /\ ~sending["in"] /\ ~send["out"] /\ sending["out"] /\ ~sent_out
    BY <1>1, <2>1 DEF Resetting
  <2>5. Moving("out")'
    BY <1>0, <2>2, <2>3 DEF Moving, Dir
  <2>6. Quiet("in")'
    <3>1. job'["in"] = job["in"] /\ owed'["in"] = owed["in"]
      BY <1>0, <2>2, <2>3 DEF Dir
    <3>. QED  BY <1>1, <3>1 DEF Resetting, Quiet, Dir
  <2>7. \A d \in Dir : Where(d)' \in {"test", "reads_send"}
    BY <1>1, <1>2, BranchIs DEF Resetting
  <2>8. \A d \in Dir : Body(d)'
    BY <2>1, <2>4, <2>5, <2>6, <2>7 DEF Body, Rest, Dir
  <2>9. \A d \in Dir : Waiting(d)'
    BY <1>1, <1>2, <2>1, <2>4 DEF Waiting, Resetting, Dir
  <2>. QED  BY <1>1, <2>1, <2>8, <2>9
<1>. QED  BY <1>3, <1>4, <1>5 DEF C5Step

LEMMA TransferNext == TypeOK /\ StartInv /\ TransferInv /\ [Next]_vars => TransferInv'
<1>. SUFFICES ASSUME TypeOK, StartInv, TransferInv, [Next]_vars, session' = "clean"
              PROVE  TransferInv'
  BY DEF TransferInv
<1>1. CASE C5Step
  <2>1. session = "clean"
    BY <1>1 DEF C5Step, C5Store, C5Config, C5Run, history
  <2>. QED  BY <1>1, <2>1, ResetStep
<1>2. CASE \E f \in Frames : C5Begin(f)
  <2>0. job \in [Dir -> JobType]
    BY DEF TypeOK, EndpointType
  <2>1. /\ Quiescent /\ UNCHANGED <<mloop, enabled, halted>> /\ ~raced'
        /\ c5'.at = "stores" /\ c5'.todo = Stores
        /\ job' = [d \in Dir |-> Aborted(job[d])] /\ owed' = [d \in Dir |-> "none"]
    BY <1>2 DEF C5Begin
  <2>2. \A d \in Dir : Quiet(d)'
    BY <2>0, <2>1 DEF Quiet, Aborted, JobType
  <2>3. \A d \in Dir : ~InBranch(d)'
    BY <2>1 DEF InBranch, Quiescent
  <2>. QED  BY <2>1, <2>2, <2>3 DEF TransferInv, Resetting, Quiescent
<1>3. CASE (\E d \in Dir : EpSetHalt(d)) \/ UsbDisable \/ UsbEnable
  BY <1>3 DEF EpSetHalt, UsbDisable, UsbEnable, Dirty
<1>4. session = "clean" \/ C5Step \/ (\E f \in Frames : C5Begin(f))
      \/ (\E d \in Dir : EpSetHalt(d)) \/ UsbDisable \/ UsbEnable
  BY DEF Next, Main, MainTest, MainReadsOther, MainClear, MainSet, MainArg, MainCheck, MainBusy,
         MainFill, MainTrans, TickA, TickB, Sof, C5Stop, DmaDone, EpClearHalt, history, vars
<1>5. ASSUME session = "clean"
      PROVE  enabled /\ ~raced /\ (\A d \in Dir : ~halted[d])
             /\ (c5.at = "idle" => \A d \in Dir : Body(d) /\ Waiting(d))
  BY <1>5 DEF TransferInv
<1>6. CASE session = "clean" /\ \E d \in Dir : EpClearHalt(d)
  BY <1>5, <1>6 DEF EpClearHalt
<1>7. CASE session = "clean" /\ Main
  <2>1. c5.at = "idle"
    BY <1>7 DEF Main, MainTest, MainReadsOther, MainClear, MainSet, MainArg, MainCheck, MainBusy,
         MainFill, MainTrans, At, Thread
  <2>2. PICK d \in Dir : MainStep(d)
    BY <1>7 DEF Main, MainStep
  <2>3. Body(d)' /\ Waiting(d)'
    BY <1>5, <1>7, <2>1, <2>2, BodyMain
  <2>4. /\ UNCHANGED <<enabled, halted, c5, raced>>
        /\ \A e \in Dir \ {d} : SameSide(e) /\ send'[e] = send[e] /\ Where(e) = "test"
    BY <1>5, <1>7, <2>1, <2>2, MainFrame
  <2>5. sent_out' = sent_out
    <3>1. CASE MainTrans(d)
      BY <1>5, <1>7, <2>1, <3>1, TransStarts DEF flagVars
    <3>. QED  BY <2>2, <3>1 DEF MainStep, MainTest, MainReadsOther, MainClear, MainSet, MainArg,
                MainCheck, MainBusy, MainFill, flagVars
  <2>6. ASSUME NEW e \in Dir, e # d PROVE Body(e)' /\ Waiting(e)'
    <3>1. SameSide(e) /\ send'[e] = send[e] /\ Where(e) = "test" /\ Body(e) /\ Waiting(e)
      BY <1>5, <1>7, <2>1, <2>4, <2>6
    <3>2. ~InBranch(e)'
      BY <3>1, BranchIs DEF SameSide, InBranch, Where
    <3>. QED  BY <2>5, <3>1, <3>2, SideKept DEF Waiting, SameSide
  <2>. QED  BY <1>5, <1>7, <2>1, <2>3, <2>4, <2>6 DEF TransferInv
<1>8. CASE session = "clean" /\ \E d \in Dir : DmaDone(d)
  <2>0. PICK d \in Dir : DmaDone(d)
    BY <1>8
  <2>1. c5.at = "idle" /\ UNCHANGED <<enabled, halted, c5, raced>>
    BY <2>0 DEF DmaDone, UsbIsr
  <2>2. \A e \in Dir : Body(e)' /\ Waiting(e)'
    BY <1>5, <1>8, <2>0, <2>1, BodyDma
  <2>. QED  BY <1>5, <1>8, <2>1, <2>2 DEF TransferInv
<1>9. CASE session = "clean" /\ (TickA \/ TickB)
  <2>0. send \in [Dir -> BOOLEAN]
    BY DEF TypeOK, FlagType
  <2>1. /\ timerOn /\ UNCHANGED <<sending, sent_out, job, owed, mloop, enabled, halted, c5>>
        /\ raced' = (raced \/ c5.at # "idle")
    BY <1>9 DEF TickA, TickB, TickAllowed, flagVars
  <2>2. c5.at = "idle" /\ sent_out
    BY <1>9, <2>1 DEF StartInv
  <2>3. \A d \in Dir : send[d] => send'[d]
    BY <1>9, <2>0 DEF TickA, TickB, PacketEnd, InSwitch, EndWarmUp, RequestOut, PlainSlot, flagVars, Dir
  <2>4. \A d \in Dir : SameSide(d)
    BY <2>1, <2>3 DEF SameSide, Where
  <2>5. \A d \in Dir : Body(d)'
    BY <1>5, <1>9, <2>2, <2>4, SideKept
  <2>6. \A d \in Dir : Waiting(d)'
    BY <1>5, <1>9, <2>1, <2>2, <2>4 DEF Waiting, SameSide
  <2>. QED  BY <1>5, <1>9, <2>1, <2>2, <2>5, <2>6 DEF TransferInv
<1>10. CASE session = "clean" /\ ((\E f \in Frames : Sof(f)) \/ C5Stop \/ UNCHANGED vars)
  <2>1. /\ UNCHANGED <<sending, send, sent_out, job, owed, mloop, enabled, halted, c5, raced,
                       packet_index_send>>
    BY <1>10 DEF Sof, C5Stop, vars, history, flagVars
  <2>2. \A d \in Dir : SameSide(d) /\ (InBranch(d)' <=> InBranch(d))
    BY <2>1 DEF SameSide, Where, InBranch
  <2>3. \A d \in Dir : (Quiet(d)' <=> Quiet(d)) /\ (Waiting(d)' <=> Waiting(d))
    BY <2>1, <2>2 DEF Quiet, Waiting, SameSide
  <2>4. CASE c5.at = "idle"
    BY <1>5, <1>10, <2>1, <2>2, <2>3, <2>4, SideKept DEF TransferInv
  <2>5. CASE c5.at # "idle"
    BY <1>5, <1>10, <2>1, <2>2, <2>3, <2>5 DEF TransferInv, Resetting
  <2>. QED  BY <2>4, <2>5
<1>. QED
  BY <1>1, <1>2, <1>3, <1>4, <1>6, <1>7, <1>8, <1>9, <1>10 DEF Next

\* In a session that starts clean, a set sending flag always has a job on the
\* endpoint behind it, and the DMA calls back what udd_ep_run was given, through
\* every interleaving of TC2_Handler, the USB interrupt and the main loop.
THEOREM TransfersAreBacked == Spec => []TransfersBacked
<1>1. TransferInv => TransfersBacked
  <2>. SUFFICES ASSUME TransferInv, session = "clean"
                PROVE  (c5.at = "idle" => \A d \in Dir : sending[d] /\ ~InBranch(d) => job[d].busy)
                       /\ CallbackRegistered
    BY DEF TransfersBacked, SendingBacked, CallbackRegisteredClean
  <2>1. CASE c5.at = "idle"
    <3>1. \A d \in Dir : Body(d)
      BY <2>1 DEF TransferInv
    <3>2. ASSUME NEW d \in Dir, sending[d], ~InBranch(d) PROVE job[d].busy
      BY <3>1, <3>2, BranchIs DEF Body, Rest, Moving
    <3>3. ASSUME NEW d \in Dir, job[d].dma # None PROVE job[d].cb = owed[d]
      BY <3>1, <3>3 DEF Body, Rest, Moving, Quiet
    <3>. QED  BY <3>2, <3>3 DEF CallbackRegistered
  <2>2. CASE c5.at # "idle"
    BY <2>2 DEF TransferInv, Resetting, Quiet, CallbackRegistered
  <2>. QED  BY <2>1, <2>2
<1>. QED  BY <1>1, TransferInit, TransferNext, StartInvariant, Typing, PTL DEF Spec

(***************************************************************************)
(* The buffers of a clean session: of a transfer that no packet boundary   *)
(* has overtaken, which buffer it uses and what is known of that buffer.   *)
(***************************************************************************)
\* Where the main loop, the job and the DMA have a buffer for direction d, it
\* is the one last announced.
Uses(d) ==
    /\ Where(d) \in {"check", "busy", "buf", "cnt", "cb", "trans"} =>
          mloop.arg = packet_index_send[d]
    /\ Where(d) \in {"cnt", "cb", "trans"} => job[d].buf = packet_index_send[d]
    /\ ~InBranch(d) /\ sending[d] => job[d].buf = packet_index_send[d]
    /\ Where(d) = "reads_sending" => ~sending[d]

\* One request at a time: it is either flagged or being served.
Single(d) ==
    send[d] => ~sending[d] /\ Where(d) \in {"test", "reads_send", "reads_sending", "clear"}

InBuffers ==
    LET b == packet_index_send["in"] IN
    /\ Single("in") /\ Uses("in")
    /\ Unfinished("in") =>
          /\ not_a_new_transfer = 0 /\ packet_index_out = 1 - b
          /\ inState[b] = "ready"
          /\ pdc["in"].buf = b => pdc["in"].slot >= Slots - Lag - 1
    /\ \A c \in Buf : inState[c] = "ready" => Unfinished("in") /\ c = b

OutBuffers ==
    LET b == packet_index_send["out"] IN
    /\ Single("out") /\ Uses("out")
    /\ ~sent_out => slot_offset_out = 0 /\ packet_index_out = 0 /\ b = 0
    /\ sent_out =>
          /\ outState[packet_index_out] = "full"
          /\ Unfinished("out") => slot_offset_out >= OutReq /\ b = 1 - packet_index_out
          /\ slot_offset_out >= OutReq /\ ~Unfinished("out") =>
                outState[1 - packet_index_out] = "full"

BufferInv ==
    session = "clean" =>
        IF c5.at = "idle"
          THEN (~late["in"] => InBuffers) /\ (~late["out"] => OutBuffers)
          ELSE \A c \in Buf : inState[c] # "ready"

\* A side that does not change keeps its buffer.
LEMMA UsesKept ==
    ASSUME NEW d \in Dir, SameSide(d), send'[d] = send[d],
           packet_index_send'[d] = packet_index_send[d],
           mloop'.arg = mloop.arg \/ Where(d) = "test"
    PROVE  /\ Uses(d) => Uses(d)'
           /\ Single(d) => Single(d)'
           /\ Unfinished(d)' <=> Unfinished(d)
<1>1. InBranch(d)' <=> InBranch(d)
  <2>1. InBranch(d)' <=> Where(d)' \notin {"test", "reads_send"}
    BY DEF InBranch, Where
  <2>. QED  BY <2>1, BranchIs DEF SameSide
<1>. QED  BY <1>1 DEF SameSide, Uses, Single, Unfinished

\* The main loop passes the announced buffer on, one request at a time.
LEMMA UsesMain ==
    ASSUME TypeOK, NEW d \in Dir, enabled, ~halted[d], Body(d), Waiting(d), MainStep(d),
           Single(d), Uses(d)
    PROVE  Single(d)' /\ Uses(d)' /\ (Unfinished(d)' <=> Unfinished(d))
<1>0. /\ mloop.dir = d /\ Where(d) = mloop.at /\ Where(d) \in MainAt
      /\ \A l \in MainAt : Goto(l) => Where(d)' = l /\ mloop'.arg = mloop.arg
      /\ Leave(d) => Where(d)' = "test"
      /\ packet_index_send' = packet_index_send
  <2>1. mloop.dir = d /\ packet_index_send' = packet_index_send
    BY MainFrame
  <2>. QED  BY <2>1, MainMoves DEF TypeOK, ControlType
<1>1. /\ send \in [Dir -> BOOLEAN] /\ sending \in [Dir -> BOOLEAN] /\ job \in [Dir -> JobType]
      /\ job[d] \in JobType
  BY DEF TypeOK, FlagType, EndpointType
<1>2. /\ InBranch(d) <=> Where(d) \notin {"test", "reads_send"}
      /\ InBranch(d)' <=> Where(d)' \notin {"test", "reads_send"}
  BY DEF InBranch, Where
<1>3. CASE MainTest(d)
  <2>1. sending' = sending /\ send' = send /\ job' = job /\ Where(d) = "test"
    BY <1>0, <1>3 DEF MainTest, At, flagVars
  <2>2. \/ ~sending[d] /\ Where(d)' = "reads_send"
        \/ send[d] /\ Where(d)' = "reads_sending"
        \/ Where(d)' = "test"
    BY <1>0, <1>3 DEF MainTest, MainAt
  <2>. QED  BY <1>0, <1>2, <2>1, <2>2 DEF Single, Uses, Unfinished
<1>4. CASE MainReadsOther(d)
  <2>1. /\ sending' = sending /\ send' = send /\ job' = job
        /\ Where(d) \in {"reads_send", "reads_sending"}
    BY <1>0, <1>4 DEF MainReadsOther, At, flagVars
  <2>2. \/ Where(d)' = "clear" /\ send[d]
        \/ Where(d)' = "test" /\ Where(d) = "reads_send"
    <3>1. CASE Where(d) = "reads_send"
      BY <1>0, <1>4, <3>1 DEF MainReadsOther, At, MainAt
    <3>2. CASE Where(d) = "reads_sending"
      <4>1. send[d] /\ ~sending[d]
        BY <3>2 DEF Body, Uses
      <4>. QED  BY <1>0, <1>4, <3>2, <4>1 DEF MainReadsOther, At, MainAt
    <3>. QED  BY <2>1, <3>1, <3>2
  <2>. QED  BY <1>0, <1>2, <2>1, <2>2 DEF Single, Uses, Unfinished
<1>5. CASE MainClear(d)
  <2>1. /\ sending' = sending /\ job' = job /\ ~send'[d] /\ Where(d)' = "set" /\ Where(d) = "clear"
    BY <1>0, <1>1, <1>5 DEF MainClear, At, MainAt
  <2>. QED  BY <1>2, <2>1 DEF Single, Uses, Unfinished
<1>6. CASE MainSet(d)
  <2>1. /\ sending'[d] /\ job' = job /\ send' = send /\ Where(d)' = "arg" /\ Where(d) = "set"
    BY <1>0, <1>1, <1>6 DEF MainSet, At, MainAt
  <2>. QED  BY <1>2, <2>1 DEF Single, Uses, Unfinished
<1>7. CASE MainArg(d)
  <2>1. /\ sending' = sending /\ job' = job /\ send' = send /\ Where(d) = "arg"
    BY <1>0, <1>7 DEF MainArg, At, flagVars
  <2>2. Where(d)' = "check" /\ mloop'.arg = packet_index_send[d]
    <3>1. mloop'.dir = d /\ mloop'.at = "check" /\ mloop'.arg = packet_index_send[d]
      BY <1>0, <1>7 DEF MainArg, TypeOK, ControlType
    <3>. QED  BY <3>1 DEF Where
  <2>. QED  BY <1>0, <1>2, <2>1, <2>2 DEF Single, Uses, Unfinished
<1>8. CASE MainCheck(d)
  <2>1. /\ sending' = sending /\ job' = job /\ send' = send /\ Where(d) = "check"
        /\ Where(d)' = "busy" /\ mloop'.arg = mloop.arg
    BY <1>0, <1>8 DEF MainCheck, At, MainAt, Ready, flagVars
  <2>. QED  BY <1>0, <1>2, <2>1 DEF Single, Uses, Unfinished
<1>9. CASE MainBusy(d)
  <2>1. sending' = sending /\ send' = send /\ Where(d) = "busy"
    BY <1>0, <1>9 DEF MainBusy, At, flagVars
  <2>2. ~job[d].busy
    BY <2>1 DEF Body, Quiet
  <2>3. Where(d)' = "buf" /\ mloop'.arg = mloop.arg
    BY <1>0, <1>9, <2>2 DEF MainBusy, MainAt
  <2>. QED  BY <1>0, <1>2, <2>1, <2>3 DEF Single, Uses, Unfinished
<1>10. CASE MainFill(d)
  <2>1. sending' = sending /\ send' = send /\ Where(d) \in {"buf", "cnt", "cb"}
    BY <1>0, <1>10 DEF MainFill, At, flagVars
  <2>2. /\ mloop'.arg = mloop.arg /\ Where(d)' \in {"cnt", "cb", "trans"}
        /\ IF Where(d) = "buf" THEN job'[d].buf = mloop.arg ELSE job'[d].buf = job[d].buf
    BY <1>0, <1>1, <1>10 DEF MainFill, At, MainAt, JobType
  <2>. QED  BY <1>0, <1>2, <2>1, <2>2 DEF Single, Uses, Unfinished
<1>11. CASE MainTrans(d)
  <2>1. /\ sending[d] /\ Where(d) = "trans" /\ Leave(d) /\ UNCHANGED <<flagVars, history>>
        /\ job' = [job EXCEPT ![d] = [job[d] EXCEPT !.loaded = TRUE, !.dma = job[d].buf]]
    BY <1>11, TransStarts
  <2>2. job'[d].buf = job[d].buf
    <3>1. job'[d] = [job[d] EXCEPT !.loaded = TRUE, !.dma = job[d].buf]
      BY <1>1, <2>1
    <3>. QED  BY <1>1, <3>1 DEF JobType
  <2>3. sending' = sending /\ send' = send /\ Where(d)' = "test"
    BY <1>0, <2>1 DEF flagVars
  <2>. QED  BY <1>0, <1>2, <2>1, <2>2, <2>3 DEF Single, Uses, Unfinished
<1>. QED  BY <1>3, <1>4, <1>5, <1>6, <1>7, <1>8, <1>9, <1>10, <1>11 DEF MainStep

\* What the main loop does keeps both buffer invariants.
LEMMA BuffersMain ==
    ASSUME TypeOK, NEW d \in Dir, enabled, ~halted[d], MainStep(d),
           \A e \in Dir : Body(e) /\ Waiting(e)
    PROVE  (InBuffers => InBuffers') /\ (OutBuffers => OutBuffers')
<1>1. /\ UNCHANGED <<tickVars, packet_index_send, late>>
      /\ \A e \in Dir \ {d} : SameSide(e) /\ send'[e] = send[e] /\ Where(e) = "test"
  BY MainFrame
<1>2. UNCHANGED <<sent_out, inState, outState>>
  <2>1. CASE MainTrans(d)
    BY <2>1, TransStarts DEF flagVars, history
  <2>. QED  BY <2>1 DEF MainStep, MainTest, MainReadsOther, MainClear, MainSet, MainArg, MainCheck,
              MainBusy, MainFill, flagVars, history
<1>3. ASSUME NEW e \in Dir, Single(e), Uses(e)
      PROVE  Single(e)' /\ Uses(e)' /\ (Unfinished(e)' <=> Unfinished(e))
  <2>1. CASE e = d
    BY <1>3, <2>1, UsesMain
  <2>2. CASE e # d
    BY <1>1, <1>3, <2>2, UsesKept
  <2>. QED  BY <2>1, <2>2
<1>4. "in" \in Dir /\ "out" \in Dir
  BY DEF Dir
<1>5. InBuffers => InBuffers'
  BY <1>1, <1>2, <1>3, <1>4 DEF InBuffers, tickVars
<1>6. OutBuffers => OutBuffers'
  BY <1>1, <1>2, <1>3, <1>4 DEF OutBuffers, tickVars
<1>. QED  BY <1>5, <1>6

\* The end of a transfer hands its buffer over: IN as sent, OUT as full.
LEMMA BuffersDma ==
    ASSUME TypeOK, NEW d \in Dir, DmaDone(d), session = "clean",
           \A e \in Dir : Body(e) /\ Waiting(e)
    PROVE  (InBuffers => InBuffers') /\ (OutBuffers => OutBuffers')
<1>0. /\ sending \in [Dir -> BOOLEAN] /\ job \in [Dir -> JobType] /\ DOMAIN owed = Dir
      /\ inState \in [Buf -> {"stale", "ready", "sent"}] /\ outState \in [Buf -> {"empty", "full"}]
      /\ sent_out \in BOOLEAN /\ packet_index_out \in Buf /\ packet_index_send \in [Dir -> Buf]
      /\ slot_offset_out \in Slot
  BY DEF TypeOK, FlagType, EndpointType, HistoryType, TickType
<1>1. UNCHANGED <<send, mloop, packet_index_send, tickVars, late>>
  BY DEF DmaDone
<1>2. \A e \in Dir : Where(e)' = Where(e) /\ (InBranch(e)' <=> InBranch(e))
  BY <1>1 DEF Where, InBranch
<1>3. /\ sending[d] /\ sending' = [sending EXCEPT ![d] = FALSE]
      /\ owed' = [owed EXCEPT ![d] = "none"]
      /\ sent_out' = (sent_out \/ (d = "out" /\ job[d].cb = "first"))
      /\ Where(d) \in {"test", "reads_send", "reads_sending"}
      /\ d = "in" => inState' = [inState EXCEPT ![job[d].buf] = "sent"] /\ outState' = outState
      /\ d = "out" => outState' = [outState EXCEPT ![job[d].buf] = "full"] /\ inState' = inState
  BY DmaEnds DEF Track
<1>4. ASSUME NEW e \in Dir, e # d, Single(e), Uses(e)
      PROVE  Single(e)' /\ Uses(e)' /\ (Unfinished(e)' <=> Unfinished(e))
  <2>1. PICK j : job' = [job EXCEPT ![d] = j]
    BY DmaEnds
  <2>2. SameSide(e)
    BY <1>0, <1>1, <1>2, <1>3, <1>4, <2>1 DEF SameSide
  <2>. QED  BY <1>1, <1>4, <2>2, UsesKept
<1>5. ASSUME Single(d), Uses(d)
      PROVE  /\ Single(d)' /\ Uses(d)' /\ ~Unfinished(d)' /\ Unfinished(d)
             /\ job[d].buf = packet_index_send[d]
  <2>1. ~InBranch(d) /\ ~send[d] /\ Where(d) \in {"test", "reads_send"}
    BY <1>3, <1>5, BranchIs DEF Single, Uses
  <2>2. ~sending'[d] /\ send'[d] = send[d] /\ Where(d)' = Where(d) /\ ~InBranch(d)'
    BY <1>0, <1>1, <1>2, <1>3, <2>1
  <2>. QED  BY <1>3, <1>5, <2>1, <2>2 DEF Single, Uses, Unfinished
<1>6. CASE d = "in"
  <2>1. OutBuffers => OutBuffers'
    BY <1>1, <1>3, <1>4, <1>6 DEF OutBuffers, Dir, tickVars
  <2>2. ASSUME InBuffers PROVE InBuffers'
    <3>1. /\ Single(d)' /\ Uses(d)' /\ ~Unfinished(d)' /\ Unfinished(d)
          /\ job[d].buf = packet_index_send[d]
      BY <1>5, <1>6, <2>2 DEF InBuffers
    <3>2. \A c \in Buf : inState'[c] # "ready"
      BY <1>0, <1>3, <1>6, <2>2, <3>1 DEF InBuffers
    <3>. QED  BY <1>6, <3>1, <3>2 DEF InBuffers
  <2>. QED  BY <2>1, <2>2
<1>7. CASE d = "out"
  <2>1. InBuffers => InBuffers'
    BY <1>1, <1>3, <1>4, <1>7 DEF InBuffers, Dir, tickVars
  <2>2. ASSUME OutBuffers PROVE OutBuffers'
    <3>1. /\ Single(d)' /\ Uses(d)' /\ ~Unfinished(d)' /\ Unfinished(d)
          /\ job[d].buf = packet_index_send[d]
      BY <1>5, <1>7, <2>2 DEF OutBuffers
    <3>2. outState' = [outState EXCEPT ![packet_index_send["out"]] = "full"]
      BY <1>3, <1>7, <3>1
    <3>3. CASE sent_out
      <4>1. /\ packet_index_send["out"] = 1 - packet_index_out
            /\ outState[packet_index_out] = "full"
        BY <1>7, <2>2, <3>1, <3>3 DEF OutBuffers
      <4>2. outState'[packet_index_out] = "full" /\ outState'[1 - packet_index_out] = "full"
        BY <1>0, <3>2, <4>1 DEF Buf
      <4>. QED  BY <1>1, <1>3, <1>7, <3>1, <3>3, <4>2 DEF OutBuffers, tickVars
    <3>4. CASE ~sent_out
      <4>1. slot_offset_out = 0 /\ packet_index_out = 0 /\ packet_index_send["out"] = 0
        BY <2>2, <3>4 DEF OutBuffers
      <4>2. outState'[0] = "full"
        BY <1>0, <3>2, <4>1 DEF Buf
      <4>3. ~(slot_offset_out >= OutReq)
        BY <4>1, SlotsAssumption
      <4>. QED  BY <1>1, <1>7, <3>1, <4>1, <4>2, <4>3 DEF OutBuffers, tickVars
    <3>. QED  BY <3>3, <3>4
  <2>. QED  BY <2>1, <2>2
<1>. QED  BY <1>6, <1>7 DEF Dir

\* Where the PDC points after a tick: while the last packet announced is not
\* finished, beyond its first slots or into the other buffer.
LEMMA PdcBehind ==
    ASSUME TypeOK, Aligned, PointPdc, not_a_new_transfer = 0,
           NEW b \in Buf, packet_index_out = 1 - b, pdc'["in"].buf = b
    PROVE  pdc'["in"].slot >= Slots - Lag - 1
<1>1. slot_offset_out \in Slot /\ packet_index_in \in Buf /\ Lag \in Slot
  BY SlotsAssumption DEF TypeOK, TickType, Slot
<1>2. pdc'["in"].buf = packet_index_in /\ pdc'["in"].slot = slot_offset_in
  BY DEF PointPdc, Dir
<1>3. slot_offset_out < Lag
  BY <1>1, <1>2, SlotsAssumption DEF Aligned, Buf, Slot
<1>4. slot_offset_in = slot_offset_out + Slots - Lag
  BY <1>1, <1>3, SubValue, SlotsAssumption DEF Aligned, Slot
<1>. QED  BY <1>1, <1>2, <1>4, SlotsAssumption DEF Slot

\* A tick on channel A moves the PDC only.
LEMMA BuffersTickA ==
    ASSUME TypeOK, Aligned, TickA
    PROVE  (InBuffers => InBuffers') /\ (OutBuffers => OutBuffers')
<1>1. UNCHANGED <<slot_offset_out, packet_index_out, not_a_new_transfer, flagVars, job, mloop,
                  owed, inState, outState>> /\ PointPdc
  BY DEF TickA
<1>2. "in" \in Dir /\ "out" \in Dir /\ packet_index_send["in"] \in Buf
  BY DEF Dir, TypeOK, FlagType
<1>3. \A d \in Dir : SameSide(d)
  BY <1>1 DEF SameSide, Where, flagVars
<1>4. \A d \in Dir : /\ Uses(d) => Uses(d)'
                     /\ Single(d) => Single(d)'
                     /\ Unfinished(d)' <=> Unfinished(d)
  BY <1>1, <1>3, UsesKept DEF flagVars
<1>5. OutBuffers => OutBuffers'
  BY <1>1, <1>2, <1>4 DEF OutBuffers, flagVars
<1>6. ASSUME InBuffers PROVE InBuffers'
  <2>1. Unfinished("in") /\ pdc'["in"].buf = packet_index_send["in"] =>
            pdc'["in"].slot >= Slots - Lag - 1
    BY <1>1, <1>2, <1>6, PdcBehind DEF InBuffers
  <2>. QED  BY <1>1, <1>2, <1>4, <1>6, <2>1 DEF InBuffers, flagVars
<1>. QED  BY <1>5, <1>6

\* A tick that ends no packet and requests none: the flags and the history stay,
\* and the DAC is on the same side of the request slot as before.
LEMMA BuffersPlain ==
    ASSUME TypeOK, Aligned, PointPdc, InSwitch \/ EndWarmUp \/ PlainSlot,
           UNCHANGED <<sending, sent_out, job, mloop, owed>>, sent_out,
           slot_offset_out' >= OutReq <=> slot_offset_out >= OutReq
    PROVE  (InBuffers => InBuffers') /\ (OutBuffers => OutBuffers')
<1>1. /\ UNCHANGED <<packet_index_send, packet_index_out, send, inState, outState>>
      /\ not_a_new_transfer' \in {0, not_a_new_transfer}
  BY DEF InSwitch, EndWarmUp, PlainSlot
<1>2. "in" \in Dir /\ "out" \in Dir /\ packet_index_send["in"] \in Buf
  BY DEF Dir, TypeOK, FlagType
<1>3. \A d \in Dir : SameSide(d)
  BY <1>1 DEF SameSide, Where
<1>4. \A d \in Dir : /\ Uses(d) => Uses(d)'
                     /\ Single(d) => Single(d)'
                     /\ Unfinished(d)' <=> Unfinished(d)
  BY <1>1, <1>3, UsesKept
<1>5. OutBuffers => OutBuffers'
  BY <1>1, <1>2, <1>4 DEF OutBuffers
<1>6. ASSUME InBuffers PROVE InBuffers'
  <2>1. Unfinished("in") /\ pdc'["in"].buf = packet_index_send["in"] =>
            pdc'["in"].slot >= Slots - Lag - 1
    BY <1>2, <1>6, PdcBehind DEF InBuffers
  <2>. QED  BY <1>1, <1>2, <1>4, <1>6, <2>1 DEF InBuffers
<1>. QED  BY <1>5, <1>6

\* The request slot: the OUT side was idle, and the buffer the DAC does not play
\* is announced.
LEMMA BuffersRequest ==
    ASSUME TypeOK, Aligned, PointPdc, RequestOut,
           UNCHANGED <<sending, sent_out, job, mloop, owed>>, sent_out,
           slot_offset_out < OutReq, slot_offset_out' = OutReq
    PROVE  (InBuffers => InBuffers') /\ (OutBuffers => OutBuffers')
<1>0. /\ send \in [Dir -> BOOLEAN] /\ packet_index_send \in [Dir -> Buf]
      /\ slot_offset_out \in Nat /\ OutReq \in Nat
  BY SlotsAssumption DEF TypeOK, FlagType, TickType, Slot
<1>1. /\ UNCHANGED <<packet_index_out, inState, outState, not_a_new_transfer>>
      /\ packet_index_send' = [packet_index_send EXCEPT !["out"] = 1 - packet_index_out]
      /\ send' = [send EXCEPT !["out"] = TRUE]
  BY DEF RequestOut
<1>2. "in" \in Dir /\ "out" \in Dir /\ packet_index_send["in"] \in Buf
  BY DEF Dir, TypeOK, FlagType
<1>3. /\ packet_index_send'["in"] = packet_index_send["in"] /\ send'["in"] = send["in"]
      /\ packet_index_send'["out"] = 1 - packet_index_out /\ send'["out"]
  BY <1>0, <1>1, <1>2
<1>4. ASSUME InBuffers PROVE InBuffers'
  <2>1. SameSide("in")
    BY <1>3 DEF SameSide, Where
  <2>2. /\ Uses("in") => Uses("in")'
        /\ Single("in") => Single("in")'
        /\ Unfinished("in")' <=> Unfinished("in")
    BY <1>2, <1>3, <2>1, UsesKept
  <2>3. Unfinished("in") /\ pdc'["in"].buf = packet_index_send["in"] =>
            pdc'["in"].slot >= Slots - Lag - 1
    BY <1>2, <1>4, PdcBehind DEF InBuffers
  <2>. QED  BY <1>1, <1>2, <1>3, <1>4, <2>2, <2>3 DEF InBuffers
<1>5. ASSUME OutBuffers PROVE OutBuffers'
  <2>1. ~Unfinished("out")
    BY <1>0, <1>5 DEF OutBuffers
  <2>2. /\ ~sending'["out"] /\ Where("out")' \in {"test", "reads_send"} /\ ~InBranch("out")'
    <3>1. ~sending["out"] /\ ~InBranch("out")
      BY <2>1 DEF Unfinished
    <3>2. Where("out") \in {"test", "reads_send"}
      BY <3>1, BranchIs
    <3>. QED  BY <3>1, <3>2 DEF Where, InBranch
  <2>3. Single("out")' /\ Uses("out")' /\ Unfinished("out")'
    BY <1>3, <2>2 DEF Single, Uses, Unfinished
  <2>. QED  BY <1>0, <1>1, <1>3, <1>5, <2>3 DEF OutBuffers
<1>. QED  BY <1>4, <1>5

\* The end of a packet: in time, it finds both directions idle; the packet just
\* filled is announced, the packet just received is played.
LEMMA BuffersEnd ==
    ASSUME TypeOK, Aligned, PointPdc, PacketEnd, session = "clean",
           UNCHANGED <<sending, sent_out, job, mloop, owed>>, sent_out,
           slot_offset_out = Slots - 1, slot_offset_out' = 0
    PROVE  /\ (~late["in"] => InBuffers) => (~late'["in"] => InBuffers')
           /\ (~late["out"] => OutBuffers) => (~late'["out"] => OutBuffers')
<1>0. /\ send \in [Dir -> BOOLEAN] /\ packet_index_send \in [Dir -> Buf]
      /\ packet_index_in \in Buf /\ packet_index_out \in Buf /\ not_a_new_transfer \in {0, Warm}
      /\ inState \in [Buf -> {"stale", "ready", "sent"}] /\ outState \in [Buf -> {"empty", "full"}]
  BY DEF TypeOK, FlagType, TickType, HistoryType
<1>1. /\ packet_index_out' = 1 - packet_index_out
      /\ packet_index_send' = [packet_index_send EXCEPT !["in"] = packet_index_in]
      /\ send' = [send EXCEPT !["in"] = TRUE]
      /\ late' = [d \in Dir |-> late[d] \/ Unfinished(d)]
      /\ inState' = [inState EXCEPT ![packet_index_in] = "ready"]
      /\ outState' = [outState EXCEPT ![packet_index_out] = "empty"]
      /\ not_a_new_transfer' = not_a_new_transfer
  BY DEF PacketEnd, Track
<1>2. "in" \in Dir /\ "out" \in Dir
  BY DEF Dir
<1>3. /\ packet_index_send'["in"] = packet_index_in /\ send'["in"]
      /\ packet_index_send'["out"] = packet_index_send["out"] /\ send'["out"] = send["out"]
  BY <1>0, <1>1, <1>2
<1>4. not_a_new_transfer = 0 /\ packet_index_in = packet_index_out
  BY <1>0, SlotsAssumption DEF Aligned
<1>5. ASSUME NEW d \in Dir, ~late'[d]
      PROVE  ~late[d] /\ ~Unfinished(d)
  BY <1>1, <1>5
<1>6. ASSUME ~late'["in"], InBuffers PROVE InBuffers'
  <2>1. ~Unfinished("in") /\ ~sending["in"] /\ ~InBranch("in")
    BY <1>2, <1>5, <1>6 DEF Unfinished
  <2>2. ~sending'["in"] /\ Where("in")' \in {"test", "reads_send"} /\ ~InBranch("in")'
    <3>1. Where("in") \in {"test", "reads_send"}
      BY <2>1, BranchIs
    <3>. QED  BY <2>1, <3>1 DEF Where, InBranch
  <2>3. Single("in")' /\ Uses("in")' /\ Unfinished("in")'
    BY <1>3, <2>2 DEF Single, Uses, Unfinished
  <2>4. pdc'["in"].slot >= Slots - Lag - 1
    <3>1. slot_offset_in = Slots - 1 - Lag
      BY SubValue, SlotsAssumption DEF Aligned
    <3>2. pdc'["in"].slot = slot_offset_in
      BY DEF PointPdc, Dir
    <3>. QED  BY <3>1, <3>2, SlotsAssumption
  <2>5. /\ inState'[packet_index_in] = "ready"
        /\ \A c \in Buf : inState'[c] = "ready" => c = packet_index_in
    BY <1>0, <1>1, <1>6, <2>1 DEF InBuffers
  <2>6. packet_index_out' = 1 - packet_index_in
    BY <1>1, <1>4
  <2>. QED  BY <1>1, <1>3, <1>4, <2>3, <2>4, <2>5, <2>6 DEF InBuffers
<1>7. ASSUME ~late'["out"], OutBuffers PROVE OutBuffers'
  <2>1. ~Unfinished("out")
    BY <1>2, <1>5, <1>7
  <2>2. outState[1 - packet_index_out] = "full"
    BY <1>7, <2>1, SlotsAssumption DEF OutBuffers
  <2>3. outState'[packet_index_out'] = "full"
    BY <1>0, <1>1, <2>2 DEF Buf
  <2>4. SameSide("out")
    BY <1>3 DEF SameSide, Where
  <2>5. Single("out")' /\ Uses("out")' /\ ~Unfinished("out")'
    BY <1>2, <1>3, <1>7, <2>1, <2>4, UsesKept DEF OutBuffers
  <2>. QED  BY <2>3, <2>5, SlotsAssumption DEF OutBuffers
<1>. QED  BY <1>2, <1>5, <1>6, <1>7

LEMMA BuffersTickB ==
    ASSUME TypeOK, Aligned, TickB, session = "clean", sent_out
    PROVE  /\ (~late["in"] => InBuffers) => (~late'["in"] => InBuffers')
           /\ (~late["out"] => OutBuffers) => (~late'["out"] => OutBuffers')
<1>. DEFINE out == Inc(slot_offset_out)
<1>1. slot_offset_out \in Slot /\ not_a_new_transfer \in {0, Warm}
  BY DEF TypeOK, TickType
<1>2. out = (IF slot_offset_out = Slots - 1 THEN 0 ELSE slot_offset_out + 1) /\ out \in Slot
  BY <1>1, IncValue, SlotsAssumption DEF Slot
<1>3. /\ PointPdc /\ UNCHANGED <<sending, sent_out, job, mloop, owed>>
      /\ slot_offset_out' = Sub(out, Rewind(out))
      /\ \/ out = 0 /\ PacketEnd
         \/ out = Lag /\ InSwitch
         \/ out = Warm /\ EndWarmUp
         \/ out = OutReq /\ RequestOut
         \/ out \notin {0, Lag, Warm, OutReq} /\ PlainSlot
  BY DEF TickB
<1>. HIDE DEF out
<1>4. \A k \in Slot : Sub(out, k) = IF out >= k THEN out - k ELSE out + Slots - k
  BY <1>2, SubValue DEF Slot
<1>5. out # Warm => slot_offset_out' = out
  BY <1>2, <1>3, <1>4, SlotsAssumption DEF Rewind, Slot
<1>6. out = Warm => slot_offset_out' \in {0, Warm}
  BY <1>1, <1>2, <1>3, <1>4, SlotsAssumption DEF Rewind, Slot
<1>7. CASE out = 0 /\ PacketEnd
  <2>1. slot_offset_out = Slots - 1 /\ slot_offset_out' = 0
    BY <1>1, <1>2, <1>5, <1>7, SlotsAssumption DEF Slot
  <2>. QED  BY <1>3, <1>7, <2>1, BuffersEnd
<1>8. CASE out = OutReq /\ RequestOut
  <2>1. slot_offset_out < OutReq /\ slot_offset_out' = OutReq
    BY <1>1, <1>2, <1>5, <1>8, SlotsAssumption DEF Slot
  <2>2. late' = late
    BY <1>8 DEF RequestOut
  <2>. QED  BY <1>3, <1>8, <2>1, <2>2, BuffersRequest
<1>9. CASE \/ out = Lag /\ InSwitch
           \/ out = Warm /\ EndWarmUp
           \/ out \notin {0, Lag, Warm, OutReq} /\ PlainSlot
  <2>1. slot_offset_out' >= OutReq <=> slot_offset_out >= OutReq
    BY <1>1, <1>2, <1>5, <1>6, <1>9, SlotsAssumption DEF Slot
  <2>2. late' = late
    BY <1>9 DEF InSwitch, EndWarmUp, PlainSlot
  <2>. QED  BY <1>3, <1>9, <2>1, <2>2, BuffersPlain
<1>. QED  BY <1>3, <1>7, <1>8, <1>9

\* BufferInv is inductive, given the invariants above.
LEMMA BufferInit == Init => BufferInv
  BY DEF Init, BufferInv

LEMMA BufferNext ==
    TypeOK /\ StartInv /\ AlignInv /\ TransferInv /\ BufferInv /\ [Next]_vars => BufferInv'
<1>. SUFFICES ASSUME TypeOK, StartInv, AlignInv, TransferInv, BufferInv, [Next]_vars,
                     session' = "clean"
              PROVE  BufferInv'
  BY DEF BufferInv
<1>1. CASE \E f \in Frames : C5Begin(f)
  BY <1>1 DEF C5Begin, Forget, BufferInv
<1>2. CASE (\E d \in Dir : EpSetHalt(d)) \/ UsbDisable \/ UsbEnable
  BY <1>2 DEF EpSetHalt, UsbDisable, UsbEnable, Dirty
<1>3. session = "clean" \/ (\E f \in Frames : C5Begin(f))
      \/ (\E d \in Dir : EpSetHalt(d)) \/ UsbDisable \/ UsbEnable
  BY DEF Next, Main, MainTest, MainReadsOther, MainClear, MainSet, MainArg, MainCheck, MainBusy,
         MainFill, MainTrans, TickA, TickB, Sof, C5Stop, DmaDone, EpClearHalt, C5Step, C5Store,
         C5Config, C5Run, history, vars
<1>4. ASSUME session = "clean"
      PROVE  /\ enabled /\ ~raced /\ (\A d \in Dir : ~halted[d])
             /\ IF c5.at = "idle"
                  THEN /\ \A d \in Dir : Body(d) /\ Waiting(d)
                       /\ Aligned /\ (~late["in"] => InBuffers) /\ (~late["out"] => OutBuffers)
                  ELSE Resetting /\ ResetDone /\ \A c \in Buf : inState[c] # "ready"
  BY <1>4 DEF TransferInv, AlignInv, BufferInv
<1>5. CASE session = "clean" /\ C5Step
  <2>1. c5.at # "idle" /\ inState' = inState
    BY <1>5 DEF C5Step, C5Store, C5Config, C5Run, history
  <2>2. \A c \in Buf : inState'[c] # "ready"
    BY <1>4, <1>5, <2>1
  <2>3. CASE C5Run
    <3>0. job \in [Dir -> JobType] /\ "in" \in Dir /\ "out" \in Dir
      BY DEF TypeOK, EndpointType, Dir
    <3>1. /\ Resetting /\ ResetDone /\ enabled /\ ~halted["out"] /\ c5.at = "run" /\ c5.todo = {}
      BY <1>4, <1>5, <2>1, <2>3, <3>0 DEF C5Run, AlignInv
    <3>2. /\ UNCHANGED <<send, sending, sent_out, packet_index_send, mloop, slot_offset_out,
                         packet_index_out>>
          /\ job' = [job EXCEPT !["out"] = [busy |-> TRUE, loaded |-> TRUE, cb |-> "first",
                                            buf |-> packet_index_send["out"],
                                            dma |-> packet_index_send["out"]]]
      BY <2>3, <3>1 DEF C5Run, Ready, flagVars, tickVars
    <3>3. job'["out"].buf = packet_index_send["out"]
      BY <3>0, <3>2
    <3>4. ~send["in"] /\ ~sending["in"] /\ ~send["out"] /\ ~sent_out /\ packet_index_send["out"] = 0
      BY <3>1 DEF Resetting
    <3>5. \A d \in Dir : ~InBranch(d)' /\ Where(d)' \in {"test", "reads_send"}
      <4>1. \A d \in Dir : ~InBranch(d) /\ Where(d) \in {"test", "reads_send"}
        BY <3>1, BranchIs DEF Resetting
      <4>. QED  BY <3>2, <4>1 DEF InBranch, Where
    <3>6. InBuffers'
      <4>1. Single("in")' /\ Uses("in")' /\ ~Unfinished("in")'
        BY <3>0, <3>2, <3>4, <3>5 DEF Single, Uses, Unfinished
      <4>. QED  BY <2>2, <4>1 DEF InBuffers
    <3>7. OutBuffers'
      <4>1. Single("out")' /\ Uses("out")'
        BY <3>0, <3>2, <3>3, <3>4, <3>5 DEF Single, Uses
      <4>2. slot_offset_out = 0 /\ packet_index_out = 0
        BY <3>1 DEF ResetDone
      <4>. QED  BY <3>2, <3>4, <4>1, <4>2 DEF OutBuffers
    <3>8. c5'.at = "idle"
      BY <2>3 DEF C5Run, TypeOK, ControlType
    <3>. QED  BY <3>6, <3>7, <3>8 DEF BufferInv
  <2>4. CASE ~C5Run
    <3>1. c5'.at # "idle"
      BY <1>5, <2>1, <2>4 DEF C5Step, C5Store, C5Config, TypeOK, ControlType
    <3>. QED  BY <2>2, <3>1 DEF BufferInv
  <2>. QED  BY <2>3, <2>4
<1>6. CASE session = "clean" /\ \E d \in Dir : EpClearHalt(d)
  BY <1>4, <1>6 DEF EpClearHalt
<1>7. CASE session = "clean" /\ Main
  <2>1. c5.at = "idle"
    BY <1>7 DEF Main, MainTest, MainReadsOther, MainClear, MainSet, MainArg, MainCheck, MainBusy,
         MainFill, MainTrans, At, Thread
  <2>2. PICK d \in Dir : MainStep(d)
    BY <1>7 DEF Main, MainStep
  <2>3. (InBuffers => InBuffers') /\ (OutBuffers => OutBuffers')
    BY <1>4, <1>7, <2>1, <2>2, BuffersMain
  <2>4. UNCHANGED <<c5, late>>
    BY <1>4, <1>7, <2>1, <2>2, MainFrame
  <2>. QED  BY <1>4, <1>7, <2>1, <2>3, <2>4 DEF BufferInv
<1>8. CASE session = "clean" /\ \E d \in Dir : DmaDone(d)
  <2>0. PICK d \in Dir : DmaDone(d)
    BY <1>8
  <2>1. c5.at = "idle" /\ UNCHANGED <<c5, late>>
    BY <2>0 DEF DmaDone, UsbIsr
  <2>2. (InBuffers => InBuffers') /\ (OutBuffers => OutBuffers')
    BY <1>4, <1>8, <2>0, <2>1, BuffersDma
  <2>. QED  BY <1>4, <1>8, <2>1, <2>2 DEF BufferInv
<1>9. CASE session = "clean" /\ (TickA \/ TickB)
  <2>1. timerOn /\ c5' = c5
    BY <1>9 DEF TickA, TickB, TickAllowed
  <2>2. c5.at = "idle" /\ sent_out
    BY <1>9, <2>1 DEF StartInv
  <2>3. CASE TickA
    <3>1. (InBuffers => InBuffers') /\ (OutBuffers => OutBuffers') /\ late' = late
      BY <1>4, <1>9, <2>2, <2>3, BuffersTickA DEF TickA
    <3>. QED  BY <1>4, <1>9, <2>1, <2>2, <3>1 DEF BufferInv
  <2>4. CASE TickB
    <3>1. /\ (~late["in"] => InBuffers) => (~late'["in"] => InBuffers')
          /\ (~late["out"] => OutBuffers) => (~late'["out"] => OutBuffers')
      BY <1>4, <1>9, <2>2, <2>4, BuffersTickB
    <3>. QED  BY <1>4, <1>9, <2>1, <2>2, <3>1 DEF BufferInv
  <2>. QED  BY <1>9, <2>3, <2>4
<1>10. CASE session = "clean" /\ ((\E f \in Frames : Sof(f)) \/ C5Stop \/ UNCHANGED vars)
  <2>1. UNCHANGED <<tickVars, sending, send, sent_out, job, owed, mloop, c5, packet_index_send,
                    late, inState, outState>>
    BY <1>10 DEF Sof, C5Stop, vars, history, flagVars
  <2>2. \A d \in Dir : SameSide(d)
    BY <2>1 DEF SameSide, Where
  <2>3. \A d \in Dir : /\ Uses(d) => Uses(d)'
                       /\ Single(d) => Single(d)'
                       /\ Unfinished(d)' <=> Unfinished(d)
    BY <2>1, <2>2, UsesKept
  <2>4. (InBuffers => InBuffers') /\ (OutBuffers => OutBuffers')
    BY <2>1, <2>3 DEF InBuffers, OutBuffers, tickVars, Dir
  <2>. QED  BY <1>4, <1>10, <2>1, <2>4 DEF BufferInv
<1>. QED
  BY <1>1, <1>2, <1>3, <1>5, <1>6, <1>7, <1>8, <1>9, <1>10 DEF Next

\* In a clean session whose packet boundaries find the transfers finished, no
\* buffer is shared by PDC and DMA, lost or played twice: for every packet size,
\* lag, warm-up and request slot, and every interleaving of TC2_Handler, the USB
\* interrupt and the main loop.
THEOREM BuffersAreKept == Spec => []BuffersKept
<1>1. TypeOK /\ StartInv /\ AlignInv /\ TransferInv /\ BufferInv => BuffersKept
  <2>. SUFFICES ASSUME TypeOK, StartInv, AlignInv, TransferInv, BufferInv,
                       session = "clean", c5.at = "idle"
                PROVE  BuffersKept
    BY DEF BuffersKept, InPacketOwned, NoPacketLost, DacPlaysFullPacket
  <2>0. /\ packet_index_out \in Buf /\ packet_index_in \in Buf /\ packet_index_send \in [Dir -> Buf]
        /\ "in" \in Dir /\ "out" \in Dir
    BY DEF TypeOK, TickType, FlagType, Dir
  <2>1. /\ \A d \in Dir : Body(d)
        /\ Aligned /\ (~late["in"] => InBuffers) /\ (~late["out"] => OutBuffers)
    BY DEF TransferInv, AlignInv, BufferInv
  <2>2. ASSUME NEW d \in Dir, job[d].dma # None, Uses(d)
        PROVE  Unfinished(d) /\ job[d].dma = packet_index_send[d]
    <3>1. Where(d) \in {"test", "reads_send", "reads_sending"} /\ sending[d] /\ Moving(d)
      BY <2>1, <2>2 DEF Body, Rest, Quiet
    <3>2. ~InBranch(d)
      BY <2>2, <3>1, BranchIs DEF Uses
    <3>. QED  BY <2>2, <3>1, <3>2 DEF Uses, Unfinished, Moving
  <2>3. InPacketOwned
    BY <2>0, <2>1, <2>2 DEF InPacketOwned, InBuffers
  <2>4. NoPacketLost
    <3>1. SUFFICES ASSUME ~late["in"], slot_offset_out >= Lag, inState[packet_index_in] = "ready"
                   PROVE  FALSE
      BY DEF NoPacketLost
    <3>2. not_a_new_transfer = 0 /\ packet_index_out = 1 - packet_index_in
      BY <2>0, <2>1, <3>1 DEF InBuffers
    <3>. QED  BY <2>0, <2>1, <3>1, <3>2 DEF Aligned, Buf
  <2>5. DacPlaysFullPacket
    <3>1. SUFFICES ASSUME ~late["out"], timerOn
                   PROVE  outState[packet_index_out] = "full" /\ job["out"].dma # packet_index_out
      BY DEF DacPlaysFullPacket
    <3>2. sent_out /\ OutBuffers
      BY <2>1, <3>1 DEF StartInv
    <3>3. job["out"].dma # None => job["out"].dma = 1 - packet_index_out
      BY <2>0, <2>2, <3>2 DEF OutBuffers
    <3>. QED  BY <2>0, <3>2, <3>3 DEF OutBuffers, Buf, None
  <2>. QED  BY <2>3, <2>4, <2>5 DEF BuffersKept
<1>. QED
  BY <1>1, BufferInit, BufferNext, TransferInit, TransferNext, AlignInit, AlignNext,
     StartInvariant, Typing, PTL DEF Spec

=============================================================================
