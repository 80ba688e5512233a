-------------------------- MODULE UsbControlProofs --------------------------
(***************************************************************************)
(* The control endpoint, for every packet size, every payload length and   *)
(* every behaviour of the host.                                            *)
(*                                                                         *)
(* Shape is the type of ep0 without bounds on the counts; each routine of  *)
(* the driver keeps it.  The *Fields lemmas say which fields of ep0 a      *)
(* routine changes, and to what.  TransferInv relates ep0, the event that  *)
(* the interrupt has found and the transfer of the host; the *Keeps lemmas *)
(* say that each handler, and each step of the host, keeps it.  ServiceInv *)
(* says how the driver stands to the transfer it serves when the host      *)
(* makes no mismatched request; the *Serves lemmas keep that one.          *)
(* LedgerInv keeps account of the callback (the *Settles lemmas).  The     *)
(* *Maps lemmas show that every step is one of ControlTransfer, or none;   *)
(* the *Progress lemmas say what a handler does for that.                  *)
(***************************************************************************)
EXTENDS UsbControl, TLAPS

AnyRequest == [dir : {"in", "out"}, len : Int, size : Int, cb : BOOLEAN, ok : BOOLEAN]

Shape == [rxSetup : BOOLEAN, fifo : AnyRequest, out : Int, tx : [n : Int, from : Int],
          complt : BOOLEAN, nakIn : BOOLEAN, nakOut : BOOLEAN, frcestall : BOOLEAN,
          inSendIe : BOOLEAN, nakInIe : BOOLEAN, nakOutIe : BOOLEAN,
          state : States, req : AnyRequest, size : Int, cb : BOOLEAN,
          cnt : Int, prev : Int, short : BOOLEAN,
          ledger : {"clear", "open", "done", "early", "lost"}, shortSent : BOOLEAN]

Sending == {"DATA_IN", "WAIT_IN_ZLP"}

\* The IN interrupt is enabled only in the two states that wait for it.
Quiet(d) == d.inSendIe => d.state \in Sending

LEMMA CtrlInitFacts ==
    ASSUME NEW d \in Shape
    PROVE  /\ CtrlInit(d) \in Shape
           /\ ~CtrlInit(d).inSendIe /\ CtrlInit(d).state = "SETUP"
           /\ CtrlInit(d).fifo = d.fifo
<1>. DEFINE l == Dropped(d.ledger)
            none == -1
            zero == 0
<1>1. l \in {"clear", "open", "done", "early", "lost"} /\ none \in Int /\ zero \in Int
  BY DEF Dropped, Shape
<1>. DEFINE e == [d EXCEPT !.inSendIe = FALSE, !.out = none, !.cb = FALSE]
<1>2. CtrlInit(d) = [e EXCEPT !.size = zero, !.state = "SETUP", !.ledger = l]
  BY DEF CtrlInit
<1>. HIDE DEF l, none, zero
<1>3. e \in Shape /\ ~e.inSendIe /\ e.fifo = d.fifo
  BY <1>1 DEF Shape
<1>. HIDE DEF e
<1>. DEFINE f == [e EXCEPT !.size = zero]
<1>4. f \in Shape /\ ~f.inSendIe /\ f.fifo = d.fifo
  BY <1>1, <1>3 DEF Shape
<1>5. CtrlInit(d) = [f EXCEPT !.state = "SETUP", !.ledger = l]
  BY <1>2
<1>. HIDE DEF f
<1>. QED  BY <1>1, <1>4, <1>5 DEF Shape, States

LEMMA EndOfRequestFacts ==
    ASSUME NEW d \in Shape
    PROVE  /\ EndOfRequest(d) \in Shape
           /\ EndOfRequest(d).state = d.state /\ EndOfRequest(d).inSendIe = d.inSendIe
           /\ EndOfRequest(d).fifo = d.fifo
  BY DEF EndOfRequest, Shape

LEMMA StallDataFacts ==
    ASSUME NEW d \in Shape
    PROVE  StallData(d) \in Shape /\ StallData(d).inSendIe = d.inSendIe
  BY DEF StallData, Shape, States

LEMMA TransmitFacts ==
    ASSUME NEW d \in Shape, NEW n \in Int, NEW from \in Int
    PROVE  Transmit(d, n, from) \in Shape /\ Transmit(d, n, from).state = d.state
  BY DEF Transmit, Shape

LEMMA SendZlpInFacts ==
    ASSUME NEW d \in Shape
    PROVE  SendZlpIn(d) \in Shape /\ SendZlpIn(d).state = "WAIT_IN_ZLP"
<1>1. Transmit(d, 0, 0) \in Shape
  BY TransmitFacts
<1>. QED  BY <1>1 DEF SendZlpIn, Shape, States

LEMMA SendZlpOutFacts ==
    ASSUME NEW d \in Shape
    PROVE  SendZlpOut(d) \in Shape /\ SendZlpOut(d).inSendIe = d.inSendIe
  BY DEF SendZlpOut, Shape, States

LEMMA SendDataFacts ==
    ASSUME NEW d \in Shape, ~d.inSendIe, d.state = "DATA_IN"
    PROVE  SendData(d) \in Shape /\ Quiet(SendData(d))
<1>. DEFINE n == Chunk(d.size - d.cnt)
            e == [d EXCEPT !.short = (n < Pkt)]
<1>0. d.size \in Int /\ d.cnt \in Int
  BY DEF Shape
<1>1. n \in Int
  BY <1>0, CtrlAssumption DEF Chunk
<1>. HIDE DEF n
<1>2. e \in Shape /\ e.state = "DATA_IN" /\ ~e.inSendIe /\ d.cnt \in Int
  <2>1. (n < Pkt) \in BOOLEAN
    OBVIOUS
  <2>. QED  BY <1>0, <2>1 DEF Shape
<1>3. Transmit(e, n, d.cnt) \in Shape /\ Transmit(e, n, d.cnt).state = "DATA_IN"
  BY <1>1, <1>2, TransmitFacts
<1>. DEFINE t == Transmit(e, n, d.cnt)
<1>4. SendData(d) = IF d.out # -1
                      THEN [e EXCEPT !.state = "WAIT_OUT_ZLP"]
                      ELSE [t EXCEPT !.cnt = @ + n, !.shortSent = @ \/ n < Pkt]
  BY DEF SendData, n
<1>. HIDE DEF e, t
<1>5. CASE d.out # -1
  BY <1>2, <1>4, <1>5 DEF Shape, Quiet, States
<1>6. CASE d.out = -1
  <2>1. t.cnt + n \in Int /\ (t.shortSent \/ n < Pkt) \in BOOLEAN
    BY <1>1, <1>3, CtrlAssumption DEF t, Shape
  <2>. DEFINE c == t.cnt + n
              b == (t.shortSent \/ n < Pkt)
              f == [t EXCEPT !.cnt = c, !.shortSent = b]
  <2>2. SendData(d) = f
    BY <1>4, <1>6
  <2>. HIDE DEF c, b
  <2>3. c \in Int /\ b \in BOOLEAN /\ t \in Shape /\ t.state = "DATA_IN"
    BY <1>3, <2>1 DEF c, b, t
  <2>4. f \in Shape /\ f.state = "DATA_IN"
    BY <2>3 DEF Shape
  <2>. QED  BY <2>2, <2>4 DEF Quiet, Sending
<1>. QED  BY <1>5, <1>6

LEMMA PayloadSentFacts ==
    ASSUME NEW d \in Shape, ~d.inSendIe, d.state = "DATA_IN"
    PROVE  PayloadSent(d) \in Shape /\ Quiet(PayloadSent(d))
<1>. DEFINE e == [d EXCEPT !.prev = @ + d.cnt]
<1>1. e \in Shape /\ ~e.inSendIe /\ e.state = "DATA_IN"
  BY DEF Shape
<1>2. PayloadSent(d) = IF e.prev = d.req.len \/ d.short THEN SendZlpOut(e) ELSE SendData(e)
  BY DEF PayloadSent
<1>. HIDE DEF e
<1>. QED  BY <1>1, <1>2, SendZlpOutFacts, SendDataFacts DEF Quiet

LEMMA InSentFacts ==
    ASSUME NEW d \in Shape, d.state \in Sending
    PROVE  InSent(d) \in Shape /\ Quiet(InSent(d))
<1>. DEFINE e == [d EXCEPT !.inSendIe = FALSE]
<1>1. e \in Shape /\ ~e.inSendIe /\ e.state = d.state
  BY DEF Shape
<1>2. InSent(d) = CASE d.state = "WAIT_IN_ZLP" -> CtrlInit(EndOfRequest(e))
                    [] d.state # "WAIT_IN_ZLP" /\ d.size = d.cnt -> PayloadSent(e)
                    [] OTHER -> SendData(e)
  BY DEF InSent
<1>. HIDE DEF e
<1>3. CASE d.state = "WAIT_IN_ZLP"
  <2>1. InSent(d) = CtrlInit(EndOfRequest(e))
    BY <1>2, <1>3
  <2>. QED  BY <1>1, <2>1, CtrlInitFacts, EndOfRequestFacts DEF Quiet
<1>4. CASE d.state = "DATA_IN"
  <2>1. InSent(d) = PayloadSent(e) \/ InSent(d) = SendData(e)
    BY <1>2, <1>4
  <2>. QED  BY <1>1, <1>4, <2>1, PayloadSentFacts, SendDataFacts
<1>. QED  BY <1>3, <1>4 DEF Sending

LEMMA UnfinishedFacts ==
    ASSUME NEW d \in Shape, Quiet(d)
    PROVE  Unfinished(d) \in Shape /\ ~Unfinished(d).inSendIe
<1>1. CASE d.state # "SETUP"
  BY <1>1, CtrlInitFacts, EndOfRequestFacts DEF Unfinished
<1>2. CASE d.state = "SETUP"
  BY <1>2 DEF Unfinished, Quiet, Sending
<1>. QED  BY <1>1, <1>2

HostShape == [stage : {"idle", "data", "status"}, req : AnyRequest, n : Int, cut : BOOLEAN,
              result : {"none", "ok", "stall", "overrun", "error", "reset", "timeout"}]

LEMMA RequestFacts == Requests \subseteq AnyRequest
<1>1. Len \subseteq Int
  BY CtrlAssumption DEF Len
<1>. QED  BY <1>1 DEF Requests, RequestType, AnyRequest

LEMMA CompleteFacts ==
    ASSUME NEW d \in Shape
    PROVE  Complete(d) \in Shape
  BY DEF Complete, Shape

(***************************************************************************)
(* The routines of the driver, field by field.                             *)
(***************************************************************************)
Fields == {"rxSetup", "fifo", "out", "tx", "complt", "nakIn", "nakOut", "frcestall",
           "inSendIe", "nakInIe", "nakOutIe", "state", "req", "size", "cb", "cnt", "prev",
           "short", "ledger", "shortSent"}
Packet(n, from) == [n |-> n, from |-> from]
\* e is d but for the fields F.
Except(d, e, F) == DOMAIN e = Fields /\ \A f \in Fields \ F : e[f] = d[f]

LEMMA ShapeFields == \A d \in Shape : DOMAIN d = Fields
  BY DEF Fields, Shape

LEMMA CtrlInitFields ==
    ASSUME NEW d, DOMAIN d = Fields
    PROVE  /\ Except(d, CtrlInit(d), {"inSendIe", "out", "cb", "size", "state", "ledger"})
           /\ CtrlInit(d).inSendIe = FALSE /\ CtrlInit(d).out = -1 /\ CtrlInit(d).cb = FALSE
           /\ CtrlInit(d).size = 0 /\ CtrlInit(d).state = "SETUP"
           /\ CtrlInit(d).ledger = Dropped(d.ledger)
  BY DEF CtrlInit, Except, Fields

LEMMA EndFields ==
    ASSUME NEW d, DOMAIN d = Fields
    PROVE  /\ Except(d, CtrlInit(EndOfRequest(d)),
                     {"inSendIe", "out", "cb", "size", "state", "ledger"})
           /\ CtrlInit(EndOfRequest(d)).inSendIe = FALSE /\ CtrlInit(EndOfRequest(d)).out = -1
           /\ CtrlInit(EndOfRequest(d)).cb = FALSE /\ CtrlInit(EndOfRequest(d)).size = 0
           /\ CtrlInit(EndOfRequest(d)).state = "SETUP"
           /\ CtrlInit(EndOfRequest(d)).ledger =
                IF d.cb THEN Dropped(IF d.ledger = "done" THEN "clear" ELSE "early")
                        ELSE Dropped(d.ledger)
<1>1. Except(d, EndOfRequest(d), {"ledger"})
  BY DEF EndOfRequest, Except, Fields
<1>2. EndOfRequest(d).ledger =
         IF d.cb THEN IF d.ledger = "done" THEN "clear" ELSE "early" ELSE d.ledger
  BY DEF EndOfRequest, Fields
<1>. DEFINE e == EndOfRequest(d)
            c == CtrlInit(e)
<1>3. DOMAIN e = Fields
  BY <1>1 DEF Except
<1>. HIDE DEF e
<1>4. /\ Except(e, c, {"inSendIe", "out", "cb", "size", "state", "ledger"})
      /\ c.inSendIe = FALSE /\ c.out = -1 /\ c.cb = FALSE /\ c.size = 0
      /\ c.state = "SETUP" /\ c.ledger = Dropped(e.ledger)
  BY <1>3, CtrlInitFields
<1>. HIDE DEF c
<1>5. Except(d, c, {"inSendIe", "out", "cb", "size", "state", "ledger"})
  BY <1>1, <1>4 DEF Except, Fields, e
<1>6. c.ledger = IF d.cb THEN Dropped(IF d.ledger = "done" THEN "clear" ELSE "early")
                         ELSE Dropped(d.ledger)
  BY <1>2, <1>4 DEF e
<1>. QED  BY <1>4, <1>5, <1>6 DEF c, e

LEMMA StallDataFields ==
    ASSUME NEW d, DOMAIN d = Fields
    PROVE  /\ Except(d, StallData(d), {"state", "frcestall"})
           /\ StallData(d).state = "STALL_REQ" /\ StallData(d).frcestall = TRUE
  BY DEF StallData, Except, Fields

LEMMA TransmitFields ==
    ASSUME NEW d, DOMAIN d = Fields
    PROVE  \A n, from : /\ Except(d, Transmit(d, n, from), {"complt", "tx", "inSendIe"})
                        /\ Transmit(d, n, from).complt = FALSE
                        /\ Transmit(d, n, from).tx = Packet(n, from)
                        /\ Transmit(d, n, from).inSendIe = TRUE
  BY DEF Transmit, Packet, Except, Fields

LEMMA SendZlpInFields ==
    ASSUME NEW d, DOMAIN d = Fields
    PROVE  /\ Except(d, SendZlpIn(d), {"complt", "tx", "inSendIe", "state", "nakOut", "nakOutIe"})
           /\ SendZlpIn(d).complt = FALSE /\ SendZlpIn(d).tx = Packet(0, 0)
           /\ SendZlpIn(d).inSendIe = TRUE /\ SendZlpIn(d).state = "WAIT_IN_ZLP"
           /\ SendZlpIn(d).nakOut = FALSE /\ SendZlpIn(d).nakOutIe = TRUE
<1>. DEFINE t == Transmit(d, 0, 0)
<1>1. /\ Except(d, t, {"complt", "tx", "inSendIe"})
      /\ t.complt = FALSE /\ t.tx = Packet(0, 0) /\ t.inSendIe = TRUE
  BY TransmitFields, Zenon
<1>2. SendZlpIn(d) = [t EXCEPT !.state = "WAIT_IN_ZLP", !.nakOut = FALSE, !.nakOutIe = TRUE]
  BY DEF SendZlpIn
<1>. HIDE DEF t
<1>. QED  BY <1>1, <1>2 DEF Except, Fields

LEMMA SendZlpOutFields ==
    ASSUME NEW d, DOMAIN d = Fields
    PROVE  /\ Except(d, SendZlpOut(d), {"state", "nakIn", "nakInIe"})
           /\ SendZlpOut(d).state = "WAIT_OUT_ZLP" /\ SendZlpOut(d).nakIn = FALSE
           /\ SendZlpOut(d).nakInIe = TRUE
  BY DEF SendZlpOut, Except, Fields

LEMMA SendDataStops ==
    ASSUME NEW d, DOMAIN d = Fields, d.out # -1
    PROVE  /\ Except(d, SendData(d), {"short", "state"})
           /\ SendData(d).state = "WAIT_OUT_ZLP"
<1>. DEFINE b == (Chunk(d.size - d.cnt) < Pkt)
<1>1. SendData(d) = [[d EXCEPT !.short = b] EXCEPT !.state = "WAIT_OUT_ZLP"]
  BY DEF SendData
<1>. HIDE DEF b
<1>. QED  BY <1>1 DEF Except, Fields

LEMMA SendDataSends ==
    ASSUME NEW d, DOMAIN d = Fields, d.out = -1, NEW n, n = Chunk(d.size - d.cnt)
    PROVE  /\ Except(d, SendData(d), {"short", "complt", "tx", "inSendIe", "cnt", "shortSent"})
           /\ SendData(d).short = (n < Pkt) /\ SendData(d).complt = FALSE
           /\ SendData(d).tx = Packet(n, d.cnt)
           /\ SendData(d).inSendIe = TRUE /\ SendData(d).cnt = d.cnt + n
<1>. DEFINE s == (n < Pkt)
            e == [d EXCEPT !.short = s]
            t == Transmit(e, n, d.cnt)
            c == t.cnt + n
            b == (t.shortSent \/ n < Pkt)
            z == [t EXCEPT !.cnt = c, !.shortSent = b]
<1>1. SendData(d) = z
  BY DEF SendData
<1>2. Except(d, e, {"short"}) /\ e.short = s
  <2>. HIDE DEF s
  <2>. QED  BY DEF Except, Fields
<1>. HIDE DEF e
<1>3. /\ Except(e, t, {"complt", "tx", "inSendIe"})
      /\ t.complt = FALSE /\ t.tx = Packet(n, d.cnt) /\ t.inSendIe = TRUE
  <2>1. DOMAIN e = Fields
    BY <1>2 DEF Except
  <2>2. \A m, from : /\ Except(e, Transmit(e, m, from), {"complt", "tx", "inSendIe"})
                     /\ Transmit(e, m, from).complt = FALSE
                     /\ Transmit(e, m, from).tx = Packet(m, from)
                     /\ Transmit(e, m, from).inSendIe = TRUE
    BY <2>1, TransmitFields
  <2>. QED  BY <2>2, Zenon
<1>. HIDE DEF t, c, b, s
<1>4. Except(t, z, {"cnt", "shortSent"}) /\ z.cnt = c
  BY <1>3 DEF Except, Fields
<1>. HIDE DEF z
<1>5. /\ Except(d, z, {"short", "complt", "tx", "inSendIe", "cnt", "shortSent"})
      /\ z.complt = FALSE /\ z.tx = Packet(n, d.cnt) /\ z.inSendIe = TRUE /\ z.short = s
  BY <1>2, <1>3, <1>4 DEF Except, Fields
<1>6. t.cnt = d.cnt
  BY <1>2, <1>3 DEF Except, Fields
<1>. QED  BY <1>1, <1>4, <1>5, <1>6 DEF s, c

(***************************************************************************)
(* The invariant of a transfer: d is ep0, i the event of the interrupt, h  *)
(* the host.                                                               *)
(***************************************************************************)
\* The request that the driver is serving is over for the host.
Over(d, h) == h.stage = "idle" \/ d.rxSetup
InDue(d) == d.complt /\ d.inSendIe
NakDue(d) == (d.nakIn /\ d.nakInIe) \/ (d.nakOut /\ d.nakOutIe)

\* Every count is within the packet, the payload or wLength.
Bounded(d, h) ==
    /\ d.out \in -1 .. Pkt
    /\ d.tx # NoPacket => d.tx.n \in 0 .. Pkt /\ d.tx.from \in Len
    /\ d.fifo \in Requests /\ d.req \in Requests
    /\ d.size \in Len /\ d.cnt \in Len /\ d.prev \in 0 .. 2 * MaxLen
    /\ h.req \in Requests /\ 0 <= h.n /\ h.n <= h.req.len
    /\ h.stage = "data" => h.n < h.req.len

\* What an event says of the registers when its handler runs, packets having
\* come since udd_ctrl_interrupt read the status.
Events(d, i) ==
    /\ d.complt => d.tx = NoPacket
    /\ i = "in" => d.complt /\ d.state \in Sending
    /\ i = "out" => d.out # -1
    /\ i = "setup" => d.rxSetup
    /\ i # "none" => ~d.nakInIe /\ ~d.nakOutIe
    /\ d.frcestall => i # "in" /\ ~InDue(d)
    /\ Quiet(d)

\* The request that the driver has in hand, or the SETUP packet that waits, is
\* the host's.
Current(d, h) ==
    /\ d.rxSetup => /\ d.tx = NoPacket /\ d.fifo = h.req /\ h.stage # "idle" /\ h.n = 0
    /\ h.stage # "idle" => h.result = "none"
    /\ ~d.rxSetup => \/ d.req = h.req
                     \/ h.stage = "idle" /\ d.state = "SETUP" /\ h.result # "ok"

\* What each state of the driver says of the request and of the counts.
Stages(d, h) ==
    /\ d.state \in {"DATA_IN", "WAIT_OUT_ZLP"} => d.req.dir = "in" /\ d.req.len > 0
    /\ d.state = "DATA_OUT" => /\ d.req.dir = "out" /\ d.req.len > 0
                               /\ d.prev = 0 /\ d.tx = NoPacket
    /\ d.state = "WAIT_IN_ZLP" => d.req.dir = "out"
    /\ d.state = "STALL_REQ" => d.out = -1 /\ (d.frcestall \/ d.rxSetup)
    /\ d.state = "SETUP" => d.out = -1 /\ (Over(d, h) \/ d.frcestall)
    /\ d.state \in {"DATA_IN", "DATA_OUT"} => d.cnt <= d.size /\ d.size = d.req.size
    /\ d.state = "DATA_IN" => d.prev = 0 \/ (d.prev = d.cnt /\ d.short /\ d.cnt = d.size)

\* What is left of a request once it is over for the host.
Ended(d, i, h) ==
    /\ Over(d, h) /\ (i = "in" \/ (InDue(d) /\ ~d.rxSetup)) => d.state = "WAIT_IN_ZLP" \/ d.out # -1
    /\ d.state = "WAIT_IN_ZLP" /\ d.complt => Over(d, h)
    /\ d.state \in {"DATA_IN", "WAIT_OUT_ZLP"} /\ d.out # -1 => Over(d, h)
    /\ d.state = "DATA_OUT" /\ d.rxSetup => i \in {"none", "setup"}
    /\ d.state = "DATA_OUT" /\ (h.stage = "idle" \/ d.frcestall) /\ ~d.rxSetup
         => i = "none" /\ d.out = -1 /\ ~NakDue(d)

\* The packets of the IN data stage follow each other.
InAccount(d, h) ==
    ~Over(d, h) /\ h.req.dir = "in" /\ h.stage = "data" =>
       /\ d.state # "DATA_IN" => d.tx = NoPacket
       /\ d.state = "DATA_IN" /\ d.tx = NoPacket => d.cnt = h.n
       /\ d.state = "DATA_IN" /\ d.tx # NoPacket =>
            /\ d.tx.from = h.n /\ d.tx.from + d.tx.n = d.cnt
            /\ d.tx.n < Pkt => d.cnt = d.size

Smaller(a, b) == IF a < b THEN a ELSE b

\* A data stage that the host did not cut short has moved the whole payload
\* when it ends.
HostCount(h) ==
    /\ h.req.dir = "in" /\ ~h.cut /\ (h.stage = "status" \/ h.result = "ok")
          => h.n = Smaller(h.req.size, h.req.len)
    /\ h.req.dir = "out" /\ ~h.cut /\ h.stage = "status" => h.n = h.req.len

Whole(r) == r.dir = "out" /\ r.size = r.len /\ r.len > 0

\* A request whose payload is wLength long takes every OUT packet whole, and an
\* IN token in its data stage is not mistaken for the end of it.
OutAccount(d, i, h) ==
    ~d.rxSetup /\ d.req = h.req /\ Whole(h.req) /\ ~h.cut =>
       /\ d.state = "DATA_OUT" =>
           /\ h.n = d.cnt + (IF d.out = -1 THEN 0 ELSE d.out)
           /\ d.out # -1 /\ d.out # Pkt => h.n = h.req.len
           /\ (d.nakIn \/ i = "nakIn") => h.stage # "data"
           /\ h.stage = "status" => h.n = h.req.len
       /\ \/ d.state = "WAIT_IN_ZLP" \/ h.result = "ok"
          \/ h.stage # "idle" /\ d.tx # NoPacket
          => d.cnt = h.req.len

TransferInv(d, i, h) ==
    /\ d \in Shape /\ h \in HostShape
    /\ Bounded(d, h) /\ Events(d, i) /\ Current(d, h) /\ Stages(d, h) /\ Ended(d, i, h)
    /\ InAccount(d, h) /\ HostCount(h) /\ OutAccount(d, i, h)

\* The facts about requests.
LEMMA RequestRules ==
    ASSUME NEW r \in Requests
    PROVE  /\ r \in RequestType /\ r.len \in Int /\ r.size \in Int /\ 0 <= r.len /\ 0 <= r.size
           /\ r.len <= MaxLen /\ r.size <= MaxLen
           /\ r.ok /\ r.dir = "in" => r.len > 0
           /\ r.dir \in {"in", "out"} /\ r.cb \in BOOLEAN /\ r.ok \in BOOLEAN
  BY CtrlAssumption DEF Requests, RequestType, Len

\* The end of a request whose status stage is over.
LEMMA EndKeeps ==
    ASSUME NEW d, NEW h, NEW i, TransferInv(d, i, h),
           \/ i = "in" /\ d.state = "WAIT_IN_ZLP"
           \/ i = "out" /\ d.state \in {"DATA_IN", "WAIT_OUT_ZLP"},
           NEW x \in Shape, Except(d, x, {"inSendIe"}),
           NEW e, e = CtrlInit(EndOfRequest(x))
    PROVE  TransferInv(e, "none", h)
<1>1. d \in Shape /\ DOMAIN x = Fields /\ h \in HostShape /\ e \in Shape
  BY ShapeFields, CtrlInitFacts, EndOfRequestFacts DEF TransferInv
<1>2. /\ e.inSendIe = FALSE /\ e.out = -1 /\ e.size = 0 /\ e.state = "SETUP"
      /\ e.rxSetup = d.rxSetup /\ e.fifo = d.fifo /\ e.tx = d.tx /\ e.complt = d.complt
      /\ e.frcestall = d.frcestall /\ e.req = d.req /\ e.cnt = d.cnt /\ e.prev = d.prev
      /\ e.nakInIe = d.nakInIe /\ e.nakOutIe = d.nakOutIe
  <2>1. /\ Except(x, e, {"inSendIe", "out", "cb", "size", "state", "ledger"})
        /\ e.inSendIe = FALSE /\ e.out = -1 /\ e.size = 0 /\ e.state = "SETUP"
    BY <1>1, EndFields
  <2>. QED  BY <2>1 DEF Except, Fields
<1>3. Bounded(e, h)
  BY <1>2, CtrlAssumption DEF TransferInv, Bounded, Len
<1>4. Events(e, "none")
  BY <1>2 DEF TransferInv, Events, Quiet, InDue
<1>5. Current(e, h)
  BY <1>2 DEF TransferInv, Current
<1>6. Over(d, h)
  BY DEF TransferInv, Events, Ended
<1>7. Stages(e, h)
  BY <1>2, <1>6 DEF Stages, Over
<1>8. Ended(e, "none", h)
  BY <1>2 DEF Ended, InDue
<1>9. InAccount(e, h)
  BY <1>2, <1>6 DEF InAccount, Over
<1>10. OutAccount(e, "none", h)
  BY <1>2, <1>6 DEF TransferInv, OutAccount, Over
<1>. QED  BY <1>1, <1>3, <1>4, <1>5, <1>7, <1>8, <1>9, <1>10 DEF TransferInv

\* What udd_ctrl_in_sent does in the data stage: n is the length of the next
\* packet, p the payload sent so far.
InOutcome(d, e, n, p) ==
    \/ /\ d.size = d.cnt /\ (p = d.req.len \/ d.short)
       /\ Except(d, e, {"inSendIe", "prev", "state", "nakIn", "nakInIe"})
       /\ e.inSendIe = FALSE /\ e.prev = p /\ e.state = "WAIT_OUT_ZLP"
       /\ e.nakIn = FALSE /\ e.nakInIe = TRUE
    \/ /\ ~(d.size = d.cnt /\ (p = d.req.len \/ d.short)) /\ d.out # -1
       /\ Except(d, e, {"inSendIe", "prev", "state", "short", "shortSent"})
       /\ e.inSendIe = FALSE /\ e.prev = p /\ e.state = "WAIT_OUT_ZLP"
    \/ /\ ~(d.size = d.cnt /\ (p = d.req.len \/ d.short)) /\ d.out = -1
       /\ Except(d, e, {"inSendIe", "prev", "short", "shortSent", "complt", "tx", "cnt"})
       /\ e.inSendIe = TRUE /\ e.prev = p /\ e.short = (n < Pkt) /\ e.complt = FALSE
       /\ e.tx = Packet(n, d.cnt) /\ e.cnt = d.cnt + n

LEMMA InSentFields ==
    ASSUME NEW d \in Shape, d.state = "DATA_IN"
    PROVE  InOutcome(d, InSent(d), Chunk(d.size - d.cnt),
                     IF d.size = d.cnt THEN d.prev + d.cnt ELSE d.prev)
<1>. DEFINE e == InSent(d)
            n == Chunk(d.size - d.cnt)
            p == IF d.size = d.cnt THEN d.prev + d.cnt ELSE d.prev
            q == [d EXCEPT !.inSendIe = FALSE]
            x == d.prev + d.cnt
            w == [q EXCEPT !.prev = x]
<1>. SUFFICES InOutcome(d, e, n, p)
  OBVIOUS
<1>0. DOMAIN d = Fields /\ d.prev \in Int /\ d.cnt \in Int
  BY ShapeFields DEF Shape
<1>1. e = IF d.size = d.cnt
            THEN IF x = d.req.len \/ d.short THEN SendZlpOut(w) ELSE SendData(w)
            ELSE SendData(q)
  <2>1. e = IF d.size = d.cnt THEN PayloadSent(q) ELSE SendData(q)
    BY DEF InSent
  <2>2. q.prev = d.prev /\ q.cnt = d.cnt /\ q.req = d.req /\ q.short = d.short
        /\ DOMAIN q = Fields
    BY <1>0 DEF Fields
  <2>. DEFINE v == [q EXCEPT !.prev = @ + q.cnt]
  <2>3. PayloadSent(q) = IF v.prev = q.req.len \/ q.short THEN SendZlpOut(v) ELSE SendData(v)
    BY DEF PayloadSent
  <2>4. v = w
    BY <2>2, Zenon
  <2>. HIDE DEF v, q
  <2>5. w.prev = x
    BY <2>2 DEF Fields
  <2>. HIDE DEF w, x
  <2>. QED  BY <2>1, <2>2, <2>3, <2>4, <2>5
<1>2. Except(d, q, {"inSendIe"}) /\ q.inSendIe = FALSE
  BY <1>0 DEF Except, Fields
<1>. HIDE DEF e, n, p, q, x
<1>3. Except(q, w, {"prev"}) /\ w.prev = x
  BY <1>2 DEF Except, Fields
<1>. HIDE DEF w
<1>4. CASE d.size = d.cnt /\ (x = d.req.len \/ d.short)
  <2>0. p = x
    BY <1>4 DEF x, p
  <2>1. e = SendZlpOut(w) /\ DOMAIN w = Fields
    BY <1>1, <1>3, <1>4 DEF Except
  <2>2. /\ Except(w, e, {"state", "nakIn", "nakInIe"})
        /\ e.state = "WAIT_OUT_ZLP" /\ e.nakIn = FALSE /\ e.nakInIe = TRUE
    BY <2>1, SendZlpOutFields
  <2>3. Except(d, e, {"inSendIe", "prev", "state", "nakIn", "nakInIe"})
    BY <1>2, <1>3, <2>2 DEF Except
  <2>4. e.inSendIe = FALSE /\ e.prev = x
    BY <1>2, <1>3, <2>2 DEF Except, Fields
  <2>. QED  BY <1>4, <2>0, <2>2, <2>3, <2>4 DEF InOutcome
<1>5. CASE ~(d.size = d.cnt /\ (x = d.req.len \/ d.short))
  <2>. DEFINE g == IF d.size = d.cnt THEN w ELSE q
  <2>1. e = SendData(g) /\ DOMAIN g = Fields
    BY <1>1, <1>2, <1>3, <1>5 DEF Except
  <2>2. Except(d, g, {"inSendIe", "prev"}) /\ g.inSendIe = FALSE /\ g.prev = p
    BY <1>2, <1>3 DEF Except, Fields, x, p
  <2>. HIDE DEF g
  <2>3. g.size = d.size /\ g.cnt = d.cnt /\ g.out = d.out /\ g.state = d.state
    BY <2>2 DEF Except, Fields
  <2>6. d.size = d.cnt => p = x
    BY DEF x, p
  <2>7. CASE d.out # -1
    <3>1. Except(g, e, {"short", "state"}) /\ e.state = "WAIT_OUT_ZLP"
      BY <2>1, <2>3, <2>7, SendDataStops
    <3>2. Except(d, e, {"inSendIe", "prev", "state", "short", "shortSent"})
          /\ e.inSendIe = FALSE /\ e.prev = p
      BY <2>2, <3>1 DEF Except, Fields
    <3>. QED  BY <1>5, <2>6, <2>7, <3>1, <3>2 DEF InOutcome
  <2>8. CASE d.out = -1
    <3>1. /\ Except(g, e, {"short", "complt", "tx", "inSendIe", "cnt", "shortSent"})
          /\ e.short = (n < Pkt) /\ e.complt = FALSE /\ e.tx = Packet(n, g.cnt)
          /\ e.inSendIe = TRUE /\ e.cnt = g.cnt + n
      <4>1. g.out = -1 /\ n = Chunk(g.size - g.cnt)
        BY <2>3, <2>8 DEF n
      <4>. QED  BY <2>1, <4>1, SendDataSends
    <3>2. Except(d, e, {"inSendIe", "prev", "short", "shortSent", "complt", "tx", "cnt"})
          /\ e.prev = p
      BY <2>2, <3>1 DEF Except, Fields
    <3>. QED  BY <1>5, <2>3, <2>6, <2>8, <3>1, <3>2 DEF InOutcome
  <2>. QED  BY <2>7, <2>8
<1>. QED  BY <1>4, <1>5

LEMMA ChunkRules ==
    ASSUME NEW x \in Int, 0 <= x
    PROVE  /\ Chunk(x) \in 0 .. Pkt /\ Chunk(x) <= x
           /\ Chunk(x) < Pkt => Chunk(x) = x
  BY CtrlAssumption DEF Chunk

LEMMA PacketRules ==
    ASSUME NEW n \in Int, NEW from, 0 <= n
    PROVE  Packet(n, from) # NoPacket /\ Packet(n, from).n = n /\ Packet(n, from).from = from
<1>1. Packet(n, from).n = n /\ Packet(n, from).from = from
  BY DEF Packet
<1>2. NoPacket.n = -1
  BY DEF NoPacket
<1>. QED  BY <1>1, <1>2

\* What udd_ctrl_in_sent finds in the data stage, called by the interrupt or
\* for the first packet of a request.
InReady(d, h) ==
    /\ d \in Shape /\ h \in HostShape
    /\ Bounded(d, h) /\ Current(d, h) /\ Stages(d, h)
    /\ InAccount(d, h) /\ HostCount(h) /\ OutAccount(d, "none", h)
    /\ d.state = "DATA_IN" /\ d.tx = NoPacket /\ ~d.nakInIe /\ ~d.nakOutIe
    /\ Over(d, h) <=> d.out # -1

LEMMA InSentKeeps ==
    ASSUME NEW d, NEW h, InReady(d, h)
    PROVE  TransferInv(InSent(d), "none", h)
<1>. DEFINE e == InSent(d)
            n == Chunk(d.size - d.cnt)
            p == IF d.size = d.cnt THEN d.prev + d.cnt ELSE d.prev
<1>1. d \in Shape /\ h \in HostShape /\ e \in Shape
  BY InSentFacts DEF InReady, Sending
<1>2. /\ d.size \in Int /\ d.cnt \in Int /\ d.prev \in Int
      /\ 0 <= d.cnt /\ d.cnt <= d.size /\ d.size <= MaxLen
      /\ 0 <= d.prev
      /\ d.prev = 0 \/ (d.prev = d.cnt /\ d.short /\ d.cnt = d.size)
  BY CtrlAssumption DEF InReady, Bounded, Stages, Len
<1>3. n \in 0 .. Pkt /\ d.cnt + n <= d.size /\ (n < Pkt => d.cnt + n = d.size)
  <2>1. d.size - d.cnt \in Int /\ 0 <= d.size - d.cnt
    BY <1>2
  <2>2. n \in 0 .. Pkt /\ n <= d.size - d.cnt /\ (n < Pkt => n = d.size - d.cnt)
    BY <2>1, ChunkRules
  <2>. HIDE DEF n
  <2>. QED  BY <1>2, <2>2, CtrlAssumption
<1>4. p \in 0 .. 2 * MaxLen
  BY <1>2, CtrlAssumption
<1>5. d.rxSetup \in BOOLEAN /\ h.stage \in {"idle", "data", "status"}
  BY <1>1 DEF Shape, HostShape
<1>6. InOutcome(d, e, n, p)
  BY InSentFields DEF InReady
<1>. HIDE DEF e, n
<1>7. CASE /\ Except(d, e, {"inSendIe", "prev", "state", "short", "shortSent", "nakIn", "nakInIe"})
           /\ e.inSendIe = FALSE /\ e.prev = p /\ e.state = "WAIT_OUT_ZLP"
  <2>1. /\ e.rxSetup = d.rxSetup /\ e.fifo = d.fifo /\ e.out = d.out /\ e.tx = d.tx
        /\ e.complt = d.complt /\ e.frcestall = d.frcestall /\ e.req = d.req
        /\ e.size = d.size /\ e.cnt = d.cnt
    BY <1>7 DEF Except, Fields
  <2>. HIDE DEF p
  <2>2. Bounded(e, h)
    BY <1>4, <1>7, <2>1 DEF InReady, Bounded
  <2>3. Events(e, "none")
    BY <1>7, <2>1 DEF InReady, Events, Quiet, InDue
  <2>4. Current(e, h)
    BY <1>7, <2>1 DEF InReady, Current
  <2>5. Stages(e, h)
    BY <1>7, <2>1 DEF InReady, Stages
  <2>6. Ended(e, "none", h)
    BY <1>7, <2>1 DEF InReady, Ended, Over, InDue
  <2>7. InAccount(e, h)
    BY <1>7, <2>1 DEF InReady, InAccount, Over
  <2>8. OutAccount(e, "none", h)
    BY <1>7, <2>1 DEF InReady, OutAccount, Stages, Whole
  <2>. QED  BY <1>1, <2>2, <2>3, <2>4, <2>5, <2>6, <2>7, <2>8 DEF TransferInv, InReady, e
<1>8. CASE /\ ~(d.size = d.cnt /\ (p = d.req.len \/ d.short)) /\ d.out = -1
           /\ Except(d, e, {"inSendIe", "prev", "short", "shortSent", "complt", "tx", "cnt"})
           /\ e.inSendIe = TRUE /\ e.prev = p /\ e.short = (n < Pkt) /\ e.complt = FALSE
           /\ e.tx = Packet(n, d.cnt) /\ e.cnt = d.cnt + n
  <2>1. /\ e.rxSetup = d.rxSetup /\ e.fifo = d.fifo /\ e.out = d.out /\ e.state = "DATA_IN"
        /\ e.frcestall = d.frcestall /\ e.req = d.req
        /\ e.size = d.size
    BY <1>8 DEF Except, Fields, InReady
  <2>2. e.tx # NoPacket /\ e.tx.n = n /\ e.tx.from = d.cnt
    BY <1>3, <1>8, PacketRules
  <2>3. ~Over(d, h) /\ ~Over(e, h)
    BY <1>8, <2>1 DEF InReady, Over
  <2>4. p = 0 \/ (p = e.cnt /\ e.short /\ e.cnt = e.size)
    <3>1. CASE d.size # d.cnt
      BY <1>2, <3>1
    <3>2. CASE d.size = d.cnt
      <4>1. ~d.short /\ d.prev = 0 /\ p = d.cnt
        BY <1>2, <1>8, <3>2
      <4>2. n = 0 /\ n < Pkt
        BY <1>2, <1>3, <3>2, CtrlAssumption
      <4>3. e.short
        BY <1>8, <4>2
      <4>4. e.cnt = d.cnt /\ e.size = d.cnt
        BY <1>2, <1>8, <2>1, <3>2, <4>2
      <4>. QED  BY <4>1, <4>3, <4>4
    <3>. QED  BY <3>1, <3>2
  <2>. HIDE DEF p
  <2>5. Bounded(e, h)
    <3>1. e.cnt \in Len /\ d.cnt \in Len
      BY <1>2, <1>3, <1>8, CtrlAssumption DEF Len
    <3>. QED  BY <1>3, <1>4, <1>8, <2>1, <2>2, <3>1 DEF InReady, Bounded
  <2>6. Events(e, "none")
    BY <1>8, <2>1 DEF Events, Quiet, InDue, Sending
  <2>7. Current(e, h)
    BY <2>1, <2>3 DEF InReady, Current, Over
  <2>8. Stages(e, h)
    <3>1. e.prev = 0 \/ (e.prev = e.cnt /\ e.short /\ e.cnt = e.size)
      BY <1>8, <2>4, Zenon
    <3>2. d.req.dir = "in" /\ d.req.len > 0 /\ d.size = d.req.size
      BY DEF InReady, Stages
    <3>3. e.cnt <= e.size
      BY <1>3, <1>8, <2>1
    <3>. QED  BY <2>1, <3>1, <3>2, <3>3 DEF Stages
  <2>9. Ended(e, "none", h)
    BY <1>8, <2>1, <2>3 DEF Ended, InDue
  <2>10. InAccount(e, h)
    BY <1>2, <1>3, <1>8, <2>1, <2>2, <2>3 DEF InReady, InAccount
  <2>11. OutAccount(e, "none", h)
    BY <2>1, <2>3 DEF InReady, OutAccount, Stages, Whole, Current, Over
  <2>. QED  BY <1>1, <2>5, <2>6, <2>7, <2>8, <2>9, <2>10, <2>11 DEF TransferInv, InReady, e
<1>9. \/ Except(d, e, {"inSendIe", "prev", "state", "nakIn", "nakInIe"})
      \/ Except(d, e, {"inSendIe", "prev", "state", "short", "shortSent"})
      => Except(d, e, {"inSendIe", "prev", "state", "short", "shortSent", "nakIn", "nakInIe"})
  BY DEF Except
<1>. HIDE DEF p
<1>. QED  BY <1>6, <1>7, <1>8, <1>9 DEF InOutcome, e

\* The event that an IN packet was sent.
LEMMA InKeeps ==
    ASSUME NEW d, NEW h, TransferInv(d, "in", h)
    PROVE  TransferInv(InSent(d), "none", h)
<1>0. d \in Shape /\ d.state \in Sending /\ DOMAIN d = Fields
  BY ShapeFields DEF TransferInv, Events
<1>1. CASE d.state = "WAIT_IN_ZLP"
  <2>. DEFINE x == [d EXCEPT !.inSendIe = FALSE]
  <2>1. x \in Shape /\ Except(d, x, {"inSendIe"})
    BY <1>0 DEF Shape, Except, Fields
  <2>2. InSent(d) = CtrlInit(EndOfRequest(x))
    BY <1>1 DEF InSent
  <2>. HIDE DEF x
  <2>3. \A e : e = CtrlInit(EndOfRequest(x)) => TransferInv(e, "none", h)
    BY <1>1, <2>1, EndKeeps
  <2>. QED  BY <2>2, <2>3
<1>2. CASE d.state = "DATA_IN"
  <2>1. d.tx = NoPacket /\ ~d.nakInIe /\ ~d.nakOutIe /\ (Over(d, h) <=> d.out # -1)
    BY <1>2 DEF TransferInv, Events, Ended
  <2>2. OutAccount(d, "none", h)
    BY DEF TransferInv, OutAccount
  <2>3. InReady(d, h)
    BY <1>2, <2>1, <2>2 DEF InReady, TransferInv
  <2>. QED  BY <2>3, InSentKeeps
<1>. QED  BY <1>0, <1>1, <1>2 DEF Sending

\* An OUT packet that nobody expects.
LEMMA RefuseKeeps ==
    ASSUME NEW d, NEW h, TransferInv(d, "out", h),
           d.state \notin {"DATA_OUT", "DATA_IN", "WAIT_OUT_ZLP"},
           NEW e, e = CtrlInit(StallData(d))
    PROVE  TransferInv(e, "none", h)
<1>1. d \in Shape /\ DOMAIN d = Fields /\ h \in HostShape /\ e \in Shape
  BY ShapeFields, CtrlInitFacts, StallDataFacts DEF TransferInv
<1>2. /\ e.inSendIe = FALSE /\ e.out = -1 /\ e.size = 0 /\ e.state = "SETUP"
      /\ e.rxSetup = d.rxSetup /\ e.fifo = d.fifo /\ e.tx = d.tx /\ e.complt = d.complt
      /\ e.frcestall = TRUE /\ e.req = d.req /\ e.cnt = d.cnt /\ e.prev = d.prev
      /\ e.nakInIe = d.nakInIe /\ e.nakOutIe = d.nakOutIe
  <2>. DEFINE s == StallData(d)
  <2>1. Except(d, s, {"state", "frcestall"}) /\ s.frcestall = TRUE
    BY <1>1, StallDataFields
  <2>2. DOMAIN s = Fields
    BY <2>1 DEF Except
  <2>. HIDE DEF s
  <2>3. /\ Except(s, e, {"inSendIe", "out", "cb", "size", "state", "ledger"})
        /\ e.inSendIe = FALSE /\ e.out = -1 /\ e.size = 0 /\ e.state = "SETUP"
    BY <2>2, CtrlInitFields DEF s
  <2>. QED  BY <2>1, <2>3 DEF Except, Fields
<1>0. d.state = "WAIT_IN_ZLP"
  BY <1>1 DEF TransferInv, Events, Stages, Shape, States
<1>3. Bounded(e, h)
  BY <1>2, CtrlAssumption DEF TransferInv, Bounded, Len
<1>4. Events(e, "none")
  BY <1>2 DEF TransferInv, Events, Quiet, InDue
<1>5. Current(e, h)
  BY <1>2 DEF TransferInv, Current
<1>7. Stages(e, h)
  BY <1>2 DEF Stages, Over
<1>8. Ended(e, "none", h)
  BY <1>2 DEF Ended, InDue
<1>9. InAccount(e, h)
  BY <1>0, <1>2 DEF TransferInv, Current, Stages, InAccount, Over
<1>10. OutAccount(e, "none", h)
  BY <1>0, <1>2 DEF TransferInv, OutAccount, Over
<1>. QED  BY <1>1, <1>3, <1>4, <1>5, <1>7, <1>8, <1>9, <1>10 DEF TransferInv

\* The driver answers the OUT data stage, or a request without one, with a
\* ZLP; x is ep0 with the counts of the routine that calls.
LEMMA ZlpKeeps ==
    ASSUME NEW h \in HostShape, NEW x \in Shape,
           Bounded(x, h), Current(x, h), HostCount(h), ~Over(x, h),
           x.req.dir = "out", x.out = -1, ~x.nakInIe,
           Whole(h.req) /\ ~h.cut => x.cnt = h.req.len,
           NEW e, e = SendZlpIn(x)
    PROVE  TransferInv(e, "none", h)
<1>1. DOMAIN x = Fields /\ e \in Shape
  BY ShapeFields, SendZlpInFacts
<1>2. /\ e.complt = FALSE /\ e.tx = Packet(0, 0) /\ e.inSendIe = TRUE
      /\ e.state = "WAIT_IN_ZLP" /\ e.nakOut = FALSE /\ e.nakOutIe = TRUE
      /\ e.rxSetup = x.rxSetup /\ e.fifo = x.fifo /\ e.out = x.out
      /\ e.frcestall = x.frcestall /\ e.req = x.req /\ e.size = x.size /\ e.cnt = x.cnt
      /\ e.prev = x.prev
  <2>1. /\ Except(x, e, {"complt", "tx", "inSendIe", "state", "nakOut", "nakOutIe"})
        /\ e.complt = FALSE /\ e.tx = Packet(0, 0) /\ e.inSendIe = TRUE
        /\ e.state = "WAIT_IN_ZLP" /\ e.nakOut = FALSE /\ e.nakOutIe = TRUE
    BY <1>1, SendZlpInFields
  <2>. QED  BY <2>1 DEF Except, Fields
<1>3. e.tx # NoPacket /\ e.tx.n = 0 /\ e.tx.from = 0
  BY <1>2, PacketRules
<1>4. Bounded(e, h)
  BY <1>2, <1>3, CtrlAssumption DEF Bounded, Len
<1>5. Events(e, "none")
  BY <1>2 DEF Events, Quiet, Sending, InDue
<1>6. Current(e, h)
  BY <1>2 DEF Current, Over
<1>7. Stages(e, h)
  BY <1>2 DEF Stages
<1>8. Ended(e, "none", h)
  BY <1>2 DEF Ended, InDue, Over
<1>9. InAccount(e, h)
  BY <1>2 DEF InAccount, Current, Over
<1>10. OutAccount(e, "none", h)
  BY <1>2 DEF OutAccount, Over
<1>. QED  BY <1>1, <1>4, <1>5, <1>6, <1>7, <1>8, <1>9, <1>10 DEF TransferInv

\* An OUT packet of the data stage.
LEMMA StoreKeeps ==
    ASSUME NEW d, NEW h, TransferInv(d, "out", h), d.state = "DATA_OUT"
    PROVE  TransferInv(StoreData(d), "none", h)
<1>. DEFINE n == IF d.size < d.cnt + d.out THEN d.size - d.cnt ELSE d.out
            c == d.cnt + n
            none == -1
            x == [d EXCEPT !.cnt = c, !.out = none]
            z == [x EXCEPT !.size = x.cnt]
            w == [x EXCEPT !.nakIn = FALSE, !.nakInIe = TRUE]
<1>1. d \in Shape /\ DOMAIN d = Fields /\ h \in HostShape
  BY ShapeFields DEF TransferInv
<1>2. ~Over(d, h) /\ ~d.frcestall /\ d.req = h.req /\ d.out # -1
  BY DEF TransferInv, Ended, Events, Current, Over
<1>3. /\ d.out \in 0 .. Pkt /\ d.size \in Int /\ d.cnt \in Int /\ 0 <= d.cnt /\ d.cnt <= d.size
      /\ d.size <= MaxLen
  BY <1>2, CtrlAssumption DEF TransferInv, Bounded, Stages, Len
<1>4. n \in Int /\ c \in Int /\ 0 <= c /\ c <= d.size
  BY <1>3, CtrlAssumption
<1>5. StoreData(d) = CASE OutDone(x, n) -> SendZlpIn(z)
                       [] ~OutDone(x, n) /\ x.size = x.cnt -> StallData(x)
                       [] OTHER -> w
  BY DEF StoreData
<1>. HIDE DEF n, none
<1>6. x \in Shape /\ Except(d, x, {"cnt", "out"}) /\ x.cnt = c /\ x.out = -1
  <2>1. none \in Int /\ none = -1
    BY DEF none
  <2>. HIDE DEF c
  <2>2. x \in Shape
    BY <1>1, <1>4, <2>1 DEF Shape
  <2>3. Except(d, x, {"cnt", "out"}) /\ x.cnt = c /\ x.out = none
    BY <1>1 DEF Except, Fields
  <2>. QED  BY <2>1, <2>2, <2>3
<1>. HIDE DEF x
<1>7. /\ x.rxSetup = d.rxSetup /\ x.fifo = d.fifo /\ x.tx = d.tx /\ x.complt = d.complt
      /\ x.frcestall = d.frcestall /\ x.inSendIe = d.inSendIe /\ x.nakInIe = d.nakInIe
      /\ x.nakOutIe = d.nakOutIe /\ x.state = d.state /\ x.req = d.req /\ x.size = d.size
      /\ x.prev = d.prev /\ x.short = d.short /\ x.nakIn = d.nakIn
  BY <1>6 DEF Except, Fields
<1>8. c \in Len
  BY <1>3, <1>4, CtrlAssumption DEF Len
<1>9. Bounded(x, h) /\ Current(x, h) /\ ~Over(x, h) /\ HostCount(h) /\ x.req.dir = "out"
      /\ ~x.nakInIe /\ ~x.nakOutIe /\ x.tx = NoPacket /\ ~x.inSendIe /\ x.prev = 0
  <2>. HIDE DEF c
  <2>0. -1 \in -1 .. Pkt
    BY CtrlAssumption
  <2>1. Bounded(x, h)
    BY <1>6, <1>7, <1>8, <2>0 DEF TransferInv, Bounded
  <2>2. Current(x, h) /\ ~Over(x, h)
    BY <1>2, <1>7 DEF TransferInv, Current, Over
  <2>3. /\ HostCount(h) /\ x.req.dir = "out" /\ ~x.nakInIe /\ ~x.nakOutIe
        /\ x.tx = NoPacket /\ ~x.inSendIe /\ x.prev = 0
    BY <1>7 DEF TransferInv, Stages, Events, Quiet, Sending
  <2>. QED  BY <2>1, <2>2, <2>3
\* A request of this payload takes every packet whole.
<1>10. ASSUME Whole(h.req), ~h.cut
       PROVE  n = d.out /\ c = h.n /\ (d.out # Pkt => c = h.req.len)
  <2>1. /\ h.n = d.cnt + d.out /\ (d.out # Pkt => h.n = h.req.len)
    BY <1>2, <1>10 DEF TransferInv, OutAccount, Over
  <2>2. d.size = h.req.len /\ h.n <= h.req.len
    BY <1>2, <1>10 DEF TransferInv, Stages, Bounded, Whole
  <2>. QED  BY <1>3, <2>1, <2>2 DEF n
<1>11. CASE OutDone(x, n)
  <2>0. h.req.len \in Int /\ h.n <= h.req.len /\ h.n \in Int
    BY <1>1, RequestRules DEF TransferInv, Bounded, HostShape
  <2>1. Whole(h.req) /\ ~h.cut => x.cnt = h.req.len
    BY <1>2, <1>3, <1>4, <1>6, <1>7, <1>9, <1>10, <1>11, <2>0 DEF OutDone
  <2>2. z \in Shape /\ Except(x, z, {"size"}) /\ z.size = x.cnt
    BY <1>6 DEF Shape, Except, Fields
  <2>. HIDE DEF z, c
  <2>3. /\ z.rxSetup = x.rxSetup /\ z.fifo = x.fifo /\ z.tx = x.tx /\ z.out = x.out
        /\ z.nakInIe = x.nakInIe /\ z.req = x.req /\ z.cnt = x.cnt /\ z.prev = x.prev
        /\ z.state = x.state
    BY <2>2 DEF Except, Fields
  <2>4. Bounded(z, h)
    BY <1>6, <1>8, <1>9, <2>2, <2>3 DEF Bounded
  <2>5. Current(z, h) /\ ~Over(z, h)
    BY <1>9, <2>3 DEF Current, Over
  <2>6. TransferInv(SendZlpIn(z), "none", h)
    <3>1. \A e : e = SendZlpIn(z) => TransferInv(e, "none", h)
      BY <1>1, <1>6, <1>9, <2>1, <2>2, <2>3, <2>4, <2>5, ZlpKeeps
    <3>. QED  BY <3>1
  <2>. QED  BY <1>5, <1>11, <2>6
<1>. DEFINE e == StoreData(d)
<1>12. CASE ~OutDone(x, n) /\ x.size = x.cnt
  <2>1. e = StallData(x) /\ e \in Shape /\ DOMAIN x = Fields
    BY <1>5, <1>6, <1>12, StallDataFacts, ShapeFields
  <2>. HIDE DEF e, c
  <2>2. Except(x, e, {"state", "frcestall"}) /\ e.state = "STALL_REQ" /\ e.frcestall = TRUE
    BY <2>1, StallDataFields
  <2>3. /\ e.rxSetup = x.rxSetup /\ e.fifo = x.fifo /\ e.tx = x.tx /\ e.complt = x.complt
        /\ e.inSendIe = x.inSendIe /\ e.out = x.out
        /\ e.nakInIe = x.nakInIe /\ e.req = x.req /\ e.size = x.size /\ e.cnt = x.cnt
        /\ e.prev = x.prev
    BY <2>2 DEF Except, Fields
  <2>4. Bounded(e, h)
    BY <1>9, <2>3 DEF Bounded
  <2>5. Events(e, "none")
    BY <1>9, <2>3 DEF Events, Quiet, InDue
  <2>6. Current(e, h) /\ ~Over(e, h)
    BY <1>9, <2>3 DEF Current, Over
  <2>7. Stages(e, h)
    BY <1>6, <2>2, <2>3 DEF Stages
  <2>8. Ended(e, "none", h)
    BY <1>9, <2>2, <2>3, <2>6 DEF Ended, InDue
  <2>9. InAccount(e, h)
    BY <1>9, <2>2, <2>3 DEF InAccount
  <2>10. OutAccount(e, "none", h)
    BY <1>9, <2>2, <2>3, <2>6 DEF OutAccount, Current, Over
  <2>. QED  BY <1>1, <1>9, <2>1, <2>4, <2>5, <2>6, <2>7, <2>8, <2>9, <2>10 DEF TransferInv, e
<1>13. CASE ~OutDone(x, n) /\ x.size # x.cnt
  <2>1. e = w
    BY <1>5, <1>13
  <2>2. w \in Shape /\ Except(x, w, {"nakIn", "nakInIe"}) /\ w.nakIn = FALSE /\ w.nakInIe = TRUE
    BY <1>6 DEF Shape, Except, Fields
  <2>. HIDE DEF e, w, c
  <2>3. /\ e.rxSetup = x.rxSetup /\ e.fifo = x.fifo /\ e.tx = x.tx /\ e.complt = x.complt
        /\ e.inSendIe = x.inSendIe /\ e.out = x.out /\ e.frcestall = x.frcestall
        /\ e.req = x.req /\ e.size = x.size /\ e.cnt = x.cnt /\ e.nakOutIe = x.nakOutIe
        /\ e.prev = x.prev /\ e.state = x.state /\ e.nakIn = FALSE /\ e.nakInIe = TRUE
    BY <2>1, <2>2 DEF Except, Fields
  <2>4. Bounded(e, h)
    BY <1>9, <2>3 DEF Bounded
  <2>5. Events(e, "none")
    BY <1>9, <2>3 DEF Events, Quiet, InDue
  <2>6. Current(e, h) /\ ~Over(e, h)
    BY <1>9, <2>3 DEF Current, Over
  <2>7. Stages(e, h)
    <3>1. d.req.dir = "out" /\ d.req.len > 0 /\ d.size = d.req.size
      BY DEF TransferInv, Stages
    <3>2. e.cnt <= e.size /\ e.state = "DATA_OUT"
      BY <1>4, <1>6, <1>7, <2>3 DEF c
    <3>. QED  BY <1>7, <1>9, <2>3, <3>1, <3>2 DEF Stages
  <2>8. Ended(e, "none", h)
    BY <1>2, <1>7, <1>9, <2>3, <2>6 DEF Ended, InDue, Over
  <2>9. InAccount(e, h)
    BY <1>2, <1>7, <1>9, <2>3 DEF InAccount
  <2>10. OutAccount(e, "none", h)
    <3>1. ASSUME Whole(h.req), ~h.cut
          PROVE  e.cnt = h.n /\ (h.stage = "status" => h.n = h.req.len) /\ h.result # "ok"
      BY <1>2, <1>6, <1>10, <2>3, <3>1 DEF TransferInv, OutAccount, Current, Over
    <3>2. e.cnt \in Int
      BY <1>4, <1>6, <2>3
    <3>. QED  BY <1>6, <1>7, <1>9, <2>3, <3>1, <3>2 DEF OutAccount
  <2>. QED  BY <1>1, <1>9, <2>1, <2>2, <2>4, <2>5, <2>6, <2>7, <2>8, <2>9, <2>10 DEF TransferInv, e
<1>. QED  BY <1>11, <1>12, <1>13

\* The handler of an OUT packet.
LEMMA OutKeeps ==
    ASSUME NEW d, NEW h, TransferInv(d, "out", h)
    PROVE  TransferInv(OutReceived(d), "none", h)
<1>1. CASE d.state = "DATA_OUT"
  BY <1>1, StoreKeeps DEF OutReceived
<1>2. CASE d.state \in {"DATA_IN", "WAIT_OUT_ZLP"}
  <2>1. OutReceived(d) = CtrlInit(EndOfRequest(d))
    BY <1>2 DEF OutReceived
  <2>2. d \in Shape /\ Except(d, d, {"inSendIe"})
    BY ShapeFields DEF TransferInv, Except
  <2>3. \A e : e = CtrlInit(EndOfRequest(d)) => TransferInv(e, "none", h)
    BY <1>2, <2>2, EndKeeps
  <2>. QED  BY <2>1, <2>3
<1>3. CASE d.state \notin {"DATA_OUT", "DATA_IN", "WAIT_OUT_ZLP"}
  <2>1. OutReceived(d) = CtrlInit(StallData(d))
    BY <1>3 DEF OutReceived
  <2>2. \A e : e = CtrlInit(StallData(d)) => TransferInv(e, "none", h)
    BY <1>3, RefuseKeeps
  <2>. QED  BY <2>1, <2>2
<1>. QED  BY <1>1, <1>2, <1>3

\* A NAK that changes at most the NAK bits and requests a stall: the driver
\* waits for the other direction.
LEMMA NakKeeps ==
    ASSUME NEW d, NEW h, NEW i, TransferInv(d, i, h), i \in {"nakIn", "nakOut"},
           NEW e, e \in Shape, Except(d, e, {"nakIn", "nakOut", "frcestall"}),
           e.nakIn => d.nakIn,
           \/ e.frcestall = d.frcestall
           \/ d.state = "WAIT_OUT_ZLP" /\ e.frcestall = TRUE
           \/ d.state = "WAIT_IN_ZLP" /\ ~d.complt /\ e.frcestall = TRUE
    PROVE  TransferInv(e, "none", h)
<1>1. /\ e.rxSetup = d.rxSetup /\ e.fifo = d.fifo /\ e.out = d.out /\ e.tx = d.tx
      /\ e.complt = d.complt /\ e.inSendIe = d.inSendIe /\ e.nakInIe = d.nakInIe
      /\ e.nakOutIe = d.nakOutIe /\ e.state = d.state /\ e.req = d.req /\ e.size = d.size
      /\ e.cnt = d.cnt /\ e.prev = d.prev /\ e.short = d.short
  BY DEF Except, Fields
<1>2. Bounded(e, h)
  BY <1>1 DEF TransferInv, Bounded
<1>3. Events(e, "none")
  BY <1>1 DEF TransferInv, Events, Quiet, Sending, InDue
<1>4. Current(e, h)
  BY <1>1 DEF TransferInv, Current
<1>5. Stages(e, h)
  BY <1>1 DEF TransferInv, Stages, Over
<1>6. Ended(e, "none", h)
  BY <1>1 DEF TransferInv, Events, Ended, Over, InDue, NakDue
<1>7. InAccount(e, h)
  BY <1>1 DEF TransferInv, InAccount, Over
<1>8. OutAccount(e, "none", h)
  BY <1>1 DEF TransferInv, OutAccount
<1>. QED  BY <1>2, <1>3, <1>4, <1>5, <1>6, <1>7, <1>8 DEF TransferInv

LEMMA OverflowKeeps ==
    ASSUME NEW d, NEW h, TransferInv(d, "nakOut", h)
    PROVE  TransferInv(Overflow([d EXCEPT !.nakOut = FALSE]), "none", h)
<1>. DEFINE x == [d EXCEPT !.nakOut = FALSE]
            y == [x EXCEPT !.frcestall = TRUE]
<1>1. d \in Shape /\ DOMAIN d = Fields
  BY ShapeFields DEF TransferInv
<1>2. x \in Shape /\ Except(d, x, {"nakOut"})
  BY <1>1 DEF Shape, Except, Fields
<1>3. Overflow(x) = IF ~x.complt /\ x.state = "WAIT_IN_ZLP" THEN y ELSE x
  BY DEF Overflow
<1>. HIDE DEF x
<1>4. x.complt = d.complt /\ x.state = d.state /\ x.frcestall = d.frcestall /\ x.nakIn = d.nakIn
  BY <1>2 DEF Except, Fields
<1>5. y \in Shape /\ Except(x, y, {"frcestall"}) /\ y.frcestall = TRUE /\ y.nakIn = x.nakIn
  BY <1>2 DEF Shape, Except, Fields
<1>. HIDE DEF y
<1>6. /\ Except(d, x, {"nakIn", "nakOut", "frcestall"})
      /\ Except(d, y, {"nakIn", "nakOut", "frcestall"})
  BY <1>2, <1>5 DEF Except, Fields
<1>7. CASE ~d.complt /\ d.state = "WAIT_IN_ZLP"
  <2>1. TransferInv(y, "none", h)
    BY <1>4, <1>5, <1>6, <1>7, NakKeeps
  <2>. QED  BY <1>3, <1>4, <1>7, <2>1 DEF x
<1>8. CASE ~(~d.complt /\ d.state = "WAIT_IN_ZLP")
  <2>1. (x.nakIn => d.nakIn) /\ x.frcestall = d.frcestall
    BY <1>4
  <2>2. TransferInv(x, "none", h)
    BY <1>2, <1>6, <2>1, NakKeeps
  <2>. QED  BY <1>3, <1>4, <1>8, <2>2 DEF x
<1>. QED  BY <1>7, <1>8

LEMMA UnderflowKeeps ==
    ASSUME NEW d, NEW h, TransferInv(d, "nakIn", h)
    PROVE  TransferInv(Underflow([d EXCEPT !.nakIn = FALSE]), "none", h)
<1>. DEFINE x == [d EXCEPT !.nakIn = FALSE]
            y == [x EXCEPT !.frcestall = TRUE]
<1>1. d \in Shape /\ DOMAIN d = Fields /\ h \in HostShape
  BY ShapeFields DEF TransferInv
<1>2. x \in Shape /\ Except(d, x, {"nakIn"}) /\ x.nakIn = FALSE
  BY <1>1 DEF Shape, Except, Fields
<1>3. Underflow(x) = CASE x.out = -1 /\ x.state = "DATA_OUT" -> SendZlpIn(x)
                       [] x.out = -1 /\ x.state = "WAIT_OUT_ZLP" -> y
                       [] OTHER -> x
  BY DEF Underflow
<1>. HIDE DEF x
<1>4. /\ x.rxSetup = d.rxSetup /\ x.fifo = d.fifo /\ x.out = d.out /\ x.tx = d.tx
      /\ x.complt = d.complt /\ x.inSendIe = d.inSendIe /\ x.nakInIe = d.nakInIe
      /\ x.nakOutIe = d.nakOutIe /\ x.state = d.state /\ x.req = d.req /\ x.size = d.size
      /\ x.cnt = d.cnt /\ x.prev = d.prev /\ x.frcestall = d.frcestall
  BY <1>2 DEF Except, Fields
<1>5. y \in Shape /\ Except(x, y, {"frcestall"}) /\ y.frcestall = TRUE /\ y.nakIn = x.nakIn
  BY <1>2 DEF Shape, Except, Fields
<1>. HIDE DEF y
<1>6. /\ Except(d, x, {"nakIn", "nakOut", "frcestall"})
      /\ Except(d, y, {"nakIn", "nakOut", "frcestall"})
  BY <1>2, <1>5 DEF Except, Fields
<1>7. CASE d.out = -1 /\ d.state = "DATA_OUT"
  <2>1. ~Over(d, h) /\ d.req = h.req /\ d.req.dir = "out" /\ ~d.nakInIe
    BY <1>7 DEF TransferInv, Ended, Events, Stages, Current, Over
  <2>2. Bounded(x, h) /\ Current(x, h) /\ ~Over(x, h) /\ HostCount(h)
    BY <1>4, <2>1 DEF TransferInv, Bounded, Current, Over
  <2>3. d.cnt \in Int
    BY <1>1 DEF Shape
  <2>4. Whole(h.req) /\ ~h.cut => x.cnt = h.req.len
    BY <1>1, <1>4, <1>7, <2>1, <2>3 DEF TransferInv, OutAccount, Over, HostShape
  <2>5. \A e : e = SendZlpIn(x) => TransferInv(e, "none", h)
    BY <1>1, <1>2, <1>4, <1>7, <2>1, <2>2, <2>4, ZlpKeeps
  <2>. QED  BY <1>3, <1>4, <1>7, <2>5 DEF x
<1>8. CASE d.out = -1 /\ d.state = "WAIT_OUT_ZLP"
  <2>1. TransferInv(y, "none", h)
    BY <1>2, <1>5, <1>6, <1>8, NakKeeps
  <2>. QED  BY <1>3, <1>4, <1>8, <2>1 DEF x
<1>9. CASE ~(d.out = -1 /\ d.state \in {"DATA_OUT", "WAIT_OUT_ZLP"})
  <2>1. (x.nakIn => d.nakIn) /\ x.frcestall = d.frcestall
    BY <1>2, <1>4
  <2>2. TransferInv(x, "none", h)
    BY <1>2, <1>6, <2>1, NakKeeps
  <2>. QED  BY <1>3, <1>4, <1>9, <2>2 DEF x
<1>. QED  BY <1>7, <1>8, <1>9

\* What a SETUP packet finds: no request is under way.
LEMMA UnfinishedFields ==
    ASSUME NEW d \in Shape, Quiet(d), d.state = "SETUP" => d.out = -1
    PROVE  /\ Except(d, Unfinished(d), {"inSendIe", "out", "cb", "size", "state", "ledger"})
           /\ Unfinished(d).inSendIe = FALSE /\ Unfinished(d).out = -1
           /\ Unfinished(d).state = "SETUP"
<1>0. DOMAIN d = Fields
  BY ShapeFields
<1>1. CASE d.state # "SETUP"
  <2>1. Unfinished(d) = CtrlInit(EndOfRequest(d))
    BY <1>1 DEF Unfinished
  <2>. QED  BY <1>0, <2>1, EndFields
<1>2. CASE d.state = "SETUP"
  <2>1. Unfinished(d) = d
    BY <1>2 DEF Unfinished
  <2>2. Except(d, d, {"inSendIe", "out", "cb", "size", "state", "ledger"})
    BY <1>0 DEF Except
  <2>3. d.inSendIe = FALSE
    BY <1>2 DEF Quiet, Sending, Shape
  <2>. QED  BY <1>2, <2>1, <2>2, <2>3
<1>. QED  BY <1>1, <1>2

\* The four ways of udd_ctrl_setup_received: e is ep0 once the request r is
\* noted, f the outcome.
SetupOutcome(r, e, f) ==
    \/ ~r.ok /\ f = StallData(e)
    \/ /\ r.ok /\ r.dir = "in"
       /\ \E g \in Shape : /\ Except(e, g, {"cnt", "prev", "state"}) /\ f = InSent(g)
                           /\ g.cnt = 0 /\ g.prev = 0 /\ g.state = "DATA_IN"
    \/ r.ok /\ r.dir = "out" /\ r.len = 0 /\ f = SendZlpIn(e)
    \/ /\ r.ok /\ r.dir = "out" /\ r.len # 0 /\ f \in Shape
       /\ Except(e, f, {"cnt", "prev", "state", "nakIn", "nakInIe"})
       /\ f.cnt = 0 /\ f.prev = 0 /\ f.state = "DATA_OUT" /\ f.nakIn = FALSE

LEMMA SetupFields ==
    ASSUME NEW d \in Shape, Quiet(d), d.state = "SETUP" => d.out = -1
    PROVE  \E e \in Shape :
              /\ Except(d, e, {"inSendIe", "out", "state", "req", "size", "cb", "rxSetup",
                               "shortSent", "ledger"})
              /\ e.inSendIe = FALSE /\ e.out = -1 /\ e.state = "SETUP" /\ e.rxSetup = FALSE
              /\ e.req = d.fifo /\ e.size = d.fifo.size /\ e.cb = d.fifo.cb
              /\ e.ledger = IF d.fifo.cb /\ Unfinished(d).ledger = "clear"
                              THEN "open" ELSE Unfinished(d).ledger
              /\ SetupOutcome(d.fifo, e, SetupReceived(d))
<1>. DEFINE r == d.fifo
            u == Unfinished(d)
            l == IF r.cb /\ u.ledger = "clear" THEN "open" ELSE u.ledger
            sz == r.size
            b == r.cb
            v == [u EXCEPT !.req = r, !.size = sz, !.cb = b]
            e == [u EXCEPT !.req = r, !.size = sz, !.cb = b,
                    !.rxSetup = FALSE, !.shortSent = FALSE, !.ledger = l]
            zero == 0
            c == [e EXCEPT !.cnt = zero, !.prev = zero]
            g == [c EXCEPT !.state = "DATA_IN"]
            o == [c EXCEPT !.state = "DATA_OUT", !.nakIn = FALSE, !.nakInIe = TRUE]
<1>1. u \in Shape /\ r \in AnyRequest /\ zero \in Int /\ zero = 0
  BY UnfinishedFacts DEF Shape
<1>2. /\ Except(d, u, {"inSendIe", "out", "cb", "size", "state", "ledger"})
      /\ u.inSendIe = FALSE /\ u.out = -1 /\ u.state = "SETUP"
  BY UnfinishedFields
<1>3. sz \in Int /\ b \in BOOLEAN /\ r.dir \in {"in", "out"} /\ r.ok \in BOOLEAN
  BY <1>1 DEF AnyRequest
<1>4. l \in {"clear", "open", "done", "early", "lost"}
  BY <1>1 DEF Shape
<1>5. SetupReceived(d) = CASE ~r.ok -> StallData(e)
          [] r.ok /\ r.dir = "in" -> InSent(g)
          [] r.ok /\ r.dir = "out" /\ r.len = 0 -> SendZlpIn(e)
          [] OTHER -> o
  BY DEF SetupReceived, ResetCounts
<1>. HIDE DEF r, u, l, sz, b, zero
<1>6. v \in Shape
  BY <1>1, <1>3 DEF Shape
<1>7. e = [v EXCEPT !.rxSetup = FALSE, !.shortSent = FALSE, !.ledger = l]
  OBVIOUS
<1>8. /\ Except(u, e, {"req", "size", "cb", "rxSetup", "shortSent", "ledger"})
      /\ e.req = r /\ e.size = sz /\ e.cb = b /\ e.rxSetup = FALSE /\ e.ledger = l
  BY <1>2 DEF Except, Fields
<1>. HIDE DEF v, e
<1>9. e \in Shape
  BY <1>4, <1>6, <1>7 DEF Shape
<1>10. /\ Except(d, e, {"inSendIe", "out", "state", "req", "size", "cb", "rxSetup",
                        "shortSent", "ledger"})
       /\ e.inSendIe = FALSE /\ e.out = -1 /\ e.state = "SETUP"
  BY <1>2, <1>8 DEF Except, Fields
<1>11. /\ c \in Shape /\ Except(e, c, {"cnt", "prev"}) /\ c.cnt = zero /\ c.prev = zero
  BY <1>1, <1>8, <1>9 DEF Shape, Except, Fields
<1>. HIDE DEF c
<1>12. /\ g \in Shape /\ Except(e, g, {"cnt", "prev", "state"})
       /\ g.cnt = zero /\ g.prev = zero /\ g.state = "DATA_IN"
  BY <1>11 DEF Shape, States, Except, Fields
<1>13. /\ o \in Shape /\ Except(e, o, {"cnt", "prev", "state", "nakIn", "nakInIe"})
       /\ o.cnt = zero /\ o.prev = zero /\ o.state = "DATA_OUT" /\ o.nakIn = FALSE
  BY <1>11 DEF Shape, States, Except, Fields
<1>. HIDE DEF g, o
<1>14. SetupOutcome(r, e, SetupReceived(d))
  <2>1. CASE ~r.ok
    BY <1>5, <2>1 DEF SetupOutcome
  <2>2. CASE r.ok /\ r.dir = "in"
    <3>1. SetupReceived(d) = InSent(g)
      BY <1>5, <2>2
    <3>. QED  BY <1>1, <1>12, <2>2, <3>1 DEF SetupOutcome
  <2>3. CASE r.ok /\ r.dir = "out" /\ r.len = 0
    BY <1>5, <2>3 DEF SetupOutcome
  <2>4. CASE r.ok /\ r.dir = "out" /\ r.len # 0
    <3>1. SetupReceived(d) = o
      BY <1>5, <2>4
    <3>. QED  BY <1>1, <1>13, <2>4, <3>1 DEF SetupOutcome
  <2>. QED  BY <1>3, <2>1, <2>2, <2>3, <2>4
<1>. QED  BY <1>8, <1>9, <1>10, <1>14 DEF r, u, l, sz, b

\* What the handler of a SETUP packet starts from.
Noted(d, h, e) ==
    /\ d \in Shape /\ h \in HostShape /\ e \in Shape /\ DOMAIN e = Fields
    /\ e.req = h.req /\ e.size = h.req.size /\ e.rxSetup = FALSE /\ e.inSendIe = FALSE
    /\ e.out = -1 /\ e.tx = NoPacket /\ ~e.nakInIe /\ ~e.nakOutIe
    /\ e.frcestall = d.frcestall
    /\ h.stage # "idle" /\ h.n = 0 /\ h.result = "none"
    /\ Bounded(e, h) /\ Current(e, h) /\ ~Over(e, h) /\ HostCount(h)
    /\ SetupOutcome(h.req, e, SetupReceived(d))

LEMMA SetupNoted ==
    ASSUME NEW d, NEW h, TransferInv(d, "setup", h)
    PROVE  \E e : Noted(d, h, e)
<1>1. d \in Shape /\ h \in HostShape /\ Quiet(d) /\ (d.state = "SETUP" => d.out = -1)
  BY DEF TransferInv, Events, Stages
<1>2. /\ d.fifo \in Requests /\ d.fifo = h.req /\ d.tx = NoPacket /\ h.stage # "idle" /\ h.n = 0
      /\ h.result = "none" /\ ~d.nakInIe /\ ~d.nakOutIe /\ HostCount(h) /\ Bounded(d, h)
  BY DEF TransferInv, Bounded, Events, Current
<1>3. PICK e \in Shape :
         /\ Except(d, e, {"inSendIe", "out", "state", "req", "size", "cb", "rxSetup",
                          "shortSent", "ledger"})
         /\ e.inSendIe = FALSE /\ e.out = -1 /\ e.state = "SETUP" /\ e.rxSetup = FALSE
         /\ e.req = d.fifo /\ e.size = d.fifo.size
         /\ SetupOutcome(d.fifo, e, SetupReceived(d))
  BY <1>1, SetupFields
<1>4. /\ e.fifo = d.fifo /\ e.tx = d.tx /\ e.nakInIe = d.nakInIe /\ DOMAIN e = Fields
      /\ e.nakOutIe = d.nakOutIe /\ e.cnt = d.cnt /\ e.prev = d.prev /\ e.frcestall = d.frcestall
  BY <1>3 DEF Except, Fields
<1>5. Bounded(e, h)
  <2>1. -1 \in -1 .. Pkt /\ d.fifo.size \in Len
    BY <1>2, RequestRules, CtrlAssumption DEF RequestType
  <2>. QED  BY <1>2, <1>3, <1>4, <2>1 DEF Bounded
<1>6. Current(e, h) /\ ~Over(e, h)
  BY <1>2, <1>3 DEF Current, Over
<1>. QED  BY <1>1, <1>2, <1>3, <1>4, <1>5, <1>6 DEF Noted

\* The first packet of an IN request can be sent.
LEMMA SetupReady ==
    ASSUME NEW d, NEW h, NEW e, Noted(d, h, e), h.req.ok, h.req.dir = "in",
           NEW g \in Shape, Except(e, g, {"cnt", "prev", "state"}),
           g.cnt = 0, g.prev = 0, g.state = "DATA_IN"
    PROVE  /\ InReady(g, h) /\ g.size = h.req.size /\ g.req = h.req /\ g.frcestall = d.frcestall
           /\ 0 <= h.req.size
<1>1. /\ h.req.len > 0 /\ 0 <= h.req.size /\ 0 \in Len /\ 0 \in 0 .. 2 * MaxLen
  BY RequestRules, CtrlAssumption DEF Noted, Bounded, Len
<1>2. /\ g.rxSetup = FALSE /\ g.req = h.req /\ g.size = h.req.size /\ g.out = -1
      /\ g.fifo = e.fifo /\ g.tx = NoPacket /\ ~g.nakInIe /\ ~g.nakOutIe
      /\ g.frcestall = d.frcestall
  BY DEF Except, Fields, Noted
<1>3. Bounded(g, h)
  BY <1>1, <1>2 DEF Noted, Bounded
<1>4. Current(g, h) /\ ~Over(g, h)
  BY <1>2 DEF Noted, Current, Over
<1>5. Stages(g, h)
  BY <1>1, <1>2 DEF Stages
<1>6. InAccount(g, h)
  BY <1>2 DEF InAccount, Noted
<1>7. OutAccount(g, "none", h)
  BY <1>2 DEF OutAccount, Whole
<1>. QED  BY <1>1, <1>2, <1>3, <1>4, <1>5, <1>6, <1>7 DEF InReady, Noted

\* The handler of a SETUP packet, whatever the request before it left.
LEMMA SetupKeeps ==
    ASSUME NEW d, NEW h, TransferInv(d, "setup", h)
    PROVE  TransferInv(SetupReceived(d), "none", h)
<1>1. PICK e : Noted(d, h, e)
  BY SetupNoted
<1>. DEFINE f == SetupReceived(d)
<1>2. SetupOutcome(h.req, e, f)
  BY <1>1 DEF Noted
<1>3. CASE ~h.req.ok /\ f = StallData(e)
  <2>0. e \in Shape /\ DOMAIN e = Fields
    BY <1>1 DEF Noted
  <2>1. f \in Shape /\ Except(e, f, {"state", "frcestall"})
        /\ f.state = "STALL_REQ" /\ f.frcestall = TRUE
    BY <1>3, <2>0, StallDataFacts, StallDataFields
  <2>. HIDE DEF f
  <2>2. /\ f.rxSetup = FALSE /\ f.req = h.req /\ f.fifo = e.fifo /\ f.tx = NoPacket /\ f.out = -1
        /\ f.inSendIe = FALSE /\ f.size = e.size /\ f.cnt = e.cnt /\ f.prev = e.prev
    BY <1>1, <2>1 DEF Except, Fields, Noted
  <2>3. Bounded(f, h)
    BY <1>1, <2>2 DEF Bounded, Noted
  <2>4. Events(f, "none")
    BY <2>2 DEF Events, Quiet, InDue
  <2>5. Current(f, h)
    BY <1>1, <2>2 DEF Current, Noted
  <2>6. Stages(f, h)
    BY <2>1, <2>2 DEF Stages
  <2>7. Ended(f, "none", h)
    BY <2>1, <2>2 DEF Ended, InDue
  <2>8. InAccount(f, h)
    BY <2>1, <2>2 DEF InAccount
  <2>9. OutAccount(f, "none", h)
    BY <1>1, <2>1, <2>2 DEF OutAccount, Noted
  <2>. QED  BY <1>1, <2>1, <2>3, <2>4, <2>5, <2>6, <2>7, <2>8, <2>9 DEF TransferInv, Noted, f
<1>4. CASE /\ h.req.ok /\ h.req.dir = "in"
           /\ \E g \in Shape : /\ Except(e, g, {"cnt", "prev", "state"}) /\ f = InSent(g)
                               /\ g.cnt = 0 /\ g.prev = 0 /\ g.state = "DATA_IN"
  <2>1. PICK g \in Shape : /\ Except(e, g, {"cnt", "prev", "state"}) /\ f = InSent(g)
                           /\ g.cnt = 0 /\ g.prev = 0 /\ g.state = "DATA_IN"
    BY <1>4
  <2>2. InReady(g, h)
    BY <1>1, <1>4, <2>1, SetupReady
  <2>. QED  BY <2>1, <2>2, InSentKeeps
<1>5. CASE h.req.dir = "out" /\ h.req.len = 0 /\ f = SendZlpIn(e)
  <2>1. Whole(h.req) /\ ~h.cut => e.cnt = h.req.len
    BY <1>5 DEF Whole
  <2>2. \A z : z = SendZlpIn(e) => TransferInv(z, "none", h)
    BY <1>1, <1>5, <2>1, ZlpKeeps DEF Noted
  <2>. QED  BY <1>5, <2>2
<1>6. CASE /\ h.req.dir = "out" /\ h.req.len # 0 /\ f \in Shape
           /\ Except(e, f, {"cnt", "prev", "state", "nakIn", "nakInIe"})
           /\ f.cnt = 0 /\ f.prev = 0 /\ f.state = "DATA_OUT" /\ f.nakIn = FALSE
  <2>. HIDE DEF f
  <2>1. /\ f.rxSetup = FALSE /\ f.req = h.req /\ f.size = h.req.size /\ f.out = -1
        /\ f.fifo = e.fifo /\ f.tx = NoPacket /\ ~f.nakOutIe /\ f.inSendIe = FALSE
    BY <1>1, <1>6 DEF Except, Fields, Noted
  <2>2. /\ 0 \in Len /\ 0 \in 0 .. 2 * MaxLen /\ h.req.len \in Int /\ 0 <= h.req.len
        /\ 0 <= h.req.size
    BY <1>1, RequestRules, CtrlAssumption DEF Len, Noted, Bounded
  <2>3. Bounded(f, h)
    BY <1>1, <1>6, <2>1, <2>2 DEF Bounded, Noted
  <2>4. Events(f, "none")
    BY <2>1 DEF Events, Quiet, InDue
  <2>5. Current(f, h)
    BY <1>1, <2>1 DEF Current, Noted
  <2>6. Stages(f, h)
    BY <1>6, <2>1, <2>2 DEF Stages
  <2>7. Ended(f, "none", h)
    BY <1>6, <2>1 DEF Ended, InDue, NakDue
  <2>8. InAccount(f, h)
    BY <1>6, <2>1 DEF InAccount
  <2>9. OutAccount(f, "none", h)
    BY <1>1, <1>6, <2>1 DEF OutAccount, HostCount, Whole, Noted
  <2>. QED  BY <1>1, <1>6, <2>3, <2>4, <2>5, <2>6, <2>7, <2>8, <2>9 DEF TransferInv, Noted, f
<1>. HIDE DEF f
<1>. QED  BY <1>2, <1>3, <1>4, <1>5, <1>6 DEF SetupOutcome, f

(***************************************************************************)
(* The interrupt and the host.                                             *)
(***************************************************************************)
CtrlTransferInv == TransferInv(ep0, isr, host)

LEMMA EnterKeeps ==
    ASSUME CtrlTransferInv, IsrEnter
    PROVE  TransferInv(ep0', isr', host')
<1>1. /\ TransferInv(ep0, "none", host) /\ host' = host
      /\ ep0 \in Shape /\ DOMAIN ep0 = Fields /\ host \in HostShape
  BY ShapeFields DEF CtrlTransferInv, TransferInv, IsrEnter
<1>2. /\ ep0' \in Shape /\ Except(ep0, ep0', {"nakInIe", "nakOutIe"})
      /\ ep0'.nakInIe = FALSE /\ ep0'.nakOutIe = FALSE
  BY <1>1 DEF IsrEnter, Shape, Except, Fields
<1>3. /\ ep0'.rxSetup = ep0.rxSetup /\ ep0'.fifo = ep0.fifo /\ ep0'.out = ep0.out
      /\ ep0'.tx = ep0.tx /\ ep0'.complt = ep0.complt /\ ep0'.inSendIe = ep0.inSendIe
      /\ ep0'.frcestall = ep0.frcestall /\ ep0'.state = ep0.state /\ ep0'.req = ep0.req
      /\ ep0'.size = ep0.size /\ ep0'.cnt = ep0.cnt /\ ep0'.prev = ep0.prev
      /\ ep0'.short = ep0.short /\ ep0'.nakIn = ep0.nakIn
  BY <1>2 DEF Except, Fields
<1>4. /\ isr' = "setup" => ep0.rxSetup
      /\ isr' = "in" => InDue(ep0) /\ ~ep0.rxSetup
      /\ isr' = "out" => ep0.out # -1 /\ ~ep0.rxSetup
      /\ isr' = "nakIn" => ep0.nakIn
      /\ isr' # "setup" => ~ep0.rxSetup
      /\ ep0.rxSetup \/ InDue(ep0) \/ ep0.out # -1 \/ NakDue(ep0)
  BY <1>1 DEF IsrEnter, Pending, InEvent, OutEvent, InDue, NakDue
<1>5. Bounded(ep0', host)
  BY <1>1, <1>3 DEF TransferInv, Bounded
<1>6. Events(ep0', isr')
  BY <1>1, <1>2, <1>3, <1>4 DEF TransferInv, Events, Quiet, InDue
<1>7. Current(ep0', host)
  BY <1>1, <1>3 DEF TransferInv, Current
<1>8. Stages(ep0', host)
  BY <1>1, <1>3 DEF TransferInv, Stages, Over
<1>9. Ended(ep0', isr', host)
  <2>1. ep0.state = "DATA_OUT" => ~InDue(ep0)
    BY <1>1 DEF TransferInv, Events, Quiet, InDue, Sending
  <2>2. Ended(ep0, "none", host)
    BY <1>1 DEF TransferInv
  <2>. QED  BY <1>2, <1>3, <1>4, <2>1, <2>2 DEF Ended, Over, InDue, NakDue
<1>10. InAccount(ep0', host)
  BY <1>1, <1>3 DEF TransferInv, InAccount, Over
<1>11. OutAccount(ep0', isr', host)
  BY <1>1, <1>3, <1>4 DEF TransferInv, OutAccount
<1>. QED  BY <1>1, <1>2, <1>5, <1>6, <1>7, <1>8, <1>9, <1>10, <1>11 DEF TransferInv

LEMMA SetupPacketKeeps ==
    ASSUME CtrlTransferInv, NEW r \in Requests, HostSetup(r)
    PROVE  TransferInv(ep0', isr', host')
<1>1. /\ TransferInv(ep0, isr, host) /\ isr' = isr /\ host.stage = "idle" /\ ~ep0.rxSetup
      /\ ep0 \in Shape /\ DOMAIN ep0 = Fields /\ r \in AnyRequest
      /\ NoPacket \in [n : Int, from : Int]
  BY ShapeFields, RequestFacts DEF CtrlTransferInv, TransferInv, HostSetup, NoPacket
<1>2. /\ ep0' \in Shape /\ Except(ep0, ep0', {"rxSetup", "fifo", "frcestall", "tx"})
      /\ ep0'.rxSetup = TRUE /\ ep0'.fifo = r /\ ep0'.frcestall = FALSE /\ ep0'.tx = NoPacket
  <2>. DEFINE p == NoPacket
  <2>1. ep0' = [ep0 EXCEPT !.rxSetup = TRUE, !.fifo = r, !.frcestall = FALSE, !.tx = p]
    BY DEF HostSetup
  <2>. HIDE DEF p
  <2>2. /\ ep0' \in Shape /\ Except(ep0, ep0', {"rxSetup", "fifo", "frcestall", "tx"})
        /\ ep0'.rxSetup = TRUE /\ ep0'.fifo = r /\ ep0'.frcestall = FALSE /\ ep0'.tx = p
    BY <1>1, <2>1 DEF Shape, Except, Fields, p
  <2>. QED  BY <2>2 DEF p
<1>3. /\ ep0'.out = ep0.out /\ ep0'.complt = ep0.complt /\ ep0'.inSendIe = ep0.inSendIe
      /\ ep0'.nakInIe = ep0.nakInIe /\ ep0'.nakOutIe = ep0.nakOutIe
      /\ ep0'.state = ep0.state /\ ep0'.req = ep0.req /\ ep0'.short = ep0.short
      /\ ep0'.size = ep0.size /\ ep0'.cnt = ep0.cnt /\ ep0'.prev = ep0.prev
  BY <1>2 DEF Except, Fields
<1>4. /\ host' \in HostShape /\ host'.req = r /\ host'.n = 0 /\ host'.result = "none"
      /\ host'.stage = IF r.len > 0 THEN "data" ELSE "status"
  <2>. DEFINE zero == 0
              st == IF r.len > 0 THEN "data" ELSE "status"
  <2>1. host' = [stage |-> st, req |-> r, n |-> zero, cut |-> FALSE, result |-> "none"]
    BY Zenon DEF HostSetup
  <2>2. zero \in Int /\ zero = 0 /\ st \in {"idle", "data", "status"}
    OBVIOUS
  <2>. HIDE DEF zero, st
  <2>3. /\ host' \in HostShape /\ host'.req = r /\ host'.n = zero /\ host'.result = "none"
        /\ host'.stage = st
    BY <1>1, <2>1, <2>2 DEF HostShape
  <2>. QED  BY <2>2, <2>3 DEF st
<1>5. /\ r.len \in Int /\ 0 <= r.len /\ 0 <= r.size /\ r.size \in Int
  BY RequestRules
<1>6. Bounded(ep0', host')
  BY <1>1, <1>2, <1>3, <1>4, <1>5 DEF TransferInv, Bounded
<1>7. Events(ep0', isr)
  BY <1>1, <1>2, <1>3 DEF TransferInv, Events, Quiet, InDue
<1>8. Current(ep0', host')
  BY <1>2, <1>4 DEF Current
<1>9. Stages(ep0', host')
  BY <1>1, <1>2, <1>3 DEF TransferInv, Stages, Over
<1>10. Ended(ep0', isr, host')
  BY <1>1, <1>2, <1>3 DEF TransferInv, Ended, Over, InDue
<1>11. InAccount(ep0', host') /\ OutAccount(ep0', isr, host')
  BY <1>2 DEF InAccount, OutAccount, Over
<1>12. HostCount(host')
  BY <1>4, <1>5 DEF HostCount, Smaller
<1>. QED  BY <1>1, <1>2, <1>4, <1>6, <1>7, <1>8, <1>9, <1>10, <1>11, <1>12 DEF TransferInv

\* The transfer ends without a packet: what the host knew stays.
Ends(res) ==
    /\ host' \in HostShape /\ host'.stage = "idle" /\ host'.result = res
    /\ host'.req = host.req /\ host'.n = host.n /\ host'.cut = host.cut

LEMMA FinishFields ==
    ASSUME host \in HostShape,
           NEW res \in {"ok", "stall", "overrun", "error", "reset", "timeout"}, Finish(res)
    PROVE  Ends(res)
  BY DEF HostShape, Finish, Ends

\* The transfer ends while the driver has nothing to do for it.
LEMMA GiveUpKeeps ==
    ASSUME CtrlTransferInv, NEW res \in {"stall", "overrun", "timeout"}, Ends(res),
           host.stage # "idle", ep0' = ep0, isr' = isr, ~ep0.rxSetup,
           isr # "in" /\ ~InDue(ep0),
           ep0.state = "DATA_OUT" => isr = "none" /\ ep0.out = -1 /\ ~NakDue(ep0)
    PROVE  TransferInv(ep0', isr', host')
<1>1. /\ TransferInv(ep0, isr, host) /\ ep0.req = host.req
      /\ Ended(ep0, isr, host)
  BY DEF CtrlTransferInv, TransferInv, Current
<1>2. Bounded(ep0, host')
  BY <1>1 DEF TransferInv, Bounded, Ends
<1>3. Current(ep0, host')
  BY <1>1 DEF Current, Ends
<1>4. Stages(ep0, host')
  BY <1>1 DEF TransferInv, Stages, Over, Ends
<1>5. Ended(ep0, isr, host')
  BY <1>1 DEF Ended, Over, Ends
<1>6. InAccount(ep0, host')
  BY DEF InAccount, Over, Ends
<1>7. HostCount(host')
  BY DEF HostCount, Ends
<1>8. OutAccount(ep0, isr, host')
  BY <1>1 DEF TransferInv, OutAccount, Ends
<1>. QED  BY <1>1, <1>2, <1>3, <1>4, <1>5, <1>6, <1>7, <1>8 DEF TransferInv, Ends

LEMMA StalledKeeps ==
    ASSUME CtrlTransferInv, HostStalled
    PROVE  TransferInv(ep0', isr', host')
<1>1. /\ host \in HostShape /\ host.stage # "idle" /\ ep0.frcestall /\ ~ep0.rxSetup
      /\ Finish("stall") /\ ep0' = ep0 /\ isr' = isr
  BY DEF CtrlTransferInv, TransferInv, HostStalled
<1>2. Ends("stall")
  BY <1>1, FinishFields
<1>3. /\ isr # "in" /\ ~InDue(ep0)
      /\ ep0.state = "DATA_OUT" => isr = "none" /\ ep0.out = -1 /\ ~NakDue(ep0)
  BY <1>1 DEF CtrlTransferInv, TransferInv, Events, Ended
<1>. QED  BY <1>1, <1>2, <1>3, GiveUpKeeps

LEMMA TimeoutKeeps ==
    ASSUME CtrlTransferInv, HostGivesUp
    PROVE  TransferInv(ep0', isr', host')
<1>1. /\ host \in HostShape /\ host.stage # "idle" /\ isr = "none" /\ ~Pending
      /\ Finish("timeout") /\ ep0' = ep0 /\ isr' = isr
  BY DEF CtrlTransferInv, TransferInv, HostGivesUp
<1>2. Ends("timeout")
  BY <1>1, FinishFields
<1>3. /\ isr = "none" /\ isr # "in" /\ ~InDue(ep0) /\ ep0.out = -1 /\ ~NakDue(ep0) /\ ~ep0.rxSetup
  BY <1>1 DEF Pending, InEvent, OutEvent, InDue, NakDue
<1>. QED  BY <1>1, <1>2, <1>3, GiveUpKeeps

LEMMA CutKeeps ==
    ASSUME CtrlTransferInv, HostCut
    PROVE  TransferInv(ep0', isr', host')
<1>1. /\ TransferInv(ep0, isr, host) /\ ep0' = ep0 /\ isr' = isr /\ host.stage = "data"
      /\ host' = [host EXCEPT !.stage = "status", !.cut = TRUE]
      /\ host \in HostShape
  BY DEF CtrlTransferInv, TransferInv, HostCut
<1>2. /\ host' \in HostShape /\ host'.stage = "status" /\ host'.cut = TRUE
      /\ host'.req = host.req /\ host'.n = host.n /\ host'.result = host.result
  BY <1>1 DEF HostShape
<1>3. Bounded(ep0, host')
  BY <1>1, <1>2 DEF TransferInv, Bounded
<1>4. Current(ep0, host')
  BY <1>1, <1>2 DEF TransferInv, Current
<1>5. Stages(ep0, host')
  BY <1>1, <1>2 DEF TransferInv, Stages, Over
<1>6. Ended(ep0, isr, host')
  BY <1>1, <1>2 DEF TransferInv, Ended, Over
<1>7. InAccount(ep0, host') /\ HostCount(host') /\ OutAccount(ep0, isr, host')
  BY <1>2 DEF InAccount, HostCount, OutAccount
<1>. QED  BY <1>1, <1>2, <1>3, <1>4, <1>5, <1>6, <1>7 DEF TransferInv

LEMMA ResetKeeps ==
    ASSUME CtrlTransferInv, BusReset
    PROVE  TransferInv(ep0', isr', host')
<1>. DEFINE p == NoPacket
            x == [ep0 EXCEPT !.rxSetup = FALSE, !.tx = p, !.complt = FALSE,
                   !.nakIn = FALSE, !.nakOut = FALSE, !.frcestall = FALSE,
                   !.nakInIe = FALSE, !.nakOutIe = FALSE]
<1>1. /\ TransferInv(ep0, isr, host) /\ isr' = "none" /\ ep0' = CtrlInit(x)
      /\ host \in HostShape /\ ep0 \in Shape /\ DOMAIN ep0 = Fields
      /\ p \in [n : Int, from : Int] /\ Finish("reset")
  BY ShapeFields DEF CtrlTransferInv, TransferInv, BusReset, NoPacket
<1>2. Ends("reset")
  BY <1>1, FinishFields
<1>. HIDE DEF p
<1>3. /\ x \in Shape
      /\ Except(ep0, x, {"rxSetup", "tx", "complt", "nakIn", "nakOut", "frcestall",
                         "nakInIe", "nakOutIe"})
      /\ x.rxSetup = FALSE /\ x.tx = p /\ x.complt = FALSE /\ x.frcestall = FALSE
  <2>. DEFINE y == [ep0 EXCEPT !.rxSetup = FALSE, !.tx = p, !.complt = FALSE]
              z == [y EXCEPT !.nakIn = FALSE, !.nakOut = FALSE, !.frcestall = FALSE]
  <2>1. /\ y \in Shape /\ Except(ep0, y, {"rxSetup", "tx", "complt"})
        /\ y.rxSetup = FALSE /\ y.tx = p /\ y.complt = FALSE
    BY <1>1 DEF Shape, Except, Fields
  <2>2. x = [z EXCEPT !.nakInIe = FALSE, !.nakOutIe = FALSE]
    OBVIOUS
  <2>. HIDE DEF y, x
  <2>3. /\ z \in Shape /\ Except(y, z, {"nakIn", "nakOut", "frcestall"}) /\ z.frcestall = FALSE
    BY <2>1 DEF Shape, Except, Fields
  <2>. HIDE DEF z
  <2>4. x \in Shape /\ Except(z, x, {"nakInIe", "nakOutIe"})
    BY <2>2, <2>3 DEF Shape, Except, Fields
  <2>. QED  BY <2>1, <2>3, <2>4 DEF Except, Fields
<1>. HIDE DEF x
<1>4. ep0' \in Shape /\ DOMAIN x = Fields
  BY <1>1, <1>3, CtrlInitFacts, ShapeFields
<1>5. /\ Except(x, ep0', {"inSendIe", "out", "cb", "size", "state", "ledger"})
      /\ ep0'.inSendIe = FALSE /\ ep0'.out = -1 /\ ep0'.size = 0 /\ ep0'.state = "SETUP"
  BY <1>1, <1>4, CtrlInitFields
<1>6. /\ ep0'.rxSetup = FALSE /\ ep0'.tx = NoPacket /\ ep0'.complt = FALSE
      /\ ep0'.frcestall = FALSE /\ ep0'.fifo = ep0.fifo /\ ep0'.req = ep0.req
      /\ ep0'.cnt = ep0.cnt /\ ep0'.prev = ep0.prev
  BY <1>3, <1>5 DEF Except, Fields, p
<1>7. Bounded(ep0', host')
  <2>1. 0 \in Len /\ -1 \in -1 .. Pkt
    BY CtrlAssumption DEF Len
  <2>. QED  BY <1>1, <1>2, <1>5, <1>6, <2>1 DEF TransferInv, Bounded, Ends
<1>8. Events(ep0', "none")
  BY <1>5, <1>6 DEF Events, Quiet, InDue
<1>9. Current(ep0', host') /\ Over(ep0', host')
  BY <1>2, <1>5, <1>6 DEF Current, Ends, Over
<1>10. Stages(ep0', host')
  BY <1>5, <1>6, <1>9 DEF Stages
<1>11. Ended(ep0', "none", host')
  BY <1>5, <1>6, <1>9 DEF Ended, InDue
<1>12. InAccount(ep0', host') /\ HostCount(host') /\ OutAccount(ep0', "none", host')
  BY <1>2, <1>5, <1>9 DEF InAccount, HostCount, OutAccount, Ends
<1>. QED  BY <1>1, <1>2, <1>4, <1>7, <1>8, <1>9, <1>10, <1>11, <1>12 DEF TransferInv, Ends

\* An IN token: NAKed, answered by the packet in the bank, or too long an answer.
LEMMA InTokenKeeps ==
    ASSUME CtrlTransferInv, HostIn
    PROVE  TransferInv(ep0', isr', host')
<1>1. /\ TransferInv(ep0, isr, host) /\ isr' = isr /\ host.stage # "idle" /\ ~ep0.frcestall
      /\ ep0 \in Shape /\ DOMAIN ep0 = Fields /\ host \in HostShape
      /\ Reads /\ NoPacket \in [n : Int, from : Int]
  BY ShapeFields DEF CtrlTransferInv, TransferInv, HostIn, NoPacket
<1>2. /\ host.n \in Int /\ host.req.len \in Int /\ host.req.size \in Int /\ ep0.tx.n \in Int
      /\ ep0.tx.from \in Int /\ ep0.cnt \in Int
      /\ 0 <= host.n /\ host.n <= host.req.len /\ 0 <= host.req.size
      /\ host.stage \in {"idle", "data", "status"} /\ host.req.dir \in {"in", "out"}
  <2>1. host.req \in Requests /\ 0 <= host.n /\ host.n <= host.req.len
    BY <1>1 DEF TransferInv, Bounded
  <2>. QED  BY <1>1, <2>1, RequestRules DEF Shape, HostShape
<1>3. /\ host.stage = "data" => host.req.dir = "in"
      /\ host.stage = "status" => host.req.dir = "out" \/ host.req.len = 0
  BY <1>1 DEF Reads
<1>4. ep0.rxSetup => ep0.tx = NoPacket
  BY <1>1 DEF TransferInv, Current
<1>5. CASE /\ ep0.tx = NoPacket /\ ep0' = [ep0 EXCEPT !.nakIn = TRUE] /\ host' = host
  <2>1. ep0' \in Shape /\ Except(ep0, ep0', {"nakIn"})
    BY <1>1, <1>5 DEF Shape, Except, Fields
  <2>2. /\ ep0'.rxSetup = ep0.rxSetup /\ ep0'.fifo = ep0.fifo /\ ep0'.out = ep0.out
        /\ ep0'.tx = ep0.tx /\ ep0'.complt = ep0.complt /\ ep0'.inSendIe = ep0.inSendIe
        /\ ep0'.frcestall = ep0.frcestall /\ ep0'.state = ep0.state /\ ep0'.req = ep0.req
        /\ ep0'.size = ep0.size /\ ep0'.cnt = ep0.cnt /\ ep0'.prev = ep0.prev
        /\ ep0'.nakInIe = ep0.nakInIe /\ ep0'.nakOutIe = ep0.nakOutIe /\ ep0'.short = ep0.short
    BY <2>1 DEF Except, Fields
  <2>3. Bounded(ep0', host)
    BY <1>1, <2>2 DEF TransferInv, Bounded
  <2>4. Events(ep0', isr)
    BY <1>1, <2>2 DEF TransferInv, Events, Quiet, InDue
  <2>5. Current(ep0', host)
    BY <1>1, <2>2 DEF TransferInv, Current
  <2>6. Stages(ep0', host)
    BY <1>1, <2>2 DEF TransferInv, Stages, Over
  <2>7. Ended(ep0', isr, host)
    BY <1>1, <2>2 DEF TransferInv, Ended, Over, InDue
  <2>8. InAccount(ep0', host)
    BY <1>1, <2>2 DEF TransferInv, InAccount, Over
  <2>9. OutAccount(ep0', isr, host)
    BY <1>1, <1>3, <2>2 DEF TransferInv, OutAccount, Whole
  <2>. QED  BY <1>1, <1>5, <2>1, <2>3, <2>4, <2>5, <2>6, <2>7, <2>8, <2>9 DEF TransferInv
<1>. DEFINE p == NoPacket
            taken == [ep0 EXCEPT !.tx = p, !.complt = TRUE]
<1>6. /\ taken \in Shape /\ Except(ep0, taken, {"tx", "complt"})
      /\ taken.tx = NoPacket /\ taken.complt = TRUE
  <2>1. p \in [n : Int, from : Int]
    BY <1>1
  <2>. HIDE DEF p
  <2>2. /\ taken \in Shape /\ Except(ep0, taken, {"tx", "complt"})
        /\ taken.tx = p /\ taken.complt = TRUE
    BY <1>1, <2>1 DEF Shape, Except, Fields
  <2>. QED  BY <2>2 DEF p
<1>. HIDE DEF taken
<1>7. CASE /\ host.stage = "data" /\ ep0.tx # NoPacket /\ host.n + ep0.tx.n <= host.req.len
           /\ ep0' = taken
           /\ host' = [host EXCEPT !.n = @ + ep0.tx.n,
                !.stage = IF ep0.tx.n < Pkt \/ host.n + ep0.tx.n = host.req.len
                            THEN "status" ELSE "data"]
  <2>. DEFINE m == host.n + ep0.tx.n
              st == IF ep0.tx.n < Pkt \/ m = host.req.len THEN "status" ELSE "data"
  <2>1. host' = [host EXCEPT !.n = m, !.stage = st]
    BY <1>7
  <2>2. m \in Int /\ st \in {"data", "status"}
    BY <1>2
  <2>. HIDE DEF m, st
  <2>3. /\ host' \in HostShape /\ host'.n = m /\ host'.stage = st
        /\ host'.req = host.req /\ host'.cut = host.cut /\ host'.result = host.result
    BY <1>1, <2>1, <2>2 DEF HostShape
  <2>4. /\ ep0'.rxSetup = ep0.rxSetup /\ ep0'.fifo = ep0.fifo /\ ep0'.out = ep0.out
        /\ ep0'.inSendIe = ep0.inSendIe /\ ep0'.frcestall = ep0.frcestall
        /\ ep0'.state = ep0.state /\ ep0'.req = ep0.req /\ ep0'.size = ep0.size
        /\ ep0'.cnt = ep0.cnt /\ ep0'.prev = ep0.prev /\ ep0'.nakInIe = ep0.nakInIe
        /\ ep0'.nakOutIe = ep0.nakOutIe /\ ep0'.short = ep0.short
        /\ ep0'.tx = NoPacket /\ ep0'.complt = TRUE /\ ep0' \in Shape
    BY <1>6, <1>7 DEF Except, Fields
  <2>5. ~Over(ep0, host) /\ ~Over(ep0', host') /\ ep0.req = host.req
    BY <1>1, <1>4, <1>7, <2>2, <2>3, <2>4 DEF TransferInv, Current, Over
  <2>6. /\ ep0.state = "DATA_IN" /\ ep0.tx.from = host.n /\ m = ep0.cnt
        /\ ep0.tx.n < Pkt => m = ep0.size
        /\ ep0.tx.n \in 0 .. Pkt /\ ep0.size = host.req.size /\ ep0.cnt <= ep0.size
    BY <1>1, <1>3, <1>7, <2>5 DEF TransferInv, Bounded, InAccount, Stages, m
  <2>7. m <= host.req.len /\ 0 <= m /\ (st = "data" => m < host.req.len)
    BY <1>2, <1>7, <2>2, <2>6, CtrlAssumption DEF m, st
  <2>8. Bounded(ep0', host')
    BY <1>1, <2>3, <2>4, <2>7 DEF TransferInv, Bounded
  <2>9. Events(ep0', isr)
    BY <1>1, <2>4 DEF TransferInv, Events, Quiet, InDue
  <2>10. Current(ep0', host')
    BY <1>1, <2>3, <2>4, <2>5 DEF TransferInv, Current, Over
  <2>11. Stages(ep0', host')
    BY <1>1, <2>4, <2>5, <2>6 DEF TransferInv, Stages
  <2>12. Ended(ep0', isr, host')
    BY <1>1, <2>4, <2>5, <2>6 DEF TransferInv, Ended
  <2>13. InAccount(ep0', host')
    BY <2>3, <2>4, <2>6 DEF InAccount
  <2>14. HostCount(host')
    <3>1. st = "status" => m = host.req.size \/ m = host.req.len
      BY <2>6 DEF st
    <3>2. m <= host.req.size
      BY <2>6
    <3>3. host'.result # "ok" /\ host.req.dir = "in"
      BY <1>1, <1>3, <1>7, <2>3 DEF TransferInv, Current
    <3>. QED  BY <1>2, <2>2, <2>3, <2>7, <3>1, <3>2, <3>3 DEF HostCount, Smaller
  <2>15. OutAccount(ep0', isr, host')
    BY <1>3, <1>7, <2>3 DEF OutAccount, Whole
  <2>. QED  BY <1>1, <2>3, <2>4, <2>8, <2>9, <2>10, <2>11, <2>12, <2>13, <2>14, <2>15 DEF TransferInv
<1>8. CASE /\ host.stage = "data" /\ host.n + ep0.tx.n > host.req.len
           /\ Finish("overrun") /\ ep0' = ep0
  <2>1. Ends("overrun")
    BY <1>1, <1>8, FinishFields
  <2>2. ep0.tx # NoPacket
    BY <1>2, <1>8 DEF NoPacket
  <2>3. ~ep0.rxSetup /\ ~ep0.complt /\ isr # "in" /\ ~InDue(ep0) /\ ep0.state # "DATA_OUT"
    BY <1>1, <1>4, <2>2 DEF TransferInv, Events, Stages, InDue
  <2>. QED  BY <1>1, <1>8, <2>1, <2>3, GiveUpKeeps
<1>9. CASE /\ host.stage = "status" /\ ep0.tx # NoPacket /\ ep0' = Complete(taken)
           /\ Finish(IF ep0.tx.n = 0 THEN "ok" ELSE "error")
  <2>1. PICK res \in {"ok", "error"} : Ends(res)
    <3>. DEFINE res == IF ep0.tx.n = 0 THEN "ok" ELSE "error"
    <3>1. Finish(res) /\ res \in {"ok", "error"}
      BY <1>9
    <3>. HIDE DEF res
    <3>. QED  BY <1>1, <3>1, FinishFields
  <2>2. Except(taken, ep0', {"ledger"}) /\ ep0' \in Shape
    <3>1. ep0' \in Shape
      BY <1>6, <1>9, CompleteFacts
    <3>2. DOMAIN taken = Fields
      BY <1>6 DEF Except
    <3>. DEFINE l == IF taken.ledger = "open" THEN "done" ELSE taken.ledger
    <3>3. ep0' = [taken EXCEPT !.ledger = l]
      BY <1>9 DEF Complete
    <3>. HIDE DEF l
    <3>. QED  BY <3>1, <3>2, <3>3 DEF Except, Fields
  <2>4. /\ ep0'.rxSetup = ep0.rxSetup /\ ep0'.fifo = ep0.fifo /\ ep0'.out = ep0.out
        /\ ep0'.inSendIe = ep0.inSendIe /\ ep0'.frcestall = ep0.frcestall
        /\ ep0'.state = ep0.state /\ ep0'.req = ep0.req /\ ep0'.size = ep0.size
        /\ ep0'.cnt = ep0.cnt /\ ep0'.prev = ep0.prev /\ ep0'.nakInIe = ep0.nakInIe
        /\ ep0'.nakOutIe = ep0.nakOutIe /\ ep0'.short = ep0.short
        /\ ep0'.tx = NoPacket /\ ep0'.complt = TRUE
    BY <1>6, <2>2 DEF Except, Fields
  <2>5. ~Over(ep0, host) /\ Over(ep0', host') /\ ep0.req = host.req /\ isr # "in"
    BY <1>1, <1>4, <1>9, <2>1 DEF TransferInv, Current, Events, Over, Ends
  <2>6. ep0.state \notin {"DATA_IN", "DATA_OUT"}
    BY <1>1, <1>2, <1>3, <1>9, <2>5 DEF TransferInv, Stages
  <2>7. Bounded(ep0', host')
    BY <1>1, <2>1, <2>4 DEF TransferInv, Bounded, Ends
  <2>8. Events(ep0', isr)
    BY <1>1, <2>4 DEF TransferInv, Events, Quiet, InDue
  <2>9. Current(ep0', host')
    BY <1>4, <1>9, <2>1, <2>4, <2>5 DEF Current, Ends
  <2>10. Stages(ep0', host')
    BY <1>1, <2>4, <2>5 DEF TransferInv, Stages
  <2>11. Ended(ep0', isr, host')
    BY <1>1, <2>4, <2>5, <2>6 DEF TransferInv, Events, Quiet, Sending, Ended, InDue
  <2>12. InAccount(ep0', host')
    BY <2>5 DEF InAccount
  <2>13. HostCount(host')
    BY <1>1, <1>9, <2>1 DEF TransferInv, HostCount, Ends
  <2>14. OutAccount(ep0', isr, host')
    <3>1. ~ep0.rxSetup /\ Whole(host.req) /\ ~host.cut => ep0.cnt = host.req.len
      BY <1>1, <1>9, <2>5 DEF TransferInv, OutAccount
    <3>. QED  BY <2>1, <2>4, <2>6, <3>1 DEF OutAccount, Ends
  <2>. QED  BY <1>1, <2>1, <2>2, <2>7, <2>8, <2>9, <2>10, <2>11, <2>12, <2>13, <2>14
            DEF TransferInv, Ends
<1>. QED  BY <1>5, <1>7, <1>8, <1>9 DEF HostIn, taken

\* An OUT packet: NAKed, taken as data, or taken as the handshake.
LEMMA OutPacketKeeps ==
    ASSUME CtrlTransferInv, HostOut
    PROVE  TransferInv(ep0', isr', host')
<1>1. /\ TransferInv(ep0, isr, host) /\ isr' = isr /\ host.stage # "idle" /\ ~ep0.frcestall
      /\ ep0 \in Shape /\ DOMAIN ep0 = Fields /\ host \in HostShape /\ ~Reads
  BY ShapeFields DEF CtrlTransferInv, TransferInv, HostOut
<1>2. /\ host.n \in Int /\ host.req.len \in Int /\ host.req.size \in Int /\ ep0.cnt \in Int
      /\ 0 <= host.n /\ host.n <= host.req.len /\ host.req.dir \in {"in", "out"}
      /\ host.stage \in {"idle", "data", "status"}
  <2>1. host.req \in Requests /\ 0 <= host.n /\ host.n <= host.req.len
    BY <1>1 DEF TransferInv, Bounded
  <2>. QED  BY <1>1, <2>1, RequestRules DEF Shape, HostShape
<1>3. /\ host.stage = "data" => host.req.dir = "out"
      /\ host.stage = "status" => host.req.dir = "in"
  BY <1>1, <1>2 DEF Reads
<1>4. CASE ep0' = [ep0 EXCEPT !.nakOut = TRUE] /\ host' = host
  <2>1. ep0' \in Shape /\ Except(ep0, ep0', {"nakOut"})
    BY <1>1, <1>4 DEF Shape, Except, Fields
  <2>2. /\ ep0'.rxSetup = ep0.rxSetup /\ ep0'.fifo = ep0.fifo /\ ep0'.out = ep0.out
        /\ ep0'.tx = ep0.tx /\ ep0'.complt = ep0.complt /\ ep0'.inSendIe = ep0.inSendIe
        /\ ep0'.frcestall = ep0.frcestall /\ ep0'.state = ep0.state /\ ep0'.req = ep0.req
        /\ ep0'.size = ep0.size /\ ep0'.cnt = ep0.cnt /\ ep0'.prev = ep0.prev
        /\ ep0'.nakInIe = ep0.nakInIe /\ ep0'.nakOutIe = ep0.nakOutIe /\ ep0'.short = ep0.short
        /\ ep0'.nakIn = ep0.nakIn
    BY <2>1 DEF Except, Fields
  <2>3. Bounded(ep0', host)
    BY <1>1, <2>2 DEF TransferInv, Bounded
  <2>4. Events(ep0', isr)
    BY <1>1, <2>2 DEF TransferInv, Events, Quiet, InDue
  <2>5. Current(ep0', host)
    BY <1>1, <2>2 DEF TransferInv, Current
  <2>6. Stages(ep0', host)
    BY <1>1, <2>2 DEF TransferInv, Stages, Over
  <2>7. Ended(ep0', isr, host)
    BY <1>1, <2>2 DEF TransferInv, Ended, Over, InDue
  <2>8. InAccount(ep0', host)
    BY <1>1, <2>2 DEF TransferInv, InAccount, Over
  <2>9. OutAccount(ep0', isr, host)
    BY <1>1, <2>2 DEF TransferInv, OutAccount
  <2>. QED  BY <1>1, <1>4, <2>1, <2>3, <2>4, <2>5, <2>6, <2>7, <2>8, <2>9 DEF TransferInv
<1>. DEFINE n == Chunk(host.req.len - host.n)
            data == [ep0 EXCEPT !.out = n]
            zero == 0
            zlp == [ep0 EXCEPT !.out = zero]
<1>5. CASE /\ host.stage = "data" /\ ep0.out = -1 /\ ~ep0.rxSetup /\ ep0' = data
           /\ host' = [host EXCEPT !.n = @ + n,
                     !.stage = IF host.n + n = host.req.len THEN "status" ELSE "data"]
  <2>. DEFINE m == host.n + n
              st == IF m = host.req.len THEN "status" ELSE "data"
  <2>0. n \in 0 .. Pkt /\ n <= host.req.len - host.n /\ (n < Pkt => n = host.req.len - host.n)
    <3>1. host.req.len - host.n \in Int /\ 0 <= host.req.len - host.n
      BY <1>2
    <3>. QED  BY <3>1, ChunkRules
  <2>. HIDE DEF n
  <2>1. host' = [host EXCEPT !.n = m, !.stage = st]
    BY <1>5
  <2>2. /\ m \in Int /\ st \in {"data", "status"} /\ n \in Int /\ n # -1 /\ n \in -1 .. Pkt
        /\ 0 <= m /\ m <= host.req.len /\ (n # Pkt => m = host.req.len)
        /\ (st = "data" => m < host.req.len) /\ (st = "status" => m = host.req.len)
    BY <1>2, <2>0, CtrlAssumption
  <2>. HIDE DEF m, st
  <2>3. /\ host' \in HostShape /\ host'.n = m /\ host'.stage = st
        /\ host'.req = host.req /\ host'.cut = host.cut /\ host'.result = host.result
    BY <1>1, <2>1, <2>2 DEF HostShape
  <2>4. ep0' \in Shape /\ Except(ep0, ep0', {"out"}) /\ ep0'.out = n
    BY <1>1, <1>5, <2>2 DEF Shape, Except, Fields
  <2>5. /\ ep0'.rxSetup = ep0.rxSetup /\ ep0'.fifo = ep0.fifo
        /\ ep0'.tx = ep0.tx /\ ep0'.complt = ep0.complt /\ ep0'.inSendIe = ep0.inSendIe
        /\ ep0'.frcestall = ep0.frcestall /\ ep0'.state = ep0.state /\ ep0'.req = ep0.req
        /\ ep0'.size = ep0.size /\ ep0'.cnt = ep0.cnt /\ ep0'.prev = ep0.prev
        /\ ep0'.nakInIe = ep0.nakInIe /\ ep0'.nakOutIe = ep0.nakOutIe /\ ep0'.short = ep0.short
        /\ ep0'.nakIn = ep0.nakIn
    BY <2>4 DEF Except, Fields
  <2>6. ~Over(ep0, host) /\ ~Over(ep0', host') /\ ep0.req = host.req
    BY <1>1, <1>5, <2>2, <2>3, <2>5 DEF TransferInv, Current, Over
  <2>7. ep0.state \in {"DATA_OUT", "WAIT_IN_ZLP"}
    BY <1>1, <1>3, <1>5, <2>6 DEF TransferInv, Stages, Shape, States
  <2>8. Bounded(ep0', host')
    BY <1>1, <2>2, <2>3, <2>4, <2>5 DEF TransferInv, Bounded
  <2>9. Events(ep0', isr)
    BY <1>1, <2>2, <2>4, <2>5 DEF TransferInv, Events, Quiet, InDue
  <2>10. Current(ep0', host')
    BY <1>1, <2>3, <2>5, <2>6 DEF TransferInv, Current, Over
  <2>11. Stages(ep0', host')
    BY <1>1, <2>5, <2>6, <2>7 DEF TransferInv, Stages
  <2>12. Ended(ep0', isr, host')
    BY <1>1, <2>5, <2>6, <2>7 DEF TransferInv, Ended, Over
  <2>13. InAccount(ep0', host')
    BY <1>3, <1>5, <2>3 DEF InAccount
  <2>14. HostCount(host')
    BY <1>1, <1>3, <1>5, <2>2, <2>3 DEF TransferInv, Current, HostCount
  <2>15. OutAccount(ep0', isr, host')
    <3>1. ASSUME Whole(host.req), ~host.cut
          PROVE  /\ ep0.state = "DATA_OUT" => m = ep0.cnt + n /\ ~ep0.nakIn /\ isr # "nakIn"
                 /\ ep0.state = "WAIT_IN_ZLP" => ep0.cnt = host.req.len
      BY <1>1, <1>2, <1>5, <2>6, <3>1 DEF TransferInv, OutAccount, m
    <3>2. ep0.state = "DATA_OUT" => ep0.tx = NoPacket
      BY <1>1 DEF TransferInv, Stages
    <3>3. host.result = "none"
      BY <1>1 DEF TransferInv, Current
    <3>. QED  BY <2>2, <2>3, <2>4, <2>5, <2>7, <3>1, <3>2, <3>3 DEF OutAccount
  <2>. QED  BY <1>1, <2>3, <2>4, <2>8, <2>9, <2>10, <2>11, <2>12, <2>13, <2>14, <2>15 DEF TransferInv
<1>6. CASE /\ host.stage = "status" /\ ep0.out = -1 /\ ~ep0.rxSetup
           /\ ep0' = Complete(zlp) /\ Finish("ok")
  <2>1. Ends("ok")
    BY <1>1, <1>6, FinishFields
  <2>2. zlp \in Shape /\ Except(ep0, zlp, {"out"}) /\ zlp.out = 0
    <3>1. zero \in Int /\ zero = 0
      OBVIOUS
    <3>. HIDE DEF zero
    <3>. QED  BY <1>1, <3>1 DEF Shape, Except, Fields
  <2>. HIDE DEF zlp
  <2>3. Except(zlp, ep0', {"ledger"}) /\ ep0' \in Shape
    <3>1. ep0' \in Shape
      BY <1>6, <2>2, CompleteFacts
    <3>2. DOMAIN zlp = Fields
      BY <2>2 DEF Except
    <3>. DEFINE l == IF zlp.ledger = "open" THEN "done" ELSE zlp.ledger
    <3>3. ep0' = [zlp EXCEPT !.ledger = l]
      BY <1>6 DEF Complete
    <3>. HIDE DEF l
    <3>. QED  BY <3>1, <3>2, <3>3 DEF Except, Fields
  <2>4. /\ ep0'.rxSetup = ep0.rxSetup /\ ep0'.fifo = ep0.fifo /\ ep0'.out = 0
        /\ ep0'.tx = ep0.tx /\ ep0'.complt = ep0.complt /\ ep0'.inSendIe = ep0.inSendIe
        /\ ep0'.frcestall = ep0.frcestall /\ ep0'.state = ep0.state /\ ep0'.req = ep0.req
        /\ ep0'.size = ep0.size /\ ep0'.cnt = ep0.cnt /\ ep0'.prev = ep0.prev
        /\ ep0'.nakInIe = ep0.nakInIe /\ ep0'.nakOutIe = ep0.nakOutIe /\ ep0'.short = ep0.short
    BY <2>2, <2>3 DEF Except, Fields
  <2>5. ~Over(ep0, host) /\ Over(ep0', host') /\ ep0.req = host.req
    BY <1>1, <1>6, <2>1 DEF TransferInv, Current, Over, Ends
  <2>6. ep0.state \in {"DATA_IN", "WAIT_OUT_ZLP"}
    BY <1>1, <1>3, <1>6, <2>5 DEF TransferInv, Stages, Shape, States
  <2>7. Bounded(ep0', host')
    <3>1. 0 \in -1 .. Pkt
      BY CtrlAssumption
    <3>. QED  BY <1>1, <2>1, <2>4, <3>1 DEF TransferInv, Bounded, Ends
  <2>8. Events(ep0', isr)
    BY <1>1, <2>4 DEF TransferInv, Events, Quiet, InDue
  <2>9. Current(ep0', host')
    BY <1>6, <2>1, <2>4, <2>5 DEF Current, Ends
  <2>10. Stages(ep0', host')
    BY <1>1, <2>4, <2>5, <2>6 DEF TransferInv, Stages
  <2>11. Ended(ep0', isr, host')
    BY <2>4, <2>5, <2>6 DEF Ended, InDue
  <2>12. InAccount(ep0', host')
    BY <2>5 DEF InAccount
  <2>13. HostCount(host')
    BY <1>1, <1>6, <2>1 DEF TransferInv, HostCount, Ends
  <2>14. OutAccount(ep0', isr, host')
    BY <1>3, <1>6, <2>1 DEF OutAccount, Ends, Whole
  <2>. QED  BY <1>1, <2>1, <2>3, <2>7, <2>8, <2>9, <2>10, <2>11, <2>12, <2>13, <2>14
            DEF TransferInv, Ends
<1>. QED  BY <1>4, <1>5, <1>6 DEF HostOut, data, n, zlp

IsrEvents == {"none", "setup", "in", "out", "nakOut", "nakIn"}

FaithfulInv == CtrlTransferInv /\ isr \in IsrEvents

LEMMA FaithfulInit == Init => FaithfulInv
<1>. SUFFICES ASSUME Init PROVE FaithfulInv
  OBVIOUS
<1>0. 0 \in Len /\ 0 \in Int /\ -1 \in Int /\ -1 \in -1 .. Pkt /\ 0 \in 0 .. 2 * MaxLen
  BY CtrlAssumption DEF Len
<1>1. NoReq \in Requests
  BY <1>0 DEF NoReq, Requests, RequestType, StandardAnswer
<1>2. /\ NoReq \in AnyRequest /\ NoReq.dir = "out" /\ NoReq.len = 0
      /\ NoPacket \in [n : Int, from : Int]
  BY <1>0 DEF NoReq, AnyRequest, NoPacket
<1>. DEFINE rq == NoReq
            p == NoPacket
            zero == 0
            none == -1
<1>3. /\ ep0 = [rxSetup |-> FALSE, fifo |-> rq, out |-> none, tx |-> p,
              complt |-> FALSE, nakIn |-> FALSE, nakOut |-> FALSE, frcestall |-> FALSE,
              inSendIe |-> FALSE, nakInIe |-> FALSE, nakOutIe |-> FALSE,
              state |-> "SETUP", req |-> rq, size |-> zero, cb |-> FALSE,
              cnt |-> zero, prev |-> zero, short |-> FALSE,
              ledger |-> "clear", shortSent |-> FALSE]
      /\ isr = "none"
      /\ host = [stage |-> "idle", req |-> rq, n |-> zero, cut |-> FALSE, result |-> "none"]
  BY DEF Init
<1>4. rq \in AnyRequest /\ p \in [n : Int, from : Int] /\ zero \in Int /\ none \in Int
  BY <1>0, <1>2
<1>. HIDE DEF rq, p, zero, none
<1>5. ep0 \in Shape /\ host \in HostShape
  BY <1>3, <1>4 DEF Shape, States, HostShape
<1>6. /\ ep0.rxSetup = FALSE /\ ep0.fifo = NoReq /\ ep0.out = -1 /\ ep0.tx = NoPacket
      /\ ep0.complt = FALSE /\ ep0.frcestall = FALSE /\ ep0.inSendIe = FALSE
      /\ ep0.state = "SETUP" /\ ep0.req = NoReq /\ ep0.size = 0 /\ ep0.cnt = 0
      /\ ep0.prev = 0
      /\ host.stage = "idle" /\ host.req = NoReq /\ host.n = 0 /\ host.result = "none"
  BY <1>3 DEF rq, p, zero, none
<1>7. Bounded(ep0, host)
  BY <1>0, <1>1, <1>2, <1>6 DEF Bounded
<1>8. Events(ep0, isr) /\ Current(ep0, host) /\ Stages(ep0, host)
  BY <1>3, <1>6 DEF Events, Quiet, InDue, Current, Stages, Over
<1>9. Ended(ep0, isr, host)
  BY <1>3, <1>6 DEF Ended, InDue
<1>10. InAccount(ep0, host) /\ HostCount(host) /\ OutAccount(ep0, isr, host)
  BY <1>2, <1>6 DEF InAccount, Over, HostCount, OutAccount, Whole
<1>. QED  BY <1>3, <1>5, <1>7, <1>8, <1>9, <1>10 DEF FaithfulInv, CtrlTransferInv, TransferInv, IsrEvents

LEMMA HandleKeeps ==
    ASSUME CtrlTransferInv, IsrHandle
    PROVE  TransferInv(ep0', isr', host')
<1>. DEFINE o == [ep0 EXCEPT !.nakOut = FALSE]
            i == [ep0 EXCEPT !.nakIn = FALSE]
<1>1. /\ isr' = "none" /\ host' = host
      /\ \/ isr = "setup" /\ ep0' = SetupReceived(ep0)
         \/ isr = "in" /\ ep0' = InSent(ep0)
         \/ isr = "out" /\ ep0' = OutReceived(ep0)
         \/ isr = "nakOut" /\ ep0' = Overflow(o)
         \/ isr = "nakIn" /\ ep0' = Underflow(i)
  BY Zenon DEF IsrHandle
<1>2. isr = "setup" => TransferInv(SetupReceived(ep0), "none", host)
  BY SetupKeeps DEF CtrlTransferInv
<1>3. isr = "in" => TransferInv(InSent(ep0), "none", host)
  BY InKeeps DEF CtrlTransferInv
<1>4. isr = "out" => TransferInv(OutReceived(ep0), "none", host)
  BY OutKeeps DEF CtrlTransferInv
<1>5. isr = "nakOut" => TransferInv(Overflow(o), "none", host)
  BY OverflowKeeps DEF CtrlTransferInv
<1>6. isr = "nakIn" => TransferInv(Underflow(i), "none", host)
  BY UnderflowKeeps DEF CtrlTransferInv
<1>. HIDE DEF o, i
<1>. QED  BY <1>1, <1>2, <1>3, <1>4, <1>5, <1>6

LEMMA FaithfulStep == FaithfulInv /\ [Next]_vars => FaithfulInv'
<1>. SUFFICES ASSUME FaithfulInv, [Next]_vars PROVE TransferInv(ep0', isr', host') /\ isr' \in IsrEvents
  BY DEF FaithfulInv, CtrlTransferInv
<1>0. CtrlTransferInv /\ isr \in IsrEvents
  BY DEF FaithfulInv
<1>1. CASE IsrEnter
  BY <1>0, <1>1, EnterKeeps DEF IsrEnter, IsrEvents
<1>2. CASE IsrHandle
  BY <1>0, <1>2, HandleKeeps DEF IsrHandle, IsrEvents
<1>3. CASE HostIn
  BY <1>0, <1>3, InTokenKeeps DEF HostIn
<1>4. CASE HostOut
  BY <1>0, <1>4, OutPacketKeeps DEF HostOut
<1>5. CASE HostStalled
  BY <1>0, <1>5, StalledKeeps DEF HostStalled
<1>6. CASE \E r \in Requests : HostSetup(r)
  BY <1>0, <1>6, SetupPacketKeeps DEF HostSetup
<1>7. CASE HostCut
  BY <1>0, <1>7, CutKeeps DEF HostCut
<1>8. CASE HostGivesUp
  BY <1>0, <1>8, TimeoutKeeps DEF HostGivesUp
<1>9. CASE BusReset
  BY <1>0, <1>9, ResetKeeps DEF BusReset
<1>10. CASE UNCHANGED vars
  BY <1>0, <1>10 DEF vars, CtrlTransferInv
<1>. QED  BY <1>1, <1>2, <1>3, <1>4, <1>5, <1>6, <1>7, <1>8, <1>9, <1>10
          DEF Next, Driver, HostToken

LEMMA FaithfulAlways == Spec => []FaithfulInv
  BY FaithfulInit, FaithfulStep, PTL DEF Spec

\* The counts of the driver stay within the payload whatever the host asks for
\* (udd_ctrl_in_sent, udd_ctrl_out_received): udd_ctrl_payload_buf_cnt never
\* passes payload_size, so the buffer is neither read nor written outside.
THEOREM CountsStayInBounds == Spec => []CtrlTypeOK
<1>1. FaithfulInv => CtrlTypeOK
  <2>. SUFFICES ASSUME FaithfulInv PROVE CtrlTypeOK
    OBVIOUS
  <2>1. ep0 \in Shape /\ host \in HostShape /\ Bounded(ep0, host) /\ isr \in IsrEvents
    BY DEF FaithfulInv, CtrlTransferInv, TransferInv
  <2>2. ep0.fifo \in RequestType /\ ep0.req \in RequestType /\ host.req \in RequestType
    BY <2>1, RequestRules DEF Bounded
  <2>3. ep0.tx \in {NoPacket} \cup [n : 0..Pkt, from : Len]
    BY <2>1 DEF Bounded, Shape
  <2>4. ep0.out \in -1..Pkt /\ ep0.size \in Len /\ ep0.cnt \in Len /\ ep0.prev \in 0..(2 * MaxLen)
    BY <2>1 DEF Bounded
  <2>5. host.n \in Len
    <3>1. host.n \in Int /\ 0 <= host.n /\ host.n <= host.req.len
      BY <2>1 DEF Bounded, HostShape
    <3>2. host.req.len \in Len
      BY <2>2 DEF RequestType
    <3>. QED  BY <3>1, <3>2, CtrlAssumption DEF Len
  <2>. DEFINE TX == {NoPacket} \cup [n : 0..Pkt, from : Len]
              O == -1..Pkt
              P == 0..(2 * MaxLen)
              E == [rxSetup : BOOLEAN, fifo : RequestType, out : O, tx : TX,
                complt : BOOLEAN, nakIn : BOOLEAN, nakOut : BOOLEAN, frcestall : BOOLEAN,
                inSendIe : BOOLEAN, nakInIe : BOOLEAN, nakOutIe : BOOLEAN,
                state : States, req : RequestType, size : Len, cb : BOOLEAN,
                cnt : Len, prev : P, short : BOOLEAN,
                ledger : {"clear", "open", "done", "early", "lost"},
                shortSent : BOOLEAN]
  <2>6. ep0.tx \in TX /\ ep0.out \in O /\ ep0.prev \in P
    BY <2>3, <2>4
  <2>. HIDE DEF TX, O, P
  <2>7. ep0 \in E
    BY <2>1, <2>2, <2>4, <2>6 DEF Shape
  <2>8. host \in [stage : {"idle", "data", "status"}, req : RequestType, n : Len,
                 cut : BOOLEAN,
                 result : {"none", "ok", "stall", "overrun", "error", "reset", "timeout"}]
    BY <2>1, <2>2, <2>5 DEF HostShape
  <2>. QED  BY <2>1, <2>7, <2>8 DEF CtrlTypeOK, IsrEvents, TX, O, P
<1>. QED  BY <1>1, FaithfulAlways, PTL

\* The host is given the payload of its own request, in order, and a transfer
\* that it sees complete has moved all of it, also when SETUP packets, aborts
\* and resets come between the reading of the status and the handler.
THEOREM TransfersAreFaithful == Spec => []TransferFaithful
<1>1. FaithfulInv => TransferFaithful
  <2>. SUFFICES ASSUME FaithfulInv PROVE TransferFaithful
    OBVIOUS
  <2>1. TransferInv(ep0, isr, host)
    BY DEF FaithfulInv, CtrlTransferInv
  <2>2. InPacketInPlace
    BY <2>1 DEF TransferInv, Current, InAccount, InPacketInPlace, Over
  <2>3. TransferComplete
    <3>. SUFFICES ASSUME host.result = "ok", ~host.cut
         PROVE /\ host.req.dir = "in" => host.n = Smaller(host.req.size, host.req.len)
               /\ Whole(host.req) => ep0.cnt = host.req.len
      BY DEF TransferComplete, Smaller, Whole
    <3>1. host.stage = "idle" /\ ~ep0.rxSetup /\ ep0.req = host.req
      BY <2>1 DEF TransferInv, Current
    <3>. QED  BY <2>1, <3>1 DEF TransferInv, HostCount, OutAccount
  <2>. QED  BY <2>2, <2>3 DEF TransferFaithful
<1>. QED  BY <1>1, FaithfulAlways, PTL

\* The IN interrupt of the control endpoint never finds the driver in a state
\* that does not expect it, whatever the host sends, cuts short, abandons or
\* resets: Assert(udd_ep_control_state == UDD_EPCTRL_DATA_IN).
THEOREM InSentAssertion == Spec => []InSentExpected
<1>1. FaithfulInv => InSentExpected
  BY DEF FaithfulInv, CtrlTransferInv, TransferInv, Events, Quiet, Sending, InSentExpected, InEvent
<1>. QED  BY <1>1, FaithfulAlways, PTL

(***************************************************************************)
(* Requests whose payload is as long as the host and the driver expect.    *)
(***************************************************************************)
\* A stall is forced only for a request that is not regular, and then the driver
\* has nothing more to do.
Stalls(d, i) ==
    /\ d.rxSetup => ~d.frcestall
    /\ d.frcestall => ~Regular(d.req) /\ i = "none" /\ d.out = -1 /\ ~NakDue(d)

\* In the IN handshake no OUT packet comes, and none was NAKed.
Handshake(d, i, h) ==
    d.state = "WAIT_IN_ZLP" =>
        /\ d.out = -1 /\ i # "nakOut"
        /\ ~d.rxSetup => ~d.nakOut /\ h.stage # "data"
        /\ ~Over(d, h) => d.tx # NoPacket

\* In the OUT data stage more is expected than has come.
Receiving(d) ==
    d.state = "DATA_OUT" => Whole(d.req) /\ (~d.rxSetup /\ d.out = -1 => d.cnt < d.req.len)

\* In the IN data stage a packet is in the bank, or was sent; the host that
\* reads on has not been given a short one.
Answering(d, h) ==
    d.state = "DATA_IN" /\ ~d.rxSetup =>
        /\ d.inSendIe /\ (d.tx = NoPacket => d.complt)
        /\ d.short => d.tx = NoPacket \/ d.tx.n < Pkt
        /\ h.stage = "data" /\ d.tx = NoPacket => ~d.short

\* While the driver waits for the OUT handshake, no IN token is left to answer.
Waiting(d, i, h) ==
    d.state = "WAIT_OUT_ZLP" /\ d.out = -1 =>
        /\ Over(d, h) => i # "nakIn" /\ (~d.rxSetup => ~(d.nakIn /\ d.nakInIe))
        /\ Regular(d.req) /\ ~d.rxSetup => h.stage # "data" /\ ~d.nakIn /\ i # "nakIn"

Refused(d) == d.state = "STALL_REQ" => ~d.req.ok

Outcome(h) ==
    /\ h.cut => h.stage # "data"
    /\ h.result = "stall" => ~Regular(h.req)

ServiceInv(d, i, h) ==
    /\ Stalls(d, i) /\ Handshake(d, i, h) /\ Receiving(d) /\ Answering(d, h)
    /\ Waiting(d, i, h) /\ Refused(d) /\ Outcome(h)

LEMMA MatchedRequests ==
    ASSUME NEW r \in Requests, "mismatch" \notin Faults, r.ok
    PROVE  /\ r.dir = "out" /\ r.len > 0 => Whole(r)
           /\ r.cb => Regular(r)
  BY CtrlAssumption DEF Requests, RequestType, StandardAnswer, VendorAnswer, Whole, Regular, Len

\* A driver that waits for a SETUP packet.
LEMMA IdleServes ==
    ASSUME NEW e, NEW h, e.state = "SETUP", ~e.frcestall, Outcome(h)
    PROVE  ServiceInv(e, "none", h)
  BY DEF ServiceInv, Stalls, Handshake, Receiving, Answering, Waiting, Refused

LEMMA EndServes ==
    ASSUME NEW x \in Shape, NEW h, ~x.frcestall, Outcome(h),
           NEW e, e = CtrlInit(EndOfRequest(x))
    PROVE  ServiceInv(e, "none", h)
<1>1. DOMAIN x = Fields
  BY ShapeFields
<1>2. /\ Except(x, e, {"inSendIe", "out", "cb", "size", "state", "ledger"})
      /\ e.state = "SETUP"
  BY <1>1, EndFields
<1>3. e.frcestall = x.frcestall
  BY <1>2 DEF Except, Fields
<1>. QED  BY <1>2, <1>3, IdleServes

LEMMA ZlpServes ==
    ASSUME NEW x \in Shape, NEW h, ~x.frcestall, Outcome(h), x.out = -1, h.stage # "data",
           NEW e, e = SendZlpIn(x)
    PROVE  ServiceInv(e, "none", h)
<1>1. DOMAIN x = Fields
  BY ShapeFields
<1>2. /\ Except(x, e, {"complt", "tx", "inSendIe", "state", "nakOut", "nakOutIe"})
      /\ e.tx = Packet(0, 0) /\ e.state = "WAIT_IN_ZLP" /\ e.nakOut = FALSE
  BY <1>1, SendZlpInFields
<1>3. e.frcestall = x.frcestall /\ e.out = x.out
  BY <1>2 DEF Except, Fields
<1>4. e.tx # NoPacket
  BY <1>2, PacketRules
<1>. QED  BY <1>2, <1>3, <1>4
          DEF ServiceInv, Stalls, Handshake, Receiving, Answering, Waiting, Refused

LEMMA InSentServes ==
    ASSUME NEW d, NEW h, InReady(d, h), ~d.frcestall, Outcome(h),
           Regular(d.req) /\ h.stage = "data" /\ d.size = d.cnt => ~d.short
    PROVE  ServiceInv(InSent(d), "none", h)
<1>. DEFINE e == InSent(d)
            n == Chunk(d.size - d.cnt)
            p == IF d.size = d.cnt THEN d.prev + d.cnt ELSE d.prev
<1>1. InOutcome(d, e, n, p)
  BY InSentFields DEF InReady
<1>2. /\ d.size \in Int /\ d.cnt \in Int /\ d.prev \in Int /\ d.cnt <= d.size
      /\ d.prev = 0 \/ (d.prev = d.cnt /\ d.short /\ d.cnt = d.size)
  BY CtrlAssumption DEF InReady, Bounded, Stages, Len
<1>3. n \in 0 .. Pkt
  <2>1. d.size - d.cnt \in Int /\ 0 <= d.size - d.cnt
    BY <1>2
  <2>. QED  BY <2>1, ChunkRules
<1>4. CASE d.out = -1 /\ d.size = d.cnt /\ (p = d.req.len \/ d.short)
  <2>1. ASSUME Regular(d.req), h.stage = "data" PROVE FALSE
    <3>1. ~d.short /\ p = d.cnt
      BY <1>2, <1>4, <2>1
    <3>2. d.cnt = d.req.len
      BY <1>4, <3>1
    <3>3. ~Over(d, h)
      BY <1>4 DEF InReady
    <3>4. d.req = h.req /\ d.req.dir = "in"
      BY <2>1, <3>3 DEF InReady, Current, Stages, Over
    <3>5. d.cnt = h.n
      BY <2>1, <3>3, <3>4 DEF InReady, InAccount
    <3>6. h.n < h.req.len /\ h.n \in Int
      BY <2>1 DEF InReady, Bounded, HostShape
    <3>. QED  BY <3>2, <3>4, <3>5, <3>6
  <2>. HIDE DEF e, n, p
  <2>2. /\ Except(d, e, {"inSendIe", "prev", "state", "nakIn", "nakInIe"})
        /\ e.state = "WAIT_OUT_ZLP" /\ e.nakIn = FALSE
    BY <1>1, <1>4 DEF InOutcome
  <2>3. e.rxSetup = d.rxSetup /\ e.req = d.req /\ e.frcestall = d.frcestall /\ e.out = d.out
    BY <2>2 DEF Except, Fields
  <2>4. ~Over(e, h)
    BY <1>4, <2>3 DEF InReady, Over
  <2>. QED  BY <2>1, <2>2, <2>3, <2>4
            DEF ServiceInv, Stalls, Handshake, Receiving, Answering, Waiting, Refused, e
<1>5. CASE d.out # -1
  <2>. HIDE DEF e, n, p
  <2>1. /\ Except(d, e, {"inSendIe", "prev", "state", "short", "shortSent", "nakIn", "nakInIe"})
        /\ e.state = "WAIT_OUT_ZLP"
    BY <1>1, <1>5 DEF InOutcome, Except
  <2>2. e.frcestall = d.frcestall /\ e.out = d.out
    BY <2>1 DEF Except, Fields
  <2>. QED  BY <1>5, <2>1, <2>2
            DEF ServiceInv, Stalls, Handshake, Receiving, Answering, Waiting, Refused, e
<1>6. CASE d.out = -1 /\ ~(d.size = d.cnt /\ (p = d.req.len \/ d.short))
  <2>. HIDE DEF e, n, p
  <2>1. /\ Except(d, e, {"inSendIe", "prev", "short", "shortSent", "complt", "tx", "cnt"})
        /\ e.inSendIe = TRUE /\ e.short = (n < Pkt) /\ e.tx = Packet(n, d.cnt)
    BY <1>1, <1>6 DEF InOutcome
  <2>2. e.frcestall = d.frcestall /\ e.state = "DATA_IN"
    BY <2>1 DEF Except, Fields, InReady
  <2>3. e.tx # NoPacket /\ (e.short => e.tx.n < Pkt)
    <3>1. e.tx # NoPacket /\ e.tx.n = n
      BY <1>3, <2>1, PacketRules
    <3>. QED  BY <2>1, <3>1
  <2>. QED  BY <2>1, <2>2, <2>3
            DEF ServiceInv, Stalls, Handshake, Receiving, Answering, Waiting, Refused, e
<1>. QED  BY <1>4, <1>5, <1>6

LEMMA InServes ==
    ASSUME NEW d, NEW h, TransferInv(d, "in", h), ServiceInv(d, "in", h)
    PROVE  ServiceInv(InSent(d), "none", h)
<1>0. /\ d \in Shape /\ d.state \in Sending /\ DOMAIN d = Fields /\ ~d.frcestall /\ Outcome(h)
  BY ShapeFields DEF TransferInv, Events, ServiceInv, Stalls
<1>1. CASE d.state = "WAIT_IN_ZLP"
  <2>. DEFINE x == [d EXCEPT !.inSendIe = FALSE]
  <2>1. x \in Shape /\ x.frcestall = d.frcestall
    BY <1>0 DEF Shape, Fields
  <2>2. InSent(d) = CtrlInit(EndOfRequest(x))
    BY <1>1 DEF InSent
  <2>. HIDE DEF x
  <2>3. \A e : e = CtrlInit(EndOfRequest(x)) => ServiceInv(e, "none", h)
    BY <1>0, <2>1, EndServes
  <2>. QED  BY <2>2, <2>3
<1>2. CASE d.state = "DATA_IN"
  <2>1. d.tx = NoPacket /\ ~d.nakInIe /\ ~d.nakOutIe /\ (Over(d, h) <=> d.out # -1)
    BY <1>2 DEF TransferInv, Events, Ended
  <2>2. OutAccount(d, "none", h)
    BY DEF TransferInv, OutAccount
  <2>3. InReady(d, h)
    BY <1>2, <2>1, <2>2 DEF InReady, TransferInv
  <2>4. CASE d.rxSetup
    <3>1. d.out # -1
      BY <2>1, <2>4 DEF Over
    <3>. DEFINE x == Chunk(d.size - d.cnt)
                p == IF d.size = d.cnt THEN d.prev + d.cnt ELSE d.prev
                e == InSent(d)
    <3>2. InOutcome(d, e, x, p)
      BY <1>0, <1>2, InSentFields
    <3>. HIDE DEF e, x, p
    <3>3. /\ Except(d, e, {"inSendIe", "prev", "state", "short", "shortSent", "nakIn", "nakInIe"})
          /\ e.state = "WAIT_OUT_ZLP"
      BY <3>1, <3>2 DEF InOutcome, Except
    <3>4. e.frcestall = d.frcestall /\ e.out = d.out
      BY <3>3 DEF Except, Fields
    <3>. QED  BY <1>0, <3>1, <3>3, <3>4
              DEF ServiceInv, Stalls, Handshake, Receiving, Answering, Waiting, Refused, e
  <2>5. CASE ~d.rxSetup
    <3>1. h.stage = "data" => ~d.short
      BY <1>2, <2>1, <2>5 DEF ServiceInv, Answering
    <3>. QED  BY <1>0, <2>3, <3>1, InSentServes
  <2>. QED  BY <1>0, <2>4, <2>5 DEF Shape
<1>. QED  BY <1>0, <1>1, <1>2 DEF Sending

LEMMA StoreServes ==
    ASSUME NEW d, NEW h, TransferInv(d, "out", h), ServiceInv(d, "out", h), d.state = "DATA_OUT"
    PROVE  ServiceInv(StoreData(d), "none", h)
<1>. DEFINE n == IF d.size < d.cnt + d.out THEN d.size - d.cnt ELSE d.out
            c == d.cnt + n
            none == -1
            x == [d EXCEPT !.cnt = c, !.out = none]
            z == [x EXCEPT !.size = x.cnt]
            w == [x EXCEPT !.nakIn = FALSE, !.nakInIe = TRUE]
<1>1. d \in Shape /\ DOMAIN d = Fields /\ h \in HostShape /\ Outcome(h)
  BY ShapeFields DEF TransferInv, ServiceInv
<1>2. ~Over(d, h) /\ ~d.frcestall /\ d.req = h.req /\ d.out # -1 /\ Whole(d.req)
  BY DEF TransferInv, Ended, Events, Current, Over, ServiceInv, Receiving
<1>3. /\ d.out \in 0 .. Pkt /\ d.size \in Int /\ d.cnt \in Int /\ 0 <= d.cnt /\ d.cnt <= d.size
      /\ d.size = d.req.len /\ d.req.len \in Int /\ d.prev = 0 /\ h.n \in Int
      /\ h.stage = "data" => h.n < h.req.len
  <2>1. d.req \in Requests /\ d.size = d.req.size /\ d.prev = 0
    BY DEF TransferInv, Bounded, Stages
  <2>. QED  BY <1>1, <1>2, <2>1, RequestRules, CtrlAssumption
            DEF TransferInv, Bounded, Stages, Whole, Len, HostShape
<1>4. n \in Int /\ c \in Int
  BY <1>3, CtrlAssumption
<1>5. StoreData(d) = CASE OutDone(x, n) -> SendZlpIn(z)
                       [] ~OutDone(x, n) /\ x.size = x.cnt -> StallData(x)
                       [] OTHER -> w
  BY DEF StoreData
<1>. HIDE DEF n, none
<1>6. x \in Shape /\ Except(d, x, {"cnt", "out"}) /\ x.cnt = c /\ x.out = -1
  <2>1. none \in Int /\ none = -1
    BY DEF none
  <2>. HIDE DEF c
  <2>2. x \in Shape
    BY <1>1, <1>4, <2>1 DEF Shape
  <2>3. Except(d, x, {"cnt", "out"}) /\ x.cnt = c /\ x.out = none
    BY <1>1 DEF Except, Fields
  <2>. QED  BY <2>1, <2>2, <2>3
<1>. HIDE DEF x
<1>7. /\ x.frcestall = d.frcestall /\ x.state = d.state /\ x.req = d.req /\ x.size = d.size
      /\ x.prev = d.prev /\ x.rxSetup = d.rxSetup
  BY <1>6 DEF Except, Fields
\* The payload takes wLength bytes: a packet is never cut, nor refused.
<1>8. OutDone(x, n) \/ c < d.req.len
  BY <1>3, <1>4, <1>6, <1>7 DEF OutDone
<1>9. CASE OutDone(x, n)
  <2>1. h.stage # "data"
    <3>. SUFFICES ASSUME h.stage = "data" PROVE FALSE
      OBVIOUS
    <3>1. ~h.cut /\ ~d.rxSetup
      BY <1>1, <1>2 DEF Outcome, Over, HostShape
    <3>2. h.n = d.cnt + d.out /\ (d.out # Pkt => h.n = h.req.len)
      BY <1>2, <3>1 DEF TransferInv, OutAccount
    <3>3. h.n < h.req.len
      BY <1>3
    <3>4. n = d.out /\ c = h.n
      BY <1>2, <1>3, <3>2, <3>3 DEF n
    <3>. QED  BY <1>2, <1>3, <1>4, <1>6, <1>7, <1>9, <3>2, <3>3, <3>4 DEF OutDone
  <2>2. z \in Shape /\ Except(x, z, {"size"})
    BY <1>6 DEF Shape, Except, Fields
  <2>. HIDE DEF z, c
  <2>3. z.frcestall = x.frcestall /\ z.out = x.out
    BY <2>2 DEF Except, Fields
  <2>4. \A e : e = SendZlpIn(z) => ServiceInv(e, "none", h)
    BY <1>1, <1>2, <1>6, <1>7, <2>1, <2>2, <2>3, ZlpServes
  <2>. QED  BY <1>5, <1>9, <2>4
<1>10. CASE ~OutDone(x, n)
  <2>1. c < d.req.len
    BY <1>8, <1>10
  <2>2. StoreData(d) = w
    BY <1>3, <1>4, <1>5, <1>6, <1>7, <1>10, <2>1
  <2>. HIDE DEF c
  <2>3. w \in Shape /\ Except(x, w, {"nakIn", "nakInIe"})
    BY <1>6 DEF Shape, Except, Fields
  <2>. HIDE DEF w
  <2>4. /\ w.frcestall = x.frcestall /\ w.state = x.state /\ w.req = x.req /\ w.cnt = x.cnt
    BY <2>3 DEF Except, Fields
  <2>5. ServiceInv(w, "none", h)
    BY <1>1, <1>2, <1>6, <1>7, <2>1, <2>4
       DEF ServiceInv, Stalls, Handshake, Receiving, Answering, Waiting, Refused
  <2>. QED  BY <2>2, <2>5
<1>. QED  BY <1>9, <1>10

LEMMA OutServes ==
    ASSUME NEW d, NEW h, TransferInv(d, "out", h), ServiceInv(d, "out", h)
    PROVE  ServiceInv(OutReceived(d), "none", h)
<1>0. d \in Shape /\ ~d.frcestall /\ Outcome(h) /\ d.out # -1
  BY DEF TransferInv, Events, ServiceInv, Stalls
<1>1. d.state \in {"DATA_OUT", "DATA_IN", "WAIT_OUT_ZLP"}
  BY <1>0 DEF TransferInv, Stages, Shape, States, ServiceInv, Handshake
<1>2. CASE d.state = "DATA_OUT"
  BY <1>2, StoreServes DEF OutReceived
<1>3. CASE d.state \in {"DATA_IN", "WAIT_OUT_ZLP"}
  <2>1. OutReceived(d) = CtrlInit(EndOfRequest(d))
    BY <1>3 DEF OutReceived
  <2>2. \A e : e = CtrlInit(EndOfRequest(d)) => ServiceInv(e, "none", h)
    BY <1>0, EndServes
  <2>. QED  BY <2>1, <2>2
<1>. QED  BY <1>1, <1>2, <1>3

\* A NAK that asks for nothing.
LEMMA NakServes ==
    ASSUME NEW d, NEW h, NEW i, i \in {"nakIn", "nakOut"}, ServiceInv(d, i, h),
           NEW e, Except(d, e, {"nakIn", "nakOut"}),
           e.nakIn => d.nakIn, e.nakOut => d.nakOut
    PROVE  ServiceInv(e, "none", h)
<1>1. /\ e.rxSetup = d.rxSetup /\ e.out = d.out /\ e.tx = d.tx /\ e.frcestall = d.frcestall
      /\ e.complt = d.complt /\ e.inSendIe = d.inSendIe /\ e.nakInIe = d.nakInIe
      /\ e.nakOutIe = d.nakOutIe /\ e.state = d.state /\ e.req = d.req
      /\ e.cnt = d.cnt /\ e.short = d.short
  BY DEF Except, Fields
<1>2. Stalls(e, "none")
  BY <1>1 DEF ServiceInv, Stalls
<1>3. Handshake(e, "none", h)
  BY <1>1 DEF ServiceInv, Handshake, Over
<1>4. Receiving(e) /\ Refused(e)
  BY <1>1 DEF ServiceInv, Receiving, Refused
<1>5. Answering(e, h)
  BY <1>1 DEF ServiceInv, Answering
<1>6. Waiting(e, "none", h)
  BY <1>1 DEF ServiceInv, Waiting, Over
<1>. QED  BY <1>2, <1>3, <1>4, <1>5, <1>6 DEF ServiceInv

LEMMA OverflowServes ==
    ASSUME NEW d \in Shape, NEW h, ServiceInv(d, "nakOut", h)
    PROVE  ServiceInv(Overflow([d EXCEPT !.nakOut = FALSE]), "none", h)
<1>. DEFINE x == [d EXCEPT !.nakOut = FALSE]
<1>1. DOMAIN d = Fields
  BY ShapeFields
<1>2. /\ Except(d, x, {"nakIn", "nakOut"}) /\ x.nakIn = d.nakIn /\ x.nakOut = FALSE
      /\ x.state = d.state
  BY <1>1 DEF Except, Fields
<1>3. Overflow(x) = x
  BY <1>2 DEF Overflow, ServiceInv, Handshake
<1>. HIDE DEF x
<1>4. (x.nakIn => d.nakIn) /\ (x.nakOut => d.nakOut)
  BY <1>2
<1>5. ServiceInv(x, "none", h)
  BY <1>2, <1>4, NakServes
<1>. QED  BY <1>3, <1>5 DEF x

LEMMA UnderflowServes ==
    ASSUME NEW d, NEW h, TransferInv(d, "nakIn", h), ServiceInv(d, "nakIn", h)
    PROVE  ServiceInv(Underflow([d EXCEPT !.nakIn = FALSE]), "none", h)
<1>. DEFINE x == [d EXCEPT !.nakIn = FALSE]
            y == [x EXCEPT !.frcestall = TRUE]
<1>1. d \in Shape /\ DOMAIN d = Fields /\ h \in HostShape /\ Outcome(h) /\ ~d.frcestall
  BY ShapeFields DEF TransferInv, ServiceInv, Stalls
<1>2. x \in Shape /\ Except(d, x, {"nakIn"}) /\ x.nakIn = FALSE
  BY <1>1 DEF Shape, Except, Fields
<1>3. Underflow(x) = CASE x.out = -1 /\ x.state = "DATA_OUT" -> SendZlpIn(x)
                       [] x.out = -1 /\ x.state = "WAIT_OUT_ZLP" -> y
                       [] OTHER -> x
  BY DEF Underflow
<1>. HIDE DEF x
<1>4. /\ x.out = d.out /\ x.state = d.state /\ x.nakOut = d.nakOut /\ x.frcestall = d.frcestall
      /\ x.rxSetup = d.rxSetup /\ x.req = d.req /\ x.nakOutIe = d.nakOutIe /\ x.nakInIe = d.nakInIe
  BY <1>2 DEF Except, Fields
<1>5. CASE d.out = -1 /\ d.state = "DATA_OUT"
  <2>1. ~d.rxSetup /\ d.req = h.req /\ Whole(d.req)
    BY <1>5 DEF TransferInv, Ended, Stages, Current, Over, ServiceInv, Receiving
  <2>2. h.stage # "data"
    BY <1>1, <1>5, <2>1 DEF TransferInv, OutAccount, Outcome, HostShape
  <2>3. \A e : e = SendZlpIn(x) => ServiceInv(e, "none", h)
    BY <1>1, <1>2, <1>4, <1>5, <2>2, ZlpServes
  <2>. QED  BY <1>3, <1>4, <1>5, <2>3 DEF x
<1>6. CASE d.out = -1 /\ d.state = "WAIT_OUT_ZLP"
  <2>1. Except(x, y, {"frcestall"}) /\ y.frcestall = TRUE
    BY <1>2 DEF Except, Fields
  <2>2. Underflow(x) = y
    BY <1>3, <1>4, <1>6
  <2>. HIDE DEF y
  <2>3. /\ y.out = d.out /\ y.state = d.state /\ y.rxSetup = d.rxSetup /\ y.req = d.req
        /\ y.nakOutIe = d.nakOutIe /\ y.nakInIe = d.nakInIe
    BY <1>4, <2>1 DEF Except, Fields
  <2>4. ~Over(d, h) /\ ~d.rxSetup /\ ~Regular(d.req)
    BY <1>1, <1>6 DEF ServiceInv, Waiting, Over
  <2>5. ~d.nakInIe /\ ~d.nakOutIe
    BY DEF TransferInv, Events
  <2>6. Stalls(y, "none")
    BY <1>6, <2>3, <2>4, <2>5 DEF Stalls, NakDue
  <2>7. Waiting(y, "none", h)
    BY <2>3, <2>4 DEF Waiting, Over
  <2>8. ServiceInv(y, "none", h)
    BY <1>1, <1>6, <2>3, <2>6, <2>7 DEF ServiceInv, Handshake, Receiving, Answering, Refused
  <2>. QED  BY <2>2, <2>8 DEF x
<1>7. CASE ~(d.out = -1 /\ d.state \in {"DATA_OUT", "WAIT_OUT_ZLP"})
  <2>1. (x.nakIn => d.nakIn) /\ (x.nakOut => d.nakOut) /\ Except(d, x, {"nakIn", "nakOut"})
    BY <1>2, <1>4 DEF Except
  <2>2. ServiceInv(x, "none", h)
    BY <2>1, NakServes
  <2>. QED  BY <1>3, <1>4, <1>7, <2>2 DEF x
<1>. QED  BY <1>5, <1>6, <1>7

LEMMA SetupServes ==
    ASSUME NEW d, NEW h, TransferInv(d, "setup", h), ServiceInv(d, "setup", h),
           "mismatch" \notin Faults
    PROVE  ServiceInv(SetupReceived(d), "none", h)
<1>1. PICK e : Noted(d, h, e)
  BY SetupNoted
<1>. DEFINE f == SetupReceived(d)
<1>2. SetupOutcome(h.req, e, f)
  BY <1>1 DEF Noted
<1>3. ~d.frcestall /\ ~e.frcestall /\ Outcome(h)
  BY <1>1 DEF TransferInv, Events, ServiceInv, Stalls, Noted
<1>4. CASE ~h.req.ok /\ f = StallData(e)
  <2>1. Except(e, f, {"state", "frcestall"}) /\ f.state = "STALL_REQ"
    BY <1>1, <1>4, StallDataFields DEF Noted
  <2>. HIDE DEF f
  <2>2. f.rxSetup = FALSE /\ f.req = h.req /\ f.out = -1 /\ ~f.nakInIe /\ ~f.nakOutIe
    BY <1>1, <2>1 DEF Except, Fields, Noted
  <2>. QED  BY <1>3, <1>4, <2>1, <2>2 DEF ServiceInv, Stalls, NakDue, Regular, Handshake,
              Receiving, Answering, Waiting, Refused, f
<1>5. CASE /\ h.req.ok /\ h.req.dir = "in"
           /\ \E g \in Shape : /\ Except(e, g, {"cnt", "prev", "state"}) /\ f = InSent(g)
                               /\ g.cnt = 0 /\ g.prev = 0 /\ g.state = "DATA_IN"
  <2>1. PICK g \in Shape : /\ Except(e, g, {"cnt", "prev", "state"}) /\ f = InSent(g)
                           /\ g.cnt = 0 /\ g.prev = 0 /\ g.state = "DATA_IN"
    BY <1>5
  <2>2. /\ InReady(g, h) /\ g.size = h.req.size /\ g.req = h.req /\ g.frcestall = d.frcestall
        /\ 0 <= h.req.size
    BY <1>1, <1>5, <2>1, SetupReady
  <2>3. Regular(g.req) => g.size # g.cnt
    BY <1>5, <2>1, <2>2 DEF Regular
  <2>. QED  BY <1>3, <2>1, <2>2, <2>3, InSentServes
<1>6. CASE h.req.len = 0 /\ f = SendZlpIn(e)
  <2>1. h.stage # "data"
    BY <1>1, <1>6 DEF Bounded, Noted
  <2>2. \A z : z = SendZlpIn(e) => ServiceInv(z, "none", h)
    BY <1>1, <1>3, <2>1, ZlpServes DEF Noted
  <2>. QED  BY <1>6, <2>2
<1>7. CASE /\ h.req.ok /\ h.req.dir = "out" /\ h.req.len # 0
           /\ Except(e, f, {"cnt", "prev", "state", "nakIn", "nakInIe"})
           /\ f.cnt = 0 /\ f.state = "DATA_OUT"
  <2>. HIDE DEF f
  <2>1. f.req = h.req /\ ~f.frcestall
    BY <1>1, <1>3, <1>7 DEF Except, Fields, Noted
  <2>2. h.req \in Requests /\ 0 < h.req.len
    BY <1>1, <1>7, RequestRules DEF Noted, Bounded
  <2>3. Whole(h.req)
    BY <1>7, <2>2, MatchedRequests
  <2>. QED  BY <1>3, <1>7, <2>1, <2>2, <2>3
            DEF ServiceInv, Stalls, Handshake, Receiving, Answering, Waiting, Refused, f
<1>. HIDE DEF f
<1>. QED  BY <1>2, <1>4, <1>5, <1>6, <1>7 DEF SetupOutcome, f

CtrlServiceInv == ServiceInv(ep0, isr, host)

LEMMA EnterServes ==
    ASSUME CtrlTransferInv, CtrlServiceInv, IsrEnter
    PROVE  ServiceInv(ep0', isr', host')
<1>1. /\ TransferInv(ep0, "none", host) /\ ServiceInv(ep0, "none", host) /\ host' = host
      /\ ep0 \in Shape /\ DOMAIN ep0 = Fields
  BY ShapeFields DEF CtrlTransferInv, CtrlServiceInv, TransferInv, IsrEnter
<1>2. /\ Except(ep0, ep0', {"nakInIe", "nakOutIe"})
      /\ ep0'.nakInIe = FALSE /\ ep0'.nakOutIe = FALSE
  BY <1>1 DEF IsrEnter, Except, Fields
<1>3. /\ ep0'.rxSetup = ep0.rxSetup /\ ep0'.out = ep0.out /\ ep0'.cnt = ep0.cnt
      /\ ep0'.tx = ep0.tx /\ ep0'.complt = ep0.complt /\ ep0'.inSendIe = ep0.inSendIe
      /\ ep0'.frcestall = ep0.frcestall /\ ep0'.state = ep0.state /\ ep0'.req = ep0.req
      /\ ep0'.short = ep0.short /\ ep0'.nakIn = ep0.nakIn /\ ep0'.nakOut = ep0.nakOut
  BY <1>2 DEF Except, Fields
<1>4. /\ isr' = "nakIn" => ep0.nakIn /\ ep0.nakInIe /\ ~ep0.rxSetup
      /\ isr' = "nakOut" => ep0.nakOut /\ ~ep0.rxSetup
      /\ ep0.rxSetup \/ InDue(ep0) \/ ep0.out # -1 \/ NakDue(ep0)
  BY <1>1 DEF IsrEnter, Pending, InEvent, OutEvent, InDue, NakDue
<1>5. ~ep0.frcestall
  BY <1>1, <1>4 DEF TransferInv, Events, ServiceInv, Stalls
<1>6. Stalls(ep0', isr')
  BY <1>3, <1>5 DEF Stalls
<1>7. Handshake(ep0', isr', host)
  BY <1>1, <1>3, <1>4 DEF ServiceInv, Handshake, Over
<1>8. Receiving(ep0') /\ Refused(ep0') /\ Answering(ep0', host) /\ Outcome(host)
  BY <1>1, <1>3 DEF ServiceInv, Receiving, Refused, Answering
<1>9. Waiting(ep0', isr', host)
  BY <1>1, <1>2, <1>3, <1>4 DEF ServiceInv, Waiting, Over
<1>. QED  BY <1>1, <1>6, <1>7, <1>8, <1>9 DEF ServiceInv

LEMMA SetupPacketServes ==
    ASSUME CtrlTransferInv, CtrlServiceInv, NEW r \in Requests, HostSetup(r)
    PROVE  ServiceInv(ep0', isr', host')
<1>1. /\ ServiceInv(ep0, isr, host) /\ isr' = isr /\ host.stage = "idle"
      /\ ep0 \in Shape /\ DOMAIN ep0 = Fields
  BY ShapeFields DEF CtrlTransferInv, CtrlServiceInv, TransferInv, HostSetup
<1>2. /\ Except(ep0, ep0', {"rxSetup", "fifo", "frcestall", "tx"})
      /\ ep0'.rxSetup = TRUE /\ ep0'.frcestall = FALSE
  <2>. DEFINE p == NoPacket
  <2>1. ep0' = [ep0 EXCEPT !.rxSetup = TRUE, !.fifo = r, !.frcestall = FALSE, !.tx = p]
    BY DEF HostSetup
  <2>. HIDE DEF p
  <2>. QED  BY <1>1, <2>1 DEF Except, Fields
<1>3. ep0'.out = ep0.out /\ ep0'.state = ep0.state /\ ep0'.req = ep0.req
  BY <1>2 DEF Except, Fields
<1>4. ~host'.cut /\ host'.result = "none"
  BY DEF HostSetup
<1>5. Handshake(ep0', isr, host')
  BY <1>1, <1>2, <1>3 DEF ServiceInv, Handshake, Over
<1>6. Waiting(ep0', isr, host')
  BY <1>1, <1>2, <1>3 DEF ServiceInv, Waiting, Over
<1>7. Stalls(ep0', isr) /\ Receiving(ep0') /\ Refused(ep0') /\ Answering(ep0', host')
  BY <1>1, <1>2, <1>3 DEF ServiceInv, Stalls, Receiving, Refused, Answering
<1>8. Outcome(host')
  BY <1>4 DEF Outcome
<1>. QED  BY <1>1, <1>5, <1>6, <1>7, <1>8 DEF ServiceInv

LEMMA GiveUpServes ==
    ASSUME CtrlServiceInv, NEW res \in {"stall", "overrun", "timeout"}, Ends(res),
           ep0' = ep0, isr' = isr,
           res = "stall" => ~Regular(host.req),
           ep0.state = "WAIT_OUT_ZLP" => isr # "nakIn" /\ ~(ep0.nakIn /\ ep0.nakInIe)
    PROVE  ServiceInv(ep0', isr', host')
<1>1. Handshake(ep0, isr, host')
  BY DEF CtrlServiceInv, ServiceInv, Handshake, Over, Ends
<1>2. Waiting(ep0, isr, host')
  BY DEF CtrlServiceInv, ServiceInv, Waiting, Over, Ends
<1>3. Answering(ep0, host') /\ Outcome(host')
  BY DEF CtrlServiceInv, ServiceInv, Answering, Outcome, Ends
<1>. QED  BY <1>1, <1>2, <1>3 DEF CtrlServiceInv, ServiceInv

LEMMA StalledServes ==
    ASSUME CtrlTransferInv, CtrlServiceInv, HostStalled
    PROVE  ServiceInv(ep0', isr', host')
<1>1. /\ host \in HostShape /\ host.stage # "idle" /\ ep0.frcestall /\ ~ep0.rxSetup
      /\ Finish("stall") /\ ep0' = ep0 /\ isr' = isr /\ ep0.req = host.req
  BY DEF CtrlTransferInv, TransferInv, Current, HostStalled
<1>2. Ends("stall")
  BY <1>1, FinishFields
<1>3. isr # "nakIn" /\ ~(ep0.nakIn /\ ep0.nakInIe) /\ ~Regular(host.req)
  BY <1>1 DEF CtrlServiceInv, ServiceInv, Stalls, NakDue
<1>. QED  BY <1>1, <1>2, <1>3, GiveUpServes

LEMMA TimeoutServes ==
    ASSUME CtrlTransferInv, CtrlServiceInv, HostGivesUp
    PROVE  ServiceInv(ep0', isr', host')
<1>1. /\ host \in HostShape /\ isr = "none" /\ ~Pending
      /\ Finish("timeout") /\ ep0' = ep0 /\ isr' = isr
  BY DEF CtrlTransferInv, TransferInv, HostGivesUp
<1>2. Ends("timeout")
  BY <1>1, FinishFields
<1>3. isr # "nakIn" /\ ~(ep0.nakIn /\ ep0.nakInIe)
  BY <1>1 DEF Pending
<1>. QED  BY <1>1, <1>2, <1>3, GiveUpServes

LEMMA CutServes ==
    ASSUME CtrlTransferInv, CtrlServiceInv, HostCut
    PROVE  ServiceInv(ep0', isr', host')
<1>1. /\ ServiceInv(ep0, isr, host) /\ ep0' = ep0 /\ isr' = isr /\ host.stage = "data"
      /\ host' = [host EXCEPT !.stage = "status", !.cut = TRUE]
      /\ host \in HostShape
  BY DEF CtrlTransferInv, TransferInv, CtrlServiceInv, HostCut
<1>2. /\ host'.stage = "status" /\ host'.req = host.req /\ host'.result = host.result
  BY <1>1 DEF HostShape
<1>3. Handshake(ep0, isr, host') /\ Waiting(ep0, isr, host')
  BY <1>1, <1>2 DEF ServiceInv, Handshake, Waiting, Over
<1>4. Answering(ep0, host') /\ Outcome(host')
  BY <1>1, <1>2 DEF ServiceInv, Answering, Outcome
<1>. QED  BY <1>1, <1>3, <1>4 DEF ServiceInv

LEMMA ResetServes ==
    ASSUME CtrlTransferInv, CtrlServiceInv, BusReset
    PROVE  ServiceInv(ep0', isr', host')
<1>. DEFINE p == NoPacket
            x == [ep0 EXCEPT !.rxSetup = FALSE, !.tx = p, !.complt = FALSE,
                   !.nakIn = FALSE, !.nakOut = FALSE, !.frcestall = FALSE,
                   !.nakInIe = FALSE, !.nakOutIe = FALSE]
<1>1. /\ isr' = "none" /\ ep0' = CtrlInit(x) /\ DOMAIN ep0 = Fields /\ Finish("reset")
      /\ host \in HostShape /\ Outcome(host)
  BY ShapeFields DEF CtrlTransferInv, CtrlServiceInv, TransferInv, ServiceInv, BusReset
<1>2. Ends("reset")
  BY <1>1, FinishFields
<1>. HIDE DEF p
<1>3. DOMAIN x = Fields /\ x.frcestall = FALSE
  BY <1>1 DEF Fields
<1>. HIDE DEF x
<1>4. /\ Except(x, ep0', {"inSendIe", "out", "cb", "size", "state", "ledger"})
      /\ ep0'.state = "SETUP"
  BY <1>1, <1>3, CtrlInitFields
<1>5. ep0'.frcestall = FALSE
  BY <1>3, <1>4 DEF Except, Fields
<1>6. Outcome(host')
  BY <1>1, <1>2 DEF Outcome, Ends
<1>. QED  BY <1>1, <1>4, <1>5, <1>6, IdleServes

LEMMA InTokenServes ==
    ASSUME CtrlTransferInv, CtrlServiceInv, HostIn
    PROVE  ServiceInv(ep0', isr', host')
<1>1. /\ TransferInv(ep0, isr, host) /\ ServiceInv(ep0, isr, host)
      /\ isr' = isr /\ host.stage # "idle" /\ ~ep0.frcestall
      /\ ep0 \in Shape /\ DOMAIN ep0 = Fields /\ host \in HostShape /\ Reads
  BY ShapeFields DEF CtrlTransferInv, CtrlServiceInv, TransferInv, HostIn
<1>2. /\ host.stage \in {"data", "status"}
      /\ host.stage = "data" => host.req.dir = "in"
      /\ host.stage = "status" => host.req.dir = "out" \/ host.req.len = 0
  BY <1>1 DEF Reads, HostShape
<1>3. ep0.tx # NoPacket => ~ep0.rxSetup /\ ep0.req = host.req
  BY <1>1 DEF TransferInv, Current
<1>4. host.stage = "data" /\ ep0.tx # NoPacket => ep0.state = "DATA_IN"
  BY <1>1, <1>2, <1>3 DEF TransferInv, InAccount, Over
<1>5. CASE /\ ep0.tx = NoPacket /\ ep0' = [ep0 EXCEPT !.nakIn = TRUE] /\ host' = host
  <2>1. Except(ep0, ep0', {"nakIn"})
    BY <1>1, <1>5 DEF Except, Fields
  <2>2. /\ ep0'.rxSetup = ep0.rxSetup /\ ep0'.out = ep0.out /\ ep0'.cnt = ep0.cnt
        /\ ep0'.tx = ep0.tx /\ ep0'.complt = ep0.complt /\ ep0'.inSendIe = ep0.inSendIe
        /\ ep0'.frcestall = ep0.frcestall /\ ep0'.state = ep0.state /\ ep0'.req = ep0.req
        /\ ep0'.short = ep0.short /\ ep0'.nakOut = ep0.nakOut
    BY <2>1 DEF Except, Fields
  <2>3. Waiting(ep0', isr, host)
    <3>1. ep0.state = "WAIT_OUT_ZLP" /\ ep0.out = -1 /\ ~ep0.rxSetup => ~Regular(ep0.req)
      <4>. SUFFICES ASSUME ep0.state = "WAIT_OUT_ZLP", ep0.out = -1, ~ep0.rxSetup, Regular(ep0.req)
                    PROVE  FALSE
        OBVIOUS
      <4>1. host.stage = "status"
        BY <1>1, <1>2 DEF ServiceInv, Waiting
      <4>2. ep0.req = host.req /\ ep0.req.dir = "in" /\ ep0.req.len > 0
        BY <1>1 DEF TransferInv, Current, Stages
      <4>. QED  BY <1>2, <4>1, <4>2
    <3>. QED  BY <1>1, <2>2, <3>1 DEF ServiceInv, Waiting, Over
  <2>4. Handshake(ep0', isr, host)
    BY <1>1, <2>2 DEF ServiceInv, Handshake, Over
  <2>5. Stalls(ep0', isr) /\ Receiving(ep0') /\ Refused(ep0') /\ Answering(ep0', host)
    BY <1>1, <2>2 DEF ServiceInv, Stalls, Receiving, Refused, Answering
  <2>. QED  BY <1>1, <1>5, <2>3, <2>4, <2>5 DEF ServiceInv
<1>. DEFINE p == NoPacket
            taken == [ep0 EXCEPT !.tx = p, !.complt = TRUE]
<1>6. /\ Except(ep0, taken, {"tx", "complt"}) /\ taken.tx = NoPacket /\ taken.complt = TRUE
  <2>. HIDE DEF p
  <2>1. Except(ep0, taken, {"tx", "complt"}) /\ taken.tx = p /\ taken.complt = TRUE
    BY <1>1 DEF Except, Fields
  <2>. QED  BY <2>1 DEF p
<1>. HIDE DEF taken
<1>7. CASE /\ host.stage = "data" /\ ep0.tx # NoPacket /\ ep0' = taken
           /\ host' = [host EXCEPT !.n = @ + ep0.tx.n,
                !.stage = IF ep0.tx.n < Pkt \/ host.n + ep0.tx.n = host.req.len
                            THEN "status" ELSE "data"]
  <2>1. /\ host'.stage = "data" => ~(ep0.tx.n < Pkt)
        /\ host'.req = host.req /\ host'.cut = host.cut /\ host'.result = host.result
    BY <1>1, <1>7 DEF HostShape
  <2>2. /\ ep0'.inSendIe = ep0.inSendIe /\ ep0'.state = "DATA_IN" /\ ep0'.short = ep0.short
        /\ ep0'.frcestall = ep0.frcestall /\ ep0'.tx = NoPacket /\ ep0'.complt = TRUE
    BY <1>4, <1>6, <1>7 DEF Except, Fields
  <2>3. Answering(ep0', host')
    BY <1>1, <1>3, <1>4, <1>7, <2>1, <2>2 DEF ServiceInv, Answering
  <2>4. Outcome(host')
    BY <1>1, <1>7, <2>1 DEF ServiceInv, Outcome
  <2>. QED  BY <1>1, <2>2, <2>3, <2>4 DEF ServiceInv, Stalls, Handshake, Receiving, Waiting, Refused
<1>8. CASE /\ host.stage = "data" /\ host.n + ep0.tx.n > host.req.len
           /\ Finish("overrun") /\ ep0' = ep0
  <2>1. Ends("overrun")
    BY <1>1, <1>8, FinishFields
  <2>2. ep0.tx # NoPacket
    <3>1. host.n \in Int /\ host.req.len \in Int /\ host.n < host.req.len
      BY <1>1, <1>8, RequestRules DEF TransferInv, Bounded, HostShape
    <3>. QED  BY <1>8, <3>1 DEF NoPacket
  <2>. QED  BY <1>1, <1>4, <1>8, <2>1, <2>2, GiveUpServes
<1>9. CASE /\ host.stage = "status" /\ ep0.tx # NoPacket /\ ep0' = Complete(taken)
           /\ Finish(IF ep0.tx.n = 0 THEN "ok" ELSE "error")
  <2>1. PICK res \in {"ok", "error"} : Ends(res)
    <3>. DEFINE res == IF ep0.tx.n = 0 THEN "ok" ELSE "error"
    <3>1. Finish(res) /\ res \in {"ok", "error"}
      BY <1>9
    <3>. HIDE DEF res
    <3>. QED  BY <1>1, <3>1, FinishFields
  <2>2. Except(taken, ep0', {"ledger"})
    <3>1. DOMAIN taken = Fields
      BY <1>6 DEF Except
    <3>. DEFINE l == IF taken.ledger = "open" THEN "done" ELSE taken.ledger
    <3>2. ep0' = [taken EXCEPT !.ledger = l]
      BY <1>9 DEF Complete
    <3>. HIDE DEF l
    <3>. QED  BY <3>1, <3>2 DEF Except, Fields
  <2>3. /\ ep0'.rxSetup = ep0.rxSetup /\ ep0'.out = ep0.out /\ ep0'.nakOut = ep0.nakOut
        /\ ep0'.frcestall = ep0.frcestall /\ ep0'.state = ep0.state /\ ep0'.req = ep0.req
    BY <1>6, <2>2 DEF Except, Fields
  <2>4. ep0.state \notin {"DATA_IN", "DATA_OUT", "WAIT_OUT_ZLP"}
    BY <1>1, <1>2, <1>3, <1>9 DEF TransferInv, Stages
  <2>5. Handshake(ep0', isr, host')
    BY <1>1, <2>1, <2>3 DEF ServiceInv, Handshake, Over, Ends
  <2>6. Stalls(ep0', isr) /\ Receiving(ep0') /\ Refused(ep0') /\ Answering(ep0', host')
        /\ Waiting(ep0', isr, host')
    BY <1>1, <2>3, <2>4 DEF ServiceInv, Stalls, Receiving, Refused, Answering, Waiting
  <2>7. Outcome(host')
    BY <2>1 DEF Outcome, Ends
  <2>. QED  BY <1>1, <2>5, <2>6, <2>7 DEF ServiceInv
<1>. QED  BY <1>5, <1>7, <1>8, <1>9 DEF HostIn, taken

LEMMA OutPacketServes ==
    ASSUME CtrlTransferInv, CtrlServiceInv, HostOut
    PROVE  ServiceInv(ep0', isr', host')
<1>1. /\ TransferInv(ep0, isr, host) /\ ServiceInv(ep0, isr, host)
      /\ isr' = isr /\ host.stage # "idle" /\ ~ep0.frcestall
      /\ ep0 \in Shape /\ DOMAIN ep0 = Fields /\ host \in HostShape /\ ~Reads
  BY ShapeFields DEF CtrlTransferInv, CtrlServiceInv, TransferInv, HostOut
<1>2. /\ host.stage = "data" => host.req.dir = "out"
      /\ host.stage = "status" => host.req.dir = "in"
  BY <1>1 DEF Reads, HostShape, AnyRequest
<1>3. CASE /\ ep0.out # -1 \/ ep0.rxSetup
           /\ ep0' = [ep0 EXCEPT !.nakOut = TRUE] /\ host' = host
  <2>1. Except(ep0, ep0', {"nakOut"})
    BY <1>1, <1>3 DEF Except, Fields
  <2>2. /\ ep0'.rxSetup = ep0.rxSetup /\ ep0'.out = ep0.out /\ ep0'.cnt = ep0.cnt
        /\ ep0'.tx = ep0.tx /\ ep0'.complt = ep0.complt /\ ep0'.inSendIe = ep0.inSendIe
        /\ ep0'.frcestall = ep0.frcestall /\ ep0'.state = ep0.state /\ ep0'.req = ep0.req
        /\ ep0'.short = ep0.short /\ ep0'.nakIn = ep0.nakIn /\ ep0'.nakInIe = ep0.nakInIe
    BY <2>1 DEF Except, Fields
  <2>3. Waiting(ep0', isr, host) /\ Handshake(ep0', isr, host)
    BY <1>1, <1>3, <2>2 DEF ServiceInv, Waiting, Handshake, Over
  <2>4. Stalls(ep0', isr) /\ Receiving(ep0') /\ Refused(ep0') /\ Answering(ep0', host)
    BY <1>1, <2>2 DEF ServiceInv, Stalls, Receiving, Refused, Answering
  <2>. QED  BY <1>1, <1>3, <2>3, <2>4 DEF ServiceInv
<1>. DEFINE n == Chunk(host.req.len - host.n)
            data == [ep0 EXCEPT !.out = n]
            zero == 0
            zlp == [ep0 EXCEPT !.out = zero]
<1>4. CASE /\ host.stage = "data" /\ ep0.out = -1 /\ ~ep0.rxSetup /\ ep0' = data
           /\ host' = [host EXCEPT !.n = @ + n,
                     !.stage = IF host.n + n = host.req.len THEN "status" ELSE "data"]
  <2>1. n # -1
    <3>1. host.req.len - host.n \in Int /\ 0 <= host.req.len - host.n
      BY <1>1, RequestRules DEF TransferInv, Bounded, HostShape
    <3>. QED  BY <3>1, ChunkRules
  <2>2. host'.req = host.req /\ host'.cut = host.cut /\ host'.result = host.result
    BY <1>1, <1>4 DEF HostShape
  <2>. HIDE DEF n
  <2>3. Except(ep0, ep0', {"out"}) /\ ep0'.out = n
    BY <1>1, <1>4 DEF Except, Fields
  <2>4. ep0'.frcestall = ep0.frcestall /\ ep0'.state = ep0.state /\ ep0'.req = ep0.req
    BY <2>3 DEF Except, Fields
  <2>5. ep0.state = "DATA_OUT"
    <3>1. ep0.req = host.req /\ ~Over(ep0, host)
      BY <1>1, <1>4 DEF TransferInv, Current, Over
    <3>. QED  BY <1>1, <1>2, <1>4, <3>1 DEF TransferInv, Stages, Shape, States, ServiceInv, Handshake
  <2>6. Outcome(host')
    BY <1>1, <1>4, <2>2 DEF ServiceInv, Outcome
  <2>. QED  BY <1>1, <2>1, <2>3, <2>4, <2>5, <2>6
            DEF ServiceInv, Stalls, Handshake, Receiving, Answering, Waiting, Refused
<1>5. CASE /\ host.stage = "status" /\ ep0.out = -1 /\ ~ep0.rxSetup
           /\ ep0' = Complete(zlp) /\ Finish("ok")
  <2>1. Ends("ok")
    BY <1>1, <1>5, FinishFields
  <2>2. Except(ep0, zlp, {"out"}) /\ zlp.out = 0
    <3>1. zero = 0
      OBVIOUS
    <3>. HIDE DEF zero
    <3>. QED  BY <1>1, <3>1 DEF Except, Fields
  <2>. HIDE DEF zlp
  <2>3. Except(zlp, ep0', {"ledger"})
    <3>1. DOMAIN zlp = Fields
      BY <2>2 DEF Except
    <3>. DEFINE l == IF zlp.ledger = "open" THEN "done" ELSE zlp.ledger
    <3>2. ep0' = [zlp EXCEPT !.ledger = l]
      BY <1>5 DEF Complete
    <3>. HIDE DEF l
    <3>. QED  BY <3>1, <3>2 DEF Except, Fields
  <2>4. /\ ep0'.out = 0 /\ ep0'.rxSetup = ep0.rxSetup
        /\ ep0'.tx = ep0.tx /\ ep0'.complt = ep0.complt /\ ep0'.inSendIe = ep0.inSendIe
        /\ ep0'.frcestall = ep0.frcestall /\ ep0'.state = ep0.state /\ ep0'.req = ep0.req
        /\ ep0'.short = ep0.short
    BY <2>2, <2>3 DEF Except, Fields
  <2>5. ep0.state \in {"DATA_IN", "WAIT_OUT_ZLP"}
    <3>1. ep0.req = host.req /\ ~Over(ep0, host)
      BY <1>1, <1>5 DEF TransferInv, Current, Over
    <3>. QED  BY <1>1, <1>2, <1>5, <3>1 DEF TransferInv, Stages, Shape, States
  <2>6. Answering(ep0', host') /\ Outcome(host')
    BY <1>1, <2>1, <2>4 DEF ServiceInv, Answering, Outcome, Ends
  <2>. QED  BY <1>1, <2>4, <2>5, <2>6
            DEF ServiceInv, Stalls, Handshake, Receiving, Waiting, Refused
<1>. QED  BY <1>3, <1>4, <1>5 DEF HostOut, data, n, zlp

LEMMA HandleServes ==
    ASSUME CtrlTransferInv, CtrlServiceInv, IsrHandle, "mismatch" \notin Faults
    PROVE  ServiceInv(ep0', isr', host')
<1>. DEFINE o == [ep0 EXCEPT !.nakOut = FALSE]
            i == [ep0 EXCEPT !.nakIn = FALSE]
<1>1. /\ isr' = "none" /\ host' = host
      /\ \/ isr = "setup" /\ ep0' = SetupReceived(ep0)
         \/ isr = "in" /\ ep0' = InSent(ep0)
         \/ isr = "out" /\ ep0' = OutReceived(ep0)
         \/ isr = "nakOut" /\ ep0' = Overflow(o)
         \/ isr = "nakIn" /\ ep0' = Underflow(i)
  BY Zenon DEF IsrHandle
<1>2. isr = "setup" => ServiceInv(SetupReceived(ep0), "none", host)
  BY SetupServes DEF CtrlTransferInv, CtrlServiceInv
<1>3. isr = "in" => ServiceInv(InSent(ep0), "none", host)
  BY InServes DEF CtrlTransferInv, CtrlServiceInv
<1>4. isr = "out" => ServiceInv(OutReceived(ep0), "none", host)
  BY OutServes DEF CtrlTransferInv, CtrlServiceInv
<1>5. isr = "nakOut" => ServiceInv(Overflow(o), "none", host)
  BY OverflowServes DEF CtrlTransferInv, CtrlServiceInv, TransferInv
<1>6. isr = "nakIn" => ServiceInv(Underflow(i), "none", host)
  BY UnderflowServes DEF CtrlTransferInv, CtrlServiceInv
<1>. HIDE DEF o, i
<1>. QED  BY <1>1, <1>2, <1>3, <1>4, <1>5, <1>6

LEMMA ServiceStep ==
    ASSUME "mismatch" \notin Faults
    PROVE  CtrlTransferInv /\ CtrlServiceInv /\ [Next]_vars => CtrlServiceInv'
<1>. SUFFICES ASSUME CtrlTransferInv, CtrlServiceInv, [Next]_vars
              PROVE  ServiceInv(ep0', isr', host')
  BY DEF CtrlServiceInv
<1>1. CASE IsrEnter
  BY <1>1, EnterServes
<1>2. CASE IsrHandle
  BY <1>2, HandleServes
<1>3. CASE HostIn
  BY <1>3, InTokenServes
<1>4. CASE HostOut
  BY <1>4, OutPacketServes
<1>5. CASE HostStalled
  BY <1>5, StalledServes
<1>6. CASE \E r \in Requests : HostSetup(r)
  BY <1>6, SetupPacketServes
<1>7. CASE HostCut
  BY <1>7, CutServes
<1>8. CASE HostGivesUp
  BY <1>8, TimeoutServes
<1>9. CASE BusReset
  BY <1>9, ResetServes
<1>10. CASE UNCHANGED vars
  BY <1>10 DEF vars, CtrlServiceInv
<1>. QED  BY <1>1, <1>2, <1>3, <1>4, <1>5, <1>6, <1>7, <1>8, <1>9, <1>10
          DEF Next, Driver, HostToken

LEMMA ServiceAlways ==
    ASSUME "mismatch" \notin Faults
    PROVE  Spec => []CtrlServiceInv
<1>1. Init => CtrlServiceInv
  <2>1. Init => ep0.state = "SETUP" /\ ~ep0.frcestall /\ isr = "none" /\ Outcome(host)
    BY DEF Init, Outcome
  <2>. QED  BY <2>1, IdleServes DEF CtrlServiceInv
<1>2. FaithfulInv => CtrlTransferInv
  BY DEF FaithfulInv
<1>. QED  BY <1>1, <1>2, FaithfulAlways, ServiceStep, PTL DEF Spec

\* A host that knows the requests of the firmware never sees one of them
\* stalled, whatever it cut short, abandoned or reset before: no event of an
\* earlier request is taken for an error of the current one
\* (udd_ctrl_overflow, udd_ctrl_underflow, udd_ctrl_out_received).
THEOREM RegularRequestsAreServed ==
    ASSUME "mismatch" \notin Faults
    PROVE  Spec => []RegularServed
<1>1. CtrlServiceInv => RegularServed
  BY DEF CtrlServiceInv, ServiceInv, Outcome, RegularServed
<1>. QED  BY <1>1, ServiceAlways, PTL

(***************************************************************************)
(* The callback of a request, when the host does no more than read less    *)
(* than it asked for.                                                      *)
(***************************************************************************)
Civil == Faults \subseteq {"cut_in"}

\* The callback that the driver keeps is the one of its request, and it is due
\* when the status stage is over for the host.
LedgerInv(d, h) ==
    /\ d.cb = (d.state # "SETUP" /\ d.req.cb)
    /\ d.ledger = IF ~d.cb THEN "clear" ELSE IF Over(d, h) THEN "done" ELSE "open"
    /\ h.cut => h.req.dir = "in"

\* e differs from d in nothing that the account of the callback depends on.
Alike(d, e) ==
    /\ e.cb = d.cb /\ e.ledger = d.ledger /\ e.req = d.req /\ e.rxSetup = d.rxSetup
    /\ (e.state = "SETUP") <=> (d.state = "SETUP")

LEMMA AlikeSettles ==
    ASSUME NEW d, NEW e, NEW h, Alike(d, e), LedgerInv(d, h)
    PROVE  LedgerInv(e, h)
  BY DEF Alike, LedgerInv, Over

\* udd_ctrl_endofrequest and udd_ctrl_init after the status stage.
LEMMA EndSettles ==
    ASSUME NEW d \in Shape, NEW h, LedgerInv(d, h), Over(d, h),
           NEW e, e = CtrlInit(EndOfRequest(d))
    PROVE  LedgerInv(e, h) /\ e.ledger = "clear"
<1>1. DOMAIN d = Fields /\ d.cb \in BOOLEAN
  BY ShapeFields DEF Shape
<1>2. /\ e.state = "SETUP" /\ e.cb = FALSE
      /\ e.ledger = IF d.cb THEN Dropped(IF d.ledger = "done" THEN "clear" ELSE "early")
                            ELSE Dropped(d.ledger)
  BY <1>1, EndFields
<1>3. e.ledger = "clear"
  BY <1>1, <1>2 DEF LedgerInv, Dropped
<1>. QED  BY <1>2, <1>3 DEF LedgerInv

\* udd_ctrl_in_sent in the data stage.
LEMMA SentSettles ==
    ASSUME NEW d \in Shape, NEW h, LedgerInv(d, h), d.state = "DATA_IN"
    PROVE  LedgerInv(InSent(d), h)
<1>. DEFINE e == InSent(d)
            n == Chunk(d.size - d.cnt)
            p == IF d.size = d.cnt THEN d.prev + d.cnt ELSE d.prev
<1>1. InOutcome(d, e, n, p)
  BY InSentFields
<1>. HIDE DEF e, n, p
<1>2. /\ Except(d, e, {"inSendIe", "prev", "state", "nakIn", "nakInIe", "short", "shortSent",
                       "complt", "tx", "cnt"})
      /\ e.state = "WAIT_OUT_ZLP" \/ e.state = d.state
  BY <1>1 DEF InOutcome, Except, Fields
<1>3. Alike(d, e)
  BY <1>2 DEF Alike, Except, Fields
<1>. QED  BY <1>3, AlikeSettles DEF e

LEMMA InSettles ==
    ASSUME NEW d, NEW h, TransferInv(d, "in", h), LedgerInv(d, h)
    PROVE  LedgerInv(InSent(d), h)
<1>0. d \in Shape /\ d.state \in Sending /\ DOMAIN d = Fields /\ d.complt
  BY ShapeFields DEF TransferInv, Events
<1>1. CASE d.state = "WAIT_IN_ZLP"
  <2>. DEFINE x == [d EXCEPT !.inSendIe = FALSE]
  <2>1. x \in Shape /\ Except(d, x, {"inSendIe"})
    BY <1>0 DEF Shape, Except, Fields
  <2>2. InSent(d) = CtrlInit(EndOfRequest(x))
    BY <1>1 DEF InSent
  <2>. HIDE DEF x
  <2>3. Alike(d, x)
    BY <2>1 DEF Alike, Except, Fields
  <2>4. Over(x, h)
    BY <1>0, <1>1, <2>3 DEF TransferInv, Ended, Over, Alike
  <2>5. LedgerInv(x, h)
    BY <2>3, AlikeSettles
  <2>6. \A e : e = CtrlInit(EndOfRequest(x)) => LedgerInv(e, h)
    BY <2>1, <2>4, <2>5, EndSettles
  <2>. QED  BY <2>2, <2>6
<1>2. CASE d.state = "DATA_IN"
  BY <1>0, <1>2, SentSettles
<1>. QED  BY <1>0, <1>1, <1>2 DEF Sending

LEMMA ZlpSettles ==
    ASSUME NEW d \in Shape, NEW h, LedgerInv(d, h), d.state # "SETUP",
           NEW e, e = SendZlpIn(d)
    PROVE  LedgerInv(e, h)
<1>1. DOMAIN d = Fields
  BY ShapeFields
<1>2. /\ Except(d, e, {"complt", "tx", "inSendIe", "state", "nakOut", "nakOutIe"})
      /\ e.state = "WAIT_IN_ZLP"
  BY <1>1, SendZlpInFields
<1>3. Alike(d, e)
  BY <1>2 DEF Alike, Except, Fields
<1>. QED  BY <1>3, AlikeSettles

LEMMA StoreSettles ==
    ASSUME NEW d \in Shape, NEW h, LedgerInv(d, h), d.state = "DATA_OUT"
    PROVE  LedgerInv(StoreData(d), h)
<1>. DEFINE n == IF d.size < d.cnt + d.out THEN d.size - d.cnt ELSE d.out
            c == d.cnt + n
            none == -1
            x == [d EXCEPT !.cnt = c, !.out = none]
            z == [x EXCEPT !.size = x.cnt]
            w == [x EXCEPT !.nakIn = FALSE, !.nakInIe = TRUE]
<1>1. DOMAIN d = Fields
  BY ShapeFields
<1>2. n \in Int /\ c \in Int /\ none \in Int
  BY DEF Shape
<1>3. StoreData(d) = CASE OutDone(x, n) -> SendZlpIn(z)
                       [] ~OutDone(x, n) /\ x.size = x.cnt -> StallData(x)
                       [] OTHER -> w
  BY DEF StoreData
<1>. HIDE DEF n, c, none
<1>4. x \in Shape /\ Except(d, x, {"cnt", "out"})
  <2>1. x \in Shape
    BY <1>2 DEF Shape
  <2>2. Except(d, x, {"cnt", "out"})
    BY <1>1 DEF Except, Fields
  <2>. QED  BY <2>1, <2>2
<1>. HIDE DEF x
<1>5. Alike(d, x) /\ x.state = d.state
  BY <1>4 DEF Alike, Except, Fields
<1>6. LedgerInv(x, h)
  BY <1>5, AlikeSettles
<1>7. z \in Shape /\ Except(x, z, {"size"}) /\ Except(x, w, {"nakIn", "nakInIe"})
  BY <1>4 DEF Shape, Except, Fields
<1>. HIDE DEF z, w
<1>8. Alike(x, z) /\ Alike(x, w) /\ z.state = x.state
  BY <1>7 DEF Alike, Except, Fields
<1>9. LedgerInv(z, h) /\ LedgerInv(w, h)
  BY <1>6, <1>8, AlikeSettles
<1>10. \A e : e = SendZlpIn(z) => LedgerInv(e, h)
  BY <1>5, <1>7, <1>8, <1>9, ZlpSettles
<1>11. LedgerInv(StallData(x), h)
  <2>. DEFINE e == StallData(x)
  <2>1. DOMAIN x = Fields
    BY <1>4 DEF Except
  <2>2. Except(x, e, {"state", "frcestall"}) /\ e.state = "STALL_REQ"
    BY <2>1, StallDataFields
  <2>. HIDE DEF e
  <2>3. Alike(x, e)
    BY <1>5, <2>2 DEF Alike, Except, Fields
  <2>. QED  BY <1>6, <2>3, AlikeSettles DEF e
<1>. QED  BY <1>3, <1>9, <1>10, <1>11

LEMMA OutSettles ==
    ASSUME NEW d, NEW h, TransferInv(d, "out", h), ServiceInv(d, "out", h), LedgerInv(d, h)
    PROVE  LedgerInv(OutReceived(d), h)
<1>0. d \in Shape /\ d.out # -1
  BY DEF TransferInv, Events
<1>1. d.state \in {"DATA_OUT", "DATA_IN", "WAIT_OUT_ZLP"}
  BY <1>0 DEF TransferInv, Stages, Shape, States, ServiceInv, Handshake
<1>2. CASE d.state = "DATA_OUT"
  BY <1>0, <1>2, StoreSettles DEF OutReceived
<1>3. CASE d.state \in {"DATA_IN", "WAIT_OUT_ZLP"}
  <2>1. OutReceived(d) = CtrlInit(EndOfRequest(d))
    BY <1>3 DEF OutReceived
  <2>2. Over(d, h)
    BY <1>0, <1>3 DEF TransferInv, Ended
  <2>3. \A e : e = CtrlInit(EndOfRequest(d)) => LedgerInv(e, h)
    BY <1>0, <2>2, EndSettles
  <2>. QED  BY <2>1, <2>3
<1>. QED  BY <1>1, <1>2, <1>3

LEMMA NakSettles ==
    ASSUME NEW d \in Shape, NEW h, LedgerInv(d, h)
    PROVE  /\ LedgerInv(Overflow([d EXCEPT !.nakOut = FALSE]), h)
           /\ LedgerInv(Underflow([d EXCEPT !.nakIn = FALSE]), h)
<1>. DEFINE o == [d EXCEPT !.nakOut = FALSE]
            i == [d EXCEPT !.nakIn = FALSE]
            p == [o EXCEPT !.frcestall = TRUE]
            j == [i EXCEPT !.frcestall = TRUE]
<1>1. DOMAIN d = Fields
  BY ShapeFields
<1>2. /\ o \in Shape /\ Except(d, o, {"nakOut"})
      /\ i \in Shape /\ Except(d, i, {"nakIn"})
  BY <1>1 DEF Shape, Except, Fields
<1>3. Overflow(o) = o \/ Overflow(o) = p
  BY DEF Overflow
<1>4. \/ Underflow(i) = SendZlpIn(i) /\ i.state = "DATA_OUT"
      \/ Underflow(i) = j \/ Underflow(i) = i
  BY DEF Underflow
<1>. HIDE DEF o, i
<1>5. Except(o, p, {"frcestall"}) /\ Except(i, j, {"frcestall"})
  BY <1>2 DEF Except, Fields
<1>. HIDE DEF p, j
<1>6. Alike(d, o) /\ Alike(d, i) /\ Alike(o, p) /\ Alike(i, j)
  BY <1>2, <1>5 DEF Alike, Except, Fields
<1>7. LedgerInv(o, h) /\ LedgerInv(i, h)
  BY <1>6, AlikeSettles
<1>8. LedgerInv(p, h) /\ LedgerInv(j, h)
  BY <1>6, <1>7, AlikeSettles
<1>9. \A e : e = SendZlpIn(i) /\ i.state = "DATA_OUT" => LedgerInv(e, h)
  BY <1>2, <1>7, ZlpSettles
<1>. QED  BY <1>3, <1>4, <1>7, <1>8, <1>9 DEF o, i

\* A SETUP packet: the callback that the driver still kept is run first.
LEMMA SetupSettles ==
    ASSUME NEW d, NEW h, TransferInv(d, "setup", h), LedgerInv(d, h)
    PROVE  LedgerInv(SetupReceived(d), h)
<1>1. /\ d \in Shape /\ Quiet(d) /\ (d.state = "SETUP" => d.out = -1) /\ Over(d, h)
      /\ d.fifo = h.req /\ h.stage # "idle" /\ h.req.cb \in BOOLEAN
      /\ d.fifo \in Requests
  BY RequestRules DEF TransferInv, Events, Stages, Over, Current, Bounded
<1>2. Unfinished(d).ledger = "clear"
  <2>1. CASE d.state # "SETUP"
    <3>1. \A e : e = CtrlInit(EndOfRequest(d)) => e.ledger = "clear"
      BY <1>1, EndSettles
    <3>. QED  BY <2>1, <3>1 DEF Unfinished
  <2>2. CASE d.state = "SETUP"
    BY <2>2 DEF Unfinished, LedgerInv
  <2>. QED  BY <2>1, <2>2
<1>3. PICK e \in Shape :
         /\ e.state = "SETUP" /\ e.rxSetup = FALSE /\ e.req = d.fifo /\ e.cb = d.fifo.cb
         /\ e.ledger = IF d.fifo.cb /\ Unfinished(d).ledger = "clear"
                         THEN "open" ELSE Unfinished(d).ledger
         /\ SetupOutcome(d.fifo, e, SetupReceived(d))
  BY <1>1, SetupFields
\* Once the driver has left the state SETUP, the account is right.
<1>4. ASSUME NEW g, g.state # "SETUP", g.cb = e.cb, g.ledger = e.ledger, g.req = e.req,
             g.rxSetup = e.rxSetup
      PROVE  LedgerInv(g, h)
  <2>1. h.cut => h.req.dir = "in"
    BY DEF LedgerInv
  <2>. QED  BY <1>1, <1>2, <1>3, <1>4, <2>1 DEF LedgerInv, Over
<1>. DEFINE f == SetupReceived(d)
            r == d.fifo
<1>5. DOMAIN e = Fields
  BY ShapeFields
<1>6. CASE f = StallData(e)
  <2>1. Except(e, f, {"state", "frcestall"}) /\ f.state = "STALL_REQ"
    BY <1>5, <1>6, StallDataFields
  <2>. HIDE DEF f
  <2>2. f.cb = e.cb /\ f.ledger = e.ledger /\ f.req = e.req /\ f.rxSetup = e.rxSetup
    BY <2>1 DEF Except, Fields
  <2>. QED  BY <1>4, <2>1, <2>2 DEF f
<1>7. CASE \E g \in Shape : /\ Except(e, g, {"cnt", "prev", "state"}) /\ f = InSent(g)
                            /\ g.cnt = 0 /\ g.prev = 0 /\ g.state = "DATA_IN"
  <2>1. PICK g \in Shape : /\ Except(e, g, {"cnt", "prev", "state"}) /\ f = InSent(g)
                           /\ g.state = "DATA_IN"
    BY <1>7
  <2>2. g.cb = e.cb /\ g.ledger = e.ledger /\ g.req = e.req /\ g.rxSetup = e.rxSetup
    BY <2>1 DEF Except, Fields
  <2>3. LedgerInv(g, h)
    BY <1>4, <2>1, <2>2
  <2>. QED  BY <2>1, <2>3, SentSettles
<1>8. CASE f = SendZlpIn(e)
  <2>1. /\ Except(e, f, {"complt", "tx", "inSendIe", "state", "nakOut", "nakOutIe"})
        /\ f.state = "WAIT_IN_ZLP"
    BY <1>5, <1>8, SendZlpInFields
  <2>. HIDE DEF f
  <2>2. f.cb = e.cb /\ f.ledger = e.ledger /\ f.req = e.req /\ f.rxSetup = e.rxSetup
    BY <2>1 DEF Except, Fields
  <2>. QED  BY <1>4, <2>1, <2>2 DEF f
<1>9. CASE /\ Except(e, f, {"cnt", "prev", "state", "nakIn", "nakInIe"})
           /\ f.state = "DATA_OUT"
  <2>. HIDE DEF f
  <2>2. f.cb = e.cb /\ f.ledger = e.ledger /\ f.req = e.req /\ f.rxSetup = e.rxSetup
    BY <1>9 DEF Except, Fields
  <2>. QED  BY <1>4, <1>9, <2>2 DEF f
<1>. HIDE DEF f
<1>. QED  BY <1>3, <1>6, <1>7, <1>8, <1>9 DEF SetupOutcome, f

CtrlLedgerInv == LedgerInv(ep0, host)

\* A request with a callback is one that the host and the driver agree on.
LEMMA CallbackRegular ==
    ASSUME CtrlTransferInv, CtrlLedgerInv, "mismatch" \notin Faults, ep0.cb
    PROVE  ep0.state # "SETUP" /\ ep0.req \in Requests /\ ep0.req.ok /\ Regular(ep0.req)
<1>1. ep0.state # "SETUP" /\ ep0.req.cb /\ ep0.req \in Requests
  BY DEF CtrlTransferInv, TransferInv, Bounded, CtrlLedgerInv, LedgerInv
<1>2. ep0.req.ok
  BY <1>1 DEF Requests
<1>. QED  BY <1>1, <1>2, MatchedRequests

LEMMA EnterSettles ==
    ASSUME CtrlTransferInv, CtrlLedgerInv, IsrEnter
    PROVE  LedgerInv(ep0', host')
<1>1. DOMAIN ep0 = Fields
  BY ShapeFields DEF CtrlTransferInv, TransferInv
<1>2. Except(ep0, ep0', {"nakInIe", "nakOutIe"}) /\ host' = host
  BY <1>1 DEF IsrEnter, Except, Fields
<1>3. Alike(ep0, ep0')
  BY <1>2 DEF Alike, Except, Fields
<1>. QED  BY <1>2, <1>3, AlikeSettles DEF CtrlLedgerInv

LEMMA SetupPacketSettles ==
    ASSUME CtrlTransferInv, CtrlLedgerInv, NEW r \in Requests, HostSetup(r)
    PROVE  LedgerInv(ep0', host')
<1>1. DOMAIN ep0 = Fields
  BY ShapeFields DEF CtrlTransferInv, TransferInv
<1>2. Except(ep0, ep0', {"rxSetup", "fifo", "frcestall", "tx"}) /\ ep0'.rxSetup = TRUE
  <2>. DEFINE p == NoPacket
  <2>1. ep0' = [ep0 EXCEPT !.rxSetup = TRUE, !.fifo = r, !.frcestall = FALSE, !.tx = p]
    BY DEF HostSetup
  <2>. HIDE DEF p
  <2>. QED  BY <1>1, <2>1 DEF Except, Fields
<1>3. ep0'.cb = ep0.cb /\ ep0'.ledger = ep0.ledger /\ ep0'.req = ep0.req /\ ep0'.state = ep0.state
  BY <1>2 DEF Except, Fields
<1>4. host.stage = "idle" /\ ~host'.cut
  BY DEF HostSetup
<1>. QED  BY <1>2, <1>3, <1>4 DEF CtrlLedgerInv, LedgerInv, Over

\* The transfer ends before its status stage: no callback is due.
LEMMA GiveUpSettles ==
    ASSUME CtrlLedgerInv, NEW res, Ends(res), ep0' = ep0, ~ep0.cb
    PROVE  LedgerInv(ep0', host')
  BY DEF CtrlLedgerInv, LedgerInv, Ends

LEMMA StalledSettles ==
    ASSUME CtrlTransferInv, CtrlServiceInv, CtrlLedgerInv, HostStalled, "mismatch" \notin Faults
    PROVE  LedgerInv(ep0', host')
<1>1. host \in HostShape /\ ep0.frcestall /\ Finish("stall") /\ ep0' = ep0
  BY DEF CtrlTransferInv, TransferInv, HostStalled
<1>2. Ends("stall")
  BY <1>1, FinishFields
<1>3. ~ep0.cb
  BY <1>1, CallbackRegular DEF CtrlServiceInv, ServiceInv, Stalls
<1>. QED  BY <1>1, <1>2, <1>3, GiveUpSettles

\* A host that knows the requests is not kept waiting for a regular one.
LEMMA TimeoutIrregular ==
    ASSUME CtrlTransferInv, CtrlServiceInv, CtrlLedgerInv, HostGivesUp, Civil
    PROVE  ~Regular(host.req)
<1>. SUFFICES ASSUME Regular(host.req) PROVE FALSE
  OBVIOUS
<1>1. /\ host \in HostShape /\ isr = "none" /\ ~Pending /\ host.stage # "idle"
      /\ Reads /\ ep0.tx = NoPacket /\ ep0.nakIn /\ ~ep0.frcestall
  BY DEF CtrlTransferInv, TransferInv, HostGivesUp, Civil
<1>2. ~ep0.rxSetup /\ ~InDue(ep0) /\ ep0.out = -1 /\ ~Over(ep0, host) /\ ep0.req = host.req
  BY <1>1 DEF Pending, InEvent, OutEvent, InDue, Over, CtrlTransferInv, TransferInv, Current
<1>3. ep0.state # "STALL_REQ" /\ ep0.state # "SETUP"
  BY <1>1, <1>2 DEF CtrlServiceInv, ServiceInv, Refused, Regular,
                    CtrlTransferInv, TransferInv, Stages
<1>4. ep0.state # "DATA_IN"
  BY <1>1, <1>2 DEF CtrlServiceInv, ServiceInv, Answering, InDue
<1>5. ep0.state # "WAIT_IN_ZLP"
  BY <1>1, <1>2 DEF CtrlServiceInv, ServiceInv, Handshake
<1>6. ep0.state # "WAIT_OUT_ZLP"
  BY <1>1, <1>2 DEF CtrlServiceInv, ServiceInv, Waiting
<1>7. ep0.state # "DATA_OUT"
  <2>. SUFFICES ASSUME ep0.state = "DATA_OUT" PROVE FALSE
    OBVIOUS
  <2>1. /\ Whole(host.req) /\ ep0.cnt < host.req.len /\ host.req.dir = "out"
    BY <1>2 DEF CtrlServiceInv, ServiceInv, Receiving, Whole
  <2>2. host.stage = "status" /\ ~host.cut
    BY <1>1, <2>1 DEF Reads, CtrlLedgerInv, LedgerInv, HostShape
  <2>3. host.n = ep0.cnt + 0 /\ host.n = host.req.len
    BY <1>2, <2>1, <2>2 DEF CtrlTransferInv, TransferInv, OutAccount
  <2>4. ep0.cnt \in Int /\ host.req.len \in Int
    BY RequestRules DEF CtrlTransferInv, TransferInv, Shape, Bounded
  <2>. QED  BY <2>1, <2>3, <2>4
<1>. QED  BY <1>3, <1>4, <1>5, <1>6, <1>7 DEF CtrlTransferInv, TransferInv, Shape, States

LEMMA TimeoutSettles ==
    ASSUME CtrlTransferInv, CtrlServiceInv, CtrlLedgerInv, HostGivesUp, Civil
    PROVE  LedgerInv(ep0', host')
<1>1. /\ host \in HostShape /\ Finish("timeout") /\ ep0' = ep0 /\ host.stage # "idle"
      /\ ~Pending /\ "mismatch" \notin Faults
  BY DEF CtrlTransferInv, TransferInv, HostGivesUp, Civil
<1>2. Ends("timeout")
  BY <1>1, FinishFields
<1>3. ep0.req = host.req
  BY <1>1 DEF Pending, CtrlTransferInv, TransferInv, Current
<1>4. ~ep0.cb
  BY <1>1, <1>3, CallbackRegular, TimeoutIrregular
<1>. QED  BY <1>1, <1>2, <1>4, GiveUpSettles

LEMMA CutSettles ==
    ASSUME CtrlTransferInv, CtrlLedgerInv, HostCut, Civil
    PROVE  LedgerInv(ep0', host')
<1>1. /\ ep0' = ep0 /\ host.stage = "data" /\ host.req.dir = "in"
      /\ host' = [host EXCEPT !.stage = "status", !.cut = TRUE] /\ host \in HostShape
  BY DEF CtrlTransferInv, TransferInv, HostCut, Civil
<1>2. host'.stage = "status" /\ host'.req = host.req
  BY <1>1 DEF HostShape
<1>. QED  BY <1>1, <1>2 DEF CtrlLedgerInv, LedgerInv, Over

\* The status stage is over: the callback is due.
LEMMA CompleteSettles ==
    ASSUME CtrlTransferInv, CtrlLedgerInv, NEW res, Ends(res),
           host.stage # "idle", ~ep0.rxSetup,
           NEW F, Except(ep0, ep0', F), F \cap {"cb", "req", "state", "rxSetup"} = {},
           ep0'.ledger = IF ep0.ledger = "open" THEN "done" ELSE ep0.ledger
    PROVE  LedgerInv(ep0', host')
<1>1. ep0'.cb = ep0.cb /\ ep0'.req = ep0.req /\ ep0'.state = ep0.state /\ ep0'.rxSetup = ep0.rxSetup
  BY DEF Except, Fields
<1>. QED  BY <1>1 DEF CtrlLedgerInv, LedgerInv, Over, Ends

LEMMA InTokenSettles ==
    ASSUME CtrlTransferInv, CtrlServiceInv, CtrlLedgerInv, HostIn, "mismatch" \notin Faults
    PROVE  LedgerInv(ep0', host')
<1>1. /\ TransferInv(ep0, isr, host) /\ host.stage # "idle"
      /\ ep0 \in Shape /\ DOMAIN ep0 = Fields /\ host \in HostShape /\ Reads
  BY ShapeFields DEF CtrlTransferInv, TransferInv, HostIn
<1>2. host.stage = "data" => host.req.dir = "in"
  BY <1>1 DEF Reads
<1>3. ep0.tx # NoPacket => ~ep0.rxSetup /\ ep0.req = host.req
  BY <1>1 DEF TransferInv, Current
<1>5. CASE /\ ep0' = [ep0 EXCEPT !.nakIn = TRUE] /\ host' = host
  <2>1. Except(ep0, ep0', {"nakIn"})
    BY <1>1, <1>5 DEF Except, Fields
  <2>2. Alike(ep0, ep0')
    BY <2>1 DEF Alike, Except, Fields
  <2>. QED  BY <1>5, <2>2, AlikeSettles DEF CtrlLedgerInv
<1>. DEFINE p == NoPacket
            taken == [ep0 EXCEPT !.tx = p, !.complt = TRUE]
<1>6. Except(ep0, taken, {"tx", "complt"})
  <2>. HIDE DEF p
  <2>. QED  BY <1>1 DEF Except, Fields
<1>. HIDE DEF taken
<1>7. CASE /\ host.stage = "data" /\ ep0.tx # NoPacket /\ ep0' = taken
           /\ host' = [host EXCEPT !.n = @ + ep0.tx.n,
                !.stage = IF ep0.tx.n < Pkt \/ host.n + ep0.tx.n = host.req.len
                            THEN "status" ELSE "data"]
  <2>1. host'.stage # "idle" /\ host'.req = host.req /\ host'.cut = host.cut
    BY <1>1, <1>7 DEF HostShape
  <2>2. Alike(ep0, ep0')
    BY <1>6, <1>7 DEF Alike, Except, Fields
  <2>3. LedgerInv(ep0', host)
    BY <2>2, AlikeSettles DEF CtrlLedgerInv
  <2>. QED  BY <1>1, <2>1, <2>3 DEF LedgerInv, Over
<1>8. CASE /\ host.stage = "data" /\ host.n + ep0.tx.n > host.req.len
           /\ Finish("overrun") /\ ep0' = ep0
  <2>1. Ends("overrun")
    BY <1>1, <1>8, FinishFields
  <2>2. /\ host.n \in Int /\ host.req.len \in Int /\ host.n < host.req.len
        /\ host.req.size \in Int
    BY <1>1, <1>8, RequestRules DEF TransferInv, Bounded, HostShape
  <2>3. ep0.tx # NoPacket
    BY <1>8, <2>2 DEF NoPacket
  <2>4. /\ ep0.state = "DATA_IN" /\ ep0.tx.from = host.n /\ ep0.tx.from + ep0.tx.n = ep0.cnt
        /\ ep0.cnt <= host.req.size /\ ep0.cnt \in Int
    BY <1>1, <1>2, <1>3, <1>8, <2>3 DEF TransferInv, InAccount, Over, Stages, Shape
  <2>5. ~ep0.cb
    <3>. SUFFICES ASSUME ep0.cb PROVE FALSE
      OBVIOUS
    <3>1. Regular(host.req) /\ host.req.dir = "in"
      BY <1>2, <1>3, <1>8, <2>3, CallbackRegular
    <3>2. host.req.size <= host.req.len
      BY <2>2, <3>1 DEF Regular
    <3>. QED  BY <1>8, <2>2, <2>4, <3>2
  <2>. QED  BY <1>8, <2>1, <2>5, GiveUpSettles
<1>9. CASE /\ host.stage = "status" /\ ep0.tx # NoPacket /\ ep0' = Complete(taken)
           /\ Finish(IF ep0.tx.n = 0 THEN "ok" ELSE "error")
  <2>1. PICK res \in {"ok", "error"} : Ends(res)
    <3>. DEFINE res == IF ep0.tx.n = 0 THEN "ok" ELSE "error"
    <3>1. Finish(res) /\ res \in {"ok", "error"}
      BY <1>9
    <3>. HIDE DEF res
    <3>. QED  BY <1>1, <3>1, FinishFields
  <2>2. Except(taken, ep0', {"ledger"})
        /\ ep0'.ledger = IF taken.ledger = "open" THEN "done" ELSE taken.ledger
    <3>1. DOMAIN taken = Fields
      BY <1>6 DEF Except
    <3>. DEFINE l == IF taken.ledger = "open" THEN "done" ELSE taken.ledger
    <3>2. ep0' = [taken EXCEPT !.ledger = l]
      BY <1>9 DEF Complete
    <3>. HIDE DEF l
    <3>3. Except(taken, ep0', {"ledger"}) /\ ep0'.ledger = l
      BY <3>1, <3>2 DEF Except, Fields
    <3>. QED  BY <3>3 DEF l
  <2>3. Except(ep0, ep0', {"tx", "complt", "ledger"}) /\ taken.ledger = ep0.ledger
    BY <1>6, <2>2 DEF Except, Fields
  <2>. QED  BY <1>1, <1>3, <1>9, <2>1, <2>2, <2>3, CompleteSettles
<1>. QED  BY <1>5, <1>7, <1>8, <1>9 DEF HostIn, taken

LEMMA OutPacketSettles ==
    ASSUME CtrlTransferInv, CtrlLedgerInv, HostOut
    PROVE  LedgerInv(ep0', host')
<1>1. /\ host.stage # "idle" /\ DOMAIN ep0 = Fields /\ host \in HostShape
  BY ShapeFields DEF CtrlTransferInv, TransferInv, HostOut
<1>2. CASE /\ ep0' = [ep0 EXCEPT !.nakOut = TRUE] /\ host' = host
  <2>1. Except(ep0, ep0', {"nakOut"})
    BY <1>1, <1>2 DEF Except, Fields
  <2>2. Alike(ep0, ep0')
    BY <2>1 DEF Alike, Except, Fields
  <2>. QED  BY <1>2, <2>2, AlikeSettles DEF CtrlLedgerInv
<1>. DEFINE n == Chunk(host.req.len - host.n)
            data == [ep0 EXCEPT !.out = n]
            zero == 0
            zlp == [ep0 EXCEPT !.out = zero]
<1>3. CASE /\ ep0' = data
           /\ host' = [host EXCEPT !.n = @ + n,
                     !.stage = IF host.n + n = host.req.len THEN "status" ELSE "data"]
  <2>1. host'.stage # "idle" /\ host'.req = host.req /\ host'.cut = host.cut
    BY <1>1, <1>3 DEF HostShape
  <2>. HIDE DEF n
  <2>2. Except(ep0, ep0', {"out"})
    BY <1>1, <1>3 DEF Except, Fields
  <2>3. Alike(ep0, ep0')
    BY <2>2 DEF Alike, Except, Fields
  <2>4. LedgerInv(ep0', host)
    BY <2>3, AlikeSettles DEF CtrlLedgerInv
  <2>. QED  BY <1>1, <2>1, <2>4 DEF LedgerInv, Over
<1>4. CASE ~ep0.rxSetup /\ ep0' = Complete(zlp) /\ Finish("ok")
  <2>1. Ends("ok")
    BY <1>1, <1>4, FinishFields
  <2>2. Except(ep0, zlp, {"out"})
    <3>. HIDE DEF zero
    <3>. QED  BY <1>1 DEF Except, Fields
  <2>. HIDE DEF zlp
  <2>3. Except(zlp, ep0', {"ledger"})
        /\ ep0'.ledger = IF zlp.ledger = "open" THEN "done" ELSE zlp.ledger
    <3>1. DOMAIN zlp = Fields
      BY <2>2 DEF Except
    <3>. DEFINE l == IF zlp.ledger = "open" THEN "done" ELSE zlp.ledger
    <3>2. ep0' = [zlp EXCEPT !.ledger = l]
      BY <1>4 DEF Complete
    <3>. HIDE DEF l
    <3>3. Except(zlp, ep0', {"ledger"}) /\ ep0'.ledger = l
      BY <3>1, <3>2 DEF Except, Fields
    <3>. QED  BY <3>3 DEF l
  <2>4. Except(ep0, ep0', {"out", "ledger"}) /\ zlp.ledger = ep0.ledger
    BY <2>2, <2>3 DEF Except, Fields
  <2>. QED  BY <1>1, <1>4, <2>1, <2>3, <2>4, CompleteSettles
<1>. QED  BY <1>2, <1>3, <1>4 DEF HostOut, data, n, zlp

LEMMA HandleSettles ==
    ASSUME CtrlTransferInv, CtrlServiceInv, CtrlLedgerInv, IsrHandle
    PROVE  LedgerInv(ep0', host')
<1>. DEFINE o == [ep0 EXCEPT !.nakOut = FALSE]
            i == [ep0 EXCEPT !.nakIn = FALSE]
<1>1. /\ host' = host
      /\ \/ isr = "setup" /\ ep0' = SetupReceived(ep0)
         \/ isr = "in" /\ ep0' = InSent(ep0)
         \/ isr = "out" /\ ep0' = OutReceived(ep0)
         \/ isr = "nakOut" /\ ep0' = Overflow(o)
         \/ isr = "nakIn" /\ ep0' = Underflow(i)
  BY Zenon DEF IsrHandle
<1>2. isr = "setup" => LedgerInv(SetupReceived(ep0), host)
  BY SetupSettles DEF CtrlTransferInv, CtrlLedgerInv
<1>3. isr = "in" => LedgerInv(InSent(ep0), host)
  BY InSettles DEF CtrlTransferInv, CtrlLedgerInv
<1>4. isr = "out" => LedgerInv(OutReceived(ep0), host)
  BY OutSettles DEF CtrlTransferInv, CtrlServiceInv, CtrlLedgerInv
<1>5. LedgerInv(Overflow(o), host) /\ LedgerInv(Underflow(i), host)
  BY NakSettles DEF CtrlTransferInv, TransferInv, CtrlLedgerInv
<1>. HIDE DEF o, i
<1>. QED  BY <1>1, <1>2, <1>3, <1>4, <1>5

LEMMA LedgerStep ==
    ASSUME Civil
    PROVE  CtrlTransferInv /\ CtrlServiceInv /\ CtrlLedgerInv /\ [Next]_vars => CtrlLedgerInv'
<1>. SUFFICES ASSUME CtrlTransferInv, CtrlServiceInv, CtrlLedgerInv, [Next]_vars
              PROVE  LedgerInv(ep0', host')
  BY DEF CtrlLedgerInv
<1>0. "mismatch" \notin Faults /\ "reset" \notin Faults
  BY DEF Civil
<1>1. CASE IsrEnter
  BY <1>1, EnterSettles
<1>2. CASE IsrHandle
  BY <1>2, HandleSettles
<1>3. CASE HostIn
  BY <1>0, <1>3, InTokenSettles
<1>4. CASE HostOut
  BY <1>4, OutPacketSettles
<1>5. CASE HostStalled
  BY <1>0, <1>5, StalledSettles
<1>6. CASE \E r \in Requests : HostSetup(r)
  BY <1>6, SetupPacketSettles
<1>7. CASE HostCut
  BY <1>7, CutSettles
<1>8. CASE HostGivesUp
  BY <1>8, TimeoutSettles
<1>9. CASE BusReset
  BY <1>0, <1>9 DEF BusReset
<1>10. CASE UNCHANGED vars
  BY <1>10 DEF vars, CtrlLedgerInv
<1>. QED  BY <1>1, <1>2, <1>3, <1>4, <1>5, <1>6, <1>7, <1>8, <1>9, <1>10
          DEF Next, Driver, HostToken

LEMMA LedgerAlways ==
    ASSUME Civil
    PROVE  Spec => []CtrlLedgerInv
<1>1. Init => CtrlLedgerInv
  <2>1. Init => ep0.state = "SETUP" /\ ep0.cb = FALSE /\ ep0.ledger = "clear" /\ ~host.cut
    BY DEF Init
  <2>. QED  BY <2>1 DEF CtrlLedgerInv, LedgerInv
<1>2. FaithfulInv => CtrlTransferInv
  BY DEF FaithfulInv
<1>3. "mismatch" \notin Faults
  BY DEF Civil
<1>4. CtrlTransferInv /\ CtrlServiceInv /\ CtrlLedgerInv /\ [Next]_vars => CtrlLedgerInv'
  BY LedgerStep
<1>5. Spec => []CtrlServiceInv
  BY <1>3, ServiceAlways
<1>. QED  BY <1>1, <1>2, <1>4, <1>5, FaithfulAlways, PTL DEF Spec

\* The callback of a request (SET_ADDRESS, and the two vendor requests that
\* carry data) runs once, and only after the host has seen the status stage:
\* the driver neither drops it, in udd_ctrl_init, nor runs it early, in
\* udd_ctrl_endofrequest, also when the next SETUP packet comes first.  The
\* host may read less than it asked for, and do nothing worse.
THEOREM CallbacksRunOnce ==
    ASSUME Faults \subseteq {"cut_in"}
    PROVE  Spec => []CallbackOnce
<1>1. CtrlLedgerInv => CallbackOnce
  BY DEF CtrlLedgerInv, LedgerInv, CallbackOnce
<1>2. Spec => []CtrlLedgerInv
  BY LedgerAlways DEF Civil
<1>. QED  BY <1>1, <1>2, PTL

(***************************************************************************)
(* The driver implements ControlTransfer.                                  *)
(***************************************************************************)
\* The IN handshake is an empty packet, and it is sent for supported requests.
ZlpInBank(d) == d.state = "WAIT_IN_ZLP" => d.req.ok /\ d.tx.n <= 0

\* What a handler other than that of a SETUP packet does for the host: it may
\* store data, in the OUT data stage, and it may run the callback.
Progress(d, e, h) ==
    /\ e.rxSetup = d.rxSetup /\ e.req = d.req
    /\ e.cb => d.cb
    /\ \/ e.cnt = d.cnt
       \/ d.state = "DATA_IN"
       \/ d.state = "DATA_OUT" /\ ~Over(d, h) /\ d.cnt <= e.cnt /\ e.cnt <= d.size

LEMMA EndProgress ==
    ASSUME NEW d \in Shape, NEW h, NEW e, e = CtrlInit(EndOfRequest(d))
    PROVE  ZlpInBank(e) /\ Progress(d, e, h)
<1>1. DOMAIN d = Fields
  BY ShapeFields
<1>2. /\ Except(d, e, {"inSendIe", "out", "cb", "size", "state", "ledger"})
      /\ e.state = "SETUP" /\ e.cb = FALSE
  BY <1>1, EndFields
<1>3. e.rxSetup = d.rxSetup /\ e.req = d.req /\ e.cnt = d.cnt
  BY <1>2 DEF Except, Fields
<1>. QED  BY <1>2, <1>3 DEF ZlpInBank, Progress

LEMMA InProgress ==
    ASSUME NEW d, NEW h, TransferInv(d, "in", h)
    PROVE  ZlpInBank(InSent(d)) /\ Progress(d, InSent(d), h)
<1>0. d \in Shape /\ d.state \in Sending /\ DOMAIN d = Fields
  BY ShapeFields DEF TransferInv, Events
<1>1. CASE d.state = "WAIT_IN_ZLP"
  <2>. DEFINE x == [d EXCEPT !.inSendIe = FALSE]
  <2>1. x \in Shape /\ Except(d, x, {"inSendIe"})
    BY <1>0 DEF Shape, Except, Fields
  <2>2. InSent(d) = CtrlInit(EndOfRequest(x))
    BY <1>1 DEF InSent
  <2>. HIDE DEF x
  <2>3. x.rxSetup = d.rxSetup /\ x.req = d.req /\ x.cb = d.cb /\ x.cnt = d.cnt /\ x.state = d.state
    BY <2>1 DEF Except, Fields
  <2>4. \A e : e = CtrlInit(EndOfRequest(x)) => ZlpInBank(e) /\ Progress(x, e, h)
    BY <2>1, EndProgress
  <2>5. \A e : Progress(x, e, h) => Progress(d, e, h)
    BY <1>1, <2>3 DEF Progress
  <2>. QED  BY <2>2, <2>4, <2>5
<1>2. CASE d.state = "DATA_IN"
  <2>. DEFINE e == InSent(d)
              n == Chunk(d.size - d.cnt)
              p == IF d.size = d.cnt THEN d.prev + d.cnt ELSE d.prev
  <2>1. InOutcome(d, e, n, p)
    BY <1>0, <1>2, InSentFields
  <2>. HIDE DEF e, n, p
  <2>2. /\ Except(d, e, {"inSendIe", "prev", "state", "nakIn", "nakInIe", "short", "shortSent",
                         "complt", "tx", "cnt"})
        /\ e.state = "WAIT_OUT_ZLP" \/ e.state = d.state
    BY <2>1 DEF InOutcome, Except, Fields
  <2>3. e.rxSetup = d.rxSetup /\ e.req = d.req /\ e.cb = d.cb
    BY <2>2 DEF Except, Fields
  <2>. QED  BY <1>2, <2>2, <2>3 DEF ZlpInBank, Progress, e
<1>. QED  BY <1>0, <1>1, <1>2 DEF Sending

LEMMA ZlpProgress ==
    ASSUME NEW d \in Shape, NEW h, d.req.ok, NEW e, e = SendZlpIn(d)
    PROVE  ZlpInBank(e) /\ Progress(d, e, h) /\ e.cnt = d.cnt
<1>1. DOMAIN d = Fields
  BY ShapeFields
<1>2. /\ Except(d, e, {"complt", "tx", "inSendIe", "state", "nakOut", "nakOutIe"})
      /\ e.tx = Packet(0, 0)
  BY <1>1, SendZlpInFields
<1>3. e.rxSetup = d.rxSetup /\ e.req = d.req /\ e.cb = d.cb /\ e.cnt = d.cnt
  BY <1>2 DEF Except, Fields
<1>4. e.tx.n <= 0
  BY <1>2 DEF Packet
<1>. QED  BY <1>3, <1>4 DEF ZlpInBank, Progress

\* A request in its OUT data stage is supported, and as long as its payload.
LEMMA ReceivingOk ==
    ASSUME NEW d, NEW h, NEW i, TransferInv(d, i, h), ServiceInv(d, i, h), d.state = "DATA_OUT"
    PROVE  d.req.ok /\ d.req.size = d.req.len /\ d.size = d.req.len
<1>1. d.req \in Requests /\ Whole(d.req) /\ d.size = d.req.size
  BY DEF TransferInv, Bounded, ServiceInv, Receiving, Stages
<1>2. d.req.ok
  BY <1>1 DEF Requests, Whole
<1>. QED  BY <1>1, <1>2 DEF Whole

LEMMA StoreProgress ==
    ASSUME NEW d, NEW h, TransferInv(d, "out", h), ServiceInv(d, "out", h), d.state = "DATA_OUT"
    PROVE  ZlpInBank(StoreData(d)) /\ Progress(d, StoreData(d), h)
<1>. DEFINE n == IF d.size < d.cnt + d.out THEN d.size - d.cnt ELSE d.out
            c == d.cnt + n
            none == -1
            x == [d EXCEPT !.cnt = c, !.out = none]
            z == [x EXCEPT !.size = x.cnt]
            w == [x EXCEPT !.nakIn = FALSE, !.nakInIe = TRUE]
<1>1. d \in Shape /\ DOMAIN d = Fields
  BY ShapeFields DEF TransferInv
<1>2. ~Over(d, h) /\ d.out # -1 /\ d.req.ok
  BY ReceivingOk DEF TransferInv, Ended, Events, Over
<1>3. n \in Int /\ c \in Int /\ none \in Int /\ d.cnt <= c /\ c <= d.size
  <2>1. d.out \in 0 .. Pkt /\ d.size \in Int /\ d.cnt \in Int /\ d.cnt <= d.size
    BY <1>1, <1>2, CtrlAssumption DEF TransferInv, Bounded, Stages, Shape
  <2>. QED  BY <2>1, CtrlAssumption
<1>4. StoreData(d) = CASE OutDone(x, n) -> SendZlpIn(z)
                       [] ~OutDone(x, n) /\ x.size = x.cnt -> StallData(x)
                       [] OTHER -> w
  BY DEF StoreData
<1>. HIDE DEF n, c, none
<1>5. x \in Shape /\ Except(d, x, {"cnt", "out"}) /\ x.cnt = c
  <2>1. x \in Shape
    BY <1>1, <1>3 DEF Shape
  <2>2. Except(d, x, {"cnt", "out"}) /\ x.cnt = c
    BY <1>1 DEF Except, Fields
  <2>. QED  BY <2>1, <2>2
<1>. HIDE DEF x
<1>6. z \in Shape /\ Except(x, z, {"size"}) /\ Except(x, w, {"nakIn", "nakInIe"})
  BY <1>5 DEF Shape, Except, Fields
<1>. HIDE DEF z, w
<1>7. /\ x.rxSetup = d.rxSetup /\ x.req = d.req /\ x.cb = d.cb /\ x.state = d.state
      /\ z.rxSetup = x.rxSetup /\ z.req = x.req /\ z.cb = x.cb /\ z.cnt = x.cnt
      /\ w.rxSetup = x.rxSetup /\ w.req = x.req /\ w.cb = x.cb /\ w.cnt = x.cnt
      /\ w.state = x.state
  BY <1>5, <1>6 DEF Except, Fields
\* Each branch keeps the count c, and leaves the request alone.
<1>8. ASSUME NEW e, e.rxSetup = d.rxSetup, e.req = d.req, e.cb => d.cb, e.cnt = c
      PROVE  Progress(d, e, h)
  BY <1>2, <1>3, <1>8 DEF Progress
<1>9. \A e : e = SendZlpIn(z) => ZlpInBank(e) /\ Progress(d, e, h)
  <2>1. \A e : e = SendZlpIn(z) => ZlpInBank(e) /\ Progress(z, e, h) /\ e.cnt = z.cnt
    BY <1>2, <1>6, <1>7, ZlpProgress
  <2>2. \A e : Progress(z, e, h) => e.rxSetup = z.rxSetup /\ e.req = z.req /\ (e.cb => z.cb)
    BY DEF Progress
  <2>. QED  BY <1>5, <1>7, <1>8, <2>1, <2>2
<1>10. ZlpInBank(StallData(x)) /\ Progress(d, StallData(x), h)
  <2>. DEFINE e == StallData(x)
  <2>1. DOMAIN x = Fields
    BY <1>5 DEF Except
  <2>2. Except(x, e, {"state", "frcestall"}) /\ e.state = "STALL_REQ"
    BY <2>1, StallDataFields
  <2>. HIDE DEF e
  <2>3. e.rxSetup = x.rxSetup /\ e.req = x.req /\ e.cb = x.cb /\ e.cnt = x.cnt
    BY <2>2 DEF Except, Fields
  <2>. QED  BY <1>5, <1>7, <1>8, <2>2, <2>3 DEF ZlpInBank, e
<1>11. ZlpInBank(w) /\ Progress(d, w, h)
  BY <1>5, <1>7, <1>8 DEF ZlpInBank
<1>. QED  BY <1>4, <1>9, <1>10, <1>11

LEMMA OutProgress ==
    ASSUME NEW d, NEW h, TransferInv(d, "out", h), ServiceInv(d, "out", h)
    PROVE  ZlpInBank(OutReceived(d)) /\ Progress(d, OutReceived(d), h)
<1>0. d \in Shape /\ d.out # -1
  BY DEF TransferInv, Events
<1>1. d.state \in {"DATA_OUT", "DATA_IN", "WAIT_OUT_ZLP"}
  BY <1>0 DEF TransferInv, Stages, Shape, States, ServiceInv, Handshake
<1>2. CASE d.state = "DATA_OUT"
  BY <1>2, StoreProgress DEF OutReceived
<1>3. CASE d.state \in {"DATA_IN", "WAIT_OUT_ZLP"}
  <2>1. OutReceived(d) = CtrlInit(EndOfRequest(d))
    BY <1>3 DEF OutReceived
  <2>2. \A e : e = CtrlInit(EndOfRequest(d)) => ZlpInBank(e) /\ Progress(d, e, h)
    BY <1>0, EndProgress
  <2>. QED  BY <2>1, <2>2
<1>. QED  BY <1>1, <1>2, <1>3

LEMMA NakProgress ==
    ASSUME NEW d, NEW h, NEW v, TransferInv(d, v, h), ServiceInv(d, v, h), ZlpInBank(d)
    PROVE  /\ ZlpInBank(Overflow([d EXCEPT !.nakOut = FALSE]))
           /\ Progress(d, Overflow([d EXCEPT !.nakOut = FALSE]), h)
           /\ ZlpInBank(Underflow([d EXCEPT !.nakIn = FALSE]))
           /\ Progress(d, Underflow([d EXCEPT !.nakIn = FALSE]), h)
<1>. DEFINE o == [d EXCEPT !.nakOut = FALSE]
            i == [d EXCEPT !.nakIn = FALSE]
            p == [o EXCEPT !.frcestall = TRUE]
            j == [i EXCEPT !.frcestall = TRUE]
<1>1. d \in Shape /\ DOMAIN d = Fields /\ (d.state = "DATA_OUT" => d.req.ok)
  BY ShapeFields, ReceivingOk DEF TransferInv
<1>2. /\ o \in Shape /\ Except(d, o, {"nakOut"})
      /\ i \in Shape /\ Except(d, i, {"nakIn"})
  BY <1>1 DEF Shape, Except, Fields
<1>3. Overflow(o) = o \/ Overflow(o) = p
  BY DEF Overflow
<1>4. \/ Underflow(i) = SendZlpIn(i) /\ i.state = "DATA_OUT"
      \/ Underflow(i) = j \/ Underflow(i) = i
  BY DEF Underflow
<1>. HIDE DEF o, i
<1>5. Except(o, p, {"frcestall"}) /\ Except(i, j, {"frcestall"})
  BY <1>2 DEF Except, Fields
<1>. HIDE DEF p, j
\* Only bits that do not matter here have changed.
<1>6. ASSUME NEW e, Except(d, e, {"nakIn", "nakOut", "frcestall"})
      PROVE  ZlpInBank(e) /\ Progress(d, e, h)
  <2>1. /\ e.rxSetup = d.rxSetup /\ e.req = d.req /\ e.cb = d.cb /\ e.cnt = d.cnt
        /\ e.state = d.state /\ e.tx = d.tx
    BY <1>6 DEF Except, Fields
  <2>. QED  BY <2>1 DEF ZlpInBank, Progress
<1>7. /\ Except(d, o, {"nakIn", "nakOut", "frcestall"}) /\ Except(d, p, {"nakIn", "nakOut", "frcestall"})
      /\ Except(d, i, {"nakIn", "nakOut", "frcestall"}) /\ Except(d, j, {"nakIn", "nakOut", "frcestall"})
  BY <1>2, <1>5 DEF Except, Fields
<1>8. ASSUME i.state = "DATA_OUT"
      PROVE  ZlpInBank(SendZlpIn(i)) /\ Progress(d, SendZlpIn(i), h)
  <2>1. i.rxSetup = d.rxSetup /\ i.req = d.req /\ i.cb = d.cb /\ i.cnt = d.cnt /\ i.state = d.state
    BY <1>2 DEF Except, Fields
  <2>2. \A e : e = SendZlpIn(i) => ZlpInBank(e) /\ Progress(i, e, h) /\ e.cnt = i.cnt
    BY <1>1, <1>2, <1>8, <2>1, ZlpProgress
  <2>3. \A e : Progress(i, e, h) /\ e.cnt = i.cnt => Progress(d, e, h)
    BY <2>1 DEF Progress
  <2>. QED  BY <2>2, <2>3
<1>9. ZlpInBank(o) /\ Progress(d, o, h) /\ ZlpInBank(p) /\ Progress(d, p, h)
  BY <1>6, <1>7
<1>10. ZlpInBank(i) /\ Progress(d, i, h) /\ ZlpInBank(j) /\ Progress(d, j, h)
  BY <1>6, <1>7
<1>. QED  BY <1>3, <1>4, <1>8, <1>9, <1>10 DEF o, i

\* A SETUP packet: nothing is stored yet of the request that it begins.
LEMMA SetupProgress ==
    ASSUME NEW d, NEW h, TransferInv(d, "setup", h)
    PROVE  /\ ZlpInBank(SetupReceived(d)) /\ SetupReceived(d).rxSetup = FALSE
           /\ h.req.ok /\ h.req.dir = "out" /\ h.req.len # 0 => SetupReceived(d).cnt = 0
<1>. DEFINE f == SetupReceived(d)
            r == h.req
<1>1. PICK e : Noted(d, h, e)
  BY SetupNoted
<1>2. e \in Shape /\ DOMAIN e = Fields /\ e.rxSetup = FALSE /\ e.req = r /\ SetupOutcome(r, e, f)
  BY <1>1 DEF Noted
<1>3. CASE ~r.ok /\ f = StallData(e)
  <2>1. Except(e, f, {"state", "frcestall"}) /\ f.state = "STALL_REQ"
    BY <1>2, <1>3, StallDataFields
  <2>. HIDE DEF f
  <2>2. f.rxSetup = e.rxSetup
    BY <2>1 DEF Except, Fields
  <2>. QED  BY <1>2, <1>3, <2>1, <2>2 DEF ZlpInBank, f
<1>4. CASE /\ r.ok /\ r.dir = "in"
           /\ \E g \in Shape : /\ Except(e, g, {"cnt", "prev", "state"}) /\ f = InSent(g)
                               /\ g.cnt = 0 /\ g.prev = 0 /\ g.state = "DATA_IN"
  <2>1. PICK g \in Shape : /\ Except(e, g, {"cnt", "prev", "state"}) /\ f = InSent(g)
                           /\ g.state = "DATA_IN"
    BY <1>4
  <2>. DEFINE n == Chunk(g.size - g.cnt)
              p == IF g.size = g.cnt THEN g.prev + g.cnt ELSE g.prev
  <2>2. InOutcome(g, f, n, p)
    BY <2>1, InSentFields
  <2>. HIDE DEF f, n, p
  <2>3. f.rxSetup = g.rxSetup /\ f.state # "WAIT_IN_ZLP"
    BY <2>1, <2>2 DEF InOutcome, Except, Fields
  <2>4. g.rxSetup = e.rxSetup
    BY <2>1 DEF Except, Fields
  <2>. QED  BY <1>2, <1>4, <2>3, <2>4 DEF ZlpInBank, f
<1>5. CASE r.ok /\ r.dir = "out" /\ r.len = 0 /\ f = SendZlpIn(e)
  <2>1. ZlpInBank(f) /\ Progress(e, f, h)
    BY <1>2, <1>5, ZlpProgress
  <2>. HIDE DEF f
  <2>. QED  BY <1>2, <1>5, <2>1 DEF Progress, f
<1>6. CASE /\ r.ok /\ r.dir = "out" /\ r.len # 0
           /\ Except(e, f, {"cnt", "prev", "state", "nakIn", "nakInIe"})
           /\ f.cnt = 0 /\ f.state = "DATA_OUT"
  <2>. HIDE DEF f
  <2>1. f.rxSetup = e.rxSetup
    BY <1>6 DEF Except, Fields
  <2>. QED  BY <1>2, <1>6, <2>1 DEF ZlpInBank, f
<1>. HIDE DEF f
<1>. QED  BY <1>2, <1>3, <1>4, <1>5, <1>6 DEF SetupOutcome, f

CtrlZlpInv == ZlpInBank(ep0)

LEMMA EnterZlp ==
    ASSUME CtrlTransferInv, CtrlZlpInv, IsrEnter
    PROVE  ZlpInBank(ep0') /\ UNCHANGED Transfer!transferVars
<1>1. DOMAIN ep0 = Fields
  BY ShapeFields DEF CtrlTransferInv, TransferInv
<1>2. Except(ep0, ep0', {"nakInIe", "nakOutIe"}) /\ host' = host
  BY <1>1 DEF IsrEnter, Except, Fields
<1>3. /\ ep0'.rxSetup = ep0.rxSetup /\ ep0'.req = ep0.req /\ ep0'.state = ep0.state
      /\ ep0'.tx = ep0.tx /\ ep0'.cnt = ep0.cnt /\ ep0'.ledger = ep0.ledger
  BY <1>2 DEF Except, Fields
<1>4. ZlpInBank(ep0')
  BY <1>3 DEF ZlpInBank, CtrlZlpInv
<1>5. UNCHANGED Transfer!transferVars
  BY <1>2, <1>3 DEF Transfer!transferVars, Stored
<1>. QED  BY <1>4, <1>5

\* The callback is run, at the latest, by the next SETUP packet.
LEMMA CallbackMaps ==
    ASSUME host' = host, Stored' = Stored \/ host.req.dir = "in",
           ep0'.ledger = "done" => ep0.ledger = "done"
    PROVE  [Transfer!TransferNext]_(Transfer!transferVars)
<1>1. CASE ep0.ledger = "done" /\ ep0'.ledger # "done"
  <2>1. Transfer!Callback
    BY <1>1 DEF Transfer!Callback
  <2>. QED  BY <2>1 DEF Transfer!TransferNext
<1>2. CASE (ep0'.ledger = "done") = (ep0.ledger = "done")
  BY <1>2 DEF Transfer!transferVars
<1>. QED  BY <1>1, <1>2

LEMMA ProgressMaps ==
    ASSUME CtrlTransferInv, CtrlServiceInv, CtrlLedgerInv, LedgerInv(ep0', host'),
           host' = host, ep0' \in Shape, Progress(ep0, ep0', host)
    PROVE  [Transfer!TransferNext]_(Transfer!transferVars)
<1>1. TransferInv(ep0, isr, host) /\ ep0 \in Shape /\ host \in HostShape /\ host.req \in Requests
  BY DEF CtrlTransferInv, TransferInv, Bounded
<1>2. ep0'.ledger = "done" => ep0.ledger = "done"
  BY <1>1 DEF LedgerInv, CtrlLedgerInv, Over, Progress
<1>3. CASE Stored' = Stored \/ host.req.dir = "in"
  BY <1>2, <1>3, CallbackMaps
<1>4. CASE Stored' # Stored /\ host.req.dir # "in"
  <2>1. ~ep0.rxSetup /\ ep0'.cnt # ep0.cnt
    BY <1>4 DEF Stored, Progress
  <2>2. ep0.state # "DATA_IN"
    BY <1>1, <1>4, <2>1 DEF TransferInv, Stages, Current
  <2>3. /\ ep0.state = "DATA_OUT" /\ ~Over(ep0, host) /\ ep0.cnt <= ep0'.cnt
        /\ ep0'.cnt <= ep0.size
    BY <2>1, <2>2 DEF Progress
  <2>4. ep0.req = host.req /\ host.stage # "idle"
    BY <1>1, <2>3 DEF TransferInv, Current, Over
  <2>5. host.req.ok /\ ep0.size = host.req.len /\ host.req.len \in Int
    BY <1>1, <2>3, <2>4, ReceivingOk, RequestRules DEF CtrlServiceInv
  <2>6. ep0.ledger # "done" /\ ep0'.ledger # "done"
    BY <1>2, <2>3 DEF LedgerInv, CtrlLedgerInv
  <2>7. Stored' \in Stored .. host.req.len
    <3>1. ep0.cnt \in Int /\ ep0'.cnt \in Int
      BY <1>1 DEF Shape
    <3>. DEFINE a == ep0.cnt
                b == ep0'.cnt
                l == host.req.len
    <3>2. Stored \in {0, a} /\ Stored' \in {0, b} /\ ~ep0'.rxSetup
      BY <2>1 DEF Stored, Progress
    <3>3. l # 0 => Stored = a /\ Stored' = b
      BY <2>1, <2>4, <2>5, <3>2 DEF Stored
    <3>4. l = 0 => Stored = 0 /\ Stored' = 0
      BY DEF Stored
    <3>. HIDE DEF a, b, l
    <3>5. a <= b /\ b <= l /\ a \in Int /\ b \in Int /\ l \in Int
      BY <2>3, <2>5, <3>1 DEF a, b, l
    <3>6. l # 0
      BY <1>4, <3>4
    <3>7. Stored' \in Stored .. l
      BY <3>3, <3>5, <3>6
    <3>. QED  BY <3>7 DEF l
  <2>8. Transfer!Payload(host.req) = host.req.len
    BY <1>4 DEF Transfer!Payload
  <2>9. Transfer!Move
    BY <1>4, <2>4, <2>6, <2>7, <2>8 DEF Transfer!Move
  <2>. QED  BY <2>9 DEF Transfer!TransferNext
<1>. QED  BY <1>3, <1>4

LEMMA SetupMaps ==
    ASSUME CtrlTransferInv, CtrlLedgerInv, LedgerInv(ep0', host'),
           host' = host, isr = "setup", ep0' = SetupReceived(ep0)
    PROVE  ZlpInBank(ep0') /\ [Transfer!TransferNext]_(Transfer!transferVars)
<1>. DEFINE f == SetupReceived(ep0)
<1>1. ep0.rxSetup /\ host.stage # "idle" /\ host.req.dir \in {"in", "out"}
  BY RequestRules DEF CtrlTransferInv, TransferInv, Events, Current, Bounded
<1>2. /\ ZlpInBank(f) /\ f.rxSetup = FALSE
      /\ host.req.ok /\ host.req.dir = "out" /\ host.req.len # 0 => f.cnt = 0
  BY SetupProgress DEF CtrlTransferInv
<1>. HIDE DEF f
<1>3. ep0' = f
  BY DEF f
<1>4. Stored' = Stored \/ host.req.dir = "in"
  BY <1>1, <1>2, <1>3 DEF Stored
<1>5. ep0'.ledger # "done"
  BY <1>1, <1>2, <1>3 DEF LedgerInv, Over
<1>. QED  BY <1>2, <1>3, <1>4, <1>5, CallbackMaps

LEMMA HandleMaps ==
    ASSUME CtrlTransferInv, CtrlServiceInv, CtrlLedgerInv, CtrlZlpInv, IsrHandle,
           LedgerInv(ep0', host'), ep0' \in Shape
    PROVE  ZlpInBank(ep0') /\ [Transfer!TransferNext]_(Transfer!transferVars)
<1>. DEFINE o == [ep0 EXCEPT !.nakOut = FALSE]
            i == [ep0 EXCEPT !.nakIn = FALSE]
<1>1. /\ host' = host
      /\ \/ isr = "setup" /\ ep0' = SetupReceived(ep0)
         \/ isr = "in" /\ ep0' = InSent(ep0)
         \/ isr = "out" /\ ep0' = OutReceived(ep0)
         \/ isr = "nakOut" /\ ep0' = Overflow(o)
         \/ isr = "nakIn" /\ ep0' = Underflow(i)
  BY Zenon DEF IsrHandle
<1>2. CASE isr = "setup" /\ ep0' = SetupReceived(ep0)
  BY <1>1, <1>2, SetupMaps
<1>3. isr = "in" => ZlpInBank(InSent(ep0)) /\ Progress(ep0, InSent(ep0), host)
  BY InProgress DEF CtrlTransferInv
<1>4. isr = "out" => ZlpInBank(OutReceived(ep0)) /\ Progress(ep0, OutReceived(ep0), host)
  BY OutProgress DEF CtrlTransferInv, CtrlServiceInv
<1>5. /\ ZlpInBank(Overflow(o)) /\ Progress(ep0, Overflow(o), host)
      /\ ZlpInBank(Underflow(i)) /\ Progress(ep0, Underflow(i), host)
  BY NakProgress DEF CtrlTransferInv, CtrlServiceInv, CtrlZlpInv
<1>. HIDE DEF o, i
<1>6. CASE ~(isr = "setup" /\ ep0' = SetupReceived(ep0))
  <2>1. ZlpInBank(ep0') /\ Progress(ep0, ep0', host)
    BY <1>1, <1>3, <1>4, <1>5, <1>6
  <2>. QED  BY <1>1, <2>1, ProgressMaps
<1>. QED  BY <1>2, <1>6

LEMMA SetupPacketMaps ==
    ASSUME CtrlTransferInv, CtrlZlpInv, NEW r \in Requests, HostSetup(r)
    PROVE  ZlpInBank(ep0') /\ Transfer!TransferNext
<1>1. DOMAIN ep0 = Fields /\ r.dir \in {"in", "out"}
  BY ShapeFields, RequestRules DEF CtrlTransferInv, TransferInv
<1>2. /\ Except(ep0, ep0', {"rxSetup", "fifo", "frcestall", "tx"})
      /\ ep0'.rxSetup = TRUE /\ ep0'.tx = NoPacket
  <2>. DEFINE p == NoPacket
  <2>1. ep0' = [ep0 EXCEPT !.rxSetup = TRUE, !.fifo = r, !.frcestall = FALSE, !.tx = p]
    BY DEF HostSetup
  <2>. HIDE DEF p
  <2>2. /\ Except(ep0, ep0', {"rxSetup", "fifo", "frcestall", "tx"})
        /\ ep0'.rxSetup = TRUE /\ ep0'.tx = p
    BY <1>1, <2>1 DEF Except, Fields
  <2>. QED  BY <2>2 DEF p
<1>3. ep0'.ledger = ep0.ledger /\ ep0'.req = ep0.req /\ ep0'.state = ep0.state
  BY <1>2 DEF Except, Fields
<1>4. /\ host.stage = "idle" /\ host'.stage # "idle" /\ host'.req = r /\ host'.n = 0
      /\ host'.cut = FALSE /\ host'.result = "none"
  BY DEF HostSetup
<1>5. Stored' = 0
  BY <1>2 DEF Stored
<1>6. Transfer!Ask(r)
  BY <1>3, <1>4, <1>5 DEF Transfer!Ask
<1>7. ZlpInBank(ep0')
  BY <1>2, <1>3 DEF ZlpInBank, CtrlZlpInv, NoPacket
<1>. QED  BY <1>6, <1>7 DEF Transfer!TransferNext

\* The host has asked for no less than the payload, when the request and the
\* host match; and what it wants a callback for is supported.
LEMMA MatchedPayload ==
    ASSUME NEW r \in Requests, "mismatch" \notin Faults
    PROVE  /\ r.dir = "in" => r.size <= r.len
           /\ r.cb => Regular(r)
<1>1. r.len \in Int /\ r.size \in Int /\ 0 <= r.len
  BY RequestRules
<1>2. CASE r.ok
  BY <1>1, <1>2, MatchedRequests DEF Requests, StandardAnswer, VendorAnswer
<1>3. CASE ~r.ok
  BY <1>1, <1>3 DEF Requests
<1>. QED  BY <1>2, <1>3

\* The host is told of a failure: the request was not supported.
LEMMA FailMaps ==
    ASSUME CtrlTransferInv, host.stage # "idle", ep0' = ep0, "mismatch" \notin Faults,
           ~Regular(host.req), NEW res \in {"stall", "timeout"}, Ends(res)
    PROVE  Transfer!TransferNext
<1>1. ~host.req.cb
  BY MatchedPayload DEF CtrlTransferInv, TransferInv, Bounded
<1>2. Stored' = Stored
  BY DEF Stored, Ends
<1>3. Transfer!End(res)
  BY <1>2 DEF Transfer!End, Ends
<1>4. Transfer!Fail
  BY <1>1, <1>3 DEF Transfer!Fail
<1>. QED  BY <1>4 DEF Transfer!TransferNext

LEMMA StalledMaps ==
    ASSUME CtrlTransferInv, CtrlServiceInv, HostStalled, "mismatch" \notin Faults
    PROVE  ep0' = ep0 /\ Transfer!TransferNext
<1>1. /\ host \in HostShape /\ host.stage # "idle" /\ ep0.frcestall /\ ~ep0.rxSetup
      /\ Finish("stall") /\ ep0' = ep0
  BY DEF CtrlTransferInv, TransferInv, HostStalled
<1>2. Ends("stall")
  BY <1>1, FinishFields
<1>3. ~Regular(host.req)
  BY <1>1 DEF CtrlTransferInv, TransferInv, Current, CtrlServiceInv, ServiceInv, Stalls
<1>. QED  BY <1>1, <1>2, <1>3, FailMaps

LEMMA TimeoutMaps ==
    ASSUME CtrlTransferInv, CtrlServiceInv, CtrlLedgerInv, HostGivesUp, Civil
    PROVE  ep0' = ep0 /\ Transfer!TransferNext
<1>1. /\ host \in HostShape /\ Finish("timeout") /\ ep0' = ep0 /\ host.stage # "idle"
      /\ "mismatch" \notin Faults
  BY DEF CtrlTransferInv, TransferInv, HostGivesUp, Civil
<1>2. Ends("timeout")
  BY <1>1, FinishFields
<1>3. ~Regular(host.req)
  BY TimeoutIrregular
<1>. QED  BY <1>1, <1>2, <1>3, FailMaps

LEMMA CutMaps ==
    ASSUME CtrlTransferInv, HostCut, Civil
    PROVE  ep0' = ep0 /\ Transfer!TransferNext
<1>1. /\ ep0' = ep0 /\ host.stage = "data" /\ host.req.dir = "in"
      /\ host' = [host EXCEPT !.stage = "status", !.cut = TRUE] /\ host \in HostShape
  BY DEF CtrlTransferInv, TransferInv, HostCut, Civil
<1>2. /\ host'.stage = "status" /\ host'.req = host.req /\ host'.cut = TRUE
      /\ host'.n = host.n /\ host'.result = host.result
  BY <1>1 DEF HostShape
<1>3. Transfer!Cut
  BY <1>1, <1>2 DEF Transfer!Cut
<1>. QED  BY <1>1, <1>3 DEF Transfer!TransferNext

\* The status stage ends a request that the driver has in hand.
LEMMA SucceedMaps ==
    ASSUME CtrlTransferInv, CtrlLedgerInv, LedgerInv(ep0', host'), Ends("ok"),
           host.stage # "idle", ~ep0.rxSetup, ep0.state # "SETUP", ep0'.state = ep0.state,
           ep0'.req = ep0.req, ep0'.rxSetup = ep0.rxSetup, ep0'.cnt = ep0.cnt,
           host.req.dir = "in" =>
               host.cut \/ host.n = Transfer!Payload(host.req),
           host.req.dir # "in" => Stored = host.req.len
    PROVE  Transfer!TransferNext
<1>1. ep0.req = host.req /\ host.req \in Requests
  BY DEF CtrlTransferInv, TransferInv, Current, Bounded
<1>2. host.req.cb \in BOOLEAN
  BY <1>1, RequestRules
<1>3. ep0.ledger # "done"
  BY DEF CtrlLedgerInv, LedgerInv, Over
<1>4. (ep0'.ledger = "done") = host.req.cb
  BY <1>1, <1>2 DEF LedgerInv, Over, Ends
<1>5. Stored' = Stored
  BY DEF Stored, Ends
<1>6. Transfer!End("ok")
  BY <1>5 DEF Transfer!End, Ends
<1>7. host.req.dir # "in" => Transfer!Payload(host.req) = host.req.len
  BY DEF Transfer!Payload
<1>8. Transfer!Succeed
  BY <1>3, <1>4, <1>6, <1>7 DEF Transfer!Succeed
<1>. QED  BY <1>8 DEF Transfer!TransferNext

\* A host that waits for the handshake of an OUT request, and gets an answer,
\* has sent the whole payload.
LEMMA HandshakeFacts ==
    ASSUME CtrlTransferInv, CtrlLedgerInv, CtrlZlpInv, "mismatch" \notin Faults,
           host.stage = "status", Reads, ~ep0.frcestall, ep0.tx # NoPacket
    PROVE  /\ ep0.state = "WAIT_IN_ZLP" /\ ep0.tx.n = 0 /\ ~ep0.rxSetup
           /\ host.req.dir = "out" /\ Stored = host.req.len
<1>1. TransferInv(ep0, isr, host) /\ host.req \in Requests
  BY DEF CtrlTransferInv, TransferInv, Bounded
<1>2. ~ep0.rxSetup /\ ep0.req = host.req /\ ~Over(ep0, host)
  BY <1>1 DEF TransferInv, Current, Over
<1>3. host.req.len \in Int /\ host.req.dir \in {"in", "out"} /\ 0 <= host.req.len
  BY <1>1, RequestRules
<1>4. ep0.state = "WAIT_IN_ZLP"
  BY <1>1, <1>2, <1>3 DEF TransferInv, Stages, Reads, Shape, States
<1>5. ep0.req.dir = "out" /\ ep0.req.ok /\ ep0.tx.n <= 0 /\ ep0.tx.n \in 0 .. Pkt
  BY <1>1, <1>4 DEF TransferInv, Stages, Bounded, CtrlZlpInv, ZlpInBank
<1>6. ep0.tx.n = 0
  BY <1>5, CtrlAssumption
<1>7. Stored = host.req.len
  <2>1. CASE host.req.len = 0
    BY <2>1 DEF Stored
  <2>2. CASE host.req.len # 0
    <3>1. Whole(host.req) /\ ~host.cut
      BY <1>1, <1>2, <1>3, <1>5, <2>2, MatchedRequests DEF CtrlLedgerInv, LedgerInv
    <3>2. ep0.cnt = host.req.len
      BY <1>1, <1>2, <1>4, <3>1 DEF TransferInv, OutAccount
    <3>. QED  BY <1>2, <1>5, <2>2, <3>2 DEF Stored
  <2>. QED  BY <2>1, <2>2
<1>. QED  BY <1>2, <1>4, <1>5, <1>6, <1>7

LEMMA InTokenMaps ==
    ASSUME CtrlTransferInv, CtrlServiceInv, CtrlLedgerInv, CtrlZlpInv, LedgerInv(ep0', host'),
           HostIn, "mismatch" \notin Faults
    PROVE  ZlpInBank(ep0') /\ [Transfer!TransferNext]_(Transfer!transferVars)
<1>1. /\ TransferInv(ep0, isr, host) /\ host.stage # "idle" /\ ~ep0.frcestall
      /\ ep0 \in Shape /\ DOMAIN ep0 = Fields /\ host \in HostShape /\ Reads
      /\ host.req \in Requests
  BY ShapeFields DEF CtrlTransferInv, TransferInv, HostIn, Bounded
<1>2. host.stage = "data" => host.req.dir = "in"
  BY <1>1 DEF Reads
<1>3. ep0.tx # NoPacket => ~ep0.rxSetup /\ ep0.req = host.req
  BY <1>1 DEF TransferInv, Current
<1>4. /\ host.n \in Int /\ host.req.len \in Int /\ host.req.size \in Int /\ host.n >= 0
      /\ host.req.dir = "in" => host.req.size <= host.req.len
  BY <1>1, RequestRules, MatchedPayload DEF TransferInv, Bounded, HostShape
<1>5. CASE /\ ep0' = [ep0 EXCEPT !.nakIn = TRUE] /\ host' = host
  <2>1. Except(ep0, ep0', {"nakIn"})
    BY <1>1, <1>5 DEF Except, Fields
  <2>2. /\ ep0'.rxSetup = ep0.rxSetup /\ ep0'.cnt = ep0.cnt /\ ep0'.ledger = ep0.ledger
        /\ ep0'.state = ep0.state /\ ep0'.req = ep0.req /\ ep0'.tx = ep0.tx
    BY <2>1 DEF Except, Fields
  <2>3. UNCHANGED Transfer!transferVars
    BY <1>5, <2>2 DEF Transfer!transferVars, Stored
  <2>. QED  BY <2>2, <2>3 DEF ZlpInBank, CtrlZlpInv
<1>. DEFINE p == NoPacket
            taken == [ep0 EXCEPT !.tx = p, !.complt = TRUE]
<1>6. Except(ep0, taken, {"tx", "complt"}) /\ taken.tx = NoPacket
  <2>1. Except(ep0, taken, {"tx", "complt"}) /\ taken.tx = p
    <3>. HIDE DEF p
    <3>. QED  BY <1>1 DEF Except, Fields
  <2>. QED  BY <2>1
<1>. HIDE DEF taken
<1>7. /\ taken.rxSetup = ep0.rxSetup /\ taken.cnt = ep0.cnt /\ taken.ledger = ep0.ledger
      /\ taken.state = ep0.state /\ taken.req = ep0.req
  BY <1>6 DEF Except, Fields
\* A packet that the host takes is the next part of the payload.
<1>8. ASSUME host.stage = "data", ep0.tx # NoPacket
      PROVE  /\ ep0.tx.n \in Int /\ 0 <= ep0.tx.n
             /\ host.n + ep0.tx.n <= host.req.size
  <2>1. /\ ep0.state = "DATA_IN" /\ ep0.tx.from = host.n /\ ep0.tx.from + ep0.tx.n = ep0.cnt
        /\ ep0.cnt <= host.req.size /\ ep0.tx.n \in 0 .. Pkt
    BY <1>1, <1>2, <1>3, <1>8 DEF TransferInv, InAccount, Over, Stages, Bounded
  <2>. QED  BY <2>1, CtrlAssumption
<1>9. CASE /\ host.stage = "data" /\ ep0.tx # NoPacket /\ ep0' = taken
           /\ host' = [host EXCEPT !.n = @ + ep0.tx.n,
                !.stage = IF ep0.tx.n < Pkt \/ host.n + ep0.tx.n = host.req.len
                            THEN "status" ELSE "data"]
  <2>1. /\ host'.stage # "idle" /\ host'.req = host.req /\ host'.cut = host.cut
        /\ host'.n = host.n + ep0.tx.n /\ host'.result = host.result
    BY <1>1, <1>9 DEF HostShape
  <2>2. host'.n \in host.n .. Transfer!Payload(host.req)
    <3>1. host.n <= host'.n /\ host'.n <= host.req.size /\ host'.n \in Int
          /\ host'.n <= host.req.len
      BY <1>2, <1>4, <1>8, <1>9, <2>1
    <3>2. Transfer!Payload(host.req) \in {host.req.size, host.req.len}
      BY DEF Transfer!Payload
    <3>. HIDE DEF p
    <3>. QED  BY <1>4, <3>1, <3>2
  <2>3. Transfer!Move
    BY <1>1, <1>2, <1>7, <1>9, <2>1, <2>2 DEF Transfer!Move
  <2>. QED  BY <1>6, <1>7, <1>9, <2>3 DEF Transfer!TransferNext, ZlpInBank, CtrlZlpInv, NoPacket
<1>10. CASE host.stage = "data" /\ host.n + ep0.tx.n > host.req.len
  <2>1. host.n < host.req.len
    BY <1>1, <1>10 DEF TransferInv, Bounded
  <2>2. ep0.tx # NoPacket
    BY <1>4, <1>10, <2>1 DEF NoPacket
  <2>. QED  BY <1>2, <1>4, <1>8, <1>10, <2>2
<1>11. CASE /\ host.stage = "status" /\ ep0.tx # NoPacket /\ ep0' = Complete(taken)
            /\ Finish(IF ep0.tx.n = 0 THEN "ok" ELSE "error")
  <2>1. /\ ep0.state = "WAIT_IN_ZLP" /\ ep0.tx.n = 0 /\ ~ep0.rxSetup
        /\ host.req.dir = "out" /\ Stored = host.req.len
    BY <1>1, <1>11, HandshakeFacts
  <2>2. Ends("ok")
    BY <1>1, <1>11, <2>1, FinishFields
  <2>3. Except(taken, ep0', {"ledger"})
    <3>1. DOMAIN taken = Fields
      BY <1>6 DEF Except
    <3>. DEFINE l == IF taken.ledger = "open" THEN "done" ELSE taken.ledger
    <3>2. ep0' = [taken EXCEPT !.ledger = l]
      BY <1>11 DEF Complete
    <3>. HIDE DEF l
    <3>. QED  BY <3>1, <3>2 DEF Except, Fields
  <2>4. /\ ep0'.rxSetup = ep0.rxSetup /\ ep0'.cnt = ep0.cnt /\ ep0'.tx = NoPacket
        /\ ep0'.state = ep0.state /\ ep0'.req = ep0.req
    BY <1>6, <1>7, <2>3 DEF Except, Fields
  <2>5. Transfer!TransferNext
    BY <1>1, <2>1, <2>2, <2>4, SucceedMaps
  <2>. QED  BY <2>4, <2>5 DEF ZlpInBank, CtrlZlpInv, NoPacket
<1>. QED  BY <1>5, <1>9, <1>10, <1>11 DEF HostIn, taken

LEMMA OutPacketMaps ==
    ASSUME CtrlTransferInv, CtrlLedgerInv, CtrlZlpInv, LedgerInv(ep0', host'), HostOut
    PROVE  ZlpInBank(ep0') /\ [Transfer!TransferNext]_(Transfer!transferVars)
<1>1. /\ TransferInv(ep0, isr, host) /\ host.stage # "idle" /\ DOMAIN ep0 = Fields
      /\ host \in HostShape /\ ~Reads /\ ~ep0.frcestall /\ host.req \in Requests
  BY ShapeFields DEF CtrlTransferInv, TransferInv, HostOut, Bounded
<1>2. CASE /\ ep0' = [ep0 EXCEPT !.nakOut = TRUE] /\ host' = host
  <2>1. Except(ep0, ep0', {"nakOut"})
    BY <1>1, <1>2 DEF Except, Fields
  <2>2. /\ ep0'.rxSetup = ep0.rxSetup /\ ep0'.cnt = ep0.cnt /\ ep0'.ledger = ep0.ledger
        /\ ep0'.state = ep0.state /\ ep0'.req = ep0.req /\ ep0'.tx = ep0.tx
    BY <2>1 DEF Except, Fields
  <2>3. UNCHANGED Transfer!transferVars
    BY <1>2, <2>2 DEF Transfer!transferVars, Stored
  <2>. QED  BY <2>2, <2>3 DEF ZlpInBank, CtrlZlpInv
<1>. DEFINE n == Chunk(host.req.len - host.n)
            data == [ep0 EXCEPT !.out = n]
            zero == 0
            zlp == [ep0 EXCEPT !.out = zero]
<1>3. CASE /\ host.stage = "data" /\ ep0' = data
           /\ host' = [host EXCEPT !.n = @ + n,
                     !.stage = IF host.n + n = host.req.len THEN "status" ELSE "data"]
  <2>1. /\ host'.stage # "idle" /\ host'.req = host.req /\ host'.cut = host.cut
        /\ host'.result = host.result
    BY <1>1, <1>3 DEF HostShape
  <2>. HIDE DEF n
  <2>2. Except(ep0, ep0', {"out"})
    BY <1>1, <1>3 DEF Except, Fields
  <2>3. /\ ep0'.rxSetup = ep0.rxSetup /\ ep0'.cnt = ep0.cnt /\ ep0'.ledger = ep0.ledger
        /\ ep0'.state = ep0.state /\ ep0'.req = ep0.req /\ ep0'.tx = ep0.tx
    BY <2>2 DEF Except, Fields
  <2>4. host.req.dir # "in"
    BY <1>1, <1>3 DEF Reads
  <2>5. UNCHANGED Transfer!transferVars
    BY <1>1, <2>1, <2>3, <2>4 DEF Transfer!transferVars, Stored
  <2>. QED  BY <2>3, <2>5 DEF ZlpInBank, CtrlZlpInv
<1>4. CASE host.stage = "status" /\ ~ep0.rxSetup /\ ep0' = Complete(zlp) /\ Finish("ok")
  <2>1. Ends("ok")
    BY <1>1, <1>4, FinishFields
  <2>2. Except(ep0, zlp, {"out"})
    <3>. HIDE DEF zero
    <3>. QED  BY <1>1 DEF Except, Fields
  <2>. HIDE DEF zlp
  <2>3. Except(zlp, ep0', {"ledger"})
    <3>1. DOMAIN zlp = Fields
      BY <2>2 DEF Except
    <3>. DEFINE l == IF zlp.ledger = "open" THEN "done" ELSE zlp.ledger
    <3>2. ep0' = [zlp EXCEPT !.ledger = l]
      BY <1>4 DEF Complete
    <3>. HIDE DEF l
    <3>. QED  BY <3>1, <3>2 DEF Except, Fields
  <2>4. /\ ep0'.rxSetup = ep0.rxSetup /\ ep0'.cnt = ep0.cnt /\ ep0'.tx = ep0.tx
        /\ ep0'.state = ep0.state /\ ep0'.req = ep0.req
    BY <2>2, <2>3 DEF Except, Fields
  <2>5. host.req.dir = "in" /\ ep0.state # "SETUP"
    BY <1>1, <1>4, RequestRules DEF Reads, TransferInv, Stages, Over
  <2>6. host.cut \/ host.n = Transfer!Payload(host.req)
    BY <1>1, <1>4, <2>5 DEF TransferInv, HostCount, Smaller, Transfer!Payload
  <2>7. Transfer!TransferNext
    BY <1>1, <1>4, <2>1, <2>4, <2>5, <2>6, SucceedMaps
  <2>. QED  BY <2>4, <2>7 DEF ZlpInBank, CtrlZlpInv
<1>. QED  BY <1>2, <1>3, <1>4 DEF HostOut, data, n, zlp

LEMMA ContractStep ==
    ASSUME Civil
    PROVE  CtrlTransferInv /\ CtrlServiceInv /\ CtrlLedgerInv /\ CtrlTransferInv' /\ CtrlLedgerInv'
           /\ CtrlZlpInv /\ [Next]_vars
             => CtrlZlpInv' /\ [Transfer!TransferNext]_(Transfer!transferVars)
<1>. SUFFICES ASSUME CtrlTransferInv, CtrlServiceInv, CtrlLedgerInv, CtrlTransferInv',
                     CtrlLedgerInv', CtrlZlpInv, [Next]_vars
              PROVE  ZlpInBank(ep0') /\ [Transfer!TransferNext]_(Transfer!transferVars)
  BY DEF CtrlZlpInv
<1>0. /\ "mismatch" \notin Faults /\ "reset" \notin Faults
      /\ LedgerInv(ep0', host') /\ ep0' \in Shape
  BY DEF Civil, CtrlLedgerInv, CtrlTransferInv, TransferInv
<1>11. ep0' = ep0 => ZlpInBank(ep0')
  BY DEF CtrlZlpInv
<1>1. CASE IsrEnter
  BY <1>1, EnterZlp
<1>2. CASE IsrHandle
  BY <1>0, <1>2, HandleMaps
<1>3. CASE HostIn
  BY <1>0, <1>3, InTokenMaps
<1>4. CASE HostOut
  BY <1>0, <1>4, OutPacketMaps
<1>5. CASE HostStalled
  BY <1>0, <1>5, <1>11, StalledMaps
<1>6. CASE \E r \in Requests : HostSetup(r)
  BY <1>6, SetupPacketMaps
<1>7. CASE HostCut
  BY <1>7, <1>11, CutMaps
<1>8. CASE HostGivesUp
  BY <1>8, <1>11, TimeoutMaps
<1>9. CASE BusReset
  BY <1>0, <1>9 DEF BusReset
<1>10. CASE UNCHANGED vars
  <2>1. ep0' = ep0 /\ host' = host
    BY <1>10 DEF vars
  <2>2. UNCHANGED Transfer!transferVars
    BY <2>1 DEF Transfer!transferVars, Stored
  <2>. QED  BY <1>11, <2>1, <2>2
<1>. QED  BY <1>1, <1>2, <1>3, <1>4, <1>5, <1>6, <1>7, <1>8, <1>9, <1>10
          DEF Next, Driver, HostToken

\* The control endpoint keeps the contract of udd.h, as ControlTransfer states
\* it, for every packet size and payload, with every interleaving of
\* udd_ctrl_interrupt and the packets of a host that may read less than it
\* asked for: a supported request moves its payload and succeeds, its callback
\* runs once, after the status stage and before the next request ends, and only
\* an unsupported request is stalled or left without an answer.
THEOREM ControlImplementsTransfer ==
    ASSUME Faults \subseteq {"cut_in"}
    PROVE  Spec => ImplementsTransfer
<1>1. Init => CtrlZlpInv /\ Transfer!TransferInit
  <2>1. Init => CtrlZlpInv
    BY DEF Init, CtrlZlpInv, ZlpInBank
  <2>2. Init => Transfer!TransferInit
    BY DEF Init, Transfer!TransferInit, Stored, NoReq
  <2>. QED  BY <2>1, <2>2
<1>2. FaithfulInv => CtrlTransferInv
  BY DEF FaithfulInv
<1>3. Civil /\ "mismatch" \notin Faults
  BY DEF Civil
<1>4. CtrlTransferInv /\ CtrlServiceInv /\ CtrlLedgerInv /\ CtrlTransferInv' /\ CtrlLedgerInv'
      /\ CtrlZlpInv /\ [Next]_vars
        => CtrlZlpInv' /\ [Transfer!TransferNext]_(Transfer!transferVars)
  BY <1>3, ContractStep
<1>5. Spec => []CtrlServiceInv
  BY <1>3, ServiceAlways
<1>6. Spec => []CtrlLedgerInv
  BY <1>3, LedgerAlways
<1>. QED  BY <1>1, <1>2, <1>4, <1>5, <1>6, FaithfulAlways, PTL
          DEF Spec, ImplementsTransfer, Transfer!TransferSpec

=============================================================================
