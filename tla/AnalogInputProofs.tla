------------------------- MODULE AnalogInputProofs -------------------------
(***************************************************************************)
(* What AnalogInput promises of request 0x19 and of the samples of a       *)
(* stream, for all the requests a host can make and ticks of TC2_Handler   *)
(* between any two accesses of the USB interrupt and any two bytes.        *)
(***************************************************************************)
EXTENDS AnalogInput, TLAPS

Holding == {"adc_cnv", "adc_tpr", "adc_rpr", "adc_rcr", "adc_tcr", "adc_wait"}
Reading == Holding \cup {"adc_take"}

\* The fields of a USART, and the range of its counters.
Fields(a) ==
    a = [tp |-> a.tp, word |-> a.word, left |-> a.left, tick |-> a.tick, rp |-> a.rp,
         got |-> a.got, rcr |-> a.rcr, full |-> a.full, out |-> a.out, acq |-> a.acq,
         reg |-> a.reg, din |-> a.din, right |-> a.right]

Usart(a) ==
    Fields(a) /\ a.left \in 0 .. 4 /\ a.rcr \in 0 .. 2 /\ (a.full => a.rcr = 0)

Usarts == adc = [c \in Converters |-> adc[c]] /\ \A c \in Converters : Usart(adc[c])

\* Where the handler is and for whom; CNV is its own while it converts, and
\* the timer's once request 0x19 has given it back.
Handling ==
    /\ pc \in Reading \cup {"idle", "ret"} /\ chan \in Channels
    /\ pc \in Reading => req.op = "temperature" /\ pass \in 1..3 /\ call \in 1..3
    /\ pc # "idle" /\ req.op = "temperature" => req.chan \in Converters
    /\ pc = "idle" => req = NoReq
    /\ IF pc \in Holding THEN cnv = "pio" ELSE cnv \in {"timer", "host"}
    /\ pc = "ret" /\ req.op = "temperature" => cnv = "timer"
    /\ calm \in 0..4 /\ (cnv # "timer" => calm = 0)
    /\ line => Quiet

\* The bytes still to come on the USART of converter c.
Coming(c) == adc[c].left + (IF pc = "adc_tcr" /\ req.chan = c THEN 2 ELSE 0)

\* They are never fewer than the receiver waits for, and a USART in step is
\* used by a tick or by the handler.
Counts ==
    \A c \in Converters :
        /\ Coming(c) >= adc[c].rcr
        /\ adc[c].left > 0 /\ ~Surplus(c) => adc[c].tick \/ (pc = "adc_wait" /\ req.chan = c)

\* Between the timer's edge of CNV and its tick a USART in step is at rest.
Edge ==
    cnv = "timer" /\ line =>
        \A c \in Converters : ~Surplus(c) => adc[c].left = 0 /\ adc[c].din = None

UsartInv == Usarts /\ Handling /\ Counts /\ Edge

-----------------------------------------------------------------------------
(* What the accesses do to a USART.                                        *)

LEMMA TprIs ==
    ASSUME NEW a, NEW w, Usart(a)
    PROVE  WriteTpr(a, w) =
           [tp |-> w, word |-> a.word, left |-> a.left, tick |-> a.tick, rp |-> a.rp,
            got |-> a.got, rcr |-> a.rcr, full |-> a.full, out |-> a.out, acq |-> a.acq,
            reg |-> a.reg, din |-> a.din, right |-> a.right]
BY DEF WriteTpr, Usart, Fields

LEMMA RprIs ==
    ASSUME NEW a, NEW t, Usart(a)
    PROVE  WriteRpr(a, t) =
           [tp |-> a.tp, word |-> a.word, left |-> a.left, tick |-> a.tick, rp |-> t,
            got |-> None, rcr |-> a.rcr, full |-> a.full, out |-> a.out, acq |-> a.acq,
            reg |-> a.reg, din |-> a.din, right |-> a.right]
<1>1. PICK n : n = None
  OBVIOUS
<1>2. WriteRpr(a, t) = [a EXCEPT !.rp = t, !.got = n]
  BY <1>1 DEF WriteRpr
<1>. QED  BY <1>1, <1>2 DEF Usart, Fields

LEMMA ConvertIs ==
    ASSUME NEW a, Usart(a)
    PROVE  Convert(a) =
           [tp |-> a.tp, word |-> a.word, left |-> a.left, tick |-> a.tick, rp |-> a.rp,
            got |-> a.got, rcr |-> a.rcr, full |-> a.full, out |-> a.acq, acq |-> a.reg,
            reg |-> a.reg, din |-> None, right |-> a.right]
<1>1. PICK n : n = None
  OBVIOUS
<1>2. Convert(a) = [a EXCEPT !.out = a.acq, !.acq = a.reg, !.din = n]
  BY <1>1 DEF Convert
<1>. QED  BY <1>1, <1>2 DEF Usart, Fields

\* With a byte waiting in US_RHR one of the two is there already.
LEMMA RcrIs ==
    ASSUME NEW a, Usart(a)
    PROVE  LET b == WriteRcr(a) IN
           /\ Usart(b) /\ ~b.full /\ b.rcr = (IF a.full THEN 1 ELSE 2)
           /\ b.tp = a.tp /\ b.word = a.word /\ b.left = a.left /\ b.tick = a.tick
           /\ b.out = a.out /\ b.acq = a.acq /\ b.reg = a.reg /\ b.din = a.din
           /\ ~a.full => b.rp = a.rp /\ b.got = a.got /\ b.right = a.right
<1>1. CASE ~a.full
  <2>1. WriteRcr(a) = [a EXCEPT !.rcr = 2]
    BY <1>1 DEF WriteRcr
  <2>. QED  BY <1>1, <2>1 DEF Usart, Fields
<1>2. CASE a.full
  <2>1. PICK b : b = Stray
    OBVIOUS
  <2>2. PICK f : f = FALSE
    OBVIOUS
  <2>3. PICK n, y : n = None /\ y = "beyond"
    OBVIOUS
  <2>11. PICK d : d = [a EXCEPT !.rcr = 2, !.full = f]
    OBVIOUS
  <2>4. WriteRcr(a) = Store(d, b)
    BY <1>2, <2>1, <2>2, <2>11 DEF WriteRcr
  <2>5. d = [tp |-> a.tp, word |-> a.word, left |-> a.left, tick |-> a.tick, rp |-> a.rp,
             got |-> a.got, rcr |-> 2, full |-> f, out |-> a.out, acq |-> a.acq,
             reg |-> a.reg, din |-> a.din, right |-> a.right]
    <3>1. Fields(a)
      BY DEF Usart
    <3>. QED  BY <2>11, <3>1 DEF Fields
  <2>6. PICK r : r = IF d.rp \in Slots THEN Word(d.got, b) = conf[d.rp] ELSE d.right
    OBVIOUS
  <2>7. d.rcr - 1 = 1
    BY <2>5
  <2>8. \/ Store(d, b) = [d EXCEPT !.rcr = 1, !.got = b]
        \/ Store(d, b) = [d EXCEPT !.rcr = 1, !.got = n, !.rp = y, !.right = r]
    BY <2>3, <2>6, <2>7 DEF Store
  <2>9. PICK e : e = Store(d, b)
    OBVIOUS
  <2>10. /\ Usart(e) /\ ~e.full /\ e.rcr = 1
         /\ e.tp = a.tp /\ e.word = a.word /\ e.left = a.left /\ e.tick = a.tick
         /\ e.out = a.out /\ e.acq = a.acq /\ e.reg = a.reg /\ e.din = a.din
    <3>1. CASE e = [d EXCEPT !.rcr = 1, !.got = b]
      <4>1. e = [tp |-> a.tp, word |-> a.word, left |-> a.left, tick |-> a.tick, rp |-> a.rp,
                 got |-> b, rcr |-> 1, full |-> f, out |-> a.out, acq |-> a.acq,
                 reg |-> a.reg, din |-> a.din, right |-> a.right]
        BY <2>5, <3>1
      <4>. QED  BY <2>2, <4>1 DEF Usart, Fields
    <3>2. CASE e = [d EXCEPT !.rcr = 1, !.got = n, !.rp = y, !.right = r]
      <4>1. e = [tp |-> a.tp, word |-> a.word, left |-> a.left, tick |-> a.tick, rp |-> y,
                 got |-> n, rcr |-> 1, full |-> f, out |-> a.out, acq |-> a.acq,
                 reg |-> a.reg, din |-> a.din, right |-> r]
        BY <2>5, <3>2
      <4>. QED  BY <2>2, <4>1 DEF Usart, Fields
    <3>. QED  BY <2>8, <2>9, <3>1, <3>2
  <2>. QED  BY <1>2, <2>4, <2>9, <2>10
<1>. QED  BY <1>1, <1>2

\* A transfer in step begins only on a transmitter that is empty.
LEMMA TcrIs ==
    ASSUME NEW a, NEW t, Usart(a)
    PROVE  LET b == WriteTcr(a, t) IN
           /\ Usart(b) /\ b.full = a.full /\ b.rcr = a.rcr /\ b.tick = t /\ b.got = a.got
           /\ b.left = (IF a.left > 2 THEN 4 ELSE a.left + 2)
           /\ b.left <= a.rcr =>
                 /\ a.left = 0 /\ b.left = 2 /\ b.word = a.tp /\ b.rp = a.rp /\ b.out = a.out
                 /\ b.acq = a.acq /\ b.reg = a.reg /\ b.din = a.din /\ b.right = a.right
<1>1. PICK m \in 0..4 : m = (IF a.left > 2 THEN 2 ELSE a.left) + 2
  BY DEF Usart, Fields
<1>2. m = IF a.left > 2 THEN 4 ELSE a.left + 2
  BY <1>1 DEF Usart, Fields
<1>3. CASE m > a.rcr
  <2>1. PICK g, j, f, q : g = Taken /\ j = Junk /\ f = FALSE /\ q = "beyond"
    OBVIOUS
  <2>2. WriteTcr(a, t) =
          [a EXCEPT !.word = j, !.left = m, !.tp = j, !.tick = t, !.rp = q,
                    !.out = j, !.acq = j, !.reg = j, !.din = g, !.right = f]
    BY <1>1, <1>3, <2>1 DEF WriteTcr
  <2>4. WriteTcr(a, t) =
          [tp |-> j, word |-> j, left |-> m, tick |-> t, rp |-> q, got |-> a.got,
           rcr |-> a.rcr, full |-> a.full, out |-> j, acq |-> j, reg |-> j, din |-> g,
           right |-> f]
    BY <2>2 DEF Usart, Fields
  <2>5. WriteTcr(a, t).left = m
    BY <2>4
  <2>6. ~(m <= a.rcr)
    BY <1>3 DEF Usart, Fields
  <2>7. Usart(WriteTcr(a, t))
    BY <2>4 DEF Usart, Fields
  <2>8. LET b == WriteTcr(a, t) IN
        b.full = a.full /\ b.rcr = a.rcr /\ b.tick = t /\ b.got = a.got
    BY <2>4
  <2>. QED  BY <1>2, <2>5, <2>6, <2>7, <2>8
<1>4. CASE ~(m > a.rcr)
  <2>3. PICK j : j = Junk
    OBVIOUS
  <2>2. WriteTcr(a, t) = [a EXCEPT !.word = a.tp, !.left = m, !.tp = j, !.tick = t]
    BY <1>1, <1>4, <2>3 DEF WriteTcr
  <2>4. WriteTcr(a, t) =
          [tp |-> j, word |-> a.tp, left |-> m, tick |-> t, rp |-> a.rp, got |-> a.got,
           rcr |-> a.rcr, full |-> a.full, out |-> a.out, acq |-> a.acq, reg |-> a.reg,
           din |-> a.din, right |-> a.right]
    BY <2>2 DEF Usart, Fields
  <2>. QED  BY <1>2, <1>4, <2>4 DEF Usart, Fields
<1>. QED  BY <1>3, <1>4

\* A byte exchanged; the receiver keeps it when it has no room for it.
LEMMA TransferIs ==
    ASSUME NEW a, Usart(a), a.left > 0,
           NEW b, b = Received(a)
    PROVE  /\ Usart(b) /\ b.left = a.left - 1 /\ (b.tick <=> a.tick /\ a.left > 1)
           /\ b.rcr = (IF a.rcr > 0 THEN a.rcr - 1 ELSE 0) /\ (b.full <=> a.rcr = 0)
           /\ b.tp = a.tp /\ b.word = a.word /\ b.out = a.out /\ b.acq = a.acq
           /\ b.din = (IF a.din = None THEN Sent(a) ELSE Taken)
           /\ b.reg = (IF a.din \in {None, Taken} THEN a.reg ELSE Word(a.din, Sent(a)))
           /\ a.rcr > 0 /\ a.got = None =>
                 b.rp = a.rp /\ b.got = Answer(a) /\ b.right = a.right
           /\ a.rcr > 0 /\ a.got # None =>
                 b.right = IF a.rp \in Slots THEN Word(a.got, Answer(a)) = conf[a.rp] ELSE a.right
<1>1. PICK l \in 0..3 : l = a.left - 1
  BY DEF Usart
<1>2. PICK t : t = (a.tick /\ a.left > 1)
  OBVIOUS
<1>3. PICK i : i = IF a.din = None THEN Sent(a) ELSE Taken
  OBVIOUS
<1>4. PICK g : g = IF a.din \in {None, Taken} THEN a.reg ELSE Word(a.din, Sent(a))
  OBVIOUS
<1>5. PICK x : x = Exchanged(a)
  OBVIOUS
<1>6. x = [a EXCEPT !.left = l, !.tick = t, !.din = i, !.reg = g]
  BY <1>1, <1>2, <1>3, <1>4, <1>5, Zenon DEF Exchanged
<1>7. x = [tp |-> a.tp, word |-> a.word, left |-> l, tick |-> t, rp |-> a.rp,
           got |-> a.got, rcr |-> a.rcr, full |-> a.full, out |-> a.out, acq |-> a.acq,
           reg |-> g, din |-> i, right |-> a.right]
  <2>1. Fields(a)
    BY DEF Usart
  <2>. QED  BY <1>6, <2>1 DEF Fields
<1>8. CASE a.rcr > 0
  <2>1. PICK w, n, y : w = Answer(a) /\ n = None /\ y = "beyond"
    OBVIOUS
  <2>2. b = Store(x, w)
    BY <1>5, <1>8, <2>1, Zenon DEF Received
  <2>3. PICK k \in 0..1 : k = a.rcr - 1
    BY <1>8 DEF Usart
  <2>4. x.rcr - 1 = k /\ x.got = a.got /\ x.rp = a.rp /\ x.right = a.right
    BY <1>7, <2>3
  <2>5. PICK r : r = IF a.rp \in Slots THEN Word(a.got, w) = conf[a.rp] ELSE a.right
    OBVIOUS
  <2>6. CASE a.got = None
    <3>1. b = [x EXCEPT !.rcr = k, !.got = w]
      BY <2>2, <2>4, <2>6 DEF Store
    <3>2. b = [tp |-> a.tp, word |-> a.word, left |-> l, tick |-> t, rp |-> a.rp,
               got |-> w, rcr |-> k, full |-> a.full, out |-> a.out, acq |-> a.acq,
               reg |-> g, din |-> i, right |-> a.right]
      BY <1>7, <3>1
    <3>3. Usart(b) /\ b.left = l /\ b.rcr = k /\ b.full = a.full /\ ~a.full
      BY <1>8, <3>2 DEF Usart, Fields
    <3>4. /\ b.tick = t /\ b.tp = a.tp /\ b.word = a.word /\ b.out = a.out /\ b.acq = a.acq
          /\ b.din = i /\ b.reg = g /\ b.rp = a.rp /\ b.got = w /\ b.right = a.right
      BY <3>2
    <3>5. b.left = a.left - 1 /\ b.rcr = (IF a.rcr > 0 THEN a.rcr - 1 ELSE 0) /\ a.rcr # 0
      BY <1>1, <1>8, <2>3, <3>3
    <3>6. ~b.full
      BY <3>3, Zenon
    <3>. QED  BY <1>2, <1>3, <1>4, <1>8, <2>1, <2>6, <3>3, <3>4, <3>5, <3>6, Zenon
  <2>7. CASE a.got # None
    <3>1. b = [x EXCEPT !.rcr = k, !.got = n, !.rp = y, !.right = r]
      BY <2>1, <2>2, <2>4, <2>5, <2>7 DEF Store
    <3>2. b = [tp |-> a.tp, word |-> a.word, left |-> l, tick |-> t, rp |-> y,
               got |-> n, rcr |-> k, full |-> a.full, out |-> a.out, acq |-> a.acq,
               reg |-> g, din |-> i, right |-> r]
      BY <1>7, <3>1
    <3>3. Usart(b) /\ b.left = l /\ b.rcr = k /\ b.full = a.full /\ ~a.full
      BY <1>8, <3>2 DEF Usart, Fields
    <3>4. /\ b.tick = t /\ b.tp = a.tp /\ b.word = a.word /\ b.out = a.out /\ b.acq = a.acq
          /\ b.din = i /\ b.reg = g /\ b.right = r
      BY <3>2
    <3>5. b.left = a.left - 1 /\ b.rcr = (IF a.rcr > 0 THEN a.rcr - 1 ELSE 0) /\ a.rcr # 0
      BY <1>1, <1>8, <2>3, <3>3
    <3>6. ~b.full
      BY <3>3, Zenon
    <3>. QED  BY <1>2, <1>3, <1>4, <1>8, <2>1, <2>5, <2>7, <3>3, <3>4, <3>5, <3>6, Zenon
  <2>. QED  BY <2>6, <2>7
<1>9. CASE ~(a.rcr > 0)
  <2>1. a.rcr = 0
    BY <1>9 DEF Usart
  <2>2. b = [x EXCEPT !.full = TRUE]
    BY <1>5, <1>9, Zenon DEF Received
  <2>3. b.full
    BY <1>7, <2>2
  <2>4. b.left = l /\ b.rcr = a.rcr
    BY <1>7, <2>2
  <2>5. Fields(b)
    BY <1>7, <2>2 DEF Fields
  <2>6. Usart(b)
    BY <1>1, <2>1, <2>3, <2>4, <2>5 DEF Usart
  <2>7. b.left = a.left - 1 /\ b.rcr = (IF a.rcr > 0 THEN a.rcr - 1 ELSE 0)
    BY <1>1, <2>1, <2>4
  <2>8. /\ b.tick = t /\ b.tp = a.tp /\ b.word = a.word /\ b.out = a.out /\ b.acq = a.acq
        /\ b.din = i /\ b.reg = g
    BY <1>7, <2>2
  <2>. QED  BY <1>2, <1>3, <1>4, <1>9, <2>1, <2>3, <2>6, <2>7, <2>8, Zenon
<1>. QED  BY <1>8, <1>9

\* Being cut off is nothing to the counters.
LEMMA LostIs ==
    ASSUME NEW a, Usart(a), NEW b, b = Lost(a)
    PROVE  Usart(b) /\ b.left = a.left /\ b.rcr = a.rcr /\ b.full = a.full /\ b.tick = a.tick
<1>1. PICK j, f : j = Junk /\ f = FALSE
  OBVIOUS
<1>2. b = [a EXCEPT !.out = j, !.acq = j, !.reg = j, !.right = f]
  BY <1>1 DEF Lost
<1>3. b = [tp |-> a.tp, word |-> a.word, left |-> a.left, tick |-> a.tick, rp |-> a.rp,
           got |-> a.got, rcr |-> a.rcr, full |-> a.full, out |-> j, acq |-> j,
           reg |-> j, din |-> a.din, right |-> f]
  BY <1>2 DEF Usart, Fields
<1>4. Usart(b)
  BY <1>3 DEF Usart, Fields
<1>. QED  BY <1>3, <1>4

\* What a tick does to a USART: in step afterwards only if it was at rest.
LEMMA TickIs ==
    ASSUME NEW a, NEW w, NEW k, Usart(a), NEW b, b = Sampled(a, w, k)
    PROVE  /\ Usart(b) /\ ~b.full /\ b.tick
           /\ b.rcr = (IF a.full THEN 1 ELSE 2)
           /\ b.left = (IF a.left > 2 THEN 4 ELSE a.left + 2)
           /\ b.left <= b.rcr =>
                 /\ ~a.full /\ a.left = 0 /\ b.left = 2 /\ b.rcr = 2
                 /\ b.word = w /\ b.rp = k /\ b.got = None /\ b.out = a.out
                 /\ b.acq = a.acq /\ b.reg = a.reg /\ b.din = a.din /\ b.right = a.right
<1>1. PICK x : x = WriteTpr(a, w)
  OBVIOUS
<1>2. PICK y : y = WriteRpr(x, k)
  OBVIOUS
<1>3. PICK z : z = WriteRcr(y)
  OBVIOUS
<1>13. PICK t : t = TRUE
  OBVIOUS
<1>4. b = WriteTcr(z, t)
  BY <1>1, <1>2, <1>3, <1>13 DEF Sampled
<1>5. /\ Usart(x) /\ x.tp = w /\ x.left = a.left /\ x.rcr = a.rcr /\ x.full = a.full
      /\ x.out = a.out /\ x.acq = a.acq /\ x.reg = a.reg /\ x.din = a.din /\ x.right = a.right
  BY <1>1, TprIs DEF Usart, Fields
<1>6. PICK n : n = None
  OBVIOUS
<1>7. y = [tp |-> x.tp, word |-> x.word, left |-> x.left, tick |-> x.tick, rp |-> k,
           got |-> n, rcr |-> x.rcr, full |-> x.full, out |-> x.out, acq |-> x.acq,
           reg |-> x.reg, din |-> x.din, right |-> x.right]
  BY <1>2, <1>5, <1>6, RprIs
<1>8. /\ Usart(y) /\ y.tp = w /\ y.left = a.left /\ y.rcr = a.rcr /\ y.full = a.full
      /\ y.rp = k /\ y.got = None
      /\ y.out = a.out /\ y.acq = a.acq /\ y.reg = a.reg /\ y.din = a.din /\ y.right = a.right
  <2>1. Usart(y)
    BY <1>5, <1>7 DEF Usart, Fields
  <2>. QED  BY <1>5, <1>6, <1>7, <2>1
<1>9. /\ Usart(z) /\ ~z.full /\ z.rcr = (IF y.full THEN 1 ELSE 2) /\ z.tp = y.tp
      /\ z.left = y.left /\ z.out = y.out /\ z.acq = y.acq /\ z.reg = y.reg /\ z.din = y.din
      /\ ~y.full => z.rp = y.rp /\ z.got = y.got /\ z.right = y.right
  BY <1>3, <1>8, RcrIs
<1>10. /\ Usart(b) /\ b.full = z.full /\ b.rcr = z.rcr /\ b.tick = t /\ b.got = z.got
       /\ b.left = (IF z.left > 2 THEN 4 ELSE z.left + 2)
       /\ b.left <= z.rcr =>
             /\ z.left = 0 /\ b.left = 2 /\ b.word = z.tp /\ b.rp = z.rp /\ b.out = z.out
             /\ b.acq = z.acq /\ b.reg = z.reg /\ b.din = z.din /\ b.right = z.right
  BY <1>4, <1>9, TcrIs
<1>11. b.rcr = (IF a.full THEN 1 ELSE 2) /\ b.left = (IF a.left > 2 THEN 4 ELSE a.left + 2)
  BY <1>8, <1>9, <1>10
<1>12. ASSUME b.left <= b.rcr PROVE ~a.full /\ a.left = 0 /\ b.left = 2 /\ b.rcr = 2
  BY <1>11, <1>12 DEF Usart
<1>. QED  BY <1>8, <1>9, <1>10, <1>11, <1>12, <1>13

LEMMA Accessed ==
    ASSUME NEW c \in Converters, NEW e, Usarts, adc' = [adc EXCEPT ![c] = e]
    PROVE  /\ adc' = [d \in Converters |-> adc'[d]] /\ adc'[c] = e
           /\ \A d \in Converters : d # c => adc'[d] = adc[d]
<1>1. adc = [d \in Converters |-> adc[d]]
  BY DEF Usarts
<1>. QED  BY <1>1

\* The counters of the USART of converter c stay.
Still(c) ==
    /\ adc'[c].left = adc[c].left /\ adc'[c].rcr = adc[c].rcr
    /\ adc'[c].full = adc[c].full /\ adc'[c].tick = adc[c].tick

LEMMA Converts ==
    ASSUME NEW a, Usart(a), NEW b, b = Convert(a)
    PROVE  /\ Usart(b) /\ b.left = a.left /\ b.rcr = a.rcr /\ b.full = a.full /\ b.tick = a.tick
           /\ b.tp = a.tp /\ b.word = a.word /\ b.rp = a.rp /\ b.got = a.got
           /\ b.out = a.acq /\ b.acq = a.reg /\ b.reg = a.reg /\ b.din = None /\ b.right = a.right
<1>1. PICK n : n = None
  OBVIOUS
<1>2. b = [tp |-> a.tp, word |-> a.word, left |-> a.left, tick |-> a.tick, rp |-> a.rp,
           got |-> a.got, rcr |-> a.rcr, full |-> a.full, out |-> a.acq, acq |-> a.reg,
           reg |-> a.reg, din |-> n, right |-> a.right]
  BY <1>1, ConvertIs
<1>3. Usart(b)
  BY <1>2 DEF Usart, Fields
<1>. QED  BY <1>1, <1>2, <1>3

LEMMA Mapped ==
    ASSUME Usarts, adc' = [c \in Converters |-> Convert(adc[c])]
    PROVE  Usarts' /\ \A d \in Converters : adc'[d] = Convert(adc[d]) /\ Still(d)
<1>1. \A d \in Converters : adc'[d] = Convert(adc[d])
  OBVIOUS
<1>2. \A d \in Converters : Usart(adc'[d]) /\ Still(d)
  BY <1>1, Converts DEF Usarts, Still
<1>. QED  BY <1>1, <1>2 DEF Usarts

LEMMA Points ==
    ASSUME NEW a, NEW w, NEW b, Usart(a), b = WriteTpr(a, w) \/ b = WriteRpr(a, w)
    PROVE  /\ Usart(b) /\ b.left = a.left /\ b.rcr = a.rcr /\ b.full = a.full /\ b.tick = a.tick
           /\ b.out = a.out /\ b.acq = a.acq /\ b.reg = a.reg /\ b.din = a.din
<1>1. CASE b = WriteTpr(a, w)
  <2>1. b = [tp |-> w, word |-> a.word, left |-> a.left, tick |-> a.tick, rp |-> a.rp,
             got |-> a.got, rcr |-> a.rcr, full |-> a.full, out |-> a.out, acq |-> a.acq,
             reg |-> a.reg, din |-> a.din, right |-> a.right]
    BY <1>1, TprIs
  <2>2. Usart(b)
    BY <2>1 DEF Usart, Fields
  <2>. QED  BY <1>1, <2>1, <2>2
<1>2. CASE b = WriteRpr(a, w)
  <2>0. PICK n : n = None
    OBVIOUS
  <2>1. b = [tp |-> a.tp, word |-> a.word, left |-> a.left, tick |-> a.tick, rp |-> w,
             got |-> n, rcr |-> a.rcr, full |-> a.full, out |-> a.out, acq |-> a.acq,
             reg |-> a.reg, din |-> a.din, right |-> a.right]
    BY <1>2, <2>0, RprIs
  <2>2. Usart(b)
    BY <2>1 DEF Usart, Fields
  <2>. QED  BY <1>2, <2>0, <2>1, <2>2
<1>. QED  BY <1>1, <1>2

\* Steps that move no counter.
LEMMA Keeps ==
    ASSUME UsartInv, \A c \in Converters : Still(c), pc # "adc_tcr", pc' # "adc_tcr",
           pc = "adc_wait" => (pc' = "adc_wait" /\ req' = req) \/ adc[req.chan].rcr = 0
    PROVE  Counts' /\ \A c \in Converters : Surplus(c)' = Surplus(c)
<1>1. ASSUME NEW c \in Converters PROVE (Surplus(c)' = Surplus(c)) /\ Coming(c)' = Coming(c)
  BY <1>1 DEF Still, Surplus, Coming
<1>2. ASSUME NEW c \in Converters
      PROVE  /\ Coming(c)' >= adc'[c].rcr
             /\ adc'[c].left > 0 /\ ~Surplus(c)' =>
                    adc'[c].tick \/ (pc' = "adc_wait" /\ req'.chan = c)
  <2>1. Still(c) /\ Coming(c) >= adc[c].rcr
    BY <1>2 DEF UsartInv, Counts
  <2>2. adc[c].left > 0 /\ ~Surplus(c) => adc[c].tick \/ (pc = "adc_wait" /\ req.chan = c)
    BY <1>2 DEF UsartInv, Counts
  <2>3. Usart(adc[c])
    BY <1>2 DEF UsartInv, Usarts
  <2>4. adc[c].rcr = 0 => Surplus(c) \/ adc[c].left = 0
    BY <2>3 DEF Surplus, Usart
  <2>5. Coming(c)' >= adc'[c].rcr
    BY <1>1, <1>2, <2>1 DEF Still
  <2>6. ASSUME adc'[c].left > 0, ~Surplus(c)'
        PROVE  adc'[c].tick \/ (pc' = "adc_wait" /\ req'.chan = c)
    <3>1. adc[c].left > 0 /\ ~Surplus(c)
      BY <1>1, <1>2, <2>1, <2>6 DEF Still
    <3>2. CASE adc[c].tick
      BY <2>1, <3>2 DEF Still
    <3>3. CASE pc = "adc_wait" /\ req.chan = c
      <4>1. adc[c].rcr # 0
        BY <2>3, <2>4, <3>1 DEF Usart
      <4>. QED  BY <3>3, <4>1
    <3>. QED  BY <2>2, <3>1, <3>2, <3>3
  <2>. QED  BY <2>5, <2>6
<1>. QED  BY <1>1, <1>2 DEF Counts

-----------------------------------------------------------------------------
(* The USARTs at every step of the handler.                                *)

LEMMA UsartFirst == Init => UsartInv
<1>. SUFFICES ASSUME Init PROVE UsartInv
  OBVIOUS
<1>1. ASSUME NEW c \in Converters
      PROVE  /\ Usart(adc[c]) /\ adc[c].left = 0 /\ adc[c].rcr = 0 /\ ~adc[c].full /\ ~adc[c].tick
  BY <1>1 DEF Init, Usart, Fields
<1>2. adc = [c \in Converters |-> adc[c]]
  BY DEF Init
<1>3. Handling
  BY <1>1 DEF Init, Handling, Reading, Holding, Channels, Quiet
<1>4. pc = "idle" /\ ~line
  BY DEF Init
<1>5. Counts
  BY <1>1, <1>4 DEF Counts, Coming
<1>. QED  BY <1>1, <1>2, <1>3, <1>4, <1>5 DEF UsartInv, Usarts, Edge

LEMMA UsartStep ==
    ASSUME UsartInv, [Next]_vars
    PROVE  UsartInv' /\ \A c \in Converters : Surplus(c) => Surplus(c)'
<1>. DEFINE Goal == UsartInv' /\ \A c \in Converters : Surplus(c) => Surplus(c)'
<1>0. Usarts /\ Handling /\ Counts /\ Edge
  BY DEF UsartInv
<1>1. ASSUME adc' = adc, line' = line, cnv' = cnv, pc # "adc_tcr", pc' # "adc_tcr",
             pc = "adc_wait" => pc' = "adc_wait" /\ req' = req, Handling'
      PROVE  Goal
  <2>1. \A c \in Converters : Still(c)
    BY <1>1 DEF Still
  <2>2. Counts' /\ \A c \in Converters : Surplus(c)' = Surplus(c)
    BY <1>1, <2>1, Keeps
  <2>3. Usarts'
    BY <1>0, <1>1 DEF Usarts
  <2>4. Edge'
    BY <1>0, <1>1, <2>2 DEF Edge
  <2>. QED  BY <1>1, <2>2, <2>3, <2>4 DEF UsartInv
<1>2. CASE \E r \in Requests : SetConf(r) \/ Sampling(r) \/ Temperature(r)
  <2>1. PICK r \in Requests : SetConf(r) \/ Sampling(r) \/ Temperature(r)
    BY <1>2
  <2>2. pc = "idle" /\ adc' = adc /\ line' = line /\ cnv' = cnv /\ req' = r /\ (calm' = 0 \/ calm' = calm)
    BY <2>1 DEF SetConf, Sampling, Temperature, Begin, sampling
  <2>3. /\ pc' \in {"ret", "adc_take"} /\ chan' \in Channels /\ calm' \in 0..4
        /\ pc' = "ret" => r.op # "temperature"
        /\ pc' = "adc_take" => r.op = "temperature" /\ pass' \in 1..3 /\ call' \in 1..3
    BY <1>0, <2>1 DEF SetConf, Sampling, Temperature, Begin, sampling, Handling, Channels
  <2>4. r.op = "temperature" => r.chan \in Converters
    BY RequestsAssumption
  <2>5. Handling'
    BY <1>0, <2>2, <2>3, <2>4 DEF Handling, Reading, Holding, Quiet
  <2>. QED  BY <1>1, <2>2, <2>3, <2>5
<1>20. ASSUME NEW r \in Requests, SetPin(r) PROVE Goal
  <2>1. /\ pc = "idle" /\ pc' = "ret" /\ req' = r /\ r.op = "pin" /\ calm' = 0
        /\ line' = line /\ chan' = chan
        /\ cnv' \in {cnv, "host"} /\ (cnv' = "host" \/ adc' = adc)
        /\ adc' = adc \/ adc' = [c \in Converters |-> Convert(adc[c])]
    BY <1>20 DEF SetPin, Begin, sampling
  <2>2. Usarts' /\ \A c \in Converters : Still(c)
    <3>1. CASE adc' = adc
      BY <1>0, <3>1 DEF Usarts, Still
    <3>2. CASE adc' = [c \in Converters |-> Convert(adc[c])]
      BY <1>0, <3>2, Mapped
    <3>. QED  BY <2>1, <3>1, <3>2
  <2>3. Counts' /\ \A c \in Converters : Surplus(c)' = Surplus(c)
    BY <2>1, <2>2, Keeps
  <2>4. Handling'
    <3>1. cnv \in {"timer", "host"}
      BY <1>0, <2>1 DEF Handling, Holding
    <3>2. line => Quiet'
      BY <1>0, <2>2 DEF Handling, Quiet, Still
    <3>. QED  BY <1>0, <2>1, <3>1, <3>2 DEF Handling, Reading, Holding
  <2>5. Edge'
    BY <1>0, <2>1, <2>3 DEF Edge
  <2>. QED  BY <2>2, <2>3, <2>4, <2>5 DEF UsartInv
<1>3. CASE AdcTake
  <2>1. /\ pc = "adc_take" /\ pc' = "adc_cnv" /\ calm' = 0 /\ req' = req /\ pass' = pass
        /\ call' = call /\ adc' = adc /\ cnv' = "pio" /\ chan' = chan /\ line' = line
    BY <1>3 DEF AdcTake, Step, sampling
  <2>2. \A c \in Converters : Still(c)
    BY <2>1 DEF Still
  <2>3. Counts' /\ \A c \in Converters : Surplus(c)' = Surplus(c)
    BY <2>1, <2>2, Keeps
  <2>4. Usarts'
    BY <1>0, <2>1 DEF Usarts
  <2>5. Handling'
    BY <1>0, <2>1 DEF Handling, Reading, Holding, Quiet
  <2>6. Edge'
    BY <2>1 DEF Edge
  <2>. QED  BY <2>3, <2>4, <2>5, <2>6 DEF UsartInv
<1>4. CASE AdcCnv
  <2>1. /\ pc = "adc_cnv" /\ pc' = "adc_tpr" /\ calm' = 0 /\ req' = req /\ pass' = pass
        /\ call' = call /\ cnv' = cnv /\ chan' = chan /\ line' = line
        /\ adc' = [c \in Converters |-> Convert(adc[c])]
    BY <1>4 DEF AdcCnv, Step, sampling
  <2>2. Usarts' /\ \A c \in Converters : Still(c)
    BY <1>0, <2>1, Mapped
  <2>3. Counts' /\ \A c \in Converters : Surplus(c)' = Surplus(c)
    BY <2>1, <2>2, Keeps
  <2>5. Handling'
    BY <1>0, <2>1, <2>2 DEF Handling, Reading, Holding, Quiet, Still
  <2>6. Edge'
    BY <1>0, <2>1 DEF Edge, Handling, Holding
  <2>. QED  BY <2>2, <2>3, <2>5, <2>6 DEF UsartInv
<1>5. CASE AdcTpr \/ AdcRpr
  <2>1. /\ pc \in {"adc_tpr", "adc_rpr"} /\ pc' \in {"adc_rpr", "adc_rcr"} /\ calm' = 0
        /\ req' = req /\ pass' = pass /\ call' = call /\ cnv' = cnv /\ chan' = chan /\ line' = line
    BY <1>5 DEF AdcTpr, AdcRpr, Access, Step, sampling
  <2>2. req.chan \in Converters
    BY <1>0, <2>1 DEF Handling, Reading, Holding
  <2>3. PICK e, w : /\ adc' = [adc EXCEPT ![req.chan] = e]
                    /\ e = WriteTpr(adc[req.chan], w) \/ e = WriteRpr(adc[req.chan], w)
    BY <1>5 DEF AdcTpr, AdcRpr, Access
  <2>4. /\ adc' = [d \in Converters |-> adc'[d]] /\ adc'[req.chan] = e
        /\ \A d \in Converters : d # req.chan => adc'[d] = adc[d]
    BY <1>0, <2>2, <2>3, Accessed
  <2>5. Usart(adc[req.chan])
    BY <1>0, <2>2 DEF Usarts
  <2>6. Usart(adc'[req.chan]) /\ Still(req.chan)
    BY <2>3, <2>4, <2>5, Points DEF Still
  <2>7. Usarts' /\ \A c \in Converters : Still(c)
    BY <1>0, <2>4, <2>6 DEF Usarts, Still
  <2>8. Counts' /\ \A c \in Converters : Surplus(c)' = Surplus(c)
    BY <2>1, <2>7, Keeps
  <2>9. Handling'
    BY <1>0, <2>1, <2>7 DEF Handling, Reading, Holding, Quiet, Still
  <2>10. Edge'
    BY <1>0, <2>1 DEF Edge, Handling, Holding
  <2>. QED  BY <2>7, <2>8, <2>9, <2>10 DEF UsartInv
<1>6. CASE AdcRcr
  <2>1. /\ pc = "adc_rcr" /\ pc' = "adc_tcr" /\ calm' = 0
        /\ req' = req /\ pass' = pass /\ call' = call /\ cnv' = cnv /\ chan' = chan /\ line' = line
    BY <1>6 DEF AdcRcr, Access, Step, sampling
  <2>2. req.chan \in Converters
    BY <1>0, <2>1 DEF Handling, Reading, Holding
  <2>3. PICK a, e : a = adc[req.chan] /\ e = WriteRcr(a) /\ adc' = [adc EXCEPT ![req.chan] = e]
    BY <1>6 DEF AdcRcr, Access
  <2>4. /\ adc' = [d \in Converters |-> adc'[d]] /\ adc'[req.chan] = e
        /\ \A d \in Converters : d # req.chan => adc'[d] = adc[d]
    BY <1>0, <2>2, <2>3, Accessed
  <2>5. Usart(a)
    BY <1>0, <2>2, <2>3 DEF Usarts
  <2>6. Usart(e) /\ ~e.full /\ e.rcr = (IF a.full THEN 1 ELSE 2) /\ e.left = a.left /\ e.tick = a.tick
    BY <2>3, <2>5, RcrIs
  <2>7. Usarts'
    BY <1>0, <2>4, <2>6 DEF Usarts
  <2>8. Handling'
    <3>1. \A d \in Converters : adc'[d].tick = adc[d].tick
      BY <2>2, <2>3, <2>4, <2>6
    <3>. QED  BY <1>0, <2>1, <3>1 DEF Handling, Reading, Holding, Quiet
  <2>9. Edge'
    BY <1>0, <2>1 DEF Edge, Handling, Holding
  <2>10. /\ Coming(req.chan)' >= adc'[req.chan].rcr
         /\ adc'[req.chan].left > 0 => Surplus(req.chan)'
         /\ Surplus(req.chan) => Surplus(req.chan)'
    BY <2>1, <2>3, <2>4, <2>5, <2>6 DEF Coming, Surplus, Usart
  <2>11. ASSUME NEW d \in Converters, d # req.chan
         PROVE  (Surplus(d)' <=> Surplus(d)) /\ Coming(d)' = Coming(d) /\ adc'[d] = adc[d]
    BY <2>1, <2>4, <2>11 DEF Surplus, Coming
  <2>12. Counts'
    BY <1>0, <2>1, <2>10, <2>11 DEF Counts
  <2>13. \A d \in Converters : Surplus(d) => Surplus(d)'
    <3>1. ASSUME NEW d \in Converters, d = req.chan, Surplus(d) PROVE Surplus(d)'
      BY <2>1, <2>10, <3>1 DEF Surplus
    <3>. QED  BY <2>11, <3>1
  <2>. QED  BY <2>7, <2>8, <2>9, <2>12, <2>13 DEF UsartInv
<1>7. CASE AdcTcr
  <2>1. /\ pc = "adc_tcr" /\ pc' = "adc_wait" /\ calm' = 0
        /\ req' = req /\ pass' = pass /\ call' = call /\ cnv' = cnv /\ chan' = chan /\ line' = line
    BY <1>7 DEF AdcTcr, Access, Step, sampling
  <2>2. req.chan \in Converters
    BY <1>0, <2>1 DEF Handling, Reading, Holding
  <2>3. PICK a, e, f : a = adc[req.chan] /\ f = FALSE /\ e = WriteTcr(a, f) /\ adc' = [adc EXCEPT ![req.chan] = e]
    BY <1>7 DEF AdcTcr, Access
  <2>4. /\ adc' = [d \in Converters |-> adc'[d]] /\ adc'[req.chan] = e
        /\ \A d \in Converters : d # req.chan => adc'[d] = adc[d]
    BY <1>0, <2>2, <2>3, Accessed
  <2>5. Usart(a)
    BY <1>0, <2>2, <2>3 DEF Usarts
  <2>6. /\ Usart(e) /\ e.full = a.full /\ e.rcr = a.rcr /\ e.tick = f
        /\ e.left = (IF a.left > 2 THEN 4 ELSE a.left + 2)
    BY <2>3, <2>5, TcrIs
  <2>7. Usarts'
    BY <1>0, <2>4, <2>6 DEF Usarts
  <2>8. Handling'
    <3>1. \A d \in Converters : adc'[d].tick => adc[d].tick
      BY <2>2, <2>3, <2>4, <2>6
    <3>. QED  BY <1>0, <2>1, <3>1 DEF Handling, Reading, Holding, Quiet
  <2>9. Edge'
    BY <1>0, <2>1 DEF Edge, Handling, Holding
  <2>10. /\ Coming(req.chan)' >= adc'[req.chan].rcr
         /\ Surplus(req.chan) => Surplus(req.chan)'
    BY <2>1, <2>3, <2>4, <2>5, <2>6 DEF Coming, Surplus, Usart
  <2>11. ASSUME NEW d \in Converters, d # req.chan
         PROVE  (Surplus(d)' <=> Surplus(d)) /\ Coming(d)' = Coming(d) /\ adc'[d] = adc[d]
    BY <2>1, <2>4, <2>11 DEF Surplus, Coming
  <2>12. Counts'
    BY <1>0, <2>1, <2>10, <2>11 DEF Counts
  <2>13. \A d \in Converters : Surplus(d) => Surplus(d)'
    <3>1. ASSUME NEW d \in Converters, d = req.chan, Surplus(d) PROVE Surplus(d)'
      BY <2>1, <2>10, <3>1 DEF Surplus
    <3>. QED  BY <2>11, <3>1
  <2>. QED  BY <2>7, <2>8, <2>9, <2>12, <2>13 DEF UsartInv
<1>8. CASE AdcWait
  <2>1. /\ pc = "adc_wait" /\ calm' = 0 /\ req' = req /\ chan' = chan /\ line' = line
        /\ adc[req.chan].rcr = 0
    BY <1>8 DEF AdcWait, Step, sampling, EndRx
  <2>2. \/ pass < 3 /\ pc' = "adc_cnv" /\ pass' = pass + 1 /\ call' = call /\ cnv' = cnv /\ adc' = adc
        \/ /\ ~(pass < 3) /\ pc' = (IF call < 3 THEN "adc_take" ELSE "ret") /\ cnv' = "timer"
           /\ pass' = 1 /\ call' = (IF call < 3 THEN call + 1 ELSE call)
           /\ adc' = IF line THEN [c \in Converters |-> Convert(adc[c])] ELSE adc
    BY <1>8 DEF AdcWait, Step, Calls
  <2>3. pass \in 1..3 /\ call \in 1..3 /\ req.chan \in Converters /\ req.op = "temperature"
    BY <1>0, <2>1 DEF Handling, Reading, Holding
  <2>4. Usarts' /\ \A c \in Converters : Still(c)
    <3>1. CASE adc' = adc
      BY <1>0, <3>1 DEF Usarts, Still
    <3>2. CASE adc' = [c \in Converters |-> Convert(adc[c])]
      BY <1>0, <3>2, Mapped
    <3>. QED  BY <2>2, <3>1, <3>2
  <2>5. pc' \in {"adc_cnv", "adc_take", "ret"}
    BY <2>2
  <2>6. Counts' /\ \A c \in Converters : Surplus(c)' = Surplus(c)
    BY <2>1, <2>4, <2>5, Keeps
  <2>7. Handling'
    <3>1. Quiet => Quiet'
      BY <2>4 DEF Quiet, Still
    <3>2. CASE pass < 3
      BY <1>0, <2>1, <2>2, <2>3, <3>1, <3>2 DEF Handling, Reading, Holding
    <3>3. CASE ~(pass < 3)
      <4>1. pass' \in 1..3 /\ call' \in 1..3
        BY <2>2, <2>3, <3>3
      <4>. QED  BY <1>0, <2>1, <2>2, <2>3, <3>1, <3>3, <4>1 DEF Handling, Reading, Holding
    <3>. QED  BY <3>2, <3>3
  <2>8. Edge'
    <3>. SUFFICES ASSUME cnv' = "timer", line', NEW c \in Converters, ~Surplus(c)'
                  PROVE  adc'[c].left = 0 /\ adc'[c].din = None
      BY DEF Edge
    <3>1. cnv = "pio" /\ line /\ Quiet
      BY <1>0, <2>1 DEF Handling, Holding
    <3>2. adc' = [d \in Converters |-> Convert(adc[d])]
      BY <2>2, <3>1
    <3>3. Usart(adc[c]) /\ adc'[c] = Convert(adc[c]) /\ ~adc[c].tick
      BY <1>0, <3>1, <3>2 DEF Usarts, Quiet
    <3>4. adc'[c].din = None /\ adc'[c].left = adc[c].left
      BY <3>3, Converts
    <3>5. ~Surplus(c)
      BY <2>6
    <3>6. adc[c].left > 0 => req.chan = c
      BY <1>0, <3>3, <3>5 DEF Counts
    <3>7. CASE adc[c].left > 0
      BY <2>1, <3>3, <3>5, <3>6, <3>7 DEF Surplus, Usart
    <3>. QED  BY <3>3, <3>4, <3>7 DEF Usart
  <2>. QED  BY <2>4, <2>6, <2>7, <2>8 DEF UsartInv
<1>9. CASE Return \/ Sof \/ UNCHANGED vars
  <2>1. /\ adc' = adc /\ line' = line /\ cnv' = cnv /\ chan' = chan /\ calm' = calm
        /\ (pc' = pc /\ req' = req /\ pass' = pass /\ call' = call) \/ (pc = "ret" /\ pc' = "idle" /\ req' = NoReq)
    BY <1>9 DEF Return, Sof, vars, sampling, handler
  <2>2. Handling'
    BY <1>0, <2>1 DEF Handling, Reading, Holding, Quiet, NoReq
  <2>3. CASE pc # "adc_tcr"
    BY <1>1, <2>1, <2>2, <2>3
  <2>4. CASE pc = "adc_tcr"
    <3>1. pc' = pc /\ req' = req
      BY <2>1, <2>4
    <3>2. \A c \in Converters : Surplus(c)' = Surplus(c) /\ Coming(c)' = Coming(c)
      BY <2>1, <3>1 DEF Surplus, Coming
    <3>3. Counts' /\ Edge' /\ Usarts'
      BY <1>0, <2>1, <3>1, <3>2 DEF Counts, Edge, Usarts
    <3>. QED  BY <2>2, <3>2, <3>3 DEF UsartInv
  <2>. QED  BY <2>3, <2>4
<1>10. CASE \E c \in Converters : AdcTransfer(c)
  <2>1. PICK c \in Converters : AdcTransfer(c)
    BY <1>10
  <2>2. /\ adc[c].left > 0 /\ line' = line /\ chan' = chan /\ req' = req /\ pc' = pc
        /\ pass' = pass /\ call' = call /\ cnv' = cnv /\ calm' = calm
    BY <2>1 DEF AdcTransfer, sampling, handler
  <2>3. PICK a, e : /\ a = adc[c] /\ adc' = [adc EXCEPT ![c] = e]
                    /\ e = Received(a) \/ e = Lost(Received(a))
    BY <2>1 DEF AdcTransfer
  <2>4. /\ adc' = [d \in Converters |-> adc'[d]] /\ adc'[c] = e
        /\ \A d \in Converters : d # c => adc'[d] = adc[d]
    BY <1>0, <2>3, Accessed
  <2>5. Usart(a)
    BY <1>0, <2>3 DEF Usarts
  <2>6. /\ Usart(e) /\ e.left = a.left - 1 /\ (e.tick <=> a.tick /\ a.left > 1)
        /\ e.rcr = (IF a.rcr > 0 THEN a.rcr - 1 ELSE 0) /\ (e.full <=> a.rcr = 0)
    <3>1. a.left > 0
      BY <2>2, <2>3
    <3>2. PICK b : b = Received(a)
      OBVIOUS
    <3>3. /\ Usart(b) /\ b.left = a.left - 1 /\ (b.tick <=> a.tick /\ a.left > 1)
          /\ b.rcr = (IF a.rcr > 0 THEN a.rcr - 1 ELSE 0) /\ (b.full <=> a.rcr = 0)
      BY <2>5, <3>1, <3>2, TransferIs
    <3>4. CASE e = b
      BY <3>3, <3>4
    <3>5. CASE e = Lost(b)
      <4>1. Usart(e) /\ e.left = b.left /\ e.rcr = b.rcr /\ e.full = b.full /\ e.tick = b.tick
        BY <3>3, <3>5, LostIs
      <4>. QED  BY <3>3, <4>1
    <3>. QED  BY <2>3, <3>2, <3>4, <3>5
  <2>7. Usarts'
    BY <1>0, <2>4, <2>6 DEF Usarts
  <2>8. Handling'
    <3>1. Quiet => Quiet'
      BY <2>3, <2>4, <2>6 DEF Quiet
    <3>. QED  BY <1>0, <2>2, <3>1 DEF Handling
  <2>9. Surplus(c) => Surplus(c)'
    BY <2>2, <2>3, <2>4, <2>5, <2>6 DEF Surplus, Usart
  <2>10. Coming(c)' >= adc'[c].rcr
    BY <1>0, <2>2, <2>3, <2>4, <2>5, <2>6 DEF Counts, Coming, Usart
  <2>11. ASSUME NEW d \in Converters, d # c
         PROVE  (Surplus(d)' <=> Surplus(d)) /\ Coming(d)' = Coming(d) /\ adc'[d] = adc[d]
    BY <2>2, <2>4, <2>11 DEF Surplus, Coming
  <2>12. Counts'
    <3>1. adc'[c].left > 0 /\ ~Surplus(c)' => adc'[c].tick \/ (pc' = "adc_wait" /\ req'.chan = c)
      <4>1. adc[c].left > 0 /\ ~Surplus(c) => adc[c].tick \/ (pc = "adc_wait" /\ req.chan = c)
        BY <1>0 DEF Counts
      <4>2. e.left > 0 => a.left > 1
        BY <2>5, <2>6 DEF Usart
      <4>. QED  BY <2>2, <2>3, <2>4, <2>6, <2>9, <4>1, <4>2
    <3>. QED  BY <1>0, <2>2, <2>10, <2>11, <3>1 DEF Counts
  <2>13. Edge'
    <3>. SUFFICES ASSUME cnv' = "timer", line', NEW d \in Converters, ~Surplus(d)'
                  PROVE  adc'[d].left = 0 /\ adc'[d].din = None
      BY DEF Edge
    <3>1. \A d1 \in Converters : ~Surplus(d1) => adc[d1].left = 0 /\ adc[d1].din = None
      BY <1>0, <2>2 DEF Edge
    <3>2. CASE d = c
      BY <2>2, <2>9, <3>1, <3>2
    <3>3. CASE d # c
      BY <2>11, <3>1, <3>3
    <3>. QED  BY <3>2, <3>3
  <2>. QED  BY <2>7, <2>8, <2>9, <2>11, <2>12, <2>13 DEF UsartInv
<1>11. CASE CompareRb
  <2>1. /\ line' = TRUE /\ Quiet /\ chan' = chan /\ req' = req /\ pc' = pc
        /\ pass' = pass /\ call' = call /\ cnv' = cnv /\ calm' = calm
        /\ adc' = IF cnv = "timer" THEN [c \in Converters |-> Convert(adc[c])] ELSE adc
    BY <1>11 DEF CompareRb, handler
  <2>2. Usarts' /\ \A c \in Converters : Still(c)
    <3>1. CASE adc' = adc
      BY <1>0, <3>1 DEF Usarts, Still
    <3>2. CASE adc' = [c \in Converters |-> Convert(adc[c])]
      BY <1>0, <3>2, Mapped
    <3>. QED  BY <2>1, <3>1, <3>2
  <2>3. \A c \in Converters : (Surplus(c)' = Surplus(c)) /\ Coming(c)' = Coming(c)
    BY <2>1, <2>2 DEF Surplus, Coming, Still
  <2>4. Counts'
    BY <1>0, <2>1, <2>2, <2>3 DEF Counts, Still
  <2>5. Quiet'
    BY <2>1, <2>2 DEF Quiet, Still
  <2>6. Handling'
    BY <1>0, <2>1, <2>5 DEF Handling
  <2>7. Edge'
    <3>. SUFFICES ASSUME cnv' = "timer", NEW c \in Converters, ~Surplus(c)'
                  PROVE  adc'[c].left = 0 /\ adc'[c].din = None
      BY DEF Edge
    <3>1. cnv = "timer" /\ pc # "adc_wait" /\ ~Surplus(c) /\ ~adc[c].tick
      BY <1>0, <2>1, <2>3 DEF Handling, Holding, Quiet
    <3>2. Usart(adc[c]) /\ adc'[c] = Convert(adc[c])
      BY <1>0, <2>1, <3>1 DEF Usarts
    <3>3. ~(adc[c].left > 0)
      BY <1>0, <3>1 DEF Counts
    <3>4. adc'[c].din = None /\ adc'[c].left = adc[c].left
      BY <3>2, Converts
    <3>. QED  BY <3>2, <3>3, <3>4 DEF Usart
  <2>. QED  BY <2>2, <2>3, <2>4, <2>6, <2>7 DEF UsartInv
<1>12. CASE TC2_Handler
  <2>1. /\ line' = FALSE /\ chan' = Other(chan) /\ req' = req /\ pc' = pc
        /\ pass' = pass /\ call' = call /\ cnv' = cnv
        /\ calm' = IF cnv # "timer" THEN 0 ELSE IF calm < 4 THEN calm + 1 ELSE 4
    BY <1>12 DEF TC2_Handler, handler
  <2>3. ASSUME NEW c \in Converters
        PROVE  LET a == adc[c]  b == adc'[c] IN
               /\ Usart(a) /\ Usart(b) /\ ~b.full /\ b.tick /\ b.rcr = (IF a.full THEN 1 ELSE 2)
               /\ b.left = (IF a.left > 2 THEN 4 ELSE a.left + 2)
    <3>1. Usart(adc[c])
      BY <1>0, <2>3 DEF Usarts
    <3>2. PICK w, k : adc'[c] = Sampled(adc[c], w, k)
      BY <1>12, <2>3 DEF TC2_Handler
    <3>. QED  BY <3>1, <3>2, TickIs
  <2>4. Usarts'
    <3>1. adc' = [c \in Converters |-> adc'[c]]
      BY <1>12 DEF TC2_Handler
    <3>. QED  BY <2>3, <3>1 DEF Usarts
  <2>5. Handling'
    <3>1. calm' \in 0..4 /\ chan' \in Channels /\ (cnv' # "timer" => calm' = 0)
      BY <1>0, <2>1 DEF Handling, Channels, Other
    <3>. QED  BY <1>0, <2>1, <3>1 DEF Handling
  <2>6. \A c \in Converters : Surplus(c) => Surplus(c)'
    BY <2>1, <2>3 DEF Surplus, Usart
  <2>7. Counts'
    BY <2>1, <2>3 DEF Counts, Coming, Usart
  <2>8. Edge'
    BY <2>1 DEF Edge
  <2>. QED  BY <2>4, <2>5, <2>6, <2>7, <2>8 DEF UsartInv
<1>. QED  BY <1>2, <1>3, <1>4, <1>5, <1>6, <1>7, <1>8, <1>9, <1>10, <1>11, <1>12, <1>20
          DEF Next, Request, Handler, Pdc

-----------------------------------------------------------------------------
(* The samples of a stream.                                                *)

\* The slots of the last tick and of the one before it.
Last(c)   == TickSlots(Other(chan))[c]
Before(c) == TickSlots(chan)[c]

First(x) == <<x, 1>>

\* A USART in step, n ticks after the last disturbance: what is on its way
\* and the configurations the converter holds are those of the last ticks.
Following(c) ==
    LET a == adc[c]  w == conf[Last(c)]  v == conf[Before(c)] IN
    /\ a.left > 0 => a.word = w /\ a.rp = Last(c)
    /\ a.left = 2 => a.got = None /\ a.din = None
    /\ a.left = 1 => a.got = First(a.out) /\ a.din = First(w)
    /\ a.left = 0 => a.reg = w /\ (calm >= 3 => a.right)
    /\ calm >= 2 => a.acq = v
    /\ calm >= 3 => a.out = w
    /\ calm >= 4 => a.right

\* The same between the rising edge of CNV and the tick.
Converted(c) ==
    LET a == adc[c]  w == conf[Last(c)]  v == conf[Before(c)] IN
    /\ a.acq = w /\ a.reg = w
    /\ calm >= 2 => a.out = v
    /\ calm >= 3 => a.right

\* The converters of which nothing is known.
Off(c) == Surplus(c) \/ c \in cut

LEMMA OffLasts ==
    ASSUME UsartInv, [Next]_vars, NEW c \in Converters, Off(c)
    PROVE  Off(c)'
<1>1. CASE Surplus(c)
  BY <1>1, UsartStep DEF Off
<1>2. cut' = cut \/ \E x : cut' = cut \cup {x}
  <2>1. ASSUME NEW r \in Requests, SetPin(r)
        PROVE  cut' = cut \/ \E x : cut' = cut \cup {x}
    BY <2>1 DEF SetPin
  <2>2. ASSUME NEW r \in Requests, SetConf(r) \/ Sampling(r) \/ Temperature(r)
        PROVE  cut' = cut
    BY <2>2 DEF SetConf, Sampling, Temperature
  <2>3. ASSUME \/ Handler \/ Pdc \/ CompareRb \/ TC2_Handler \/ Sof \/ UNCHANGED vars
        PROVE  cut' = cut
    BY <2>3 DEF Handler, Pdc, AdcTake, AdcCnv, AdcTpr, AdcRpr, AdcRcr, AdcTcr, AdcWait, Return,
                Access, Step, AdcTransfer, CompareRb, TC2_Handler, Sof, vars
  <2>. QED  BY <2>1, <2>2, <2>3 DEF Next, Request
<1>3. CASE c \in cut
  BY <1>2, <1>3 DEF Off
<1>. QED  BY <1>1, <1>3 DEF Off

Streams ==
    \A c \in Converters : ~Off(c) /\ calm >= 1 =>
        IF line THEN Converted(c) ELSE Following(c)

LEMMA SlotsAre ==
    ASSUME chan \in Channels, NEW c \in Converters
    PROVE  Last(c) \in Slots /\ Before(c) \in Slots
BY ConvertersAssumption DEF Last, Before, TickSlots, Slots, Channels, Other

LEMMA StreamStep ==
    ASSUME UsartInv, Streams, [Next]_vars
    PROVE  Streams'
<1>0. Usarts /\ Handling /\ Counts /\ Edge
  BY DEF UsartInv
<1>1. \A c \in Converters : (Off(c) => Off(c)') /\ (Surplus(c) => Off(c)) /\ (Surplus(c)' => Off(c)')
  BY OffLasts DEF Off
<1>2. CASE calm' = 0
  BY <1>2 DEF Streams
<1>3. CASE /\ adc' = adc /\ line' = line /\ chan' = chan /\ conf' = conf /\ calm' = calm
  BY <1>1, <1>3 DEF Streams, Converted, Following, Last, Before
<1>4. CASE \E c \in Converters : AdcTransfer(c)
  <2>1. PICK c \in Converters : AdcTransfer(c)
    BY <1>4
  <2>2. /\ adc[c].left > 0 /\ line' = line /\ chan' = chan /\ conf' = conf /\ calm' = calm
        /\ adc' = [adc EXCEPT ![c] = IF c \in cut THEN Lost(Received(adc[c])) ELSE Received(adc[c])]
    BY <2>1 DEF AdcTransfer, sampling, handler
  <2>3. PICK a, b : a = adc[c] /\ b = Received(a)
    OBVIOUS
  <2>4. (c \notin cut => adc'[c] = b) /\ \A d \in Converters : d # c => adc'[d] = adc[d]
    <3>1. PICK e : e = IF c \in cut THEN Lost(Received(adc[c])) ELSE Received(adc[c])
      OBVIOUS
    <3>2. adc'[c] = e /\ \A d \in Converters : d # c => adc'[d] = adc[d]
      BY <1>0, <2>2, <3>1, Accessed
    <3>. QED  BY <2>3, <3>1, <3>2
  <2>5. Usart(a) /\ a.left > 0
    BY <1>0, <2>2, <2>3 DEF Usarts
  <2>6. /\ b.left = a.left - 1 /\ b.word = a.word /\ b.out = a.out /\ b.acq = a.acq
        /\ b.din = (IF a.din = None THEN Sent(a) ELSE Taken)
        /\ b.reg = (IF a.din \in {None, Taken} THEN a.reg ELSE Word(a.din, Sent(a)))
        /\ a.rcr > 0 /\ a.got = None =>
              b.rp = a.rp /\ b.got = Answer(a) /\ b.right = a.right
        /\ a.rcr > 0 /\ a.got # None =>
              b.right = IF a.rp \in Slots THEN Word(a.got, Answer(a)) = conf[a.rp] ELSE a.right
    BY <2>3, <2>5, TransferIs
  <2>7. ASSUME NEW d \in Converters, d # c, ~Off(d)', calm >= 1
        PROVE  IF line' THEN Converted(d)' ELSE Following(d)'
    BY <1>1, <2>2, <2>4, <2>7 DEF Streams, Converted, Following, Last, Before
  <2>8. ASSUME ~Off(c)', calm >= 1
        PROVE  ~line /\ Following(c)'
    <3>1. ~Off(c) /\ ~Surplus(c) /\ cnv = "timer" /\ pc # "adc_tcr" /\ adc'[c] = b
      <4>1. ~Off(c) /\ ~Surplus(c) /\ c \notin cut
        BY <1>1, <2>8 DEF Off
      <4>2. cnv = "timer" /\ calm # 0
        BY <1>0, <2>8 DEF Handling
      <4>. QED  BY <1>0, <2>4, <4>1, <4>2 DEF Handling, Holding
    <3>2. a.left <= a.rcr /\ a.rcr <= a.left
      BY <1>0, <2>3, <2>5, <3>1 DEF Surplus, Counts, Coming, Usart
    <3>3. ~line
      BY <1>0, <2>3, <2>5, <3>1 DEF Edge
    <3>4. Following(c)
      BY <2>8, <3>1, <3>3 DEF Streams
    <3>5. PICK w, v, k : w = conf[Last(c)] /\ v = conf[Before(c)] /\ k = Last(c)
      OBVIOUS
    <3>6. k \in Slots /\ w = conf[k]
      BY <1>0, <3>5, SlotsAre DEF Handling
    <3>7. /\ a.word = w /\ a.rp = k
          /\ a.left = 2 => a.got = None /\ a.din = None
          /\ a.left = 1 => a.got = First(a.out) /\ a.din = First(w)
          /\ calm >= 2 => a.acq = v
          /\ calm >= 3 => a.out = w
          /\ calm >= 4 => a.right
      BY <2>3, <2>5, <3>4, <3>5 DEF Following
    <3>8. /\ w = conf[Last(c)]' /\ v = conf[Before(c)]' /\ k = Last(c)'
      BY <2>2, <3>5 DEF Last, Before
    <3>9. CASE a.left = 2
      <4>1. a.rcr > 0 /\ a.got = None /\ a.din = None /\ b.left = 1
        BY <2>5, <2>6, <3>2, <3>7, <3>9 DEF Usart
      <4>2. Answer(a) = First(a.out) /\ Sent(a) = First(w)
        <5>1. ~(a.left > a.rcr) /\ None # Taken
          BY <2>5, <3>2 DEF Usart, None, Taken
        <5>. QED  BY <3>7, <3>9, <4>1, <5>1, Zenon DEF Answer, Sent, First
      <4>3. b.rp = k /\ b.got = First(b.out) /\ b.right = a.right /\ b.din = First(w)
        BY <2>6, <3>7, <4>1, <4>2
      <4>4. /\ calm' >= 2 => b.acq = v
            /\ calm' >= 3 => b.out = w
            /\ calm' >= 4 => b.right
        BY <2>2, <2>6, <3>7, <4>3
      <4>5. b.word = w
        BY <2>6, <3>7
      <4>. QED  BY <3>1, <3>3, <3>8, <4>1, <4>3, <4>4, <4>5 DEF Following
    <3>10. CASE a.left = 1
      <4>1. a.rcr > 0 /\ b.left = 0 /\ a.got = First(a.out) /\ a.din = First(w)
        BY <2>5, <2>6, <3>2, <3>7, <3>10 DEF Usart
      <4>2. a.got # None /\ a.din # None /\ a.din # Taken
        BY <4>1 DEF None, Taken, First
      <4>3. Answer(a) = <<a.out, 2>> /\ Sent(a) = <<w, 2>>
        <5>1. ~(a.left > a.rcr) /\ a.left # 2
          BY <2>5, <3>2, <3>10 DEF Usart
        <5>. QED  BY <3>7, <4>2, <5>1, Zenon DEF Answer, Sent
      <4>4. Word(First(a.out), <<a.out, 2>>) = a.out /\ Word(First(w), <<w, 2>>) = w
        BY DEF Word, First
      <4>5. b.reg = w
        BY <2>6, <4>1, <4>2, <4>3, <4>4
      <4>6. b.right <=> a.out = w
        BY <2>6, <3>6, <3>7, <4>1, <4>2, <4>3, <4>4
      <4>7. calm \in 0..4
        BY <1>0 DEF Handling
      <4>8. /\ calm' >= 2 => b.acq = v
            /\ calm' >= 3 => b.out = w
            /\ calm' >= 3 => b.right
            /\ calm' >= 4 => b.right
        BY <2>2, <2>6, <3>7, <4>6, <4>7
      <4>. QED  BY <3>1, <3>3, <3>8, <4>1, <4>5, <4>8 DEF Following
    <3>11. a.left = 1 \/ a.left = 2
      BY <2>5, <3>2 DEF Usart
    <3>. QED  BY <3>3, <3>9, <3>10, <3>11
  <2>. QED  BY <2>2, <2>7, <2>8 DEF Streams
<1>5. CASE CompareRb
  <2>1. /\ line' = TRUE /\ ~line /\ chan' = chan /\ conf' = conf /\ calm' = calm /\ Quiet
        /\ cnv = "timer" => adc' = [c \in Converters |-> Convert(adc[c])]
    BY <1>5 DEF CompareRb
  <2>2. ASSUME NEW c \in Converters, ~Off(c)', calm' >= 1
        PROVE  Converted(c)'
    <3>1. ~Off(c) /\ ~Surplus(c) /\ cnv = "timer" /\ pc \notin Holding /\ calm >= 1
      BY <1>0, <1>1, <2>1, <2>2 DEF Handling
    <3>2. ~(adc[c].left > 0)
      BY <1>0, <2>1, <2>2, <3>1 DEF Counts, Quiet, Holding
    <3>3. Usart(adc[c]) /\ adc'[c] = Convert(adc[c])
      BY <1>0, <2>1, <2>2, <3>1 DEF Usarts
    <3>4. /\ adc'[c].out = adc[c].acq /\ adc'[c].acq = adc[c].reg /\ adc'[c].reg = adc[c].reg
          /\ adc'[c].right = adc[c].right /\ adc[c].left = 0
      BY <3>2, <3>3, Converts DEF Usart
    <3>5. Following(c)
      BY <2>1, <2>2, <3>1 DEF Streams
    <3>. QED  BY <2>1, <3>4, <3>5 DEF Following, Converted, Last, Before
  <2>. QED  BY <2>1, <2>2 DEF Streams
<1>6. CASE TC2_Handler /\ calm' # 0
  <2>1. /\ line /\ line' = FALSE /\ chan' = Other(chan) /\ conf' = conf /\ cnv = "timer"
        /\ calm' = IF calm < 4 THEN calm + 1 ELSE 4
    BY <1>6 DEF TC2_Handler
  <2>2. chan \in Channels /\ calm \in 0..4
    BY <1>0 DEF Handling
  <2>3. ASSUME NEW c \in Converters, ~Off(c)'
        PROVE  Following(c)'
    <3>1. PICK a, b : a = adc[c] /\ b = adc'[c]
      OBVIOUS
    <3>2. Usart(a) /\ ~Off(c) /\ ~Surplus(c) /\ ~Surplus(c)'
      BY <1>0, <1>1, <2>3, <3>1 DEF Usarts
    <3>3. PICK w, v, k : w = conf[Last(c)]' /\ v = conf[Before(c)]' /\ k = Last(c)'
      OBVIOUS
    <3>4. /\ Last(c)' = Before(c) /\ Before(c)' = Last(c)
      BY <2>1, <2>2 DEF Last, Before, Channels, Other
    <3>5. w = conf[Before(c)] /\ v = conf[Last(c)] /\ k = Before(c)
      BY <2>1, <3>3, <3>4
    <3>6. b = Sampled(a, w, k)
      BY <1>6, <3>1, <3>5 DEF TC2_Handler, TickWords, Before
    <3>7. b.left <= b.rcr
      <4>1. Usart(b)
        BY <3>2, <3>6, TickIs
      <4>. QED  BY <3>1, <3>2, <4>1 DEF Surplus, Usart
    <3>8. /\ b.left = 2 /\ b.word = w /\ b.rp = k /\ b.got = None /\ b.out = a.out
          /\ b.acq = a.acq /\ b.din = a.din /\ b.right = a.right
      BY <3>2, <3>6, <3>7, TickIs
    <3>9. a.din = None
      BY <1>0, <2>1, <3>1, <3>2 DEF Edge, Handling
    <3>10. calm >= 1 => /\ a.acq = v
                        /\ calm >= 2 => a.out = w
                        /\ calm >= 3 => a.right
      <4>1. calm >= 1 => Converted(c)
        BY <2>1, <3>2 DEF Streams
      <4>. QED  BY <3>1, <3>5, <4>1 DEF Converted
    <3>11. /\ calm' >= 2 => calm >= 1
           /\ calm' >= 3 => calm >= 2
           /\ calm' >= 4 => calm >= 3
      BY <2>1, <2>2
    <3>12. /\ calm' >= 2 => b.acq = v
           /\ calm' >= 3 => b.out = w
           /\ calm' >= 4 => b.right
      BY <2>2, <3>8, <3>10, <3>11
    <3>. QED  BY <3>1, <3>3, <3>8, <3>9, <3>12 DEF Following
  <2>. QED  BY <2>1, <2>3 DEF Streams
<1>7. ASSUME NEW r \in Requests, SetConf(r) \/ Sampling(r) \/ Temperature(r) \/ SetPin(r)
      PROVE  \/ calm' = 0
             \/ adc' = adc /\ line' = line /\ chan' = chan /\ conf' = conf /\ calm' = calm
  BY <1>7 DEF SetConf, Sampling, Temperature, SetPin, Begin, sampling
<1>8. ASSUME AdcTake \/ AdcCnv \/ AdcTpr \/ AdcRpr \/ AdcRcr \/ AdcTcr \/ AdcWait
      PROVE  calm' = 0
  BY <1>8 DEF AdcTake, AdcCnv, AdcTpr, AdcRpr, AdcRcr, AdcTcr, AdcWait, Access, Step
<1>9. ASSUME Return \/ Sof \/ UNCHANGED vars
      PROVE  adc' = adc /\ line' = line /\ chan' = chan /\ conf' = conf /\ calm' = calm
  BY <1>9 DEF Return, Sof, vars, sampling
<1>. QED  BY <1>2, <1>3, <1>4, <1>5, <1>6, <1>7, <1>8, <1>9 DEF Next, Request, Handler, Pdc

LEMMA StreamFirst == Init => Streams
BY DEF Init, Streams

\* Samples match their slots: two rounds of ticks after a request used or
\* configured a converter, TC2_Handler stores every sample where the
\* configuration belongs it was taken with, at each converter that has all its
\* pins and no surplus byte in its USART, wherever ticks met the accesses of
\* request 0x19 and the bytes of its transfers.
THEOREM SamplesMatch == Spec => []SlotsMatch
<1>1. Init => UsartInv /\ Streams
  BY UsartFirst, StreamFirst
<1>2. UsartInv /\ Streams /\ [Next]_vars => (UsartInv /\ Streams)'
  BY UsartStep, StreamStep
<1>3. UsartInv /\ Streams => SlotsMatch
  <2>. SUFFICES ASSUME UsartInv, Streams, calm = 4, NEW c \in Converters, ~Off(c)
                PROVE  adc[c].right
    BY DEF SlotsMatch, Off
  <2>1. IF line THEN Converted(c) ELSE Following(c)
    BY DEF Streams
  <2>. QED  BY <2>1 DEF Converted, Following
<1>. QED  BY <1>1, <1>2, <1>3, PTL DEF Spec

\* A USART out of step stays so: no step of TC2_Handler or of request 0x19
\* takes a surplus byte out of US_RHR.
THEOREM SurplusLasts == Spec => [][\A c \in Converters : Surplus(c) => Surplus(c)']_vars
<1>1. UsartInv /\ [Next]_vars => UsartInv'
  BY UsartStep
<1>2. UsartInv /\ [Next]_vars => [\A c \in Converters : Surplus(c) => Surplus(c)']_vars
  BY UsartStep
<1>. QED  BY <1>1, <1>2, UsartFirst, PTL DEF Spec

-----------------------------------------------------------------------------
(* Request 0x19 that no tick disturbs.                                     *)

Undisturbed == pc # "idle" /\ req.op = "temperature" /\ ~disturbed

\* The edges of CNV and the transfers of the call of get_sample_ad7682.
Edges     == IF pc \in {"adc_take", "adc_cnv"} THEN pass - 1 ELSE pass
Transfers == IF pc = "adc_wait" /\ adc[req.chan].left = 0 THEN pass ELSE pass - 1

\* What they made of the converter and of the reply.
Pipeline ==
    LET a == adc[req.chan] IN
    /\ pc \in Reading =>
          /\ Transfers >= 1 => a.reg = SampleWord
          /\ Edges >= 2 => a.acq = SampleWord
          /\ Edges >= 3 => a.out = SampleWord
          /\ call = 2 => a.reg = Temp /\ a.acq = Temp /\ a.out = Temp
          /\ call >= 2 \/ Transfers >= 3 => ret_data = Temp
    /\ pc = "ret" =>
          /\ a.reg = Usual(req.chan) /\ a.acq = Usual(req.chan) /\ a.out = Usual(req.chan)
          /\ ret_data = Temp

\* The transfer the handler prepares and waits for.
Prepared ==
    LET a == adc[req.chan] IN
    /\ pc = "adc_take" => pass = 1
    /\ pc # "adc_wait" => a.left = 0
    /\ pc \in {"adc_tpr", "adc_rpr", "adc_rcr", "adc_tcr"} => a.din = None
    /\ pc \in {"adc_rpr", "adc_rcr", "adc_tcr"} => a.tp = SampleWord
    /\ pc \in {"adc_rcr", "adc_tcr"} => a.rp = SampleTarget /\ a.got = None
    /\ pc = "adc_wait" /\ a.left > 0 => a.word = SampleWord /\ a.rp = SampleTarget
    /\ pc = "adc_wait" /\ a.left = 2 => a.got = None /\ a.din = None
    /\ pc = "adc_wait" /\ a.left = 1 => a.got = First(a.out) /\ a.din = First(SampleWord)

Alone == \A d \in Converters : d # req.chan => adc[d].left = 0

TempInv == Undisturbed => Alone /\ (~Off(req.chan) => Pipeline /\ Prepared)

LEMMA TempFirst == Init => TempInv
BY DEF Init, TempInv, Undisturbed

LEMMA TempStep ==
    ASSUME UsartInv, TempInv, [Next]_vars
    PROVE  TempInv'
<1>0. Usarts /\ Handling /\ Counts /\ Edge
  BY DEF UsartInv
<1>1. \A c \in Converters : (Off(c) => Off(c)') /\ (Surplus(c) => Off(c)) /\ (Surplus(c)' => Off(c)')
  BY OffLasts DEF Off
<1>2. ASSUME NEW r \in Requests, SetConf(r) \/ Sampling(r) \/ Temperature(r) \/ SetPin(r)
      PROVE  TempInv'
  <2>1. CASE SetConf(r) \/ Sampling(r) \/ SetPin(r)
    <3>1. r.op # "temperature" /\ req' = r
      BY <2>1 DEF SetConf, Sampling, SetPin, Begin
    <3>. QED  BY <3>1 DEF TempInv, Undisturbed
  <2>2. CASE Temperature(r)
    <3>1. /\ req' = r /\ r.op = "temperature" /\ pc' = "adc_take" /\ adc' = adc /\ pass' = 1 /\ call' = 1
          /\ disturbed' = ~AtRest
      BY <2>2 DEF Temperature, Begin
    <3>2. r.chan \in Converters
      BY <3>1, RequestsAssumption
    <3>3. ASSUME ~disturbed' PROVE \A d \in Converters : adc'[d].left = 0
      BY <3>1, <3>3 DEF AtRest
    <3>4. ~disturbed' => Alone'
      BY <3>1, <3>3 DEF Alone
    <3>5. Pipeline'
      BY <3>1 DEF Pipeline, Edges, Transfers, Reading, Holding
    <3>6. ~disturbed' => Prepared'
      BY <3>1, <3>2, <3>3 DEF Prepared
    <3>. QED  BY <3>4, <3>5, <3>6 DEF TempInv, Undisturbed
  <2>. QED  BY <1>2, <2>1, <2>2
<1>3. CASE Return
  BY <1>3 DEF Return, TempInv, Undisturbed
<1>4. CASE Sof \/ UNCHANGED vars
  <2>1. /\ adc' = adc /\ req' = req /\ pc' = pc /\ pass' = pass /\ call' = call
        /\ ret_data' = ret_data /\ disturbed' = disturbed /\ cut' = cut
    BY <1>4 DEF Sof, vars, handler
  <2>. QED  BY <2>1 DEF TempInv, Undisturbed, Alone, Off, Surplus, Pipeline, Prepared, Edges, Transfers,
               SampleWord, SampleTarget
<1>5. CASE TC2_Handler
  <2>1. pc' = pc /\ (disturbed' <=> disturbed \/ pc # "idle")
    BY <1>5 DEF TC2_Handler, handler
  <2>. QED  BY <2>1 DEF TempInv, Undisturbed
<1>6. ASSUME \/ AdcTake \/ AdcCnv \/ AdcTpr \/ AdcRpr \/ AdcRcr \/ AdcTcr \/ AdcWait
             \/ (\E c \in Converters : AdcTransfer(c)) \/ CompareRb,
             Undisturbed'
      PROVE  TempInv'
  <2>1. req' = req /\ disturbed' = disturbed
    BY <1>6 DEF AdcTake, AdcCnv, AdcTpr, AdcRpr, AdcRcr, AdcTcr, AdcWait, AdcTransfer, CompareRb,
                Access, Step, handler
  <2>2. pc # "idle"
    BY <1>6 DEF AdcTake, AdcCnv, AdcTpr, AdcRpr, AdcRcr, AdcTcr, AdcWait, AdcTransfer, CompareRb,
                Access, Step, handler, Undisturbed
  <2>3. Undisturbed
    BY <1>6, <2>1, <2>2 DEF Undisturbed
  <2>4. PICK c \in Converters : c = req.chan
    BY <1>0, <2>3 DEF Handling, Undisturbed
  <2>5. \A d \in Converters : d # c => adc[d].left = 0
    BY <2>3, <2>4 DEF TempInv, Alone
  <2>6. Usart(adc[c])
    BY <1>0, <2>4 DEF Usarts
  <2>7. ~Off(c) => Pipeline /\ Prepared
    BY <2>3, <2>4 DEF TempInv
  <2>8. SUFFICES /\ \A d \in Converters : d # c => adc'[d].left = 0
                 /\ ~Off(c)' => Pipeline' /\ Prepared'
    <3>1. c = req'.chan
      BY <2>1, <2>4
    <3>2. Off(req.chan)' <=> Off(c)'
      BY <2>1, <2>4 DEF Off, Surplus
    <3>. QED  BY <2>8, <3>1, <3>2 DEF TempInv, Alone
  <2>9. pc \in Reading => pass \in 1..3 /\ call \in 1..3
    BY <1>0 DEF Handling
  <2>10. PICK u : u = Usual(c)
    OBVIOUS
  <2>11. PICK a : a = adc[c]
    OBVIOUS
  <2>12. PICK w, g : w = SampleWord /\ g = SampleTarget
    OBVIOUS
  <2>13. /\ w = (IF call < 3 THEN Temp ELSE u)
         /\ call' = call => w = SampleWord' /\ g = SampleTarget'
    BY <2>1, <2>4, <2>10, <2>12 DEF SampleWord, SampleTarget
  <2>14. ~Off(c) /\ pc \in Reading =>
           /\ pc = "adc_take" => pass = 1
           /\ Transfers >= 1 => a.reg = w
           /\ Edges >= 2 => a.acq = w
           /\ Edges >= 3 => a.out = w
           /\ call = 2 => a.reg = Temp /\ a.acq = Temp /\ a.out = Temp
           /\ call >= 2 \/ Transfers >= 3 => ret_data = Temp
    BY <2>4, <2>7, <2>11, <2>12 DEF Pipeline, Prepared
  <2>15. ~Off(c) =>
           /\ pc # "adc_wait" => a.left = 0
           /\ pc \in {"adc_tpr", "adc_rpr", "adc_rcr", "adc_tcr"} => a.din = None
           /\ pc \in {"adc_rpr", "adc_rcr", "adc_tcr"} => a.tp = w
           /\ pc \in {"adc_rcr", "adc_tcr"} => a.rp = g /\ a.got = None
           /\ pc = "adc_wait" /\ a.left > 0 => a.word = w /\ a.rp = g
           /\ pc = "adc_wait" /\ a.left = 2 => a.got = None /\ a.din = None
           /\ pc = "adc_wait" /\ a.left = 1 => a.got = First(a.out) /\ a.din = First(w)
    BY <2>4, <2>7, <2>11, <2>12 DEF Prepared
  <2>20. CASE AdcTake
    <3>1. /\ pc = "adc_take" /\ pc' = "adc_cnv" /\ pass' = pass /\ call' = call /\ adc' = adc
          /\ ret_data' = ret_data
      BY <2>20 DEF AdcTake, Step
    <3>2. /\ Edges = pass - 1 /\ Edges' = pass - 1 /\ Transfers = pass - 1 /\ Transfers' = pass - 1
      BY <3>1 DEF Edges, Transfers
    <3>3. ~Off(c)' => Pipeline' /\ Prepared'
      BY <1>1, <2>1, <2>4, <2>11, <2>13, <2>14, <2>15, <3>1, <3>2 DEF Pipeline, Prepared, Reading, Holding
    <3>. QED  BY <2>5, <3>1, <3>3
  <2>21. CASE AdcCnv
    <3>1. /\ pc = "adc_cnv" /\ pc' = "adc_tpr" /\ pass' = pass /\ call' = call
          /\ adc' = [d \in Converters |-> Convert(adc[d])] /\ ret_data' = ret_data
      BY <2>21 DEF AdcCnv, Step
    <3>2. /\ Edges = pass - 1 /\ Edges' = pass /\ Transfers = pass - 1 /\ Transfers' = pass - 1
      BY <3>1 DEF Edges, Transfers
    <3>3. \A d \in Converters : adc'[d].left = adc[d].left
      BY <1>0, <3>1, Mapped DEF Still
    <3>4. PICK b : b = adc'[c] /\ b = Convert(a)
      BY <2>11, <3>1
    <3>5. /\ b.left = a.left /\ b.out = a.acq /\ b.acq = a.reg /\ b.reg = a.reg /\ b.din = None
      BY <2>6, <2>11, <3>4, Converts
    <3>6. ASSUME ~Off(c)' PROVE Pipeline' /\ Prepared'
      <4>1. ~Off(c) /\ ~Surplus(c) /\ pc \in Reading /\ pass \in 1..3
        BY <1>1, <2>9, <3>1, <3>6 DEF Reading, Holding
      <4>2. /\ pass - 1 >= 1 => b.reg = w
            /\ pass >= 2 => b.acq = w
            /\ pass >= 3 => b.out = w
            /\ call = 2 => b.reg = Temp /\ b.acq = Temp /\ b.out = Temp
            /\ call >= 2 \/ pass - 1 >= 3 => ret_data = Temp
        BY <2>14, <3>2, <3>5, <4>1
      <4>3. b.left = 0 /\ b.din = None
        BY <2>15, <3>1, <3>5, <4>1
      <4>. QED  BY <2>1, <2>4, <2>13, <3>1, <3>2, <3>4, <4>2, <4>3 DEF Pipeline, Prepared
    <3>. QED  BY <2>5, <3>3, <3>6
  <2>22. CASE AdcTpr
    <3>1. /\ pc = "adc_tpr" /\ pc' = "adc_rpr" /\ pass' = pass /\ call' = call
          /\ adc' = [adc EXCEPT ![c] = WriteTpr(a, w)] /\ ret_data' = ret_data
      BY <2>4, <2>11, <2>12, <2>22 DEF AdcTpr, Access, Step
    <3>2. /\ Edges = pass /\ Edges' = pass /\ Transfers = pass - 1 /\ Transfers' = pass - 1
      BY <3>1 DEF Edges, Transfers
    <3>3. PICK b : b = WriteTpr(a, w)
      OBVIOUS
    <3>4. adc'[c] = b /\ \A d \in Converters : d # c => adc'[d] = adc[d]
      BY <1>0, <3>1, <3>3, Accessed
    <3>5. b.left = a.left /\ b.out = a.out /\ b.acq = a.acq /\ b.reg = a.reg /\ b.din = a.din
      BY <2>6, <2>11, <3>3, Points
    <3>6. b.tp = w
      BY <2>6, <2>11, <3>3, TprIs
    <3>7. ASSUME ~Off(c)' PROVE Pipeline' /\ Prepared'
      <4>1. ~Off(c) /\ ~Surplus(c) /\ pc \in Reading
        BY <1>1, <3>1, <3>7 DEF Reading, Holding
      <4>2. /\ pass - 1 >= 1 => b.reg = w
            /\ pass >= 2 => b.acq = w
            /\ pass >= 3 => b.out = w
            /\ call = 2 => b.reg = Temp /\ b.acq = Temp /\ b.out = Temp
            /\ call >= 2 \/ pass - 1 >= 3 => ret_data = Temp
        BY <2>14, <3>2, <3>5, <4>1
      <4>3. b.left = 0 /\ b.din = None
        BY <2>15, <3>1, <3>5, <4>1
      <4>. QED  BY <2>1, <2>4, <2>13, <3>1, <3>2, <3>4, <3>6, <4>2, <4>3 DEF Pipeline, Prepared
    <3>. QED  BY <2>5, <3>4, <3>7
  <2>23. CASE AdcRpr
    <3>1. /\ pc = "adc_rpr" /\ pc' = "adc_rcr" /\ pass' = pass /\ call' = call
          /\ adc' = [adc EXCEPT ![c] = WriteRpr(a, g)] /\ ret_data' = ret_data
      BY <2>4, <2>11, <2>12, <2>23 DEF AdcRpr, Access, Step
    <3>2. /\ Edges = pass /\ Edges' = pass /\ Transfers = pass - 1 /\ Transfers' = pass - 1
      BY <3>1 DEF Edges, Transfers
    <3>3. PICK b : b = WriteRpr(a, g)
      OBVIOUS
    <3>4. adc'[c] = b /\ \A d \in Converters : d # c => adc'[d] = adc[d]
      BY <1>0, <3>1, <3>3, Accessed
    <3>5. b.left = a.left /\ b.out = a.out /\ b.acq = a.acq /\ b.reg = a.reg /\ b.din = a.din
      BY <2>6, <2>11, <3>3, Points
    <3>6. b.tp = a.tp /\ b.rp = g /\ b.got = None
      BY <2>6, <2>11, <3>3, RprIs
    <3>7. ASSUME ~Off(c)' PROVE Pipeline' /\ Prepared'
      <4>1. ~Off(c) /\ ~Surplus(c) /\ pc \in Reading
        BY <1>1, <3>1, <3>7 DEF Reading, Holding
      <4>2. /\ pass - 1 >= 1 => b.reg = w
            /\ pass >= 2 => b.acq = w
            /\ pass >= 3 => b.out = w
            /\ call = 2 => b.reg = Temp /\ b.acq = Temp /\ b.out = Temp
            /\ call >= 2 \/ pass - 1 >= 3 => ret_data = Temp
        BY <2>14, <3>2, <3>5, <4>1
      <4>3. b.left = 0 /\ b.din = None /\ b.tp = w
        BY <2>15, <3>1, <3>5, <3>6, <4>1
      <4>. QED  BY <2>1, <2>4, <2>13, <3>1, <3>2, <3>4, <3>6, <4>2, <4>3 DEF Pipeline, Prepared
    <3>. QED  BY <2>5, <3>4, <3>7
  <2>24. CASE AdcRcr
    <3>1. /\ pc = "adc_rcr" /\ pc' = "adc_tcr" /\ pass' = pass /\ call' = call
          /\ adc' = [adc EXCEPT ![c] = WriteRcr(a)] /\ ret_data' = ret_data
      BY <2>4, <2>11, <2>24 DEF AdcRcr, Access, Step
    <3>2. /\ Edges = pass /\ Edges' = pass /\ Transfers = pass - 1 /\ Transfers' = pass - 1
      BY <3>1 DEF Edges, Transfers
    <3>3. PICK b : b = WriteRcr(a)
      OBVIOUS
    <3>4. adc'[c] = b /\ \A d \in Converters : d # c => adc'[d] = adc[d]
      BY <1>0, <3>1, <3>3, Accessed
    <3>5. /\ b.left = a.left /\ b.tp = a.tp /\ b.out = a.out /\ b.acq = a.acq /\ b.reg = a.reg
          /\ b.din = a.din /\ (~a.full => b.rp = a.rp /\ b.got = a.got)
      BY <2>6, <2>11, <3>3, RcrIs
    <3>7. ASSUME ~Off(c)' PROVE Pipeline' /\ Prepared'
      <4>1. ~Off(c) /\ ~Surplus(c) /\ pc \in Reading
        BY <1>1, <3>1, <3>7 DEF Reading, Holding
      <4>2. /\ pass - 1 >= 1 => b.reg = w
            /\ pass >= 2 => b.acq = w
            /\ pass >= 3 => b.out = w
            /\ call = 2 => b.reg = Temp /\ b.acq = Temp /\ b.out = Temp
            /\ call >= 2 \/ pass - 1 >= 3 => ret_data = Temp
        BY <2>14, <3>2, <3>5, <4>1
      <4>3. ~a.full
        BY <2>11, <4>1 DEF Surplus
      <4>4. b.left = 0 /\ b.din = None /\ b.tp = w /\ b.rp = g /\ b.got = None
        BY <2>15, <3>1, <3>5, <4>1, <4>3
      <4>. QED  BY <2>1, <2>4, <2>13, <3>1, <3>2, <3>4, <4>2, <4>4 DEF Pipeline, Prepared
    <3>. QED  BY <2>5, <3>4, <3>7
  <2>25. CASE AdcTcr
    <3>0. PICK f : f = FALSE
      OBVIOUS
    <3>1. /\ pc = "adc_tcr" /\ pc' = "adc_wait" /\ pass' = pass /\ call' = call
          /\ adc' = [adc EXCEPT ![c] = WriteTcr(a, f)] /\ ret_data' = ret_data
      BY <2>4, <2>11, <2>25, <3>0 DEF AdcTcr, Access, Step
    <3>3. PICK b : b = WriteTcr(a, f)
      OBVIOUS
    <3>4. adc'[c] = b /\ \A d \in Converters : d # c => adc'[d] = adc[d]
      BY <1>0, <3>1, <3>3, Accessed
    <3>5. /\ Usart(b) /\ b.rcr = a.rcr /\ b.got = a.got
          /\ b.left <= a.rcr =>
                /\ b.left = 2 /\ b.word = a.tp /\ b.rp = a.rp /\ b.out = a.out
                /\ b.acq = a.acq /\ b.reg = a.reg /\ b.din = a.din
      BY <2>6, <2>11, <3>3, TcrIs
    <3>7. ASSUME ~Off(c)' PROVE Pipeline' /\ Prepared'
      <4>1. ~Off(c) /\ ~Surplus(c) /\ pc \in Reading
        BY <1>1, <3>1, <3>7 DEF Reading, Holding
      <4>2. b.left <= a.rcr
        BY <1>1, <2>6, <2>11, <3>1, <3>4, <3>5, <3>7 DEF Surplus, Usart
      <4>3. /\ Edges = pass /\ Edges' = pass /\ Transfers = pass - 1 /\ Transfers' = pass - 1
        BY <2>1, <2>4, <3>1, <3>4, <3>5, <4>2 DEF Edges, Transfers
      <4>4. /\ pass - 1 >= 1 => b.reg = w
            /\ pass >= 2 => b.acq = w
            /\ pass >= 3 => b.out = w
            /\ call = 2 => b.reg = Temp /\ b.acq = Temp /\ b.out = Temp
            /\ call >= 2 \/ pass - 1 >= 3 => ret_data = Temp
        BY <2>14, <3>5, <4>1, <4>2, <4>3
      <4>5. b.left = 2 /\ b.din = None /\ b.word = w /\ b.rp = g /\ b.got = None
        BY <2>15, <3>1, <3>5, <4>1, <4>2
      <4>. QED  BY <2>1, <2>4, <2>13, <3>1, <3>4, <4>3, <4>4, <4>5 DEF Pipeline, Prepared
    <3>. QED  BY <2>5, <3>4, <3>7
  <2>26. CASE AdcWait
    <3>1. /\ pc = "adc_wait" /\ a.rcr = 0 /\ ret_data' = ret_data /\ pc \in Reading
      BY <2>4, <2>11, <2>26 DEF AdcWait, Step, EndRx, Reading, Holding
    <3>2. \/ pass < 3 /\ pc' = "adc_cnv" /\ pass' = pass + 1 /\ call' = call /\ adc' = adc
          \/ /\ ~(pass < 3) /\ pc' = (IF call < 3 THEN "adc_take" ELSE "ret") /\ pass' = 1
             /\ call' = (IF call < 3 THEN call + 1 ELSE call)
             /\ adc' = adc \/ adc' = [d \in Converters |-> Convert(adc[d])]
      BY <2>26 DEF AdcWait, Step, Calls
    <3>3. \A d \in Converters : adc'[d].left = adc[d].left
      <4>1. CASE adc' = [d \in Converters |-> Convert(adc[d])]
        BY <1>0, <4>1, Mapped DEF Still
      <4>. QED  BY <3>2, <4>1
    <3>4. ASSUME ~Off(c)' PROVE Pipeline' /\ Prepared'
      <4>1. ~Off(c) /\ ~Surplus(c)
        BY <1>1, <3>4
      <4>2. a.left = 0
        BY <2>6, <2>11, <3>1, <4>1 DEF Surplus, Usart
      <4>3. Edges = pass /\ Transfers = pass
        BY <2>4, <2>11, <3>1, <4>2 DEF Edges, Transfers
      <4>4. CASE pass < 3
        <5>1. pc' = "adc_cnv" /\ pass' = pass + 1 /\ call' = call /\ adc' = adc
          BY <3>2, <4>4
        <5>2. Edges' = pass /\ Transfers' = pass
          BY <2>9, <3>1, <5>1 DEF Edges, Transfers
        <5>3. /\ pass >= 1 => a.reg = w
              /\ pass >= 2 => a.acq = w
              /\ pass >= 3 => a.out = w
              /\ call = 2 => a.reg = Temp /\ a.acq = Temp /\ a.out = Temp
              /\ call >= 2 \/ pass >= 3 => ret_data = Temp
          BY <2>14, <3>1, <4>1, <4>3
        <5>. QED  BY <2>1, <2>4, <2>11, <2>13, <3>1, <4>2, <5>1, <5>2, <5>3 DEF Pipeline, Prepared
      <4>5. CASE ~(pass < 3)
        <5>1. pass = 3 /\ call \in 1..3
          BY <2>9, <3>1, <4>5
        <5>2. a.reg = w /\ a.acq = w /\ a.out = w /\ ret_data = Temp
          BY <2>14, <3>1, <4>1, <4>3, <5>1
        <5>3. PICK b : b = adc'[c]
          OBVIOUS
        <5>4. b.reg = w /\ b.acq = w /\ b.out = w /\ b.left = 0
          <6>1. CASE adc' = adc
            BY <2>11, <4>2, <5>2, <5>3, <6>1
          <6>2. CASE adc' = [d \in Converters |-> Convert(adc[d])]
            <7>1. b = Convert(a)
              BY <2>11, <5>3, <6>2
            <7>. QED  BY <2>6, <2>11, <4>2, <5>2, <7>1, Converts
          <6>. QED  BY <3>2, <4>5, <6>1, <6>2
        <5>5. CASE call < 3
          <6>1. pc' = "adc_take" /\ pass' = 1 /\ call' = call + 1 /\ w = Temp
            BY <2>13, <3>2, <4>5, <5>5
          <6>2. Edges' = 0 /\ Transfers' = 0
            BY <6>1 DEF Edges, Transfers
          <6>. QED  BY <2>1, <2>4, <3>1, <5>1, <5>2, <5>3, <5>4, <6>1, <6>2
                    DEF Pipeline, Prepared
        <5>6. CASE ~(call < 3)
          <6>1. pc' = "ret" /\ w = u
            BY <2>13, <3>2, <4>5, <5>6
          <6>. QED  BY <2>1, <2>4, <2>10, <3>1, <5>2, <5>3, <5>4, <6>1
                    DEF Pipeline, Prepared, Reading, Holding
        <5>. QED  BY <5>5, <5>6
      <4>. QED  BY <4>4, <4>5
    <3>. QED  BY <2>5, <3>3, <3>4
  <2>27. CASE CompareRb
    <3>1. /\ pc' = pc /\ pass' = pass /\ call' = call /\ ret_data' = ret_data
          /\ adc' = IF cnv = "timer" THEN [d \in Converters |-> Convert(adc[d])] ELSE adc
      BY <2>27 DEF CompareRb, handler
    <3>2. CASE adc' = adc
      <4>1. Edges' = Edges /\ Transfers' = Transfers
        BY <2>1, <3>1, <3>2 DEF Edges, Transfers
      <4>2. ~Off(c)' => Pipeline' /\ Prepared'
        BY <1>1, <2>1, <2>4, <2>7, <2>12, <2>13, <3>1, <3>2, <4>1 DEF Pipeline, Prepared
      <4>. QED  BY <2>5, <3>2, <4>2
    <3>3. CASE cnv = "timer"
      <4>1. pc \in {"adc_take", "ret"} /\ adc' = [d \in Converters |-> Convert(adc[d])]
        BY <1>0, <2>2, <3>1, <3>3 DEF Handling, Reading, Holding
      <4>2. \A d \in Converters : adc'[d].left = adc[d].left
        BY <1>0, <4>1, Mapped DEF Still
      <4>3. PICK b : b = adc'[c] /\ b = Convert(a)
        BY <2>11, <4>1
      <4>4. b.left = a.left /\ b.out = a.acq /\ b.acq = a.reg /\ b.reg = a.reg
        BY <2>6, <2>11, <4>3, Converts
      <4>5. ASSUME ~Off(c)' PROVE Pipeline' /\ Prepared'
        <5>1. ~Off(c) /\ Pipeline /\ Prepared
          BY <1>1, <2>7, <4>5
        <5>2. b.left = 0
          BY <2>15, <4>1, <4>4, <5>1
        <5>3. CASE pc = "adc_take"
          <6>1. pass = 1 /\ pc \in Reading
            BY <2>14, <5>1, <5>3 DEF Reading
          <6>2. Edges' = 0 /\ Transfers' = 0 /\ Edges = 0 /\ Transfers = 0
            BY <3>1, <5>3, <6>1 DEF Edges, Transfers
          <6>3. /\ call = 2 => b.reg = Temp /\ b.acq = Temp /\ b.out = Temp
                /\ call >= 2 => ret_data = Temp
            BY <2>14, <4>4, <5>1, <6>1, <6>2
          <6>. QED  BY <2>1, <2>4, <3>1, <4>3, <5>2, <5>3, <6>1, <6>2, <6>3 DEF Pipeline, Prepared
        <5>4. CASE pc = "ret"
          <6>1. a.reg = u /\ a.acq = u /\ a.out = u /\ ret_data = Temp
            BY <2>4, <2>10, <2>11, <5>1, <5>4 DEF Pipeline
          <6>. QED  BY <2>1, <2>4, <2>10, <3>1, <4>3, <4>4, <5>2, <5>4, <6>1
                    DEF Pipeline, Prepared, Reading, Holding
        <5>. QED  BY <4>1, <5>3, <5>4
      <4>. QED  BY <2>5, <4>2, <4>5
    <3>. QED  BY <3>1, <3>2, <3>3
  <2>28. CASE \E d \in Converters : AdcTransfer(d)
    <3>1. PICK d \in Converters : AdcTransfer(d)
      BY <2>28
    <3>2. adc[d].left > 0
      BY <3>1 DEF AdcTransfer
    <3>3. d = c
      <4>1. CASE d # c
        BY <2>5, <3>2, <4>1
      <4>. QED  BY <4>1
    <3>4. /\ pc' = pc /\ pass' = pass /\ call' = call
          /\ adc' = [adc EXCEPT ![c] = IF c \in cut THEN Lost(Received(a)) ELSE Received(a)]
          /\ c \notin cut => ret_data' = IF a.rcr > 0 /\ a.rp = "ret_data" /\ a.got # None
                                           THEN Word(a.got, Answer(a)) ELSE ret_data
      BY <2>11, <3>1, <3>3 DEF AdcTransfer, handler
    <3>5. PICK b : b = Received(a)
      OBVIOUS
    <3>6. (c \notin cut => adc'[c] = b) /\ \A e \in Converters : e # c => adc'[e] = adc[e]
      <4>1. PICK x : x = IF c \in cut THEN Lost(Received(a)) ELSE Received(a)
        OBVIOUS
      <4>2. adc'[c] = x /\ \A e \in Converters : e # c => adc'[e] = adc[e]
        BY <1>0, <3>4, <4>1, Accessed
      <4>. QED  BY <3>5, <4>1, <4>2
    <3>7. Usart(a) /\ a.left > 0
      BY <2>6, <2>11, <3>2, <3>3
    <3>8. /\ b.left = a.left - 1 /\ b.word = a.word /\ b.out = a.out /\ b.acq = a.acq
          /\ b.din = (IF a.din = None THEN Sent(a) ELSE Taken)
          /\ b.reg = (IF a.din \in {None, Taken} THEN a.reg ELSE Word(a.din, Sent(a)))
          /\ a.rcr > 0 /\ a.got = None => b.rp = a.rp /\ b.got = Answer(a)
      BY <3>5, <3>7, TransferIs
    <3>9. ASSUME ~Off(c)' PROVE Pipeline' /\ Prepared'
      <4>1. ~Off(c) /\ ~Surplus(c) /\ c \notin cut /\ adc'[c] = b
        BY <1>1, <3>6, <3>9 DEF Off
      <4>2. pc = "adc_wait" /\ pc \in Reading /\ pass \in 1..3 /\ call \in 1..3
        <5>1. pc = "adc_wait"
          BY <2>15, <3>7, <4>1
        <5>. QED  BY <2>9, <5>1 DEF Reading, Holding
      <4>3. a.left <= a.rcr /\ a.rcr <= a.left
        BY <1>0, <2>11, <3>7, <4>1, <4>2 DEF Surplus, Counts, Coming, Usart
      <4>4. a.word = w /\ a.rp = g /\ Edges = pass /\ Transfers = pass - 1 /\ Edges' = pass
        BY <2>4, <2>11, <2>15, <3>4, <3>7, <4>1, <4>2 DEF Edges, Transfers
      <4>5. /\ pass - 1 >= 1 => a.reg = w
            /\ pass >= 2 => a.acq = w
            /\ pass >= 3 => a.out = w
            /\ call = 2 => a.reg = Temp /\ a.acq = Temp /\ a.out = Temp
            /\ call >= 2 \/ pass - 1 >= 3 => ret_data = Temp
        BY <2>14, <4>1, <4>2, <4>4
      <4>6. CASE a.left = 2
        <5>1. a.rcr > 0 /\ a.got = None /\ a.din = None /\ b.left = 1 /\ ~(a.left > a.rcr)
          BY <2>15, <3>7, <3>8, <4>1, <4>2, <4>3, <4>6 DEF Usart
        <5>2. Answer(a) = First(a.out) /\ Sent(a) = First(w)
          <6>1. None # Taken
            BY DEF None, Taken
          <6>. QED  BY <4>4, <4>6, <5>1, <6>1, Zenon DEF Answer, Sent, First
        <5>3. b.rp = g /\ b.got = First(b.out) /\ b.din = First(w) /\ b.reg = a.reg /\ b.word = w
          BY <3>8, <4>4, <5>1, <5>2
        <5>4. Transfers' = pass - 1 /\ ret_data' = ret_data
          BY <2>1, <2>4, <3>4, <4>1, <5>1 DEF Transfers
        <5>5. /\ pass - 1 >= 1 => b.reg = w
              /\ pass >= 2 => b.acq = w
              /\ pass >= 3 => b.out = w
              /\ call = 2 => b.reg = Temp /\ b.acq = Temp /\ b.out = Temp
              /\ call >= 2 \/ pass - 1 >= 3 => ret_data' = Temp
          BY <3>8, <4>5, <5>3, <5>4
        <5>. QED  BY <2>1, <2>4, <2>13, <3>4, <4>1, <4>2, <4>4, <5>1, <5>3, <5>4, <5>5
                  DEF Pipeline, Prepared
      <4>7. CASE a.left = 1
        <5>1. /\ a.rcr > 0 /\ b.left = 0 /\ a.got = First(a.out) /\ a.din = First(w)
              /\ ~(a.left > a.rcr) /\ a.left # 2
          BY <2>15, <3>7, <3>8, <4>1, <4>2, <4>3, <4>7 DEF Usart
        <5>2. a.got # None /\ a.din # None /\ a.din # Taken
          BY <5>1 DEF None, Taken, First
        <5>3. Answer(a) = <<a.out, 2>> /\ Sent(a) = <<w, 2>>
          BY <4>4, <5>1, <5>2, Zenon DEF Answer, Sent
        <5>4. Word(First(a.out), <<a.out, 2>>) = a.out /\ Word(First(w), <<w, 2>>) = w
          BY DEF Word, First
        <5>5. b.reg = w
          BY <3>8, <5>1, <5>2, <5>3, <5>4
        <5>6. ret_data' = IF g = "ret_data" THEN a.out ELSE ret_data
          BY <3>4, <4>1, <4>4, <5>1, <5>2, <5>3, <5>4
        <5>7. g = IF call < 3 THEN "ret_data" ELSE "dummy"
          BY <2>12 DEF SampleTarget
        <5>8. Transfers' = pass
          BY <2>1, <2>4, <3>4, <4>1, <4>2, <5>1 DEF Transfers
        <5>9. w = IF call < 3 THEN Temp ELSE u
          BY <2>13
        <5>10. call >= 2 \/ pass >= 3 => ret_data' = Temp
          BY <4>2, <4>5, <5>6, <5>7, <5>9
        <5>11. /\ pass >= 2 => b.acq = w
               /\ pass >= 3 => b.out = w
               /\ call = 2 => b.reg = Temp /\ b.acq = Temp /\ b.out = Temp
          BY <3>8, <4>5, <5>5, <5>9
        <5>. QED  BY <2>1, <2>4, <2>13, <3>4, <4>1, <4>2, <4>4, <5>1, <5>5, <5>8, <5>10, <5>11
                  DEF Pipeline, Prepared
      <4>8. a.left = 1 \/ a.left = 2
        BY <3>7, <4>3 DEF Usart
      <4>. QED  BY <4>6, <4>7, <4>8
    <3>. QED  BY <2>5, <3>6, <3>9
  <2>. QED  BY <1>6, <2>20, <2>21, <2>22, <2>23, <2>24, <2>25, <2>26, <2>27, <2>28
<1>. QED  BY <1>2, <1>3, <1>4, <1>5, <1>6 DEF Next, Request, Handler, Pdc, TempInv

\* Request 0x19 is served: when no tick meets it, its USART holds no surplus
\* byte and its converter has all its pins, get_sample_ad7682 replies with a
\* temperature, whatever was converted before, and leaves the converter with
\* its usual configuration in every stage and CNV to the timer.
THEOREM TemperatureIsServed == Spec => []TemperatureServed
<1>1. Init => UsartInv /\ TempInv
  BY UsartFirst, TempFirst
<1>2. UsartInv /\ TempInv /\ [Next]_vars => (UsartInv /\ TempInv)'
  BY UsartStep, TempStep
<1>3. UsartInv /\ TempInv => TemperatureServed
  <2>. SUFFICES ASSUME UsartInv, TempInv, TemperatureOver
                PROVE  ret_data = Temp /\ cnv = "timer" /\
                       Temp \notin {adc[req.chan].out, adc[req.chan].acq, adc[req.chan].reg}
    BY DEF TemperatureServed, TemperatureRead, AdcReady
  <2>1. Undisturbed /\ pc = "ret" /\ ~Off(req.chan)
    BY DEF TemperatureOver, Undisturbed, Off
  <2>2. Pipeline
    BY <2>1 DEF TempInv
  <2>3. cnv = "timer"
    BY <2>1 DEF UsartInv, Handling, Undisturbed
  <2>. QED  BY <2>1, <2>2, <2>3 DEF Pipeline, Usual, Temp
<1>. QED  BY <1>1, <1>2, <1>3, PTL DEF Spec
===========================================================================
