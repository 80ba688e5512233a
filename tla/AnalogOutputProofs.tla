------------------------ MODULE AnalogOutputProofs ------------------------
(***************************************************************************)
(* The converter behind write_ad5663 and TC2_Handler, for all the requests *)
(* a host can make and ticks between any two accesses of the USB           *)
(* interrupt.                                                              *)
(***************************************************************************)
EXTENDS AnalogOutput, SequenceTheorems, TLAPS

(***************************************************************************)
(* Sequences of up to three bytes.                                         *)
(***************************************************************************)
LEMMA OneByte ==
    ASSUME NEW a
    PROVE  /\ <<a>> # <<>> /\ Len(<<a>>) = 1 /\ Head(<<a>>) = a /\ Tail(<<a>>) = <<>>
           /\ Append(<<>>, a) = <<a>> /\ Len(<<>>) = 0
  OBVIOUS

LEMMA TwoBytes ==
    ASSUME NEW a, NEW b
    PROVE  /\ <<a, b>> # <<>> /\ Len(<<a, b>>) = 2 /\ Head(<<a, b>>) = a /\ Tail(<<a, b>>) = <<b>>
           /\ Append(<<a>>, b) = <<a, b>>
<1>. DEFINE S == {a, b}
            s == Append(<<a>>, b)
            t == <<a, b>>
<1>1. <<a>> \in Seq(S) /\ t \in Seq(S) /\ b \in S
  OBVIOUS
<1>2. s \in Seq(S) /\ Len(s) = 2 /\ s[1] = a /\ s[2] = b
  BY <1>1, AppendProperties
<1>3. Len(t) = 2 /\ t[1] = a /\ t[2] = b /\ t # <<>> /\ Head(t) = a /\ Tail(t) = <<b>>
  OBVIOUS
<1>. HIDE DEF S, s, t
<1>4. \A i \in 1 .. Len(s) : s[i] = t[i]
  BY <1>2, <1>3
<1>5. s = t
  BY <1>1, <1>2, <1>3, <1>4, SeqEqual
<1>. QED  BY <1>3, <1>5 DEF s, t

LEMMA ThreeBytes ==
    ASSUME NEW a, NEW b, NEW c
    PROVE  /\ Len(<<a, b, c>>) = 3 /\ Append(<<a, b>>, c) = <<a, b, c>>
           /\ <<a, b, c>>[1] = a /\ <<a, b, c>>[2] = b /\ <<a, b, c>>[3] = c
<1>. DEFINE S == {a, b, c}
            s == Append(<<a, b>>, c)
            t == <<a, b, c>>
<1>1. <<a, b>> \in Seq(S) /\ t \in Seq(S) /\ c \in S
  OBVIOUS
<1>2. s \in Seq(S) /\ Len(s) = 3 /\ s[1] = a /\ s[2] = b /\ s[3] = c
  BY <1>1, AppendProperties
<1>3. Len(t) = 3 /\ t[1] = a /\ t[2] = b /\ t[3] = c
  OBVIOUS
<1>. HIDE DEF S, s, t
<1>4. \A i \in 1 .. Len(s) : s[i] = t[i]
  BY <1>2, <1>3
<1>5. s = t
  BY <1>1, <1>2, <1>3, <1>4, SeqEqual
<1>. QED  BY <1>3, <1>5 DEF s, t

(***************************************************************************)
(* USART0 and its PDC, field by field.                                     *)
(***************************************************************************)
LinkFields == {"ptr", "next", "count", "nextCount", "tick", "wire", "frame", "sync"}

\* m is l but for the fields F.
Kept(l, m, F) == DOMAIN m = LinkFields /\ \A f \in LinkFields \ F : m[f] = l[f]

Idle(l) == l.count = 0 /\ l.nextCount = 0 /\ l.wire = <<>>

\* The command c and the word w are on their way to the converter, and what it
\* has taken of them is the beginning of a frame.
Sending(l, c, w) ==
    \/ /\ l.count = 1 /\ l.nextCount = 2 /\ l.ptr = <<c>> /\ l.next = <<w, w>>
       /\ l.wire = <<>> /\ l.frame = <<>>
    \/ /\ l.count = 2 /\ l.nextCount = 0 /\ l.ptr = <<w, w>>
       /\ (l.frame = <<>> /\ l.wire = <<c>>) \/ (l.frame = <<c>> /\ l.wire = <<>>)
    \/ /\ l.count = 1 /\ l.nextCount = 0 /\ l.ptr = <<w>>
       /\ \/ l.frame = <<>> /\ l.wire = <<c, w>>
          \/ l.frame = <<c>> /\ l.wire = <<w>>
          \/ l.frame = <<c, w>> /\ l.wire = <<>>
    \/ /\ l.count = 0 /\ l.nextCount = 0
       /\ (l.frame = <<c>> /\ l.wire = <<w, w>>) \/ (l.frame = <<c, w>> /\ l.wire = <<w>>)

LEMMA RiseIs ==
    ASSUME NEW l, DOMAIN l = LinkFields, NEW m, m = Sync(l, TRUE)
    PROVE  Kept(l, m, {"sync"}) /\ m.sync = TRUE
<1>. DEFINE f == l.frame
<1>1. m = [l EXCEPT !.sync = TRUE, !.frame = f]
  BY DEF Sync
<1>2. Kept(l, m, {"sync", "frame"}) /\ m.sync = TRUE /\ m.frame = f
  BY <1>1 DEF Kept, LinkFields
<1>. QED  BY <1>2 DEF Kept, LinkFields

LEMMA FallIs ==
    ASSUME NEW l, DOMAIN l = LinkFields, NEW m, m = Sync(l, FALSE)
    PROVE  /\ Kept(l, m, {"sync", "frame"}) /\ m.sync = FALSE
           /\ m.frame = IF l.sync THEN <<>> ELSE l.frame
<1>. DEFINE f == IF l.sync THEN <<>> ELSE l.frame
<1>1. m = [l EXCEPT !.sync = FALSE, !.frame = f]
  BY DEF Sync
<1>. HIDE DEF f
<1>2. Kept(l, m, {"sync", "frame"}) /\ m.sync = FALSE /\ m.frame = f
  BY <1>1 DEF Kept, LinkFields
<1>. QED  BY <1>2 DEF f

LEMMA PointIs ==
    ASSUME NEW l, DOMAIN l = LinkFields, NEW byte, NEW word, NEW m, m = Point(l, byte, word)
    PROVE  /\ Kept(l, m, {"ptr", "next"}) /\ m.ptr = <<byte>> /\ m.next = <<word, word>>
<1>. DEFINE p == <<byte>>
            n == <<word, word>>
<1>1. m = [l EXCEPT !.ptr = p, !.next = n]
  BY DEF Point
<1>. HIDE DEF p, n
<1>2. Kept(l, m, {"ptr", "next"}) /\ m.ptr = p /\ m.next = n
  BY <1>1 DEF Kept, LinkFields
<1>. QED  BY <1>2 DEF p, n

LEMMA LaunchIs ==
    ASSUME NEW l, DOMAIN l = LinkFields, NEW m, m = Launch(l, TRUE) \/ m = Launch(l, FALSE)
    PROVE  /\ Kept(l, m, {"count", "nextCount", "tick"})
           /\ m.count = 1 /\ m.nextCount = 2
           /\ m = Launch(l, TRUE) => m.tick = TRUE
<1>. DEFINE one == 1
            two == 2
<1>1. \/ m = [l EXCEPT !.count = one, !.nextCount = two, !.tick = TRUE]
      \/ m = [l EXCEPT !.count = one, !.nextCount = two, !.tick = FALSE]
  BY DEF Launch
<1>2. m = Launch(l, TRUE) => m = [l EXCEPT !.count = one, !.nextCount = two, !.tick = TRUE]
  BY DEF Launch
<1>. HIDE DEF one, two
<1>3. Kept(l, m, {"count", "nextCount", "tick"}) /\ m.count = one /\ m.nextCount = two
  BY <1>1 DEF Kept, LinkFields
<1>4. m = Launch(l, TRUE) => m.tick = TRUE
  BY <1>2 DEF LinkFields
<1>. QED  BY <1>3, <1>4 DEF one, two

\* TC2_Handler begins a frame of its own.
LEMMA TickIs ==
    ASSUME DOMAIN link = LinkFields, TC2_Handler
    PROVE  /\ DOMAIN link' = LinkFields /\ link'.tick = TRUE /\ link'.sync = FALSE
           /\ link.wire = <<>> => Sending(link', command[chan], "sample")
<1>. DEFINE a == Sync(link, TRUE)
            c == command[chan]
            w == "sample"
            b == Point(a, c, w)
            d == Sync(b, FALSE)
<1>1. link' = Launch(d, TRUE)
  BY DEF TC2_Handler
<1>2. Kept(link, a, {"sync"}) /\ a.sync = TRUE
  BY RiseIs
<1>3. DOMAIN a = LinkFields
  BY <1>2 DEF Kept
<1>. HIDE DEF a, c, w
<1>4. /\ Kept(a, b, {"ptr", "next"}) /\ b.ptr = <<c>> /\ b.next = <<w, w>>
  BY <1>3, PointIs
<1>5. DOMAIN b = LinkFields /\ b.sync = TRUE
  BY <1>2, <1>4 DEF Kept, LinkFields
<1>. HIDE DEF b
<1>6. Kept(b, d, {"sync", "frame"}) /\ d.sync = FALSE /\ d.frame = <<>>
  BY <1>5, FallIs
<1>7. DOMAIN d = LinkFields
  BY <1>6 DEF Kept
<1>. HIDE DEF d
<1>8. /\ Kept(d, link', {"count", "nextCount", "tick"})
      /\ link'.count = 1 /\ link'.nextCount = 2 /\ link'.tick = TRUE
  BY <1>1, <1>7, LaunchIs
<1>9. /\ DOMAIN link' = LinkFields /\ link'.sync = FALSE /\ link'.frame = <<>>
      /\ link'.ptr = <<c>> /\ link'.next = <<w, w>> /\ link'.wire = link.wire
  BY <1>2, <1>4, <1>6, <1>8 DEF Kept, LinkFields
<1>. QED  BY <1>8, <1>9 DEF Sending, c, w

\* A byte passes from the PDC to the transmitter.
LEMMA LoadIs ==
    ASSUME DOMAIN link = LinkFields, PdcLoad
    PROVE  /\ Kept(link, link', {"wire", "ptr", "count", "nextCount"})
           /\ link.count > 0
           /\ link'.wire = Append(link.wire, IF link.ptr = <<>> THEN Junk ELSE Head(link.ptr))
           /\ IF link.count = 1 /\ link.nextCount > 0
                THEN link'.ptr = link.next /\ link'.count = link.nextCount /\ link'.nextCount = 0
                ELSE /\ link'.ptr = IF link.ptr = <<>> THEN <<>> ELSE Tail(link.ptr)
                     /\ link'.count = link.count - 1 /\ link'.nextCount = link.nextCount
<1>. DEFINE byte == IF link.ptr = <<>> THEN Junk ELSE Head(link.ptr)
            rest == IF link.ptr = <<>> THEN <<>> ELSE Tail(link.ptr)
            over == link.count = 1 /\ link.nextCount > 0
            wire == Append(link.wire, byte)
            ptr == IF over THEN link.next ELSE rest
            count == IF over THEN link.nextCount ELSE link.count - 1
            left == IF over THEN 0 ELSE link.nextCount
            m == [link EXCEPT !.wire = wire, !.ptr = ptr]
<1>1. link' = [m EXCEPT !.count = count, !.nextCount = left] /\ link.count > 0
  BY DEF PdcLoad
<1>. HIDE DEF wire, ptr, count, left
<1>2. Kept(link, m, {"wire", "ptr"}) /\ m.wire = wire /\ m.ptr = ptr
  BY DEF Kept, LinkFields
<1>. HIDE DEF m
<1>3. Kept(m, link', {"count", "nextCount"}) /\ link'.count = count /\ link'.nextCount = left
  BY <1>1, <1>2 DEF Kept, LinkFields
<1>4. /\ Kept(link, link', {"wire", "ptr", "count", "nextCount"})
      /\ link'.wire = wire /\ link'.ptr = ptr
  BY <1>2, <1>3 DEF Kept, LinkFields
<1>. QED  BY <1>1, <1>3, <1>4 DEF wire, ptr, count, left

LEMMA LoadSends ==
    ASSUME DOMAIN link = LinkFields, PdcLoad, NEW c, NEW w, Sending(link, c, w)
    PROVE  Sending(link', c, w)
<1>1. /\ link'.frame = link.frame /\ link.count > 0
      /\ link'.wire = Append(link.wire, IF link.ptr = <<>> THEN Junk ELSE Head(link.ptr))
      /\ IF link.count = 1 /\ link.nextCount > 0
           THEN link'.ptr = link.next /\ link'.count = link.nextCount /\ link'.nextCount = 0
           ELSE /\ link'.ptr = IF link.ptr = <<>> THEN <<>> ELSE Tail(link.ptr)
                /\ link'.count = link.count - 1 /\ link'.nextCount = link.nextCount
      /\ Len(link.wire) < 2
  <2>1. Len(link.wire) < 2
    BY DEF PdcLoad
  <2>. QED  BY <2>1, LoadIs DEF Kept, LinkFields
<1>2. /\ <<c>> # <<>> /\ Head(<<c>>) = c /\ Append(<<>>, c) = <<c>>
      /\ <<w>> # <<>> /\ Head(<<w>>) = w /\ Tail(<<w>>) = <<>> /\ Append(<<>>, w) = <<w>>
      /\ <<w, w>> # <<>> /\ Head(<<w, w>>) = w /\ Tail(<<w, w>>) = <<w>>
      /\ Append(<<c>>, w) = <<c, w>> /\ Append(<<w>>, w) = <<w, w>>
      /\ Len(<<c, w>>) = 2
  BY OneByte, TwoBytes
<1>3. CASE link.count = 1 /\ link.nextCount = 2 /\ link.ptr = <<c>> /\ link.next = <<w, w>>
           /\ link.wire = <<>> /\ link.frame = <<>>
  <2>1. /\ link'.count = 2 /\ link'.nextCount = 0 /\ link'.ptr = <<w, w>>
        /\ link'.wire = <<c>> /\ link'.frame = <<>>
    BY <1>1, <1>2, <1>3
  <2>. QED  BY <2>1 DEF Sending
<1>4. CASE /\ link.count = 2 /\ link.nextCount = 0 /\ link.ptr = <<w, w>>
           /\ \/ link.frame = <<>> /\ link.wire = <<c>>
              \/ link.frame = <<c>> /\ link.wire = <<>>
  <2>1. /\ link'.count = 1 /\ link'.nextCount = 0 /\ link'.ptr = <<w>>
        /\ \/ link'.frame = <<>> /\ link'.wire = <<c, w>>
           \/ link'.frame = <<c>> /\ link'.wire = <<w>>
    <3>1. /\ link'.count = 1 /\ link'.nextCount = 0 /\ link'.ptr = <<w>>
          /\ link'.wire = Append(link.wire, w)
      BY <1>1, <1>2, <1>4
    <3>. QED  BY <1>1, <1>2, <1>4, <3>1
  <2>. QED  BY <2>1 DEF Sending
<1>5. CASE /\ link.count = 1 /\ link.nextCount = 0 /\ link.ptr = <<w>>
           /\ \/ link.frame = <<>> /\ link.wire = <<c, w>>
              \/ link.frame = <<c>> /\ link.wire = <<w>>
              \/ link.frame = <<c, w>> /\ link.wire = <<>>
  <2>1. /\ link'.count = 0 /\ link'.nextCount = 0
        /\ \/ link'.frame = <<c>> /\ link'.wire = <<w, w>>
           \/ link'.frame = <<c, w>> /\ link'.wire = <<w>>
    <3>1. /\ link'.count = 0 /\ link'.nextCount = 0 /\ link'.wire = Append(link.wire, w)
      BY <1>1, <1>2, <1>5
    <3>2. link.wire # <<c, w>>
      BY <1>1, <1>2
    <3>. QED  BY <1>1, <1>2, <1>5, <3>1, <3>2
  <2>. QED  BY <2>1 DEF Sending
<1>. QED  BY <1>1, <1>3, <1>4, <1>5 DEF Sending

\* A byte leaves the transmitter.
LEMMA ShiftIs ==
    ASSUME DOMAIN link = LinkFields, ShiftByte, ~cut
    PROVE  /\ Kept(link, link', {"wire", "frame"}) /\ link.wire # <<>>
           /\ link'.wire = Tail(link.wire)
           /\ IF ~link.sync /\ Len(link.frame) < 3
                THEN link'.frame = Append(link.frame, Head(link.wire))
                ELSE link'.frame = link.frame /\ UNCHANGED <<dac, ref>>
           /\ IF ~link.sync /\ Len(link.frame) < 3 /\ Len(link'.frame) = 3
                THEN Execute(link'.frame)
                ELSE UNCHANGED <<dac, ref>>
<1>. DEFINE taken == ~link.sync /\ Len(link.frame) < 3
            frame == IF taken THEN Append(link.frame, Head(link.wire)) ELSE link.frame
            wire == Tail(link.wire)
<1>1. /\ link' = [link EXCEPT !.wire = wire, !.frame = frame] /\ link.wire # <<>>
      /\ IF taken /\ Len(frame) = 3 THEN Execute(frame) ELSE UNCHANGED <<dac, ref>>
  BY DEF ShiftByte
<1>. HIDE DEF frame, wire
<1>2. Kept(link, link', {"wire", "frame"}) /\ link'.wire = wire /\ link'.frame = frame
  BY <1>1 DEF Kept, LinkFields
<1>. QED  BY <1>1, <1>2 DEF frame, wire

LEMMA ShiftSends ==
    ASSUME DOMAIN link = LinkFields, ShiftByte, ~cut, ~link.sync, NEW c, NEW w, Sending(link, c, w)
    PROVE  \/ Sending(link', c, w) /\ UNCHANGED <<dac, ref>>
           \/ Idle(link') /\ link'.frame = <<c, w, w>> /\ Execute(<<c, w, w>>)
<1>1. /\ link'.count = link.count /\ link'.nextCount = link.nextCount /\ link'.ptr = link.ptr
      /\ link.wire # <<>> /\ link'.wire = Tail(link.wire)
      /\ Len(link.frame) < 3 => link'.frame = Append(link.frame, Head(link.wire))
      /\ IF Len(link.frame) < 3 /\ Len(link'.frame) = 3
           THEN Execute(link'.frame) ELSE UNCHANGED <<dac, ref>>
  BY ShiftIs DEF Kept, LinkFields
<1>2. /\ Head(<<c>>) = c /\ Tail(<<c>>) = <<>> /\ Append(<<>>, c) = <<c>>
      /\ Head(<<w>>) = w /\ Tail(<<w>>) = <<>>
      /\ Head(<<w, w>>) = w /\ Tail(<<w, w>>) = <<w>>
      /\ Head(<<c, w>>) = c /\ Tail(<<c, w>>) = <<w>>
      /\ Append(<<c>>, w) = <<c, w>> /\ Append(<<c, w>>, w) = <<c, w, w>>
      /\ Len(<<>>) = 0 /\ Len(<<c>>) = 1 /\ Len(<<c, w>>) = 2 /\ Len(<<c, w, w>>) = 3
  BY OneByte, TwoBytes, ThreeBytes
<1>3. CASE /\ link.count = 2 /\ link.nextCount = 0 /\ link.ptr = <<w, w>>
           /\ link.frame = <<>> /\ link.wire = <<c>>
  <2>1. link'.frame = <<c>> /\ link'.wire = <<>> /\ UNCHANGED <<dac, ref>>
    BY <1>1, <1>2, <1>3
  <2>. QED  BY <1>1, <1>3, <2>1 DEF Sending
<1>4. CASE /\ link.count = 1 /\ link.nextCount = 0 /\ link.ptr = <<w>>
           /\ link.frame = <<>> /\ link.wire = <<c, w>>
  <2>1. link'.frame = <<c>> /\ link'.wire = <<w>> /\ UNCHANGED <<dac, ref>>
    BY <1>1, <1>2, <1>4
  <2>. QED  BY <1>1, <1>4, <2>1 DEF Sending
<1>5. CASE /\ link.count = 1 /\ link.nextCount = 0 /\ link.ptr = <<w>>
           /\ link.frame = <<c>> /\ link.wire = <<w>>
  <2>1. link'.frame = <<c, w>> /\ link'.wire = <<>> /\ UNCHANGED <<dac, ref>>
    BY <1>1, <1>2, <1>5
  <2>. QED  BY <1>1, <1>5, <2>1 DEF Sending
<1>6. CASE /\ link.count = 0 /\ link.nextCount = 0
           /\ link.frame = <<c>> /\ link.wire = <<w, w>>
  <2>1. link'.frame = <<c, w>> /\ link'.wire = <<w>> /\ UNCHANGED <<dac, ref>>
    BY <1>1, <1>2, <1>6
  <2>. QED  BY <1>1, <1>6, <2>1 DEF Sending
<1>7. CASE /\ link.count = 0 /\ link.nextCount = 0
           /\ link.frame = <<c, w>> /\ link.wire = <<w>>
  <2>1. link'.frame = <<c, w, w>> /\ link'.wire = <<>>
    BY <1>1, <1>2, <1>7
  <2>2. Execute(<<c, w, w>>)
    BY <1>1, <1>2, <1>7, <2>1
  <2>. QED  BY <1>1, <1>7, <2>1, <2>2 DEF Idle
<1>. QED  BY <1>1, <1>3, <1>4, <1>5, <1>6, <1>7 DEF Sending

LEMMA SendingBusy ==
    ASSUME NEW l, NEW c, NEW w, Sending(l, c, w)
    PROVE  ~Idle(l)
<1>1. <<c>> # <<>> /\ <<w>> # <<>> /\ <<c, w>> # <<>> /\ <<w, w>> # <<>>
  BY OneByte, TwoBytes
<1>. QED  BY <1>1 DEF Sending, Idle

\* The converter executes a whole frame.
LEMMA ExecuteIs ==
    ASSUME NEW c, NEW w, Execute(<<c, w, w>>)
    PROVE  /\ c \in Channels /\ w \in {"i0_dac", "sample"} => dac' = [dac EXCEPT ![c] = w] /\ ref' = ref
           /\ c = "ref" /\ w = "on" => ref' = TRUE /\ dac' = dac
<1>. DEFINE f == <<c, w, w>>
<1>1. f[1] = c /\ f[2] = w /\ f[3] = w
  BY ThreeBytes
<1>2. IF f[1] \in Channels /\ f[2] = f[3] /\ f[2] \in {"i0_dac", "sample"}
      THEN dac' = [dac EXCEPT ![f[1]] = f[2]] /\ ref' = ref
      ELSE f = <<"ref", "on", "on">> => ref' = TRUE /\ dac' = dac
  BY DEF Execute
<1>3. c = "ref" /\ w = "on" => f = <<"ref", "on", "on">> /\ c \notin Channels
  BY DEF Channels
<1>. HIDE DEF f
<1>. QED  BY <1>1, <1>2, <1>3

(***************************************************************************)
(* Where the handler is and for whom.                                      *)
(***************************************************************************)
Writing == {"dac_point", "dac_fall", "dac_launch", "dac_wait", "dac_rise"}

Handling ==
    /\ DOMAIN link = LinkFields /\ DOMAIN dac = Channels
    /\ DOMAIN mode = Channels /\ DOMAIN pins = Channels /\ DOMAIN pots = Channels
    /\ pc \in Writing \cup {"idle", "pin", "ret"}
    /\ pc = "pin" => req.op = "link" \/ (req.op = "sync" /\ req.level \in BOOLEAN)
    /\ pc \in Writing => req.op = "config" \/ (req.op = "mode" /\ req.chan \in Channels)

LEMMA RequestIs ==
    ASSUME Request
    PROVE  /\ pc = "idle" /\ Idle(link) /\ UNCHANGED <<link, dac, ref, cut, mixed, edge>>
           /\ disturbed' = FALSE /\ req' \in Requests
           /\ \/ pc' = "dac_point" /\ req'.op \in {"config", "mode"}
              \/ pc' = "pin" /\ req'.op \in {"sync", "link"} /\ ~DacWrite'
              \/ pc' = "ret" /\ ~DacWrite'
           /\ chan' \in {chan, "A"}
           /\ \/ UNCHANGED command
              \/ req'.op = "command" /\ command' = [command EXCEPT ![req'.chan] = req'.byte]
           /\ \/ UNCHANGED <<mode, pins, pots>>
              \/ SetMode(req') \/ SetPin(req') \/ WriteAd5122(req')
<1>1. PICK r \in Requests : \/ SetMode(r)  \/ ConfigHardware(r) \/ WriteAd5122(r)
                            \/ SetPin(r)   \/ TakePin(r) \/ SetCommand(r) \/ Sampling(r)
  BY DEF Request
<1>2. CASE SetMode(r)
  BY <1>1, <1>2 DEF SetMode, Begin, LinkIdle, Idle, DacWrite, sampling
<1>3. CASE ConfigHardware(r)
  BY <1>1, <1>3 DEF ConfigHardware, Begin, LinkIdle, Idle, DacWrite, sampling, settings
<1>4. CASE WriteAd5122(r)
  BY <1>1, <1>4 DEF WriteAd5122, Begin, LinkIdle, Idle, DacWrite, sampling
<1>5. CASE SetPin(r)
  BY <1>1, <1>5 DEF SetPin, Begin, LinkIdle, Idle, DacWrite, sampling
<1>6. CASE SetCommand(r)
  BY <1>1, <1>6 DEF SetCommand, Begin, LinkIdle, Idle, DacWrite, sampling
<1>7. CASE Sampling(r)
  BY <1>1, <1>7 DEF Sampling, Begin, LinkIdle, Idle, DacWrite, settings
<1>8. CASE TakePin(r)
  BY <1>1, <1>8 DEF TakePin, Begin, LinkIdle, Idle, DacWrite, sampling, settings
<1>. QED  BY <1>1, <1>2, <1>3, <1>4, <1>5, <1>6, <1>7, <1>8

\* The host drives N_SYNC or takes another pin.
LEMMA PinIs ==
    ASSUME Handling, DrivePin
    PROVE  /\ pc = "pin" /\ pc' = "ret" /\ req' = req /\ req.op \in {"sync", "link"}
           /\ UNCHANGED <<settings, sampling, disturbed, mixed, edge>> /\ DOMAIN dac' = Channels
           /\ Kept(link, link', {"sync", "frame"})
           /\ cut' \/ (cut' = cut /\ UNCHANGED <<dac, ref>>)
           /\ \/ link'.sync = link.sync /\ link'.frame = link.frame
              \/ link'.sync = TRUE /\ link'.frame = link.frame
              \/ link'.sync = FALSE /\ link'.frame = IF link.sync THEN <<>> ELSE link.frame
<1>1. /\ pc = "pin" /\ pc' = "ret" /\ req' = req
      /\ UNCHANGED <<settings, sampling, disturbed, mixed, edge>>
  BY DEF DrivePin
<1>2. DOMAIN link = LinkFields /\ DOMAIN dac = Channels
  BY DEF Handling
<1>3. CASE req.op = "sync"
  <2>1. link' = Sync(link, req.level) /\ UNCHANGED <<dac, ref, cut>> /\ req.level \in BOOLEAN
    BY <1>1, <1>3 DEF DrivePin, Handling
  <2>2. CASE req.level = TRUE
    <3>1. link' = Sync(link, TRUE)
      BY <2>1, <2>2
    <3>2. Kept(link, link', {"sync"}) /\ link'.sync = TRUE
      BY <1>2, <3>1, RiseIs
    <3>3. Kept(link, link', {"sync", "frame"}) /\ link'.frame = link.frame
      BY <3>2 DEF Kept, LinkFields
    <3>. QED  BY <1>1, <1>2, <1>3, <2>1, <3>2, <3>3
  <2>3. CASE req.level = FALSE
    <3>1. link' = Sync(link, FALSE)
      BY <2>1, <2>3
    <3>2. /\ Kept(link, link', {"sync", "frame"}) /\ link'.sync = FALSE
          /\ link'.frame = IF link.sync THEN <<>> ELSE link.frame
      BY <1>2, <3>1, FallIs
    <3>. QED  BY <1>1, <1>2, <1>3, <2>1, <3>2
  <2>. QED  BY <2>1, <2>2, <2>3
<1>4. CASE req.op # "sync"
  <2>1. cut' = TRUE /\ Garbled /\ link' = link /\ req.op = "link"
    BY <1>1, <1>4 DEF DrivePin, Handling
  <2>2. DOMAIN dac' = Channels
    BY <2>1 DEF Garbled
  <2>. QED  BY <1>1, <1>2, <2>1, <2>2 DEF Kept, LinkFields
<1>. QED  BY <1>3, <1>4

\* The accesses of write_ad5663 to USART0 and N_SYNC.
LEMMA WriteSteps ==
    ASSUME DOMAIN link = LinkFields
    PROVE  /\ DacPoint => /\ Kept(link, link', {"ptr", "next"})
                          /\ link'.ptr = <<DacCommand>> /\ link'.next = <<DacWord, DacWord>>
           /\ DacFall => /\ Kept(link, link', {"sync", "frame"}) /\ link'.sync = FALSE
                         /\ link'.frame = IF link.sync THEN <<>> ELSE link.frame
           /\ DacLaunch => /\ Kept(link, link', {"count", "nextCount", "tick"})
                           /\ link'.count = 1 /\ link'.nextCount = 2
           /\ DacRise => Kept(link, link', {"sync"}) /\ link'.sync = TRUE
<1>. DEFINE c == DacCommand
            w == DacWord
<1>1. DacPoint => link' = Point(link, c, w)
  BY DEF DacPoint
<1>. HIDE DEF c, w
<1>2. DacPoint => /\ Kept(link, link', {"ptr", "next"})
                  /\ link'.ptr = <<c>> /\ link'.next = <<w, w>>
  BY <1>1, PointIs
<1>3. DacFall => link' = Sync(link, FALSE)
  BY DEF DacFall
<1>4. DacLaunch => link' = Launch(link, FALSE)
  BY DEF DacLaunch
<1>5. DacRise => link' = Sync(link, TRUE)
  BY DEF DacRise
<1>6. DacFall => /\ Kept(link, link', {"sync", "frame"}) /\ link'.sync = FALSE
                 /\ link'.frame = IF link.sync THEN <<>> ELSE link.frame
  BY <1>3, FallIs
<1>7. DacLaunch => /\ Kept(link, link', {"count", "nextCount", "tick"})
                   /\ link'.count = 1 /\ link'.nextCount = 2
  BY <1>4, LaunchIs
<1>8. DacRise => Kept(link, link', {"sync"}) /\ link'.sync = TRUE
  BY <1>5, RiseIs
<1>. QED  BY <1>2, <1>6, <1>7, <1>8 DEF c, w

LEMMA HandlingStep == ASSUME Handling, [Next]_vars PROVE Handling'
<1>1. CASE Request
  <2>1. DOMAIN mode' = Channels /\ DOMAIN pins' = Channels /\ DOMAIN pots' = Channels
    <3>1. CASE SetMode(req')
      BY <3>1 DEF SetMode, Handling
    <3>2. CASE SetPin(req')
      BY <3>2 DEF SetPin, Handling
    <3>3. CASE WriteAd5122(req')
      BY <3>3 DEF WriteAd5122, Handling
    <3>4. CASE UNCHANGED <<mode, pins, pots>>
      BY <3>4 DEF Handling
    <3>. QED  BY <1>1, <3>1, <3>2, <3>3, <3>4, RequestIs
  <2>. QED  BY <1>1, <2>1, RequestIs, RequestsAssumption DEF Handling, Writing
<1>2. CASE DacPoint \/ DacFall \/ DacLaunch \/ DacRise
  <2>1. DOMAIN link' = LinkFields
    BY <1>2, WriteSteps DEF Handling, Kept
  <2>. QED  BY <1>2, <2>1 DEF DacPoint, DacFall, DacLaunch, DacRise, Step, settings, Handling, Writing
<1>3. CASE DacWait
  BY <1>3 DEF DacWait, Step, settings, Handling, Writing
<1>4. CASE Return
  BY <1>4 DEF Return, settings, Handling, Writing
<1>5. CASE PdcLoad
  <2>1. DOMAIN link' = LinkFields
    BY <1>5, LoadIs DEF Handling, Kept
  <2>. QED  BY <1>5, <2>1 DEF PdcLoad, settings, Handling
<1>6. CASE ShiftByte
  <2>1. DOMAIN link' = LinkFields
    <3>1. PICK x, y : link' = [link EXCEPT !.wire = x, !.frame = y]
      BY <1>6 DEF ShiftByte
    <3>. QED  BY <3>1 DEF Handling
  <2>2. DOMAIN dac' = Channels
    <3>1. Garbled => DOMAIN dac' = Channels
      BY DEF Garbled
    <3>2. \A f : Execute(f) => DOMAIN dac' = Channels
      BY <3>1 DEF Execute, Handling
    <3>. QED  BY <1>6, <3>1, <3>2 DEF ShiftByte, Handling
  <2>. QED  BY <1>6, <2>1, <2>2 DEF ShiftByte, settings, Handling
<1>7. CASE TC2_Handler
  <2>1. DOMAIN link' = LinkFields
    BY <1>7, TickIs DEF Handling
  <2>. QED  BY <1>7, <2>1 DEF TC2_Handler, settings, Handling
<1>8. CASE Sof
  BY <1>8 DEF Sof, settings, Handling
<1>9. CASE UNCHANGED vars
  BY <1>9 DEF vars, settings, Handling
<1>10. CASE DrivePin
  <2>1. DOMAIN link' = LinkFields
    BY <1>10, PinIs DEF Kept
  <2>. QED  BY <1>10, <2>1, PinIs DEF settings, Handling, Writing
<1>. QED  BY <1>1, <1>2, <1>3, <1>4, <1>5, <1>6, <1>7, <1>8, <1>9, <1>10 DEF Next, Handler, Pdc

(***************************************************************************)
(* A write that no tick disturbs.                                          *)
(***************************************************************************)
Pointed == link.ptr = <<DacCommand>> /\ link.next = <<DacWord, DacWord>>

\* WriteLands is not inductive: what has been sent so far, and what still waits,
\* make up the command at every access of the handler and of the PDC.
Undisturbed ==
    /\ pc # "dac_wait" => Idle(link)
    /\ pc \in {"dac_fall", "dac_launch"} => Pointed
    /\ pc = "dac_fall" /\ edge => link.sync
    /\ pc = "dac_launch" /\ edge => link.frame = <<>>
    /\ pc \in {"dac_launch", "dac_wait"} => ~link.sync
    /\ pc = "dac_wait" /\ edge => Sending(link, DacCommand, DacWord) \/ (Idle(link) /\ Landed)
    /\ (pc = "dac_rise" \/ DacWrite) /\ edge => Landed

WriteInv == pc # "idle" /\ ~disturbed /\ ~cut => Undisturbed

LEMMA WriteStep == ASSUME Handling, WriteInv, [Next]_vars PROVE WriteInv'
<1>. SUFFICES ASSUME pc' # "idle", ~disturbed', ~cut' PROVE Undisturbed'
  BY DEF WriteInv
<1>0. DOMAIN link = LinkFields /\ pc \in Writing \cup {"idle", "pin", "ret"}
  BY DEF Handling
<1>1. CASE Request
  BY <1>1, RequestIs DEF Undisturbed, Idle, DacWrite
<1>2. CASE DacPoint
  <2>1. /\ pc = "dac_point" /\ pc' = "dac_fall" /\ Undisturbed /\ edge' = link.sync
        /\ req' = req
    BY <1>2 DEF DacPoint, Step, WriteInv
  <2>2. /\ link'.sync = link.sync /\ Idle(link')
        /\ link'.ptr = <<DacCommand>> /\ link'.next = <<DacWord, DacWord>>
    BY <1>0, <1>2, <2>1, WriteSteps DEF Kept, LinkFields, Undisturbed, Idle
  <2>. QED  BY <2>1, <2>2 DEF Undisturbed, Pointed, DacWrite, DacCommand, DacWord
<1>3. CASE DacFall
  <2>1. /\ pc = "dac_fall" /\ pc' = "dac_launch" /\ Undisturbed /\ edge' = edge
        /\ req' = req
    BY <1>3 DEF DacFall, Step, WriteInv
  <2>2. /\ link'.sync = FALSE /\ Idle(link')
        /\ link'.frame = IF link.sync THEN <<>> ELSE link.frame
        /\ link'.ptr = link.ptr /\ link'.next = link.next
    BY <1>0, <1>3, <2>1, WriteSteps DEF Kept, LinkFields, Undisturbed, Idle
  <2>. QED  BY <2>1, <2>2 DEF Undisturbed, Pointed, DacWrite, DacCommand, DacWord
<1>4. CASE DacLaunch
  <2>1. /\ pc = "dac_launch" /\ pc' = "dac_wait" /\ Undisturbed /\ edge' = edge
        /\ req' = req
    BY <1>4 DEF DacLaunch, Step, WriteInv
  <2>2. /\ link'.sync = link.sync /\ link'.count = 1 /\ link'.nextCount = 2
        /\ link'.ptr = link.ptr /\ link'.next = link.next
        /\ link'.wire = link.wire /\ link'.frame = link.frame
    BY <1>0, <1>4, <2>1, WriteSteps DEF Kept, LinkFields
  <2>3. /\ edge => Sending(link', DacCommand, DacWord)
    BY <2>1, <2>2 DEF Undisturbed, Pointed, Idle, Sending
  <2>. QED  BY <2>1, <2>2, <2>3 DEF Undisturbed, DacWrite, DacCommand, DacWord
<1>5. CASE DacWait
  <2>1. /\ pc = "dac_wait" /\ pc' = "dac_rise" /\ Undisturbed /\ edge' = edge
        /\ UNCHANGED <<req, link, dac, ref>> /\ Idle(link)
    BY <1>5 DEF DacWait, Step, WriteInv, TxEmpty, LinkIdle, Idle
  <2>2. edge => Landed
    BY <2>1, SendingBusy DEF Undisturbed
  <2>. QED  BY <2>1, <2>2 DEF Undisturbed, Idle, DacWrite, Landed
<1>6. CASE DacRise
  <2>1. /\ pc = "dac_rise" /\ pc' = "ret" /\ Undisturbed /\ edge' = edge
        /\ UNCHANGED <<req, dac, ref>>
    BY <1>6 DEF DacRise, Step, WriteInv
  <2>2. Idle(link')
    BY <1>0, <1>6, <2>1, WriteSteps DEF Kept, LinkFields, Undisturbed, Idle
  <2>. QED  BY <2>1, <2>2 DEF Undisturbed, DacWrite, Landed
<1>7. CASE Return
  BY <1>7 DEF Return
<1>8. CASE PdcLoad
  <2>1. Undisturbed /\ UNCHANGED <<pc, req, edge, dac, ref>>
    BY <1>8 DEF PdcLoad, WriteInv
  <2>2. link.count > 0 /\ link'.sync = link.sync
    BY <1>0, <1>8, LoadIs DEF Kept, LinkFields
  <2>3. pc = "dac_wait" /\ ~Idle(link)
    BY <2>1, <2>2 DEF Undisturbed, Idle
  <2>4. edge => Sending(link', DacCommand, DacWord)
    BY <1>0, <1>8, <2>1, <2>3, LoadSends DEF Undisturbed
  <2>. QED  BY <2>1, <2>2, <2>3, <2>4 DEF Undisturbed, DacWrite, DacCommand, DacWord
<1>9. CASE ShiftByte
  <2>1. Undisturbed /\ UNCHANGED <<pc, req, edge>> /\ ~cut
    BY <1>9 DEF ShiftByte, WriteInv
  <2>2. link.wire # <<>> /\ link'.sync = link.sync
    BY <1>0, <1>9, <2>1, ShiftIs DEF Kept, LinkFields
  <2>3. pc = "dac_wait" /\ ~Idle(link) /\ ~link.sync
    BY <2>1, <2>2 DEF Undisturbed, Idle
  <2>4. ASSUME edge
        PROVE  Sending(link', DacCommand, DacWord) \/ (Idle(link') /\ Landed')
    <3>. DEFINE c == DacCommand
                w == DacWord
    <3>1. Sending(link, c, w)
      BY <2>1, <2>3, <2>4 DEF Undisturbed
    <3>. HIDE DEF c, w
    <3>2. Sending(link', c, w) \/ (Idle(link') /\ Execute(<<c, w, w>>))
      BY <1>0, <1>9, <2>1, <2>3, <3>1, ShiftSends
    <3>3. Execute(<<c, w, w>>) => Landed'
      <4>. SUFFICES ASSUME Execute(<<c, w, w>>) PROVE Landed'
        OBVIOUS
      <4>1. /\ c \in Channels /\ w \in {"i0_dac", "sample"} => dac' = [dac EXCEPT ![c] = w]
            /\ c = "ref" /\ w = "on" => ref' = TRUE
        BY ExecuteIs
      <4>2. \/ req.op = "mode" /\ c = req.chan /\ c \in Channels /\ w = "i0_dac"
            \/ req.op # "mode" /\ c = "ref" /\ w = "on"
        BY <2>3 DEF c, w, DacCommand, DacWord, Handling, Writing
      <4>. QED  BY <2>1, <4>1, <4>2 DEF Landed, Handling
    <3>. QED  BY <3>2, <3>3 DEF c, w
  <2>. QED  BY <2>1, <2>2, <2>3, <2>4 DEF Undisturbed, DacWrite, DacCommand, DacWord
<1>10. CASE TC2_Handler
  BY <1>10 DEF TC2_Handler
<1>11. CASE Sof
  BY <1>11 DEF Sof
<1>12. CASE UNCHANGED vars
  BY <1>12 DEF vars, WriteInv, Undisturbed, Idle, Pointed, Landed, DacWrite, DacCommand, DacWord
<1>13. CASE DrivePin
  <2>1. /\ pc = "pin" /\ pc' = "ret" /\ req' = req /\ req.op \in {"sync", "link"}
        /\ disturbed' = disturbed /\ cut' = cut /\ Kept(link, link', {"sync", "frame"})
    BY <1>13, PinIs
  <2>2. Idle(link)
    BY <2>1 DEF WriteInv, Undisturbed
  <2>3. Idle(link')
    BY <2>1, <2>2 DEF Idle, Kept, LinkFields
  <2>. QED  BY <2>1, <2>3 DEF Undisturbed, DacWrite
<1>. QED  BY <1>1, <1>2, <1>3, <1>4, <1>5, <1>6, <1>7, <1>8, <1>9, <1>10, <1>11, <1>12, <1>13
          DEF Next, Handler, Pdc

LEMMA HandlingInit == Init => Handling /\ pc = "idle"
  BY DEF Init, Handling, LinkFields, Channels, Writing, NoReq

\* What write_ad5663 sends reaches the converter whole: once it returns, the
\* output of the channel that set_mode disables is at its resting value, and the
\* reference that config_hardware asks for is on, whatever was streamed before
\* and wherever requests 0x50 and 0x51 drove N_SYNC, unless TC2_Handler came in
\* between, N_SYNC was low or the converter has lost a pin.
THEOREM WritesLand == Spec => []WriteLands
<1>1. Init => Handling /\ WriteInv
  BY HandlingInit DEF WriteInv
<1>2. Handling /\ WriteInv /\ [Next]_vars => Handling' /\ WriteInv'
  BY HandlingStep, WriteStep
<1>3. WriteInv => WriteLands
  BY DEF WriteInv, Undisturbed, WriteLands, DacWrite
<1>. QED  BY <1>1, <1>2, <1>3, PTL DEF Spec

(***************************************************************************)
(* Writes and ticks that take turns.                                       *)
(***************************************************************************)
Full == Len(link.frame) = 3

\* Between two frames the converter has no part of one: N_SYNC is high, the last
\* frame is whole, or the host has pulled N_SYNC low and nothing came.
Between == Idle(link) /\ (link.sync \/ Full \/ link.frame = <<>>)

\* WholeCommands is not inductive: what the converter will take next depends on
\* how much of a frame it has, also when N_SYNC was left low by a tick.
Unmixed ==
    /\ ref /\ \A c \in Channels : dac[c] # Junk
    /\ pc \in {"idle", "ret"} =>
          Between \/ (link.tick /\ ~link.sync /\ \E c \in Channels : Sending(link, c, "sample"))
    /\ pc \in {"pin", "dac_point", "dac_fall", "dac_rise"} => Between
    /\ pc \in {"dac_fall", "dac_launch"} => Pointed
    /\ pc = "dac_launch" => Idle(link) /\ ~link.sync /\ (Full \/ link.frame = <<>>)
    /\ pc = "dac_wait" => ~link.sync /\ (Full \/ Sending(link, DacCommand, DacWord))

\* The two command bytes are those of the two channels.
Commands == chan \in Channels /\ command \in [Channels -> Channels]

MixInv == Commands /\ (~mixed /\ ~cut => Unmixed)

\* A host that gives 0x24 and 0x25 the command of a channel.
Bytes == \A r \in Requests : r.op = "command" => r.byte \in Channels

\* What the PDC sends of a frame leaves the converter with whole commands.
LEMMA FrameWhole ==
    ASSUME Handling, ref, \A c \in Channels : dac[c] # Junk,
           NEW c, NEW w, Execute(<<c, w, w>>),
           (c \in Channels /\ w \in {"i0_dac", "sample"}) \/ (c = "ref" /\ w = "on")
    PROVE  ref' /\ \A d \in Channels : dac'[d] # Junk
<1>1. \/ c \in Channels /\ dac' = [dac EXCEPT ![c] = w] /\ ref' = ref /\ w # Junk
      \/ ref' = TRUE /\ dac' = dac
  BY ExecuteIs DEF Junk
<1>. QED  BY <1>1 DEF Handling

LEMMA MixStep == ASSUME Handling, Bytes, MixInv, [Next]_vars PROVE MixInv'
<1>0. DOMAIN link = LinkFields /\ pc \in Writing \cup {"idle", "pin", "ret"} /\ Commands
  BY DEF Handling, MixInv
<1>1. Commands'
  <2>1. CASE Request
    <3>1. chan' \in {chan, "A"} /\ req' \in Requests
          /\ \/ UNCHANGED command
             \/ req'.op = "command" /\ command' = [command EXCEPT ![req'.chan] = req'.byte]
      BY <2>1, RequestIs
    <3>2. req'.op = "command" => req'.chan \in Channels /\ req'.byte \in Channels
      BY <3>1, RequestsAssumption DEF Bytes
    <3>. QED  BY <1>0, <3>1, <3>2 DEF Commands, Channels
  <2>2. CASE TC2_Handler
    BY <1>0, <2>2 DEF TC2_Handler, settings, Commands, Other, Channels
  <2>3. CASE Handler \/ Pdc \/ Sof \/ UNCHANGED vars
    BY <1>0, <2>3 DEF Handler, DacPoint, DacFall, DacLaunch, DacWait, DacRise, DrivePin, Step, Return,
                      Pdc, PdcLoad, ShiftByte, Sof, sampling, settings, vars, Commands
  <2>. QED  BY <2>1, <2>2, <2>3 DEF Next
<1>. SUFFICES ASSUME ~mixed', ~cut' PROVE Unmixed'
  BY <1>1 DEF MixInv
<1>2. CASE Request
  <2>1. /\ pc = "idle" /\ Idle(link) /\ UNCHANGED <<link, dac, ref, cut, mixed>>
        /\ pc' \in {"dac_point", "pin", "ret"}
    BY <1>2, RequestIs
  <2>2. ref /\ (\A c \in Channels : dac[c] # Junk) /\ Between
    BY <2>1, SendingBusy DEF MixInv, Unmixed
  <2>. QED  BY <2>1, <2>2 DEF Unmixed, Between, Idle, Full
<1>3. CASE DacPoint
  <2>1. /\ pc = "dac_point" /\ pc' = "dac_fall" /\ Unmixed /\ UNCHANGED <<req, dac, ref>>
    BY <1>3 DEF DacPoint, Step, MixInv
  <2>2. /\ link'.sync = link.sync /\ Idle(link') /\ link'.frame = link.frame
        /\ link'.ptr = <<DacCommand>> /\ link'.next = <<DacWord, DacWord>>
    BY <1>0, <1>3, <2>1, WriteSteps DEF Kept, LinkFields, Unmixed, Between, Idle
  <2>. QED  BY <2>1, <2>2 DEF Unmixed, Between, Full, Pointed, DacCommand, DacWord
<1>4. CASE DacFall
  <2>1. /\ pc = "dac_fall" /\ pc' = "dac_launch" /\ Unmixed /\ UNCHANGED <<req, dac, ref>>
    BY <1>4 DEF DacFall, Step, MixInv
  <2>2. /\ link'.sync = FALSE /\ Idle(link')
        /\ link'.frame = IF link.sync THEN <<>> ELSE link.frame
        /\ link'.ptr = link.ptr /\ link'.next = link.next
    BY <1>0, <1>4, <2>1, WriteSteps DEF Kept, LinkFields, Unmixed, Between, Idle
  <2>. QED  BY <2>1, <2>2 DEF Unmixed, Between, Full, Pointed, DacCommand, DacWord
<1>5. CASE DacLaunch
  <2>1. /\ pc = "dac_launch" /\ pc' = "dac_wait" /\ Unmixed /\ UNCHANGED <<req, dac, ref>>
    BY <1>5 DEF DacLaunch, Step, MixInv
  <2>2. /\ link'.sync = link.sync /\ link'.count = 1 /\ link'.nextCount = 2
        /\ link'.ptr = link.ptr /\ link'.next = link.next
        /\ link'.wire = link.wire /\ link'.frame = link.frame
    BY <1>0, <1>5, <2>1, WriteSteps DEF Kept, LinkFields
  <2>3. Full' \/ Sending(link', DacCommand, DacWord)
    BY <2>1, <2>2 DEF Unmixed, Full, Pointed, Idle, Sending
  <2>. QED  BY <2>1, <2>2, <2>3 DEF Unmixed, DacCommand, DacWord
<1>6. CASE DacWait
  <2>1. /\ pc = "dac_wait" /\ pc' = "dac_rise" /\ Unmixed
        /\ UNCHANGED <<req, link, dac, ref>> /\ Idle(link)
    BY <1>6 DEF DacWait, Step, MixInv, TxEmpty, LinkIdle, Idle
  <2>2. Between
    BY <2>1, SendingBusy DEF Unmixed, Between
  <2>. QED  BY <2>1, <2>2 DEF Unmixed, Between, Full, Idle
<1>7. CASE DacRise
  <2>1. /\ pc = "dac_rise" /\ pc' = "ret" /\ Unmixed /\ UNCHANGED <<req, dac, ref>>
    BY <1>7 DEF DacRise, Step, MixInv
  <2>2. Idle(link') /\ link'.sync = TRUE
    BY <1>0, <1>7, <2>1, WriteSteps DEF Kept, LinkFields, Unmixed, Between, Idle
  <2>. QED  BY <2>1, <2>2 DEF Unmixed, Between
<1>8. CASE Return
  <2>1. /\ pc = "ret" /\ pc' = "idle" /\ Unmixed /\ UNCHANGED <<link, dac, ref>>
    BY <1>8 DEF Return, MixInv
  <2>. QED  BY <2>1 DEF Unmixed, Between, Full, Idle
<1>9. CASE PdcLoad
  <2>1. Unmixed /\ UNCHANGED <<pc, req, dac, ref>>
    BY <1>9 DEF PdcLoad, MixInv
  <2>2. /\ link.count > 0 /\ link'.sync = link.sync /\ link'.frame = link.frame
        /\ link'.tick = link.tick
    BY <1>0, <1>9, LoadIs DEF Kept, LinkFields
  <2>3. pc \in {"idle", "ret", "dac_wait"} /\ ~Idle(link)
    BY <1>0, <2>1, <2>2 DEF Unmixed, Between, Idle, Writing
  <2>4. \A c, w : Sending(link, c, w) => Sending(link', c, w)
    BY <1>0, <1>9, LoadSends
  <2>5. CASE pc = "dac_wait"
    <3>1. Full' \/ Sending(link', DacCommand, DacWord)
      BY <2>1, <2>2, <2>4, <2>5 DEF Unmixed, Full
    <3>. QED  BY <2>1, <2>2, <2>5, <3>1 DEF Unmixed, DacCommand, DacWord
  <2>6. CASE pc \in {"idle", "ret"}
    <3>1. link.tick /\ ~link.sync /\ \E c \in Channels : Sending(link, c, "sample")
      BY <2>1, <2>3, <2>6 DEF Unmixed, Between
    <3>2. \E c \in Channels : Sending(link', c, "sample")
      BY <2>4, <3>1
    <3>. QED  BY <2>1, <2>2, <2>6, <3>1, <3>2 DEF Unmixed
  <2>. QED  BY <2>3, <2>5, <2>6
<1>10. CASE ShiftByte
  <2>1. Unmixed /\ UNCHANGED <<pc, req>> /\ ~cut
    BY <1>10 DEF ShiftByte, MixInv
  <2>2. /\ link.wire # <<>> /\ link'.sync = link.sync /\ link'.tick = link.tick
        /\ Full => link'.frame = link.frame /\ UNCHANGED <<dac, ref>>
    <3>1. Full => ~(Len(link.frame) < 3)
      BY DEF Full
    <3>2. /\ link.wire # <<>>
          /\ ~(Len(link.frame) < 3) => link'.frame = link.frame /\ UNCHANGED <<dac, ref>>
      BY <1>0, <1>10, <2>1, ShiftIs, Zenon
    <3>3. Kept(link, link', {"wire", "frame"})
      BY <1>0, <1>10, <2>1, ShiftIs
    <3>4. link'.sync = link.sync /\ link'.tick = link.tick
      BY <3>3 DEF Kept, LinkFields
    <3>. QED  BY <3>1, <3>2, <3>4
  <2>3. pc \in {"idle", "ret", "dac_wait"} /\ ~Idle(link) /\ ~link.sync
    BY <1>0, <2>1, <2>2 DEF Unmixed, Between, Idle, Writing
  <2>4. ASSUME NEW c, NEW w, Sending(link, c, w),
               (c \in Channels /\ w \in {"i0_dac", "sample"}) \/ (c = "ref" /\ w = "on")
        PROVE  /\ Sending(link', c, w) \/ (Idle(link') /\ Full')
               /\ ref' /\ \A d \in Channels : dac'[d] # Junk
    <3>1. CASE Sending(link', c, w) /\ UNCHANGED <<dac, ref>>
      BY <2>1, <3>1 DEF Unmixed
    <3>2. CASE Idle(link') /\ link'.frame = <<c, w, w>> /\ Execute(<<c, w, w>>)
      <4>1. Full'
        BY <3>2, ThreeBytes DEF Full
      <4>2. ref' /\ \A d \in Channels : dac'[d] # Junk
        BY <2>1, <2>4, <3>2, FrameWhole DEF Unmixed
      <4>. QED  BY <3>2, <4>1, <4>2
    <3>. QED  BY <1>0, <1>10, <2>1, <2>3, <2>4, <3>1, <3>2, ShiftSends
  <2>5. CASE pc = "dac_wait"
    <3>. DEFINE c == DacCommand
                w == DacWord
    <3>1. (c \in Channels /\ w \in {"i0_dac", "sample"}) \/ (c = "ref" /\ w = "on")
      BY <2>5 DEF DacCommand, DacWord, Handling, Writing
    <3>. HIDE DEF c, w
    <3>2. Full \/ Sending(link, c, w)
      BY <2>1, <2>5 DEF Unmixed, c, w
    <3>3. /\ Full' \/ Sending(link', c, w)
          /\ ref' /\ \A d \in Channels : dac'[d] # Junk
      <4>1. CASE Full
        BY <2>1, <2>2, <4>1 DEF Unmixed, Full
      <4>2. CASE Sending(link, c, w)
        BY <2>4, <3>1, <4>2
      <4>. QED  BY <3>2, <4>1, <4>2
    <3>. QED  BY <2>1, <2>2, <2>3, <2>5, <3>3 DEF Unmixed, DacCommand, DacWord, c, w
  <2>6. CASE pc \in {"idle", "ret"}
    <3>1. PICK c \in Channels : Sending(link, c, "sample")
      BY <2>1, <2>3, <2>6 DEF Unmixed, Between
    <3>2. /\ Sending(link', c, "sample") \/ (Idle(link') /\ Full')
          /\ ref' /\ \A d \in Channels : dac'[d] # Junk
      BY <2>4, <3>1
    <3>3. link.tick
      BY <2>1, <2>3, <2>6 DEF Unmixed, Between
    <3>. QED  BY <2>1, <2>2, <2>3, <2>6, <3>2, <3>3 DEF Unmixed, Between
  <2>. QED  BY <2>3, <2>5, <2>6
<1>11. CASE TC2_Handler
  <2>1. /\ pc \in {"idle", "ret"} /\ Unmixed /\ UNCHANGED <<pc, req, dac, ref>>
        /\ Idle(link) \/ ~link.tick
    BY <1>11 DEF TC2_Handler, MixInv, LinkIdle, Idle
  <2>2. Idle(link)
    BY <2>1 DEF Unmixed, Between
  <2>3. /\ link'.tick = TRUE /\ link'.sync = FALSE
        /\ Sending(link', command[chan], "sample")
    BY <1>0, <1>11, <2>2, TickIs DEF Idle
  <2>4. command[chan] \in Channels
    BY <1>0 DEF Commands
  <2>. QED  BY <2>1, <2>3, <2>4 DEF Unmixed
<1>12. CASE Sof
  BY <1>12 DEF Sof, MixInv, Unmixed, Between, Full, Idle
<1>13. CASE UNCHANGED vars
  BY <1>13 DEF vars, MixInv, Unmixed, Between, Full, Idle, Pointed, DacCommand, DacWord
<1>14. CASE DrivePin
  <2>1. /\ pc = "pin" /\ pc' = "ret" /\ mixed' = mixed /\ UNCHANGED <<cut, dac, ref>>
        /\ Kept(link, link', {"sync", "frame"})
        /\ \/ link'.sync = link.sync /\ link'.frame = link.frame
           \/ link'.sync = TRUE /\ link'.frame = link.frame
           \/ link'.sync = FALSE /\ link'.frame = IF link.sync THEN <<>> ELSE link.frame
    BY <1>14, PinIs
  <2>2. Unmixed /\ Between
    BY <2>1 DEF MixInv, Unmixed
  <2>3. Idle(link')
    BY <2>1, <2>2 DEF Between, Idle, Kept, LinkFields
  <2>4. Between'
    BY <2>1, <2>2, <2>3 DEF Between, Full
  <2>. QED  BY <2>1, <2>2, <2>4 DEF Unmixed
<1>. QED  BY <1>2, <1>3, <1>4, <1>5, <1>6, <1>7, <1>8, <1>9, <1>10, <1>11, <1>12, <1>13, <1>14
          DEF Next, Handler, Pdc

\* The AD5663 executes nothing but whole commands and keeps its reference, for
\* any alternation of streams, DAC writes and requests 0x50 and 0x51 for N_SYNC,
\* left low or not, as long as it has its other pins and TC2_Handler does not
\* come inside a write or such a request; 0x24 and 0x25 must name commands of the
\* two channels, since a tick sends the bytes they set.
THEOREM CommandsAreWhole ==
    ASSUME \A r \in Requests : r.op = "command" => r.byte \in Channels
    PROVE  Spec => []WholeCommands
<1>1. Init => Handling /\ MixInv
  <2>1. Init => Commands
    BY DEF Init, Commands, Channels
  <2>2. Init => pc = "idle" /\ Between /\ ref /\ \A c \in Channels : dac[c] # Junk
    BY DEF Init, Between, Idle, Junk
  <2>. QED  BY <2>1, <2>2, HandlingInit DEF MixInv, Unmixed
<1>2. Handling /\ MixInv /\ [Next]_vars => Handling' /\ MixInv'
  BY HandlingStep, MixStep DEF Bytes
<1>3. MixInv => WholeCommands
  BY DEF MixInv, Unmixed, WholeCommands
<1>. QED  BY <1>1, <1>2, <1>3, PTL DEF Spec
===========================================================================
