------------------------ MODULE UsbEndpointProofs ------------------------
(***************************************************************************)
(* UsbEndpoint keeps the accounts of its job, implements BulkJob and keeps *)
(* its data toggle in step, for every size, packet and word and with       *)
(* requests, resets and stale DMA interrupts at every step of udd_ep_run.  *)
(***************************************************************************)
EXTENDS UsbEndpoint, TLAPS

LinePart ==
    /\ dir \in {"in", "out"}
    /\ enabled \in BOOLEAN /\ stalled \in BOOLEAN /\ stallSent \in BOOLEAN
    /\ unmet \in BOOLEAN /\ devToggle \in {0, 1} /\ hostToggle \in {0, 1}
    /\ stalled => enabled

BankPart == bank \in Seq(0 .. Packet) /\ Len(bank) <= Banks

CallPart ==
    /\ calls \in Nat /\ moved \in Nat /\ call \in {"none", "old", "own"}
    /\ ~busy => moved = 0

RunPart ==
    /\ pc \in RunAt /\ arg \in Sizes \cup {0} /\ next \in 0 .. Max
    /\ pc \in {"take"} \cup Filling => arg \in Sizes

JobPart ==
    /\ busy \in BOOLEAN /\ torn \in BOOLEAN
    /\ size \in 0 .. Word - 1 /\ cnt \in 0 .. Word - 1
    /\ load \in 0 .. Max /\ left \in 0 .. Max
    /\ on \in BOOLEAN /\ irq \in BOOLEAN /\ dmaInt \in BOOLEAN
    /\ irq => ~on

\* Who can meet a job: on a disabled endpoint no interrupt, on a halted one
\* only a torn transfer.
MeetPart ==
    /\ busy /\ ~enabled => ~torn /\ ~(dmaInt /\ irq)
    /\ busy /\ ~torn => ~stalled

\* How far udd_ep_run has filled in a job that is not torn.
FillPart ==
    pc \in Filling /\ ~torn =>
        /\ busy
        /\ pc \in {"cnt", "load", "call", "trans", "dma", "zlp"} => size = arg
        /\ pc \in {"load", "call", "trans", "dma", "zlp", "end"} => cnt = 0
        /\ pc = "end" => size = 0
        /\ pc \in {"zlp", "end"} => dir = "out"
        /\ pc \in {"trans", "dma", "zlp", "end"} => call = "own"
        /\ pc = "dma" => next = NextTrans(size, cnt)
        /\ moved = 0

\* The bytes of a running job are behind it, in the running DMA transfer, or
\* still to be programmed.
Accounts ==
    busy /\ pc \notin Filling /\ ~torn =>
        /\ size \in Sizes /\ call = "own"
        /\ moved + left = cnt /\ cnt <= size /\ left <= load /\ load <= cnt
        /\ ~enabled => moved = 0 /\ cnt = load /\ ~irq
        /\ dir = "in" /\ irq => left = 0

Types == LinePart /\ BankPart /\ CallPart /\ RunPart /\ JobPart

JobInv == Types /\ MeetPart /\ FillPart /\ Accounts /\ JobBacked

\* A step calls at most one callback.
CalledOnce ==
    calls' \in {calls, calls + 1} /\ (calls' = calls => report' = report)

---------------------------------------------------------------------------
(* The arithmetic of iram_size_t and of one DMA transfer.                  *)

LEMMA WrapRange ==
    ASSUME NEW n \in Int PROVE Wrap(n) \in 0 .. Word - 1
<1>1. Word \in Int /\ Word > 0
  BY EndpointAssumption
<1>2. n % Word \in 0 .. Word - 1
  BY <1>1, Z3
<1> QED
  BY <1>2 DEF Wrap

LEMMA WrapSame ==
    ASSUME NEW n \in 0 .. Word - 1 PROVE Wrap(n) = n
<1>1. Word \in Int /\ Word > 0
  BY EndpointAssumption
<1>2. n % Word = n
  BY <1>1, Z3
<1> QED
  BY <1>2 DEF Wrap

LEMMA BuffLengthRange ==
    ASSUME NEW n \in Int PROVE BuffLength(n) \in 1 .. Max
<1>1. Max \in Int /\ Max > 0
  BY EndpointAssumption
<1>2. n % Max \in 0 .. Max - 1
  BY <1>1, Z3
<1> QED
  BY <1>1, <1>2 DEF BuffLength

\* A length of at least 1 and at most Max survives the BUFF_LENGTH field.
LEMMA BuffLengthExact ==
    ASSUME NEW n \in 1 .. Max PROVE BuffLength(n) = n
<1>1. CASE n = Max
  <2>1. n % Max = 0
    BY <1>1, EndpointAssumption, Z3
  <2> QED
    BY <1>1, <2>1 DEF BuffLength
<1>2. CASE n # Max
  <2>1. n \in 1 .. Max - 1
    BY <1>2, EndpointAssumption
  <2>2. n % Max = n
    BY <2>1, EndpointAssumption, Z3
  <2> QED
    BY <2>1, <2>2 DEF BuffLength
<1> QED
  BY <1>1, <1>2

LEMMA NextTransRange ==
    ASSUME NEW n \in Int, NEW c \in Int PROVE NextTrans(n, c) \in 0 .. Max
<1>1. Wrap(n - c) \in 0 .. Word - 1
  BY WrapRange
<1> QED
  BY <1>1, EndpointAssumption DEF NextTrans, Least

\* What is programmed for a job in order is between 1 and the rest of it.
LEMMA NextTransRest ==
    ASSUME NEW n \in 0 .. Word - 1, NEW c \in Nat, c < n
    PROVE  /\ NextTrans(n, c) \in 1 .. Max
           /\ c + NextTrans(n, c) <= n
           /\ BuffLength(NextTrans(n, c)) = NextTrans(n, c)
           /\ Wrap(c + NextTrans(n, c)) = c + NextTrans(n, c)
<1>1. Wrap(n - c) = n - c
  BY WrapSame, EndpointAssumption
<1>2. NextTrans(n, c) \in 1 .. Max /\ c + NextTrans(n, c) <= n
  BY <1>1, EndpointAssumption DEF NextTrans, Least
<1>3. c + NextTrans(n, c) \in 0 .. Word - 1
  BY <1>2, EndpointAssumption
<1> QED
  BY <1>2, <1>3, BuffLengthExact, WrapSame

LEMMA SizeFits ==
    ASSUME NEW n \in Sizes PROVE n \in 1 .. Word - 1
<1>1. n \in Nat /\ n # 0 /\ n + Max < Word /\ Max \in Nat /\ Word \in Nat
  BY EndpointAssumption
<1> QED
  BY <1>1

---------------------------------------------------------------------------
(* The banks.                                                              *)

LEMMA NoBank == ASSUME bank' = <<>> PROVE BankPart'
<1> DEFINE S == 0 .. Packet
<1> HIDE DEF S
<1>1. <<>> \in Seq(S) /\ Len(<<>>) = 0
  OBVIOUS
<1> QED
  BY <1>1, EndpointAssumption DEF S, BankPart

LEMMA TakenBank ==
    ASSUME BankPart, bank # <<>>, bank' = Tail(bank)
    PROVE  BankPart' /\ Head(bank) \in 0 .. Packet
<1> DEFINE S == 0 .. Packet
<1>1. bank \in Seq(S)
  BY DEF BankPart
<1> HIDE DEF S
<1>2. Head(bank) \in S /\ Tail(bank) \in Seq(S) /\ Len(Tail(bank)) <= Len(bank)
      /\ Len(bank) \in Nat /\ Len(Tail(bank)) \in Nat
  BY <1>1
<1> QED
  BY <1>2, EndpointAssumption DEF S, BankPart

LEMMA FilledBank ==
    ASSUME BankPart, NEW k \in 0 .. Packet, Len(bank) < Banks, bank' = Append(bank, k)
    PROVE  BankPart'
<1> DEFINE S == 0 .. Packet
<1>1. bank \in Seq(S) /\ k \in S
  BY DEF BankPart
<1> HIDE DEF S
<1>2. Append(bank, k) \in Seq(S) /\ Len(Append(bank, k)) = Len(bank) + 1
      /\ Len(bank) \in Nat
  BY <1>1
<1> QED
  BY <1>2, EndpointAssumption DEF S, BankPart

---------------------------------------------------------------------------
(* The parts of the handlers.                                              *)

LEMMA CallbackOnce ==
    ASSUME calls \in Nat, NEW status, NEW n, Callback(status, n)
    PROVE  calls' \in Nat /\ CalledOnce
BY DEF Callback, called, CalledOnce

LEMMA AbortJobEnds ==
    ASSUME CallPart, JobPart, AbortJob
    PROVE  /\ busy' = FALSE /\ size' = size /\ moved' = 0
           /\ calls' \in Nat /\ CalledOnce
<1>1. CASE busy
  <2>1. busy' = FALSE /\ size' = size /\ moved' = 0 /\ Callback("abort", size)
    BY <1>1 DEF AbortJob, FinishJob
  <2> QED
    BY <2>1, CallbackOnce DEF CallPart
<1>2. CASE ~busy
  <2>1. UNCHANGED <<busy, size, moved, called>>
    BY <1>2 DEF AbortJob
  <2> QED
    BY <1>2, <2>1 DEF CallPart, JobPart, called, CalledOnce
<1> QED
  BY <1>1, <1>2

\* Starting the DMA keeps the types, and the accounts of a job in order.
LEMMA StartDmaTypes ==
    ASSUME NEW n \in 0 .. Word - 1, NEW c \in 0 .. Word - 1, StartDma(n, c)
    PROVE  /\ busy' = TRUE /\ size' = n /\ irq' = FALSE /\ on' = TRUE /\ dmaInt' = TRUE
           /\ left' \in 1 .. Max /\ cnt' \in 0 .. Word - 1 /\ load' \in 0 .. Max
           /\ bank' = bank /\ moved' = moved /\ calls' = calls /\ report' = report
           /\ c < n => c + left' = cnt' /\ cnt' <= n /\ load' = left' /\ load' <= cnt'
<1>0. n \in Int /\ c \in Int /\ c \in Nat
  BY EndpointAssumption
<1> DEFINE t == NextTrans(n, c)
<1>1. t \in 0 .. Max
  BY <1>0, NextTransRange
<1>2. BuffLength(t) \in 1 .. Max
  BY <1>1, BuffLengthRange
<1>3. Wrap(c + t) \in 0 .. Word - 1
  <2>1. c + t \in Int
    BY <1>0, <1>1, EndpointAssumption
  <2> QED
    BY <2>1, WrapRange
<1>4. c < n => c + t <= n /\ BuffLength(t) = t /\ Wrap(c + t) = c + t
  BY <1>0, NextTransRest
<1>5. /\ busy' = TRUE /\ size' = n /\ irq' = FALSE /\ on' = TRUE /\ dmaInt' = TRUE
      /\ left' = BuffLength(t) /\ cnt' = Wrap(c + t) /\ load' = t
      /\ bank' = bank /\ moved' = moved /\ calls' = calls /\ report' = report
  BY DEF StartDma, called
<1> HIDE DEF t
<1>6. c < n => c + left' = cnt' /\ cnt' <= n /\ load' = left' /\ load' <= cnt'
  BY <1>0, <1>1, <1>4, <1>5, EndpointAssumption
<1> QED
  BY <1>1, <1>2, <1>3, <1>5, <1>6

LEMMA InitInv == Init => JobInv
<1> SUFFICES ASSUME Init PROVE JobInv
  OBVIOUS
<1>1. LinePart /\ CallPart
  BY DEF Init, LinePart, CallPart
<1>2. BankPart
  <2> DEFINE S == 0 .. Packet
  <2> HIDE DEF S
  <2>1. <<>> \in Seq(S) /\ Len(<<>>) = 0
    OBVIOUS
  <2> QED
    BY <2>1, EndpointAssumption DEF Init, BankPart, S
<1>3. RunPart
  <2>1. Max \in Nat
    BY EndpointAssumption
  <2> QED
    BY <2>1 DEF Init, RunPart, RunAt, Filling
<1>5. JobPart
  <2>1. Max \in Nat /\ Word \in Nat /\ Word > 0
    BY EndpointAssumption
  <2>2. 0 \in 0 .. Word - 1 /\ 0 \in 0 .. Max
    BY <2>1
  <2>3. size = 0 /\ cnt = 0 /\ load = 0 /\ left = 0
    BY DEF Init
  <2>4. /\ busy = FALSE /\ torn = FALSE /\ on = FALSE /\ irq = FALSE /\ dmaInt = FALSE
    BY DEF Init
  <2> QED
    BY <2>2, <2>3, <2>4 DEF JobPart
<1>4. MeetPart /\ FillPart /\ Accounts /\ JobBacked
  BY DEF Init, MeetPart, FillPart, Accounts, JobBacked, Filling
<1> QED
  BY <1>1, <1>2, <1>3, <1>4, <1>5 DEF JobInv, Types

---------------------------------------------------------------------------
(* udd_ep_run keeps the invariant.                                         *)

LEMMA CheckKeeps ==
    ASSUME JobInv, NEW n \in Sizes, RunCheck(n) PROVE JobInv'
<1> USE DEF JobInv, Types, RunCheck
<1>1. LinePart' /\ BankPart' /\ CallPart' /\ JobPart'
  BY DEF LinePart, BankPart, CallPart, JobPart, line, job, dma, called, toggle
<1>2. RunPart'
  BY DEF RunPart, RunAt
<1>3. MeetPart' /\ FillPart' /\ JobBacked'
  BY DEF MeetPart, FillPart, JobBacked, line, job, dma, Filling
<1>4. Accounts'
  BY DEF Accounts, line, job, dma, Filling
<1> QED
  BY <1>1, <1>2, <1>3, <1>4

\* What the steps of udd_ep_run have in common.
LEMMA StepKeeps ==
    ASSUME Types, NEW from, NEW to \in RunAt, RunStep(from, to),
           to \in {"take"} \cup Filling => from \in {"take"} \cup Filling
    PROVE  LinePart' /\ RunPart'
<1>1. LinePart'
  BY DEF Types, RunStep, LinePart, line, toggle
<1>2. size \in Int /\ cnt \in Int
  BY EndpointAssumption DEF Types, JobPart
<1>3. NextTrans(size, cnt) \in 0 .. Max
  BY <1>2, NextTransRange
<1>4. next' \in 0 .. Max
  <2>1. Max \in Nat
    BY EndpointAssumption
  <2> QED
    BY <1>3, <2>1 DEF RunStep, Types, RunPart
<1> QED
  BY <1>1, <1>4 DEF RunStep, Types, RunPart, Filling

LEMMA TakeKeeps ==
    ASSUME JobInv, RunTake PROVE JobInv'
<1> USE DEF JobInv, Types
<1>1. CASE busy /\ RunStep("take", "idle") /\ UNCHANGED <<busy, call, torn>>
  <2>1. LinePart' /\ RunPart'
    BY <1>1, StepKeeps DEF RunAt, Filling
  <2>2. BankPart' /\ CallPart' /\ JobPart'
    BY <1>1 DEF RunTake, BankPart, CallPart, JobPart, dma, called
  <2>3. MeetPart' /\ FillPart' /\ JobBacked'
    BY <1>1 DEF RunTake, RunStep, MeetPart, FillPart, JobBacked, line, dma, Filling
  <2>4. Accounts'
    BY <1>1 DEF RunTake, RunStep, Accounts, line, dma, Filling
  <2> QED
    BY <2>1, <2>2, <2>3, <2>4
<1>2. CASE /\ ~busy /\ RunStep("take", "size")
           /\ busy' = TRUE /\ torn' = stalled
           /\ call' = IF call = "none" THEN "none" ELSE "old"
  <2>1. LinePart' /\ RunPart'
    BY <1>2, StepKeeps DEF RunAt, Filling
  <2>2. BankPart' /\ CallPart' /\ JobPart'
    BY <1>2 DEF RunTake, BankPart, CallPart, JobPart, LinePart, dma, called
  <2>3. MeetPart' /\ JobBacked' /\ Accounts'
    BY <1>2 DEF RunTake, RunStep, MeetPart, Accounts, JobBacked, LinePart, line, dma, Filling
  <2>4. FillPart'
    BY <1>2 DEF RunTake, RunStep, FillPart, CallPart
  <2> QED
    BY <2>1, <2>2, <2>3, <2>4
<1> QED
  BY <1>1, <1>2 DEF RunTake

LEMMA FillKeeps ==
    ASSUME JobInv, RunFill PROVE JobInv'
<1> USE DEF JobInv, Types
<1>0. arg \in 0 .. Word - 1 /\ 0 \in 0 .. Word - 1 /\ 0 \in 0 .. Max
  <2>1. pc \in Filling
    BY DEF RunFill, RunStep, Filling
  <2>2. arg \in Sizes
    BY <2>1 DEF RunPart
  <2>3. arg \in 1 .. Word - 1
    BY <2>2, SizeFits
  <2>4. Word \in Nat /\ Word > 0 /\ Max \in Nat
    BY EndpointAssumption
  <2> QED
    BY <2>3, <2>4
<1>1. LinePart' /\ RunPart'
  BY StepKeeps DEF RunFill, RunAt, Filling
<1>2. BankPart' /\ CallPart' /\ JobPart'
  BY <1>0 DEF RunFill, BankPart, CallPart, JobPart, dma, called
<1>3. pc \in Filling /\ pc' \in Filling
  BY DEF RunFill, RunStep, Filling
<1>4. MeetPart' /\ Accounts' /\ JobBacked'
  BY <1>3 DEF RunFill, RunStep, MeetPart, Accounts, JobBacked, line, dma
<1>5. FillPart'
  BY <1>3 DEF RunFill, RunStep, FillPart, line
<1> QED
  BY <1>1, <1>2, <1>4, <1>5

LEMMA TransKeeps ==
    ASSUME JobInv, RunTrans PROVE JobInv'
<1> USE DEF JobInv, Types
<1>1. LinePart' /\ RunPart'
  BY StepKeeps DEF RunTrans, RunAt, Filling
<1>2. BankPart' /\ CallPart' /\ JobPart'
  BY DEF RunTrans, BankPart, CallPart, JobPart, job, dma, called
<1>3. MeetPart' /\ Accounts' /\ JobBacked'
  BY DEF RunTrans, RunStep, MeetPart, Accounts, JobBacked, line, job, dma, Filling
<1>4. FillPart'
  <2> SUFFICES ASSUME pc' \in Filling, ~torn' PROVE FillPart'
    BY DEF FillPart
  <2>1. pc = "trans" /\ pc \in Filling /\ ~torn
    BY DEF RunTrans, RunStep, Filling
  <2>2. busy /\ size = arg /\ cnt = 0 /\ call = "own" /\ moved = 0
    BY <2>1 DEF FillPart
  <2>3. arg \in Sizes
    BY <2>1 DEF RunPart
  <2>4. size # cnt
    BY <2>2, <2>3, SizeFits, EndpointAssumption
  <2>5. pc' = "dma" /\ next' = NextTrans(size, cnt) /\ arg' = arg /\ UNCHANGED <<job, moved>>
    BY <2>2, <2>4 DEF RunTrans, RunStep
  <2>6. NextTrans(size, cnt)' = NextTrans(size, cnt)
    BY <2>5 DEF job, NextTrans, Least, Wrap
  <2> QED
    BY <2>2, <2>5, <2>6 DEF FillPart, job
<1> QED
  BY <1>1, <1>2, <1>3, <1>4

LEMMA DmaKeeps ==
    ASSUME JobInv, RunDma PROVE JobInv'
<1> USE DEF JobInv, Types
<1>0. pc = "dma" /\ pc \in Filling /\ irq' = FALSE /\ cnt \in Int /\ next \in Int /\ next \in 0 .. Max
  BY EndpointAssumption DEF RunDma, RunStep, Filling, JobPart, RunPart
<1>1. LinePart' /\ RunPart'
  BY StepKeeps DEF RunDma, RunAt, Filling
<1>2. CASE /\ RunStep("dma", "idle")
           /\ on' = TRUE /\ left' = BuffLength(next) /\ dmaInt' = TRUE
           /\ cnt' = Wrap(cnt + next) /\ load' = next
           /\ UNCHANGED bank
  <2>1. left' \in 1 .. Max /\ cnt' \in 0 .. Word - 1 /\ cnt + next \in Int
    BY <1>0, <1>2, BuffLengthRange, WrapRange
  <2>2. UNCHANGED <<busy, size, call, moved, called, torn>> /\ pc' \notin Filling
    BY <1>2 DEF RunDma, RunStep, Filling
  <2>3. BankPart' /\ CallPart' /\ JobPart'
    <3>1. left' \in 0 .. Max
      BY <2>1, EndpointAssumption
    <3> QED
      BY <1>0, <1>2, <2>1, <2>2, <3>1 DEF BankPart, CallPart, JobPart, called
  <2>4. MeetPart' /\ FillPart' /\ JobBacked'
    BY <1>0, <1>2, <2>1, <2>2, EndpointAssumption DEF RunStep, MeetPart, FillPart, JobBacked, line
  <2>5. Accounts'
    <3> SUFFICES ASSUME busy', ~torn' PROVE Accounts'
      BY DEF Accounts
    <3>1. size = arg /\ arg \in Sizes /\ cnt = 0 /\ call = "own" /\ moved = 0
          /\ next = NextTrans(size, cnt)
      BY <1>0, <2>2 DEF FillPart, RunPart
    <3>2. size \in 0 .. Word - 1 /\ cnt \in Nat /\ cnt < size
      BY <3>1, SizeFits, EndpointAssumption
    <3>3. /\ next \in 1 .. Max /\ cnt + next <= size
          /\ BuffLength(next) = next /\ Wrap(cnt + next) = cnt + next
      BY <3>1, <3>2, NextTransRest
    <3>4. left' = next /\ cnt' = next /\ load' = next /\ next <= size
      BY <1>2, <3>1, <3>3, EndpointAssumption
    <3> QED
      BY <1>0, <2>2, <3>1, <3>3, <3>4, EndpointAssumption DEF Accounts
  <2> QED
    BY <1>1, <2>3, <2>4, <2>5
<1>3. CASE /\ ZlpFound /\ RunStep("dma", "zlp")
           /\ bank' = Tail(bank)
           /\ UNCHANGED <<cnt, load, on, left, dmaInt>>
  <2>1. BankPart'
    BY <1>3, TakenBank DEF ZlpFound
  <2>2. UNCHANGED <<busy, size, call, moved, called, torn>> /\ pc' = "zlp" /\ pc' \in Filling
    BY <1>3 DEF RunDma, RunStep, Filling
  <2>3. CallPart' /\ JobPart'
    BY <1>0, <1>3, <2>2 DEF CallPart, JobPart, called
  <2>4. MeetPart' /\ Accounts' /\ JobBacked'
    BY <1>0, <1>3, <2>2 DEF RunStep, MeetPart, Accounts, JobBacked, line
  <2>5. FillPart'
    BY <1>0, <1>3, <2>2 DEF RunStep, FillPart, ZlpFound, line
  <2> QED
    BY <1>1, <2>1, <2>3, <2>4, <2>5
<1> QED
  BY <1>2, <1>3 DEF RunDma

LEMMA EndKeeps ==
    ASSUME JobInv, RunZlp \/ RunEnd PROVE JobInv'
<1> USE DEF JobInv, Types
<1>1. CASE RunZlp
  <2>0. pc = "zlp" /\ pc \in Filling
    BY <1>1 DEF RunZlp, RunStep, Filling
  <2>1. LinePart' /\ RunPart'
    <3>1. CASE busy
      BY <1>1, <3>1, StepKeeps DEF RunZlp, RunAt, Filling
    <3>2. CASE ~busy
      BY <1>1, <3>2, StepKeeps DEF RunZlp, RunAt, Filling
    <3> QED
      BY <3>1, <3>2
  <2>2. BankPart' /\ CallPart' /\ JobPart'
    BY <1>1 DEF RunZlp, BankPart, CallPart, JobPart, dma, called
  <2>3. MeetPart' /\ Accounts' /\ JobBacked'
    BY <1>1 DEF RunZlp, RunStep, MeetPart, Accounts, JobBacked, line, dma, Filling
  <2>4. FillPart'
    BY <1>1, <2>0 DEF RunZlp, RunStep, FillPart, line, Filling
  <2> QED
    BY <2>1, <2>2, <2>3, <2>4
<1>2. CASE RunEnd
  <2>1. LinePart' /\ RunPart'
    BY <1>2, StepKeeps DEF RunEnd, RunAt, Filling
  <2>2. busy' = FALSE /\ size' = size /\ moved' = 0 /\ Callback("ok", size) /\ pc' = "idle"
    BY <1>2 DEF RunEnd, FinishJob, RunStep
  <2>3. calls' \in Nat
    BY <2>2, CallbackOnce DEF CallPart
  <2>4. BankPart' /\ CallPart' /\ JobPart'
    BY <1>2, <2>2, <2>3 DEF RunEnd, BankPart, CallPart, JobPart, dma
  <2>5. MeetPart' /\ Accounts' /\ JobBacked' /\ FillPart'
    BY <2>2 DEF MeetPart, Accounts, JobBacked, FillPart, Filling
  <2> QED
    BY <2>1, <2>4, <2>5
<1> QED
  BY <1>1, <1>2

LEMMA RunKeeps ==
    ASSUME JobInv, Run PROVE JobInv'
BY TakeKeeps, FillKeeps, TransKeeps, DmaKeeps, EndKeeps DEF Run

---------------------------------------------------------------------------
(* The interrupts keep the invariant.                                      *)

\* What the DMA interrupt makes of the counts of a job.
LEMMA IsrCounts ==
    ASSUME JobInv, Isr, NEW c, NEW n,
           c = IF left > 0 THEN Counted ELSE cnt,
           n = IF left > 0 THEN Counted ELSE size
    PROVE  /\ c \in 0 .. Word - 1 /\ n \in 0 .. Word - 1
           /\ busy => enabled
           /\ busy /\ pc \notin Filling /\ ~torn =>
                /\ moved = c /\ c <= n /\ call = "own"
                /\ c # n => n = size /\ c = cnt /\ c < n
                /\ dir = "in" => n = size
<1> USE DEF JobInv, Types
<1>1. Counted \in 0 .. Word - 1
  <2>1. cnt - left \in Int
    BY EndpointAssumption DEF JobPart
  <2> QED
    BY <2>1, WrapRange DEF Counted
<1>2. c \in 0 .. Word - 1 /\ n \in 0 .. Word - 1
  BY <1>1 DEF JobPart
<1>3. irq /\ dmaInt
  BY DEF Isr, DmaEvent
<1>4. busy => enabled
  BY <1>3 DEF MeetPart
<1>5. ASSUME busy, pc \notin Filling, ~torn
      PROVE  /\ moved = c /\ c <= n /\ call = "own"
             /\ c # n => n = size /\ c = cnt /\ c < n
             /\ dir = "in" => n = size
  <2>1. /\ size \in Sizes /\ call = "own"
        /\ moved + left = cnt /\ cnt <= size /\ left <= load /\ load <= cnt
        /\ dir = "in" => left = 0
    BY <1>3, <1>5 DEF Accounts
  <2>2. /\ moved \in Nat /\ left \in Nat /\ cnt \in Nat /\ size \in Nat
        /\ cnt < Word /\ Word \in Nat
    BY EndpointAssumption DEF JobPart, CallPart
  <2>3. cnt - left \in 0 .. Word - 1 /\ cnt - left = moved
    BY <2>1, <2>2
  <2>4. Counted = moved
    BY <2>3, WrapSame DEF Counted
  <2>5. CASE left > 0
    BY <2>1, <2>2, <2>4, <2>5
  <2>6. CASE ~(left > 0)
    <3>1. left = 0 /\ c = cnt /\ n = size
      BY <2>2, <2>6
    <3> QED
      BY <2>1, <2>2, <3>1
  <2> QED
    BY <2>5, <2>6
<1> QED
  BY <1>2, <1>4, <1>5

LEMMA IsrKeeps ==
    ASSUME JobInv, Isr PROVE JobInv'
<1> DEFINE c == IF left > 0 THEN Counted ELSE cnt
           n == IF left > 0 THEN Counted ELSE size
<1>0. /\ c = IF left > 0 THEN Counted ELSE cnt
      /\ n = IF left > 0 THEN Counted ELSE size
  OBVIOUS
<1>1. \/ /\ ~busy /\ size' = n /\ cnt' = c /\ irq' = FALSE /\ dmaInt' = FALSE
         /\ UNCHANGED <<busy, load, on, left, bank, moved, called>>
      \/ busy /\ StartDma(n, c)
      \/ busy /\ EndByZlp(n, c) /\ dmaInt' = FALSE /\ UNCHANGED <<on, left>>
      \/ /\ busy /\ c = n /\ FinishJob("ok", n)
         /\ cnt' = c /\ irq' = FALSE /\ dmaInt' = FALSE
         /\ UNCHANGED <<load, on, left, bank>>
  BY DEF Isr
<1> HIDE DEF c, n
<1> USE DEF JobInv, Types
<1>2. /\ c \in 0 .. Word - 1 /\ n \in 0 .. Word - 1
      /\ busy => enabled
      /\ busy /\ pc \notin Filling /\ ~torn =>
           /\ moved = c /\ c <= n /\ call = "own"
           /\ c # n => n = size /\ c = cnt /\ c < n
           /\ dir = "in" => n = size
  BY <1>0, IsrCounts
<1>3. /\ torn' = (torn \/ (busy /\ pc \in Filling))
      /\ UNCHANGED <<line, run, call, toggle>>
  BY DEF Isr, Tears
<1>4. LinePart' /\ RunPart'
  BY <1>3 DEF LinePart, RunPart, line, run, toggle
<1>5. torn' \in BOOLEAN /\ (torn => torn') /\ (pc' \in Filling => torn')
  BY <1>3 DEF JobPart, FillPart, run
<1>6. FillPart'
  BY <1>5 DEF FillPart
<1>7. ASSUME busy' = FALSE, size' \in 0 .. Word - 1, cnt' \in 0 .. Word - 1, moved' = 0,
             irq' = FALSE, dmaInt' = FALSE, UNCHANGED <<load, on, left>>,
             calls' \in Nat, BankPart'
      PROVE  JobInv'
  <2>1. JobPart' /\ CallPart'
    BY <1>3, <1>5, <1>7 DEF JobPart, CallPart
  <2>2. MeetPart' /\ Accounts' /\ JobBacked'
    BY <1>7 DEF MeetPart, Accounts, JobBacked
  <2> QED
    BY <1>4, <1>6, <1>7, <2>1, <2>2
<1>8. CASE /\ ~busy /\ size' = n /\ cnt' = c /\ irq' = FALSE /\ dmaInt' = FALSE
           /\ UNCHANGED <<busy, load, on, left, bank, moved, called>>
  <2>1. busy' = FALSE /\ moved' = 0 /\ calls' \in Nat /\ BankPart'
    BY <1>8 DEF JobPart, CallPart, BankPart, called
  <2> QED
    BY <1>2, <1>7, <1>8, <2>1
<1>9. CASE busy /\ StartDma(n, c)
  <2>1. /\ busy' = TRUE /\ size' = n /\ irq' = FALSE /\ on' = TRUE /\ dmaInt' = TRUE
        /\ left' \in 1 .. Max /\ cnt' \in 0 .. Word - 1 /\ load' \in 0 .. Max
        /\ bank' = bank /\ moved' = moved /\ calls' = calls /\ report' = report
        /\ c < n => c + left' = cnt' /\ cnt' <= n /\ load' = left' /\ load' <= cnt'
    BY <1>2, <1>9, StartDmaTypes
  <2>2. left' \in 0 .. Max /\ left' > 0
    BY <2>1, EndpointAssumption
  <2>3. BankPart' /\ CallPart' /\ JobPart'
    BY <1>2, <1>3, <1>5, <1>9, <2>1, <2>2 DEF BankPart, CallPart, JobPart
  <2>4. MeetPart' /\ JobBacked'
    BY <1>2, <1>3, <1>5, <1>9, <2>1, <2>2 DEF MeetPart, JobBacked, line
  <2>5. Accounts'
    <3> SUFFICES ASSUME pc' \notin Filling, ~torn' PROVE Accounts'
      BY DEF Accounts
    <3>1. c # n
      BY <1>9 DEF StartDma
    <3>2. pc \notin Filling /\ ~torn /\ enabled' /\ call' = call
      BY <1>2, <1>3, <1>5, <1>9 DEF run, line
    <3>3. moved = c /\ c < n /\ call = "own" /\ n = size /\ size \in Sizes
      BY <1>2, <1>9, <3>1, <3>2 DEF Accounts
    <3> QED
      BY <2>1, <2>2, <3>2, <3>3 DEF Accounts
  <2> QED
    BY <1>4, <1>6, <2>3, <2>4, <2>5
<1>10. CASE busy /\ EndByZlp(n, c) /\ dmaInt' = FALSE /\ UNCHANGED <<on, left>>
  <2>1. BankPart'
    BY <1>10, TakenBank DEF EndByZlp, ZlpFound
  <2>2. /\ busy' = FALSE /\ size' = c /\ moved' = 0 /\ Callback("ok", c)
        /\ cnt' = c /\ irq' = FALSE /\ load' = load
    BY <1>10 DEF EndByZlp, FinishJob
  <2>3. calls' \in Nat
    BY <2>2, CallbackOnce DEF CallPart
  <2> QED
    BY <1>2, <1>7, <1>10, <2>1, <2>2, <2>3
<1>11. CASE /\ busy /\ c = n /\ FinishJob("ok", n)
            /\ cnt' = c /\ irq' = FALSE /\ dmaInt' = FALSE
            /\ UNCHANGED <<load, on, left, bank>>
  <2>1. busy' = FALSE /\ size' = n /\ moved' = 0 /\ Callback("ok", n) /\ BankPart'
    BY <1>11 DEF FinishJob, BankPart
  <2>2. calls' \in Nat
    BY <2>1, CallbackOnce DEF CallPart
  <2> QED
    BY <1>2, <1>7, <1>11, <2>1, <2>2
<1> QED
  BY <1>1, <1>8, <1>9, <1>10, <1>11

\* An abort ends the job, and tears the transfer that udd_ep_run is filling in.
LEMMA AbortKeeps ==
    ASSUME JobInv, AbortJob, Tears, LinePart', BankPart', UNCHANGED <<run, cnt, load, call>>,
           on' = on \/ on' = FALSE, UNCHANGED <<left, irq, dmaInt>>
    PROVE  JobInv'
<1> USE DEF JobInv, Types
<1>1. busy' = FALSE /\ size' = size /\ moved' = 0 /\ calls' \in Nat
  BY AbortJobEnds
<1>2. torn' \in BOOLEAN /\ (torn => torn') /\ (pc' \in Filling => torn')
  BY DEF Tears, JobPart, FillPart, run
<1>3. RunPart' /\ CallPart'
  BY <1>1 DEF RunPart, CallPart, run
<1>4. JobPart'
  <2>1. on' \in BOOLEAN /\ irq' \in BOOLEAN /\ (irq' => ~on')
    <3>0. irq' = irq
      OBVIOUS
    <3>1. CASE on' = on
      BY <3>0, <3>1 DEF JobPart
    <3>2. CASE on' = FALSE
      BY <3>0, <3>2 DEF JobPart
    <3> QED
      BY <3>1, <3>2
  <2>2. UNCHANGED <<cnt, load, left, dmaInt>>
    OBVIOUS
  <2> QED
    BY <1>1, <1>2, <2>1, <2>2 DEF JobPart
<1>5. MeetPart' /\ Accounts' /\ JobBacked' /\ FillPart'
  BY <1>1, <1>2 DEF MeetPart, Accounts, JobBacked, FillPart
<1> QED
  BY <1>3, <1>4, <1>5

LEMMA AllocKeeps ==
    ASSUME JobInv, Alloc PROVE JobInv'
<1> USE DEF JobInv, Types
<1>1. LinePart' /\ RunPart'
  BY DEF Alloc, LinePart, RunPart, run
<1>2. CASE busy
  <2>1. pc \notin Filling /\ ~torn /\ ~enabled
    BY <1>2 DEF Alloc, MeetPart
  <2>2. size \in Sizes /\ call = "own" /\ moved = 0 /\ cnt = load
    BY <1>2, <2>1 DEF Accounts
  <2>3. size \in 1 .. Word - 1
    BY <2>2, SizeFits
  <2>4. size - (cnt - load) = size
    BY <2>2, EndpointAssumption DEF JobPart
  <2>5. Wrap(size - (cnt - load)) = size
    BY <2>4, WrapSame DEF JobPart
  <2>6. PICK z \in 0 .. Word - 1 : z = 0
    BY EndpointAssumption
  <2>7. StartDma(size, z)
    BY <1>2, <2>5, <2>6 DEF Alloc
  <2>8. /\ busy' = TRUE /\ size' = size /\ irq' = FALSE /\ on' = TRUE /\ dmaInt' = TRUE
        /\ left' \in 1 .. Max /\ cnt' \in 0 .. Word - 1 /\ load' \in 0 .. Max
        /\ bank' = bank /\ moved' = moved /\ calls' = calls /\ report' = report
        /\ z < size => z + left' = cnt' /\ cnt' <= size /\ load' = left' /\ load' <= cnt'
    BY <2>7, StartDmaTypes DEF JobPart
  <2>9. /\ left' \in 0 .. Max /\ left' > 0 /\ left' = cnt' /\ cnt' <= size /\ load' = left'
    <3>1. z < size /\ \A i \in Int : z + i = i
      BY <2>3, <2>6, EndpointAssumption
    <3>2. left' \in Int /\ left' > 0 /\ left' \in 0 .. Max
      BY <2>8, EndpointAssumption
    <3>3. z + left' = cnt' /\ cnt' <= size /\ load' = left'
      BY <2>8, <3>1
    <3> QED
      BY <3>1, <3>2, <3>3
  <2>10. UNCHANGED <<stalled, run, call, torn>> /\ enabled'
    BY DEF Alloc
  <2>11. BankPart' /\ CallPart' /\ JobPart'
    BY <2>8, <2>9, <2>10 DEF BankPart, CallPart, JobPart
  <2>12. MeetPart' /\ JobBacked' /\ FillPart'
    BY <1>2, <2>1, <2>8, <2>9, <2>10 DEF MeetPart, JobBacked, FillPart, run
  <2>13. Accounts'
    <3>1. moved' + left' = cnt'
      <4>1. moved' = 0 /\ left' \in Int
        BY <2>2, <2>8, EndpointAssumption
      <4>2. \A i \in Int, j \in Int : j = 0 => j + i = i
        OBVIOUS
      <4>3. moved' \in Int /\ cnt' = left'
        BY <2>9, <4>1
      <4> QED
        BY <4>1, <4>2, <4>3
    <3>2. left' <= load' /\ load' <= cnt'
      BY <2>9, EndpointAssumption
    <3> QED
      BY <2>2, <2>8, <2>9, <2>10, <3>1, <3>2 DEF Accounts
  <2> QED
    BY <1>1, <2>11, <2>12, <2>13
<1>3. CASE ~busy
  <2>1. UNCHANGED <<busy, size, cnt, load, dma, bank, moved, called, run, call, torn>>
    BY <1>3 DEF Alloc
  <2>2. BankPart' /\ CallPart' /\ JobPart'
    BY <2>1 DEF BankPart, CallPart, JobPart, dma, called
  <2>3. MeetPart' /\ JobBacked' /\ Accounts' /\ FillPart'
    BY <1>3, <2>1 DEF MeetPart, JobBacked, Accounts, FillPart, run
  <2> QED
    BY <1>1, <2>2, <2>3
<1> QED
  BY <1>2, <1>3

LEMMA RequestsKeep ==
    ASSUME JobInv, Disable \/ SetHalt \/ ClearHalt PROVE JobInv'
<1> USE DEF JobInv, Types
<1>1. CASE Disable
  <2>1. LinePart'
    BY <1>1 DEF Disable, LinePart, toggle
  <2>2. BankPart'
    BY <1>1, NoBank DEF Disable
  <2> QED
    BY <1>1, <2>1, <2>2, AbortKeeps DEF Disable, dma
<1>2. CASE SetHalt
  <2>1. LinePart'
    BY <1>2 DEF SetHalt, LinePart, toggle
  <2>2. BankPart'
    <3>1. CASE dir = "in"
      BY <1>2, <3>1, NoBank DEF SetHalt
    <3>2. CASE dir # "in"
      BY <1>2, <3>2 DEF SetHalt, BankPart
    <3> QED
      BY <3>1, <3>2
  <2> QED
    BY <1>2, <2>1, <2>2, AbortKeeps DEF SetHalt
<1>3. CASE ClearHalt
  <2>1. LinePart' /\ BankPart' /\ RunPart'
    BY <1>3 DEF ClearHalt, LinePart, BankPart, RunPart, run
  <2>2. UNCHANGED <<enabled, run, size, cnt, load, call, dma, torn>> /\ stalled' = FALSE
    BY <1>3 DEF ClearHalt
  <2>3. CASE stalled /\ busy
    <3>1. busy' = FALSE /\ moved' = 0 /\ Callback("nohalt", 0) /\ pc \notin Filling
      BY <1>3, <2>3 DEF ClearHalt
    <3>2. calls' \in Nat
      BY <3>1, CallbackOnce DEF CallPart
    <3>3. CallPart' /\ JobPart'
      BY <2>2, <3>1, <3>2 DEF CallPart, JobPart, dma
    <3>4. MeetPart' /\ Accounts' /\ JobBacked' /\ FillPart'
      BY <2>2, <3>1 DEF MeetPart, Accounts, JobBacked, FillPart, run
    <3> QED
      BY <2>1, <3>3, <3>4
  <2>4. CASE ~(stalled /\ busy)
    <3>1. UNCHANGED <<busy, moved, called>>
      BY <1>3, <2>4 DEF ClearHalt
    <3>2. dir' = dir
      BY <1>3 DEF ClearHalt
    <3>3. CallPart' /\ JobPart'
      BY <2>2, <3>1 DEF CallPart, JobPart, dma, called
    <3>4. MeetPart' /\ JobBacked'
      BY <2>2, <3>1 DEF MeetPart, JobBacked, run, dma
    <3>5. Accounts'
      BY <2>2, <3>1, <3>2 DEF Accounts, run, dma
    <3>6. FillPart'
      BY <2>2, <3>1, <3>2 DEF FillPart, run, NextTrans, Least, Wrap
    <3> QED
      BY <2>1, <3>3, <3>4, <3>5, <3>6
  <2> QED
    BY <2>3, <2>4
<1> QED
  BY <1>1, <1>2, <1>3

---------------------------------------------------------------------------
(* The DMA and the host keep the invariant.                                *)

LEMMA MoveKeeps ==
    ASSUME JobInv, NEW k \in 0 .. left, NEW short \in BOOLEAN, Move(k, short),
           on, enabled, dir = "in" => ~short, BankPart'
    PROVE  JobInv'
<1> USE DEF JobInv, Types
<1> DEFINE ends == short \/ left = k
<1>1. /\ left' = left - k /\ on' = ~ends /\ irq' = (irq \/ ends)
      /\ moved' = IF busy /\ pc \notin Filling /\ ~torn THEN moved + k ELSE moved
      /\ UNCHANGED <<line, run, job, dmaInt, called, torn, toggle>>
  BY DEF Move
<1>2. left \in Nat /\ k \in Nat /\ k <= left /\ left <= Max /\ Max \in Nat /\ ~irq
  BY EndpointAssumption DEF JobPart
<1>3. left' \in 0 .. Max /\ left' <= left /\ (~ends => left' > 0)
  BY <1>1, <1>2
<1>4. (irq' <=> ends) /\ irq' \in BOOLEAN /\ on' \in BOOLEAN /\ (on' <=> ~ends)
  BY <1>1, <1>2, Zenon DEF JobPart
<1>5. LinePart' /\ RunPart'
  BY <1>1 DEF LinePart, RunPart, line, run, toggle
<1>6. CallPart'
  BY <1>1, <1>2 DEF CallPart, job, called
<1> HIDE DEF ends
<1>7. JobPart'
  BY <1>1, <1>3, <1>4 DEF JobPart, job
<1>8. MeetPart' /\ JobBacked'
  BY <1>1, <1>3, <1>4 DEF MeetPart, JobBacked, job, line, run
<1>9. FillPart'
  BY <1>1 DEF FillPart, job, line, run, NextTrans, Least, Wrap
<1>10. Accounts'
  <2> SUFFICES ASSUME busy, pc \notin Filling, ~torn PROVE Accounts'
    BY <1>1 DEF Accounts, job, run
  <2>1. /\ size \in Sizes /\ call = "own"
        /\ moved + left = cnt /\ cnt <= size /\ left <= load /\ load <= cnt
    BY DEF Accounts
  <2>2. moved' = moved + k /\ moved \in Nat /\ cnt \in Nat /\ load \in Nat /\ size \in Nat
    BY <1>1, EndpointAssumption DEF CallPart, JobPart
  <2>3. moved' + left' = cnt /\ left' <= load
    BY <1>1, <1>2, <2>1, <2>2
  <2>4. dir = "in" /\ irq' => left' = 0
    BY <1>1, <1>2, <1>4 DEF ends
  <2>5. enabled' = enabled /\ dir' = dir /\ size' = size /\ cnt' = cnt /\ load' = load /\ call' = call
    BY <1>1 DEF line, job
  <2> QED
    BY <2>1, <2>3, <2>4, <2>5 DEF Accounts
<1> QED
  BY <1>5, <1>6, <1>7, <1>8, <1>9, <1>10

LEMMA LineKeeps ==
    ASSUME JobInv, LinePart', BankPart', UNCHANGED <<run, job, dma, moved, called, torn>>,
           UNCHANGED <<dir, enabled, stalled>>
    PROVE  JobInv'
<1> USE DEF JobInv, Types
<1>1. RunPart' /\ CallPart' /\ JobPart'
  BY DEF RunPart, CallPart, JobPart, run, job, dma, called
<1>2. MeetPart' /\ JobBacked'
  BY DEF MeetPart, JobBacked, run, job, dma
<1>3. Accounts'
  BY DEF Accounts, run, job, dma
<1>4. FillPart'
  BY DEF FillPart, run, job, dma, NextTrans, Least, Wrap
<1> QED
  BY <1>1, <1>2, <1>3, <1>4

LEMMA HostKeeps ==
    ASSUME JobInv,
           \/ DmaIn \/ DmaOut \/ HostTake \/ HostMeetsStall
           \/ \E k \in 0 .. Packet : HostSend(k)
    PROVE  JobInv'
<1> USE DEF JobInv, Types
<1>1. CASE DmaIn
  <2> DEFINE k == Least(Packet, left)
             short == FALSE
  <2>1. k \in 0 .. left /\ k \in 0 .. Packet
    BY EndpointAssumption DEF JobPart, Least
  <2>2. Move(k, short) /\ on /\ enabled /\ Len(bank) < Banks /\ bank' = Append(bank, k)
    BY <1>1, Zenon DEF DmaIn
  <2>3. short \in BOOLEAN /\ ~short
    OBVIOUS
  <2> HIDE DEF k, short
  <2>4. BankPart'
    BY <2>1, <2>2, FilledBank
  <2> QED
    BY <2>1, <2>2, <2>3, <2>4, MoveKeeps
<1>2. CASE DmaOut
  <2> DEFINE k == Least(Head(bank), left)
             short == (Head(bank) < Packet)
  <2>1. BankPart' /\ Head(bank) \in 0 .. Packet
    BY <1>2, TakenBank DEF DmaOut
  <2>2. k \in 0 .. left /\ short \in BOOLEAN
    BY <2>1, EndpointAssumption DEF JobPart, Least
  <2>3. Move(k, short) /\ on /\ enabled /\ dir # "in"
    BY <1>2 DEF DmaOut
  <2> HIDE DEF k, short
  <2> QED
    BY <2>1, <2>2, <2>3, MoveKeeps
<1>3. CASE HostTake
  <2>1. BankPart'
    BY <1>3, TakenBank DEF HostTake
  <2>2. LinePart'
    BY <1>3 DEF HostTake, LinePart, line
  <2> QED
    BY <1>3, <2>1, <2>2, LineKeeps DEF HostTake, line
<1>4. CASE HostMeetsStall
  <2>1. BankPart' /\ LinePart'
    BY <1>4 DEF HostMeetsStall, LinePart, BankPart, toggle
  <2> QED
    BY <1>4, <2>1, LineKeeps DEF HostMeetsStall
<1>5. ASSUME NEW k \in 0 .. Packet, HostSend(k) PROVE JobInv'
  <2>1. BankPart'
    <3>1. CASE devToggle = hostToggle
      BY <1>5, <3>1, FilledBank DEF HostSend
    <3>2. CASE devToggle # hostToggle
      BY <1>5, <3>2 DEF HostSend, BankPart
    <3> QED
      BY <3>1, <3>2
  <2>2. LinePart'
    BY <1>5 DEF HostSend, LinePart, line
  <2> QED
    BY <1>5, <2>1, <2>2, LineKeeps DEF HostSend, line
<1> QED
  BY <1>1, <1>2, <1>3, <1>4, <1>5

LEMMA NextKeeps ==
    ASSUME JobInv, [Next]_vars PROVE JobInv'
<1>1. ASSUME NEW n \in Sizes, RunCheck(n) PROVE JobInv'
  BY <1>1, CheckKeeps
<1>2. CASE UNCHANGED vars
  <2>1. LinePart' /\ BankPart'
    BY <1>2 DEF vars, JobInv, Types, LinePart, BankPart, line, toggle
  <2> QED
    BY <1>2, <2>1, LineKeeps DEF vars, line
<1>3. CASE Free \/ BusReset \/ SetHalt \/ ClearHalt
  BY <1>3, RequestsKeep DEF Free, BusReset
<1> QED
  BY <1>1, <1>2, <1>3, RunKeeps, IsrKeeps, AllocKeeps, HostKeeps DEF Next

LEMMA JobInvariant == Spec => []JobInv
<1>1. JobInv /\ [Next]_vars => JobInv'
  BY NextKeeps
<1> QED
  BY InitInv, <1>1, PTL DEF Spec

\* The counts of a job never leave its buffer and no interrupt of an older
\* transfer is pending for a running channel, for every packet, transfer and
\* word size, with requests, resets and interrupts between any two steps of
\* udd_ep_run; only the counts of a torn transfer are free
\* (udd_ep_run, udd_ep_trans_done, udd_ep_interrupt).
THEOREM EndpointTypes == Spec => []TypeOK
<1>1. JobInv => TypeOK
  <2> SUFFICES ASSUME JobInv PROVE TypeOK
    OBVIOUS
  <2> USE DEF JobInv, Types
  <2>1. {enabled, stalled, stallSent, busy, on, irq, dmaInt, torn, unmet} \subseteq BOOLEAN
    BY DEF LinePart, JobPart
  <2>2. busy /\ pc \notin Filling /\ ~torn => cnt <= size /\ left <= load /\ load <= cnt
    BY DEF Accounts
  <2> QED
    BY <2>1, <2>2 DEF TypeOK, LinePart, BankPart, CallPart, RunPart, JobPart
<1> QED
  BY JobInvariant, <1>1, PTL

\* Once udd_ep_run is through, a job is never left without the event that takes
\* it on, by udd_ep_trans_done, the restart in udd_ep_alloc, halts, aborts, stale
\* interrupts and resets in any order, a torn transfer included: what fairness
\* then turns into its answer.
THEOREM JobsAreBacked == Spec => []JobBacked
<1>1. JobInv => JobBacked
  BY DEF JobInv
<1> QED
  BY JobInvariant, <1>1, PTL

\* The data toggles of host and device agree, and after a halt that was cleared
\* without being met they do again when one packet is lost, whatever halts,
\* resets, changes of the setting and transfers come between
\* (udd_ep_clear_halt, udd_ep_alloc).
THEOREM ToggleInStep == Spec => []ToggleInSync
<1>1. Init => ToggleInSync
  BY DEF Init, ToggleInSync
<1>2. JobInv /\ ToggleInSync /\ [Next]_vars => ToggleInSync'
  <2> SUFFICES ASSUME JobInv, ToggleInSync, [Next]_vars PROVE ToggleInSync'
    OBVIOUS
  <2>1. devToggle \in {0, 1} /\ hostToggle \in {0, 1}
    BY DEF JobInv, Types, LinePart
  <2>2. CASE HostTake \/ \E k \in 0 .. Packet : HostSend(k)
    <3>1. devToggle' = hostToggle'
      BY <2>1, <2>2 DEF HostTake, HostSend
    <3> QED
      BY <3>1 DEF ToggleInSync
  <2>3. CASE Alloc \/ Free \/ BusReset \/ SetHalt
    <3>1. CASE Alloc
      BY <3>1 DEF ToggleInSync, Alloc
    <3>2. CASE Free \/ BusReset
      <4>1. enabled' = FALSE
        BY <3>2 DEF Free, BusReset, Disable
      <4> QED
        BY <4>1 DEF ToggleInSync
    <3>3. CASE SetHalt
      <4>1. UNCHANGED <<enabled, toggle>>
        BY <3>3 DEF SetHalt
      <4> QED
        BY <4>1 DEF ToggleInSync, toggle
    <3> QED
      BY <2>3, <3>1, <3>2, <3>3
  <2>4. CASE ClearHalt
    BY <2>4 DEF ToggleInSync, ClearHalt
  <2>5. CASE \/ \E n \in Sizes : RunCheck(n)
             \/ Run \/ Isr \/ DmaIn \/ DmaOut \/ HostMeetsStall \/ UNCHANGED vars
    <3>1. UNCHANGED <<enabled, toggle>>
      BY <2>5 DEF RunCheck, Run, RunTake, RunFill, RunTrans, RunDma, RunZlp, RunEnd,
                  RunStep, Isr, DmaIn, DmaOut, Move, HostMeetsStall, vars, line
    <3> QED
      BY <3>1 DEF ToggleInSync, toggle
  <2> QED
    BY <2>2, <2>3, <2>4, <2>5 DEF Next
<1> QED
  BY <1>1, <1>2, JobInvariant, PTL DEF Spec

---------------------------------------------------------------------------
(* The refinement.                                                         *)

LEMMA Stutter ==
    ASSUME Phase' = Phase, Phase = "run" => size' = size /\ moved' = moved,
           calls' = calls, report' = report
    PROVE  UNCHANGED Job!jobVars
BY DEF Job!jobVars

\* A torn transfer may do anything but end twice.
LEMMA TornStep ==
    ASSUME Phase = "torn" \/ (Phase = "setup" /\ Phase' = "torn"),
           Phase' \in {"torn", "idle"}, CalledOnce
    PROVE  Job!JobNext
<1>1. Job!Torn
  BY DEF Job!Torn, CalledOnce
<1> QED
  BY <1>1 DEF Job!JobNext

LEMMA PhaseIdle ==
    ASSUME pc \notin Filling, ~busy PROVE Phase = "idle"
BY DEF Phase

LEMMA PhaseRun ==
    ASSUME pc \notin Filling, busy, ~torn PROVE Phase = "run"
BY DEF Phase

LEMMA PhaseTorn ==
    ASSUME pc \in Filling \/ busy, torn PROVE Phase = "torn"
BY DEF Phase

LEMMA PhaseSetup ==
    ASSUME pc \in Filling, ~torn PROVE Phase = "setup"
BY DEF Phase

LEMMA PhaseIdleNext ==
    ASSUME pc' \notin Filling, ~busy' PROVE Phase' = "idle"
BY DEF Phase

LEMMA PhaseTornNext ==
    ASSUME pc' \in Filling \/ busy', torn' PROVE Phase' = "torn"
BY DEF Phase

\* An abort ends the transfer that runs, or tears the one that is set up.
LEMMA AbortStep ==
    ASSUME JobInv, AbortJob, Tears, UNCHANGED <<run, call>>
    PROVE  [Job!JobNext]_(Job!jobVars)
<1> USE DEF JobInv, Types
<1>0. pc' = pc
  BY DEF run
<1>1. busy' = FALSE /\ size' = size /\ moved' = 0 /\ CalledOnce
  BY AbortJobEnds
<1>2. torn' \in BOOLEAN /\ (torn => torn') /\ (pc' \in Filling => torn')
  BY DEF Tears, JobPart, FillPart, run
<1>3. CASE pc \in Filling
  <2>1. Phase' = "torn"
    BY <1>0, <1>2, <1>3, PhaseTornNext
  <2>2. Phase \in {"setup", "torn"}
    BY <1>3, PhaseSetup, PhaseTorn DEF JobPart
  <2> QED
    BY <1>1, <2>1, <2>2, TornStep
<1>4. CASE pc \notin Filling /\ ~busy
  <2>1. Phase = "idle" /\ Phase' = "idle"
    BY <1>0, <1>1, <1>4, PhaseIdle, PhaseIdleNext
  <2>2. calls' = calls /\ report' = report
    BY <1>4 DEF AbortJob, called
  <2> QED
    BY <2>1, <2>2, Stutter
<1>5. CASE pc \notin Filling /\ busy /\ torn
  <2>1. Phase = "torn" /\ Phase' = "idle"
    BY <1>0, <1>1, <1>5, PhaseTorn, PhaseIdleNext
  <2> QED
    BY <1>1, <2>1, TornStep
<1>6. CASE pc \notin Filling /\ busy /\ ~torn
  <2>1. Phase = "run" /\ Phase' = "idle"
    BY <1>0, <1>1, <1>6, PhaseRun, PhaseIdleNext
  <2>2. call = "own" /\ Callback("abort", size)
    BY <1>6 DEF Accounts, AbortJob, FinishJob
  <2>3. calls' = calls + 1 /\ report' = <<"own", "abort", size>>
    BY <2>2 DEF Callback
  <2>4. size \in 0 .. size
    BY EndpointAssumption DEF JobPart
  <2>5. Job!End("abort", size)
    BY <2>1, <2>3 DEF Job!End
  <2>6. Job!Abort
    BY <2>1, <2>4, <2>5 DEF Job!Abort
  <2> QED
    BY <2>6 DEF Job!JobNext
<1> QED
  BY <1>3, <1>4, <1>5, <1>6

LEMMA RunStepsJob ==
    ASSUME JobInv, RunTake \/ RunFill \/ RunTrans \/ RunZlp \/ RunEnd
    PROVE  [Job!JobNext]_(Job!jobVars)
<1> USE DEF JobInv, Types
<1>1. CASE RunTake
  <2>1. calls' = calls /\ report' = report /\ size' = size /\ moved' = moved /\ pc = "take"
    BY <1>1 DEF RunTake, RunStep, called
  <2>2. CASE busy
    <3>1. pc' = "idle" /\ busy' = busy /\ torn' = torn
      BY <1>1, <2>2 DEF RunTake, RunStep
    <3>2. Phase' = Phase
      BY <2>1, <3>1 DEF Phase, Filling
    <3> QED
      BY <2>1, <3>2, Stutter
  <2>3. CASE ~busy
    <3>1. pc' = "size" /\ torn' = stalled
      BY <1>1, <2>3 DEF RunTake, RunStep
    <3>2. Phase = "idle" /\ Phase' \in {"setup", "torn"}
      BY <2>1, <2>3, <3>1 DEF Phase, Filling
    <3>3. Job!Accept
      BY <2>1, <3>2 DEF Job!Accept
    <3> QED
      BY <3>3 DEF Job!JobNext
  <2> QED
    BY <2>2, <2>3
<1>2. CASE RunFill
  <2>1. /\ pc \in Filling /\ pc' \in Filling /\ torn' = torn
        /\ calls' = calls /\ report' = report
    BY <1>2 DEF RunFill, RunStep, Filling, called
  <2>2. Phase' = Phase /\ Phase # "run"
    BY <2>1 DEF Phase
  <2> QED
    BY <2>1, <2>2, Stutter
<1>3. CASE RunTrans
  <2>1. /\ pc \in Filling /\ torn' = torn /\ busy' = busy
        /\ calls' = calls /\ report' = report
    BY <1>3 DEF RunTrans, RunStep, Filling, called, job
  <2>2. CASE busy
    <3>1. pc' \in Filling
      BY <1>3, <2>2 DEF RunTrans, RunStep, Filling
    <3>2. Phase' = Phase /\ Phase # "run"
      BY <2>1, <3>1 DEF Phase
    <3> QED
      BY <2>1, <3>2, Stutter
  <2>3. CASE ~busy
    <3>1. pc' \notin Filling /\ torn
      BY <1>3, <2>1, <2>3 DEF RunTrans, RunStep, Filling, FillPart
    <3>2. Phase = "torn" /\ Phase' = "idle"
      BY <2>1, <2>3, <3>1, PhaseTorn, PhaseIdleNext
    <3> QED
      BY <2>1, <3>2, TornStep DEF CalledOnce
  <2> QED
    BY <2>2, <2>3
<1>4. CASE RunZlp
  <2>1. /\ pc \in Filling /\ torn' = torn /\ busy' = busy
        /\ calls' = calls /\ report' = report
    BY <1>4 DEF RunZlp, RunStep, Filling, called
  <2>2. CASE busy
    <3>1. pc' \in Filling
      BY <1>4, <2>2 DEF RunZlp, RunStep, Filling
    <3>2. Phase' = Phase /\ Phase # "run"
      BY <2>1, <3>1 DEF Phase
    <3> QED
      BY <2>1, <3>2, Stutter
  <2>3. CASE ~busy
    <3>1. pc' \notin Filling /\ torn
      BY <1>4, <2>1, <2>3 DEF RunZlp, RunStep, Filling, FillPart
    <3>2. Phase = "torn" /\ Phase' = "idle"
      BY <2>1, <2>3, <3>1, PhaseTorn, PhaseIdleNext
    <3> QED
      BY <2>1, <3>2, TornStep DEF CalledOnce
  <2> QED
    BY <2>2, <2>3
<1>5. CASE RunEnd
  <2>1. /\ pc = "end" /\ pc \in Filling /\ pc' \notin Filling
        /\ busy' = FALSE /\ Callback("ok", size)
    BY <1>5 DEF RunEnd, RunStep, FinishJob, Filling
  <2>2. Phase' = "idle"
    BY <2>1, PhaseIdleNext
  <2>3. CASE torn
    <3>1. Phase = "torn"
      BY <2>1, <2>3, PhaseTorn
    <3>2. CalledOnce
      BY <2>1, CallbackOnce DEF CallPart
    <3> QED
      BY <2>2, <3>1, <3>2, TornStep
  <2>4. CASE ~torn
    <3>1. Phase = "setup" /\ size = 0 /\ dir = "out" /\ call = "own"
      BY <2>1, <2>4, PhaseSetup DEF FillPart
    <3>2. calls' = calls + 1 /\ report' = <<"own", "ok", 0>>
      BY <2>1, <3>1 DEF Callback
    <3>3. Job!StartEnded
      BY <2>2, <3>1, <3>2 DEF Job!StartEnded
    <3> QED
      BY <3>3 DEF Job!JobNext
  <2> QED
    BY <2>3, <2>4
<1> QED
  BY <1>1, <1>2, <1>3, <1>4, <1>5

\* The start of the DMA is the start of the transfer.
LEMMA DmaStepsJob ==
    ASSUME JobInv, RunDma PROVE [Job!JobNext]_(Job!jobVars)
<1> USE DEF JobInv, Types
<1>1. /\ pc = "dma" /\ pc \in Filling /\ torn' = torn /\ busy' = busy
      /\ size' = size /\ moved' = moved /\ calls' = calls /\ report' = report
  BY DEF RunDma, RunStep, Filling, called
<1>2. CASE pc' \in Filling
  <2>1. Phase' = Phase /\ Phase # "run"
    BY <1>1, <1>2 DEF Phase
  <2> QED
    BY <1>1, <2>1, Stutter
<1>3. CASE pc' \notin Filling /\ torn
  <2>1. Phase = "torn" /\ Phase' \in {"torn", "idle"}
    BY <1>1, <1>3 DEF Phase
  <2> QED
    BY <1>1, <2>1, TornStep DEF CalledOnce
<1>4. CASE pc' \notin Filling /\ ~torn
  <2>1. busy /\ size = arg /\ arg \in Sizes /\ moved = 0
    BY <1>1, <1>4 DEF FillPart, RunPart
  <2>2. Phase = "setup" /\ Phase' = "run"
    BY <1>1, <1>4, <2>1 DEF Phase
  <2>3. Job!Start(arg)
    BY <1>1, <2>1, <2>2 DEF Job!Start
  <2> QED
    BY <2>1, <2>3 DEF Job!JobNext
<1> QED
  BY <1>2, <1>3, <1>4

LEMMA IsrStepsJob ==
    ASSUME JobInv, Isr PROVE [Job!JobNext]_(Job!jobVars)
<1> DEFINE c == IF left > 0 THEN Counted ELSE cnt
           n == IF left > 0 THEN Counted ELSE size
<1>0. /\ c = IF left > 0 THEN Counted ELSE cnt
      /\ n = IF left > 0 THEN Counted ELSE size
  OBVIOUS
<1>1. \/ ~busy /\ UNCHANGED <<busy, load, on, left, bank, moved, called>>
      \/ busy /\ StartDma(n, c)
      \/ busy /\ EndByZlp(n, c)
      \/ busy /\ c = n /\ FinishJob("ok", n)
  BY DEF Isr
<1> HIDE DEF c, n
<1> USE DEF JobInv, Types
<1>2. busy /\ pc \notin Filling /\ ~torn =>
           /\ moved = c /\ c <= n /\ call = "own"
           /\ c # n => n = size /\ c = cnt /\ c < n
           /\ dir = "in" => n = size
  BY <1>0, IsrCounts
<1>3. torn' = (torn \/ (busy /\ pc \in Filling)) /\ pc' = pc
  BY DEF Isr, Tears, run
<1>4. torn' \in BOOLEAN /\ (torn => torn') /\ (pc' \in Filling => torn')
      /\ (pc \notin Filling => torn' = torn)
  BY <1>3 DEF JobPart, FillPart
<1>5. busy' \in BOOLEAN /\ CalledOnce /\ (~busy => busy' = busy)
      /\ (~busy => calls' = calls /\ report' = report)
  <2>1. CASE ~busy /\ UNCHANGED <<busy, load, on, left, bank, moved, called>>
    BY <2>1 DEF JobPart, called, CalledOnce
  <2>2. CASE busy /\ StartDma(n, c)
    BY <2>2 DEF StartDma, called, CalledOnce
  <2>3. CASE busy /\ EndByZlp(n, c)
    <3>1. busy' = FALSE /\ Callback("ok", c)
      BY <2>3 DEF EndByZlp, FinishJob
    <3> QED
      BY <2>3, <3>1, CallbackOnce DEF CallPart
  <2>4. CASE busy /\ c = n /\ FinishJob("ok", n)
    <3>1. busy' = FALSE /\ Callback("ok", n)
      BY <2>4 DEF FinishJob
    <3> QED
      BY <2>4, <3>1, CallbackOnce DEF CallPart
  <2> QED
    BY <1>1, <2>1, <2>2, <2>3, <2>4
<1>6. CASE pc \in Filling
  <2>1. Phase \in {"setup", "torn"}
    BY <1>6, PhaseSetup, PhaseTorn DEF JobPart
  <2>2. Phase' = "torn"
    BY <1>3, <1>4, <1>6, PhaseTornNext
  <2> QED
    BY <1>5, <2>1, <2>2, TornStep
<1>7. CASE pc \notin Filling /\ ~busy
  <2>1. Phase = "idle" /\ Phase' = "idle"
    BY <1>3, <1>5, <1>7, PhaseIdle, PhaseIdleNext
  <2> QED
    BY <1>5, <1>7, <2>1, Stutter
<1>8. CASE pc \notin Filling /\ busy /\ torn
  <2>1. Phase = "torn" /\ Phase' \in {"torn", "idle"}
    BY <1>3, <1>4, <1>5, <1>8 DEF Phase
  <2> QED
    BY <1>5, <2>1, TornStep
<1>9. CASE pc \notin Filling /\ busy /\ ~torn
  <2>0. Phase = "run" /\ ~torn'
    BY <1>4, <1>9, PhaseRun
  <2>1. CASE StartDma(n, c)
    <3>1. c # n /\ busy' = TRUE /\ size' = n /\ moved' = moved
          /\ calls' = calls /\ report' = report
      BY <2>1 DEF StartDma, called
    <3>2. Phase' = "run" /\ n = size
      BY <1>2, <1>3, <1>9, <2>0, <3>1 DEF Phase
    <3> QED
      BY <2>0, <3>1, <3>2, Stutter
  <2>2. ASSUME FinishJob("ok", moved), dir = "in" => moved = size
        PROVE  [Job!JobNext]_(Job!jobVars)
    <3>1. busy' = FALSE /\ Callback("ok", moved)
      BY <2>2 DEF FinishJob
    <3>2. calls' = calls + 1 /\ report' = <<"own", "ok", moved>>
      BY <1>2, <1>9, <3>1 DEF Callback
    <3>3. Phase' = "idle"
      BY <1>3, <1>9, <3>1, PhaseIdleNext
    <3>4. Job!End("ok", moved)
      BY <2>0, <3>2, <3>3 DEF Job!End
    <3>5. Job!Finish
      BY <2>0, <2>2, <3>4 DEF Job!Finish
    <3> QED
      BY <3>5 DEF Job!JobNext
  <2>3. CASE EndByZlp(n, c)
    <3>1. FinishJob("ok", c) /\ dir = "out"
      BY <2>3 DEF EndByZlp, ZlpFound
    <3> QED
      BY <1>2, <1>9, <2>2, <3>1
  <2>4. CASE c = n /\ FinishJob("ok", n)
    BY <1>2, <1>9, <2>2, <2>4
  <2> QED
    BY <1>1, <1>9, <2>1, <2>3, <2>4
<1> QED
  BY <1>6, <1>7, <1>8, <1>9

LEMMA RequestStepsJob ==
    ASSUME JobInv, Alloc \/ Free \/ BusReset \/ SetHalt \/ ClearHalt
    PROVE  [Job!JobNext]_(Job!jobVars)
<1> USE DEF JobInv, Types
<1>1. CASE Free \/ BusReset \/ SetHalt
  BY <1>1, AbortStep DEF Free, BusReset, Disable, SetHalt
<1>2. CASE Alloc
  <2>1. pc' = pc /\ torn' = torn
    BY <1>2 DEF Alloc, run
  <2>2. busy' = busy /\ (busy => size' = size) /\ moved' = moved
        /\ calls' = calls /\ report' = report
    <3>1. CASE busy
      <4>1. pc \notin Filling /\ ~torn /\ ~enabled
        BY <1>2, <3>1 DEF Alloc, MeetPart
      <4>2. cnt = load
        BY <3>1, <4>1 DEF Accounts
      <4>3. size - (cnt - load) = size
        BY <4>2, EndpointAssumption DEF JobPart
      <4>4. Wrap(size - (cnt - load)) = size
        BY <4>3, WrapSame DEF JobPart
      <4>5. StartDma(size, 0)
        BY <1>2, <3>1, <4>4 DEF Alloc
      <4>6. busy' = TRUE /\ size' = size /\ UNCHANGED <<moved, called>>
        BY <4>5 DEF StartDma
      <4> QED
        BY <3>1, <4>6 DEF JobPart, called
    <3>2. CASE ~busy
      <4>1. UNCHANGED <<busy, moved, called>>
        BY <1>2, <3>2 DEF Alloc
      <4> QED
        BY <3>2, <4>1 DEF called
    <3> QED
      BY <3>1, <3>2
  <2>3. Phase' = Phase /\ (Phase = "run" => busy)
    BY <2>1, <2>2 DEF Phase
  <2> QED
    BY <2>2, <2>3, Stutter
<1>3. CASE ClearHalt
  <2>1. pc' = pc /\ torn' = torn /\ size' = size
    BY <1>3 DEF ClearHalt, run
  <2>2. CASE stalled /\ busy
    <3>1. busy' = FALSE /\ Callback("nohalt", 0) /\ pc \notin Filling
      BY <1>3, <2>2 DEF ClearHalt
    <3>2. torn
      BY <2>2 DEF MeetPart
    <3>3. Phase = "torn" /\ Phase' = "idle"
      BY <2>1, <2>2, <3>1, <3>2, PhaseTorn, PhaseIdleNext
    <3>4. CalledOnce
      BY <3>1, CallbackOnce DEF CallPart
    <3> QED
      BY <3>3, <3>4, TornStep
  <2>3. CASE ~(stalled /\ busy)
    <3>1. UNCHANGED <<busy, moved, called>>
      BY <1>3, <2>3 DEF ClearHalt
    <3>2. Phase' = Phase
      BY <2>1, <3>1 DEF Phase
    <3> QED
      BY <2>1, <3>1, <3>2, Stutter DEF called
  <2> QED
    BY <2>2, <2>3
<1> QED
  BY <1>1, <1>2, <1>3

LEMMA MoveStepsJob ==
    ASSUME JobInv, NEW k \in 0 .. left, NEW short, Move(k, short)
    PROVE  [Job!JobNext]_(Job!jobVars)
<1> USE DEF JobInv, Types
<1>1. /\ moved' = IF busy /\ pc \notin Filling /\ ~torn THEN moved + k ELSE moved
      /\ UNCHANGED <<run, job, called, torn>>
  BY DEF Move
<1>2. Phase' = Phase
  BY <1>1 DEF Phase, run, job
<1>3. CASE Phase = "run"
  <2>1. busy /\ pc \notin Filling /\ ~torn
    BY <1>3 DEF Phase
  <2>2. moved + left = cnt /\ cnt <= size
    BY <2>1 DEF Accounts
  <2>3. moved' = moved + k /\ moved \in Nat /\ left \in Nat /\ cnt \in Nat /\ size \in Nat
    BY <1>1, <2>1, EndpointAssumption DEF CallPart, JobPart
  <2>4. moved' \in moved .. size
    BY <2>2, <2>3
  <2>5. Job!Move
    BY <1>1, <1>2, <1>3, <2>4 DEF Job!Move, job, called
  <2> QED
    BY <2>5 DEF Job!JobNext
<1>4. CASE Phase # "run"
  BY <1>1, <1>2, <1>4, Stutter DEF called
<1> QED
  BY <1>3, <1>4

LEMMA NextStepsJob ==
    ASSUME JobInv, [Next]_vars PROVE [Job!JobNext]_(Job!jobVars)
<1>1. CASE DmaIn
  <2>1. Least(Packet, left) \in 0 .. left
    BY EndpointAssumption DEF JobInv, Types, JobPart, Least
  <2> QED
    BY <1>1, <2>1, MoveStepsJob DEF DmaIn
<1>2. CASE DmaOut
  <2>1. Head(bank) \in 0 .. Packet
    BY <1>2, TakenBank DEF DmaOut, JobInv, Types
  <2>2. Least(Head(bank), left) \in 0 .. left
    BY <2>1, EndpointAssumption DEF JobInv, Types, JobPart, Least
  <2> QED
    BY <1>2, <2>2, MoveStepsJob DEF DmaOut
<1>3. CASE \/ \E n \in Sizes : RunCheck(n)
           \/ \E k \in 0 .. Packet : HostSend(k)
           \/ HostTake \/ HostMeetsStall \/ UNCHANGED vars
  <2>1. /\ UNCHANGED <<job, moved, called, torn>>
        /\ pc' = pc \/ (pc = "idle" /\ pc' = "take")
    BY <1>3 DEF RunCheck, HostSend, HostTake, HostMeetsStall, vars, run
  <2>2. Phase' = Phase
    BY <2>1 DEF Phase, job, Filling
  <2> QED
    BY <2>1, <2>2, Stutter DEF job, called
<1>4. CASE Run
  BY <1>4, RunStepsJob, DmaStepsJob DEF Run
<1>5. CASE Isr
  BY <1>5, IsrStepsJob
<1>6. CASE Alloc \/ Free \/ BusReset \/ SetHalt \/ ClearHalt
  BY <1>6, RequestStepsJob
<1> QED
  BY <1>1, <1>2, <1>3, <1>4, <1>5, <1>6 DEF Next

\* The driver implements BulkJob, for every transfer, packet and word size: an
\* accepted transfer is answered once, by its own callback and with the bytes
\* the DMA has moved, and one that is hit inside udd_ep_run does not harm the
\* next (udd_ep_run, udd_ep_trans_done, udd_ep_interrupt, udd_ep_alloc).
THEOREM EndpointImplementsJob == Spec => ImplementsJob
<1>1. Init => Job!JobInit
  <2> SUFFICES ASSUME Init PROVE Job!JobInit
    OBVIOUS
  <2>1. Phase = "idle"
    BY DEF Init, Phase, Filling
  <2> QED
    BY <2>1 DEF Init, Job!JobInit
<1>2. JobInv /\ [Next]_vars => [Job!JobNext]_(Job!jobVars)
  BY NextStepsJob
<1> QED
  BY <1>1, <1>2, JobInvariant, PTL DEF Spec, ImplementsJob, Job!JobSpec
============================================================================
