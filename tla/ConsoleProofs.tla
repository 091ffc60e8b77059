---------------------------- MODULE ConsoleProofs ----------------------------
(***************************************************************************)
(* Proofs about Console for every ring size, counter width and set of      *)
(* messages, with crashes of the thread only: a crash of the completion    *)
(* interrupt may lose its place in the ring (see CrashDumps).  The first   *)
(* part is about the ring itself, the second shows that Console implements *)
(* ConsoleFifo.                                                            *)
(***************************************************************************)
EXTENDS Console, FiniteSetTheorems, TLAPS

(***************************************************************************)
(* Quotient and remainder.                                                 *)
(***************************************************************************)
\* The remainder is what the quotient leaves.
LEMMA DivMod ==
  ASSUME NEW x \in Int, NEW S \in Nat \ {0}
  PROVE  /\ x \div S \in Int /\ x % S \in 0 .. S - 1
         /\ x % S = x - S * (x \div S)
<1>1. x % S = x - S * (x \div S)
  OBVIOUS
<1>2. x \div S \in Int /\ x % S \in 0 .. S - 1
  OBVIOUS
<1>3. QED
  BY <1>1, <1>2

\* A remainder in range and a quotient are determined by the number.
LEMMA UniqueRest ==
  ASSUME NEW S \in Nat \ {0}, NEW q1 \in Int, NEW q2 \in Int,
         NEW r1 \in 0 .. S - 1, NEW r2 \in 0 .. S - 1,
         r1 + S * q1 = r2 + S * q2
  PROVE  r1 = r2
OBVIOUS

\* One instance of distributivity at a time keeps products out of the provers' way.
LEMMA Distribute ==
  ASSUME NEW s \in Int, NEW p \in Int, NEW k \in Int
  PROVE  s * (p + k) = s * p + s * k /\ s * p \in Int
OBVIOUS

\* Whole turns of a ring of S places lead back to the same place.
LEMMA SameRest ==
  ASSUME NEW x \in Int, NEW y \in Int, NEW k \in Int, NEW S \in Nat \ {0}
  PROVE  y = x + S * k => y % S = x % S
<1> DEFINE a == x % S  p == x \div S  b == y % S  q == y \div S
<1>1. a \in 0 .. S - 1 /\ p \in Int /\ a = x - S * p
  BY DivMod
<1>2. b \in 0 .. S - 1 /\ q \in Int /\ b = y - S * q
  BY DivMod
<1> HIDE DEF a, b, p, q
<1>3. S \in Int
  OBVIOUS
<1>4. S * (p + k) = S * p + S * k /\ S * p \in Int
  BY <1>1, <1>3, Distribute, ZenonT(60)
<1>5. S * q \in Int
  BY <1>2, <1>3, Distribute, ZenonT(60)
<1> HAVE y = x + S * k
<1>6. b + S * q = a + S * (p + k) /\ p + k \in Int
  BY <1>1, <1>2, <1>4, <1>5
<1>7. a = b
  BY <1>1, <1>2, <1>6, UniqueRest
<1>8. QED
  BY <1>7 DEF a, b

ThreadCrashes == "irq" \notin CrashFrom

LEMMA Sizes ==
  /\ CtrMod \in Nat /\ Size \in Nat /\ Size >= 1 /\ CtrMod > 2 * Size
  /\ DumpLines \in Nat
BY SizeAssumption, CrashAssumption

\* The counters wrap at most once in a sum or a difference of two of them.
LEMMA CtrOf ==
  /\ \A x \in 0 .. CtrMod - 1 : Ctr(x) = x
  /\ \A x \in CtrMod .. 2 * CtrMod - 1 : Ctr(x) = x - CtrMod
  /\ \A x \in -CtrMod .. -1 : Ctr(x) = x + CtrMod
  /\ \A x \in Int : Ctr(x) \in 0 .. CtrMod - 1
BY Sizes DEF Ctr

LEMMA CharsInit == CR \in Chars /\ LF \in Chars
<1>1. <<CR, LF>>[1] = CR /\ <<CR, LF>>[2] = LF /\ Len(<<CR, LF>>) = 2
  OBVIOUS
<1>2. {<<CR, LF>>[i] : i \in 1 .. Len(<<CR, LF>>)} \subseteq Chars
  BY DEF Chars
<1>3. QED
  BY <1>1, <1>2

LEMMA MaskRange ==
  ASSUME NEW x \in Int
  PROVE  MASK(x) \in 0 .. Size - 1
BY Sizes DEF MASK

\* vprintk() stores characters only.
LEMMA StagedRing ==
  ASSUME TypeOK, rest # <<>>
  PROVE  /\ Tail(rest) \in Seq(Chars)
         /\ Staged(Head(rest)) \in Seq(Chars)
         /\ Len(Staged(Head(rest))) \in 0 .. 2
         /\ [i \in DOMAIN ring |->
               IF MASK(i - prod) < Len(Staged(Head(rest)))
               THEN Staged(Head(rest))[MASK(i - prod) + 1] ELSE ring[i]]
            \in [0 .. Size - 1 -> Chars]
<1> DEFINE s == Staged(Head(rest))
<1>1. Head(rest) \in Chars /\ Tail(rest) \in Seq(Chars)
  BY DEF TypeOK
<1>2. CR \in Chars /\ LF \in Chars
  BY CharsInit
<1>3. s \in Seq(Chars) /\ Len(s) \in 0 .. 2
  BY <1>1, <1>2 DEF Staged
<1>4. \A i \in 0 .. Size - 1 : MASK(i - prod) < Len(s) => s[MASK(i - prod) + 1] \in Chars
  <2>1. \A k \in 1 .. Len(s) : s[k] \in Chars
    BY <1>3
  <2> HIDE DEF s
  <2>2. \A i \in 0 .. Size - 1 : MASK(i - prod) \in 0 .. Size - 1
    <3>1. \A i \in 0 .. Size - 1 : i - prod \in Int
      BY Sizes DEF TypeOK
    <3>2. QED
      BY <3>1, MaskRange
  <2>3. QED
    BY <1>3, <2>1, <2>2, Sizes
<1>5. QED
  BY <1>1, <1>3, <1>4 DEF TypeOK

\* Which context runs, and where it may be.
CtxInv ==
  /\ ctx = "irq" => ~primask /\ pc \in {"clear", "advance", "zero", "kick", "load", "start"}
  /\ ctx = "thread" => \/ ~primask /\ pc \in {"idle", "barrier"}
                       \/ primask /\ pc \in {"stage", "kick", "load", "start", "enable"}
  /\ ctx # "crash" => ~sync /\ lines = 0
  /\ ctx = "crash" => /\ sync
                      /\ pc \in {"drain", "clear", "advance", "zero", "kick", "dump",
                                 "stage", "enable"}
                      /\ pc \in {"kick", "dump", "stage", "enable"} => dma_sz = 0 /\ ~en
                      /\ pc \in {"dump", "enable"} => cons = prod

\* The channel between the stores of kick_tx() and of the completion handler.
DmaInv ==
  /\ pc = "load" => cndtr = 0 /\ ~tcif /\ MASK(cons) + dma_sz <= Size
  /\ pc = "clear" => cndtr = 0
  /\ pc \in {"advance", "zero"} => cndtr = 0 /\ ~tcif /\ ~en
  /\ tcif => cndtr = 0 /\ dma_sz > 0
  /\ cndtr > 0 => src + cndtr <= Size

IInv == TypeOK /\ CtxInv /\ DmaInv /\ ConsExact

LEMMA VprintkKeeps ==
  ASSUME IInv, \E m \in Messages : Vprintk(m)
  PROVE  IInv'
<1> USE Sizes DEF IInv, Vprintk, Interruptible, tx, out
<1>1. TypeOK'
  BY CtrOf, MaskRange, MessageAssumption DEF TypeOK, CtxInv, DmaInv
<1>2. CtxInv' /\ DmaInv'
  BY MaskRange, CrashAssumption DEF TypeOK, CtxInv, DmaInv, ThreadCrashes
<1>3. ConsExact'
  BY CtrOf DEF TypeOK, CtxInv, DmaInv, ConsExact, InFlight
<1>4. QED
  BY <1>1, <1>2, <1>3

LEMMA StageKeeps ==
  ASSUME IInv, Stage
  PROVE  IInv'
<1> USE Sizes DEF IInv, Stage, tx, out
<1>1. TypeOK'
  <2>1. (ring \in [0 .. Size - 1 -> Chars] /\ rest \in Seq(Chars))'
    BY StagedRing DEF TypeOK
  <2>2. (cons \in 0 .. CtrMod - 1 /\ prod \in 0 .. CtrMod - 1
         /\ target \in 0 .. CtrMod - 1 /\ sent \in 0 .. CtrMod - 1)'
    BY CtrOf DEF TypeOK
  <2>3. (dma_sz \in 0 .. Size /\ cndtr \in 0 .. dma_sz /\ src \in 0 .. Size)'
    BY MaskRange DEF TypeOK, DmaInv
  <2>4. ({sync, en, tcif, primask} \subseteq BOOLEAN)'
    BY DEF TypeOK
  <2>5. (/\ ctx \in {"thread", "irq", "crash"}
         /\ pc \in {"idle", "stage", "kick", "load", "start", "enable", "clear", "advance",
                   "zero", "barrier", "drain", "dump"}
         /\ back \in {"idle", "barrier"} /\ lines \in 0 .. DumpLines + 1)'
    BY DEF TypeOK
  <2>6. QED
    BY <2>1, <2>2, <2>3, <2>4, <2>5 DEF TypeOK
<1>2. CtxInv' /\ DmaInv'
  BY MaskRange, CrashAssumption DEF TypeOK, CtxInv, DmaInv, ThreadCrashes
<1>3. ConsExact'
  BY CtrOf DEF TypeOK, CtxInv, DmaInv, ConsExact, InFlight
<1>4. QED
  BY <1>1, <1>2, <1>3

LEMMA StageEndKeeps ==
  ASSUME IInv, StageEnd
  PROVE  IInv'
<1> USE Sizes DEF IInv, StageEnd, tx, out
<1>1. TypeOK'
  BY CtrOf, MaskRange, MessageAssumption DEF TypeOK, CtxInv, DmaInv
<1>2. CtxInv' /\ DmaInv'
  BY MaskRange, CrashAssumption DEF TypeOK, CtxInv, DmaInv, ThreadCrashes
<1>3. ConsExact'
  BY CtrOf DEF TypeOK, CtxInv, DmaInv, ConsExact, InFlight
<1>4. QED
  BY <1>1, <1>2, <1>3

LEMMA PrintEndKeeps ==
  ASSUME IInv, PrintEnd
  PROVE  IInv'
<1> USE Sizes DEF IInv, PrintEnd, tx, out
<1>1. TypeOK'
  BY CtrOf, MaskRange, MessageAssumption DEF TypeOK, CtxInv, DmaInv
<1>2. CtxInv' /\ DmaInv'
  BY MaskRange, CrashAssumption DEF TypeOK, CtxInv, DmaInv, ThreadCrashes
<1>3. ConsExact'
  BY CtrOf DEF TypeOK, CtxInv, DmaInv, ConsExact, InFlight
<1>4. QED
  BY <1>1, <1>2, <1>3

LEMMA KickPollKeeps ==
  ASSUME IInv, KickPoll
  PROVE  IInv'
<1> USE Sizes DEF IInv, KickPoll, tx, out
<1>1. TypeOK'
  BY CtrOf, MaskRange, MessageAssumption DEF TypeOK, CtxInv, DmaInv
<1>2. CtxInv' /\ DmaInv'
  BY MaskRange, CrashAssumption DEF TypeOK, CtxInv, DmaInv, ThreadCrashes
<1>3. ConsExact'
  <2>1. dma_sz = 0 /\ cndtr = 0 /\ pc = "kick" /\ pc' = "kick" /\ cons \in 0 .. CtrMod - 1
    BY DEF TypeOK, CtxInv
  <2>2. sent = cons
    BY <2>1, CtrOf DEF ConsExact, InFlight
  <2>3. sent' = cons' /\ cons' \in 0 .. CtrMod - 1
    BY <2>1, <2>2, CtrOf
  <2>4. InFlight' = 0
    BY <2>1 DEF InFlight
  <2>5. QED
    BY <2>3, <2>4, CtrOf DEF ConsExact
<1>4. QED
  BY <1>1, <1>2, <1>3

LEMMA KickSizeKeeps ==
  ASSUME IInv, KickSize
  PROVE  IInv'
<1> USE Sizes DEF IInv, KickSize, tx, out
<1>0. dma_sz' \in 0 .. Size /\ MASK(cons) + dma_sz' <= Size
  <2>1. cons \in Int /\ prod - cons \in Int
    BY DEF TypeOK
  <2>2. MASK(prod - cons) \in 0 .. Size - 1 /\ MASK(cons) \in 0 .. Size - 1
    BY <2>1, MaskRange
  <2>3. QED
    BY <2>2
<1>1. TypeOK'
  <2>1. (ring \in [0 .. Size - 1 -> Chars] /\ rest \in Seq(Chars))'
    BY DEF TypeOK
  <2>2. (cons \in 0 .. CtrMod - 1 /\ prod \in 0 .. CtrMod - 1
         /\ target \in 0 .. CtrMod - 1 /\ sent \in 0 .. CtrMod - 1)'
    BY CtrOf DEF TypeOK
  <2>3. (dma_sz \in 0 .. Size /\ cndtr \in 0 .. dma_sz /\ src \in 0 .. Size)'
    BY <1>0 DEF TypeOK
  <2>4. ({sync, en, tcif, primask} \subseteq BOOLEAN)'
    BY DEF TypeOK
  <2>5. (/\ ctx \in {"thread", "irq", "crash"}
         /\ pc \in {"idle", "stage", "kick", "load", "start", "enable", "clear", "advance",
                   "zero", "barrier", "drain", "dump"}
         /\ back \in {"idle", "barrier"} /\ lines \in 0 .. DumpLines + 1)'
    BY DEF TypeOK
  <2>6. QED
    BY <2>1, <2>2, <2>3, <2>4, <2>5 DEF TypeOK
<1>2. CtxInv' /\ DmaInv'
  BY <1>0 DEF TypeOK, CtxInv, DmaInv
<1>3. ConsExact'
  BY CtrOf DEF TypeOK, CtxInv, DmaInv, ConsExact, InFlight
<1>4. QED
  BY <1>1, <1>2, <1>3

LEMMA KickLoadKeeps ==
  ASSUME IInv, KickLoad
  PROVE  IInv'
<1> USE Sizes DEF IInv, KickLoad, tx, out
<1>1. TypeOK'
  <2>1. (ring \in [0 .. Size - 1 -> Chars] /\ rest \in Seq(Chars))'
    BY DEF TypeOK
  <2>2. (cons \in 0 .. CtrMod - 1 /\ prod \in 0 .. CtrMod - 1
         /\ target \in 0 .. CtrMod - 1 /\ sent \in 0 .. CtrMod - 1)'
    BY CtrOf DEF TypeOK
  <2>3. (dma_sz \in 0 .. Size /\ cndtr \in 0 .. dma_sz /\ src \in 0 .. Size)'
    BY MaskRange DEF TypeOK, DmaInv
  <2>4. ({sync, en, tcif, primask} \subseteq BOOLEAN)'
    BY DEF TypeOK
  <2>5. (/\ ctx \in {"thread", "irq", "crash"}
         /\ pc \in {"idle", "stage", "kick", "load", "start", "enable", "clear", "advance",
                   "zero", "barrier", "drain", "dump"}
         /\ back \in {"idle", "barrier"} /\ lines \in 0 .. DumpLines + 1)'
    BY DEF TypeOK
  <2>6. QED
    BY <2>1, <2>2, <2>3, <2>4, <2>5 DEF TypeOK
<1>2. CtxInv' /\ DmaInv'
  BY MaskRange, CrashAssumption DEF TypeOK, CtxInv, DmaInv, ThreadCrashes
<1>3. ConsExact'
  BY CtrOf DEF TypeOK, CtxInv, DmaInv, ConsExact, InFlight
<1>4. QED
  BY <1>1, <1>2, <1>3

LEMMA KickStartKeeps ==
  ASSUME IInv, KickStart
  PROVE  IInv'
<1> USE Sizes DEF IInv, KickStart, Return, tx, out
<1>1. TypeOK'
  BY CtrOf, MaskRange, MessageAssumption DEF TypeOK, CtxInv, DmaInv
<1>2. CtxInv' /\ DmaInv'
  <2>1. CtxInv'
    BY DEF TypeOK, CtxInv, DmaInv, ThreadCrashes
  <2>2. DmaInv'
    BY DEF TypeOK, CtxInv, DmaInv
  <2>3. QED
    BY <2>1, <2>2
<1>3. ConsExact'
  BY CtrOf DEF TypeOK, CtxInv, DmaInv, ConsExact, InFlight
<1>4. QED
  BY <1>1, <1>2, <1>3

LEMMA KickNothingKeeps ==
  ASSUME IInv, KickNothing
  PROVE  IInv'
<1> USE Sizes DEF IInv, KickNothing, Return, tx, out
<1>1. TypeOK'
  BY CtrOf, MaskRange, MessageAssumption DEF TypeOK, CtxInv, DmaInv
<1>2. CtxInv' /\ DmaInv'
  <2>1. CtxInv'
    BY DEF TypeOK, CtxInv, DmaInv, ThreadCrashes
  <2>2. DmaInv'
    BY DEF TypeOK, CtxInv, DmaInv
  <2>3. QED
    BY <2>1, <2>2
<1>3. ConsExact'
  BY CtrOf DEF TypeOK, CtxInv, DmaInv, ConsExact, InFlight
<1>4. QED
  BY <1>1, <1>2, <1>3

LEMMA TakeIrqKeeps ==
  ASSUME IInv, TakeIrq
  PROVE  IInv'
<1> USE Sizes DEF IInv, TakeIrq, Interruptible, Pending, tx, out
<1>1. TypeOK'
  BY CtrOf, MaskRange, MessageAssumption DEF TypeOK, CtxInv, DmaInv
<1>2. CtxInv' /\ DmaInv'
  BY MaskRange, CrashAssumption DEF TypeOK, CtxInv, DmaInv, ThreadCrashes
<1>3. ConsExact'
  BY CtrOf DEF TypeOK, CtxInv, DmaInv, ConsExact, InFlight
<1>4. QED
  BY <1>1, <1>2, <1>3

LEMMA IrqClearKeeps ==
  ASSUME IInv, IrqClear
  PROVE  IInv'
<1> USE Sizes DEF IInv, IrqClear, tx, out
<1>1. TypeOK'
  BY CtrOf, MaskRange, MessageAssumption DEF TypeOK, CtxInv, DmaInv
<1>2. CtxInv' /\ DmaInv'
  BY MaskRange, CrashAssumption DEF TypeOK, CtxInv, DmaInv, ThreadCrashes
<1>3. ConsExact'
  BY CtrOf DEF TypeOK, CtxInv, DmaInv, ConsExact, InFlight
<1>4. QED
  BY <1>1, <1>2, <1>3

LEMMA IrqAdvanceKeeps ==
  ASSUME IInv, IrqAdvance
  PROVE  IInv'
<1> USE Sizes DEF IInv, IrqAdvance, tx, out
<1>1. TypeOK'
  BY CtrOf, MaskRange, MessageAssumption DEF TypeOK, CtxInv, DmaInv
<1>2. CtxInv' /\ DmaInv'
  BY MaskRange, CrashAssumption DEF TypeOK, CtxInv, DmaInv, ThreadCrashes
<1>3. ConsExact'
  BY CtrOf DEF TypeOK, CtxInv, DmaInv, ConsExact, InFlight
<1>4. QED
  BY <1>1, <1>2, <1>3

LEMMA IrqZeroKeeps ==
  ASSUME IInv, IrqZero
  PROVE  IInv'
<1> USE Sizes DEF IInv, IrqZero, tx, out
<1>1. TypeOK'
  BY CtrOf, MaskRange, MessageAssumption DEF TypeOK, CtxInv, DmaInv
<1>2. CtxInv' /\ DmaInv'
  BY MaskRange, CrashAssumption DEF TypeOK, CtxInv, DmaInv, ThreadCrashes
<1>3. ConsExact'
  BY CtrOf DEF TypeOK, CtxInv, DmaInv, ConsExact, InFlight
<1>4. QED
  BY <1>1, <1>2, <1>3

LEMMA TransmitKeeps ==
  ASSUME IInv, Transmit
  PROVE  IInv'
<1> USE Sizes DEF IInv, Transmit, tx, out
<1>1. TypeOK'
  <2>1. (ring \in [0 .. Size - 1 -> Chars] /\ rest \in Seq(Chars))'
    BY DEF TypeOK
  <2>2. (cons \in 0 .. CtrMod - 1 /\ prod \in 0 .. CtrMod - 1
         /\ target \in 0 .. CtrMod - 1 /\ sent \in 0 .. CtrMod - 1)'
    BY CtrOf DEF TypeOK
  <2>3. (dma_sz \in 0 .. Size /\ cndtr \in 0 .. dma_sz /\ src \in 0 .. Size)'
    BY MaskRange DEF TypeOK, DmaInv
  <2>4. ({sync, en, tcif, primask} \subseteq BOOLEAN)'
    BY DEF TypeOK
  <2>5. (/\ ctx \in {"thread", "irq", "crash"}
         /\ pc \in {"idle", "stage", "kick", "load", "start", "enable", "clear", "advance",
                   "zero", "barrier", "drain", "dump"}
         /\ back \in {"idle", "barrier"} /\ lines \in 0 .. DumpLines + 1)'
    BY DEF TypeOK
  <2>6. QED
    BY <2>1, <2>2, <2>3, <2>4, <2>5 DEF TypeOK
<1>2. CtxInv' /\ DmaInv'
  BY MaskRange, CrashAssumption DEF TypeOK, CtxInv, DmaInv, ThreadCrashes
<1>3. ConsExact'
  <2>1. /\ cons \in 0 .. CtrMod - 1 /\ dma_sz \in 0 .. Size /\ cndtr \in 1 .. dma_sz
        /\ pc \notin {"load", "zero"}
    BY DEF TypeOK, DmaInv
  <2>2. InFlight = dma_sz - cndtr /\ InFlight' = dma_sz - cndtr + 1
    BY <2>1 DEF InFlight
  <2> DEFINE x == cons + (dma_sz - cndtr)
  <2>3. x \in 0 .. 2 * CtrMod - 2 /\ sent = Ctr(x) /\ cons' + InFlight' = x + 1
    BY <2>1, <2>2 DEF ConsExact
  <2> HIDE DEF x
  <2>4. Ctr(Ctr(x) + 1) = Ctr(x + 1)
    <3>1. CASE x < CtrMod
      BY <2>3, <3>1, CtrOf
    <3>2. CASE ~(x < CtrMod)
      <4>1. Ctr(x) = x - CtrMod /\ x - CtrMod + 1 \in 0 .. CtrMod - 1
        BY <2>3, <3>2, CtrOf
      <4>2. Ctr(x + 1) = x + 1 - CtrMod
        BY <2>3, <3>2, CtrOf
      <4>3. QED
        BY <4>1, <4>2, CtrOf, <2>3
    <3>3. QED
      BY <3>1, <3>2
  <2>5. QED
    BY <2>3, <2>4 DEF ConsExact
<1>4. QED
  BY <1>1, <1>2, <1>3

LEMMA BarrierKeeps ==
  ASSUME IInv, Barrier
  PROVE  IInv'
<1> USE Sizes DEF IInv, Barrier, Interruptible, tx, out
<1>1. TypeOK'
  BY CtrOf, MaskRange, MessageAssumption DEF TypeOK, CtxInv, DmaInv
<1>2. CtxInv' /\ DmaInv'
  BY MaskRange, CrashAssumption DEF TypeOK, CtxInv, DmaInv, ThreadCrashes
<1>3. ConsExact'
  BY CtrOf DEF TypeOK, CtxInv, DmaInv, ConsExact, InFlight
<1>4. QED
  BY <1>1, <1>2, <1>3

LEMMA BarrierEndKeeps ==
  ASSUME IInv, BarrierEnd
  PROVE  IInv'
<1> USE Sizes DEF IInv, BarrierEnd, Interruptible, tx, out
<1>1. TypeOK'
  BY CtrOf, MaskRange, MessageAssumption DEF TypeOK, CtxInv, DmaInv
<1>2. CtxInv' /\ DmaInv'
  BY MaskRange, CrashAssumption DEF TypeOK, CtxInv, DmaInv, ThreadCrashes
<1>3. ConsExact'
  BY CtrOf DEF TypeOK, CtxInv, DmaInv, ConsExact, InFlight
<1>4. QED
  BY <1>1, <1>2, <1>3

LEMMA CrashKeeps ==
  ASSUME IInv, ThreadCrashes, Crash
  PROVE  IInv'
<1> USE Sizes DEF IInv, Crash, tx, out
<1>1. TypeOK'
  BY CtrOf, MaskRange, MessageAssumption DEF TypeOK, CtxInv, DmaInv
<1>2. CtxInv' /\ DmaInv'
  BY MaskRange, CrashAssumption DEF TypeOK, CtxInv, DmaInv, ThreadCrashes
<1>3. ConsExact'
  <2>1. InFlight' = InFlight
    BY CrashAssumption DEF TypeOK, CtxInv, InFlight, ThreadCrashes
  <2>2. QED
    BY <2>1 DEF ConsExact
<1>4. QED
  BY <1>1, <1>2, <1>3

LEMMA SyncDrainedKeeps ==
  ASSUME IInv, SyncDrained
  PROVE  IInv'
<1> USE Sizes DEF IInv, SyncDrained, tx, out
<1>1. TypeOK'
  BY CtrOf, MaskRange, MessageAssumption DEF TypeOK, CtxInv, DmaInv
<1>2. CtxInv' /\ DmaInv'
  BY MaskRange, CrashAssumption DEF TypeOK, CtxInv, DmaInv, ThreadCrashes
<1>3. ConsExact'
  BY CtrOf DEF TypeOK, CtxInv, DmaInv, ConsExact, InFlight
<1>4. QED
  BY <1>1, <1>2, <1>3

LEMMA DumpKeeps ==
  ASSUME IInv, Dump
  PROVE  IInv'
<1> USE Sizes DEF IInv, Dump, tx, out
<1>1. TypeOK'
  <2>1. (ring \in [0 .. Size - 1 -> Chars] /\ rest \in Seq(Chars))'
    BY MessageAssumption DEF TypeOK
  <2>2. (cons \in 0 .. CtrMod - 1 /\ prod \in 0 .. CtrMod - 1
         /\ target \in 0 .. CtrMod - 1 /\ sent \in 0 .. CtrMod - 1)'
    BY CtrOf DEF TypeOK
  <2>3. (dma_sz \in 0 .. Size /\ cndtr \in 0 .. dma_sz /\ src \in 0 .. Size)'
    BY MaskRange DEF TypeOK, DmaInv
  <2>4. ({sync, en, tcif, primask} \subseteq BOOLEAN)'
    BY DEF TypeOK
  <2>5. (/\ ctx \in {"thread", "irq", "crash"}
         /\ pc \in {"idle", "stage", "kick", "load", "start", "enable", "clear", "advance",
                   "zero", "barrier", "drain", "dump"}
         /\ back \in {"idle", "barrier"} /\ lines \in 0 .. DumpLines + 1)'
    BY DEF TypeOK
  <2>6. QED
    BY <2>1, <2>2, <2>3, <2>4, <2>5 DEF TypeOK
<1>2. CtxInv' /\ DmaInv'
  BY MaskRange, CrashAssumption DEF TypeOK, CtxInv, DmaInv, ThreadCrashes
<1>3. ConsExact'
  BY CtrOf DEF TypeOK, CtxInv, DmaInv, ConsExact, InFlight
<1>4. QED
  BY <1>1, <1>2, <1>3

LEMMA ResetKeeps ==
  ASSUME IInv, Reset
  PROVE  IInv'
<1> USE Sizes DEF IInv, Reset, tx, out
<1>1. TypeOK'
  <2>1. (ring \in [0 .. Size - 1 -> Chars] /\ rest \in Seq(Chars))'
    BY CharsInit DEF TypeOK
  <2>2. (cons \in 0 .. CtrMod - 1 /\ prod \in 0 .. CtrMod - 1
         /\ target \in 0 .. CtrMod - 1 /\ sent \in 0 .. CtrMod - 1)'
    BY CtrOf DEF TypeOK
  <2>3. (dma_sz \in 0 .. Size /\ cndtr \in 0 .. dma_sz /\ src \in 0 .. Size)'
    BY MaskRange DEF TypeOK, DmaInv
  <2>4. ({sync, en, tcif, primask} \subseteq BOOLEAN)'
    BY DEF TypeOK
  <2>5. (/\ ctx \in {"thread", "irq", "crash"}
         /\ pc \in {"idle", "stage", "kick", "load", "start", "enable", "clear", "advance",
                   "zero", "barrier", "drain", "dump"}
         /\ back \in {"idle", "barrier"} /\ lines \in 0 .. DumpLines + 1)'
    BY DEF TypeOK
  <2>6. QED
    BY <2>1, <2>2, <2>3, <2>4, <2>5 DEF TypeOK
<1>2. CtxInv' /\ DmaInv'
  BY MaskRange, CrashAssumption DEF TypeOK, CtxInv, DmaInv, ThreadCrashes
<1>3. ConsExact'
  BY CtrOf DEF TypeOK, CtxInv, DmaInv, ConsExact, InFlight
<1>4. QED
  BY <1>1, <1>2, <1>3

LEMMA InitInv == Init => IInv
<1> SUFFICES ASSUME Init PROVE IInv
  OBVIOUS
<1> USE Sizes DEF Init
<1>1. TypeOK
  <2>1. ring \in [0 .. Size - 1 -> Chars] /\ rest \in Seq(Chars)
    BY CharsInit
  <2>2. /\ cons \in 0 .. CtrMod - 1 /\ prod \in 0 .. CtrMod - 1
        /\ target \in 0 .. CtrMod - 1 /\ sent \in 0 .. CtrMod - 1
        /\ dma_sz \in 0 .. Size /\ cndtr \in 0 .. dma_sz /\ src \in 0 .. Size
        /\ lines \in 0 .. DumpLines + 1
    OBVIOUS
  <2>3. {sync, en, tcif, primask} \subseteq BOOLEAN
    OBVIOUS
  <2>4. QED
    BY <2>1, <2>2, <2>3 DEF TypeOK
<1>2. CtxInv /\ DmaInv
  BY DEF CtxInv, DmaInv
<1>3. ConsExact
  BY CtrOf DEF ConsExact, InFlight
<1>4. QED
  BY <1>1, <1>2, <1>3 DEF IInv

LEMMA NextInv ==
  ASSUME ThreadCrashes, IInv, [Next]_vars
  PROVE  IInv'
<1>1. CASE UNCHANGED vars
  BY <1>1 DEF vars, tx, out, IInv, TypeOK, CtxInv, DmaInv, ConsExact, InFlight
<1>2. CASE Cpu
  BY <1>2, StageKeeps, StageEndKeeps, PrintEndKeeps, KickPollKeeps, KickSizeKeeps, KickLoadKeeps,
     KickStartKeeps, KickNothingKeeps, TakeIrqKeeps, IrqClearKeeps, IrqAdvanceKeeps,
     IrqZeroKeeps, BarrierEndKeeps, SyncDrainedKeeps, DumpKeeps, ResetKeeps DEF Cpu
<1>3. CASE (\E m \in Messages : Vprintk(m)) \/ Barrier \/ Crash \/ Transmit
  BY <1>3, VprintkKeeps, BarrierKeeps, CrashKeeps, TransmitKeeps
<1>4. QED
  BY <1>1, <1>2, <1>3 DEF Next

\* The invariant of ring, channel and contexts.
THEOREM Inductive ==
  ASSUME ThreadCrashes
  PROVE  Spec => []IInv
<1>1. IInv /\ [Next]_vars => IInv'
  BY NextInv
<1>2. QED
  BY InitInv, <1>1, PTL DEF Spec

\* A character counts as consumed when it is on the wire and not before, at every
\* store of kick_tx(), of the completion handler and of the crash path.
THEOREM ConsIsAlwaysExact ==
  ASSUME ThreadCrashes
  PROVE  Spec => []ConsExact
<1>1. IInv => ConsExact
  BY DEF IInv
<1>2. QED
  BY <1>1, Inductive, PTL

-----------------------------------------------------------------------------
(***************************************************************************)
(* Console implements the safety part of ConsoleFifo, for every ring size  *)
(* and set of messages: each step is a step of the FIFO or leaves it       *)
(* alone.  A message with a line feed finds room and the thread is what    *)
(* crashes; without either TLC finds the FIFO broken.                      *)
(***************************************************************************)
RoomForLf == /\ LfNeedsRoom
             /\ Lfs(DumpMessage) # {} =>
                  Len(DumpMessage) + Cardinality(Lfs(DumpMessage)) <= Size - 1

(***************************************************************************)
(* Ring positions are 32-bit counters modulo the ring size.                *)
(***************************************************************************)
\* x and y are the same place in the ring.
SamePlace(x, y) == \E k \in Int : y = x + Size * k

LEMMA SamePlaceMask ==
  ASSUME NEW x \in Int, NEW y \in Int, SamePlace(x, y)
  PROVE  MASK(x) = MASK(y)
<1>1. PICK k \in Int : y = x + Size * k
  BY DEF SamePlace
<1>2. Size \in Nat \ {0}
  BY SizeAssumption
<1>3. y % Size = x % Size
  BY <1>1, <1>2, SameRest, ZenonT(60)
<1>4. QED
  BY <1>3 DEF MASK

LEMMA SamePlacePlus ==
  ASSUME NEW x \in Int, NEW y \in Int, NEW z \in Int, SamePlace(x, y)
  PROVE  MASK(x + z) = MASK(y + z) /\ MASK(z - x) = MASK(z - y)
<1>1. PICK k \in Int : y = x + Size * k
  BY DEF SamePlace
<1>2. Size \in Int /\ Size * k \in Int /\ Size * (0 - k) = -(Size * k) /\ 0 - k \in Int
  BY SizeAssumption
<1>3. y + z = (x + z) + Size * k /\ z - y = (z - x) + Size * (0 - k)
  BY <1>1, <1>2
<1>4. SamePlace(x + z, y + z) /\ SamePlace(z - x, z - y)
  BY <1>1, <1>2, <1>3 DEF SamePlace
<1>5. x + z \in Int /\ y + z \in Int /\ z - x \in Int /\ z - y \in Int
  OBVIOUS
<1>6. QED
  BY <1>4, <1>5, SamePlaceMask

LEMMA MaskSamePlace ==
  ASSUME NEW x \in Int
  PROVE  SamePlace(MASK(x), x)
<1>1. x \div Size \in Int /\ x % Size \in 0 .. Size - 1 /\ x % Size = x - Size * (x \div Size)
  BY DivMod, SizeAssumption
<1>2. Size * (x \div Size) \in Int
  BY <1>1, SizeAssumption, Distribute
<1>3. x = MASK(x) + Size * (x \div Size)
  BY <1>1, <1>2 DEF MASK
<1>4. QED
  BY <1>1, <1>3 DEF SamePlace

LEMMA CtrSamePlace ==
  ASSUME NEW x \in Int
  PROVE  SamePlace(Ctr(x), x)
<1> DEFINE n == x \div CtrMod  m == CtrMod \div Size
<1>1. n \in Int /\ x % CtrMod \in 0 .. CtrMod - 1 /\ x % CtrMod = x - CtrMod * n
  BY DivMod, Sizes
<1>2. m \in Int /\ CtrMod % Size = CtrMod - Size * m
  BY DivMod, Sizes
<1> HIDE DEF n, m
<1>3. Size * m \in Int /\ Size \in Int /\ CtrMod = Size * m
  BY <1>2, SizeAssumption
<1>4. CtrMod * n = Size * (m * n) /\ m * n \in Int /\ Size * (m * n) \in Int
  BY <1>1, <1>2, <1>3
<1>5. x = Ctr(x) + Size * (m * n)
  BY <1>1, <1>4 DEF Ctr
<1>6. QED
  BY <1>4, <1>5 DEF SamePlace

LEMMA MaskOfMask ==
  ASSUME NEW x \in Int, NEW z \in Int
  PROVE  /\ MASK(MASK(x) + z) = MASK(x + z) /\ MASK(MASK(x) - z) = MASK(x - z)
         /\ MASK(Ctr(x) + z) = MASK(x + z) /\ MASK(Ctr(x)) = MASK(x)
<1>1. SamePlace(MASK(x), x) /\ SamePlace(Ctr(x), x)
  BY MaskSamePlace, CtrSamePlace
<1>2. MASK(x) \in Int /\ Ctr(x) \in Int /\ 0 - z \in Int
  BY MaskRange, CtrOf
<1>3. MASK(MASK(x) + (0 - z)) = MASK(x + (0 - z))
  BY <1>1, <1>2, SamePlacePlus, ZenonT(60)
<1>4. MASK(x) + (0 - z) = MASK(x) - z /\ x + (0 - z) = x - z
  BY <1>2
<1>5. /\ MASK(MASK(x) + z) = MASK(x + z)
      /\ MASK(Ctr(x) + z) = MASK(x + z)
  <2>1. ASSUME NEW y \in Int, SamePlace(y, x)
        PROVE  MASK(y + z) = MASK(x + z)
    BY <2>1, SamePlacePlus, ZenonT(60)
  <2>2. MASK(MASK(x) + z) = MASK(x + z)
    BY <1>1, <1>2, <2>1, ZenonT(60)
  <2>3. MASK(Ctr(x) + z) = MASK(x + z)
    BY <1>1, <1>2, <2>1, ZenonT(60)
  <2>4. QED
    BY <2>2, <2>3
<1>6. MASK(Ctr(x)) = MASK(x)
  BY <1>1, <1>2, SamePlaceMask, ZenonT(60)
<1>7. QED
  BY <1>3, <1>4, <1>5, <1>6

LEMMA MaskSmall ==
  /\ \A x \in 0 .. Size - 1 : MASK(x) = x
  /\ \A x \in -Size .. -1 : MASK(x) = x + Size
BY Sizes DEF MASK

(***************************************************************************)
(* How much of the ring is unsent, and where the channel is in it.         *)
(***************************************************************************)
Left == Ctr(prod - sent)

FifoInv ==
  /\ Left + InFlight <= Size - 1
  /\ cndtr <= Left
  /\ pc = "load" => dma_sz <= Left
  /\ cndtr > 0 => src = MASK(sent)
  /\ pc = "stage" => Fits(rest)

UsedFacts ==
  /\ Left \in 0 .. Size - 1 /\ InFlight \in 0 .. Size - 1
  /\ Used = Left + InFlight
  /\ prod = Ctr(sent + Left)

LEMMA UsedIs == IInv /\ Left + InFlight <= Size - 1 => UsedFacts
<1> SUFFICES ASSUME IInv, Left + InFlight <= Size - 1 PROVE UsedFacts
  OBVIOUS
<1>1. /\ cons \in 0 .. CtrMod - 1 /\ prod \in 0 .. CtrMod - 1 /\ sent \in 0 .. CtrMod - 1
      /\ dma_sz \in 0 .. Size /\ cndtr \in 0 .. dma_sz
  BY DEF IInv, TypeOK
<1>2. InFlight \in 0 .. Size /\ sent = Ctr(cons + InFlight)
  BY <1>1, Sizes DEF IInv, ConsExact, InFlight
<1>3. Left \in 0 .. CtrMod - 1
  BY <1>1, CtrOf DEF Left
<1>4. Left \in 0 .. Size - 1 /\ InFlight \in 0 .. Size - 1
  BY <1>2, <1>3, Sizes
<1>5. sent = cons + InFlight \/ sent = cons + InFlight - CtrMod
  BY <1>1, <1>2, CtrOf, Sizes
<1>6. Left = prod - sent \/ Left = prod - sent + CtrMod
  BY <1>1, CtrOf, Sizes DEF Left
<1>7. prod - cons \in -CtrMod .. CtrMod - 1
  BY <1>1, Sizes
<1>8. Used = prod - cons \/ Used = prod - cons + CtrMod
  BY <1>7, CtrOf, Sizes DEF Used
<1>9. Used \in 0 .. CtrMod - 1
  BY <1>1, CtrOf DEF Used
<1>10. Used = Left + InFlight
  BY <1>1, <1>4, <1>5, <1>6, <1>8, <1>9, Sizes
<1>11. prod = Ctr(sent + Left)
  <2>1. CASE Left = prod - sent
    BY <1>1, <2>1, CtrOf
  <2>2. CASE Left = prod - sent + CtrMod
    BY <1>1, <2>2, CtrOf, Sizes
  <2>3. QED
    BY <1>6, <2>1, <2>2
<1>12. QED
  BY <1>4, <1>10, <1>11 DEF UsedFacts

UnsentFacts ==
  /\ Unsent \in Seq(Chars) /\ Len(Unsent) = Left
  /\ \A i \in 1 .. Left : Unsent[i] = ring[MASK(sent + i - 1)]

LEMMA UnsentIs == IInv /\ Left + InFlight <= Size - 1 => UnsentFacts
<1> SUFFICES ASSUME IInv, Left + InFlight <= Size - 1 PROVE UnsentFacts
  OBVIOUS
<1>1. Left \in 0 .. Size - 1
  BY UsedIs DEF UsedFacts
<1>2. \A i \in 1 .. Left : MASK(sent + i - 1) \in 0 .. Size - 1
  <2>1. \A i \in 1 .. Left : sent + i - 1 \in Int
    BY <1>1 DEF IInv, TypeOK
  <2>2. QED
    BY <2>1, MaskRange
<1>3. \A i \in 1 .. Left : ring[MASK(sent + i - 1)] \in Chars
  BY <1>2 DEF IInv, TypeOK
<1>4. Unsent = [i \in 1 .. Left |-> ring[MASK(sent + i - 1)]]
  BY DEF Unsent, Left
<1> HIDE DEF Left
<1>5. QED
  BY <1>1, <1>3, <1>4 DEF UnsentFacts

\* The same after a step.
LEMMA FactsNext == (IInv /\ Left + InFlight <= Size - 1)' => UsedFacts' /\ UnsentFacts'
BY UsedIs, UnsentIs, PTL

\* What a step of the console is to the FIFO.
FifoStep == Fifo!Next \/ UNCHANGED <<Unsent, wire>>

LEMMA LeftDrops ==
  ASSUME IInv, Left \in 1 .. Size - 1, prod' = prod, sent' = Ctr(sent + 1)
  PROVE  Left' = Left - 1
<1>1. sent \in 0 .. CtrMod - 1 /\ prod \in 0 .. CtrMod - 1
  BY DEF IInv, TypeOK
<1>2. sent' = (IF sent = CtrMod - 1 THEN 0 ELSE sent + 1)
  BY <1>1, CtrOf, Sizes
<1>3. Left = prod - sent \/ Left = prod - sent + CtrMod
  BY <1>1, CtrOf, Sizes DEF Left
<1>4. Left' = Ctr(prod - sent') /\ sent' \in 0 .. CtrMod - 1 /\ prod - sent' \in -CtrMod .. CtrMod - 1
  BY <1>1, <1>2, Sizes DEF Left
<1>5. Left' \in 0 .. CtrMod - 1 /\ (Left' = prod - sent' \/ Left' = prod - sent' + CtrMod)
  BY <1>4, CtrOf, Sizes
<1>6. QED
  BY <1>1, <1>2, <1>3, <1>5, Sizes

LEMMA LeftGrows ==
  ASSUME IInv, NEW n \in 1 .. 2, Left \in 0 .. Size - 1 - n,
         prod' = Ctr(prod + n), sent' = sent
  PROVE  Left' = Left + n
<1>1. sent \in 0 .. CtrMod - 1 /\ prod \in 0 .. CtrMod - 1
  BY DEF IInv, TypeOK
<1>2. prod' = (IF prod + n < CtrMod THEN prod + n ELSE prod + n - CtrMod)
  BY <1>1, CtrOf, Sizes
<1>3. Left = prod - sent \/ Left = prod - sent + CtrMod
  BY <1>1, CtrOf, Sizes DEF Left
<1>4. Left' = Ctr(prod' - sent) /\ prod' - sent \in -CtrMod .. CtrMod - 1
  BY <1>1, <1>2, Sizes DEF Left
<1>5. Left' \in 0 .. CtrMod - 1 /\ (Left' = prod' - sent \/ Left' = prod' - sent + CtrMod)
  BY <1>4, CtrOf, Sizes
<1>6. QED
  BY <1>1, <1>2, <1>3, <1>5, Sizes

\* The next character goes out: the FIFO emits.
LEMMA Emits ==
  ASSUME IInv, Left + InFlight <= Size - 1, Left > 0,
         IInv', (Left + InFlight <= Size - 1)',
         ring' = ring, prod' = prod, sent' = Ctr(sent + 1), wire' = ring[MASK(sent)]
  PROVE  Fifo!Next
<1>1. /\ Left \in 1 .. Size - 1 /\ sent \in 0 .. CtrMod - 1 /\ prod \in 0 .. CtrMod - 1
  <2>1. Left \in 0 .. Size - 1
    BY UsedIs DEF UsedFacts
  <2>2. QED
    BY <2>1 DEF IInv, TypeOK
<1>2. Left' = Left - 1
  BY <1>1, LeftDrops
<1>3. Unsent' \in Seq(Chars) /\ Len(Unsent') = Left - 1
  BY <1>2, FactsNext DEF UnsentFacts
<1>4. /\ Unsent \in Seq(Chars) /\ Len(Unsent) = Left
      /\ \A i \in 1 .. Left : Unsent[i] = ring[MASK(sent + i - 1)]
  BY UnsentIs DEF UnsentFacts
<1>5. Head(Unsent) = ring[MASK(sent)]
  BY <1>1, <1>4
<1>6. \A i \in 1 .. Left - 1 : Unsent'[i] = Unsent[i + 1]
  <2> SUFFICES ASSUME NEW i \in 1 .. Left - 1
               PROVE  Unsent'[i] = Unsent[i + 1]
    OBVIOUS
  <2>1. i \in 1 .. Left' /\ i + 1 \in 1 .. Left /\ i \in Int
    BY <1>1, <1>2
  <2>2. Unsent'[i] = ring'[MASK(sent' + i - 1)]
    BY <2>1, FactsNext DEF UnsentFacts
  <2>3. sent' + i - 1 = Ctr(sent + 1) + (i - 1) /\ (sent + 1) + (i - 1) = sent + (i + 1) - 1
    BY <1>1, <2>1, CtrOf
  <2>4. MASK(Ctr(sent + 1) + (i - 1)) = MASK((sent + 1) + (i - 1))
    BY <1>1, <2>1, MaskOfMask
  <2>5. QED
    BY <1>4, <2>1, <2>2, <2>3, <2>4
<1>7. Unsent' = Tail(Unsent)
  <2>1. Tail(Unsent) \in Seq(Chars) /\ Len(Tail(Unsent)) = Left - 1
    BY <1>1, <1>4
  <2>2. \A i \in 1 .. Left - 1 : Tail(Unsent)[i] = Unsent[i + 1]
    BY <1>1, <1>4
  <2>3. QED
    BY <1>3, <1>6, <2>1, <2>2
<1>8. Unsent # <<>>
  BY <1>1, <1>4
<1>9. Fifo!Emit
  BY <1>5, <1>7, <1>8 DEF Fifo!Emit
<1>10. QED
  BY <1>9 DEF Fifo!Next

LEMMA Concatenated ==
  \A a, b, c \in Seq(Chars) :
    /\ Len(c) = Len(a) + Len(b)
    /\ \A i \in 1 .. Len(a) : c[i] = a[i]
    /\ \A k \in 1 .. Len(b) : c[Len(a) + k] = b[k]
    => c = a \o b
<1> SUFFICES ASSUME NEW a \in Seq(Chars), NEW b \in Seq(Chars), NEW c \in Seq(Chars),
                    Len(c) = Len(a) + Len(b),
                    \A i \in 1 .. Len(a) : c[i] = a[i],
                    \A k \in 1 .. Len(b) : c[Len(a) + k] = b[k]
             PROVE  c = a \o b
  OBVIOUS
<1>1. /\ a \o b \in Seq(Chars) /\ Len(a \o b) = Len(a) + Len(b)
      /\ \A i \in 1 .. Len(a) : (a \o b)[i] = a[i]
      /\ \A k \in 1 .. Len(b) : (a \o b)[Len(a) + k] = b[k]
  OBVIOUS
<1>2. \A i \in 1 .. Len(c) : c[i] = (a \o b)[i]
  <2> SUFFICES ASSUME NEW i \in 1 .. Len(c)
               PROVE  c[i] = (a \o b)[i]
    OBVIOUS
  <2>1. CASE i \in 1 .. Len(a)
    BY <1>1, <2>1, ZenonT(60)
  <2>2. CASE i > Len(a)
    <3>1. i - Len(a) \in 1 .. Len(b) /\ Len(a) + (i - Len(a)) = i
      BY <2>2
    <3>2. QED
      BY <1>1, <3>1, ZenonT(60)
  <2>3. i \in 1 .. Len(a) \/ i > Len(a)
    OBVIOUS
  <2>4. QED
    BY <2>1, <2>2, <2>3, ZenonT(60)
<1>3. QED
  BY <1>1, <1>2

\* One or two characters are staged: the FIFO accepts them.
LEMMA Accepts ==
  ASSUME IInv, Left + InFlight <= Size - 1, IInv', (Left + InFlight <= Size - 1)',
         NEW s \in Seq(Chars), Len(s) \in 1 .. 2, Left + Len(s) <= Size - 1,
         ring' = [i \in DOMAIN ring |->
                    IF MASK(i - prod) < Len(s) THEN s[MASK(i - prod) + 1] ELSE ring[i]],
         prod' = Ctr(prod + Len(s)), sent' = sent, wire' = wire
  PROVE  Fifo!Next
<1> DEFINE n == Len(s)
<1>1. /\ Left \in 0 .. Size - 1 - n /\ n \in 1 .. 2 /\ sent \in 0 .. CtrMod - 1
      /\ prod \in 0 .. CtrMod - 1 /\ DOMAIN ring = 0 .. Size - 1
  <2>1. Left \in 0 .. Size - 1
    BY UsedIs DEF UsedFacts
  <2>2. QED
    BY <2>1, Sizes DEF IInv, TypeOK
<1>2. Left' = Left + n
  BY <1>1, LeftGrows
<1>3. /\ Unsent \in Seq(Chars) /\ Len(Unsent) = Left
      /\ \A i \in 1 .. Left : Unsent[i] = ring[MASK(sent + i - 1)]
  BY UnsentIs DEF UnsentFacts
<1>4. /\ Unsent' \in Seq(Chars) /\ Len(Unsent') = Left + n
      /\ \A i \in 1 .. Left + n : Unsent'[i] = ring'[MASK(sent + i - 1)]
  BY <1>2, FactsNext DEF UnsentFacts
<1>n. n = Len(s)
  OBVIOUS
<1> HIDE DEF n
<1>5. \A i \in 1 .. Left + n :
        MASK(sent + i - 1) \in 0 .. Size - 1 /\ MASK(MASK(sent + i - 1) - prod) = MASK(i - 1 - Left)
  <2> SUFFICES ASSUME NEW i \in 1 .. Left + n
               PROVE  /\ MASK(sent + i - 1) \in 0 .. Size - 1
                      /\ MASK(MASK(sent + i - 1) - prod) = MASK(i - 1 - Left)
    OBVIOUS
  <2>1. /\ sent + i - 1 \in Int /\ sent + Left \in Int /\ prod \in Int /\ i \in Int
        /\ (sent + i - 1) - (sent + Left) = i - 1 - Left
    BY <1>1
  <2>2. SamePlace(prod, sent + Left)
    BY <2>1, CtrSamePlace, UsedIs DEF UsedFacts
  <2>3. MASK((sent + i - 1) - prod) = MASK((sent + i - 1) - (sent + Left))
    BY <2>1, <2>2, SamePlacePlus
  <2>4. MASK(MASK(sent + i - 1) - prod) = MASK((sent + i - 1) - prod)
    BY <2>1, MaskOfMask
  <2>5. QED
    BY <2>1, <2>3, <2>4, MaskRange
<1>a. \A j \in 0 .. Size - 1 :
        ring'[j] = IF MASK(j - prod) < n THEN s[MASK(j - prod) + 1] ELSE ring[j]
  BY <1>1, <1>n
<1>6. \A i \in 1 .. Left : Unsent'[i] = Unsent[i]
  <2> SUFFICES ASSUME NEW i \in 1 .. Left
               PROVE  Unsent'[i] = Unsent[i]
    OBVIOUS
  <2>1. i - 1 - Left \in -Size .. -1 /\ i - 1 - Left + Size >= n /\ i \in 1 .. Left + n
    BY <1>1, Sizes
  <2>2. MASK(i - 1 - Left) = i - 1 - Left + Size
    BY <2>1, MaskSmall
  <2> DEFINE j == MASK(sent + i - 1)
  <2>3. j \in 0 .. Size - 1 /\ MASK(j - prod) = i - 1 - Left + Size
    BY <1>5, <2>1, <2>2
  <2> HIDE DEF j
  <2>4. ~(MASK(j - prod) < n)
    BY <1>1, <2>1, <2>3, Sizes
  <2>5. ring'[j] = ring[j]
    BY <1>a, <2>3, <2>4
  <2>6. QED
    BY <1>3, <1>4, <2>1, <2>5 DEF j
<1>7. \A k \in 1 .. n : Unsent'[Left + k] = s[k]
  <2> SUFFICES ASSUME NEW k \in 1 .. n
               PROVE  Unsent'[Left + k] = s[k]
    OBVIOUS
  <2>1. Left + k \in 1 .. Left + n /\ k - 1 \in 0 .. Size - 1 /\ (Left + k) - 1 - Left = k - 1
    BY <1>1, Sizes
  <2>2. MASK((Left + k) - 1 - Left) = k - 1
    BY <2>1, MaskSmall
  <2> DEFINE j == MASK(sent + (Left + k) - 1)
  <2>3. j \in 0 .. Size - 1 /\ MASK(j - prod) = k - 1
    BY <1>5, <2>1, <2>2
  <2> HIDE DEF j
  <2>4. MASK(j - prod) < n /\ MASK(j - prod) + 1 = k
    BY <1>1, <2>1, <2>3
  <2>5. ring'[j] = s[k]
    BY <1>a, <2>3, <2>4
  <2>6. QED
    BY <1>4, <2>1, <2>5 DEF j
<1>8. Unsent' = Unsent \o s
  <2>1. \A i \in 1 .. Len(Unsent) : Unsent'[i] = Unsent[i]
    BY <1>3, <1>6
  <2>2. \A k \in 1 .. Len(s) : Unsent'[Len(Unsent) + k] = s[k]
    BY <1>3, <1>7, <1>n
  <2>3. Len(Unsent') = Len(Unsent) + Len(s)
    BY <1>3, <1>4, <1>n
  <2>4. Unsent \in Seq(Chars) /\ Unsent' \in Seq(Chars)
    BY <1>3, <1>4
  <2>5. QED
    BY <2>1, <2>2, <2>3, <2>4, Concatenated
<1>9. s \in UNION {[1 .. m -> Chars] : m \in {1, 2}}
  <2>1. s \in [1 .. n -> Chars] /\ n \in {1, 2}
    BY <1>1, <1>n
  <2>2. QED
    BY <2>1
<1>10. Len(Unsent) + Len(s) <= Size - 1
  BY <1>1, <1>3, <1>n
<1>11. Fifo!Accept
  BY <1>8, <1>9, <1>10 DEF Fifo!Accept
<1>12. QED
  BY <1>11 DEF Fifo!Next

(***************************************************************************)
(* Room for the line feeds of a message.                                   *)
(***************************************************************************)
LEMMA LfsFinite ==
  ASSUME NEW m \in Seq(Chars)
  PROVE  IsFiniteSet(Lfs(m)) /\ Cardinality(Lfs(m)) \in Nat
<1>1. Len(m) \in Int /\ Lfs(m) \in SUBSET (1 .. Len(m))
  BY DEF Lfs
<1>2. IsFiniteSet(1 .. Len(m))
  BY <1>1, FS_Interval
<1>3. IsFiniteSet(Lfs(m))
  BY <1>1, <1>2, FS_Subset
<1>4. QED
  BY <1>3, FS_CardinalityType

LEMMA LfsTail ==
  ASSUME NEW m \in Seq(Chars), m # <<>>
  PROVE  /\ Head(m) = LF <=> 1 \in Lfs(m)
         /\ Lfs(Tail(m)) # {} => Lfs(m) # {}
         /\ Cardinality(Lfs(Tail(m))) <= Cardinality(Lfs(m) \ {1})
<1> DEFINE A == Lfs(Tail(m))  B == Lfs(m) \ {1}  f == [i \in A |-> i + 1]
<1>1. /\ Len(m) \in Nat \ {0} /\ Tail(m) \in Seq(Chars) /\ Len(Tail(m)) = Len(m) - 1
      /\ \A i \in 1 .. Len(m) - 1 : Tail(m)[i] = m[i + 1]
      /\ Head(m) = m[1]
  OBVIOUS
<1>2. \A i \in A : i \in 1 .. Len(m) - 1 /\ i + 1 \in B
  <2> SUFFICES ASSUME NEW i \in A
               PROVE  i \in 1 .. Len(m) - 1 /\ i + 1 \in B
    OBVIOUS
  <2>1. i \in 1 .. Len(m) - 1 /\ Tail(m)[i] = LF
    BY <1>1 DEF Lfs
  <2>2. i + 1 \in 1 .. Len(m) /\ i + 1 # 1 /\ m[i + 1] = LF
    BY <1>1, <2>1
  <2>3. QED
    BY <2>1, <2>2 DEF Lfs
<1>3. f \in Injection(A, B)
  <2>1. f \in [A -> B]
    BY <1>2
  <2>2. \A i, j \in A : i + 1 = j + 1 => i = j
    BY <1>2
  <2>3. \A i, j \in A : f[i] = f[j] => i = j
    BY <2>2
  <2> HIDE DEF f
  <2>4. QED
    BY <2>1, <2>3 DEF Injection, IsInjective
<1>4. IsFiniteSet(B)
  BY LfsFinite, FS_RemoveElement
<1> HIDE DEF f
<1>5. Cardinality(A) <= Cardinality(B)
  BY <1>3, <1>4, FS_Injection
<1>6. Head(m) = LF <=> 1 \in Lfs(m)
  BY <1>1 DEF Lfs
<1>7. A # {} => Lfs(m) # {}
  BY <1>2
<1>8. QED
  BY <1>5, <1>6, <1>7

\* What is left of a message after its head is staged needs no more room.
LEMMA RoomTail ==
  ASSUME NEW m \in Seq(Chars), m # <<>>
  PROVE  /\ Len(Staged(Head(m))) \in 0 .. 2
         /\ Len(Staged(Head(m))) = 2 => Lfs(m) # {} /\ Len(m) + Cardinality(Lfs(m)) >= 2
         /\ Lfs(Tail(m)) # {} => Lfs(m) # {}
         /\ Len(Staged(Head(m))) + Len(Tail(m)) + Cardinality(Lfs(Tail(m)))
              <= Len(m) + Cardinality(Lfs(m))
<1> DEFINE n == Len(Staged(Head(m)))  a == Cardinality(Lfs(Tail(m)))
           b == Cardinality(Lfs(m) \ {1})  c == Cardinality(Lfs(m))
<1>1. Tail(m) \in Seq(Chars) /\ Len(Tail(m)) = Len(m) - 1 /\ Len(m) \in Nat \ {0}
  OBVIOUS
<1>2. a \in Nat /\ c \in Nat /\ IsFiniteSet(Lfs(m))
  BY <1>1, LfsFinite
<1>3. b = IF 1 \in Lfs(m) THEN c - 1 ELSE c
  BY <1>2, FS_RemoveElement
<1>4. /\ a <= b /\ (Head(m) = LF <=> 1 \in Lfs(m)) /\ (Lfs(Tail(m)) # {} => Lfs(m) # {})
  BY LfsTail
<1>5. n = IF Head(m) = CR THEN 0 ELSE IF Head(m) = LF THEN 2 ELSE 1
  BY DEF Staged, CR, LF
<1>6. Lfs(m) # {} => c >= 1
  BY <1>2, FS_EmptySet
<1> HIDE DEF n, a, b, c
<1>7. n \in 0 .. 2 /\ (n = 2 => Lfs(m) # {} /\ Len(m) + c >= 2)
  BY <1>1, <1>2, <1>4, <1>5, <1>6
<1>8. n + Len(Tail(m)) + a <= Len(m) + c
  BY <1>1, <1>2, <1>3, <1>4, <1>5 DEF CR, LF
<1>9. QED
  BY <1>4, <1>7, <1>8 DEF n, a, c

(***************************************************************************)
(* The steps.                                                              *)
(***************************************************************************)
FIInv == IInv /\ FifoInv

\* A step that leaves text, prod, and what is sent alone is none of the FIFO.
LEMMA QuietStep ==
  ASSUME UNCHANGED <<ring, prod, sent, wire>>
  PROVE  FifoStep /\ Left' = Left /\ Unsent' = Unsent
BY DEF FifoStep, Left, Unsent

\* Room for a message counted from what is in the ring.
LEMMA FitsIs ==
  FIInv => UsedFacts /\ (pc = "stage" /\ Lfs(rest) # {} =>
             Left + InFlight + Len(rest) + Cardinality(Lfs(rest)) <= Size - 1)
BY UsedIs DEF FIInv, FifoInv, Fits, UsedFacts

LEMMA VprintkFifo ==
  ASSUME FIInv, RoomForLf, NEW m \in Messages, Vprintk(m)
  PROVE  FifoInv' /\ FifoStep
<1>1. FifoStep /\ Left' = Left
  BY QuietStep DEF Vprintk, out
<1>2. pc = "idle" /\ pc' = "stage" /\ rest' = m /\ Fits(m)
      /\ UNCHANGED <<cons, prod, cndtr, dma_sz, src, sent>>
  BY DEF Vprintk, RoomForLf, tx, out
<1>3. InFlight' = InFlight
  BY <1>2 DEF InFlight
<1>4. Fits(rest)'
  BY <1>2 DEF Fits, Used
<1>5. QED
  BY <1>1, <1>2, <1>3, <1>4 DEF FIInv, FifoInv

LEMMA DumpFifo ==
  ASSUME FIInv, RoomForLf, Dump
  PROVE  FifoInv' /\ FifoStep
<1>1. FifoStep /\ Left' = Left
  BY QuietStep DEF Dump, out
<1>2. pc = "dump" /\ pc' = "stage" /\ rest' = DumpMessage
      /\ UNCHANGED <<cons, prod, cndtr, dma_sz, src, sent>>
  BY DEF Dump, tx, out
<1>3. InFlight' = InFlight
  BY <1>2 DEF InFlight
<1>4. Used = 0
  <2>1. cons = prod /\ cons \in 0 .. CtrMod - 1
    BY <1>2 DEF FIInv, IInv, CtxInv, TypeOK
  <2>2. QED
    BY <2>1, CtrOf, Sizes DEF Used
<1>5. Fits(rest)'
  <2>1. Used' = 0 /\ Len(DumpMessage) \in Nat /\ Cardinality(Lfs(DumpMessage)) \in Nat
    BY <1>2, <1>4, MessageAssumption, LfsFinite DEF Used
  <2>2. QED
    BY <1>2, <2>1 DEF Fits, RoomForLf
<1>6. QED
  BY <1>1, <1>2, <1>3, <1>5 DEF FIInv, FifoInv

LEMMA StageFifo ==
  ASSUME FIInv, IInv', Stage
  PROVE  FifoInv' /\ FifoStep
<1> DEFINE s == Staged(Head(rest))
<1>1. /\ rest \in Seq(Chars) /\ rest # <<>> /\ rest' = Tail(rest)
      /\ Tail(rest) \in Seq(Chars) /\ s \in Seq(Chars) /\ Used # Size - 1
      /\ pc = "stage" /\ pc' = "stage" /\ cndtr' = cndtr /\ dma_sz' = dma_sz /\ src' = src
      /\ sent' = sent /\ wire' = wire
      /\ ring' = [i \in DOMAIN ring |->
                    IF MASK(i - prod) < Len(s) THEN s[MASK(i - prod) + 1] ELSE ring[i]]
      /\ prod' = Ctr(prod + Len(s))
  BY StagedRing DEF Stage, Full, tx, out, FIInv, IInv, TypeOK
<1>2. /\ Len(s) \in 0 .. 2
      /\ Len(s) = 2 => Lfs(rest) # {} /\ Len(rest) + Cardinality(Lfs(rest)) >= 2
      /\ Lfs(Tail(rest)) # {} => Lfs(rest) # {}
      /\ Len(s) + Len(Tail(rest)) + Cardinality(Lfs(Tail(rest)))
           <= Len(rest) + Cardinality(Lfs(rest))
      /\ Len(rest) \in Nat /\ Cardinality(Lfs(rest)) \in Nat
      /\ Len(Tail(rest)) \in Nat /\ Cardinality(Lfs(Tail(rest))) \in Nat
  <2>1. /\ Len(rest) \in Nat /\ Cardinality(Lfs(rest)) \in Nat
        /\ Len(Tail(rest)) \in Nat /\ Cardinality(Lfs(Tail(rest))) \in Nat
    <3>1. \A m \in Seq(Chars) : Len(m) \in Nat /\ Cardinality(Lfs(m)) \in Nat
      BY LfsFinite
    <3>2. QED
      BY <1>1, <3>1, ZenonT(60)
  <2>2. QED
    BY <1>1, <2>1, RoomTail, ZenonT(60)
<1>3. /\ Left \in 0 .. Size - 1 /\ InFlight \in 0 .. Size - 1 /\ Used = Left + InFlight
      /\ Left + InFlight <= Size - 1
      /\ Lfs(rest) # {} =>
           Left + InFlight + Len(rest) + Cardinality(Lfs(rest)) <= Size - 1
  BY <1>1, FitsIs DEF UsedFacts, FIInv, FifoInv
<1> HIDE DEF s
<1> DEFINE n == Len(s)  l == Len(rest)  c == Cardinality(Lfs(rest))
           t == Len(Tail(rest))  d == Cardinality(Lfs(Tail(rest)))
<1>a. /\ n \in 0 .. 2 /\ l \in Nat /\ c \in Nat /\ t \in Nat /\ d \in Nat
      /\ n = 2 => Lfs(rest) # {} /\ l + c >= 2
      /\ n + t + d <= l + c
      /\ Lfs(rest) # {} => Left + InFlight + l + c <= Size - 1
      /\ Left + InFlight # Size - 1
  BY <1>1, <1>2, <1>3, ZenonT(60)
<1> HIDE DEF n, l, c, t, d
<1>b. Left + n + InFlight <= Size - 1 /\ Left + n <= Size - 1 /\ Left \in 0 .. Size - 1 - n
  <2>1. CASE n = 2
    BY <1>3, <1>a, <2>1, Sizes
  <2>2. CASE n # 2
    BY <1>3, <1>a, <2>2, Sizes
  <2>3. QED
    BY <2>1, <2>2
<1>c. Lfs(rest) # {} => Left + n + InFlight + t + d <= Size - 1
  BY <1>3, <1>a, Sizes
<1>4. /\ Left + Len(s) + InFlight <= Size - 1 /\ Left + Len(s) <= Size - 1 /\ Len(s) \in 0 .. 2
      /\ Left \in 0 .. Size - 1 - Len(s)
      /\ Lfs(rest) # {} =>
           Left + Len(s) + InFlight + Len(Tail(rest)) + Cardinality(Lfs(Tail(rest))) <= Size - 1
  BY <1>a, <1>b, <1>c DEF n, t, d
<1>5. InFlight' = InFlight
  BY <1>1 DEF InFlight
<1>6. Left' = Left + Len(s)
  <2>1. CASE Len(s) = 0
    <3>1. prod' = prod
      BY <1>1, <2>1, CtrOf DEF FIInv, IInv, TypeOK
    <3>2. QED
      BY <1>1, <1>3, <2>1, <3>1 DEF Left
  <2>2. CASE Len(s) \in 1 .. 2
    BY <1>1, <1>4, <2>2, LeftGrows DEF FIInv
  <2>3. QED
    BY <1>2, <2>1, <2>2
<1>7. (Left + InFlight <= Size - 1)'
  BY <1>4, <1>5, <1>6
<1>8. Fits(rest)'
  <2>1. Used' = Left + Len(s) + InFlight
    BY <1>5, <1>6, <1>7, FactsNext DEF UsedFacts
  <2>2. Lfs(Tail(rest)) # {} =>
          Used' + Len(Tail(rest)) + Cardinality(Lfs(Tail(rest))) <= Size - 1
    BY <1>2, <1>4, <2>1
  <2>3. QED
    BY <1>1, <2>2 DEF Fits
<1>9. FifoInv'
  <2>1. cndtr \in Nat /\ cndtr <= Left /\ (cndtr > 0 => src = MASK(sent))
    BY DEF FIInv, IInv, TypeOK, FifoInv
  <2>2. (cndtr <= Left)'
    BY <1>1, <1>2, <1>3, <1>6, <2>1
  <2>3. (cndtr > 0 => src = MASK(sent))'
    BY <1>1, <2>1
  <2>4. QED
    BY <1>1, <1>7, <1>8, <2>2, <2>3 DEF FifoInv
<1>10. FifoStep
  <2>1. CASE Len(s) = 0
    <3>1. prod' = prod /\ ring' = ring
      <4>1. prod' = prod
        BY <1>1, <2>1, CtrOf DEF FIInv, IInv, TypeOK
      <4>2. \A i \in 0 .. Size - 1 : ~(MASK(i - prod) < Len(s))
        <5>1. \A i \in 0 .. Size - 1 : MASK(i - prod) \in 0 .. Size - 1
          <6>1. \A i \in 0 .. Size - 1 : i - prod \in Int
            BY Sizes DEF FIInv, IInv, TypeOK
          <6>2. QED
            BY <6>1, MaskRange
        <5>2. QED
          BY <2>1, <5>1, Sizes
      <4>3. ring' = ring
        BY <1>1, <4>2 DEF FIInv, IInv, TypeOK
      <4>4. QED
        BY <4>1, <4>3
    <3>2. QED
      BY <1>1, <3>1, QuietStep
  <2>2. CASE Len(s) \in 1 .. 2
    BY <1>1, <1>3, <1>4, <1>7, <2>2, Accepts DEF FIInv, FifoStep
  <2>3. QED
    BY <1>2, <2>1, <2>2
<1>11. QED
  BY <1>9, <1>10

LEMMA TransmitFifo ==
  ASSUME FIInv, IInv', Transmit
  PROVE  FifoInv' /\ FifoStep
<1>1. /\ cndtr > 0 /\ cndtr' = cndtr - 1 /\ src' = src + 1 /\ src = MASK(sent)
      /\ wire' = ring[MASK(sent)] /\ sent' = Ctr(sent + 1)
      /\ UNCHANGED <<ring, prod, cons, dma_sz, pc, rest>>
  BY DEF Transmit, FIInv, FifoInv
<1>2. /\ cndtr \in Nat /\ dma_sz \in Nat /\ cndtr <= dma_sz /\ sent \in Int
      /\ pc \notin {"load", "zero"} /\ src + cndtr <= Size
  BY <1>1, Sizes DEF FIInv, IInv, TypeOK, DmaInv
<1>3. Left \in 0 .. Size - 1 /\ cndtr <= Left /\ Left + InFlight <= Size - 1
  BY FitsIs DEF FIInv, FifoInv, UsedFacts
<1>4. Left' = Left - 1
  BY <1>1, <1>2, <1>3, LeftDrops DEF FIInv
<1>5. InFlight = dma_sz - cndtr /\ InFlight' = dma_sz - cndtr + 1
  BY <1>1, <1>2 DEF InFlight
<1>6. (Left + InFlight <= Size - 1)'
  BY <1>2, <1>3, <1>4, <1>5
<1>7. (cndtr <= Left)'
  BY <1>1, <1>2, <1>3, <1>4
<1>8. (cndtr > 0 => src = MASK(sent))'
  <2> SUFFICES ASSUME cndtr' > 0
               PROVE  src' = MASK(sent')
    OBVIOUS
  <2>1. src + 1 \in 0 .. Size - 1
    <3>1. src \in 0 .. Size - 1 /\ cndtr > 1
      BY <1>1, <1>2, MaskRange
    <3>2. QED
      BY <1>2, <3>1, Sizes
  <2>2. MASK(src + 1) = src + 1
    BY <2>1, MaskSmall
  <2>3. MASK(MASK(sent) + 1) = MASK(sent + 1) /\ MASK(Ctr(sent + 1)) = MASK(sent + 1)
    <3>1. sent + 1 \in Int /\ 1 \in Int
      BY <1>2
    <3>2. QED
      BY <1>2, <3>1, MaskOfMask, ZenonT(60)
  <2>4. QED
    BY <1>1, <2>2, <2>3
<1>9. (pc = "stage" => Fits(rest))' /\ (pc = "load" => dma_sz <= Left)'
  BY <1>1, <1>2 DEF FIInv, FifoInv, Fits, Used
<1>10. FifoInv'
  BY <1>6, <1>7, <1>8, <1>9 DEF FifoInv
<1>11. Fifo!Next
  <2>1. Left > 0
    BY <1>1, <1>2, <1>3
  <2>2. QED
    BY <1>1, <1>3, <1>6, <2>1, Emits DEF FIInv
<1>12. QED
  BY <1>10, <1>11 DEF FifoStep

LEMMA KickPollFifo ==
  ASSUME FIInv, IInv', KickPoll
  PROVE  FifoInv' /\ FifoStep
<1>1. /\ wire' = ring[MASK(cons)] /\ sent' = Ctr(sent + 1) /\ cons # prod /\ pc = "kick"
      /\ UNCHANGED <<ring, prod, dma_sz, cndtr, src, pc, rest>>
  BY DEF KickPoll, tx
<1>2. dma_sz = 0 /\ cndtr = 0 /\ InFlight = 0 /\ InFlight' = 0
  BY <1>1 DEF KickPoll, FIInv, IInv, CtxInv, TypeOK, InFlight
<1>3. cons = sent
  BY <1>2, CtrOf, Sizes DEF FIInv, IInv, TypeOK, ConsExact
<1>4. Left \in 0 .. Size - 1 /\ Left + InFlight <= Size - 1 /\ prod = Ctr(sent + Left)
  BY FitsIs DEF FIInv, FifoInv, UsedFacts
<1>5. Left > 0
  <2>1. sent \in 0 .. CtrMod - 1 /\ prod # sent
    BY <1>1, <1>3 DEF FIInv, IInv, TypeOK
  <2>2. Left = 0 => prod = sent
    <3>1. Left = 0 => prod = Ctr(sent + 0)
      BY <1>4
    <3>2. Ctr(sent + 0) = sent
      BY <2>1, CtrOf
    <3>3. QED
      BY <3>1, <3>2
  <2>3. QED
    BY <1>4, <2>1, <2>2
<1>6. Left' = Left - 1
  BY <1>1, <1>4, <1>5, LeftDrops DEF FIInv
<1>7. FifoInv'
  BY <1>1, <1>2, <1>4, <1>5, <1>6, Sizes DEF FifoInv
<1>8. Fifo!Next
  BY <1>1, <1>3, <1>4, <1>5, <1>7, Emits DEF FIInv, FifoInv
<1>9. QED
  BY <1>7, <1>8 DEF FifoStep

LEMMA ResetFifo ==
  ASSUME FIInv, Reset
  PROVE  FifoInv' /\ FifoStep
<1>1. /\ cons = prod /\ cons \in 0 .. CtrMod - 1 /\ dma_sz = 0 /\ InFlight = 0 /\ pc = "dump"
      /\ ctx = "crash"
  BY DEF Reset, FIInv, IInv, TypeOK, CtxInv, InFlight
<1>2. sent = prod
  BY <1>1, CtrOf DEF FIInv, IInv, ConsExact
<1>3. Ctr(prod - sent) = 0 /\ Ctr(prod' - sent') = 0
  <2>1. prod - sent = 0 /\ prod' - sent' = 0
    BY <1>1, <1>2, Sizes DEF Reset
  <2>2. QED
    BY <2>1, CtrOf, Sizes
<1>4. Unsent = <<>> /\ Unsent' = <<>>
  BY <1>3 DEF Unsent
<1>5. FifoStep
  BY <1>4 DEF FifoStep, Reset
<1>6. FifoInv'
  <2>1. Left' = 0 /\ InFlight' = 0 /\ cndtr' = 0 /\ pc' = "idle"
    BY <1>3 DEF Left, InFlight, Reset
  <2>2. QED
    BY <2>1, Sizes DEF FifoInv
<1>7. QED
  BY <1>5, <1>6

LEMMA KickSizeFifo ==
  ASSUME FIInv, KickSize
  PROVE  FifoInv' /\ FifoStep
<1>1. FifoStep /\ Left' = Left
  BY QuietStep DEF KickSize, out
<1>2. /\ pc = "kick" /\ pc' = "load" /\ dma_sz = 0 /\ cndtr = 0 /\ cndtr' = 0
      /\ dma_sz' \in Int /\ dma_sz' <= MASK(prod - cons)
      /\ prod \in Int /\ cons \in Int /\ InFlight = 0 /\ InFlight' = 0
  <2>0. prod \in Int /\ cons \in Int /\ prod - cons \in Int
    BY Sizes DEF FIInv, IInv, TypeOK
  <2>1. MASK(prod - cons) \in Int /\ MASK(cons) \in Int
    BY <2>0, MaskRange
  <2>2. dma_sz = 0 /\ cndtr = 0 /\ pc = "kick" /\ pc' = "load" /\ cndtr' = 0
    BY Sizes DEF KickSize, tx, FIInv, IInv, TypeOK
  <2>3. dma_sz' \in Int /\ dma_sz' <= MASK(prod - cons)
    BY <2>1, Sizes DEF KickSize
  <2>4. QED
    BY <2>0, <2>2, <2>3 DEF InFlight
<1>3. Used = Left /\ Left \in 0 .. Size - 1
  BY <1>2, FitsIs DEF UsedFacts
<1>4. MASK(prod - cons) = Left
  <2>1. prod - cons \in Int
    BY <1>2
  <2>2. MASK(Ctr(prod - cons)) = MASK(prod - cons)
    BY <1>2, <2>1, MaskOfMask, ZenonT(60)
  <2>3. QED
    BY <1>3, <2>2, MaskSmall DEF Used
<1>5. QED
  BY <1>1, <1>2, <1>3, <1>4 DEF FifoInv

LEMMA KickLoadFifo ==
  ASSUME FIInv, KickLoad
  PROVE  FifoInv' /\ FifoStep
<1>1. FifoStep /\ Left' = Left
  BY QuietStep DEF KickLoad, out
<1>2. /\ pc = "load" /\ pc' = "start" /\ src' = MASK(cons) /\ cndtr' = dma_sz /\ dma_sz' = dma_sz
      /\ InFlight = 0 /\ InFlight' = 0 /\ sent' = sent
  BY Sizes DEF KickLoad, out, InFlight, FIInv, IInv, TypeOK
<1>3. cons = sent
  BY <1>2, CtrOf, Sizes DEF FIInv, IInv, TypeOK, ConsExact
<1>4. QED
  BY <1>1, <1>2, <1>3 DEF FIInv, FifoInv

\* The other steps stage nothing, send nothing, and free at most ring space.
Other == \/ StageEnd \/ PrintEnd \/ KickStart \/ KickNothing \/ TakeIrq \/ IrqClear
         \/ IrqAdvance \/ IrqZero \/ Barrier \/ BarrierEnd \/ Crash \/ SyncDrained

LEMMA OtherFifo ==
  ASSUME FIInv, ThreadCrashes, Other
  PROVE  FifoInv' /\ FifoStep
<1>1. UNCHANGED <<ring, prod, sent, wire, cndtr, src>>
  BY DEF Other, StageEnd, PrintEnd, KickStart, KickNothing, TakeIrq, IrqClear, IrqAdvance,
         IrqZero, Barrier, BarrierEnd, Crash, SyncDrained, tx, out
<1>2. FifoStep /\ Left' = Left
  BY <1>1, QuietStep
<1>3. InFlight' = InFlight \/ InFlight' = 0
  <2> USE DEF FIInv, IInv, TypeOK, CtxInv, DmaInv, InFlight
  <2>1. CASE StageEnd \/ PrintEnd \/ Barrier \/ BarrierEnd \/ SyncDrained \/ IrqClear
    BY <2>1 DEF StageEnd, PrintEnd, Barrier, BarrierEnd, SyncDrained, IrqClear, tx
  <2>2. CASE KickStart \/ KickNothing \/ TakeIrq
    BY <2>2 DEF KickStart, KickNothing, TakeIrq, Return, tx
  <2>3. CASE IrqAdvance \/ IrqZero
    BY <2>3, Sizes DEF IrqAdvance, IrqZero, tx
  <2>4. CASE Crash
    BY <2>4, CrashAssumption DEF Crash, ThreadCrashes, Interruptible, tx
  <2>5. QED
    BY <2>1, <2>2, <2>3, <2>4 DEF Other
<1>4. pc' # "load" /\ pc' # "stage"
  BY CrashAssumption DEF Other, StageEnd, PrintEnd, KickStart, KickNothing, TakeIrq, IrqClear,
     IrqAdvance, IrqZero, Barrier, BarrierEnd, Crash, SyncDrained, Return, FIInv, IInv, TypeOK
<1>5. Left \in 0 .. Size - 1 /\ Left + InFlight <= Size - 1
  BY FitsIs DEF FIInv, FifoInv, UsedFacts
<1>6. (Left + InFlight <= Size - 1)'
  BY <1>2, <1>3, <1>5
<1>7. QED
  BY <1>1, <1>2, <1>4, <1>6 DEF FIInv, FifoInv

LEMMA NextFifo ==
  ASSUME ThreadCrashes, RoomForLf, FIInv, [Next]_vars
  PROVE  FIInv' /\ FifoStep
<1>1. IInv'
  BY NextInv DEF FIInv
<1>2. CASE Other
  BY <1>1, <1>2, OtherFifo DEF FIInv
<1>3. CASE Stage \/ Transmit \/ KickPoll \/ KickSize \/ KickLoad \/ Dump \/ Reset
  BY <1>1, <1>3, StageFifo, TransmitFifo, KickPollFifo, KickSizeFifo, KickLoadFifo, DumpFifo,
     ResetFifo DEF FIInv
<1>4. CASE \E m \in Messages : Vprintk(m)
  BY <1>1, <1>4, VprintkFifo DEF FIInv
<1>5. CASE UNCHANGED vars
  <2>1. FifoStep /\ Left' = Left
    BY <1>5, QuietStep DEF vars, out
  <2>2. FifoInv'
    BY <1>5, <2>1 DEF vars, tx, out, FIInv, FifoInv, InFlight, Fits, Used
  <2>3. QED
    BY <1>1, <2>1, <2>2 DEF FIInv
<1>6. QED
  BY <1>2, <1>3, <1>4, <1>5 DEF Next, Cpu, Other

LEMMA InitFifo == Init => FIInv /\ Fifo!Init
<1> SUFFICES ASSUME Init
             PROVE  FIInv /\ Fifo!Init
  OBVIOUS
<1>1. prod = 0 /\ sent = 0 /\ cndtr = 0 /\ dma_sz = 0 /\ pc = "idle" /\ wire = "idle"
  BY DEF Init
<1>2. Ctr(prod - sent) = 0
  BY <1>1, CtrOf, Sizes
<1>3. Unsent = <<>>
  BY <1>2 DEF Unsent
<1>4. FifoInv
  BY <1>1, <1>2, Sizes DEF FifoInv, Left, InFlight
<1>5. QED
  BY <1>1, <1>3, <1>4, InitInv DEF FIInv, Fifo!Init, Fifo!Idle

LEMMA InductiveFifo ==
  ASSUME ThreadCrashes, RoomForLf
  PROVE  Spec => []FIInv
<1>1. FIInv /\ [Next]_vars => FIInv'
  BY NextFifo
<1>2. QED
  BY InitFifo, <1>1, PTL DEF Spec

\* Ring, channel, polling and the crash path together are a FIFO (the safety part
\* of FifoSpec): nothing staged is lost, repeated or reordered, across transfers,
\* wrap-around, the switch to synchronous mode, and a reset.
THEOREM ImplementsFifo ==
  ASSUME ThreadCrashes, RoomForLf
  PROVE  Spec => Fifo!Init /\ [][Fifo!Next]_<<Unsent, wire>>
<1>1. FIInv /\ [Next]_vars => [Fifo!Next]_<<Unsent, wire>>
  BY NextFifo DEF FifoStep
<1>2. QED
  BY InitFifo, InductiveFifo, <1>1, PTL DEF Spec

\* The ring is never overfull, provided a message with a line feed finds room for
\* both characters that each becomes; without that assumption it may be.
THEOREM NeverOverfullWithRoom ==
  ASSUME ThreadCrashes, RoomForLf
  PROVE  Spec => []NeverOverfull
<1>1. FIInv => NeverOverfull
  BY FitsIs DEF FIInv, FifoInv, UsedFacts, NeverOverfull
<1>2. QED
  BY InductiveFifo, <1>1, PTL
=============================================================================
