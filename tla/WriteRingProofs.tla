-------------------------- MODULE WriteRingProofs --------------------------
(***************************************************************************)
(* Proofs about WriteRing for every ring size, batch size, set of buffers  *)
(* and pace: the invariant IInv is inductive, and the safety properties    *)
(* follow from it.                                                         *)
(***************************************************************************)
EXTENDS WriteRing, TLAPS

\* x & buf_mask is a ring index for the arguments that occur.
LEMMA MaskRange ==
  ASSUME NEW x \in Int, -Size <= x, x < 2 * Size
  PROVE  Mask(x) \in Slots
BY SizeAssumption DEF Mask, Slots

\* The batch fits before the wrap and leaves the DMA's next slot and the
\* entries behind it alone.
LEMMA BatchRange ==
  ASSUME TypeOK
  PROVE  /\ ToCons \in 0 .. Size - 1
         /\ Batch \in 0 .. ToCons
         /\ prod + Batch <= Size
<1>1. ToCons \in 0 .. Size - 1
  BY SizeAssumption DEF TypeOK, Slots, ToCons, Mask
<1>2. prod \in 0 .. Size - 1
  BY DEF TypeOK, Slots
<1>3. QED
  BY <1>1, <1>2, SizeAssumption, BatchAssumption DEF Batch, Room, ToWrap, Least, Most

\* A pulse count stays a 32-bit value.
LEMMA PlusIndexRange ==
  ASSUME NEW a \in 0 .. IndexMod - 1, NEW n \in 0 .. IndexMod - 1
  PROVE  PlusIndex(a, n) \in 0 .. IndexMod - 1
BY RevsAssumption DEF PlusIndex

LEMMA InitInv == Init => IInv
<1> SUFFICES ASSUME Init PROVE IInv
  OBVIOUS
<1> USE DEF Init
<1>1. TypeOK
  <2>1. buf \in [Slots -> Nat] /\ prod \in Slots /\ dmacons \in Slots /\ arr \in Nat
    BY SizeAssumption DEF Slots, Stale
  <2>2. /\ nr \in 0 .. Size - 1 /\ k \in 0 .. nr /\ todo \in 0 .. Size /\ stale \in 0 .. Size
        /\ stop \in 0 .. IndexMod - 1 /\ index \in 0 .. IndexMod - 1
        /\ revs \in 0 .. MaxRevs /\ pace \in Nat
        /\ flux \in Nat /\ made \in 0 .. flux /\ taken \in 0 .. made
    BY SizeAssumption, RevsAssumption, PaceAssumption
  <2>3. QED
    BY <2>1, <2>2, Zenon DEF TypeOK
<1>2. PhaseInv
  BY DEF PhaseInv, Writing, Sound
<1>3. PositionInv /\ BatchInv
  BY SizeAssumption DEF PositionInv, BatchInv, Mask, Sound
<1>4. DrainInv /\ StopInv
  BY DEF DrainInv, StopInv
<1>5. RingFifo /\ FluxInOrder /\ CompleteOrIndex
  BY DEF RingFifo, FluxInOrder, CompleteOrIndex, Stale
<1>6. QED
  BY <1>1, <1>2, <1>3, <1>4, <1>5 DEF IInv

LEMMA PrepStep ==
  ASSUME IInv, NEW f \in FluxCounts, NEW t \in BOOLEAN, NEW x \in Terms, NEW s \in BOOLEAN,
         Prep(f, t, x, s)
  PROVE  IInv'
<1> USE DEF Prep, IInv
<1>1. TypeOK'
  <2>1. f \in Nat /\ x \in Terms
    BY JobAssumption
  <2>2. pace' \in Nat /\ speed' \in Nat
    BY PaceAssumption DEF TypeOK
  <2>3. buf' \in [Slots -> Nat] /\ prod' \in Slots /\ dmacons' \in Slots
    BY SizeAssumption DEF Stale, Slots
  <2>4. /\ nr' \in 0 .. Size - 1 /\ k' \in 0 .. nr'
        /\ made' \in 0 .. flux' /\ taken' \in 0 .. made' /\ flux' \in Nat
        /\ stale' \in 0 .. Size /\ arr' \in Nat
    BY <2>1, SizeAssumption DEF Stale
  <2>5. /\ stop' \in 0 .. IndexMod - 1 /\ index' \in 0 .. IndexMod - 1
        /\ revs' \in 0 .. MaxRevs /\ todo' \in 0 .. Size
    BY DEF TypeOK, rot
  <2>6. /\ dmaOn' \in BOOLEAN /\ timer' \in BOOLEAN /\ wgate' \in BOOLEAN
        /\ pulsed' \in BOOLEAN /\ bcdone' \in BOOLEAN /\ latency' \in BOOLEAN
    BY DEF TypeOK, rot, hw
  <2>7. /\ tail' \in BOOLEAN /\ under' \in BOOLEAN /\ late' \in BOOLEAN
        /\ term' \in Terms \cup {0} /\ pc' = "poll"
    BY <2>1
  <2>8. QED
    BY <2>2, <2>3, <2>4, <2>5, <2>6, <2>7, Zenon DEF TypeOK, Writing
<1>2. PhaseInv'
  BY DEF PhaseInv, Writing, Sound, hw
<1>3. PositionInv' /\ BatchInv'
  BY SizeAssumption DEF PositionInv, BatchInv, Mask, Sound
<1>4. DrainInv' /\ StopInv'
  BY DEF DrainInv, StopInv, hw, PhaseInv
<1>5. RingFifo' /\ FluxInOrder' /\ CompleteOrIndex'
  BY DEF RingFifo, FluxInOrder, CompleteOrIndex, Stale
<1>6. QED
  BY <1>1, <1>2, <1>3, <1>4, <1>5

\* The DMA moves while the CPU is anywhere.  Either it loads an entry that was
\* made, or the write is over or spoilt and nothing more is claimed of the ring.
LEMMA FetchStep ==
  ASSUME IInv, Fetch
  PROVE  IInv'
<1> USE DEF IInv
<1>a. CASE taken < made /\ ~under
  <2>1. Sound /\ Sound' /\ ~under' /\ stale' = 0 /\ taken' = taken + 1
    BY <1>a DEF Fetch, Sound, TypeOK, PositionInv
  <2>2. /\ dmacons \in 0 .. Size - 1 /\ made \in Nat /\ taken \in 0 .. made
        /\ prod \in 0 .. Size - 1 /\ nr \in 0 .. Size - 1 /\ k \in 0 .. nr
        /\ made - taken <= Size - 1
    BY <2>1 DEF TypeOK, Slots, PositionInv
  <2>3. \A j \in 0 .. Size - 2 : Mask(Mask(dmacons + 1) + j) = Mask(dmacons + (j + 1))
    BY <2>2, SizeAssumption DEF Mask
  <2>4. TypeOK'
    <3>1. buf[dmacons] \in Nat /\ Mask(dmacons + 1) \in Slots
      BY <2>2, MaskRange, SizeAssumption DEF TypeOK, Slots
    <3>2. arr' \in Nat /\ dmacons' \in Slots /\ taken' \in 0 .. made' /\ stale' \in 0 .. Size
          /\ pace' \in Nat
      BY <1>a, <2>1, <2>2, <3>1, SizeAssumption, PaceAssumption DEF Fetch, batch
    <3>3. under' \in BOOLEAN
      BY DEF Fetch
    <3>4. QED
      BY <3>2, <3>3 DEF Fetch, TypeOK, batch, job, hw, rot
  <2>5. PhaseInv'
    BY <2>1 DEF Fetch, PhaseInv, hw, Writing
  <2>6. RingFifo'
    <3> SUFFICES ASSUME NEW j \in 0 .. made - (taken + 1) - 1
                 PROVE  buf[Mask(dmacons' + j)] = (taken + 1) + j + 1
      BY <2>1 DEF Fetch, RingFifo, batch
    <3>1. j + 1 \in 0 .. made - taken - 1 /\ j \in 0 .. Size - 2
      BY <2>2, SizeAssumption
    <3>2. buf[Mask(dmacons + (j + 1))] = taken + (j + 1) + 1
      BY <3>1, <1>a DEF RingFifo
    <3>3. QED
      BY <3>1, <3>2, <2>2, <2>3 DEF Fetch
  <2>7. FluxInOrder'
    <3>1. buf[Mask(dmacons + 0)] = taken + 0 + 1
      BY <2>2, <1>a DEF RingFifo
    <3>2. Mask(dmacons + 0) = dmacons
      BY <2>2, SizeAssumption DEF Mask
    <3>3. QED
      BY <2>1, <2>2, <3>1, <3>2 DEF Fetch, FluxInOrder
  <2>8. PositionInv'
    <3>1. Mask(dmacons + (made - taken)) = Mask(prod + k)
      BY <2>1 DEF PositionInv
    <3>2. made - taken - 1 \in 0 .. Size - 2
      BY <1>a, <2>2, SizeAssumption
    <3>3. Mask(Mask(dmacons + 1) + (made - taken - 1)) = Mask(dmacons + (made - taken))
      BY <2>3, <3>2, <2>2
    <3>4. QED
      BY <2>1, <2>2, <3>1, <3>3, SizeAssumption DEF Fetch, PositionInv, batch
  <2>9. BatchInv' /\ DrainInv'
    BY <2>1, <2>2, SizeAssumption DEF Fetch, TypeOK, BatchInv, DrainInv, batch, job, Sound
  <2>10. StopInv'
    BY DEF Fetch, StopInv, hw, rot, job, PlusIndex
  <2>11. CompleteOrIndex'
    BY <1>a, <2>1, <2>2 DEF TypeOK, Fetch, CompleteOrIndex, job, rot, batch
  <2>12. QED
    BY <2>4, <2>5, <2>6, <2>7, <2>8, <2>9, <2>10, <2>11
<1>b. CASE ~(taken < made /\ ~under)
  <2>1. taken' = taken /\ taken \in 0 .. made /\ made \in 0 .. flux /\ flux \in Nat
    BY <1>b DEF Fetch, TypeOK
  <2>2. stale' \in 0 .. Size /\ (taken = made /\ made = flux /\ ~under => stale' > 0)
    BY SizeAssumption DEF Fetch, TypeOK, Least
  <2>3. ~under' => ~under /\ taken = made /\ made = flux
    <3>1. ~under' => ~under /\ ~(taken = made /\ made < flux)
      BY Zenon DEF Fetch
    <3>2. QED
      BY <1>b, <2>1, <3>1
  <2>3a. ~Sound'
    BY <2>2, <2>3 DEF Sound
  <2>4. TypeOK'
    <3>1. buf[dmacons] \in Nat /\ Mask(dmacons + 1) \in Slots
      BY MaskRange, SizeAssumption DEF TypeOK, Slots
    <3>2. arr' \in Nat /\ dmacons' \in Slots /\ pace' \in Nat /\ taken' \in 0 .. made'
      BY <2>1, <3>1, PaceAssumption DEF Fetch, batch
    <3>3. under' \in BOOLEAN
      BY DEF Fetch
    <3>4. QED
      BY <2>2, <3>2, <3>3 DEF Fetch, TypeOK, batch, job, hw, rot
  <2>5. PhaseInv'
    BY DEF Fetch, PhaseInv, hw, Writing
  <2>6. RingFifo' /\ FluxInOrder'
    BY <2>1, <2>3, <2>3a DEF Fetch, RingFifo, FluxInOrder, Sound, batch
  <2>7. PositionInv' /\ BatchInv' /\ DrainInv'
    BY <2>1, <2>3, <2>3a DEF Fetch, PositionInv, BatchInv, DrainInv, batch, job
  <2>8. StopInv'
    BY DEF Fetch, StopInv, hw, rot, job, PlusIndex
  <2>9. CompleteOrIndex'
    BY <2>1, <2>3 DEF Fetch, CompleteOrIndex, job, rot, batch
  <2>10. QED
    BY <2>4, <2>5, <2>6, <2>7, <2>8, <2>9
<1>c. QED
  BY <1>a, <1>b

\* The next entry goes behind the last one not yet loaded; the others stay.
LEMMA PutStep ==
  ASSUME IInv, Put
  PROVE  IInv'
<1> USE DEF IInv
<1>1. /\ dmacons \in 0 .. Size - 1 /\ flux \in Nat /\ made \in 0 .. flux /\ taken \in 0 .. made
      /\ prod \in 0 .. Size - 1 /\ nr \in 0 .. Size - 1 /\ k \in 0 .. nr
      /\ k < nr /\ made < flux /\ prod + k \in 0 .. Size - 1 /\ pc = "put"
      /\ k' = k + 1 /\ made' = made + 1
  BY SizeAssumption DEF Put, TypeOK, Slots, BatchInv
<1>2. ~under => Sound
  BY <1>1 DEF PositionInv, Sound, TypeOK
<1>3. TypeOK'
  <2>0. buf \in [Slots -> Nat]
    BY DEF TypeOK
  <2>1. buf' \in [Slots -> Nat]
    BY <1>1, <2>0 DEF Put, Slots
  <2>2. made' \in 0 .. flux /\ taken \in 0 .. made' /\ k' \in 0 .. nr /\ pace' \in Nat
    BY <1>1, PaceAssumption DEF Put, CpuStep, Least, TypeOK
  <2>3. QED
    BY <2>1, <2>2 DEF Put, TypeOK, job, dma, hw, rot
<1>4. PhaseInv'
  BY DEF Put, PhaseInv, hw, dma, Sound
<1>5. RingFifo'
  <2> SUFFICES ASSUME ~under, NEW j \in 0 .. (made + 1) - taken - 1
               PROVE  buf'[Mask(dmacons + j)] = taken + j + 1
    BY <1>1 DEF Put, RingFifo, dma
  <2>1. Mask(dmacons + (made - taken)) = prod + k /\ made - taken <= Size - 1
    BY <1>1, <1>2, SizeAssumption DEF PositionInv, Mask
  <2>2. CASE j = made - taken
    BY <1>1, <2>1, <2>2 DEF Put, TypeOK, Slots
  <2>3. CASE j # made - taken
    <3>1. j \in 0 .. made - taken - 1
      BY <1>1, <2>3
    <3>2. Mask(dmacons + j) # prod + k
      BY <1>1, <2>1, <3>1, SizeAssumption DEF Mask
    <3>3. buf[Mask(dmacons + j)] = taken + j + 1
      BY <3>1 DEF RingFifo
    <3>4. Mask(dmacons + j) \in Slots
      BY <1>1, <2>1, <3>1, SizeAssumption DEF Mask, Slots
    <3>5. QED
      BY <3>2, <3>3, <3>4 DEF Put, TypeOK
  <2>4. QED
    BY <2>2, <2>3
<1>6. FluxInOrder'
  BY DEF Put, FluxInOrder, dma, hw
<1>7. PositionInv'
  <2>1. ASSUME Sound
        PROVE  /\ Mask(dmacons + ((made + 1) - taken)) = Mask(prod + (k + 1))
               /\ (made + 1) - taken <= Size - 1
    <3>1. Mask(dmacons + (made - taken)) = Mask(prod + k) /\ made - taken <= Size - 2
      BY <1>1, <2>1, SizeAssumption DEF PositionInv, BatchInv
    <3>2. QED
      BY <1>1, <3>1, SizeAssumption DEF Mask
  <2>2. ~under => stale = 0
    BY <1>2 DEF Sound
  <2>3. QED
    BY <1>1, <2>1, <2>2 DEF Put, PositionInv, Sound, dma
<1>8. BatchInv' /\ DrainInv'
  BY <1>1, SizeAssumption DEF Put, BatchInv, DrainInv, Sound, dma, job
<1>9. StopInv' /\ CompleteOrIndex'
  BY <1>1 DEF Put, StopInv, CompleteOrIndex, hw, rot, job, PlusIndex
<1>10. QED
  BY <1>3, <1>4, <1>5, <1>6, <1>7, <1>8, <1>9

\* A batch is sized from the position the DMA has at this moment.
LEMMA PollStep ==
  ASSUME IInv, Poll
  PROVE  IInv'
<1> USE DEF IInv
<1>1. /\ nr' \in 0 .. ToCons /\ ToCons \in 0 .. Size - 1 /\ k' = 0 /\ k = 0
      /\ prod + nr' <= Size /\ pc = "poll" /\ pc' = "put"
  BY BatchRange DEF Poll, BatchInv
<1>2. /\ dmacons \in 0 .. Size - 1 /\ flux \in Nat /\ made \in 0 .. flux /\ taken \in 0 .. made
      /\ prod \in 0 .. Size - 1
  BY DEF TypeOK, Slots
<1>3. Sound => (made - taken) + ToCons = Size - 1
  BY <1>1, <1>2, SizeAssumption DEF PositionInv, ToCons, Mask
<1>4. TypeOK'
  <2>1. nr' \in 0 .. Size - 1 /\ k' \in 0 .. nr' /\ pace' \in Nat
    BY <1>1, SizeAssumption, PaceAssumption DEF Poll, CpuStep, Least, TypeOK
  <2>2. QED
    BY <1>1, <2>1 DEF Poll, TypeOK, Writing, dma, hw, rot, job
<1>5. PhaseInv'
  BY <1>1 DEF Poll, PhaseInv, Writing, hw, dma, Sound
<1>5a. PositionInv'
  BY <1>1 DEF Poll, PositionInv, dma, job, Sound
<1>6. RingFifo' /\ FluxInOrder'
  BY DEF Poll, RingFifo, FluxInOrder, dma, hw
<1>7. BatchInv' /\ DrainInv'
  BY <1>1, <1>2, <1>3, SizeAssumption DEF Poll, BatchInv, DrainInv, dma, job, Sound
<1>8. StopInv' /\ CompleteOrIndex'
  BY <1>1 DEF Poll, StopInv, CompleteOrIndex, Writing, hw, rot, job, PlusIndex
<1>9. QED
  BY <1>4, <1>5, <1>5a, <1>6, <1>7, <1>8

\* Steps that touch neither ring nor DMA.
LEMMA RingUnchanged ==
  ASSUME RingFifo, PositionInv,
         UNCHANGED <<flux, made, k, prod, buf, dmacons, taken, stale, under>>
  PROVE  RingFifo' /\ PositionInv' /\ (Sound' <=> Sound)
BY DEF RingFifo, PositionInv, Sound

LEMMA PaceRange ==
  ASSUME pace \in Nat, speed \in Nat, CpuStep
  PROVE  pace' \in Nat
BY PaceAssumption DEF CpuStep, Least

LEMMA CommitStep ==
  ASSUME IInv, Commit
  PROVE  IInv'
<1> USE DEF IInv
<1>1. /\ prod \in 0 .. Size - 1 /\ nr \in 0 .. Size - 1 /\ k \in 0 .. nr /\ prod + k <= Size
      /\ prod' = Mask(prod + k) /\ prod' \in 0 .. Size - 1 /\ k' = 0 /\ nr' = 0
      /\ Mask(prod' + k') = Mask(prod + k)
  BY SizeAssumption DEF Commit, CellsConsumed, TypeOK, Slots, BatchInv, Mask
<1>2. bcdone' => made = flux
  <2>1. k < nr => made = flux
    BY <1>1 DEF Commit, CellsConsumed
  <2>2. bcdone => made = flux
    BY DEF DrainInv
  <2>3. QED
    BY <2>1, <2>2, Zenon DEF Commit, CellsConsumed
<1>3. pc = "put" /\ pc' \in {"check", "enable"} /\ (pc' = "check" <=> dmaOn)
  BY DEF Commit, CellsConsumed
<1>4. TypeOK'
  <2>1. bcdone' \in BOOLEAN
    BY DEF Commit, CellsConsumed
  <2>2. nr' \in 0 .. Size - 1 /\ k' \in 0 .. nr' /\ prod' \in Slots
    BY <1>1, SizeAssumption DEF Slots
  <2>3. pace' \in Nat
    BY PaceRange DEF Commit, CellsConsumed, TypeOK
  <2>4. QED
    BY <1>3, <2>1, <2>2, <2>3 DEF Commit, CellsConsumed, TypeOK, Writing, dma, hw, rot, job
<1>5. PhaseInv'
  BY <1>3 DEF Commit, CellsConsumed, PhaseInv, Writing, hw, dma, Sound
<1>6. PositionInv'
  BY <1>1 DEF Commit, CellsConsumed, PositionInv, dma, job, Sound
<1>7. RingFifo' /\ FluxInOrder'
  BY DEF Commit, CellsConsumed, RingFifo, FluxInOrder, dma, hw
<1>8. BatchInv'
  BY <1>1, SizeAssumption DEF Commit, CellsConsumed, BatchInv, PositionInv, TypeOK, dma, Sound
<1>9. DrainInv'
  BY <1>2, <1>3 DEF Commit, CellsConsumed, DrainInv, job
<1>10. StopInv' /\ CompleteOrIndex'
  BY <1>3 DEF Commit, CellsConsumed, StopInv, CompleteOrIndex, Writing, hw, rot, job, PlusIndex
<1>11. QED
  BY <1>4, <1>5, <1>6, <1>7, <1>8, <1>9, <1>10

\* The steps before floppy_write() proper.
LEMMA CallerStep ==
  ASSUME IInv, EnableDma \/ ArmIndex \/ CallWrite
  PROVE  IInv'
<1> USE DEF IInv
<1>0. /\ UNCHANGED <<batch, job, dma, timer, wgate, stop, todo, late, revs, pulsed>>
      /\ pc \in {"enable", "ready", "await"} /\ pc' \in {"ready", "await", "start"}
      /\ dmaOn' = TRUE /\ ~timer /\ ~wgate
  BY DEF EnableDma, ArmIndex, CallWrite, rot, hw, PhaseInv, Writing
<1>1. RingFifo' /\ PositionInv' /\ (Sound' <=> Sound)
  BY <1>0, RingUnchanged DEF batch, job, dma
<1>2. TypeOK'
  <2>1. index' \in 0 .. IndexMod - 1
    BY RevsAssumption DEF EnableDma, ArmIndex, CallWrite, rot, TypeOK
  <2>2. pace' \in Nat
    BY PaceRange DEF EnableDma, ArmIndex, CallWrite, TypeOK
  <2>3. dmaOn' \in BOOLEAN
    BY <1>0
  <2>4. QED
    BY <1>0, <2>1, <2>2, <2>3 DEF TypeOK, Writing, batch, dma, job
<1>3. PhaseInv'
  BY <1>0, <1>1 DEF PhaseInv, Writing, dma
<1>4. BatchInv' /\ DrainInv'
  BY <1>0, <1>1 DEF BatchInv, DrainInv, batch, dma, job
<1>5. StopInv' /\ FluxInOrder' /\ CompleteOrIndex'
  BY <1>0 DEF StopInv, FluxInOrder, CompleteOrIndex, PlusIndex
<1>6. QED
  BY <1>1, <1>2, <1>3, <1>4, <1>5

LEMMA SetStopStep ==
  ASSUME IInv, SetStop
  PROVE  IInv'
<1> USE DEF IInv
<1>0. /\ UNCHANGED <<batch, job, dma, todo, late, dmaOn, wgate, index>>
      /\ pc = "start" /\ pc' = "gate" /\ timer' = TRUE /\ dmaOn /\ ~wgate /\ ~timer
      /\ revs' = 0 /\ pulsed' = FALSE /\ taken = 0 /\ arr = Stale
  BY DEF SetStop, StopIndex, PhaseInv, Writing
<1>1. RingFifo' /\ PositionInv' /\ (Sound' <=> Sound)
  BY <1>0, RingUnchanged DEF batch, job, dma
<1>2. index \in 0 .. IndexMod - 1 /\ term \in 0 .. IndexMod - 1
  BY RevsAssumption, JobAssumption DEF TypeOK
<1>3. stop' \in 0 .. IndexMod - 1
  <2>1. (IF term # 0 THEN term ELSE IndexMod - 1) \in 0 .. IndexMod - 1
    BY <1>2, RevsAssumption
  <2>2. QED
    BY <1>2, <2>1, PlusIndexRange DEF SetStop, StopIndex
<1>4. TypeOK'
  <2>1. revs' \in 0 .. MaxRevs /\ pace' \in Nat
    BY <1>0, RevsAssumption, PaceRange DEF SetStop, StopIndex, TypeOK
  <2>2. pulsed' \in BOOLEAN /\ timer' \in BOOLEAN
    BY <1>0
  <2>3. QED
    BY <1>0, <1>3, <2>1, <2>2 DEF TypeOK, Writing, batch, dma, job
<1>5. PhaseInv'
  BY <1>0 DEF PhaseInv, Writing
<1>6. BatchInv' /\ DrainInv'
  BY <1>0, <1>1 DEF BatchInv, DrainInv, batch, dma, job
<1>7. StopInv'
  BY <1>0, <1>2, RevsAssumption DEF SetStop, StopIndex, StopInv, job, PlusIndex
<1>8. FluxInOrder' /\ CompleteOrIndex'
  BY <1>0 DEF FluxInOrder, CompleteOrIndex, Stale, dma
<1>9. QED
  BY <1>1, <1>4, <1>5, <1>6, <1>7, <1>8

LEMMA OpenGateStep ==
  ASSUME IInv, OpenGate
  PROVE  IInv'
<1> USE DEF IInv
<1>0. /\ UNCHANGED <<nr, k, prod, bcdone, made, buf, job, dma, stop, late, dmaOn, timer, rot>>
      /\ pc = "gate" /\ pc' = (IF bcdone THEN "drain" ELSE "poll") /\ todo' = Size
      /\ wgate' = TRUE /\ latency' = TRUE /\ dmaOn /\ timer
  BY DEF OpenGate, ToLoop, PhaseInv
<1>1. RingFifo' /\ PositionInv' /\ (Sound' <=> Sound)
  BY <1>0, RingUnchanged DEF job, dma
<1>2. TypeOK'
  <2>1. pace' \in Nat
    BY PaceRange DEF OpenGate, TypeOK
  <2>2. todo' \in 0 .. Size /\ latency' \in BOOLEAN /\ wgate' \in BOOLEAN
    BY <1>0, SizeAssumption
  <2>3. QED
    BY <1>0, <2>1, <2>2 DEF TypeOK, Writing, dma, job, rot
<1>3. PhaseInv'
  BY <1>0 DEF PhaseInv, Writing
<1>4. BatchInv'
  BY <1>0, <1>1 DEF BatchInv, dma
<1>5. DrainInv'
  BY <1>0, <1>1, SizeAssumption DEF DrainInv, PositionInv, TypeOK, dma, job
<1>6. StopInv'
  BY <1>0 DEF StopInv, Writing, job, rot, PlusIndex
<1>7. FluxInOrder' /\ CompleteOrIndex'
  BY <1>0 DEF FluxInOrder, CompleteOrIndex, dma
<1>8. QED
  BY <1>1, <1>2, <1>3, <1>4, <1>5, <1>6, <1>7

\* index.count meets stop_index exactly at the pulse the caller asked for.
LEMMA AtStop ==
  ASSUME IInv, timer, pc \in Writing, index = stop
  PROVE  term # 0 /\ revs = term /\ pulsed
<1>1. /\ index \in 0 .. IndexMod - 1 /\ term \in 0 .. IndexMod - 1 /\ revs \in 0 .. MaxRevs
      /\ IndexMod \in Nat /\ MaxRevs \in Nat /\ MaxRevs + 1 < IndexMod
  BY RevsAssumption, JobAssumption DEF IInv, TypeOK
<1>2. /\ index = PlusIndex(index, IF term # 0 THEN term - revs ELSE IndexMod - 1 - revs)
      /\ term # 0 => revs <= term /\ (~pulsed => revs < term)
  BY DEF IInv, StopInv
<1>3. CASE term = 0
  BY <1>1, <1>2, <1>3 DEF PlusIndex
<1>4. CASE term # 0
  <2>1. revs = term
    BY <1>1, <1>2, <1>4 DEF PlusIndex
  <2>2. pulsed
    BY <1>1, <1>2, <1>4, <2>1
  <2>3. QED
    BY <1>4, <2>1, <2>2
<1>5. QED
  BY <1>3, <1>4

\* A comparison that does not match shows that a pulse is still to come.
LEMMA NotAtStop ==
  ASSUME IInv, timer, pc \in Writing, index # stop
  PROVE  term # 0 => revs < term
<1>1. /\ index \in 0 .. IndexMod - 1 /\ term \in 0 .. IndexMod - 1 /\ revs \in 0 .. MaxRevs
      /\ IndexMod \in Nat /\ MaxRevs \in Nat
  BY RevsAssumption, JobAssumption DEF IInv, TypeOK
<1>2. /\ term # 0 => stop = PlusIndex(index, term - revs) /\ revs <= term
  BY DEF IInv, StopInv
<1>3. QED
  BY <1>1, <1>2 DEF PlusIndex

LEMMA CheckStep ==
  ASSUME IInv, Check \/ DrainCheck
  PROVE  IInv'
<1> USE DEF IInv
<1>0. /\ UNCHANGED <<job, batch, stop, dma, hw, index, revs>>
      /\ timer /\ dmaOn /\ pc \in {"check", "drain"} /\ pc \in Writing
  BY DEF Check, DrainCheck, PhaseInv, Writing
<1>1. RingFifo' /\ PositionInv' /\ (Sound' <=> Sound)
  BY <1>0, RingUnchanged DEF batch, job, dma
<1>2. \/ index = stop /\ pc' = "out" /\ UNCHANGED <<todo, pulsed>>
      \/ /\ index # stop /\ pulsed' = FALSE
         /\ pc' \in {"drain", "draining", "poll"}
         /\ pc' \in {"drain", "draining"} => bcdone /\ todo' \in {todo, Size}
         /\ pc' = "draining" => pc = "drain" /\ todo' = todo
         /\ pc' = "drain" => todo' = Size
         /\ todo' \in {todo, Size}
  BY DEF Check, DrainCheck, ToLoop, DrainInv
<1>3. TypeOK'
  <2>1. pace' \in Nat
    BY PaceRange DEF Check, DrainCheck, TypeOK
  <2>2. todo' \in 0 .. Size
    BY <1>2, SizeAssumption DEF TypeOK
  <2>2a. pulsed' \in BOOLEAN
    BY <1>2 DEF TypeOK
  <2>3. pc' \in Writing
    BY <1>2 DEF Writing
  <2>4. late' \in BOOLEAN
    BY DEF Check, DrainCheck, PastEnd
  <2>5. QED
    BY <1>0, <2>1, <2>2, <2>2a, <2>3, <2>4 DEF TypeOK, Writing, batch, dma, job, hw
<1>4. PhaseInv'
  BY <1>0, <1>2 DEF PhaseInv, Writing, hw
<1>5. BatchInv'
  BY <1>0, <1>1, <1>2 DEF BatchInv, batch, dma
<1>6. DrainInv'
  BY <1>0, <1>1, <1>2, SizeAssumption DEF DrainInv, PositionInv, TypeOK, batch, dma, job
<1>7. StopInv'
  <2>1. CASE index = stop
    BY <1>0, <1>2, <2>1 DEF StopInv, job, PlusIndex
  <2>2. CASE index # stop
    BY <1>0, <1>2, <2>2, NotAtStop DEF StopInv, job, PlusIndex
  <2>3. QED
    BY <2>1, <2>2
<1>8. FluxInOrder'
  BY <1>0 DEF FluxInOrder, dma, hw
<1>9. CompleteOrIndex'
  BY <1>0, <1>2, AtStop DEF CompleteOrIndex, job
<1>10. QED
  BY <1>1, <1>3, <1>4, <1>5, <1>6, <1>7, <1>8, <1>9

LEMMA DrainPollStep ==
  ASSUME IInv, DrainPoll
  PROVE  IInv'
<1> USE DEF IInv
<1>0. /\ UNCHANGED <<job, batch, stop, dma, hw, rot>>
      /\ timer /\ dmaOn /\ pc = "draining" /\ bcdone /\ made = flux /\ k = 0
      /\ todo' = Mask(prod - dmacons) /\ pc' \in {"drain", "out"}
      /\ pc' = "out" => todo' = 0 \/ ~(todo' <= todo)
  BY DEF DrainPoll, KeepDraining, PhaseInv, DrainInv, BatchInv
<1>1. RingFifo' /\ PositionInv' /\ (Sound' <=> Sound)
  BY <1>0, RingUnchanged DEF batch, job, dma
<1>2. /\ prod \in 0 .. Size - 1 /\ dmacons \in 0 .. Size - 1 /\ made \in Nat /\ taken \in 0 .. made
      /\ todo \in 0 .. Size
  BY DEF TypeOK, Slots
<1>3. Sound => todo' = made - taken /\ made - taken <= todo
  <2>1. Sound => Mask(dmacons + (made - taken)) = Mask(prod + k) /\ made - taken <= Size - 1
    BY DEF PositionInv
  <2>2. QED
    BY <1>0, <1>2, <2>1, SizeAssumption DEF DrainInv, Mask
<1>4. TypeOK'
  <2>1. pace' \in Nat
    BY PaceRange DEF DrainPoll, KeepDraining, TypeOK
  <2>2. todo' \in 0 .. Size
    BY <1>0, <1>2, SizeAssumption DEF Mask
  <2>3. late' \in BOOLEAN
    BY DEF DrainPoll, PastEnd
  <2>4. QED
    BY <1>0, <2>1, <2>2, <2>3 DEF TypeOK, Writing, batch, dma, job, hw, rot
<1>5. PhaseInv'
  BY <1>0 DEF PhaseInv, Writing, hw
<1>6. BatchInv' /\ StopInv' /\ FluxInOrder'
  BY <1>0, <1>1 DEF BatchInv, StopInv, FluxInOrder, Writing, PlusIndex, batch, dma, job, hw, rot
<1>7. DrainInv'
  BY <1>0, <1>1, <1>2, <1>3 DEF DrainInv, batch, dma, job
<1>8. CompleteOrIndex'
  <2>1. CASE Sound
    BY <1>0, <1>2, <1>3, <2>1 DEF CompleteOrIndex, dma, job
  <2>2. CASE ~Sound
    BY <1>0, <2>2 DEF CompleteOrIndex, PositionInv, Sound, TypeOK, dma, job
  <2>3. QED
    BY <2>1, <2>2
<1>9. QED
  BY <1>1, <1>4, <1>5, <1>6, <1>7, <1>8

LEMMA CloseStep ==
  ASSUME IInv, CloseGate \/ StopDma
  PROVE  IInv'
<1> USE DEF IInv
<1>0. /\ UNCHANGED <<job, batch, stop, todo, late, dma, rot>>
      /\ pc' \in {"off", "idle"} /\ wgate' = FALSE
      /\ pc' = "off" => timer' = timer /\ dmaOn' = dmaOn /\ timer /\ dmaOn
      /\ pc' = "idle" => timer' = FALSE /\ dmaOn' = FALSE
  BY DEF CloseGate, StopDma, PhaseInv, Writing
<1>1. RingFifo' /\ PositionInv' /\ (Sound' <=> Sound)
  BY <1>0, RingUnchanged DEF batch, job, dma
<1>2. TypeOK'
  <2>1. pace' \in Nat
    BY PaceRange DEF CloseGate, StopDma, TypeOK
  <2>2. dmaOn' \in BOOLEAN /\ timer' \in BOOLEAN /\ wgate' \in BOOLEAN
    BY <1>0 DEF TypeOK
  <2>3. QED
    BY <1>0, <2>1, <2>2 DEF TypeOK, Writing, batch, dma, job, rot
<1>3. PhaseInv'
  BY <1>0 DEF PhaseInv, Writing
<1>4. BatchInv' /\ DrainInv'
  BY <1>0, <1>1 DEF CloseGate, StopDma, BatchInv, DrainInv, batch, dma, job
<1>5. StopInv' /\ FluxInOrder' /\ CompleteOrIndex'
  BY <1>0 DEF StopInv, FluxInOrder, CompleteOrIndex, Writing, dma
<1>6. QED
  BY <1>1, <1>2, <1>3, <1>4, <1>5

LEMMA PulseStep ==
  ASSUME IInv, IndexPulse
  PROVE  IInv'
<1> USE DEF IInv
<1>0. /\ UNCHANGED <<pc, job, batch, stop, todo, late, dma, hw, pace>>
      /\ index' = PlusIndex(index, 1)
  BY DEF IndexPulse
<1>1. RingFifo' /\ PositionInv' /\ (Sound' <=> Sound)
  BY <1>0, RingUnchanged DEF batch, job, dma
<1>2. /\ index \in 0 .. IndexMod - 1 /\ term \in 0 .. IndexMod - 1 /\ revs \in 0 .. MaxRevs
      /\ IndexMod \in Nat /\ MaxRevs \in Nat /\ MaxRevs + 1 < IndexMod
      /\ index' \in 0 .. IndexMod - 1
  BY <1>0, RevsAssumption, JobAssumption DEF TypeOK, PlusIndex
<1>3. \/ pc \in Writing /\ ~pulsed /\ revs < MaxRevs /\ revs' = revs + 1 /\ pulsed' = TRUE
      \/ pc \notin Writing /\ UNCHANGED <<revs, pulsed>>
  BY DEF IndexPulse
<1>4. TypeOK'
  <2>1. revs' \in 0 .. MaxRevs
    BY <1>2, <1>3
  <2>2. pulsed' \in BOOLEAN
    BY <1>3 DEF TypeOK
  <2>3. QED
    BY <1>0, <1>2, <2>1, <2>2 DEF TypeOK, batch, dma, job, hw
<1>5. PhaseInv' /\ BatchInv' /\ DrainInv' /\ FluxInOrder'
  <2>1. PhaseInv' /\ FluxInOrder'
    BY <1>0, <1>1 DEF PhaseInv, FluxInOrder, dma, hw
  <2>2. BatchInv' /\ DrainInv'
    BY <1>0, <1>1 DEF BatchInv, DrainInv, batch, dma, job
  <2>3. QED
    BY <2>1, <2>2
<1>6. StopInv'
  <2> SUFFICES ASSUME timer, pc \in Writing
               PROVE  StopInv'
    BY <1>0 DEF StopInv, hw
  <2>1. /\ stop = PlusIndex(index, IF term # 0 THEN term - revs ELSE IndexMod - 1 - revs)
        /\ term # 0 => revs < term
        /\ revs < MaxRevs /\ revs' = revs + 1 /\ pulsed' = TRUE
    BY <1>3 DEF StopInv
  <2>2. CASE term = 0
    BY <1>0, <1>2, <2>1, <2>2 DEF StopInv, PlusIndex, job
  <2>3. CASE term # 0
    BY <1>0, <1>2, <2>1, <2>3 DEF StopInv, PlusIndex, job
  <2>4. QED
    BY <2>2, <2>3
<1>7. CompleteOrIndex'
  <2> SUFFICES ASSUME pc = "out", ~under
               PROVE  taken = flux \/ (term # 0 /\ revs' = term)
    BY <1>0 DEF CompleteOrIndex, dma, job
  <2>1. taken = flux \/ (term # 0 /\ revs = term)
    BY DEF CompleteOrIndex
  <2>2. timer /\ pc \in Writing
    BY DEF PhaseInv, Writing
  <2>3. term # 0 /\ revs = term => pulsed
    BY <1>2, <2>2 DEF StopInv
  <2>4. QED
    BY <1>3, <2>1, <2>2, <2>3
<1>8. QED
  BY <1>1, <1>4, <1>5, <1>6, <1>7

(***************************************************************************)
(* Every step keeps the invariant.                                         *)
(***************************************************************************)
THEOREM Inductive == IInv /\ [Next]_vars => IInv'
<1> SUFFICES ASSUME IInv, [Next]_vars PROVE IInv'
  OBVIOUS
<1>1. CASE Start
  BY <1>1, PrepStep DEF Start
<1>2. CASE Poll \/ Put \/ Commit
  BY <1>2, PollStep, PutStep, CommitStep
<1>3. CASE EnableDma \/ ArmIndex \/ CallWrite
  BY <1>3, CallerStep
<1>4. CASE SetStop \/ OpenGate
  BY <1>4, SetStopStep, OpenGateStep
<1>5. CASE Check \/ DrainCheck \/ DrainPoll
  BY <1>5, CheckStep, DrainPollStep
<1>6. CASE CloseGate \/ StopDma
  BY <1>6, CloseStep
<1>7. CASE Fetch \/ IndexPulse
  BY <1>7, FetchStep, PulseStep
<1>8. CASE UNCHANGED vars
  BY <1>8 DEF vars, job, batch, dma, hw, rot, IInv, TypeOK, PhaseInv, PositionInv, BatchInv,
              DrainInv, StopInv, RingFifo, FluxInOrder, CompleteOrIndex, Sound, PlusIndex
<1>9. QED
  BY <1>1, <1>2, <1>3, <1>4, <1>5, <1>6, <1>7, <1>8 DEF Next, Cpu

\* The invariant holds in every reachable state.
THEOREM Invariance == Spec => []IInv
<1>1. Init => IInv
  BY InitInv
<1>2. IInv /\ [Next]_vars => IInv'
  BY Inductive
<1>3. QED
  BY <1>1, <1>2, PTL DEF Spec

\* Every variable stays in its range: ring indexes stay ring indexes and
\* index.count and stop_index stay 32-bit values.
THEOREM TypeCorrect == Spec => []TypeOK
BY Invariance, PTL DEF IInv

\* No entry that the DMA has still to load is overwritten or out of place.
THEOREM RingIsFifo == Spec => []RingFifo
BY Invariance, PTL DEF IInv

\* The timer is given reversals 1, 2, 3, ... of the write.
THEOREM FluxIsInOrder == Spec => []FluxInOrder
BY Invariance, PTL DEF IInv

\* floppy_write() leaves its loops with all data out, or at the index hole.
THEOREM WriteIsComplete == Spec => []CompleteOrIndex
BY Invariance, PTL DEF IInv

\* The write stops at the index hole asked for, and at no other.
THEOREM StopsAtIndex == Spec => []IndexStop
<1>1. IInv => IndexStop
  <2> SUFFICES ASSUME IInv PROVE IndexStop
    OBVIOUS
  <2>1. wgate => timer /\ pc \in Writing
    BY DEF IInv, PhaseInv
  <2>2. wgate /\ term # 0 => revs <= term
    BY <2>1 DEF IInv, StopInv
  <2>3. index = stop /\ pc \in {"check", "drain"} => term # 0 /\ revs = term
    BY AtStop DEF IInv, PhaseInv, Writing
  <2>4. QED
    BY <2>2, <2>3 DEF IndexStop
<1>2. QED
  BY <1>1, Invariance, PTL

(***************************************************************************)
(* How far the DMA runs past the end.                                      *)
(***************************************************************************)
LEMMA Types ==
  ASSUME IInv
  PROVE  /\ Size \in Nat /\ Size >= 2 /\ stale \in 0 .. Size /\ todo \in 0 .. Size
         /\ flux \in Nat /\ made \in 0 .. flux /\ taken \in 0 .. made
         /\ pace \in Nat /\ speed \in Nat
         /\ prod \in 0 .. Size - 1 /\ dmacons \in 0 .. Size - 1
         /\ nr \in 0 .. Size - 1 /\ k \in 0 .. nr /\ prod + k <= Size
         /\ pc \in {"idle", "enable", "ready", "await", "start", "gate", "poll", "put",
                    "check", "drain", "draining", "out", "off"}
<1>1. prod \in 0 .. Size - 1 /\ dmacons \in 0 .. Size - 1
  BY DEF IInv, TypeOK, Slots
<1>2. /\ stale \in 0 .. Size /\ todo \in 0 .. Size
      /\ flux \in Nat /\ made \in 0 .. flux /\ taken \in 0 .. made
      /\ pace \in Nat /\ speed \in Nat
      /\ nr \in 0 .. Size - 1 /\ k \in 0 .. nr
  BY DEF IInv, TypeOK
<1>3. prod + k <= Size
  BY <1>1, <1>2, SizeAssumption DEF IInv, BatchInv
<1>4. pc \in {"idle", "enable", "ready", "await", "start", "off"} \cup Writing
  BY DEF IInv, TypeOK
<1>5. QED
  BY <1>1, <1>2, <1>3, <1>4, SizeAssumption DEF Writing

\* Steps of the CPU that store nothing and start no write.
Calm == EnableDma \/ ArmIndex \/ CallWrite \/ SetStop \/ OpenGate \/ Check \/ DrainCheck
        \/ DrainPoll \/ CloseGate \/ StopDma

LEMMA CalmIs ==
  ASSUME Calm
  PROVE  /\ UNCHANGED <<flux, speed, nr, k, prod, bcdone, made, buf, dmacons, taken, stale, under>>
         /\ CpuStep
<1>1. CASE EnableDma \/ ArmIndex \/ CallWrite \/ SetStop
  BY <1>1 DEF EnableDma, ArmIndex, CallWrite, SetStop, job, batch, dma
<1>2. CASE OpenGate \/ Check \/ DrainCheck
  BY <1>2 DEF OpenGate, Check, DrainCheck, job, batch, dma
<1>3. CASE DrainPoll \/ CloseGate \/ StopDma
  BY <1>3 DEF DrainPoll, CloseGate, StopDma, job, batch, dma
<1>4. QED
  BY <1>1, <1>2, <1>3 DEF Calm

\* What the DMA does to the counts.
LEMMA FetchIs ==
  ASSUME IInv, Fetch
  PROVE  /\ UNCHANGED <<pc, todo, late, timer, flux, speed, nr, k, prod, bcdone, made>>
         /\ timer /\ pace >= speed /\ pace' = 0 /\ dmacons' = Mask(dmacons + 1)
         /\ \/ under'
            \/ /\ ~under' /\ ~under /\ taken < made /\ taken' = taken + 1 /\ stale' = stale
            \/ /\ ~under' /\ ~under /\ taken = made /\ made = flux /\ taken' = taken
               /\ stale' = IF stale < Size THEN stale + 1 ELSE Size
<1>1. /\ UNCHANGED <<pc, todo, late, timer, flux, speed, nr, k, prod, bcdone, made>>
      /\ timer /\ pace >= speed /\ pace' = 0 /\ dmacons' = Mask(dmacons + 1)
      /\ taken' = IF taken < made /\ ~under THEN taken + 1 ELSE taken
      /\ stale' = IF taken = made /\ made = flux /\ ~under THEN Least(stale + 1, Size) ELSE stale
  BY DEF Fetch, job, batch, hw
<1>2. under' <=> under \/ (taken = made /\ made < flux)
  BY DEF Fetch
<1>3. Least(stale + 1, Size) = IF stale < Size THEN stale + 1 ELSE Size
  BY Types DEF Least
<1>4. CASE under \/ (taken = made /\ made < flux)
  BY <1>1, <1>2, <1>4
<1>5. CASE ~under /\ taken < made
  <2>1. ~under'
    BY <1>2, <1>5, Types
  <2>2. taken' = taken + 1 /\ stale' = stale
    BY <1>1, <1>5, Types
  <2>3. QED
    BY <1>1, <1>5, <2>1, <2>2
<1>6. CASE ~under /\ taken = made /\ made = flux
  <2>1. ~under' /\ ~(taken < made)
    BY <1>2, <1>6, Types
  <2>2. taken' = taken /\ stale' = Least(stale + 1, Size)
    BY <1>1, <1>6, <2>1
  <2>3. QED
    BY <1>1, <1>3, <1>6, <2>1, <2>2
<1>7. QED
  BY <1>1, <1>4, <1>5, <1>6, Types

LEMMA OvershootStep ==
  ASSUME IInv, OvershootInv, Next
  PROVE  OvershootInv'
<1>0. /\ ~under /\ stale < Size => Mask(dmacons + (made - taken)) = Mask(prod + k + stale)
      /\ ~under /\ stale > 0 => taken = made /\ made = flux
  BY DEF OvershootInv, IInv, PositionInv
<1>1. CASE Start
  BY <1>1, SizeAssumption DEF Start, Prep, OvershootInv, Mask
<1>2. CASE Poll
  <2>1. UNCHANGED <<made, prod, dmacons, taken, stale, under>> /\ k = 0 /\ k' = 0
    BY <1>2 DEF Poll, dma, IInv, BatchInv
  <2>2. QED
    BY <1>0, <2>1 DEF OvershootInv
<1>3. CASE Put
  <2>1. /\ UNCHANGED <<prod, dmacons, taken, stale, under>> /\ k' = k + 1 /\ made' = made + 1
        /\ k < nr /\ made < flux
    BY <1>3 DEF Put, dma
  <2>2. ~under => stale = 0 /\ made - taken <= Size - 1 /\ prod + nr <= Size
    BY <1>0, <2>1, Types DEF IInv, BatchInv, PositionInv, Sound
  <2>3. ~under => (made - taken) + (nr - k) <= Size - 1
    BY <2>2 DEF IInv, BatchInv, Sound
  <2>4. QED
    BY <1>0, <2>1, <2>2, <2>3, Types DEF OvershootInv, Mask
<1>4. CASE Commit
  <2>1. /\ UNCHANGED <<made, dmacons, taken, stale, under>> /\ k' = 0 /\ prod' = Mask(prod + k)
    BY <1>4 DEF Commit, dma
  <2>2. stale < Size => Mask(Mask(prod + k) + 0 + stale) = Mask(prod + k + stale)
    BY Types DEF Mask
  <2>3. QED
    BY <1>0, <2>1, <2>2 DEF OvershootInv
<1>5. CASE Calm
  BY <1>0, <1>5, CalmIs DEF OvershootInv
<1>6. CASE Fetch
  <2> SUFFICES ASSUME ~under', stale' < Size
               PROVE  Mask(dmacons' + (made - taken')) = Mask(prod + k + stale')
    BY <1>6, FetchIs DEF OvershootInv
  <2>1. CASE taken < made /\ taken' = taken + 1 /\ stale' = stale /\ ~under
    <3>1. stale = 0 /\ made - taken <= Size - 1
      BY <1>0, <2>1, Types DEF IInv, PositionInv, Sound
    <3>2. dmacons' = Mask(dmacons + 1)
      BY <1>6, FetchIs
    <3>3. Mask(Mask(dmacons + 1) + (made - (taken + 1))) = Mask(dmacons + (made - taken))
      BY <2>1, <3>1, Types DEF Mask
    <3>4. QED
      BY <1>0, <2>1, <3>1, <3>2, <3>3, Types
  <2>2. CASE taken = made /\ taken' = taken /\ ~under
             /\ stale' = IF stale < Size THEN stale + 1 ELSE Size
    <3>1. stale < Size /\ stale' = stale + 1 /\ stale + 1 < Size
      BY <2>2, Types
    <3>2. Mask(dmacons + (made - taken)) = Mask(prod + k + stale) /\ dmacons' = Mask(dmacons + 1)
      BY <1>0, <1>6, <2>2, <3>1, FetchIs
    <3>3. QED
      BY <2>2, <3>1, <3>2, Types DEF Mask
  <2>3. QED
    BY <1>6, <2>1, <2>2, FetchIs
<1>7. CASE IndexPulse
  <2>1. UNCHANGED <<made, dmacons, prod, k, taken, stale, under>>
    BY <1>7 DEF IndexPulse, batch, dma
  <2>2. QED
    BY <1>0, <2>1 DEF OvershootInv
<1>8. QED
  BY <1>1, <1>2, <1>3, <1>4, <1>5, <1>6, <1>7 DEF Next, Cpu, Calm

\* The first conjunct of TailInv.
LEMMA LoopStep ==
  ASSUME IInv, TailInv, Next
  PROVE  timer' /\ pc' \in {"poll", "put", "check"} => todo' = Size
<1> SUFFICES ASSUME timer', pc' \in {"poll", "put", "check"}
             PROVE  todo' = Size
  OBVIOUS
<1>0. timer /\ pc \in {"poll", "put", "check"} => todo = Size
  BY DEF TailInv
<1>1. CASE Start
  BY <1>1 DEF Start, Prep, hw, IInv, PhaseInv, Writing
<1>2. CASE Poll \/ Put \/ Commit
  BY <1>0, <1>2 DEF Poll, Put, Commit, hw
<1>3. CASE OpenGate \/ Check
  BY <1>3 DEF OpenGate, Check, ToLoop
<1>4. CASE Fetch \/ IndexPulse
  BY <1>0, <1>4 DEF Fetch, IndexPulse, hw
<1>5. CASE EnableDma \/ ArmIndex \/ CallWrite \/ SetStop
  BY <1>5 DEF EnableDma, ArmIndex, CallWrite, SetStop
<1>6. CASE DrainCheck \/ DrainPoll \/ CloseGate \/ StopDma
  BY <1>6 DEF DrainCheck, DrainPoll, CloseGate, StopDma
<1>7. QED
  BY <1>1, <1>2, <1>3, <1>4, <1>5, <1>6 DEF Next, Cpu

\* What makes TailBound hold is not to be had back within a write.
LEMMA PacedBefore ==
  ASSUME IInv, Next, ~Start, ~under', ~late'
  PROVE  speed' = speed /\ ~under /\ ~late
<1>1. CASE Poll \/ Put \/ Commit
  BY <1>1 DEF Poll, Put, Commit, job, dma
<1>2. CASE EnableDma \/ ArmIndex \/ CallWrite \/ SetStop \/ OpenGate
  BY <1>2 DEF EnableDma, ArmIndex, CallWrite, SetStop, OpenGate, job, dma
<1>3. CASE Check \/ DrainCheck \/ DrainPoll
  <2>1. (late' <=> PastEnd) /\ UNCHANGED <<job, dma>>
    BY <1>3 DEF Check, DrainCheck, DrainPoll
  <2>2. ~late
    BY <2>1, Zenon DEF PastEnd
  <2>3. QED
    BY <2>1, <2>2 DEF job, dma
<1>4. CASE CloseGate \/ StopDma
  BY <1>4 DEF CloseGate, StopDma, job, dma
<1>5. CASE Fetch \/ IndexPulse
  <2>1. UNCHANGED <<job, late>> /\ ~under
    <3>1. CASE Fetch
      <4>1. under' = (under \/ (taken = made /\ made < flux)) /\ UNCHANGED <<job, late>>
        BY <3>1 DEF Fetch
      <4>2. QED
        BY <4>1, Zenon
    <3>2. CASE IndexPulse
      BY <3>2 DEF IndexPulse, dma
    <3>3. QED
      BY <1>5, <3>1, <3>2
  <2>2. QED
    BY <2>1 DEF job
<1>6. QED
  BY <1>1, <1>2, <1>3, <1>4, <1>5 DEF Next, Cpu

LEMMA TailStep ==
  ASSUME IInv, OvershootInv, TailInv, Next
  PROVE  TailInv'
<1> SUFFICES ASSUME Size > 4, speed' >= 1, ~under', ~late'
             PROVE  TailBound'
  BY LoopStep DEF TailInv
<1>0. Due \in 0 .. 1 /\ Due' \in 0 .. 1
  BY DEF Due
<1>c. PICK b \in 0 .. 1 : Due' = b
  BY <1>0
<1>1. CASE Start
  <2>1. pc' = "poll" /\ stale' = 0
    BY <1>1 DEF Start, Prep
  <2>2. stale' + Due' <= 2
    BY <1>0, <1>c, <2>1
  <2>3. QED
    BY <2>1, <2>2 DEF TailBound
<1> SUFFICES ASSUME ~Start
             PROVE  TailBound'
  BY <1>1
<1>a. speed' = speed /\ ~under /\ ~late
  BY PacedBefore
<1>b. TailBound /\ (timer /\ pc \in {"poll", "put", "check"} => todo = Size)
  BY <1>a DEF TailInv
<1>2. CASE Poll
  <2>1. pc = "poll" /\ pc' = "put" /\ stale' = stale
    BY <1>2 DEF Poll, dma
  <2>2. QED
    BY <1>0, <1>c, <1>b, <2>1, Types DEF TailBound
<1>3. CASE Put
  <2>1. pc = "put" /\ pc' = "put" /\ stale' = stale /\ made < flux
    BY <1>3 DEF Put, dma
  <2>2. stale = 0
    BY <1>a, <2>1, Types DEF IInv, PositionInv
  <2>3. stale' + Due' <= 3
    BY <1>0, <1>c, <2>1, <2>2
  <2>4. QED
    BY <2>1, <2>3 DEF TailBound
<1>4. CASE Commit
  <2>1. pc = "put" /\ pc' \in {"check", "enable"} /\ stale' = stale
    BY <1>4 DEF Commit, dma
  <2>2. QED
    BY <1>0, <1>c, <1>b, <2>1, Types DEF TailBound
<1>5. CASE EnableDma \/ ArmIndex \/ CallWrite
  <2>1. pc' \in {"start", "ready", "await"}
    BY <1>5 DEF EnableDma, ArmIndex, CallWrite
  <2>2. QED
    BY <2>1 DEF TailBound
<1>6. CASE SetStop
  <2>1. pc' = "gate" /\ stale' = stale /\ stale = 0
    BY <1>6, <1>a DEF SetStop, dma, IInv, PhaseInv, Sound, Writing
  <2>2. stale' + Due' <= 1
    BY <1>0, <1>c, <2>1
  <2>3. QED
    BY <2>1, <2>2 DEF TailBound
<1>7. CASE OpenGate
  <2>1. pc = "gate" /\ pc' \in {"drain", "poll"} /\ todo' = Size /\ stale' = stale
    BY <1>7 DEF OpenGate, ToLoop, dma
  <2>2. QED
    BY <1>0, <1>c, <1>b, <2>1, Types DEF TailBound
<1>8. CASE Check
  <2>1. /\ pc = "check" /\ timer /\ stale' = stale
        /\ \/ pc' = "out"
           \/ pc' \in {"drain", "poll"} /\ todo' = Size
    BY <1>8 DEF Check, ToLoop, dma, IInv, PhaseInv
  <2>2. ~(todo = Size /\ stale > 0)
    BY <1>8 DEF Check, PastEnd
  <2>3. stale = 0
    BY <1>b, <2>1, <2>2, Types
  <2>4. stale' + Due' <= 2
    BY <1>0, <1>c, <2>1, <2>3
  <2>5. QED
    BY <2>1, <2>4, Types DEF TailBound
<1>9. CASE DrainCheck
  <2>1. /\ pc = "drain" /\ UNCHANGED <<stale, todo, made, taken>> /\ pc' \in {"out", "draining"}
    BY <1>9 DEF DrainCheck, dma, batch
  <2>2. ~(todo = Size /\ stale > 0)
    BY <1>9 DEF DrainCheck, PastEnd
  <2>3. CASE todo = Size
    <3>1. stale = 0
      BY <2>2, <2>3, Types
    <3>2. stale' + Due' <= 2
      BY <1>0, <1>c, <2>1, <3>1
    <3>3. QED
      BY <2>1, <2>3, <3>2 DEF TailBound
  <2>4. CASE todo # Size
    <3>1. todo >= 1 /\ (todo - (made - taken)) + stale + Due <= 1
      BY <1>b, <2>1, <2>4 DEF TailBound
    <3>2. stale = 0 => made - taken <= todo
      BY <1>a, <2>1 DEF IInv, DrainInv, Sound
    <3>3. stale > 0 => made = taken
      BY <1>a DEF IInv, PositionInv
    <3>4. stale = 0
      BY <1>0, <1>c, <3>1, <3>3, Types
    <3>5. (todo - (made - taken)) + stale + Due' <= 2
      BY <1>0, <1>c, <3>1, Types
    <3>6. stale + Due' <= 2
      BY <1>0, <1>c, <3>4, Types
    <3>7. QED
      BY <2>1, <2>4, <3>1, <3>5, <3>6 DEF TailBound
  <2>5. QED
    BY <2>3, <2>4
<1>10. CASE DrainPoll
  <2>1. /\ pc = "draining" /\ UNCHANGED <<stale, made, taken>> /\ todo' = Mask(prod - dmacons)
        /\ k = 0 /\ bcdone
    BY <1>10 DEF DrainPoll, dma, batch, IInv, BatchInv, DrainInv
  <2>2. \/ pc' = "drain" /\ todo' # 0 /\ todo' <= todo
        \/ pc' = "out" /\ (todo' = 0 \/ ~(todo' <= todo))
    BY <1>10 DEF DrainPoll, KeepDraining
  <2>3. ~(todo = Size /\ stale > 0)
    BY <1>10 DEF DrainPoll, PastEnd
  <2>4. todo' \in 0 .. Size - 1
    BY <2>1, Types DEF Mask
  <2>5. CASE stale = 0
    <3>1. Mask(dmacons + (made - taken)) = Mask(prod + k) /\ made - taken <= Size - 1
      BY <1>a, <2>5 DEF IInv, PositionInv, Sound
    <3>2. todo' = made - taken
      BY <2>1, <3>1, Types DEF Mask
    <3>3. (todo' - (made - taken)) + stale + Due' <= 1 /\ stale + Due' <= 2
      <4> DEFINE m == made - taken
      <4>1. m \in Int /\ todo' = m /\ stale = 0
        BY <2>5, <3>2, Types
      <4> HIDE DEF m
      <4>2. (todo' - m) + stale + Due' <= 1 /\ stale + Due' <= 2
        BY <1>0, <1>c, <4>1
      <4>3. QED
        BY <4>2 DEF m
    <3>4. todo' # 0 => todo' >= 1 /\ todo' # Size
      BY <2>4, Types
    <3>5. QED
      BY <2>1, <2>2, <3>3, <3>4 DEF TailBound
  <2>6. CASE stale # 0
    <3>1. todo # Size /\ todo >= 1 /\ (todo - (made - taken)) + stale + Due <= 2
      BY <1>b, <2>1, <2>3, <2>6, Types DEF TailBound
    <3>2. made = taken
      BY <1>a, <2>6, Types DEF IInv, PositionInv
    <3>3. stale = 1 /\ todo = 1
      BY <1>0, <1>c, <2>6, <3>1, <3>2, Types
    <3>4. Mask(dmacons + (made - taken)) = Mask(prod + k + stale)
      BY <1>a, <3>3, Types DEF OvershootInv
    <3>5. todo' = Size - 1
      BY <2>1, <3>2, <3>3, <3>4, Types DEF Mask
    <3>6. pc' = "out"
      BY <2>2, <3>3, <3>5, Types
    <3>7. QED
      <4>1. stale' + Due' <= 2
        BY <1>0, <1>c, <2>1, <3>3
      <4>2. QED
        BY <3>6, <4>1 DEF TailBound
  <2>7. QED
    BY <2>5, <2>6
<1>11. CASE CloseGate \/ StopDma
  <2>1. /\ \/ pc = "out" /\ pc' = "off"
           \/ pc = "off" /\ pc' = "idle"
        /\ stale' = stale
    BY <1>11 DEF CloseGate, StopDma, dma
  <2>2. QED
    BY <1>0, <1>c, <1>b, <2>1, Types DEF TailBound
<1>12. CASE Fetch
  <2>1. Due = 1 /\ Due' = 0
    <3>1. pace >= speed /\ pace' = 0 /\ speed' = speed
      BY <1>12, FetchIs
    <3>2. QED
      BY <3>1, Types DEF Due
  <2>2. /\ UNCHANGED <<pc, todo, made>> /\ timer
        /\ \/ taken' = taken + 1 /\ stale' = stale
           \/ taken' = taken /\ stale' \in {stale, stale + 1}
    BY <1>12, FetchIs, Types
  <2>3. pc # "idle"
    BY <2>2 DEF IInv, PhaseInv, Writing
  <2>4. stale' + Due' <= stale + Due /\ stale' \in Int
    BY <2>1, <2>2, Types
  <2>5. (todo - (made - taken')) + stale' + Due' <= (todo - (made - taken)) + stale + Due
    BY <2>1, <2>2, Types
  <2> DEFINE x == stale + Due  y == stale' + Due'
             z == (todo - (made - taken)) + stale + Due
             w == (todo - (made - taken')) + stale' + Due'
  <2>6. x \in Int /\ y \in Int /\ z \in Int /\ w \in Int
    BY <2>1, <2>2, <2>4, Types
  <2>7. /\ pc = "gate" => x <= 1
        /\ pc = "poll" => x <= 2
        /\ pc = "put" => x <= 3
        /\ pc = "check" => x <= 4
        /\ pc \in {"drain", "draining"} =>
             IF todo = Size THEN x <= 2
             ELSE todo >= 1 /\ z <= IF pc = "drain" THEN 1 ELSE 2
        /\ pc = "out" => x <= 2
        /\ pc = "off" => x <= 3
    BY <1>b DEF TailBound
  <2>8. y <= x /\ w <= z
    BY <2>4, <2>5
  <2> HIDE DEF x, y, z, w
  <2>9. /\ pc = "gate" => y <= 1
        /\ pc = "poll" => y <= 2
        /\ pc = "put" => y <= 3
        /\ pc = "check" => y <= 4
        /\ pc \in {"drain", "draining"} =>
             IF todo = Size THEN y <= 2
             ELSE todo >= 1 /\ w <= IF pc = "drain" THEN 1 ELSE 2
        /\ pc = "out" => y <= 2
        /\ pc = "off" => y <= 3
    BY <2>6, <2>7, <2>8
  <2>10. QED
    BY <2>2, <2>3, <2>9 DEF TailBound, y, w
<1>13. CASE IndexPulse
  <2>1. UNCHANGED <<pc, todo, stale, speed, pace, made, taken>>
    BY <1>13 DEF IndexPulse, batch, dma, job
  <2>2. QED
    BY <1>b, <2>1 DEF TailBound, Due
<1>14. QED
  BY <1>1, <1>2, <1>3, <1>4, <1>5, <1>6, <1>7, <1>8, <1>9, <1>10, <1>11, <1>12, <1>13
     DEF Next, Cpu

\* After the last reversal the DMA makes at most four loads before it is stopped, unless
\* it was past the end before the drain loop looked.
THEOREM StopsAfterData == Spec => []StaleTail
<1>1. Init => OvershootInv /\ TailInv
  <2>1. Init => OvershootInv
    BY SizeAssumption DEF Init, OvershootInv, Mask
  <2>2. Init => TailInv
    BY DEF Init, TailInv, TailBound
  <2>3. QED
    BY <2>1, <2>2
<1>2. IInv /\ OvershootInv /\ TailInv /\ [Next]_vars => OvershootInv' /\ TailInv'
  <2> SUFFICES ASSUME IInv, OvershootInv, TailInv, [Next]_vars
               PROVE  OvershootInv' /\ TailInv'
    OBVIOUS
  <2>1. CASE Next
    BY <2>1, OvershootStep, TailStep
  <2>2. CASE UNCHANGED vars
    BY <2>2 DEF vars, batch, dma, job, hw, OvershootInv, TailInv, TailBound, Due
  <2>3. QED
    BY <2>1, <2>2
<1>3. IInv /\ TailInv => StaleTail
  <2> SUFFICES ASSUME IInv, TailInv, speed >= 1, ~under, ~late, Size > 4
               PROVE  stale <= 4
    BY Types DEF StaleTail
  <2>1. Due \in {0, 1} /\ TailBound
    BY DEF Due, TailInv
  <2>2. CASE pc \in {"gate", "poll", "put", "check", "out", "off", "idle"}
    BY <2>1, <2>2, Types DEF TailBound
  <2>3. CASE pc \in {"drain", "draining"} /\ todo = Size
    BY <2>1, <2>3, Types DEF TailBound
  <2>4. CASE pc \in {"drain", "draining"} /\ todo # Size
    <3>1. /\ todo >= 1
          /\ (todo - (made - taken)) + stale + Due <= IF pc = "drain" THEN 1 ELSE 2
      BY <2>1, <2>4 DEF TailBound
    <3>2. stale > 0 => made = taken
      BY DEF IInv, PositionInv
    <3>3. QED
      BY <2>1, <3>1, <3>2, Types
  <2>5. CASE pc \in {"enable", "ready", "await", "start"}
    BY <2>5 DEF IInv, PhaseInv, Writing, Sound
  <2>6. QED
    BY <2>2, <2>3, <2>4, <2>5, Types
<1>4. QED
  BY <1>1, <1>2, <1>3, Invariance, PTL DEF Spec

(***************************************************************************)
(* Why the DMA does not run into the producer.                             *)
(***************************************************************************)
\* Ring and batch are not tiny, and what is written at such a pace has a reversal.
\* The code: 1024 and 32.
FillAssumption == /\ Size >= 5 /\ MinBatch >= 2
                  /\ 0 \in FluxCounts => \A s \in Paces(0) : s < 3

LEMMA JobKept ==
  ASSUME Next, ~Start
  PROVE  flux' = flux /\ speed' = speed
<1>1. CASE Poll \/ Put \/ Commit
  BY <1>1 DEF Poll, Put, Commit, job
<1>2. CASE EnableDma \/ ArmIndex \/ CallWrite \/ SetStop \/ OpenGate
  BY <1>2 DEF EnableDma, ArmIndex, CallWrite, SetStop, OpenGate, job
<1>3. CASE Check \/ DrainCheck \/ DrainPoll
  BY <1>3 DEF Check, DrainCheck, DrainPoll, job
<1>4. CASE CloseGate \/ StopDma
  BY <1>4 DEF CloseGate, StopDma, job
<1>5. CASE Fetch \/ IndexPulse
  BY <1>5 DEF Fetch, IndexPulse, job
<1>6. QED
  BY <1>1, <1>2, <1>3, <1>4, <1>5 DEF Next, Cpu

\* A step of the CPU takes one from the lead; if it stores an entry it adds three.
LEMMA StepLead ==
  ASSUME IInv, CpuStep, NEW n \in {0, 1}, made' = made + n, taken' = taken
  PROVE  \E x \in Int : Lead' = x /\ x >= Lead + 3 * n - 1
<1> DEFINE p == Least(pace, 3)  pp == Least(Least(pace + 1, speed), 3)
           m == made - taken    x == 3 * (m + n) - pp
<1>1. p \in Int /\ pp \in Int /\ pp <= p + 1 /\ m \in Int
  BY Types DEF Least
<1>2. Lead = 3 * m - p
  BY DEF Lead
<1>3. made' - taken' = m + n
  BY Types
<1>4. pace' = Least(pace + 1, speed)
  BY DEF CpuStep
<1>5. Lead' = x
  BY <1>3, <1>4 DEF Lead
<1> HIDE DEF p, pp, m
<1>6. x \in Int /\ x >= Lead + 3 * n - 1
  BY <1>1, <1>2
<1> HIDE DEF x
<1>7. QED
  BY <1>5, <1>6

LEMMA CalmLead ==
  ASSUME IInv, CpuStep, made' = made, taken' = taken
  PROVE  \E x \in Int : Lead' = x /\ x >= Lead - 1
<1>1. made' = made + 0
  BY Types
<1>2. PICK x \in Int : Lead' = x /\ x >= Lead + 3 * 0 - 1
  BY <1>1, StepLead
<1>3. Lead \in Int
  BY Types DEF Lead, Least
<1>4. x >= Lead - 1
  BY <1>2, <1>3
<1>5. QED
  BY <1>2, <1>4

LEMMA LeadTypes ==
  ASSUME IInv
  PROVE  /\ Lead \in Int /\ AtWrap \in 0 .. 1 /\ (prod = Size - 1 <=> AtWrap = 1)
         /\ Lead <= 3 * (made - taken) /\ Lead >= 3 * (made - taken) - 3
         /\ pace >= 3 => Lead = 3 * (made - taken) - 3
BY Types DEF Lead, Least, AtWrap

LEMMA FillStep ==
  ASSUME FillAssumption, IInv, FillInv, Next
  PROVE  FillInv'
<1> SUFFICES ASSUME speed' >= 3
             PROVE  Filled'
  BY DEF FillInv
<1>1. CASE Start
  <2>1. PICK f \in FluxCounts : flux' = f /\ speed' \in Paces(f)
    BY <1>1 DEF Start, Prep
  <2>2. f \in Nat /\ speed' \in Nat
    BY <2>1, JobAssumption, PaceAssumption
  <2>3. f # 0
    BY <2>1, <2>2 DEF FillAssumption
  <2>4. flux' >= 1
    BY <2>1, <2>2, <2>3
  <2>5. pc' = "poll" /\ prod' = 0 /\ ~under' /\ ~late' /\ timer' = timer /\ ~timer
    BY <1>1 DEF Start, Prep, hw, IInv, PhaseInv, Writing
  <2>6. QED
    BY <2>4, <2>5 DEF Filled
<1> SUFFICES ASSUME ~Start
             PROVE  Filled'
  BY <1>1
<1>a. flux' = flux /\ Filled /\ speed >= 3 /\ ~under /\ ~late /\ flux >= 1 /\ flux' >= 1
  BY JobKept DEF FillInv, Filled
<1>b. /\ Lead \in Int /\ AtWrap \in 0 .. 1 /\ (prod = Size - 1 <=> AtWrap = 1)
      /\ Lead <= 3 * (made - taken) /\ Lead >= 3 * (made - taken) - 3
      /\ pace >= 3 => Lead = 3 * (made - taken) - 3
  BY LeadTypes
<1>c. Size >= 5 /\ MinBatch >= 2 /\ MinBatch \in Nat
  BY BatchAssumption DEF FillAssumption
<1>d. ~timer /\ pc # "idle" => dmacons = 0 /\ taken = 0 /\ stale = 0
  BY DEF IInv, PhaseInv, Sound
<1>e. stale = 0 => /\ Mask(dmacons + (made - taken)) = Mask(prod + k)
                  /\ made - taken <= Size - 1
  BY <1>a DEF IInv, PositionInv, Sound
<1>2. CASE Poll
  <2>1. /\ pc = "poll" /\ pc' = "put" /\ nr' = Batch /\ k' = 0 /\ k = 0 /\ CpuStep
        /\ UNCHANGED <<prod, made, taken, stale, timer, under, late>>
    BY <1>2 DEF Poll, dma, hw, IInv, BatchInv
  <2>2. AtWrap' = AtWrap
    BY <2>1 DEF AtWrap
  <2>3. PICK x \in Int : Lead' = x /\ x >= Lead - 1
    BY <2>1, CalmLead
  <2>4. ToWrap = Size - prod /\ ToCons \in 0 .. Size - 1
        /\ (stale = 0 => (made - taken) + ToCons = Size - 1)
    BY <1>e, <2>1, Types DEF ToWrap, ToCons, Mask
  <2>5. /\ ToWrap >= 2 /\ ToCons >= 2 => Batch >= 2
        /\ ToWrap = 1 /\ ToCons >= 2 => Batch = 1
    BY <1>c, <2>4, Types DEF Batch, Room, Least, Most
  <2>6. Batch \in Int
    BY BatchRange, Types DEF IInv
  <2>7. CASE timer
    <3>1. stale = 0 /\ Lead >= 2 + AtWrap
      BY <1>a, <2>1, <2>7 DEF Filled
    <3>2. x >= 1 + AtWrap + 2 * 0
      BY <1>b, <2>3, <3>1
    <3>3. Batch >= 2 \/ (Batch = 1 /\ prod = Size - 1) \/ x >= 5 + 2 * 0
      <4>1. CASE ToCons >= 2
        BY <2>4, <2>5, <4>1, Types
      <4>2. CASE ~(ToCons >= 2)
        BY <1>b, <1>c, <2>3, <2>4, <3>1, <4>2, Types
      <4>3. QED
        BY <4>1, <4>2
    <3>4. timer'
      BY <2>1, <2>7
    <3>5. QED
      BY <1>a, <2>1, <2>2, <2>3, <3>1, <3>2, <3>3, <3>4 DEF Filled
  <2>8. CASE ~timer
    <3>1. prod = 0 /\ ~timer'
      BY <1>a, <2>1, <2>8 DEF Filled
    <3>2. ToWrap >= 2 /\ ToCons >= 2
      BY <1>c, <1>d, <2>1, <2>4, <2>8, <3>1, Types DEF ToCons, Mask
    <3>3. QED
      BY <1>a, <2>1, <2>5, <3>1, <3>2 DEF Filled
  <2>9. QED
    BY <2>7, <2>8
<1>3. CASE Put
  <2>1. /\ pc = "put" /\ pc' = "put" /\ nr' = nr /\ k' = k + 1 /\ CpuStep
        /\ made' = made + 1 /\ UNCHANGED <<prod, taken, stale, timer, under, late>>
    BY <1>3 DEF Put, dma, hw
  <2>2. AtWrap' = AtWrap
    BY <2>1 DEF AtWrap
  <2>3. PICK x \in Int : Lead' = x /\ x >= Lead + 3 * 1 - 1
    BY <2>1, StepLead
  <2>4. CASE timer
    <3>1. /\ stale = 0 /\ Lead >= 1 + AtWrap + 2 * k
          /\ nr >= 2 \/ (nr = 1 /\ prod = Size - 1) \/ Lead >= 5 + 2 * k
      BY <1>a, <2>1, <2>4 DEF Filled
    <3>2. /\ x >= 1 + AtWrap + 2 * (k + 1)
          /\ nr >= 2 \/ (nr = 1 /\ prod = Size - 1) \/ x >= 5 + 2 * (k + 1)
      BY <1>b, <2>3, <3>1, Types
    <3>3. timer'
      BY <2>1, <2>4
    <3>4. QED
      BY <1>a, <2>1, <2>2, <2>3, <3>1, <3>2, <3>3 DEF Filled
  <2>5. CASE ~timer
    <3>1. prod = 0 /\ nr >= 2 /\ ~timer'
      BY <1>a, <2>1, <2>5 DEF Filled
    <3>2. QED
      BY <1>a, <2>1, <3>1 DEF Filled
  <2>6. QED
    BY <2>4, <2>5
<1>4. CASE Commit
  <2>1. /\ pc = "put" /\ pc' = (IF dmaOn THEN "check" ELSE "enable") /\ k' = 0 /\ CpuStep
        /\ UNCHANGED <<made, taken, stale, timer, under, late>> /\ prod' = Mask(prod + k)
        /\ k = nr \/ made = flux
    BY <1>4 DEF Commit, dma, hw
  <2>2. ~bcdone' => ~(k < nr)
    BY <1>4 DEF Commit, CellsConsumed
  <2>3. PICK x \in Int : Lead' = x /\ x >= Lead - 1
    BY <2>1, CalmLead
  <2>4. CASE timer
    <3>1. pc' = "check"
      BY <2>1, <2>4 DEF IInv, PhaseInv
    <3>2. /\ stale = 0 /\ Lead >= 1 + AtWrap + 2 * k
          /\ nr >= 2 \/ (nr = 1 /\ prod = Size - 1) \/ Lead >= 5 + 2 * k
      BY <1>a, <2>1, <2>4 DEF Filled
    <3>3. x >= 0
      BY <1>b, <2>3, <3>2, Types
    <3>4. ASSUME ~bcdone'
          PROVE  x >= 3 + AtWrap'
      <4>1. PICK w \in 0 .. 1 : AtWrap' = w /\ (w = 1 => prod' = Size - 1)
        BY DEF AtWrap
      <4>2. k = nr
        BY <2>2, <3>4, Types
      <4>3. CASE nr >= 2 \/ Lead >= 5 + 2 * k
        BY <1>b, <2>3, <3>2, <4>1, <4>2, <4>3, Types
      <4>4. CASE nr = 1 /\ prod = Size - 1
        <5>1. prod' = 0
          BY <2>1, <4>2, <4>4, Types DEF Mask
        <5>2. w = 0
          BY <1>c, <4>1, <5>1, Types
        <5>3. QED
          BY <1>b, <2>3, <3>2, <4>1, <4>2, <4>4, <5>2, Types
      <4>5. QED
        BY <3>2, <4>3, <4>4
    <3>5. stale' = 0 /\ ~under' /\ ~late'
      BY <1>a, <2>1, <3>2
    <3>6. Lead' >= IF bcdone' THEN 0 ELSE 3 + AtWrap'
      BY <2>3, <3>3, <3>4
    <3>7. QED
      BY <1>a, <3>1, <3>5, <3>6 DEF Filled
  <2>5. CASE ~timer
    <3>1. pc' = "enable" /\ ~timer'
      BY <2>1, <2>5 DEF IInv, PhaseInv
    <3>2. prod = 0 /\ nr >= 2
      BY <1>a, <2>1, <2>5 DEF Filled
    <3>3. made = k
      BY <1>d, <1>e, <2>1, <2>5, <3>2, Types DEF Mask
    <3>4. made >= 1 /\ (~bcdone' => made >= 2)
      BY <1>a, <2>1, <2>2, <3>2, <3>3, Types
    <3>5. made' >= IF bcdone' THEN 1 ELSE 2
      BY <2>1, <3>4, Types
    <3>6. ~under' /\ ~late'
      BY <1>a, <2>1
    <3>7. QED
      BY <1>a, <3>1, <3>5, <3>6 DEF Filled
  <2>6. QED
    BY <2>4, <2>5
<1>5. CASE EnableDma \/ ArmIndex \/ CallWrite
  <2>1. /\ pc \in {"enable", "ready", "await"} /\ pc' \in {"start", "ready", "await"}
        /\ UNCHANGED <<made, bcdone, under, late>>
    BY <1>5 DEF EnableDma, ArmIndex, CallWrite, batch, dma
  <2>2. made >= IF bcdone THEN 1 ELSE 2
    BY <1>a, <2>1 DEF Filled
  <2>3. QED
    BY <1>a, <2>1, <2>2 DEF Filled
<1>6. CASE SetStop
  <2>1. /\ pc = "start" /\ pc' = "gate" /\ UNCHANGED <<prod, made, taken, bcdone, stale, under, late>>
        /\ ~timer /\ CpuStep /\ k = 0
    BY <1>6 DEF SetStop, dma, batch, IInv, PhaseInv, Writing, BatchInv
  <2>2. made >= IF bcdone THEN 1 ELSE 2
    BY <1>a, <2>1 DEF Filled
  <2>3. taken = 0 /\ stale = 0 /\ dmacons = 0 /\ made = prod
    BY <1>d, <1>e, <2>1, Types DEF Mask
  <2>4. PICK x \in Int : Lead' = x /\ x >= 3 * made - 3
    <3> DEFINE y == Least(Least(pace + 1, speed), 3)
    <3>1. y \in Int /\ y <= 3
      BY Types DEF Least
    <3>2. Lead' = 3 * (made - 0) - y
      BY <2>1, <2>3 DEF Lead, CpuStep
    <3> HIDE DEF y
    <3>3. 3 * (made - 0) - y \in Int /\ 3 * (made - 0) - y >= 3 * made - 3
      BY <3>1, Types
    <3>4. QED
      BY <3>2, <3>3
  <2>5. AtWrap' = AtWrap
    BY <2>1 DEF AtWrap
  <2>6. IF bcdone THEN x >= 0 ELSE x >= 3 + AtWrap
    BY <1>b, <1>c, <2>2, <2>3, <2>4, Types
  <2>7. bcdone' = bcdone /\ stale' = 0 /\ ~under' /\ ~late'
    BY <1>a, <2>1, <2>3
  <2>8. QED
    BY <1>a, <2>1, <2>4, <2>5, <2>6, <2>7 DEF Filled
<1>7. CASE OpenGate
  <2>1. /\ pc = "gate" /\ pc' = (IF bcdone THEN "drain" ELSE "poll") /\ todo' = Size
        /\ UNCHANGED <<prod, made, taken, stale, under, late>> /\ timer' /\ CpuStep
    BY <1>7 DEF OpenGate, ToLoop, dma, IInv, PhaseInv
  <2>2. stale = 0 /\ Lead >= IF bcdone THEN 0 ELSE 3 + AtWrap
    BY <1>a, <2>1 DEF Filled
  <2>3. PICK x \in Int : Lead' = x /\ x >= Lead - 1
    BY <2>1, CalmLead
  <2>4. AtWrap' = AtWrap
    BY <2>1 DEF AtWrap
  <2>5. IF bcdone THEN x >= -1 ELSE x >= 2 + AtWrap
    BY <1>b, <2>2, <2>3
  <2>6. QED
    BY <1>a, <2>1, <2>2, <2>3, <2>4, <2>5 DEF Filled
<1>8. CASE Check
  <2>1. /\ pc = "check" /\ UNCHANGED <<prod, made, taken, stale, under>> /\ timer' /\ CpuStep
        /\ \/ pc' = "out"
           \/ bcdone /\ pc' = "drain"
           \/ ~bcdone /\ pc' = "poll"
    BY <1>8 DEF Check, ToLoop, dma, batch, hw, IInv, PhaseInv
  <2>2. stale = 0 /\ Lead >= IF bcdone THEN 0 ELSE 3 + AtWrap
    BY <1>a, <2>1 DEF Filled
  <2>3. PICK x \in Int : Lead' = x /\ x >= Lead - 1
    BY <2>1, CalmLead
  <2>4. AtWrap' = AtWrap
    BY <2>1 DEF AtWrap
  <2>5. IF bcdone THEN x >= -1 ELSE x >= 2 + AtWrap
    BY <1>b, <2>2, <2>3
  <2>6. ~under' /\ ~late'
    <3>1. late' <=> PastEnd
      BY <1>8 DEF Check
    <3>2. ~PastEnd
      BY <1>a, <2>2, Types DEF PastEnd
    <3>3. QED
      BY <1>a, <2>1, <3>1, <3>2
  <2>7. bcdone => made = flux
    BY DEF IInv, DrainInv
  <2>8. pc' = "out" => made' = flux' \/ x >= 2
    BY <1>a, <1>b, <2>1, <2>5, <2>7
  <2>9. stale' = 0
    BY <2>1, <2>2
  <2>10. pc' = "drain" => bcdone
    BY <2>1
  <2>11. QED
    BY <1>a, <2>1, <2>3, <2>4, <2>5, <2>6, <2>8, <2>9, <2>10 DEF Filled
<1>9. CASE DrainCheck
  <2>1. /\ pc = "drain" /\ UNCHANGED <<made, taken, stale, under, todo>> /\ CpuStep
        /\ pc' \in {"out", "draining"} /\ made = flux
    BY <1>9 DEF DrainCheck, dma, batch, IInv, DrainInv
  <2>2. todo = Size => stale = 0 /\ Lead >= -1
    BY <1>a, <2>1 DEF Filled
  <2>3. PICK x \in Int : Lead' = x /\ x >= Lead - 1
    BY <2>1, CalmLead
  <2>4. todo = Size => x >= -2
    BY <1>b, <2>2, <2>3
  <2>5. ~under' /\ ~late'
    <3>1. late' <=> PastEnd
      BY <1>9 DEF DrainCheck
    <3>2. ~PastEnd
      BY <1>a, <2>2, Types DEF PastEnd
    <3>3. QED
      BY <1>a, <2>1, <3>1, <3>2
  <2>6. QED
    BY <1>a, <2>1, <2>2, <2>3, <2>4, <2>5 DEF Filled
<1>10. CASE DrainPoll
  <2>1. /\ pc = "draining" /\ UNCHANGED <<made, under>> /\ pc' \in {"drain", "out"}
        /\ made = flux /\ todo' = Mask(prod - dmacons)
    BY <1>10 DEF DrainPoll, dma, batch, IInv, DrainInv
  <2>2. todo' \in 0 .. Size - 1
    BY <2>1, Types DEF Mask
  <2>3. todo' # Size
    BY <2>2, Types
  <2>4. todo = Size => stale = 0
    BY <1>a, <2>1 DEF Filled
  <2>5. ~under' /\ ~late'
    <3>1. late' <=> PastEnd
      BY <1>10 DEF DrainPoll
    <3>2. ~PastEnd
      BY <1>a, <2>4, Types DEF PastEnd
    <3>3. QED
      BY <1>a, <2>1, <3>1, <3>2
  <2>6. QED
    BY <1>a, <2>1, <2>3, <2>5 DEF Filled
<1>11. CASE CloseGate \/ StopDma
  <2>1. /\ \/ pc = "out" /\ pc' = "off"
           \/ pc = "off" /\ pc' = "idle"
        /\ UNCHANGED <<made, taken, under, late>> /\ CpuStep
    BY <1>11 DEF CloseGate, StopDma, dma, batch
  <2>2. PICK x \in Int : Lead' = x /\ x >= Lead - 1
    BY <2>1, CalmLead
  <2>3. pc' = "off" => made = flux \/ x >= 1
    <3>1. pc' = "off" => made = flux \/ Lead >= 2
      BY <1>a, <2>1 DEF Filled
    <3>2. QED
      BY <1>b, <2>2, <3>1
  <2>4. QED
    BY <1>a, <2>1, <2>2, <2>3 DEF Filled
<1>12. CASE Fetch
  <2>1. /\ UNCHANGED <<pc, todo, late, timer, nr, k, prod, bcdone, made>>
        /\ timer /\ pace >= 3 /\ pace' = 0
    BY <1>12, <1>a, FetchIs, Types
  <2>2. pc \in {"gate", "poll", "put", "check", "drain", "draining", "out", "off"}
    BY <2>1 DEF IInv, PhaseInv, Writing
  <2>3. pc \in {"drain", "draining"} => made = flux
    BY DEF IInv, DrainInv
  <2>4. CASE taken < made
    <3>1. ~under' /\ taken' = taken + 1 /\ stale' = stale
      <4>1. under' <=> under \/ (taken = made /\ made < flux)
        BY <1>12 DEF Fetch
      <4>2. ~under'
        BY <1>a, <2>4, <4>1, Types
      <4>3. QED
        BY <1>12, <2>4, <4>2, FetchIs, Types
    <3>2. Lead' = 3 * (made - (taken + 1)) - 0
      <4>1. Least(pace', 3) = 0
        BY <2>1 DEF Least
      <4>2. QED
        BY <2>1, <3>1, <4>1 DEF Lead
    <3>3. 3 * (made - (taken + 1)) - 0 = Lead
      BY <1>b, <2>1, Types
    <3>4. Lead' = Lead /\ AtWrap' = AtWrap
      BY <2>1, <3>2, <3>3 DEF AtWrap
    <3>5. QED
      BY <1>a, <2>1, <3>1, <3>4 DEF Filled
  <2>5. CASE ~(taken < made)
    <3>1. Lead = -3
      BY <1>b, <2>1, <2>5, Types
    <3>2. made = flux /\ pc \in {"drain", "draining", "out", "off"}
          /\ (pc \in {"drain", "draining"} => todo # Size)
      BY <1>a, <1>b, <2>1, <2>2, <2>3, <3>1, Types DEF Filled
    <3>3. ~under'
      <4>1. under' <=> under \/ (taken = made /\ made < flux)
        BY <1>12 DEF Fetch
      <4>2. QED
        BY <1>a, <3>2, <4>1, Types
    <3>4. QED
      BY <1>a, <2>1, <3>2, <3>3 DEF Filled
  <2>6. QED
    BY <2>4, <2>5
<1>13. CASE IndexPulse
  <2>1. UNCHANGED <<pc, timer, todo, stale, under, late, made, taken, nr, k, prod, bcdone, pace, flux>>
    BY <1>13 DEF IndexPulse, batch, dma, job, hw
  <2>2. Lead' = Lead /\ AtWrap' = AtWrap
    BY <2>1 DEF Lead, AtWrap
  <2>3. QED
    BY <1>a, <2>1, <2>2 DEF Filled
<1>14. QED
  BY <1>1, <1>2, <1>3, <1>4, <1>5, <1>6, <1>7, <1>8, <1>9, <1>10, <1>11, <1>12, <1>13
     DEF Next, Cpu

\* A CPU that takes three steps or more per flux interval stays ahead of the DMA.
THEOREM NeverUnderrun == ASSUME FillAssumption PROVE Spec => []NoUnderrun
<1>1. Init => FillInv
  BY DEF Init, FillInv
<1>2. IInv /\ FillInv /\ [Next]_vars => FillInv'
  <2> SUFFICES ASSUME IInv, FillInv, [Next]_vars
               PROVE  FillInv'
    OBVIOUS
  <2>1. CASE Next
    BY <2>1, FillStep
  <2>2. CASE UNCHANGED vars
    BY <2>2 DEF vars, batch, dma, job, hw, FillInv, Filled, Lead, AtWrap
  <2>3. QED
    BY <2>1, <2>2
<1>3. FillInv => NoUnderrun
  BY DEF FillInv, Filled, NoUnderrun
<1>4. QED
  BY <1>1, <1>2, <1>3, Invariance, PTL DEF Spec
============================================================================
