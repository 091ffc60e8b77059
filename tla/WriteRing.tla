------------------------------ MODULE WriteRing ------------------------------
(***************************************************************************)
(* The write path of floppy_generic.c.  The CPU turns bitcells into flux   *)
(* intervals and puts them into the ring dma_w; circular DMA moves one     *)
(* entry into the timer's auto-reload register on every timer update; the  *)
(* INDEX interrupt counts revolutions.  The three run concurrently: the    *)
(* CPU learns how far the DMA has got only when it reads CNDTR, and the    *)
(* DMA never learns how far the CPU has got.                               *)
(*                                                                         *)
(* A bitcell buffer is represented by what the path depends on: the number *)
(* of flux reversals in it, and whether zero cells follow the last one.    *)
(* The i-th reversal of a write is the ring entry i; an entry that is not  *)
(* of this write is Stale.                                                 *)
(***************************************************************************)
EXTENDS Integers

CONSTANTS
  Size,        \* ARRAY_SIZE(dma_w.buf), 1024 in the code
  MinBatch,    \* smallest latency-sensitive batch, 32 in the code
  IndexMod,    \* index.count is an unsigned int: 2^32 in the code
  FluxCounts,  \* the numbers of flux reversals in the buffers written
  Terms,       \* the values of terminate_at_index the callers pass
  Paces(_),    \* Paces(n): the CPU may take at least so many steps per DMA transfer in
               \* a write of n reversals
  MaxRevs      \* bound: index pulses during one write

ASSUME SizeAssumption == Size \in Nat /\ Size >= 2
ASSUME BatchAssumption == MinBatch \in Nat /\ MinBatch >= 1
ASSUME JobAssumption == FluxCounts \subseteq Nat /\ Terms \subseteq Nat
ASSUME PaceAssumption == \A n \in FluxCounts : Paces(n) \subseteq Nat
ASSUME RevsAssumption == /\ IndexMod \in Nat /\ MaxRevs \in Nat
                         /\ MaxRevs + 1 < IndexMod
                         /\ \A t \in Terms : t < IndexMod

VARIABLES
  pc,        \* where the CPU is
  latency,   \* latency_sensitive of the current conversion
  nr, k,     \* the current batch, and how many entries of it are stored
  prod,      \* dma_w.prod
  bcdone,    \* wr->bc_cons = bc_max
  stop,      \* stop_index
  todo,      \* entries left at the last poll of the drain loop
  flux, tail, term,   \* the write: reversals, trailing zero cells, terminate_at_index
  speed,     \* the pace at which it is written
  made,      \* entries stored in this write
  buf,       \* dma_w.buf
  dmacons,   \* the DMA's position: Size - CNDTR
  arr,       \* the entry most recently loaded into the timer
  dmaOn, timer, wgate,
  index,     \* index.count
  \* observation and environment
  taken,     \* entries of this write that the DMA has loaded
  stale,     \* loads made after the last entry of the write (saturates at Size)
  under,     \* the DMA has loaded a slot whose entry was still to be made
  late,      \* the DMA was past the end before the first poll of the drain loop
  revs,      \* index pulses since stop_index was chosen
  pulsed,    \* a pulse has come since the last comparison with stop_index
  pace       \* CPU steps since the last DMA transfer (saturates at the pace of the write)

job   == <<flux, tail, term, speed>>
batch == <<latency, nr, k, prod, bcdone, made, buf>>
dma   == <<dmacons, arr, taken, stale, under>>
hw    == <<dmaOn, timer, wgate>>
rot   == <<index, revs, pulsed>>
vars  == <<pc, job, batch, stop, todo, late, dma, hw, rot, pace>>

Stale == 0
Slots == 0 .. Size - 1

\* Definitions marked "wrong" are what a plausible mistake would make of the
\* definition after them; they show that a property depends on it.

\* x & buf_mask, for the values that occur
Mask(x) == IF x < 0 THEN x + Size ELSE IF x >= Size THEN x - Size ELSE x

Least(a, b) == IF a <= b THEN a ELSE b
Most(a, b)  == IF a >= b THEN a ELSE b

Writing == {"gate", "poll", "put", "check", "drain", "draining", "out"}

Init ==
  /\ pc = "idle" /\ latency = FALSE /\ nr = 0 /\ k = 0 /\ prod = 0
  /\ bcdone = TRUE /\ stop = 0 /\ todo = 0
  /\ flux = 0 /\ tail = FALSE /\ term = 0 /\ made = 0
  /\ buf = [s \in Slots |-> Stale]
  /\ dmacons = 0 /\ arr = Stale /\ dmaOn = FALSE /\ timer = FALSE /\ wgate = FALSE
  /\ index = 0 /\ taken = 0 /\ stale = 0 /\ under = FALSE /\ late = FALSE
  /\ revs = 0 /\ pulsed = FALSE /\ speed = 0 /\ pace = 0

\* Every CPU step gives the DMA time for at most one transfer per speed steps.
CpuStep == pace' = Least(pace + 1, speed)

(***************************************************************************)
(* _floppy_write_prep: reset the indexes, generate the initial batch, and  *)
(* only then enable the DMA.                                               *)
(***************************************************************************)
Prep(f, t, x, sensitive) ==
  /\ pc = "idle"
  /\ pc' = "poll"
  /\ flux' = f /\ tail' = t /\ term' = x /\ latency' = sensitive /\ speed' \in Paces(f)
  /\ prod' = 0 /\ dmacons' = 0 /\ nr' = 0 /\ k' = 0
  /\ bcdone' = (f = 0 /\ ~t)
  /\ made' = 0 /\ taken' = 0 /\ stale' = 0 /\ under' = FALSE /\ late' = FALSE
  /\ buf' = [s \in Slots |-> Stale] /\ arr' = Stale
  /\ pace' = 0
  /\ UNCHANGED <<stop, todo, hw, rot>>

EnableDma ==
  /\ pc = "enable"
  /\ dmaOn' = TRUE
  /\ pc' = IF latency THEN "start" ELSE "ready"
  /\ CpuStep
  /\ UNCHANGED <<job, batch, stop, todo, late, dma, timer, wgate, rot>>

(***************************************************************************)
(* wdata_bc_to_flux: choose the largest contiguous stretch that can be     *)
(* filled (shorter if latency matters), then fill it entry by entry.  The  *)
(* DMA may move at any point in between.                                   *)
(***************************************************************************)
ToWrap == Size - prod
ToCons == Mask(dmacons - prod - 1)
RoomToWrap == ToWrap     \* wrong: up to the wrap, over what the DMA has not loaded
Room   == Least(ToWrap, ToCons)
\* wrong: the smaller instead of the larger of the two batch sizes
BatchSmall == IF latency THEN Least(Room, Least(MinBatch, Size - ToCons)) ELSE Room
Batch  == IF latency THEN Least(Room, Most(MinBatch, Size - ToCons)) ELSE Room

Poll ==
  /\ pc = "poll"
  /\ pc' = "put" /\ nr' = Batch /\ k' = 0
  /\ CpuStep
  /\ UNCHANGED <<job, latency, prod, bcdone, made, buf, stop, todo, late, dma, hw, rot>>

\* wrong: stored one slot too far
PutNext ==
  /\ pc = "put" /\ k < nr /\ made < flux
  /\ buf' = [buf EXCEPT ![Mask(prod + k + 1)] = made + 1]
  /\ made' = made + 1 /\ k' = k + 1
  /\ CpuStep
  /\ UNCHANGED <<pc, job, latency, nr, prod, bcdone, stop, todo, late, dma, hw, rot>>

Put ==
  /\ pc = "put" /\ k < nr /\ made < flux
  /\ buf' = [buf EXCEPT ![prod + k] = made + 1]
  /\ made' = made + 1 /\ k' = k + 1
  /\ CpuStep
  /\ UNCHANGED <<pc, job, latency, nr, prod, bcdone, stop, todo, late, dma, hw, rot>>

\* The batch is full, or the cells ran out.  A full batch stops right after its
\* last reversal, so zero cells behind the last reversal remain for the next call.
\* wrong: zero cells behind the last reversal are never consumed
CellsWithFlux == bcdone \/ (nr > 0 /\ made = flux /\ ~tail)
CellsConsumed == bcdone \/ k < nr \/ (nr > 0 /\ made = flux /\ ~tail)

Commit ==
  /\ pc = "put" /\ (k = nr \/ made = flux)
  /\ prod' = Mask(prod + k) /\ k' = 0 /\ nr' = 0
  /\ bcdone' = CellsConsumed
  /\ pc' = IF dmaOn THEN "check" ELSE "enable"
  /\ CpuStep
  /\ UNCHANGED <<job, latency, made, buf, stop, todo, late, dma, hw, rot>>

(***************************************************************************)
(* What callers do between floppy_write_prep() and floppy_write(): reset   *)
(* index.count and wait for the index, or find their place otherwise.      *)
(***************************************************************************)
ArmIndex ==
  /\ pc = "ready"
  /\ index' = 0 /\ pc' = "await"
  /\ CpuStep
  /\ UNCHANGED <<job, batch, stop, todo, late, dma, hw, revs, pulsed>>

CallWrite ==
  /\ pc = "ready" \/ (pc = "await" /\ index # 0)
  /\ pc' = "start"
  /\ CpuStep
  /\ UNCHANGED <<job, batch, stop, todo, late, dma, hw, rot>>

(***************************************************************************)
(* floppy_write.                                                           *)
(***************************************************************************)
PlusIndex(a, n) == IF a + n >= IndexMod THEN a + n - IndexMod ELSE a + n

StopAtOnce == PlusIndex(index, term)     \* wrong: 0 is no special case
StopIndex == PlusIndex(index, IF term # 0 THEN term ELSE IndexMod - 1)

SetStop ==
  /\ pc = "start"
  /\ stop' = StopIndex
  /\ revs' = 0 /\ pulsed' = FALSE
  /\ timer' = TRUE
  /\ pc' = "gate"
  /\ CpuStep
  /\ UNCHANGED <<job, batch, todo, late, dma, dmaOn, wgate, index>>

\* The test of the fill loop, and the set-up of the drain loop after it.
\* wrong: prev_todo starts from zero
ToLoopZero == /\ pc' = IF bcdone THEN "drain" ELSE "poll"
              /\ todo' = 0
ToLoop == /\ pc' = IF bcdone THEN "drain" ELSE "poll"
          /\ todo' = Size        \* ~0: more than any count of entries

OpenGate ==
  /\ pc = "gate"
  /\ wgate' = TRUE /\ latency' = TRUE
  /\ ToLoop
  /\ CpuStep
  /\ UNCHANGED <<job, nr, k, prod, bcdone, made, buf, stop, late, dma, dmaOn, timer, rot>>

\* Observation: the drain loop has not polled yet, and the data is at its end.
PastEnd == late \/ (todo = Size /\ stale > 0)

Check ==
  /\ pc = "check"
  /\ IF index = stop
     THEN pc' = "out" /\ UNCHANGED <<todo, pulsed>>
     ELSE ToLoop /\ pulsed' = FALSE
  /\ late' = PastEnd
  /\ CpuStep
  /\ UNCHANGED <<job, batch, stop, dma, hw, index, revs>>

DrainCheck ==
  /\ pc = "drain"
  /\ IF index = stop
     THEN pc' = "out" /\ UNCHANGED pulsed
     ELSE pc' = "draining" /\ pulsed' = FALSE
  /\ late' = PastEnd
  /\ CpuStep
  /\ UNCHANGED <<job, batch, stop, todo, dma, hw, index, revs>>

\* n entries are left now, and todo were at the poll before.
KeepToZero(n) == n # 0     \* wrong: without a look at the poll before
KeepDraining(n) == n # 0 /\ n <= todo

DrainPoll ==
  /\ pc = "draining"
  /\ todo' = Mask(prod - dmacons)
  /\ pc' = IF KeepDraining(todo') THEN "drain" ELSE "out"
  /\ late' = PastEnd
  /\ CpuStep
  /\ UNCHANGED <<job, batch, stop, dma, hw, rot>>

CloseGate ==
  /\ pc = "out"
  /\ wgate' = FALSE
  /\ pc' = "off"
  /\ CpuStep
  /\ UNCHANGED <<job, batch, stop, todo, late, dma, dmaOn, timer, rot>>

StopDma ==
  /\ pc = "off"
  /\ timer' = FALSE /\ dmaOn' = FALSE
  /\ pc' = "idle"
  /\ CpuStep
  /\ UNCHANGED <<job, batch, stop, todo, late, dma, wgate, rot>>

(***************************************************************************)
(* The hardware: a timer update makes the DMA load the next slot into ARR. *)
(***************************************************************************)
Fetch ==
  /\ timer /\ dmaOn /\ pace >= speed
  /\ arr' = buf[dmacons]
  /\ dmacons' = Mask(dmacons + 1)
  /\ taken' = IF taken < made /\ ~under THEN taken + 1 ELSE taken
  /\ under' = (under \/ (taken = made /\ made < flux))
  /\ stale' = IF taken = made /\ made = flux /\ ~under THEN Least(stale + 1, Size) ELSE stale
  /\ pace' = 0
  /\ UNCHANGED <<pc, job, batch, stop, todo, late, hw, rot>>

\* IRQ_INDEX_changed.  A revolution takes 200ms, a pass of either loop well
\* under one: at most one pulse falls between two comparisons with stop_index,
\* or between two polls of a caller that waits for the index.
IndexPulse ==
  /\ index' = PlusIndex(index, 1)
  /\ \/ pc \in Writing /\ ~pulsed /\ revs < MaxRevs /\ revs' = revs + 1 /\ pulsed' = TRUE
     \/ pc \notin Writing /\ (pc = "await" => index = 0) /\ UNCHANGED <<revs, pulsed>>
  /\ UNCHANGED <<pc, job, batch, stop, todo, late, dma, hw, pace>>

Start == \E f \in FluxCounts, t, s \in BOOLEAN, x \in Terms : Prep(f, t, x, s)

Cpu == EnableDma \/ Poll \/ Put \/ Commit \/ ArmIndex \/ CallWrite \/ SetStop
       \/ OpenGate \/ Check \/ DrainCheck \/ DrainPoll \/ CloseGate \/ StopDma

Next == Start \/ Cpu \/ Fetch \/ IndexPulse

Spec == Init /\ [][Next]_vars

\* The CPU keeps running, the timer keeps updating while it is enabled and the
\* disk keeps turning; nothing obliges the caller to start a write.
FairSpec == Spec /\ WF_vars(Cpu) /\ WF_vars(Fetch) /\ WF_vars(IndexPulse)
-----------------------------------------------------------------------------
(***************************************************************************)
(* Properties.                                                             *)
(***************************************************************************)
TypeOK ==
  /\ pc \in {"idle", "enable", "ready", "await", "start", "off"} \cup Writing
  /\ latency \in BOOLEAN /\ bcdone \in BOOLEAN
  /\ nr \in 0 .. Size - 1 /\ k \in 0 .. nr /\ prod \in Slots
  /\ stop \in 0 .. IndexMod - 1 /\ todo \in 0 .. Size
  /\ flux \in Nat /\ tail \in BOOLEAN /\ term \in Terms \cup {0}
  /\ made \in 0 .. flux /\ taken \in 0 .. made
  /\ buf \in [Slots -> Nat] /\ arr \in Nat /\ dmacons \in Slots
  /\ dmaOn \in BOOLEAN /\ timer \in BOOLEAN /\ wgate \in BOOLEAN
  /\ index \in 0 .. IndexMod - 1 /\ revs \in 0 .. MaxRevs /\ pulsed \in BOOLEAN
  /\ stale \in 0 .. Size /\ under \in BOOLEAN /\ late \in BOOLEAN
  /\ speed \in Nat /\ pace \in Nat

\* Unless the DMA has outrun the CPU, the entries made and not yet loaded are
\* the next slots of the DMA, in order: a batch computed from an old CNDTR
\* never overwrites one of them, and none is skipped at the wrap.
RingFifo ==
  ~under => \A j \in 0 .. made - taken - 1 : buf[Mask(dmacons + j)] = taken + j + 1

\* What the timer is given: reversal 1, 2, 3, ... of this write, none lost,
\* repeated or left over from an earlier write, up to the end of the data.
FluxInOrder == (timer /\ ~under /\ stale = 0) => arr = taken

\* floppy_write() ends a write early only at the index hole asked for: when it
\* leaves its loops the DMA has loaded every reversal, or revolution number
\* terminate_at_index has come.
CompleteOrIndex ==
  (pc = "out" /\ ~under) => (taken = flux \/ (term # 0 /\ revs = term))

\* The write gate never stays open over a second index hole after the one the
\* caller wants to stop at, and a write that is not to stop at an index hole
\* does not ("Terminate write early at Xth index hole. 0 does not").
IndexStop ==
  /\ (wgate /\ term # 0) => revs <= term
  /\ index = stop /\ pc \in {"check", "drain"} => term # 0 /\ revs = term

\* After the last reversal the drain loop stops within a few transfers, unless
\* the DMA was already past the end at its first poll, where prev_todo = ~0
\* hides it.  (One transfer per CPU step at most.)
StaleTail == (speed >= 1 /\ ~under /\ ~late) => stale <= 4

\* A CPU that takes three steps or more per flux interval never lets the DMA run into
\* slots not yet written, neither in the fill loop nor before the drain loop.
NoUnderrun == speed >= 3 => ~under /\ ~late

\* floppy_write() returns, if the CPU takes a step per transfer.
WriteReturns == speed >= 1 /\ pc # "idle" /\ pc # "ready" ~> pc \in {"idle", "ready"}
-----------------------------------------------------------------------------
(***************************************************************************)
(* The inductive invariant behind the properties, in named parts.          *)
(***************************************************************************)
Sound == ~under /\ stale = 0     \* the DMA has loaded nothing but entries made

\* Where the CPU must be for the hardware to be in a given state.
PhaseInv ==
  /\ timer => dmaOn /\ pc \in Writing \cup {"off"}
  /\ wgate => timer /\ pc \in Writing \ {"gate"}
  /\ pc \in {"ready", "await", "start", "check", "drain", "draining", "gate", "out", "off"}
       => dmaOn
  /\ pc \in {"check", "drain", "draining", "gate", "out", "off"} => timer
  /\ pc \in {"poll", "put"} /\ dmaOn => timer
  /\ pc \in {"idle", "enable"} => ~dmaOn
  /\ pc # "idle" /\ ~timer => /\ dmacons = 0 /\ taken = 0 /\ arr = Stale /\ Sound

\* The producer's index is where the entries not yet loaded end.
PositionInv ==
  /\ Sound => Mask(dmacons + (made - taken)) = Mask(prod + k) /\ made - taken <= Size - 1
  /\ ~under /\ stale > 0 => taken = made /\ made = flux

\* The rest of the batch fits in front of the DMA and before the wrap.
BatchInv ==
  /\ prod + nr <= Size
  /\ pc # "put" => k = 0 /\ nr = 0
  /\ Sound => (made - taken) + (nr - k) <= Size - 1

\* The cells are consumed only when every reversal is in the ring, and the
\* drain loop has not seen fewer entries than are left.
DrainInv ==
  /\ bcdone => made = flux
  /\ pc \in {"drain", "draining"} => bcdone /\ (Sound => made - taken <= todo)

\* stop_index is as many pulses ahead as remain.
StopInv ==
  (timer /\ pc \in Writing) =>
    /\ stop = PlusIndex(index, IF term # 0 THEN term - revs ELSE IndexMod - 1 - revs)
    /\ term # 0 => revs <= term /\ (~pulsed => revs < term)

IInv == /\ TypeOK /\ PhaseInv /\ PositionInv /\ BatchInv /\ DrainInv /\ StopInv
        /\ RingFifo /\ FluxInOrder /\ CompleteOrIndex

(***************************************************************************)
(* What the pace of the CPU adds.                                          *)
(***************************************************************************)
\* Past the end of the data the DMA is as far ahead of the producer's index as it has
\* made stale loads.
OvershootInv ==
  ~under /\ stale < Size => Mask(dmacons + (made - taken)) = Mask(prod + k + stale)

\* A load that is possible before the CPU's next step.
Due == IF pace >= speed THEN 1 ELSE 0

\* Stale loads, and in the drain loop all loads since the last poll, are counted in
\* steps of the CPU: a step makes at most one more possible.
TailBound ==
  /\ pc = "gate" => stale + Due <= 1
  /\ pc = "poll" => stale + Due <= 2
  /\ pc = "put" => stale + Due <= 3
  /\ pc = "check" => stale + Due <= 4
  /\ pc \in {"drain", "draining"} =>
       IF todo = Size THEN stale + Due <= 2
       ELSE /\ todo >= 1
            /\ (todo - (made - taken)) + stale + Due <= IF pc = "drain" THEN 1 ELSE 2
  /\ pc = "out" => stale + Due <= 2
  /\ pc = "off" => stale + Due <= 3
  /\ pc = "idle" => stale <= 3
TailInv ==
  /\ timer /\ pc \in {"poll", "put", "check"} => todo = Size
  /\ (Size > 4 /\ speed >= 1 /\ ~under /\ ~late) => TailBound

\* The entries in front of the DMA in steps of the CPU, less the steps since the last
\* load.  A load leaves it as it is, a step takes one, an entry stored adds three.
Lead == 3 * (made - taken) - Least(pace, 3)

\* One step is lost where the wrap leaves room for a batch of one.
AtWrap == IF prod = Size - 1 THEN 1 ELSE 0

\* What a batch, its overhead and the way to the next batch or to the drain loop cost
\* is in the ring before.
Filled ==
  /\ ~under /\ ~late /\ flux >= 1
  /\ pc \in {"poll", "put"} /\ ~timer => prod = 0 /\ (pc = "put" => nr >= 2)
  /\ pc \in {"enable", "ready", "await", "start"} => made >= IF bcdone THEN 1 ELSE 2
  /\ pc \in {"gate", "check"} =>
       stale = 0 /\ Lead >= IF bcdone THEN 0 ELSE 3 + AtWrap
  /\ pc = "poll" /\ timer => stale = 0 /\ Lead >= 2 + AtWrap
  /\ pc = "put" /\ timer =>
       /\ stale = 0 /\ Lead >= 1 + AtWrap + 2 * k
       /\ nr >= 2 \/ (nr = 1 /\ prod = Size - 1) \/ Lead >= 5 + 2 * k
  /\ pc \in {"drain", "draining"} /\ todo = Size =>
       stale = 0 /\ Lead >= IF pc = "drain" THEN -1 ELSE -2
  /\ pc = "out" => made = flux \/ Lead >= 2
  /\ pc = "off" => made = flux \/ Lead >= 1
FillInv == speed >= 3 => Filled
=============================================================================
