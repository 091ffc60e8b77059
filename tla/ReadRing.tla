------------------------------- MODULE ReadRing -------------------------------
(***************************************************************************)
(* The read path of floppy_generic.c.  The RDATA timer captures its        *)
(* free-running counter at every flux reversal, circular DMA stores the    *)
(* captures in the ring dma_r, and floppy_read() turns the differences of  *)
(* captures into bitcells: first it looks for a sync mark, then it fills   *)
(* the caller's buffer.  The CPU learns how far the DMA has got from       *)
(* CNDTR; nothing tells the DMA, or the CPU, that unread captures are      *)
(* being overwritten.                                                      *)
(*                                                                         *)
(* Bits are 0 and 1, words are sequences of Word bits, first bit first.    *)
(***************************************************************************)
EXTENDS Integers, Sequences

CONSTANTS
  Size,      \* ARRAY_SIZE(dma_r.buf), 1024 in the code
  CntMod,    \* the timer counts modulo this: 2^16
  Cell,      \* cur_drive->ticks_per_cell
  Word,      \* bits in a word of the bitcell buffer: 32
  NrWords,   \* such words in the caller's buffer: rd->nr_words / 2
  Intervals, \* the ticks between two reversals that the disk may show
  Phases,    \* the ticks from the start of the timer to the first reversal
  MfmMarks,  \* windows in which the sync search recognises an MFM mark
  FmMarks,   \* windows in which it recognises an FM mark
  Paces,     \* on average the CPU takes so many steps per capture in one read,
  Burst,     \* but this many captures may come without any
  MaxFlux,   \* bound: captures in one read
  MaxReads   \* bound: reads

Bits == {0, 1}
Window == [1 .. Word -> Bits]

\* The two decoders round an interval half-way between two numbers of cells
\* differently; the disk shows none.
NoTie(t) == t % Cell # Cell \div 2

ASSUME SizeAssumption == Size \in Nat /\ Size >= 2
ASSUME CellAssumption ==
  /\ Cell \in Nat /\ Cell >= 2 /\ CntMod \in Nat
  /\ Intervals \subseteq 1 .. 6 * Cell /\ Phases \subseteq 0 .. 6 * Cell
  /\ 6 * Cell < CntMod
  /\ \A t \in Intervals \cup Phases : NoTie(t)
ASSUME BufferAssumption == /\ Word \in Nat /\ Word >= 2
                           /\ NrWords \in Nat /\ NrWords >= 2
\* Like 0x44894489 and 0x55555015, a mark starts with 0 and ends with 1.
ASSUME MarkAssumption == \A w \in MfmMarks \cup FmMarks :
                            w \in Window /\ w[1] = 0 /\ w[Word] = 1
ASSUME PaceAssumption == /\ Paces \subseteq Nat /\ Burst \in Nat \ {0}
                         /\ MaxFlux \in Nat /\ MaxReads \in Nat

VARIABLES
  pc,        \* where the CPU is
  sync,      \* rd->sync
  seeking,   \* in rdata_wait_sync() rather than rdata_flux_to_bc()
  window,    \* rd->bc_window
  bcprod,    \* rd->bc_prod
  out,       \* the caller's buffer
  cons, prod, prev,    \* dma_r.cons, prod of the current call, dma_r.prev_sample
  buf,       \* dma_r.buf
  dmaprod,   \* the DMA's position: Size - CNDTR
  cnt,       \* tim_rdata->cnt at the latest reversal, or since the timer stopped
  on,        \* timer and DMA run
  \* observation and environment
  disk,      \* the bitcells that have passed the head since the timer started
  pending,   \* captures stored by the DMA and not taken by the CPU
  lost,      \* one of them has been overwritten
  fluxes, reads,
  speed,     \* the pace of the current read
  credit     \* CPU steps in hand

reader == <<sync, seeking, window, bcprod, out, cons, prod, prev>>
dma    == <<buf, dmaprod, cnt, disk, fluxes>>
vars   == <<pc, reader, dma, on, pending, lost, reads, speed, credit>>

Slots == 0 .. Size - 1
BcMax == NrWords * Word
Ones  == [i \in 1 .. Word |-> 1]

Least(a, b) == IF a <= b THEN a ELSE b
CpuStep == credit' = Least(credit + 1, speed * Burst) /\ UNCHANGED speed

Init ==
  /\ pc = "idle" /\ sync = "none" /\ seeking = FALSE
  /\ window = Ones /\ bcprod = 0 /\ out = [k \in 1 .. NrWords |-> Ones]
  /\ cons = 0 /\ prod = 0 /\ prev = 0
  /\ buf = [s \in Slots |-> 0] /\ dmaprod = 0 /\ cnt = 0 /\ on = FALSE
  /\ disk = <<>> /\ pending = 0 /\ lost = FALSE
  /\ fluxes = 0 /\ reads = 0 /\ speed = 0 /\ credit = 0

\* Definitions marked "wrong" are what a plausible mistake would make of the
\* definition after them; they show that a property depends on it.

FreshZeros  == [i \in 1 .. Word |-> 0]    \* wrong: nothing seen is all zeros
FreshWindow == Ones
FreshConsOn == cons     \* wrong: left where the previous read ended
FreshCons   == 0
FreshPrev   == cnt

\* floppy_read_prep: a fresh window, buffer and position, the DMA at slot 0
Prep(s) ==
  /\ pc \in {"idle", "done"} /\ reads < MaxReads
  /\ pc' = "prepared" /\ sync' = s /\ seeking' = (s # "none")
  /\ window' = FreshWindow /\ bcprod' = 0 /\ out' = [k \in 1 .. NrWords |-> Ones]
  /\ dmaprod' = 0 /\ cons' = FreshCons /\ prev' = FreshPrev
  /\ disk' = <<>> /\ pending' = 0 /\ lost' = FALSE /\ fluxes' = 0
  /\ reads' = reads + 1
  /\ speed' \in Paces /\ credit' = speed' * Burst
  /\ UNCHANGED <<prod, buf, cnt, on>>

\* floppy_read: RDATA is active, start the timer
StartTimer ==
  /\ pc = "prepared"
  /\ pc' = "poll" /\ on' = TRUE
  /\ CpuStep
  /\ UNCHANGED <<reader, dma, pending, lost, reads>>

\* wrong: only once half the ring is full
PollHalf ==
  /\ pc = "poll"
  /\ prod' = dmaprod
  /\ pc' = IF (dmaprod - cons) % Size < Size \div 2 THEN "poll" ELSE "take"
  /\ CpuStep
  /\ UNCHANGED <<sync, seeking, window, bcprod, out, cons, prev, dma, on,
                 pending, lost, reads>>

\* Both loops read CNDTR once and then take the captures up to there.
Poll ==
  /\ pc = "poll"
  /\ prod' = dmaprod
  /\ pc' = IF cons = dmaprod THEN "poll" ELSE "take"
  /\ CpuStep
  /\ UNCHANGED <<sync, seeking, window, bcprod, out, cons, prev, dma, on,
                 pending, lost, reads>>

\* curr = next - prev in 16 bits
Elapsed == (buf[cons] - prev) % CntMod

\* the cells of an interval, by division as in rdata_wait_sync() ...
SyncCells(curr) ==
  IF curr < Cell \div 2 THEN 1 ELSE (curr - Cell \div 2) \div Cell + 1

\* ... and by repeated subtraction as in rdata_flux_to_bc()
DataCells(curr) ==
  CHOOSE n \in 1 .. curr + 1 :
    /\ curr - (n - 1) * Cell <= Cell + Cell \div 2
    /\ n = 1 \/ curr - (n - 2) * Cell > Cell + Cell \div 2

\* n cells end in a reversal
CellBits(n) == [i \in 1 .. n |-> IF i = n THEN 1 ELSE 0]

\* bc_dat after bits have been shifted in
Shift(w, bits) == SubSeq(w \o bits, Len(bits) + 1, Len(bits) + Word)

Marks == IF sync = "fm" THEN FmMarks ELSE MfmMarks
SyncFoundWord == Word     \* wrong: the whole window, also for FM
\* how many bits of the window belong to the mark
SyncFound == IF sync = "fm" THEN Word - 1 ELSE Word

Advance ==
  /\ cons' = (cons + 1) % Size
  /\ prev' = buf[cons]
  /\ pending' = pending - 1

\* one capture in rdata_wait_sync()
TakeSync ==
  /\ pc = "take" /\ seeking
  /\ Advance
  /\ LET n == SyncCells(Elapsed)
         found == window' \in Marks
     IN  /\ window' = Shift(window, CellBits(n))
         /\ bcprod' = IF found THEN SyncFound ELSE bcprod + n
         /\ out' = IF found THEN [out EXCEPT ![1] = window'] ELSE out
         /\ seeking' = ~found
         /\ pc' = IF found \/ cons' = prod THEN "poll" ELSE "take"
  /\ CpuStep
  /\ UNCHANGED <<sync, prod, dma, on, lost, reads>>

FullExactly(end) == end = BcMax     \* wrong: compared once per interval
\* bc_prod = bc_max, compared after every cell
Full(end) == end >= BcMax

\* one capture in rdata_flux_to_bc(): full words go to the buffer
TakeData ==
  /\ pc = "take" /\ ~seeking
  /\ Advance
  /\ LET bits == CellBits(DataCells(Elapsed))
         end  == bcprod + Len(bits)
     IN  /\ window' = Shift(window, bits)
         /\ bcprod' = Least(end, BcMax)
         /\ out' = [w \in 1 .. NrWords |->
                      IF w * Word \in bcprod + 1 .. end
                      THEN Shift(window, SubSeq(bits, 1, w * Word - bcprod))
                      ELSE out[w]]
         /\ pc' = IF Full(end) THEN "full"
                  ELSE IF cons' = prod THEN "poll" ELSE "take"
  /\ CpuStep
  /\ UNCHANGED <<sync, seeking, prod, dma, on, lost, reads>>

\* floppy_read returns: timer off, pending request drained, DMA off
Stop ==
  /\ pc = "full"
  /\ pc' = "done" /\ on' = FALSE
  /\ CpuStep
  /\ UNCHANGED <<reader, dma, pending, lost, reads>>

(***************************************************************************)
(* The disk: a reversal passes, the timer captures, the DMA stores.        *)
(***************************************************************************)
Nominal(t) == IF 2 * t < Cell THEN 1 ELSE (2 * t + Cell) \div (2 * Cell)

Capture(t) ==
  /\ on /\ fluxes < MaxFlux /\ credit >= speed
  /\ cnt' = (cnt + t) % CntMod
  /\ buf' = [buf EXCEPT ![dmaprod] = cnt']
  /\ dmaprod' = (dmaprod + 1) % Size
  /\ disk' = disk \o CellBits(Nominal(t))
  /\ lost' = (lost \/ pending >= Size)
  /\ pending' = pending + 1 /\ fluxes' = fluxes + 1
  /\ credit' = credit - speed /\ UNCHANGED speed
  /\ UNCHANGED <<pc, reader, on, reads>>

Reversal == \E t \in (IF disk = <<>> THEN Phases ELSE Intervals) : Capture(t)

Reader == StartTimer \/ Poll \/ TakeSync \/ TakeData \/ Stop
Next == (\E s \in {"none", "mfm", "fm"} : Prep(s)) \/ Reader \/ Reversal

Spec == Init /\ [][Next]_vars
FairSpec == Spec /\ WF_vars(Reader) /\ WF_vars(Reversal)

(***************************************************************************)
(* Properties                                                              *)
(***************************************************************************)
\* where in the disk's cells a mark ends, and the first of these places
MarkEnds == {i \in Word .. Len(disk) : SubSeq(disk, i - Word + 1, i) \in Marks}
FirstMark == CHOOSE i \in MarkEnds : \A j \in MarkEnds : i <= j
\* an FM mark is the last Word - 1 bits of its window
BufferStart == CASE sync = "none" -> 1
                 [] sync = "mfm"  -> FirstMark - Word + 1
                 [] sync = "fm"   -> FirstMark - Word + 2

\* As long as no capture was lost, a read returns exactly the cells of the
\* disk, from the first sync mark of the disk on: the counter may wrap and
\* the ring may wrap, the mark may end anywhere in a batch, and neither the
\* change of decoder nor the word boundaries drop or repeat a cell.
ReadsDisk ==
  pc = "done" /\ ~lost =>
    /\ sync # "none" => MarkEnds # {}
    /\ \A w \in 1 .. NrWords :
         out[w] = SubSeq(disk, BufferStart + (w - 1) * Word,
                               BufferStart + w * Word - 1)

\* "~0 avoids sync match within fewer than 32 bits of scan start"
\* (floppy_read_prep), and the search neither skips a mark nor sees one too
\* many: it is over as soon as the captures taken contain a mark.
SyncIsOnDisk ==
  on /\ ~lost /\ sync # "none" /\ pending = 0 => (seeking <=> MarkEnds = {})

\* The words of the buffer that are complete: what a read has delivered.
Got == [w \in 1 .. (IF seeking THEN 0 ELSE bcprod \div Word) |-> out[w]]

Abs == INSTANCE TrackRead
         WITH kind <- sync, passed <- disk, missed <- lost, got <- Got

\* The read implements TrackRead: a word is delivered once it has passed, it is
\* the next one from the first mark on, and it is never taken back. The search,
\* the batches and the ring are not to be seen from outside.
ReadSpec == Abs!Spec

\* The reader's index is where the captures not yet taken begin, also when
\* captures are lost: then the reader is out by whole turns of the ring.
PositionOK == on => cons = (dmaprod - pending) % Size

\* If the CPU takes two steps per capture on average and is never behind by
\* more than Burst captures at once, no capture is overwritten unread.
NoOverrun == speed >= 2 => ~lost

\* Once the disk has shown a mark and as many cells as were asked for,
\* floppy_read() returns.
Enough == /\ on
          /\ sync # "none" => MarkEnds # {}
          /\ Len(disk) >= BufferStart + BcMax - 1
ReadReturns == speed >= 1 /\ Enough ~> (pc = "done" \/ lost)
=============================================================================
