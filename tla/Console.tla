------------------------------- MODULE Console -------------------------------
(***************************************************************************)
(* console.c: printk() output is staged in a ring and sent to the USART by *)
(* DMA, whose completion interrupt starts the next transfer; after a crash *)
(* (EXC_unexpected in stm32f10x.c) the console is switched to synchronous  *)
(* mode, drains what was staged, and polls the dump out.                   *)
(*                                                                         *)
(* One CPU runs in one of three contexts: the thread, the DMA completion   *)
(* interrupt (the lowest priority) and the crash handler (the highest).    *)
(* kick_tx() and the completion handler are split at every store that      *)
(* another context or the DMA can see.                                     *)
(***************************************************************************)
EXTENDS Integers, Sequences, FiniteSets

CONSTANTS
  Size,       \* sizeof(ring), 2048 in the code
  CtrMod,     \* cons and prod are unsigned int: 2^32 in the code
  Messages,   \* what the thread prints
  DumpLines,  \* how many lines the crash handler prints
  DumpMessage,
  CrashFrom,  \* contexts in which a crash can hit: "thread" (a fault, or serial
              \* input after console_crash_on_input()), "irq" (serial input)
  LfNeedsRoom \* assume that a message with a line feed finds room for all of it

CR == "cr"
LF == "lf"

ASSUME SizeAssumption == /\ Size \in Nat \ {0} /\ CtrMod \in Nat
                         /\ CtrMod % Size = 0 /\ CtrMod > 2 * Size
ASSUME CrashAssumption == CrashFrom \subseteq {"thread", "irq"} /\ DumpLines \in Nat

Chars == UNION {{m[i] : i \in 1 .. Len(m)} : m \in Messages \cup {DumpMessage, <<CR, LF>>}}
ASSUME MessageAssumption == Messages \cup {DumpMessage} \subseteq Seq(Chars)

VARIABLES
  ring, cons, prod, dma_sz,
  sync,                \* sync_console
  en, cndtr, src, tcif, \* DMA1 channel 4: enabled (with its interrupt), count
                       \* left, slot addressed, completion flag
  primask,             \* IRQ_global_disable()d
  ctx,                 \* the running context
  pc,                  \* its next step
  back,                \* where the thread goes on after an interrupt
  rest,                \* what vprintk() has still to stage
  target,              \* p of console_barrier()
  lines,               \* lines of the crash dump still to be printed
  sent,                \* position of the next character on the wire
  wire                 \* the last character on the wire

tx   == <<en, cndtr, src, tcif>>
out  == <<sent, wire>>
vars == <<ring, cons, prod, dma_sz, sync, tx, primask, ctx, pc, back, rest, target, lines, out>>

MASK(x) == x % Size
Ctr(x)  == x % CtrMod
Used    == Ctr(prod - cons)

Init ==
  /\ ring = [s \in 0 .. Size - 1 |-> CR]
  /\ cons = 0 /\ prod = 0 /\ dma_sz = 0 /\ sync = FALSE
  /\ en = FALSE /\ cndtr = 0 /\ src = 0 /\ tcif = FALSE
  /\ primask = FALSE /\ ctx = "thread" /\ pc = "idle" /\ back = "idle"
  /\ rest = <<>> /\ target = 0 /\ lines = 0
  /\ sent = 0 /\ wire = "idle"

(***************************************************************************)
(* vprintk(): with interrupts off, stage the text until the ring is full,  *)
(* then kick_tx().                                                         *)
(***************************************************************************)
\* A carriage return is dropped, a line feed becomes two characters.
Staged(c) == CASE c = CR -> <<>> [] c = LF -> <<CR, LF>> [] OTHER -> <<c>>

Lfs(m)    == {i \in 1 .. Len(m) : m[i] = LF}
\* LfNeedsRoom: the ring can take all that the message becomes.
Fits(m)   == Lfs(m) # {} => Used + Len(m) + Cardinality(Lfs(m)) <= Size - 1

Interruptible == ctx = "thread" /\ ~primask
Pending == tcif /\ en        \* taken before the thread's next instruction

Vprintk(m) ==
  /\ Interruptible /\ pc = "idle" /\ ~Pending
  /\ LfNeedsRoom => Fits(m)
  /\ primask' = TRUE /\ rest' = m /\ pc' = "stage"
  /\ UNCHANGED <<ring, cons, prod, dma_sz, sync, tx, ctx, back, target, lines, out>>

FullLate == Used = Size     \* wrong: one character more (see WriteRing on "wrong")
Full == Used = Size - 1

Stage ==
  /\ pc = "stage"
  /\ rest # <<>> /\ ~Full
  /\ LET s == Staged(Head(rest)) IN
     /\ ring' = [i \in DOMAIN ring |->
                   IF MASK(i - prod) < Len(s) THEN s[MASK(i - prod) + 1] ELSE ring[i]]
     /\ prod' = Ctr(prod + Len(s))
  /\ rest' = Tail(rest)
  /\ UNCHANGED <<cons, dma_sz, sync, tx, primask, ctx, pc, back, target, lines, out>>

StageEnd ==
  /\ pc = "stage"
  /\ rest = <<>> \/ Full
  /\ rest' = <<>> /\ pc' = "kick"
  /\ UNCHANGED <<ring, cons, prod, dma_sz, sync, tx, primask, ctx, back, target, lines, out>>

\* IRQ_global_enable() and return to the thread or to the crash handler.
PrintEnd ==
  /\ pc = "enable"
  /\ primask' = FALSE
  /\ pc' = IF ctx = "crash" THEN "dump" ELSE "idle"
  /\ UNCHANGED <<ring, cons, prod, dma_sz, sync, tx, ctx, back, rest, target, lines, out>>

(***************************************************************************)
(* kick_tx()                                                               *)
(***************************************************************************)
\* Where kick_tx() returns to: the interrupted thread, vprintk(), or
\* console_sync(), which the crash handler calls before its first line.
Return == IF ctx = "irq"
          THEN ctx' = "thread" /\ pc' = back
          ELSE ctx' = ctx /\ pc' = IF lines > DumpLines THEN "dump" ELSE "enable"

KickPoll ==
  /\ pc = "kick" /\ sync /\ cons # prod
  /\ wire' = ring[MASK(cons)] /\ sent' = Ctr(sent + 1)
  /\ cons' = Ctr(cons + 1)
  /\ UNCHANGED <<ring, prod, dma_sz, sync, tx, primask, ctx, pc, back, rest, target, lines>>

KickSize ==
  /\ pc = "kick" /\ ~sync /\ dma_sz = 0 /\ cons # prod
  /\ dma_sz' = IF MASK(prod - cons) < Size - MASK(cons)
               THEN MASK(prod - cons) ELSE Size - MASK(cons)
  /\ pc' = "load"
  /\ UNCHANGED <<ring, cons, prod, sync, tx, primask, ctx, back, rest, target, lines, out>>

KickLoad ==
  /\ pc = "load"
  /\ src' = MASK(cons) /\ cndtr' = dma_sz
  /\ pc' = "start"
  /\ UNCHANGED <<ring, cons, prod, dma_sz, sync, en, tcif, primask, ctx, back, rest, target, lines, out>>

KickStart ==
  /\ pc = "start"
  /\ en' = TRUE
  /\ Return
  /\ UNCHANGED <<ring, cons, prod, dma_sz, sync, cndtr, src, tcif, primask, back, rest, target, lines, out>>

KickNothing ==
  /\ pc = "kick"
  /\ cons = prod \/ (~sync /\ dma_sz # 0)
  /\ Return
  /\ UNCHANGED <<ring, cons, prod, dma_sz, sync, tx, primask, back, rest, target, lines, out>>

(***************************************************************************)
(* IRQ_dma1_ch4_tc(), as an interrupt or called by console_sync()          *)
(***************************************************************************)
TakeIrq ==
  /\ Interruptible /\ pc \in {"idle", "barrier"} /\ Pending
  /\ ctx' = "irq" /\ back' = pc /\ pc' = "clear"
  /\ UNCHANGED <<ring, cons, prod, dma_sz, sync, tx, primask, rest, target, lines, out>>

IrqClear ==
  /\ pc = "clear"
  /\ en' = FALSE /\ tcif' = FALSE
  /\ pc' = "advance"
  /\ UNCHANGED <<ring, cons, prod, dma_sz, sync, cndtr, src, primask, ctx, back, rest, target, lines, out>>

\* wrong: everything staged counts as sent
IrqAdvanceAll ==
  /\ pc = "advance"
  /\ cons' = prod
  /\ pc' = "zero"
  /\ UNCHANGED <<ring, prod, dma_sz, sync, tx, primask, ctx, back, rest, target, lines, out>>

IrqAdvance ==
  /\ pc = "advance"
  /\ cons' = Ctr(cons + dma_sz)
  /\ pc' = "zero"
  /\ UNCHANGED <<ring, prod, dma_sz, sync, tx, primask, ctx, back, rest, target, lines, out>>

\* wrong: no next transfer is started
IrqZeroOnly ==
  /\ pc = "zero"
  /\ dma_sz' = 0
  /\ Return
  /\ UNCHANGED <<ring, cons, prod, sync, tx, primask, back, rest, target, lines, out>>

IrqZero ==
  /\ pc = "zero"
  /\ dma_sz' = 0
  /\ pc' = "kick"
  /\ UNCHANGED <<ring, cons, prod, sync, tx, primask, ctx, back, rest, target, lines, out>>

(***************************************************************************)
(* The DMA engine                                                          *)
(***************************************************************************)
Transmit ==
  /\ en /\ cndtr > 0
  /\ wire' = ring[src] /\ sent' = Ctr(sent + 1)
  /\ src' = src + 1 /\ cndtr' = cndtr - 1
  /\ tcif' = (tcif \/ cndtr = 1)
  /\ UNCHANGED <<ring, cons, prod, dma_sz, sync, en, primask, ctx, pc, back, rest, target, lines>>

(***************************************************************************)
(* console_barrier()                                                       *)
(***************************************************************************)
Barrier ==
  /\ Interruptible /\ pc = "idle" /\ ~Pending
  /\ target' = prod /\ pc' = "barrier"
  /\ UNCHANGED <<ring, cons, prod, dma_sz, sync, tx, primask, ctx, back, rest, lines, out>>

BarrierEnd ==
  /\ Interruptible /\ pc = "barrier" /\ ~Pending
  /\ target = cons
  /\ pc' = "idle"
  /\ UNCHANGED <<ring, cons, prod, dma_sz, sync, tx, primask, ctx, back, rest, target, lines, out>>

(***************************************************************************)
(* EXC_unexpected(): console_sync(), the dump, and system_reset(), whose    *)
(* own message is the last line.                                           *)
(***************************************************************************)
Crash ==
  /\ ~primask /\ ctx \in CrashFrom
  /\ ctx' = "crash" /\ primask' = TRUE /\ sync' = TRUE
  /\ lines' = DumpLines + 1 /\ pc' = "drain"
  /\ UNCHANGED <<ring, cons, prod, dma_sz, tx, back, rest, target, out>>

\* wrong: waits for the completion handler, which cannot run
SyncDrainedIrq ==
  /\ pc = "drain" /\ dma_sz = 0
  /\ pc' = "clear"
  /\ UNCHANGED <<ring, cons, prod, dma_sz, sync, tx, primask, ctx, back, rest, target, lines, out>>

SyncDrained ==
  /\ pc = "drain" /\ cndtr = 0
  /\ pc' = "clear"
  /\ UNCHANGED <<ring, cons, prod, dma_sz, sync, tx, primask, ctx, back, rest, target, lines, out>>

Dump ==
  /\ pc = "dump" /\ lines > 1
  /\ lines' = lines - 1
  /\ primask' = TRUE /\ rest' = DumpMessage /\ pc' = "stage"
  /\ UNCHANGED <<ring, cons, prod, dma_sz, sync, tx, ctx, back, target, out>>

Reset ==
  /\ pc = "dump" /\ lines = 1
  /\ ring' = [s \in 0 .. Size - 1 |-> CR]
  /\ cons' = 0 /\ prod' = 0 /\ dma_sz' = 0 /\ sync' = FALSE
  /\ en' = FALSE /\ cndtr' = 0 /\ src' = 0 /\ tcif' = FALSE
  /\ primask' = FALSE /\ ctx' = "thread" /\ pc' = "idle" /\ back' = "idle"
  /\ rest' = <<>> /\ target' = 0 /\ lines' = 0 /\ sent' = 0
  /\ UNCHANGED wire

Cpu == Stage \/ StageEnd \/ PrintEnd \/ KickPoll \/ KickSize \/ KickLoad \/ KickStart
       \/ KickNothing \/ TakeIrq \/ IrqClear \/ IrqAdvance \/ IrqZero \/ BarrierEnd
       \/ SyncDrained \/ Dump \/ Reset

Next == (\E m \in Messages : Vprintk(m)) \/ Barrier \/ Crash \/ Cpu \/ Transmit

\* The CPU runs on, the USART keeps taking characters; nobody has to print,
\* to wait or to crash.
Spec == Init /\ [][Next]_vars /\ WF_vars(Cpu) /\ WF_vars(Transmit)
-----------------------------------------------------------------------------
(***************************************************************************)
(* Properties.                                                             *)
(***************************************************************************)
TypeOK ==
  /\ ring \in [0 .. Size - 1 -> Chars] /\ rest \in Seq(Chars)
  /\ cons \in 0 .. CtrMod - 1 /\ prod \in 0 .. CtrMod - 1
  /\ target \in 0 .. CtrMod - 1 /\ sent \in 0 .. CtrMod - 1
  /\ dma_sz \in 0 .. Size /\ cndtr \in 0 .. dma_sz /\ src \in 0 .. Size
  /\ {sync, en, tcif, primask} \subseteq BOOLEAN
  /\ ctx \in {"thread", "irq", "crash"}
  /\ pc \in {"idle", "stage", "kick", "load", "start", "enable", "clear", "advance",
            "zero", "barrier", "drain", "dump"}
  /\ back \in {"idle", "barrier"} /\ lines \in 0 .. DumpLines + 1

\* What is staged and not yet on the wire.
Unsent == [i \in 1 .. Ctr(prod - sent) |-> ring[MASK(sent + i - 1)]]

Fifo == INSTANCE ConsoleFifo
          WITH queue <- Unsent, wire <- wire, Capacity <- Size - 1,
               Char <- Chars

\* The ring, the two ways to send and the crash path together are a FIFO:
\* nothing staged is lost, repeated, reordered or left unsent, across DMA
\* chunks, wrap-around, the switch to synchronous mode, and a reset.
FifoSpec == Fifo!Spec

\* The consumer index is exact at every step of every context: a character counts
\* as consumed only when it is on the wire, and what the channel has sent of the
\* transfer in flight is what cons still has to move by.  A transfer is not in
\* flight before its count is loaded, nor when cons has moved past it.
InFlight  == IF pc \in {"load", "zero"} THEN 0 ELSE dma_sz - cndtr
ConsExact == sent = Ctr(cons + InFlight)

\* console_barrier() returns: cons advances by whole chunks, and never past the
\* snapshot of prod that the barrier waits to meet exactly.
BarrierReturns == pc = "barrier" ~> pc # "barrier"

\* "... will cause any serial input to cause a crash dump of the stuck context":
\* a crash handler gets through its dump, and the system restarts.
CrashDumps == ctx = "crash" ~> ctx = "thread"

\* The ring never holds more than the full check of vprintk() allows.
NeverOverfull == Used <= Size - 1
=============================================================================
