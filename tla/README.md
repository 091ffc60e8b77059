# FlashFloppy TestBed: verification project

The testbed is firmware for an STM32F105 on a modified Gotek: it drives the floppy bus of a
FlashFloppy device under test as a host would. It reads and writes flux through two DMA rings,
decodes and encodes IBM and Amiga tracks, selects images through the direct-access protocol, and
reports over a serial console. One thread runs the tests; DMA engines, timers and interrupt
handlers run beside it.

The modules here model that program from its source under `src/`, TLC checks them on small
instances, and TLAPS proves the central ones for every value of their constants.

## Inventory

| Component | State | Operations | What is hard |
|---|---|---|---|
| Write path (`floppy_generic.c`) | ring `dma_w`, CNDTR, `struct write`, timer, write gate, `index.count` | `floppy_write_prep`, `floppy_write`, `floppy_write_now`, `IRQ_INDEX_changed` | CPU, DMA and index interrupt share the ring and a counter without handshakes |
| Read path (`floppy_generic.c`) | ring `dma_r`, `prev_sample`, `bc_window`, `bc_prod` | `floppy_read_prep`, `floppy_read` | DMA may lap the reader; 16-bit sample differences; sync search |
| Serial console (`console.c`) | ring, `cons`, `prod`, `dma_sz`, `sync_console` | `vprintk`, `kick_tx`, completion interrupt, `console_sync`, `console_barrier` | interrupt and crash handler may come between any two stores |
| Timers (`timer.c`) | sorted list, TIM4 | `timer_set`, `timer_cancel`, `IRQ_timer` | one one-pulse timer serves all deadlines; callbacks set timers |
| Time base (`time.c`, `stm32f10x.c`) | `time_stamp`, SysTick | `time_now`, `time_stamp_update`, `delay_ticks` | two unsynchronised reads; reload and wrap |
| Drive and disk change (`floppy.c`, `gotek/floppy.c`) | `drive[].cyl`, selected unit, `dskchg.count`, bus signals | `floppy_select`, `floppy_seek`, `floppy_disk_change`, `test_ready` | handshake with the device under test, timeouts |
| Direct access (`da.c`) | sector buffers | `da_select_image`, `da_test` | a command sector and its status, then a disk change |
| IBM tracks (`ibm.c`) | bitcell buffers, `index.count` | scan, search, read and write of sectors and tracks, MFM and FM | what belongs to this revolution; write placed after a header |
| Amiga tracks (`amiga.c`) | bitcell buffers, `index.count` | track read and write | the whole track in one read, from the sector after the last |
| Codecs (`mfm.c`, `fm.c`, `crc.c`) | none | conversions in place, checks, CRC | in-place overlap, clock bits across words |
| LED display (`led_7seg.c`) | two open-drain pins | start, byte with ACK, stop, retries | bus state after a failed transfer |
| Test sequences (`main.c`, `quickdisk.c`) | none of their own | tests, sector numbering, index timing | index periods measured by polling |
| C library (`util.c`, `string.c`) | random seed | `vsnprintf`, `memcpy`, `rand`, ... | not modelled: textbook functions; `qsort_p` and `strtol` have no caller |
| Board, registers, scripts, build | - | initialisation, image files | not modelled: straight-line or host-side |

Interactions: the track formats call the read and write paths; the write path relies on the index
interrupt for its early end; delays and time-outs rest on the time base, whose stamp is renewed by
a timer; every component prints to the console, and failures end in `EXC_unexpected()`, which
takes over the console.

## Modules

### WriteRing: the write path

The CPU converts bitcells to flux intervals and stores them in the ring `dma_w`; circular DMA
moves one entry to the timer at every timer update; the index interrupt counts revolutions. The
CPU learns the position of the DMA only by reading CNDTR (`Poll`, `DrainPoll`), and the DMA never
learns the position of the CPU.

`Prep` and `EnableDma` are `_floppy_write_prep()`; `Poll`, `Put` and `Commit` are
`wdata_bc_to_flux()`, one action per shared access, so that the DMA (`Fetch`) may move between
any two; `SetStop` ... `StopDma` follow `floppy_write()` line by line. `ArmIndex` and `CallWrite`
are the callers' wait for the index hole. A bitcell buffer is represented by the number of its
reversals and whether zero cells follow the last one, because nothing else in it decides control;
entry `i` of the ring stands for the `i`-th interval.

*Properties.* `RingFifo`: the slots in front of the DMA are exactly the entries made and not
loaded. `FluxInOrder`: the timer is given 1, 2, 3, ... `CompleteOrIndex`: a write ends complete or
at the index hole asked for. `IndexStop`: that hole is never missed, and there is none for
`terminate_at_index = 0`. `StaleTail`: how far the DMA runs past the end. `NoUnderrun`: the CPU
stays ahead. `WriteReturns`: the call returns.

*Assumptions.* A ring underrun is possible whenever the DMA is fast enough and is not detected by
the code. Each write therefore has a pace (`speed`, one of `Paces`), so many CPU steps at least per
transfer, and pace 0 lets the two interleave freely: there the safety properties state what holds
until the DMA has outrun the CPU (`under`), and `NoUnderrun` states under which pace it never
does. At most
one index pulse falls between two comparisons with `stop_index`: a revolution takes 200 ms, a
pass of the loops microseconds. `MaxRevs` bounds the pulses of one write and `IndexMod` the
counter, with `MaxRevs + 1 < IndexMod` as in reality (a write does not last 2^32 revolutions).

*Fairness* (`FairSpec`): the CPU keeps running, the timer keeps updating, the disk keeps turning.
Nothing obliges the caller to start a write.

*Proof* (`WriteRingProofs`). The invariant `IInv` has one part per idea: where the CPU is for each
state of the hardware (`PhaseInv`), the producer index is where the entries not yet loaded end
(`PositionInv`), the rest of a batch fits in front of the DMA and before the wrap (`BatchInv`;
without it `RingFifo` is not inductive, since a batch computed from an old CNDTR must stay
harmless while the DMA moves), the drain loop has not seen fewer entries than are left
(`DrainInv`), and `stop_index` is as many pulses ahead as remain (`StopInv`).

Two more invariants count transfers in steps of the CPU. `TailInv`, for `StaleTail` (theorem
`StopsAfterData`): at a pace of one or more a step makes at most one further transfer possible
(`Due`), so the stale transfers, and in the drain loop all transfers since its last poll, are
bounded at every statement; `OvershootInv` says how far the DMA is past the producer's index, from
which the first poll of the loop can tell. `FillInv`, for `NoUnderrun` (theorem `NeverUnderrun`):
`Lead` is three times the entries in front of the DMA less the steps since its last transfer. A
transfer leaves it as it is, a step takes one, an entry stored adds three; so what the overhead of a
batch costs must be in the ring before the batch, and a batch of one, as the wrap may leave it,
pays one less than it costs (`AtWrap`). `FillAssumption` asks for a ring of five entries, batches of
two, and a reversal in what is written at that pace; the code has 1024 and 32. TLC refutes
`NoUnderrun` for batches of one and for a ring of three.

### Console and ConsoleFifo: the serial console

`ConsoleFifo` is the promise: what is accepted leaves on the wire once, in order, and eventually.
`Console` models `vprintk()`, `kick_tx()`, the completion interrupt and the crash path at the
grain of single stores, with three contexts (thread, interrupt, crash handler) and the DMA engine
beside them. `FifoSpec` is the refinement: the queue is what is in the ring from the next
character to be sent up to `prod`; a reset empties nothing, because by then all is sent.
`ConsExact` ties the consumer index to the wire at every step: `cons` is as far behind the wire as
the transfer in flight has sent (`InFlight`), and a transfer is not in flight before its count is
loaded nor after `cons` has moved. `BarrierReturns` and `CrashDumps` are the liveness of the two
waits.

Two runs show where code and comments disagree (see `findings` in `PROJECT.json`): a line feed
that overfills the ring, and serial input that stops the crash dump. The passing run excludes both
by its constants: `LfNeedsRoom` (a message with a line feed finds room) and
`CrashFrom = {"thread"}`. The model also has the interrupts enabled again during the dump, by the
unconditional `IRQ_global_enable()` of `vprintk()` (console.c:95), although the crash handler has
disabled them; no property depends on it.

*Fairness*: the CPU steps on and the USART takes characters.

*Proofs* (`ConsoleProofs`). `ConsExact` holds for every ring size, counter width and set of
messages; it needs two further parts: which context may be at which step (`CtxInv`), and how
channel, count and flag agree between the stores of `kick_tx()` and of the completion handler
(`DmaInv`). The second half of the module proves the refinement: each step of the console is a step
of the FIFO or leaves it alone (`ImplementsFifo`). `FifoInv` adds what is needed for it: what is left
to send and what is in flight fit in the ring, the channel has no more to send than is left and
addresses the next character, and a message being staged finds room for what its line feeds become.
The ring is addressed by a counter modulo the counter width, reduced modulo the ring size; the lemmas
on `MASK` and `Ctr` say that the two agree because the one divides the other. Both proofs assume
`ThreadCrashes`, the second also `RoomForLf`: these are the two exclusions of the passing run, and
the violating runs show that neither can be dropped.

### Timer

The list of active timers, the hardware count, the pending interrupt, and the steps of
`timer_set()`, `timer_cancel()` and `IRQ_timer()`. Deadlines are kept as the code compares them,
as differences to now. Between its calls the thread may mask interrupts, as `vprintk()` does while
it formats and stages a message (`Disable`, `Enable`). `Sorted`, `WakeupArmed` (no lost wake-up),
`OnTime` (lateness is bounded by the CPU's delays) and `HandlerEnds`.

*Assumptions.* `LatencyAssumption`: a step of the CPU takes at most `MaxDelay` ticks, less than the
slack of 12 that the code has for it and less than the 50 units by which a coarse count ends early;
calls of the thread are `SetGap >= 2` ticks apart. That is right for the few instructions of
`reprogram_timer()` and `IRQ_timer()` and for the index interrupt in between. It says nothing about
how long interrupts are masked: `MaxMask` is any number, tens of microseconds in the code, and
bounds the lateness (`WakeLate`) instead. `DeltaAssumption`: a deadline is no more than one
tick past when it is set, and callbacks set theirs beyond the slack (the only callback of the program
sets its own 500 ms ahead). Without the last a callback could keep the handler for ever.

*Fairness*: the CPU steps on and time passes.

*Proof* (`TimeProofs`, second half). All three safety properties are proved for any number of
timers, scale of the hardware timer and deadlines. `RemoveAtIs` and `InsertAtIs` say what the two
operations on the list do to a sequence, `LeastElement` that the loop of `timer_set()` finds its
place. The bound on the lateness is what the proof made of it: a timer waits for the thread to
unmask interrupts (`MaskedInv`) and for the callbacks of those before it, and each costs two delays,
the callback's and the next look at the list; `LateInv` therefore allows a timer at place `i` to be
overdue by two delays for each of the timers that can have been called before it came there
(`Wait`), besides the time of the current step. `DelayInv` bounds that step, `ProgramInv` says what
`reprogram_timer()` is called with, and `ArmedInv` how far ahead the count may be.

### TimeBase

32-bit time from the 24-bit SysTick counter, with words taken apart into high byte and counter as
`time_now()` does. The callback interrupts the thread between its two reads. `NowIsExact`,
`StampIsRecent`, `DelayIsExact`.

*Proof* (`TimeProofs`, first half). For every width of the two parts, and every period and delay
with `Period + Late + MaxStall` below one counter period: `TimeNowIsExact` is the arithmetic of
`time_now()`, and `TimeInv` adds that the stamp is `age` ticks old with `age + due = Period`, that
the callback's time and the reader's copy are as old as their counters say, and that a delay has
accounted for all ticks up to its last poll.

### ReadRing and TrackRead: the read path

The RDATA timer captures its counter at every reversal, DMA stores the captures in the ring
`dma_r`, and `floppy_read()` turns differences of captures into bitcells. `Prep` is
`floppy_read_prep()`, `StartTimer` and `Stop` the ends of `floppy_read()`, `Poll` its reading of
CNDTR, and `TakeSync` and `TakeData` the treatment of one capture by `rdata_wait_sync()` and
`rdata_flux_to_bc()`. `Reversal` is the disk, the timer and the DMA. Words and marks are short
sequences of bits; cells, counter width and ring size are constants.

*Properties.* `ReadsDisk` compares the buffer with the cells that passed the head: from the first
sync mark, over word boundaries, batches and wraps, nothing dropped or repeated. `SyncIsOnDisk`:
the search ends as soon as, and only if, a mark has been captured. `NoOverrun` and `ReadReturns` hold
at a bounded pace: on average as many CPU steps per capture as the pace says, at most `Burst`
captures without any. With a larger burst or a lower pace TLC finds the ring lapped. A read may
also run at pace 0, any interleaving; the second read then finds what the first, which has lost
captures, left behind.

`TrackRead` is the promise, without ring, timer and CPU: cells pass, and a step delivers the next
words once all of them have passed, counted from the first mark on; a word that has been delivered
does not change until the next read begins, even if captures have been missed, and then nothing
else is promised. `ReadSpec` is the refinement: what is delivered is the words of the buffer below
`bc_prod`, and none while the search lasts.

*Assumptions.* The two decoders treat an interval exactly half-way between two numbers of cells
differently (`SyncCells` rounds up, `DataCells` down); the disk shows none (`NoTie`). Intervals
are at most six cells, beyond which the code only warns. The buffer has at least two words: a
mark found with a one-word buffer would already fill it. The index and the previous capture are
saved only when `rdata_flux_to_bc()` returns with the buffer not yet full; nobody reads them after
the last call, so the model keeps them up to date.

*Fairness*: the CPU steps on and the disk shows reversals.

*Proof* (`ReadRingProofs`). `DecodersAgree`: for every cell length and every interval that is not a
tie, however long, the division of the one decoder, the subtractions of the other and the nearest
number of cells are the same. `PositionOK`, that the reader's index is where the untaken captures
begin, also after a loss, needs the invariant `IInv`: what lies between the
position last read from CNDTR and the index is part of what is pending (`BatchInv`), and the timer
runs in just three phases of a call. `NoOverrun` follows for every burst shorter than the ring from
`PaceInv`: what is pending, priced at the steps a capture pays for, and the steps in hand together
never exceed what a burst brings, and one step more while a batch is being taken.

`ReadsDisk` and `SyncIsOnDisk` rest on `DiskInv`: while no capture is lost, there is a division of the
cells that have passed (`Cut`) such that the pending captures, whichever slots and counter values
they occupy, are seen by either decoder as the cells between two cuts; what is before the first cut
has been taken, and window and buffer are pieces of it (`Decoded`). `Recent` is the window that
follows the disk, after nothing but ones: since a mark begins with 0 and ends with 1
(`MarkAssumption`), it is never found in fewer cells than a window and never inside an interval
(`NoMarkInside`), so looking once per capture skips none. The bounds on captures and reads do not
enter.

`ImplementsTrackRead` proves `ReadSpec` from these and `CountInv`: also after a loss, when the
intervals seen are anything, either decoder takes at least one cell (`SyncCellsIs`, `DataCellsIs`),
so `bc_prod` only grows and the words below it are not written again. The step that takes a capture
is a delivery if it completes a word (`TakeDelivers`), a reversal is a step of the disk, and all
other steps are not to be seen from outside.

### DiskChange: drive control and image selection

`floppy_init()`'s search for track 0, `floppy_select()`, `floppy_seek()`, `da_select_image()`,
`floppy_disk_change()`, `test_ready()` and `IRQ_DSKCHG_changed()`, each at the grain of one
sample of a line or one step pulse, against an external device: FlashFloppy as the code expects
it. It drops its image when the head returns from the direct-access cylinder, asserts DSKCHG
within `EjectBy`, mounts the image named last within `MountBy`, shows it after the next step
pulse and is ready within `ReadyBy`.

*Properties.* `CylIsHead`: the driver knows where the head is, wherever it started and however
often it was stepped against the stop. `ChangeComplete`: when the call returns, the image asked
for is in the drive; no old edge or level passes for the change. `NoBug`: a device within its
bounds, and a thread held up by `MaxStall`, trip no time-out. `CallsReturn`.
`InTimeAssumption` says how much of each time-out device and interrupts may use; it is tight,
that is, one tick more in any of its three bounds makes TLC find a BUG.

*Fairness*: the thread steps on, the device meets its obligations, the interrupt is served, time
passes. Nothing obliges the tests to make another call.

*Proof* (`PeripheralProofs`, first half). All three safety properties are proved for every number of cylinders,
set of images, time-out, device delay and stall within the assumptions. The device passes through
three stages in a change, told, ejected and mounted; `ChangeInv` says at each statement which of
them are possible and what `dskchg.count` and the pending edge tell of them, which is why the
count must be reset before the head leaves the direct-access cylinder. `CalmInv` says that outside
a change no edge can come but the one `floppy_init()` sets pending. The time-outs need a relation
between two clocks, the device's time since its obligation began (`age`) and the thread's since its
time stamp (`elapsed`): `EjectInv`, `MountInv` and `ReadyInv` state it for the three waits,
counting the delays between the cause and the stamp and the stall between a sample of the line and
the comparison.

### TrackDisk, IbmTrack, AmigaTrack and TrackTests: the track formats

`TrackDisk` is a disk that turns by one byte per tick while the thread computes, up to `MaxLag`
ticks per step, and the steps that the track functions share: a read is the one promised by
`TrackRead`, from the first mark that begins after its start, and a write lasts from `OpenGate` to
`CloseGate`. The track is the set of its marks with place, kind, sector and content; marks that
lose a byte are gone, marks written to their end are there.

`IbmTrack` has `ibm_mfm_scan()`, `ibm_fm_scan()`, the reads and writes of sectors in both formats
and `ibm_mfm_write_track()`; `AmigaTrack` has `amiga_track_read()`, which looks for the header with
one sector to go and reads the whole track behind it in one piece, and `amiga_track_write()`, which
writes more than a revolution and is stopped by the index. `TrackTests` composes them as their
callers do: `mfm_rw_sector()`, `fm_rw_sector()`, `check_mfm()` of the Quick Disk variant, which
formats a track, and `adf_test()`, each a fixed sequence of calls with the wait for the index
between them, on any sector and with any content, in any order. The verdicts of the callers,
`check_ibm_idams()` and the `memcmp()` of what was written and read, are part of `warned`.

*Left out* is the formatting by `dsk_test()` and `img_test()`. The first writes one sector to a track
of sixteen, later one with a number that the track does not have; the second writes five headers,
(2, 3, 0) to (2, 3, 4), and then reads (0, 0, 1), which is none of them (`main.c:435-443`,
`468-477`). They test how a drive emulator takes that: it keeps the layout of its image and stores
the data of the sectors it knows. How it does so is not in this repository. On the disk of
`TrackDisk` the read would not find its header: `ibm_mfm_search()` would warn at the second index
pulse and search for ever (`ibm.c:80-87`). Nothing below is said of these two.

*Properties.* `NoWarn`: none of these tests ever blames a healthy disk; it covers the headers of a scan (each
once, in order, although the scan decides by `index.count` after a read has returned), the searches
(no more than two pulses), the data that follows a header, the order and distances of Amiga
sectors, and what is read back. `GapMeasured`: the gap that a scan computes is that of the track,
give or take the lag, so that half of it fits. `TrackIntact`: between writes every sector holds
what was last written to it, complete, and a track written from index to index is there as a
whole. `TestsEnd`: no call waits for ever; the search has no limit, so this is the claim that no
write of a test takes the header it will look for, or the mark behind it, from the track.

*Assumptions.* `LagAssumption` relates the lag to the gaps. Two of its parts were found by TLC: a
data field that was itself written late can hide the next header from a search that stepped into
it, and the search then needs a further revolution; and the lag of three steps must fit in the sync
gap, or the half of the measured gap is too long. The rest is what the proof asked for besides: no
field and no gap may go by within one step, nor the data field that a write replaces within two. In
the code the sync gap, of 12 bytes in MFM and 6 in FM, is the tightest: it allows a step four bytes
or two, which is 32 us at the highest density. The sectors asked for are on the track.

*Fairness* (`FairSpec`): the thread runs and the disk turns; nothing obliges a test to begin.

*Proof* (`TrackTestsProofs`). All three safety properties are proved for any number of sectors, any
contents, and any track, gaps and lag within the assumptions. `LayoutInv` gives the marks outright:
those of a track that begins up to two steps late, in which each data field of an IBM track may be
late by as much again, because `write_sector()` places it after a header read late. `IbmFacts` and
`AmigaFacts` draw from it all that the steps use, above all that no two marks are so near that one
is missed while the other is read (`Spaced`). The thread knows where the disk is in three ways, and
each has its invariant. A mark being read began `Gone` ticks ago, which its bytes count
(`ReadingInv`). A search or a scan that has seen one index pulse is at a place of the track where the
target is still to come, or all headers listed have gone by and all others have not (`SearchInv`,
`ScanInv`): the induction needs it since nothing else keeps a search from meeting the second pulse,
or a scan from listing a header twice. A write is open from a place known up to two steps to one that
the bytes left tell (`GateInv`), so it replaces one data field, or the whole track up to the hole.
`Program` ties statement and call to the test, and `DataInv` says from which call of the test on the
sectors hold what is later compared with them.

### HardSector: the tests of hard-sectored disks

`get_index_period()`, `wait_for_hard_sector_trkstart()`, `check_hard_sector_indexes()`, the
timing test and the write test of `main.c`. Such a disk has a pulse per sector and one in the
middle of the last; the thread knows the sector only by counting pulses. `Arm` and `Measured` are
the two ends of `get_index_period()`; `stage` is where in the test the shared subroutines were
called from. Tolerances of 200 us become equality, since a tick is a large part of a sector. The
disk is in any position when the test starts and has either the geometry the test expects or
another one: a sector more or less, or no index hole.

*Properties.* `WritesOwn`: on the expected disk writes begin and end in their own sector, the
formatting write at the start of the track (the comment "Assumes currently at track start"), and a
formatted track has its sectors in order. `NoWarn`: such a disk is never blamed. `FaultSeen`: a
disk of another geometry is warned of by the first check, although the search for the start of the
track may take it for a good one. `TestsEnd`. `TimeAssumption` bounds the seek by one sector less
four steps of the thread: 12 ms and the message in the code, of 20 ms.

*Proof* (`HardSectorProofs`). For every number of sectors from three on, any number of tracks, any
set of disks and seeks, and all times within `TimeAssumption`. The thread knows the sector only by
counting, so the invariant relates every counter to `From`, the pulse at which the period being
measured begins: `CountInv` does so at each statement that measures periods, and `PromptInv` says
that a period that counts begins with the very pulse at which the last one ended, which keeps the
count from slipping. A disk of another geometry may pass for the expected one while the start of
the track is searched for: `CountInv` says where the search may then have ended, and `FaultInv`
that nothing but the search and the check of the first few sectors goes by before it is found out.
`SoonInv` bounds the age of the pulse at the steps that must follow it promptly.
All of this holds until something is warned of, and nothing is warned of on a good disk, so the
invariant is `Good => ~warned` and, unless `warned`, the rest. `WriteInv`, `FormatInv` and
`ReadInv` follow a write from its gate to its end against the pulses and say what the sectors then
hold. The induction asked for one assumption that no run had missed: a thread which writes sector
after sector is up to three steps late at the pulse, and that must be less than half a sector
(`3 * MaxLag < Half`; in the code milliseconds against 10 ms). The contents of a sector are
assumed to differ from the numbers of sectors that a formatted track holds (`DiskAssumption`).

*Fairness*: the thread runs and the disk turns.

### Tm1651: the LED display

Commands and segments are clocked bit by bit over two open-drain wires into the display chip,
which acknowledges each byte by holding DAT low. A step is one edge: `Start1` to `Stop3` are
`tm1651_start()`, `tm1651_write()` and `tm1651_stop()`, `TryAgain` is the retry loop, `Transfer`
what its callers send, `Glyph` and `Decimal` the texts. The chip is external: it is what the
driver's comments rely on. It may be absent, a reset of the CPU finds it anywhere in the middle of
a transfer, and in up to `MaxFaults` attempts of a call it misses the clock pulse of a byte or a
start condition.

*Properties.* `ShowsAccepted`: if the driver believes that the chip has taken a transfer, the
display shows it; a fault is either repaired by a retry or reported. `RetriesSuffice`: with at
most two faults no call fails.

*Assumptions.* At most one fault per attempt. A pulse missed at the end of one transfer together
with one missed at the start of the next joins the two undetected, as TLC found; the fault model
excludes it. Display modes of the chip that the driver does not use are left out. As in the code,
`led_7seg_write_decimal()` always prints two digits, since `nr_digits` is never set, and
`led_7seg_init()` ignores the result of `tm1651_init()`.

*Proof* (`PeripheralProofs`, second half). Both properties are proved for all texts and numbers,
for every byte that a reset may have interrupted (`Partials`: any bits, up to eight), and
`ShowsAccepted` for any number of faults in a call. The invariant (`LedInv`) follows the chip along
the driver's edges. A chip in step has as many bits as there were clocks (`InStep`), and what has
arrived and what is still to be sent make up the byte (`ValueInv`). Only a fault of the same attempt
puts it out of step (`SyncInv`); a chip that missed a clock of the first byte is one bit short, so
that the driver gets no acknowledgement, and the low level of the stop condition gives it a last bit
with which the byte is neither an address nor a setting (`LateInv`). For `RetriesSuffice` each
attempt that fails is charged with a fault of its own (`CountInv`); what a reset left in the chip
costs none (`StaleInv`).

### Codec and Field: bitcells, bytes and sums

`Codec` has the MFM and FM codes of a byte, the tables of `mfm.c` and `crc.c`, computed from what
they mean and compared with the source, and the CRC. `Field` follows one data field through
`ibm_mfm_write_sector()`, `ibm_fm_write_sector()` and the corresponding reads: laid out in the
buffer, converted in place to bitcells from the end downwards with one byte read ahead (`Convert`),
checked, given its sync marks (`PatchAndWrite`), damaged on the disk, found again by its mark
(`ReadFrom`), checked, converted back and summed. Addresses start at -1, because the last round
reads the byte before the buffer.

The read path warns of every interval of more than six cells that it meets on the way ("Long flux",
`floppy_generic.c:49-55` and `113-117`), in the gap before the mark as well as in the field
(`LongFrom`, `long`), but for the search in the Quick Disk build (`QuickDisk`). What lies between the
header and the field is external, and may hold such an interval too (`splice`). If damage leaves no
mark, the search goes on to the mark of the next header, which is no data mark and is warned of
(`Missed`; that this header is sound is assumed). If damage makes a mark so late that the field would
end behind the cells modelled, the model stops; the run has no such damage and checks for deadlock.

*Properties.* `InPlace`: what is written to the disk is the code of what was laid out. `SyncAtMark`:
the search finds the mark and nothing before it. `WarnsOfDamage`: whatever cells are damaged, a
`WARN_ON` fires exactly if a data or clock bit of the field came back other than it was written or an
interval was long, without a `WARN_ON` the data is right, and no track has a long interval as it is
written. Damage to the gap can thus be warned of although the field is returned intact.

*Proof* (`FieldProofs`). For every length, gap and content: decoding inverts encoding
(`DecodeEncode`); the conversions never overwrite what they have still to read, since round `n`
writes the words above byte `n - 1`, which it has already read ahead (`ConversionsInPlace`); and
the search stops at the mark only, because a window that looks like the mark must lack a clock
bit between two zeros, which coded bytes never do (`SyncOnlyAtMark`).

`WarnsOfDamage` rests on the sum, whose properties are proved first, for bytes of any number. A
shift of the register is linear and maps nothing but zero to zero (`ShiftLinear`); what a byte adds
is eight shifts (`AddByteIsShifts`), so different registers stay different under the same bytes and
two bytes leave a register of their own (`TwoBytesKeepApart`). Hence `SumOfSum`: the sum over a
field and its sum is zero; and `SumTellsBursts`: a difference within two neighbouring bytes changes
the sum. The second invariant, `FieldInv`, says what is on the disk, word by word (`SentWord`), and
that `warned` tells whether intervals, clock bits, mark and sum of what was read are right. That comes down to
what was written, both ways (`RightBytesAreSent`, `SentBytesAreRight`; the first word behind the
mark is compared with the wrong bit of the word before, which does no harm because 0xfb begins with
a set bit). Four theorems result. A track has no long interval as it is written: of six cells without
a reversal two would be missing clock bits two cells apart, and in neither mark are those missing
with nothing between them (`NoIntervalIsLong`). A field that comes back as it was written is
returned, and warned of only for a long interval (`RightDataIsReturned`). Whatever the disk inverts,
a field is warned of exactly if it differs from what was written or an interval was long, unless it
is another field with clock bits, mark and sum of its own (`OnlyARightSumMisleads`). And damage within two neighbouring words never makes such a field
(`BurstsAreWarnedOf`). A sum of 16 bits cannot promise more for every damage; the instance
enumerates pairs of damaged cells up to 31 apart.

## Runs

| Run | Bounds | Shows |
|---|---|---|
| `write_ring` | ring of 8, batches of 3, writes of 2 and 10 reversals, stops 0 to 2, two revolutions; any interleaving, and one or three CPU steps per transfer | ring is a FIFO; writes end complete or at their index hole; at a pace of one, `floppy_write()` returns and overshoots by at most 4 entries; at three, no underrun |
| `console` | ring of 4, counters modulo 12, five messages with CR and LF, crash of the thread | refinement of the FIFO; barrier and dump end |
| `console_lf`, `console_input` | as above, two messages | the two divergences |
| `timer` | two timers, past, near and far deadlines, interrupts masked for less and for more than a step of the CPU | sorted, armed, on time, handler ends |
| `time_base` | 3 x 16 values, period 6, delays up to two counter periods | time and delays exact |
| `read_ring` | ring of 4, two words of 4 bits, 5 captures, two reads; any interleaving, and two CPU steps per capture with bursts of 3 | reads deliver the disk from the first mark on, word by word as `TrackRead` says; at the bounded pace no capture is lost and `floppy_read()` returns |
| `disk_change` | cylinders 0 to 3, two images, all time-outs of a few ticks, stalls of one | disk changes are complete, no BUG |
| `tracks` | MFM, FM and Amiga tracks of 34 bytes, two sectors, two contents, lag of one byte | the tests end and never blame the disk; every sector keeps what was written to it |
| `hard_sector` | three sectors of 12 ticks, or two, four, or no index hole; two tracks, seeks of up to 7, lag of one tick | sectors are counted right through both tests; other disks are found out |
| `tm1651` | short strings and decimals, chip absent or present in any state, two faults per call | what is accepted is shown; three attempts are enough |
| `field` | fields of two bytes, sync gap of three, gap of two, both codes; one damaged cell, two up to 31 apart, or a short burst, at every place, and a long interval before the field or none | conversion in place, sync at the mark, damage warned of and nothing else |

The rings wrap several times within one behaviour, batches end at, before and after the wrap, and
writes and reads are shorter and longer than the ring, so every branch of the code is taken;
larger rings repeat the same residues. The counters wrap in every run. Two sectors are enough for
a track because each sector meets both kinds of neighbour: the other one and the index gap. Three
hard sectors are the fewest that have a full period between two others. A data field of two bytes
has a first, a last and, with mark and sum, every kind of word between them.

Two runs switch the deadlock check off: `read_ring`, where after `MaxReads` reads and `MaxFlux`
captures nothing is left to do; and `console_input`, whose violation is a CPU that waits for ever.

## What is proved and what is only checked

Proved, for every value of the constants that the named assumptions of the modules allow:

| Module | Theorems |
|---|---|
| `WriteRingProofs` | `RingFifo`, `FluxInOrder`, `CompleteOrIndex`, `IndexStop`, `StaleTail`; `NoUnderrun`, if `FillAssumption` |
| `ConsoleProofs` | `ConsExact`, if only the thread crashes; the safety part of `FifoSpec`, and `NeverOverfull`, if line feeds find room as well |
| `TimeProofs` | `NowIsExact`, `StampIsRecent`, `DelayIsExact` of `TimeBase`; `Sorted`, `WakeupArmed`, `OnTime` of `Timer` |
| `ReadRingProofs` | `ReadsDisk`, `SyncIsOnDisk` and the refinement `ReadSpec`; `PositionOK`; `NoOverrun`, if `Burst < Size`; and that the two decoders agree |
| `PeripheralProofs` | `CylIsHead`, `ChangeComplete`, `NoBug` of `DiskChange`; `ShowsAccepted`, `RetriesSuffice` of `Tm1651` |
| `FieldProofs` | `InPlace`, `SyncAtMark`; no long interval as written; `WarnsOfDamage`, if the damage is within two words or no other field with a right sum is read; and that decoding inverts encoding |
| `HardSectorProofs` | `WritesOwn`, `NoWarn`, `FaultSeen` |
| `TrackTestsProofs` | `NoWarn`, `TrackIntact`; `GapMeasured`, if there are two sectors to measure it between |

Each rests on an inductive invariant (`IInv`, in `TimeBase` `TimeInv`, in `Tm1651` `LedInv`),
described with its module above. The `TypeOK` of a
module is part of the invariant where there is a proof.

Induction over numbers is used where a function is defined by recursion, as the sum is: in the form
of a set of numbers with zero in it that is closed under successors (`NatSetInduction`).

Only model-checked: liveness, which is out of the prover's reach, and `WarnsOfDamage` for damage in
more than two neighbouring words, as said above.

## What is left

1. `TrackDisk` counts bytes and marks where `TrackRead` counts cells: that a read of `TrackDisk` is
   one of `TrackRead`, through the encodings of `Codec`, is argued and not proved.
2. The sector order of `mk_ibm_idams()` for any interleave and skew; in `TrackTests` the sectors
   are numbered in the order in which they follow the index.
3. Unit 1 of the drive and the side select, which the tests hardly use.

## What is not modelled and why

- The top level of `main.c` walks through images, tracks and formats and prints; it is
  straight-line code over the tests that are modelled. The same holds for the tests of
  `quickdisk.c`, whose drive has READY in place of INDEX and a motor that is switched.
- Board set-up, register definitions, vectors and build rules have no behaviour of their own.
- The scripts under `scripts/` run on the host and write blank image files.
- `vsnprintf()` and the string functions: their output matters to no property here. `qsort_p()` and
  `strtol()` have no caller in the program.
- The formatting by `dsk_test()` and `img_test()`: it makes sense with a drive emulator only, whose
  handling of foreign headers is not in the repository (see the track formats).
- The odd and even halves of Amiga longwords and their checksums: the sectors of `AmigaTrack`
  carry their content as a value.
- Unit 1: the program selects unit 0 only.
