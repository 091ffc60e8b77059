------------------------------- MODULE Tm1651 -------------------------------
(***************************************************************************)
(* The display driver (led_7seg.c): commands and segments are clocked bit  *)
(* by bit over two open-drain wires into a TM1651, which acknowledges each *)
(* byte by holding DAT low.  A transfer without acknowledgement is tried   *)
(* three times, from whatever state it has left chip and wires in.         *)
(*                                                                         *)
(* The chip is external: it is what the comments of the driver rely on.    *)
(* It may be absent, it may miss clock pulses and start conditions, and a  *)
(* reset of the CPU finds it anywhere in a transfer.  The delays separate  *)
(* the edges on the wires; a step is one edge.                             *)
(***************************************************************************)
EXTENDS Integers, Sequences

CONSTANTS
  Strings,    \* arguments of led_7seg_write_string(): sequences of characters
  Decimals,   \* arguments of led_7seg_write_decimal()
  Partials,   \* bits of a byte that a reset of the CPU may find the chip to have
  MaxFaults   \* bound: attempts of one call in which the chip misses a clock pulse or
              \* a start condition

ASSUME StringAssumption == /\ Strings \subseteq Seq(1 .. 255)
                           /\ Decimals \subseteq Nat /\ MaxFaults \in Nat
                           /\ Partials \subseteq Seq({0, 1})
                           /\ \A b \in Partials : Len(b) <= 8

VARIABLES
  stage,    \* where the thread is
  script,   \* the calls still to make in led_7seg_init(); <<>> otherwise
  bytes,    \* what the call transfers
  k,        \* bytes of the attempt that are acknowledged
  y,        \* tm1651_write(): the bits left, and a marker
  fail, retry,
  dat, clk, \* the levels the driver asks for
  \* the chip
  present,
  seen,     \* the level of CLK that it knows of
  live,     \* between start and stop condition
  bits,     \* of the current byte
  pull,     \* it holds DAT low
  nr,       \* bytes received since the start condition, up to 2
  addr, segs, lit,
  \* observation
  missed, faults,   \* in which attempt of this call the chip last did, and in how many
  text, on  \* what display and brightness were last set to; "unknown" if that failed

call    == <<script, bytes>>
tries   == <<k, y, fail, retry>>
chip    == <<present, seen, live, bits, pull, nr, addr, segs, lit>>
asked   == <<text, on>>
ledVars == <<stage, call, tries, dat, clk, chip, missed, faults, asked>>

(***************************************************************************)
(* Characters and segments.                                                *)
(***************************************************************************)
digits == <<\h3f, \h06, \h5b, \h4f, \h66, \h6d, \h7d, \h07, \h7f, \h6f>>
letters == <<\h77, \h7c, \h58, \h5e, \h79, \h71, \h6f, \h74, \h04,
             \h0e, \h08, \h38, \h40, \h54, \h5c, \h73, \h67, \h50,
             \h6d, \h78, \h1c, \h09, \h41, \h76, \h6e, \h00>>

Glyph(c) == IF c \in 48 .. 57 THEN digits[c - 47]
            ELSE IF c \in 97 .. 122 THEN letters[c - 96]
            ELSE IF c \in 65 .. 90 THEN letters[c - 64]
            ELSE IF c = 45 THEN \h40
            ELSE 0

\* the first three characters, and blanks
Segments(s) == [i \in 1 .. 3 |-> IF i <= Len(s) THEN Glyph(s[i]) ELSE 0]

\* "%02u" of val % 100: nr_digits is 0, it is never set
Decimal(val) == <<48 + (val % 100) \div 10, 48 + (val % 10)>>

(***************************************************************************)
(* The chip's view of the wires.                                           *)
(***************************************************************************)
Wire(d, p) == IF d = 1 /\ ~p THEN 1 ELSE 0
Value(b) == b[1] + 2 * b[2] + 4 * b[3] + 8 * b[4] + 16 * b[5] + 32 * b[6] + 64 * b[7]
            + 128 * b[8]

\* A byte is complete: a command, or data for the address that goes up by one.
Receive(v) ==
  /\ nr' = IF nr = 0 THEN 1 ELSE 2
  /\ addr' = IF nr = 0 THEN IF v = \hc0 THEN 1 ELSE 5
             ELSE IF addr < 5 THEN addr + 1 ELSE 5
  /\ segs' = IF nr # 0 /\ addr < 5 THEN [segs EXCEPT ![addr] = v] ELSE segs
  /\ lit' = IF nr = 0 /\ v \in {\h80, \h89} THEN v = \h89 ELSE lit

\* CLK goes high: one more bit, unless it is the clock of the acknowledgement
Rise ==
  /\ seen' = 1
  /\ bits' = IF live /\ ~pull THEN Append(bits, Wire(dat, pull)) ELSE bits
  /\ UNCHANGED <<present, live, pull, nr, addr, segs, lit>>

\* CLK goes low: after eight bits the chip acknowledges until the next time
Fall ==
  /\ seen' = 0
  /\ IF Len(bits) = 8
     THEN /\ pull' = present /\ bits' = <<>> /\ Receive(Value(bits))
     ELSE /\ pull' = FALSE /\ UNCHANGED <<bits, nr, addr, segs, lit>>
  /\ UNCHANGED <<present, live>>

NoFault == UNCHANGED <<missed, faults>>
Fault == /\ missed # retry + 1 /\ faults < MaxFaults
         /\ missed' = retry + 1 /\ faults' = faults + 1

\* the driver drives CLK; the chip may miss a pulse of a byte
SetClk(v) ==
  /\ clk' = v /\ UNCHANGED dat
  /\ \/ /\ present /\ seen # v
        /\ IF v = 1 THEN Rise ELSE Fall
        /\ NoFault
     \/ /\ ~present \/ seen = v
        /\ NoFault /\ UNCHANGED chip
     \/ /\ present /\ live /\ stage = "bit3" /\ seen = 0 /\ Fault
        /\ UNCHANGED chip

\* the driver drives DAT; while CLK is high this starts or ends a transfer,
\* if the wire moves, and the chip may miss the start
SetDat(v) ==
  LET before == Wire(dat, pull)
      after  == Wire(v, pull)
      start  == present /\ seen = 1 /\ before = 1 /\ after = 0
      stop   == present /\ seen = 1 /\ before = 0 /\ after = 1
  IN  /\ dat' = v /\ UNCHANGED clk
      /\ \/ /\ start
            /\ live' = TRUE /\ bits' = <<>> /\ nr' = 0 /\ addr' = 5 /\ NoFault
         \/ /\ start /\ Fault
            /\ UNCHANGED <<live, bits, nr, addr>>
         \/ /\ stop
            /\ live' = FALSE /\ bits' = <<>> /\ nr' = 0 /\ addr' = 5 /\ NoFault
         \/ /\ ~start /\ ~stop
            /\ NoFault /\ UNCHANGED <<live, bits, nr, addr>>
      /\ UNCHANGED <<present, seen, pull, segs, lit>>

(***************************************************************************)
(* The driver.                                                             *)
(***************************************************************************)
Unknown == "unknown"
Blank == Segments(<<>>)
Cmd(c) == <<c>>
Update(d) == <<\hc0>> \o d \o <<0>>

\* A reset has let go of both wires; the chip may be in a transfer of before,
\* even hold DAT, and has missed nothing of what the wires do from here on.
LedInit ==
  /\ stage = "init1" /\ bytes = Cmd(\h40) /\ script = <<Update(Blank), Cmd(\h89)>>
  /\ k = 0 /\ y = 0 /\ fail = TRUE /\ retry = 0
  /\ dat = 1 /\ clk = 1
  /\ present \in BOOLEAN /\ seen = 1
  /\ live \in (IF present THEN BOOLEAN ELSE {FALSE})
  /\ bits \in (IF live THEN Partials ELSE {<<>>})
  /\ pull \in (IF live /\ bits = <<>> THEN BOOLEAN ELSE {FALSE})
  /\ nr \in (IF live THEN 0 .. 2 ELSE {0})
  /\ addr \in (IF nr = 2 THEN 1 .. 5 ELSE {5})
  /\ segs = [a \in 1 .. 4 |-> \hff] /\ lit \in BOOLEAN
  /\ missed = 0 /\ faults = 0 /\ text = Unknown /\ on = Unknown

\* Definitions marked "wrong" are what a plausible mistake would make of the
\* definition after them; they show that a property depends on it.

Go(from, to) == stage = from /\ stage' = to
\* nothing but the wires changes
Only(from, to) == Go(from, to) /\ UNCHANGED <<call, tries, asked>>

Init1 == Only("init1", "init2") /\ SetDat(1)
Init2 == Only("init2", "start1") /\ SetClk(1)

Transfer(b) ==
  /\ Go("idle", "start1")
  /\ bytes' = b /\ k' = 0 /\ y' = 0 /\ fail' = TRUE /\ retry' = 0
  /\ missed' = 0 /\ faults' = 0
  /\ UNCHANGED <<script, dat, clk, chip, asked>>

led_7seg_display_setting(enable) == Transfer(Cmd(IF enable THEN \h89 ELSE \h80))
led_7seg_write_string(s) == Transfer(Update(Segments(s)))
led_7seg_write_decimal(val) == led_7seg_write_string(Decimal(val))

Start1 == Only("start1", "start2") /\ SetClk(0)
Start2 == Only("start2", "start3") /\ SetClk(1)
Start3 ==
  /\ Go("start3", "bit1")
  /\ SetDat(0)
  /\ k' = 0 /\ y' = bytes[1] + \h100
  /\ UNCHANGED <<call, fail, retry, asked>>

\* tm1651_write: DAT moves while CLK is low
Bit1 == Only("bit1", "bit2") /\ SetClk(0)
Bit2 == Only("bit2", IF y = 1 THEN "ack" ELSE "bit3") /\ SetDat(y % 2)

\* wrong: drives DAT low before it looks
AckLate ==
  /\ Go("ack", "bit3")
  /\ fail' = (Wire(0, pull) = 1)
  /\ SetDat(0)
  /\ UNCHANGED <<call, k, y, retry, asked>>
\* has the chip driven DAT low?  "Now we must drive it LOW ourselves"
Ack ==
  /\ Go("ack", "bit3")
  /\ fail' = (Wire(dat, pull) = 1)
  /\ SetDat(0)
  /\ UNCHANGED <<call, k, y, retry, asked>>

\* && and || of the writes: the first that fails ends the attempt
NextByte == ~fail /\ k + 1 < Len(bytes)

Bit3 ==
  /\ IF y # 1 THEN Go("bit3", "bit1") /\ y' = y \div 2 /\ UNCHANGED k
     ELSE IF NextByte THEN /\ Go("bit3", "bit1")
                           /\ k' = k + 1 /\ y' = bytes[k + 2] + \h100
     ELSE Go("bit3", "stop1") /\ y' = 0 /\ UNCHANGED k
  /\ SetClk(1)
  /\ UNCHANGED <<call, fail, retry, asked>>

Stop1 == Only("stop1", "stop2") /\ SetClk(0)
Stop2 == Only("stop2", "stop3") /\ SetClk(1)

OneMoreTry == retry < 1               \* wrong: two attempts
TryAgain == retry + 1 < 3

\* DAT goes high while CLK is high; then the next attempt, or the end
Stop3 ==
  /\ Go("stop3", IF fail /\ TryAgain THEN "start1" ELSE "returned")
  /\ SetDat(1)
  /\ retry' = retry + 1
  /\ UNCHANGED <<call, k, y, fail, asked>>

\* the return value is ignored everywhere, by led_7seg_init() too
Return ==
  /\ Go("returned", IF script = <<>> THEN "idle" ELSE "start1")
  /\ IF script = <<>> THEN /\ bytes' = <<>> /\ UNCHANGED script
     ELSE bytes' = Head(script) /\ script' = Tail(script)
  /\ k' = 0 /\ y' = 0 /\ fail' = TRUE /\ retry' = 0
  /\ missed' = 0 /\ faults' = 0
  /\ text' = IF Len(bytes) = 1 THEN text ELSE IF fail THEN Unknown ELSE bytes
  /\ on' = IF Len(bytes) > 1 \/ bytes = Cmd(\h40) THEN on
           ELSE IF fail THEN Unknown ELSE bytes
  /\ UNCHANGED <<dat, clk, chip>>

LedCall == \/ \E s \in Strings : led_7seg_write_string(s)
           \/ \E v \in Decimals : led_7seg_write_decimal(v)
           \/ \E e \in BOOLEAN : led_7seg_display_setting(e)
Driver == \/ Init1 \/ Init2 \/ Start1 \/ Start2 \/ Start3 \/ Bit1 \/ Bit2 \/ Ack \/ Bit3
          \/ Stop1 \/ Stop2 \/ Stop3 \/ Return
LedNext == LedCall \/ Driver

LedSpec == LedInit /\ [][LedNext]_ledVars

(***************************************************************************)
(* Properties                                                              *)
(***************************************************************************)
\* What the driver takes for an acknowledgement of everything it sent is one:
\* between calls the display shows the last text that was accepted and is as
\* bright as was last accepted, even if attempts before failed half-way, with
\* the chip's idea of where a byte begins different from the driver's.  "If not,
\* we must assume no LED controller is attached": without one nothing is accepted.
ShowsAccepted ==
  stage = "idle" =>
    /\ text # Unknown => present /\ Update(SubSeq(segs, 1, 3)) = text
    /\ on # Unknown => present /\ lit = (on = Cmd(\h89))

\* Three attempts are enough for a chip that misses a pulse in two of them, and
\* the first call after a reset finds the chip, whatever it was in the middle of.
RetriesSuffice == stage = "returned" /\ present /\ faults < 3 => ~fail
=============================================================================
