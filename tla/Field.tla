--------------------------------- MODULE Field ---------------------------------
(***************************************************************************)
(* A data field on its way to the disk and back: write_sector() of ibm.c   *)
(* lays it out in the buffer, converts it in place to bitcells, checks     *)
(* them and puts the sync marks in; the disk keeps the cells, some of them *)
(* damaged; read_sector() finds the mark, takes the words that follow,     *)
(* checks them, converts them in place to bytes and checks the sum.        *)
(*                                                                         *)
(* The buffer is the heap from bc_buf_alloc(), the same for every call.    *)
(***************************************************************************)
EXTENDS Codec

CONSTANTS
  Formats,   \* "mfm", "fm"
  GapSync,   \* zero bytes before the mark: 12 and 6 in the code
  Gap3,      \* bytes after the sum that the caller asks for
  DataLen,   \* bytes in a sector: 128 << idam.n
  Datas,     \* contents of a sector
  Before,    \* the byte in front of the buffer, which is not part of it
  QuickDisk, \* built for the Quick Disk
  Damages    \* cells that the disk returns inverted, sequences from a 1 on

ASSUME FormatAssumption == Formats \subseteq {"mfm", "fm"}
ASSUME LayoutAssumption ==
  /\ GapSync \in Nat /\ GapSync >= 2 /\ Gap3 \in Nat /\ DataLen \in Nat
  /\ \A d \in Datas : /\ d \in [1 .. DataLen -> Byte]
  /\ Before \subseteq Byte
ASSUME BuildAssumption == QuickDisk \in BOOLEAN
ASSUME DamageAssumption == \A p \in Damages : p \in Seq(Bit)

VARIABLES
  pc,
  fmt, data,     \* the format, and what to write
  mem,           \* the buffer, from address -1 on
  nr, x,         \* the conversions: rounds to go, and the byte read ahead
  warned,        \* a WARN_ON has fired
  result,        \* what read_sector() returned
  track,         \* the cells on the disk
  \* observation
  plain,         \* the bytes that were laid out
  sent,          \* the words of the field, from the mark to the sum, as written
  words,         \* the words that a conversion to bytes began with
  long           \* an interval that was read is "long flux"

vars == <<pc, fmt, data, mem, nr, x, warned, result, track, plain, sent, words,
          long>>

Zero == ByteOf(0)
Rep(n, b) == [i \in 1 .. n |-> b]

(***************************************************************************)
(* Layout.  An MFM mark is three times 0xa1 and 0xfb, an FM mark 0xfb.     *)
(***************************************************************************)
Mark(f) == IF f = "mfm" THEN Rep(3, ByteOf(161)) \o <<ByteOf(251)>>
           ELSE <<ByteOf(251)>>
\* an even number of bytes is written
Pad(f) == (GapSync + Len(Mark(f)) + DataLen + 2 + Gap3) % 2
NrWords(f) == GapSync + Len(Mark(f)) + DataLen + 2 + Gap3 + Pad(f)

Laid(f, d) ==
  LET body == Mark(f) \o d
      crc  == crc16_ccitt(body)
  IN  Rep(GapSync, Zero) \o body \o BytesOf(crc)
        \o Rep(Gap3 + Pad(f), ByteOf(IF f = "mfm" THEN 78 ELSE 255))

\* what read_sector() reads: an FM mark comes with the zero byte before it
FieldLen(f) == (IF f = "mfm" THEN 4 ELSE 2) + DataLen + 2

Addr(f) == -1 .. 2 * NrWords(f) - 1
WordAt(m, k) == Join(m[2 * k], m[2 * k + 1])
Code(f, b, last) == IF f = "mfm" THEN Mfm(b, last) ELSE Fm(b)

\* mfm_check, fm_check: the words from first on that are not what their data
\* bits convert to.  For the first one mfm_check() takes the last bit of the
\* word before it from the wrong byte: it loads it without be16toh().
BadWords(m, f, first, n) ==
  {k \in first .. first + n - 1 :
     WordAt(m, k) # Code(f, mfmtobin(WordAt(m, k)),
                         IF k = first THEN m[2 * k - 2][8] ELSE m[2 * k - 1][8])}

NoField == /\ mem = [a \in Addr(fmt) |-> Zero] /\ data = Rep(DataLen, Zero)
           /\ nr = 0 /\ x = Zero /\ warned = FALSE /\ result = <<>>
           /\ track = <<>> /\ plain = <<>> /\ sent = <<>> /\ words = <<>>
           /\ long = FALSE

Init == pc = "idle" /\ fmt \in Formats /\ NoField

\* Definitions marked "wrong" are what a plausible mistake would make of the
\* definition after them; they show that a property depends on it.

(***************************************************************************)
(* write_sector()                                                          *)
(***************************************************************************)
Generate(d, before) ==
  /\ pc = "idle" /\ pc' = "convert"
  /\ data' = d /\ plain' = Laid(fmt, d)
  /\ mem' = [a \in Addr(fmt) |-> IF a = -1 THEN before
                                 ELSE IF a < NrWords(fmt) THEN plain'[a + 1]
                                 ELSE mem[a]]
  /\ UNCHANGED <<fmt, nr, x, warned, result, track, sent, words, long>>

\* wrong: begins after the last byte
ConvertFromEnd ==
  /\ pc = "convert" /\ pc' = "encode"
  /\ nr' = NrWords(fmt) /\ x' = mem[NrWords(fmt)]
  /\ UNCHANGED <<fmt, data, mem, warned, result, track, plain, sent, words, long>>

\* bin_to_mfm, bin_to_fm: from the last byte down, one byte ahead
Convert ==
  /\ pc = "convert" /\ pc' = "encode"
  /\ nr' = NrWords(fmt) /\ x' = mem[NrWords(fmt) - 1]
  /\ UNCHANGED <<fmt, data, mem, warned, result, track, plain, sent, words, long>>

\* a round: in = nr - 1, out = nr; the last one reads the byte at -1
Encode ==
  /\ pc = "encode" /\ nr > 0
  /\ x' = mem[nr - 2] /\ nr' = nr - 1
  /\ LET w == Code(fmt, x, x'[8])
     IN  mem' = [mem EXCEPT ![2 * nr - 2] = Hi(w), ![2 * nr - 1] = Lo(w)]
  /\ UNCHANGED <<pc, fmt, data, warned, result, track, plain, sent, words, long>>

\* the words it checks: mfm_check(p + 2, nr - 1), fm_check(p, nr)
CheckWritten ==
  /\ pc = "encode" /\ nr = 0 /\ pc' = "patch" /\ x' = Zero
  /\ warned' = (warned \/ IF fmt = "mfm"
                          THEN BadWords(mem, fmt, 1, NrWords(fmt) - 1) # {}
                          ELSE BadWords(mem, fmt, 0, NrWords(fmt)) # {})
  /\ UNCHANGED <<fmt, data, mem, nr, result, track, plain, sent, words, long>>

\* wrong: the offset of the mark in bytes, as before the conversion
SyncedEarly(k) == LET o == GapSync \div 2
                  IN  IF fmt = "mfm" /\ k \in o .. o + 2 THEN MfmSync
                      ELSE IF fmt = "fm" /\ k = o THEN fm_sync(ByteOf(251), FmSyncClk)
                      ELSE WordAt(mem, k)

\* the word that replaces word k
Synced(k) == IF fmt = "mfm" /\ k \in GapSync .. GapSync + 2 THEN MfmSync
             ELSE IF fmt = "fm" /\ k = GapSync THEN fm_sync(ByteOf(251), FmSyncClk)
             ELSE WordAt(mem, k)

\* Then the disk keeps the cells.
PatchAndWrite ==
  /\ pc = "patch" /\ pc' = "disk"
  /\ track' = [c \in 1 .. 16 * NrWords(fmt) |->
                 Synced((c - 1) \div 16)[((c - 1) % 16) + 1]]
  /\ sent' = [k \in 1 .. FieldLen(fmt) |->
                Synced(GapSync - (IF fmt = "mfm" THEN 1 ELSE 2) + k)]
  /\ mem' = [a \in Addr(fmt) |-> Zero] /\ plain' = <<>>
  /\ UNCHANGED <<fmt, data, nr, x, warned, result, words, long>>

(***************************************************************************)
(* The disk (external) inverts the cells of a pattern p, from cell c on.   *)
(***************************************************************************)
Damage(p, c) ==
  /\ pc = "disk" /\ pc' = "search"
  /\ track' = [i \in DOMAIN track |->
                 IF i - c + 1 \in DOMAIN p THEN (track[i] + p[i - c + 1]) % 2
                 ELSE track[i]]
  /\ UNCHANGED <<fmt, data, mem, nr, x, warned, result, plain, sent, words, long>>

(***************************************************************************)
(* read_sector()                                                           *)
(***************************************************************************)
\* The search compares the latest 32 cells with 0x44894489, or with
\* 0x55555015 leaving out the data bits of the mark, all but its last, which
\* has not been seen.
IsSync(t, c) ==
  IF fmt = "mfm"
  THEN \A j \in 1 .. 32 : t[c + j] = MfmSync[((j - 1) % 16) + 1]
  ELSE /\ \A j \in 1 .. 17 : t[c + j] = (j - 1) % 2
       /\ \A j \in 1 .. 8 : t[c + 16 + 2 * j] = FmSyncClk[j]
Syncs(t) == {c \in 0 .. Len(t) - 32 : IsSync(t, c)}
\* mfm_check(p + 6, nr - 3), fm_check(p + 4, nr - 2)
CheckShort(m) ==       \* wrong: one word too few
  IF fmt = "mfm" THEN BadWords(m, fmt, 3, FieldLen(fmt) - 4)
  ELSE BadWords(m, fmt, 2, FieldLen(fmt) - 3)
CheckRead(m) ==
  IF fmt = "mfm" THEN BadWords(m, fmt, 3, FieldLen(fmt) - 3)
  ELSE BadWords(m, fmt, 2, FieldLen(fmt) - 2)

\* "Long flux": more than six cells between the reversal in cell i and the next
LongFrom(i) == track[i] = 1 /\ \A j \in i + 1 .. i + 6 : j \in DOMAIN track /\ track[j] = 0

\* c: the first of the 32 cells; an FM buffer leaves it out.  Every interval
\* is looked at that begins before the last cell of the field; a Quick Disk
\* does not look during the search.  splice: an interval between the header
\* and the first reversal of the track is long too (external).
ReadFrom(c, splice) ==
  LET from == IF fmt = "mfm" THEN c ELSE c + 1
      end  == from + 16 * FieldLen(fmt)
  IN  /\ end <= Len(track)
      /\ long' = \/ splice /\ ~QuickDisk
                 \/ \E i \in (IF QuickDisk THEN c + 32 ELSE 1) .. end - 1 : LongFrom(i)
      /\ words' = [k \in 0 .. FieldLen(fmt) - 1 |->
                     [j \in 1 .. 16 |-> track[from + 16 * k + j]]]
      /\ mem' = [a \in Addr(fmt) |->
                   IF a >= 0 /\ a < 2 * FieldLen(fmt)
                   THEN [i \in 1 .. 8 |-> track[from + 8 * a + i]] ELSE mem[a]]
Read ==
  /\ pc = "search" /\ pc' = "decode" /\ nr' = 0 /\ track' = <<>>
  /\ LET all == Syncs(track)
     IN  \E c \in all, splice \in BOOLEAN :
           (\A d \in all : c <= d) /\ ReadFrom(c, splice)
  /\ warned' = (warned \/ long' \/ CheckRead(mem') # {})
  /\ UNCHANGED <<fmt, data, x, result, plain, sent>>

\* No mark is left to find: the search goes on to that of the next header,
\* which is no data mark.  What is read there is not modelled.
Missed ==
  /\ pc = "search" /\ Syncs(track) = {} /\ pc' = "missed"
  /\ warned' = TRUE
  /\ UNCHANGED <<fmt, data, mem, nr, x, result, track, plain, sent, words, long>>

\* mfm_to_bin: from the first word up
Decode ==
  /\ pc = "decode" /\ nr < FieldLen(fmt)
  /\ mem' = [mem EXCEPT ![nr] = mfmtobin(WordAt(mem, nr))]
  /\ nr' = nr + 1
  /\ UNCHANGED <<pc, fmt, data, x, warned, result, track, plain, sent, words, long>>

\* from the mark, which an FM buffer has behind a zero byte
Bytes(from, to) == [i \in 1 .. to - from + 1 |-> mem[from + i - 1]]
SumOver(from) == crc16_ccitt(Bytes(from, FieldLen(fmt) - 1))

CheckBytes ==
  /\ pc = "decode" /\ nr = FieldLen(fmt) /\ pc' = "done"
  /\ warned' = (warned \/ IF fmt = "mfm"
                          THEN \/ Bytes(0, 3) # Mark(fmt)
                               \/ SumOver(0) # {}
                          ELSE \/ Bytes(1, 1) # Mark(fmt)
                               \/ SumOver(1) # {})
  /\ result' = Bytes(FieldLen(fmt) - DataLen - 2, FieldLen(fmt) - 3)
  /\ UNCHANGED <<fmt, data, mem, nr, x, track, plain, sent, words, long>>

\* the next round of the tests, which would stop at a warning
Return ==
  /\ pc \in {"done", "missed"} /\ pc' = "idle"
  /\ mem' = [a \in Addr(fmt) |-> Zero] /\ data' = Rep(DataLen, Zero)
  /\ nr' = 0 /\ x' = Zero /\ warned' = FALSE /\ result' = <<>>
  /\ track' = <<>> /\ plain' = <<>> /\ sent' = <<>> /\ words' = <<>>
  /\ long' = FALSE
  /\ UNCHANGED fmt

Next == \/ \E d \in Datas, b \in Before : Generate(d, b)
        \/ Convert \/ Encode \/ CheckWritten \/ PatchAndWrite
        \/ \E p \in Damages, c \in DOMAIN track : Damage(p, c)
        \/ Read \/ Missed \/ Decode \/ CheckBytes \/ Return

Spec == Init /\ [][Next]_vars

(***************************************************************************)
(* Properties                                                              *)
(***************************************************************************)
\* The conversions work in place, the words taking twice the room of the
\* bytes: no byte and no word is overwritten before it has been converted.  A
\* word is the code of its byte after the byte before; only what the first one
\* comes after is not known.
InPlace ==
  /\ pc = "encode" =>
       /\ \A k \in 0 .. nr - 1 : mem[k] = plain[k + 1]
       /\ \A k \in nr .. NrWords(fmt) - 1 :
            \E last \in IF k = 0 THEN Bit ELSE {plain[k][8]} :
               WordAt(mem, k) = Code(fmt, plain[k + 1], last)
  /\ pc = "decode" =>
       /\ \A k \in 0 .. nr - 1 : mem[k] = mfmtobin(words[k])
       /\ \A k \in nr .. FieldLen(fmt) - 1 : WordAt(mem, k) = words[k]

\* Nothing that is converted from bytes, whatever the bytes are, looks like
\* the mark to the search: on an undamaged track it stops at the mark only.
SyncAtMark ==
  pc = "disk" => Syncs(track) = IF fmt = "mfm" THEN {16 * GapSync, 16 * GapSync + 16}
                                ELSE {16 * GapSync - 17}

\* read_sector() warns exactly if a word of the field came back with another
\* data bit or clock bit than it was written with, or an interval was too
\* long on the way to the field or in it: it returns no wrong data without a
\* warning, and what was written is never the cause of one, for it has no
\* such interval.  Of the sync marks the data bits only are compared.
Read1(k) == IF fmt = "mfm" /\ k <= 3 THEN mfmtobin(words[k - 1]) ELSE words[k - 1]
Sent1(k) == IF fmt = "mfm" /\ k <= 3 THEN mfmtobin(sent[k]) ELSE sent[k]
WarnsOfDamage ==
  /\ pc = "done" =>
       /\ warned <=> long \/ \E k \in 1 .. FieldLen(fmt) : Read1(k) # Sent1(k)
       /\ ~warned => result = data
  /\ pc = "disk" => \A i \in DOMAIN track : ~LongFrom(i)
  /\ pc \in {"patch", "disk", "search"} => ~warned
=============================================================================
