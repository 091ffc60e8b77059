------------------------------ MODULE TrackDisk ------------------------------
(***************************************************************************)
(* A turning disk with one formatted track, and what the track functions   *)
(* of ibm.c and amiga.c have in common: a read waits for a mark and then   *)
(* for a number of bytes, a write opens the gate at some moment and closes *)
(* it at another.  The program has no say in when a sector passes the      *)
(* head: it must start each read and each write at the right time, and it  *)
(* knows the position of the disk only from the index counter and from the *)
(* marks it has read.                                                      *)
(*                                                                         *)
(* One tick of the clock is one byte of the track.  The disk turns on      *)
(* while the thread computes, for up to MaxLag ticks per step.  A read is  *)
(* that of TrackRead, which ReadRing implements: it returns the bytes from *)
(* the first sync mark that begins after it started, as soon as they have  *)
(* passed.  What a write leaves on the disk is external: a disk keeps what *)
(* it is given and loses what is underneath.                               *)
(***************************************************************************)
EXTENDS Integers, Sequences, FiniteSets

CONSTANTS
  Sectors,   \* sector numbers, 1 .. n in the order in which they follow the index
  Values,    \* contents of a sector
  Filler,    \* the content that formatting gives it: 0xe2
  Formats,   \* "mfm", "fm", "amiga"
  TrackLen,  \* bytes in a revolution
  MaxLag,    \* how far the disk may turn before the thread's next step
  \* an IBM track
  GapSync,   \* mfm_gap_sync, fm_gap_sync: 12, 6
  HdrLen,    \* from the sync mark of an IDAM to the end of its CRC: 10, 7
  Gap2,      \* mfm_gap2, fm_gap2: 22, 11
  DatLen,    \* from the sync mark of a DAM to the end of its CRC
  Gap3,      \* the post-data gap of the track
  EdgeGap,   \* the gaps after and before the index: 64
  \* an Amiga track
  TrackGap,  \* the gap after the index: 128
  SecGap,    \* the gap before a sector: 4
  InfoLen,   \* from the sync mark to the end of the info longword: 12
  BodyLen,   \* from there to the end of the data: 1072
  WholeLen   \* what is written: more than a revolution

NrSectors == Cardinality(Sectors)
SecLen    == 2 * GapSync + HdrLen + Gap2 + DatLen + Gap3
AmigaLen  == SecGap + InfoLen + BodyLen

ASSUME SectorAssumption ==
  /\ IsFiniteSet(Sectors) /\ Sectors = 1 .. NrSectors /\ NrSectors >= 1
  /\ Filler \in Values /\ Formats \subseteq {"mfm", "fm", "amiga"}
ASSUME LayoutAssumption ==
  /\ {GapSync, HdrLen, Gap2, DatLen, Gap3, EdgeGap, TrackGap, SecGap, InfoLen,
      BodyLen, WholeLen, TrackLen} \subseteq Nat \ {0}
  /\ 2 * EdgeGap + NrSectors * SecLen <= TrackLen
  /\ TrackGap + NrSectors * AmigaLen + 2 * MaxLag <= TrackLen
  /\ WholeLen > TrackLen + MaxLag
\* The thread is fast enough for the gaps: it takes three steps from a header
\* to the next read, two from the index to a write, and a sector written may
\* begin late by two steps and end late by one.  A search takes as many bytes
\* of a data field, which may be late too, as of a header.  No field and no gap
\* goes by within one step, nor the old data within two.
ASSUME LagAssumption ==
  /\ MaxLag \in Nat
  /\ MaxLag < HdrLen /\ MaxLag < InfoLen /\ 2 * MaxLag < DatLen
  /\ MaxLag <= Gap2 /\ MaxLag <= Gap3
  /\ 3 * MaxLag <= GapSync
  /\ 2 * MaxLag <= EdgeGap /\ 2 * MaxLag <= TrackGap
  /\ HdrLen + 5 * MaxLag <= DatLen + Gap3 + GapSync
  /\ 3 * MaxLag <= BodyLen

VARIABLES
  pc, call,    \* where the thread is, and which function it executes
  id, data,    \* the caller's sector, and what it writes to which sectors
  gap3,        \* the gap after the data that it asks for
  seen,        \* ibm_*_scan(): the headers in info[], with their start times
  start,       \* rd.start, relative to the latest index pulse
  count,       \* index.count; from 2 on its value does not matter
  wait,        \* time left until the deadline of write_sector()
  result,      \* the sectors that a read returned
  warned,      \* a WARN_ON has fired
  \* the disk
  fmt,         \* the format of the track
  pos,         \* byte under the head
  marks,       \* the marks on the track
  mark, left,  \* the mark being read, and the bytes left to read or write
  stop,        \* stop_index of floppy_write()
  begin,       \* where the current write began
  content,     \* what the sectors should contain (observation)
  lag          \* ticks since the thread could take its next step

params == <<id, data, gap3>>
write  == <<stop, begin>>
disk   == <<fmt, pos, marks, content>>
vars   == <<pc, call, params, seen, start, count, wait, result, warned, disk,
            mark, left, write, lag>>

none == "none"
Mark(at, kind, sector, value) ==
  [at |-> at % TrackLen, kind |-> kind, sector |-> sector, value |-> value]
NoMark == [at |-> 0, kind |-> none, sector |-> 1, value |-> Filler]

\* The fields of a track as ibm_mfm_write_track() lays them out from byte o on,
\* with what the sectors contain.
HeaderAt(o, s) == o + EdgeGap + (s - 1) * SecLen + GapSync
DataAt(o, s)   == HeaderAt(o, s) + HdrLen + Gap2 + GapSync
IbmLayout(o, values) ==
  {Mark(HeaderAt(o, s), "id", s, Filler) : s \in Sectors}
    \cup {Mark(DataAt(o, s), "data", s, values[s]) : s \in Sectors}

\* The same for amiga_track_write(): one mark for the whole sector.
AmigaAt(o, s) == o + TrackGap + (s - 1) * AmigaLen + SecGap
AmigaLayout(o, values) == {Mark(AmigaAt(o, s), "sector", s, values[s]) : s \in Sectors}

FieldLen(m) == CASE m.kind = "id" -> HdrLen [] m.kind = "data" -> DatLen
                 [] m.kind = "sector" -> InfoLen + BodyLen
\* the bytes from a to b, in the direction of rotation
Distance(a, b) == (b - a) % TrackLen

Blank == [s \in Sectors |-> Filler]

Init ==
  /\ pc = "idle" /\ call = none /\ id = 1 /\ data = <<>> /\ gap3 = Gap3
  /\ seen = <<>> /\ start = 0 /\ wait = 0 /\ mark = NoMark /\ left = 0 /\ stop = 0
  /\ begin = 0 /\ result = <<>> /\ count = 0 /\ warned = FALSE
  /\ fmt \in Formats /\ pos \in 0 .. TrackLen - 1 /\ content = Blank
  /\ marks = IF fmt = "amiga" THEN AmigaLayout(0, Blank) ELSE IbmLayout(0, Blank)
  /\ lag = 0

\* Definitions marked "wrong" are what a plausible mistake would make of the
\* definition after them; they show that a property depends on it.

Step(from, to) == pc = from /\ pc' = to /\ lag' = 0

\* A function starts, at its first wait or read.
Enter(c, to) ==
  /\ Step("idle", to) /\ call' = c
  /\ UNCHANGED <<params, seen, start, wait, result, warned, disk, mark, left, write>>

\* a function has returned: its locals are gone
Leave == /\ Step("returned", "idle") /\ call' = none /\ result' = <<>> /\ seen' = <<>>
         /\ start' = 0 /\ wait' = 0 /\ mark' = NoMark /\ left' = 0 /\ stop' = 0
         /\ begin' = 0

\* a scan and the writing of a whole track first wait for the index
AtIndex(c) == Enter(c, "index") /\ count' = 0

IndexSeen ==
  /\ Step("index", IF call = "scan" THEN "prep" ELSE "write")
  /\ count > 0
  /\ UNCHANGED <<call, params, seen, start, count, wait, result, warned, disk, mark,
                 left, write>>

(***************************************************************************)
(* Searching for a header: wait for a mark, then for the bytes of a header.*)
(***************************************************************************)
Search(c) == Enter(c, "search") /\ count' = 0

SearchPrep ==
  /\ Step("search", "sync")
  /\ warned' = (warned \/ count >= 2)
  /\ UNCHANGED <<call, params, seen, start, count, wait, result, disk, mark, left, write>>

\* floppy_read() sets rd.start when it notices the mark ...
SyncSeen ==
  /\ Step("mark", "bytes")
  /\ start' = Distance(1, pos)      \* less the part of the mark that is read
  /\ UNCHANGED <<call, params, seen, count, wait, result, warned, disk, mark, left, write>>

\* wrong: leaves the sync gap, which is written, unwritten
ReadEndsGap ==
  /\ Step("bytes", "check") /\ left = 0
  /\ wait' = IF call = "write" THEN Gap2 + GapSync ELSE 0
  /\ UNCHANGED <<call, params, seen, start, count, result, warned, disk, mark, left, write>>

\* ... and rd.end when it has all bytes; write_sector() counts from there.
ReadEnds ==
  /\ Step("bytes", "check") /\ left = 0
  /\ wait' = IF call = "write" THEN Gap2 ELSE 0
  /\ UNCHANGED <<call, params, seen, start, count, result, warned, disk, mark, left, write>>

\* the header that was read has been dealt with
Checked(to) ==
  /\ Step("check", to) /\ mark' = NoMark /\ start' = 0
  /\ UNCHANGED <<call, params, count, wait, result, disk, left, write>>

\* A read of what comes after the header is prepared.
DataPrep ==
  /\ Step("data", "datasync")
  /\ UNCHANGED <<call, params, seen, start, count, wait, result, warned, disk, mark,
                 left, write>>

HeaderLen == IF fmt = "amiga" THEN InfoLen ELSE HdrLen
ReadLen   == IF fmt = "amiga" THEN NrSectors * AmigaLen - SecGap ELSE DatLen

(***************************************************************************)
(* Writing.                                                                *)
(***************************************************************************)
WriteLen == CASE call = "track" -> 2 * EdgeGap + NrSectors * SecLen
              [] call = "amiga_write" -> WholeLen
              [] OTHER -> GapSync + DatLen + gap3

\* "Wait for end of GAP2", unless it is over already, or go ahead at once
OpenGate ==
  /\ wait = 0
  /\ \/ Step("delay", "writing") \/ Step("write", "writing")
  /\ begin' = pos /\ left' = WriteLen /\ stop' = count + 1
  /\ UNCHANGED <<call, params, seen, start, count, wait, result, warned, disk, mark>>

\* only a whole track has terminate_at_index
WriteOver == left <= 0 \/ (call # "write" /\ count = stop)

\* The marks that are written: those that were written to their end, and not
\* overwritten by what was written a revolution later.
Written ==
  LET n   == WriteLen - left
      all == CASE call = "track" -> IbmLayout(begin, Blank)
               [] call = "amiga_write" -> AmigaLayout(begin, data)
               [] OTHER -> {Mark(begin + GapSync, "data", id, data[id])}
  IN  {m \in all : /\ Distance(begin, m.at) + FieldLen(m) <= n
                   /\ Distance(begin, m.at) >= n - TrackLen}

\* the marks that were there and have lost a byte; the gate may close late
Overwritten == {m \in marks : Distance(begin, m.at) < WriteLen - left
                              \/ Distance(m.at, begin) < FieldLen(m)}

CloseGate ==
  /\ WriteOver
  /\ Step("writing", "returned")
  /\ marks' = (marks \ Overwritten) \cup Written
  /\ content' = IF call = "track" THEN Blank
                ELSE [s \in Sectors |-> IF s \in DOMAIN data THEN data[s] ELSE content[s]]
  /\ UNCHANGED <<call, params, seen, start, count, wait, result, warned, fmt, pos, mark,
                 left, write>>

(***************************************************************************)
(* The disk turns by one byte.                                             *)
(***************************************************************************)
\* states in which the thread waits for the disk
Waits == \/ pc \in {"idle", "sync", "datasync", "period"}
         \/ pc = "index" /\ count = 0
         \/ pc \in {"bytes", "databytes"} /\ left > 0
         \/ pc = "delay" /\ wait > 0
         \/ pc = "writing" /\ ~WriteOver

Here == {m \in marks : m.at = pos}

Turn ==
  /\ Waits \/ lag < MaxLag
  /\ pos' = (pos + 1) % TrackLen
  /\ count' = IF pos' = 0 /\ count < 2 THEN count + 1 ELSE count
  /\ lag' = IF Waits THEN 0 ELSE lag + 1
  /\ wait' = IF wait > 0 THEN wait - 1 ELSE 0
  /\ IF pc \in {"sync", "datasync"} /\ Here # {}
     THEN /\ mark' \in Here
          /\ pc' = IF pc = "sync" THEN "mark" ELSE "databytes"
          /\ left' = (IF pc = "sync" THEN HeaderLen ELSE ReadLen) - 1
     ELSE /\ left' = IF left > 0 \/ pc = "writing" THEN left - 1 ELSE 0
          /\ pc' = IF pc = "period" /\ pos' = 0 THEN "returned" ELSE pc
          /\ UNCHANGED mark
  /\ UNCHANGED <<call, params, fmt, marks, content, seen, start, result, warned, write>>
=============================================================================
