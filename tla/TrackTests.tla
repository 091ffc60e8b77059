------------------------------ MODULE TrackTests ------------------------------
(***************************************************************************)
(* The tests that write to a track and read it back, one after the other   *)
(* in any order and on any sector: mfm_rw_sector(), fm_rw_sector(),        *)
(* adf_test() and, of the Quick Disk variant, check_mfm().  A test is a    *)
(* fixed sequence of calls of IbmTrack and AmigaTrack and compares what    *)
(* they return with what it wrote; the disk turns between the calls.       *)
(*                                                                         *)
(* The formatting at the end of dsk_test() and in img_test() is left out.  *)
(* It gives a track fewer sectors than it has, or others, and then reads   *)
(* one of the old: that is meant for a drive emulator, which keeps the     *)
(* layout of its image.  A disk would have lost the header, and the search *)
(* for it would warn and go on for ever.                                   *)
(***************************************************************************)
EXTENDS IbmTrack, AmigaTrack

VARIABLES test, line   \* the calls of the test that runs, and how many it has made

\* the calls of a test, "period" being the wait for the next index pulse
mfm_rw_sector == <<"scan", "period", "write", "period", "read">>
fm_rw_sector  == <<"scan", "period", "write", "period", "read">>
check_mfm     == <<"track", "write", "read", "scan">>
adf_test      == <<"amiga_write", "amiga_read">>

TestsOf(f) == CASE f = "mfm" -> {mfm_rw_sector, check_mfm}
                [] f = "fm" -> {fm_rw_sector}
                [] f = "amiga" -> {adf_test}

InitTests == Init /\ test = <<>> /\ line = 0

\* A test picks its sector and fills its buffer with rand().  Quick Disk asks
\* for the gap it has formatted with.
Begin(t) ==
  /\ test = <<>> /\ t \in TestsOf(fmt)
  /\ test' = t /\ id' \in Sectors /\ gap3' = Gap3
  /\ data' \in IF t = adf_test THEN [Sectors -> Values] ELSE [{id'} -> Values]
  /\ UNCHANGED <<pc, call, seen, start, count, wait, result, warned, disk, mark,
                 left, write, lag, line>>

\* "while (index_timestamp == index.timestamp)"
Period == Enter("period", "period") /\ UNCHANGED count

Do(c) == CASE c = "scan" -> ibm_scan
           [] c = "read" -> ibm_read_sector
           [] c = "write" -> ibm_write_sector
           [] c = "track" -> ibm_mfm_write_track
           [] c = "amiga_read" -> amiga_track_read
           [] c = "amiga_write" -> amiga_track_write
           [] c = "period" -> Period

Calls == test # <<>> /\ Do(test[line + 1]) /\ UNCHANGED <<test, line>>

\* check_ibm_idams(): the headers are the expected ones in the expected order
Expected == [i \in 1 .. NrSectors |-> i]
Seen     == [i \in 1 .. Len(seen) |-> seen[i].sector]

\* What the caller does with what the call returns; after the last one its
\* locals are gone.
Return ==
  /\ Leave
  /\ warned' = (warned \/ CASE call = "scan" -> Seen # Expected
                            [] call \in {"read", "amiga_read"} -> result # data
                            [] OTHER -> FALSE)
  /\ IF line + 1 < Len(test)
     THEN /\ line' = line + 1 /\ UNCHANGED <<test, id, data>>
          /\ gap3' = IF call = "scan" /\ Len(seen) >= 2 THEN Gap3Of(seen) \div 2 ELSE gap3
     ELSE test' = <<>> /\ line' = 0 /\ id' = 1 /\ data' = <<>> /\ gap3' = Gap3
  /\ UNCHANGED <<count, disk>>

InCall == \/ IndexSeen \/ SearchPrep \/ ScanPrep \/ SyncSeen \/ ReadEnds
          \/ ScanGoesOn \/ ScanEnds \/ SearchCheck \/ DataPrep \/ DataEnds
          \/ LastSectorCheck \/ TrackEnds \/ OpenGate \/ CloseGate
Thread == Calls \/ Return \/ (InCall /\ UNCHANGED <<test, line>>)
Rotate == Turn /\ UNCHANGED <<test, line>>
Next == (\E t \in TestsOf(fmt) : Begin(t)) \/ Thread \/ Rotate

allvars == <<vars, test, line>>
Spec == InitTests /\ [][Next]_allvars
\* Every statement is executed some time and the disk goes on turning.
FairSpec == Spec /\ WF_allvars(Thread) /\ WF_allvars(Rotate)

(***************************************************************************)
(* Properties                                                              *)
(***************************************************************************)
\* None of these tests blames a healthy disk: every header is found before
\* the second index pulse, the mark after it is its data, a scan lists every
\* header of one revolution once and in order although the counter is read
\* only after a read has returned, the sectors of an Amiga track are found from
\* the first one on and at their distances, and what is read is what the test
\* wrote.
NoWarn == ~warned

\* The gap computed from the first two headers is that of the track, give or
\* take the lateness of the thread, so that the half of it fits.
GapMeasured ==
  pc = "returned" /\ call = "scan" =>
    Len(seen) >= 2 /\ Gap3Of(seen) \in Gap3 - MaxLag .. Gap3 + MaxLag

\* Between writes every sector of the track holds what was last written to
\* it: a write that begins where a header ended replaces the data of that
\* sector, all of it, and nothing else, and one that begins at the index ends
\* there with the whole track written.
Next1(m) == CHOOSE n \in marks \ {m} :
              \A k \in marks \ {m} : Distance(m.at, n.at) <= Distance(m.at, k.at)
IbmIntact ==
  /\ Cardinality(marks) = 2 * NrSectors
  /\ \A s \in Sectors : \E m \in marks :
       /\ m.kind = "id" /\ m.sector = s
       /\ Next1(m) = [at |-> Next1(m).at, kind |-> "data", sector |-> s,
                      value |-> content[s]]
AmigaIntact == \E o \in 0 .. 2 * MaxLag : marks = AmigaLayout(o, content)
TrackIntact == pc # "writing" => IF Amiga THEN AmigaIntact ELSE IbmIntact

\* A test that has begun ends: no call waits for a mark, for an index pulse or
\* for a header that does not come.  The search has no limit of its own: it
\* ends because no write of a test takes a header from the track.
TestsEnd == [](test # <<>> => <>(test = <<>>))
=============================================================================
