------------------------------- MODULE IbmTrack -------------------------------
(***************************************************************************)
(* Scanning, reading, writing and formatting IBM tracks (ibm.c).  The MFM  *)
(* and the FM functions differ in their gaps and marks only.               *)
(***************************************************************************)
EXTENDS TrackDisk

CONSTANT MaxInfo     \* max: as many headers fit into info[]
ASSUME InfoAssumption == MaxInfo \in Nat /\ MaxInfo >= NrSectors

Ibm == fmt \in {"mfm", "fm"}

ibm_scan         == Ibm /\ AtIndex("scan")
ibm_read_sector  == Ibm /\ Search("read")
ibm_write_sector == Ibm /\ Search("write")
ibm_mfm_write_track == fmt = "mfm" /\ AtIndex("track")

ScanPrep ==
  /\ Step("prep", "sync")
  /\ UNCHANGED <<call, params, seen, start, count, wait, result, warned, disk, mark,
                 left, write>>

AnyRevolution  == count # 0      \* wrong: the index is never looked at again
\* scan: what was complete before the next index pulse is of this revolution
ThisRevolution == count = 1

\* The gap after the data, from the first two headers; the caller's is left
\* alone if there are not two, but for a constant in ibm_mfm_scan().
Gap3NoSync(info) == info[2].start - info[1].start     \* wrong: one sync gap
                    - (GapSync + HdrLen + Gap2) - DatLen
Gap3Of(info) == info[2].start - info[1].start
                - (GapSync + HdrLen + Gap2) - (GapSync + DatLen)

ScanGoesOn ==
  /\ call = "scan" /\ ThisRevolution
  /\ Checked("prep")
  /\ seen' = IF mark.kind = "id" /\ Len(seen) < MaxInfo
             THEN Append(seen, [sector |-> mark.sector, start |-> start]) ELSE seen
  /\ UNCHANGED warned

ScanEnds ==
  /\ call = "scan" /\ ~ThisRevolution
  /\ Checked("returned")
  /\ warned' = (warned \/ (Len(seen) >= 2 /\ Gap3Of(seen) < 0))
  /\ UNCHANGED seen

\* search: until the header is the one asked for
Wanted == mark.kind = "id" /\ mark.sector = id

SearchCheck ==
  /\ Ibm /\ call \in {"read", "write"}
  /\ Checked(IF ~Wanted THEN "search" ELSE IF call = "read" THEN "data" ELSE "delay")
  /\ UNCHANGED <<seen, warned>>

\* read_sector: the next mark is the data of that header
DataEnds ==
  /\ Ibm /\ Step("databytes", "returned") /\ left = 0
  /\ warned' = (warned \/ mark.kind # "data")
  /\ result' = [s \in {id} |-> mark.value]
  /\ UNCHANGED <<call, params, seen, start, count, wait, disk, mark, left, write>>
=============================================================================
