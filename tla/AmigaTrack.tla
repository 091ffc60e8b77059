------------------------------ MODULE AmigaTrack ------------------------------
(***************************************************************************)
(* Reading and writing whole Amiga tracks (amiga.c).  The sectors follow   *)
(* each other at fixed distances, each one says how many there are from it *)
(* to the gap, and a read takes all of them at once, from the first one    *)
(* after the gap on.                                                       *)
(***************************************************************************)
EXTENDS TrackDisk

Amiga == fmt = "amiga"

amiga_track_read  == Amiga /\ Search("amiga_read")
amiga_track_write == Amiga /\ AtIndex("amiga_write")

\* wrong: the first sector is the one that is preceded by sector 0
LastSectorIs0(m) == m.sector - 1 = 0

\* the info longword of the last sector before the gap: 1 to go
togo(m) == NrSectors - m.sector + 1
LastSector(m) == togo(m) = 1

LastSectorCheck ==
  /\ Amiga
  /\ Checked(IF LastSector(mark) THEN "data" ELSE "search")
  /\ UNCHANGED <<seen, warned>>

\* The sector that begins i sectors after the mark at which the read began.
Found(i) == {m \in marks : m.at = (mark.at + i * AmigaLen) % TrackLen}

\* The buffer is taken apart: a sector at each multiple of the sector length,
\* of which as many are left as its info says.
TrackEnds ==
  /\ Amiga /\ Step("databytes", "returned") /\ left = 0
  /\ warned' = (warned \/ \E i \in 0 .. NrSectors - 1 :
                            {m \in Found(i) : togo(m) = NrSectors - i} = {})
  /\ LET read == UNION {Found(i) : i \in 0 .. NrSectors - 1}
     IN  result' = [s \in {m.sector : m \in read} |->
                      (CHOOSE m \in read : m.sector = s).value]
  /\ UNCHANGED <<call, params, seen, start, count, wait, disk, mark, left, write>>
=============================================================================
