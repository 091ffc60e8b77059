--------------------------- MODULE TrackTestsProofs ---------------------------
(***************************************************************************)
(* Proofs about TrackTests: for any number of sectors and any track and    *)
(* gaps that fit LagAssumption, no test blames a healthy disk, the gap     *)
(* measured is that of the track, and writes replace what they are meant   *)
(* to replace.                                                             *)
(***************************************************************************)
EXTENDS TrackTests, FiniteSetTheorems, FunctionTheorems, TLAPS

(***************************************************************************)
(* The inductive invariant.                                                *)
(***************************************************************************)
Operations == {"scan", "period", "read", "write", "track", "amiga_read", "amiga_write"}
Searches == {"read", "write", "amiga_read"}
WholeTrack == {"track", "amiga_write"}
Reading == {"mark", "bytes", "check"}

Kinds == {"none", "id", "data", "sector"}
MarkType == [at : 0 .. TrackLen - 1, kind : Kinds, sector : Sectors, value : Values]
Late == 0 .. 2 * MaxLag

TypeOK ==
  /\ pc \in {"idle", "index", "prep", "search", "sync", "mark", "bytes", "check", "data", "datasync",
             "databytes", "delay", "write", "writing", "period", "returned"}
  /\ id \in Sectors /\ gap3 \in 0 .. Gap3 /\ seen \in Seq([sector : Sectors, start : Int])
  /\ start \in Int /\ count \in 0 .. 2 /\ wait \in Nat /\ left \in Int /\ warned \in BOOLEAN
  /\ fmt \in Formats /\ pos \in 0 .. TrackLen - 1 /\ marks \subseteq MarkType
  /\ mark \in MarkType /\ stop \in Int /\ begin \in 0 .. TrackLen - 1
  /\ content \in [Sectors -> Values] /\ lag \in 0 .. MaxLag

\* the statements of each call
Places(c) ==
  CASE c = none -> {"idle"}
    [] c = "scan" -> {"index", "prep", "sync", "returned"} \cup Reading
    [] c = "period" -> {"period", "returned"}
    [] c \in {"read", "amiga_read"} ->
         {"search", "sync", "data", "datasync", "databytes", "returned"} \cup Reading
    [] c = "write" -> {"search", "sync", "delay", "writing", "returned"} \cup Reading
    [] c \in WholeTrack -> {"index", "write", "writing", "returned"}
WriteLine == CASE test \in {mfm_rw_sector, fm_rw_sector} -> 2
               [] test = check_mfm -> 1
               [] OTHER -> 0
Program ==
  /\ test # <<>> => test \in TestsOf(fmt) /\ line \in 0 .. Len(test) - 1
  /\ call = IF pc = "idle" THEN none ELSE test[line + 1]
  /\ test = <<>> => pc = "idle" /\ line = 0
  /\ pc \in Places(call)
  /\ Waits => lag = 0

\* What the test expects, and what it has already written.
DataInv ==
  test # <<>> =>
    /\ data \in IF Amiga THEN [Sectors -> Values] ELSE [{id} -> Values]
    /\ line > WriteLine \/ (line = WriteLine /\ pc = "returned")
          => \A s \in DOMAIN data : content[s] = data[s]

\* The marks of the track: a track begins late by two steps at most, and so does
\* a data field that was written later.
IbmMarks(o, d, values) ==
  {Mark(HeaderAt(o, s), "id", s, Filler) : s \in Sectors}
    \cup {Mark(DataAt(o, s) + d[s], "data", s, values[s]) : s \in Sectors}
LayoutInv ==
  IF Amiga THEN \E o \in Late : marks = AmigaLayout(o, content)
  ELSE \E o \in Late, d \in [Sectors -> Late] : marks = IbmMarks(o, d, content)

\* the header that a search is for
Target(m) == IF Amiga THEN m.sector = NrSectors ELSE m.kind = "id" /\ m.sector = id
Gone == Distance(mark.at, pos)

\* How far the disk has turned since the mark that is being read.
ReadingInv == pc \in Reading =>
  /\ mark \in marks
  /\ pc = "mark" => Gone = 1 + lag /\ left = HeaderLen - Gone
  /\ pc = "bytes" => left \in Nat /\ Gone = HeaderLen - left + (IF left = 0 THEN lag ELSE 0)
  /\ pc = "check" => Gone - HeaderLen \in lag .. MaxLag + lag
  /\ pc # "mark" /\ mark.kind = "id" => start - mark.at \in 0 .. MaxLag

\* In the second revolution of a search the header has not passed yet.
SearchInv == call \in Searches /\ pc \in {"search", "sync"} \cup Reading =>
  /\ count < 2
  /\ count = 1 => \A m \in marks : Target(m) =>
       /\ pc = "search" => pos + (MaxLag - lag) <= m.at
       /\ pc = "sync" => pos <= m.at
       /\ pc \in Reading /\ pos >= mark.at => mark.at <= m.at

\* A scan has listed the headers that have passed.
SeenInv == call # "scan" \/ pc = "index" => seen = <<>>
ScanInv == call = "scan" /\ pc # "index" =>
  /\ count \in 1 .. 2 /\ Len(seen) <= NrSectors
  /\ \A i \in 1 .. Len(seen) : seen[i].sector = i
  /\ \A m \in marks : m.kind = "id" /\ m.sector <= Len(seen)
                         => seen[m.sector].start - m.at \in 0 .. MaxLag
  /\ count = 2 \/ pc = "returned" => Len(seen) = NrSectors
  /\ count = 1 => \A m \in marks : m.kind = "id" =>
       /\ pc = "prep" => IF m.sector <= Len(seen) THEN m.at < pos ELSE pos + (MaxLag - lag) <= m.at
       /\ pc = "sync" => IF m.sector <= Len(seen) THEN m.at < pos ELSE pos <= m.at
       /\ pc \in Reading => mark.at < pos /\ (m.sector <= Len(seen) <=> m.at < mark.at)

\* The data that follows a header.
NextData(m) == IF Amiga THEN m.sector = 1 ELSE m.kind = "data" /\ m.sector = id
FollowInv ==
  /\ pc \in {"data", "datasync"} =>
       \A m \in marks, n \in marks : Target(m) /\ NextData(n) =>
         IF pc = "data" THEN Distance(m.at, pos) - HeaderLen \in 0 .. 2 * MaxLag + lag
         ELSE IF m.at < n.at THEN m.at < pos /\ pos <= n.at ELSE m.at < pos \/ pos <= n.at
  /\ pc = "databytes" => mark \in marks /\ NextData(mark) /\ left >= 0
  /\ pc = "returned" /\ call \in {"read", "amiga_read"} => result = data

\* Where a write begins, and how long it lasts.
IndexInv ==
  /\ pc = "index" => count <= 1 /\ (count = 1 => pos = lag)
  /\ pc = "write" => count = 1 /\ pos <= MaxLag + lag
GateInv ==
  /\ pc = "check" /\ call = "write" => wait = Gap2 - lag
  /\ pc = "delay" => \A m \in marks : Target(m) =>
       pos > m.at /\ pos + wait - (m.at + HdrLen + Gap2)
                       \in 0 .. MaxLag + (IF wait = 0 THEN lag ELSE 0)
  /\ pc = "writing" /\ call = "write" => \A m \in marks : Target(m) =>
       begin - (m.at + HdrLen + Gap2) \in Late
  /\ pc = "writing" => left >= -lag
  /\ pc = "writing" /\ call \in WholeTrack =>
       /\ begin \in Late /\ stop = 2 /\ count \in 1 .. 2
       /\ begin + (WriteLen - left) = IF count = 1 THEN pos ELSE pos + TrackLen
       /\ count = 2 => pos <= lag

IInv == /\ TypeOK /\ Program /\ DataInv /\ LayoutInv /\ ~warned
        /\ SeenInv /\ ReadingInv /\ SearchInv /\ ScanInv /\ FollowInv /\ IndexInv /\ GateInv

(***************************************************************************)
(* Numbers.                                                                *)
(***************************************************************************)
LEMMA Numbers ==
  /\ GapSync \in Nat /\ HdrLen \in Nat /\ Gap2 \in Nat /\ DatLen \in Nat /\ Gap3 \in Nat
  /\ EdgeGap \in Nat /\ TrackGap \in Nat /\ SecGap \in Nat /\ InfoLen \in Nat
  /\ BodyLen \in Nat /\ WholeLen \in Nat /\ TrackLen \in Nat
  /\ GapSync > 0 /\ HdrLen > 0 /\ Gap2 > 0 /\ DatLen > 0 /\ Gap3 > 0 /\ EdgeGap > 0
  /\ TrackGap > 0 /\ SecGap > 0 /\ InfoLen > 0 /\ BodyLen > 0 /\ TrackLen > 0
  /\ MaxLag \in Nat /\ NrSectors \in Nat /\ NrSectors >= 1 /\ Sectors = 1 .. NrSectors
  /\ SecLen \in Nat /\ AmigaLen \in Nat
  /\ SecLen = 2 * GapSync + HdrLen + Gap2 + DatLen + Gap3
  /\ AmigaLen = SecGap + InfoLen + BodyLen
  /\ Late = 0 .. 2 * MaxLag
<1>1. NrSectors \in Nat
  BY SectorAssumption, FS_CardinalityType DEF NrSectors
<1>2. ASSUME NEW n \in {GapSync, HdrLen, Gap2, DatLen, Gap3, EdgeGap, TrackGap, SecGap, InfoLen,
                        BodyLen, WholeLen, TrackLen}
      PROVE  n \in Nat /\ n > 0
  <2>1. n \in Nat \ {0}
    BY LayoutAssumption, Zenon
  <2>2. QED
    BY <2>1
<1>3. /\ GapSync \in Nat /\ HdrLen \in Nat /\ Gap2 \in Nat /\ DatLen \in Nat /\ Gap3 \in Nat
      /\ EdgeGap \in Nat /\ TrackGap \in Nat /\ SecGap \in Nat /\ InfoLen \in Nat
      /\ BodyLen \in Nat /\ WholeLen \in Nat /\ TrackLen \in Nat
  BY <1>2, Zenon
<1>4. /\ GapSync > 0 /\ HdrLen > 0 /\ Gap2 > 0 /\ DatLen > 0 /\ Gap3 > 0 /\ EdgeGap > 0
      /\ TrackGap > 0 /\ SecGap > 0 /\ InfoLen > 0 /\ BodyLen > 0 /\ TrackLen > 0
  BY <1>2, Zenon
<1>5. MaxLag \in Nat /\ NrSectors >= 1 /\ Sectors = 1 .. NrSectors
  BY SectorAssumption, LagAssumption
<1>6. QED
  BY <1>1, <1>3, <1>4, <1>5 DEF SecLen, AmigaLen, Late

\* Sectors of length w follow each other.
LEMMA InOrder ==
  ASSUME NEW w \in Nat, NEW n \in Nat, NEW s \in 1 .. n, NEW t \in 1 .. n
  PROVE  /\ (s - 1) * w \in Nat
         /\ s < t => (s - 1) * w + w <= (t - 1) * w
         /\ (s - 1) * w + w <= n * w
         /\ s = 1 => (s - 1) * w = 0
         /\ s = t + 1 => (s - 1) * w = (t - 1) * w + w
<1>1. ASSUME NEW i \in Nat, NEW j \in Nat, i < j
      PROVE  i * w + w <= j * w
  <2>1. PICK k \in Nat : j = i + 1 + k
    <3>1. j - i - 1 \in Nat /\ j = i + 1 + (j - i - 1)
      BY <1>1
    <3>2. QED
      BY <3>1
  <2>2. j * w = i * w + w + k * w /\ k * w >= 0 /\ i * w \in Nat
    BY <2>1
  <2>3. QED
    BY <2>2
<1>2. s - 1 \in Nat /\ t - 1 \in Nat /\ s - 1 < n
  OBVIOUS
<1>3. (s - 1) * w \in Nat
  BY <1>2
<1>4. s < t => (s - 1) * w + w <= (t - 1) * w
  BY <1>1, <1>2
<1>5. (s - 1) * w + w <= n * w
  BY <1>1, <1>2
<1>6. s = 1 => (s - 1) * w = 0
  OBVIOUS
<1>7. s = t + 1 => (s - 1) * w = (t - 1) * w + w
  <2>1. SUFFICES ASSUME s = t + 1 PROVE (s - 1) * w = (t - 1) * w + w
    OBVIOUS
  <2>2. s - 1 = t - 1 + 1
    BY <2>1
  <2>3. ASSUME NEW i \in Nat PROVE (i + 1) * w = i * w + w
    OBVIOUS
  <2>4. QED
    BY <1>2, <2>2, <2>3
<1>8. QED
  BY <1>3, <1>4, <1>5, <1>6, <1>7

LEMMA DistanceIs ==
  ASSUME NEW a \in 0 .. TrackLen - 1, NEW b \in 0 .. TrackLen - 1
  PROVE  /\ Distance(a, b) = IF a <= b THEN b - a ELSE b - a + TrackLen
         /\ Distance(a, b) \in 0 .. TrackLen - 1
<1>1. TrackLen \in Nat /\ TrackLen > 0
  BY Numbers
<1>2. QED
  BY <1>1 DEF Distance

LEMMA MarkIs ==
  ASSUME NEW a \in 0 .. TrackLen - 1, NEW k, NEW s, NEW v
  PROVE  Mark(a, k, s, v) = [at |-> a, kind |-> k, sector |-> s, value |-> v]
<1>1. a % TrackLen = a
  BY Numbers
<1>2. QED
  BY <1>1 DEF Mark

(***************************************************************************)
(* What a layout says of the marks.                                        *)
(***************************************************************************)
\* No read of a header, with three steps after it, hides another mark.
Spaced == \A m \in marks, n \in marks :
  /\ m.at = n.at => m = n
  /\ m.at < n.at => m.at + HeaderLen + 3 * MaxLag <= n.at
  /\ m.at + HeaderLen + 3 * MaxLag <= n.at + TrackLen

\* where the header of sector s begins, and where its data
LEMMA FieldPlaces ==
  ASSUME NEW o \in Late, NEW s \in Sectors, NEW x \in Late
  PROVE  /\ HeaderAt(o, s) \in Nat
         /\ DataAt(o, s) + x \in Nat
         /\ HeaderAt(o, s) >= EdgeGap + GapSync + o
         /\ DataAt(o, s) = HeaderAt(o, s) + HdrLen + Gap2 + GapSync
         /\ DataAt(o, s) + DatLen + Gap3 + EdgeGap <= TrackLen + o
         /\ DataAt(o, s) + x + HdrLen + 3 * MaxLag <= TrackLen + o + GapSync
         /\ DataAt(o, s) + x < TrackLen
<1>1. /\ (s - 1) * SecLen \in Nat /\ (s - 1) * SecLen + SecLen <= NrSectors * SecLen
  BY Numbers, InOrder
<1> DEFINE B == (s - 1) * SecLen
           E == NrSectors * SecLen
<1>2. B \in Nat /\ B + SecLen <= E /\ E \in Nat /\ 2 * EdgeGap + E <= TrackLen
  <2>1. 2 * EdgeGap + E <= TrackLen
    BY LayoutAssumption
  <2>2. ASSUME NEW n \in Nat, NEW w \in Nat PROVE n * w \in Nat
    OBVIOUS
  <2>3. E \in Nat
    BY <2>2, Numbers
  <2>4. QED
    BY <1>1, <2>1, <2>3
<1>3. HeaderAt(o, s) = o + EdgeGap + B + GapSync
  BY DEF HeaderAt
<1>4. DataAt(o, s) = o + EdgeGap + B + GapSync + HdrLen + Gap2 + GapSync
  BY <1>3 DEF DataAt
<1> HIDE DEF B, E
<1>5. QED
  BY <1>2, <1>3, <1>4, Numbers, LagAssumption

LEMMA SectorsFollow ==
  ASSUME NEW o \in Late, NEW s \in Sectors, NEW t \in Sectors, NEW x \in Late
  PROVE  /\ s < t => HeaderAt(o, s) + SecLen <= HeaderAt(o, t)
         /\ s < t => DataAt(o, s) + x + HdrLen + 3 * MaxLag <= HeaderAt(o, t)
         /\ t = s + 1 => HeaderAt(o, t) = HeaderAt(o, s) + SecLen
<1> DEFINE B == (s - 1) * SecLen
           C == (t - 1) * SecLen
<1>1. /\ B \in Nat /\ C \in Nat /\ (s < t => B + SecLen <= C)
      /\ (t = s + 1 => C = B + SecLen)
  BY Numbers, InOrder
<1>2. HeaderAt(o, s) = o + EdgeGap + B + GapSync /\ HeaderAt(o, t) = o + EdgeGap + C + GapSync
  BY DEF HeaderAt
<1>3. DataAt(o, s) = o + EdgeGap + B + GapSync + HdrLen + Gap2 + GapSync
  BY <1>2 DEF DataAt
<1> HIDE DEF B, C
<1>4. QED
  BY <1>1, <1>2, <1>3, Numbers, LagAssumption

LEMMA IbmMember ==
  ASSUME NEW o \in Late, NEW d \in [Sectors -> Late], NEW v, NEW m
  PROVE  m \in IbmMarks(o, d, v) <=>
           \E s \in Sectors :
             \/ m = [at |-> HeaderAt(o, s), kind |-> "id", sector |-> s, value |-> Filler]
             \/ m = [at |-> DataAt(o, s) + d[s], kind |-> "data", sector |-> s, value |-> v[s]]
<1>1. ASSUME NEW s \in Sectors
      PROVE  /\ Mark(HeaderAt(o, s), "id", s, Filler)
                  = [at |-> HeaderAt(o, s), kind |-> "id", sector |-> s, value |-> Filler]
             /\ Mark(DataAt(o, s) + d[s], "data", s, v[s])
                  = [at |-> DataAt(o, s) + d[s], kind |-> "data", sector |-> s, value |-> v[s]]
  <2>1. d[s] \in Late
    OBVIOUS
  <2>2. /\ HeaderAt(o, s) \in Nat /\ DataAt(o, s) + d[s] \in Nat /\ DataAt(o, s) + d[s] < TrackLen
        /\ DataAt(o, s) = HeaderAt(o, s) + HdrLen + Gap2 + GapSync
    BY <2>1, FieldPlaces
  <2>3. HeaderAt(o, s) \in 0 .. TrackLen - 1 /\ DataAt(o, s) + d[s] \in 0 .. TrackLen - 1
    <3> DEFINE h == HeaderAt(o, s)
               a == DataAt(o, s)
               x == d[s]
    <3>1. /\ h \in Nat /\ a + x \in Nat /\ a + x < TrackLen /\ a = h + HdrLen + Gap2 + GapSync
          /\ x \in 0 .. 2 * MaxLag
      BY <2>1, <2>2 DEF Late
    <3>2. /\ HdrLen \in Nat /\ Gap2 \in Nat /\ GapSync \in Nat /\ MaxLag \in Nat
          /\ TrackLen \in Nat
      BY Numbers
    <3> HIDE DEF h, a, x
    <3>3. h \in 0 .. TrackLen - 1 /\ a + x \in 0 .. TrackLen - 1
      BY <3>1, <3>2
    <3>4. QED
      BY <3>3 DEF h, a, x
  <2>4. QED
    BY <2>3, MarkIs
<1>2. m \in IbmMarks(o, d, v) <=>
        \E s \in Sectors : \/ m = Mark(HeaderAt(o, s), "id", s, Filler)
                           \/ m = Mark(DataAt(o, s) + d[s], "data", s, v[s])
  BY DEF IbmMarks
<1>3. QED
  BY <1>1, <1>2

\* An IBM track: headers and data fields take turns in the order of the sectors.
IbmFacts ==
  /\ \A m \in marks : /\ m.kind \in {"id", "data"} /\ m.sector \in Sectors
                      /\ m.at \in 3 * MaxLag .. TrackLen - 1
  /\ Spaced
  /\ \A s \in Sectors : /\ \E m \in marks : m.kind = "id" /\ m.sector = s
                        /\ \E m \in marks : m.kind = "data" /\ m.sector = s
  /\ \A m \in marks, n \in marks : m.kind = n.kind =>
       /\ m.sector = n.sector => m = n
       /\ m.sector < n.sector => m.at < n.at
       /\ m.kind = "id" /\ n.sector = m.sector + 1 => n.at = m.at + SecLen
  /\ \A m \in marks, n \in marks : m.kind = "id" /\ n.kind = "data" =>
       /\ m.sector <= n.sector <=> m.at < n.at
       /\ m.sector = n.sector => n.at - (m.at + HdrLen + Gap2 + GapSync) \in Late
  /\ \A n \in marks : n.kind = "data" => n.value = content[n.sector]

LEMMA IbmTrackFacts ==
  ASSUME ~Amiga, NEW o \in Late, NEW d \in [Sectors -> Late], marks = IbmMarks(o, d, content)
  PROVE  IbmFacts
<1> DEFINE H(s) == HeaderAt(o, s)
           D(s) == DataAt(o, s) + d[s]
<1>0. /\ MaxLag \in Nat /\ HdrLen \in Nat /\ Gap2 \in Nat /\ GapSync \in Nat /\ SecLen \in Nat
      /\ EdgeGap \in Nat /\ TrackLen \in Nat /\ HdrLen > 0 /\ SecLen > 0
      /\ 3 * MaxLag <= GapSync /\ 2 * MaxLag <= EdgeGap /\ HeaderLen = HdrLen
      /\ HdrLen + Gap2 + GapSync + 2 * MaxLag < SecLen
  BY Numbers, LagAssumption DEF HeaderLen, Amiga
<1>1. ASSUME NEW s \in Sectors
      PROVE  /\ s \in Nat /\ H(s) \in Nat /\ D(s) \in Nat /\ D(s) < TrackLen
             /\ H(s) >= EdgeGap + GapSync
             /\ D(s) - (H(s) + HdrLen + Gap2 + GapSync) \in 0 .. 2 * MaxLag
             /\ D(s) + HdrLen + 3 * MaxLag <= TrackLen + EdgeGap + GapSync
  <2>1. d[s] \in Late /\ s \in Nat /\ d[s] \in 0 .. 2 * MaxLag /\ o \in 0 .. 2 * MaxLag
    BY Numbers
  <2>2. /\ H(s) \in Nat /\ D(s) \in Nat /\ H(s) >= EdgeGap + GapSync + o
        /\ DataAt(o, s) = H(s) + HdrLen + Gap2 + GapSync
        /\ D(s) + HdrLen + 3 * MaxLag <= TrackLen + o + GapSync
        /\ D(s) < TrackLen
    BY <2>1, FieldPlaces
  <2>3. D(s) = H(s) + HdrLen + Gap2 + GapSync + d[s]
    BY <2>2
  <2> HIDE DEF H, D
  <2>4. QED
    BY <1>0, <2>1, <2>2, <2>3
<1>2. ASSUME NEW s \in Sectors, NEW t \in Sectors
      PROVE  /\ s < t => H(s) + SecLen <= H(t) /\ D(s) + HdrLen + 3 * MaxLag <= H(t)
             /\ t = s + 1 => H(t) = H(s) + SecLen
  <2>1. d[s] \in Late
    OBVIOUS
  <2>2. QED
    BY <2>1, SectorsFollow
<1>3. ASSUME NEW m \in marks
      PROVE  /\ m.sector \in Sectors
             /\ \/ m.kind = "id" /\ m.at = H(m.sector) /\ m.value = Filler
                \/ m.kind = "data" /\ m.at = D(m.sector) /\ m.value = content[m.sector]
             /\ m = [at |-> m.at, kind |-> m.kind, sector |-> m.sector, value |-> m.value]
  BY <1>3, IbmMember
<1>4. \A s \in Sectors : /\ \E m \in marks : m.kind = "id" /\ m.sector = s
                         /\ \E m \in marks : m.kind = "data" /\ m.sector = s
  <2> SUFFICES ASSUME NEW s \in Sectors
               PROVE  /\ \E m \in marks : m.kind = "id" /\ m.sector = s
                      /\ \E m \in marks : m.kind = "data" /\ m.sector = s
    OBVIOUS
  <2>1. [at |-> H(s), kind |-> "id", sector |-> s, value |-> Filler] \in marks
    BY IbmMember
  <2>2. [at |-> D(s), kind |-> "data", sector |-> s, value |-> content[s]] \in marks
    BY IbmMember
  <2>3. QED
    BY <2>1, <2>2
<1> HIDE DEF H, D
<1>6. ASSUME NEW m \in marks
      PROVE  m.kind \in {"id", "data"} /\ m.at \in 3 * MaxLag .. TrackLen - 1
  <2> DEFINE s == m.sector
  <2>1. s \in Sectors /\ (m.at = H(s) \/ m.at = D(s))
    BY <1>3
  <2>2. /\ H(s) \in Nat /\ D(s) \in Nat /\ D(s) < TrackLen /\ H(s) >= EdgeGap + GapSync
        /\ D(s) - (H(s) + HdrLen + Gap2 + GapSync) \in 0 .. 2 * MaxLag
    BY <1>1, <2>1
  <2>3. m.kind \in {"id", "data"}
    BY <1>3
  <2> HIDE DEF s
  <2>4. QED
    BY <1>0, <2>1, <2>2, <2>3
<1>7. ASSUME NEW m \in marks, NEW n \in marks
      PROVE  /\ m.at = n.at => m.kind = n.kind /\ m.sector = n.sector
             /\ m.at < n.at => m.at + HdrLen + 3 * MaxLag <= n.at
             /\ m.at + HdrLen + 3 * MaxLag <= n.at + TrackLen
             /\ m.kind = n.kind /\ m.sector < n.sector => m.at < n.at
             /\ m.kind = "id" /\ n.kind = "data" =>
                  /\ m.sector <= n.sector <=> m.at < n.at
                  /\ m.sector = n.sector => n.at - (m.at + HdrLen + Gap2 + GapSync) \in 0 .. 2 * MaxLag
  <2> DEFINE s == m.sector
             t == n.sector
  <2>1. /\ s \in Sectors /\ s \in Nat /\ H(s) \in Nat /\ D(s) \in Nat /\ D(s) < TrackLen
        /\ H(s) >= EdgeGap + GapSync /\ D(s) - (H(s) + HdrLen + Gap2 + GapSync) \in 0 .. 2 * MaxLag
        /\ D(s) + HdrLen + 3 * MaxLag <= TrackLen + EdgeGap + GapSync
    BY <1>1, <1>3
  <2>2. /\ t \in Sectors /\ t \in Nat /\ H(t) \in Nat /\ D(t) \in Nat /\ D(t) < TrackLen
        /\ H(t) >= EdgeGap + GapSync /\ D(t) - (H(t) + HdrLen + Gap2 + GapSync) \in 0 .. 2 * MaxLag
    BY <1>1, <1>3
  <2>3. /\ s < t => H(s) + SecLen <= H(t) /\ D(s) + HdrLen + 3 * MaxLag <= H(t)
        /\ t < s => H(t) + SecLen <= H(s) /\ D(t) + HdrLen + 3 * MaxLag <= H(s)
    BY <1>2, <2>1, <2>2
  <2>4. s = t => H(s) = H(t) /\ D(s) = D(t)
    OBVIOUS
  <2>5. /\ (m.kind = "id" /\ m.at = H(s)) \/ (m.kind = "data" /\ m.at = D(s))
        /\ (n.kind = "id" /\ n.at = H(t)) \/ (n.kind = "data" /\ n.at = D(t))
    BY <1>3
  <2>7. s = m.sector /\ t = n.sector
    OBVIOUS
  <2> HIDE DEF s, t
  <2>6. QED
    <3>1. CASE m.kind = "id" /\ n.kind = "id"
      BY <3>1, <1>0, <2>1, <2>2, <2>3, <2>4, <2>5, <2>7
    <3>2. CASE m.kind = "id" /\ n.kind = "data"
      BY <3>2, <1>0, <2>1, <2>2, <2>3, <2>4, <2>5, <2>7
    <3>3. CASE m.kind = "data" /\ n.kind = "id"
      BY <3>3, <1>0, <2>1, <2>2, <2>3, <2>4, <2>5, <2>7
    <3>4. CASE m.kind = "data" /\ n.kind = "data"
      BY <3>4, <1>0, <2>1, <2>2, <2>3, <2>4, <2>5, <2>7
    <3>5. QED
      BY <1>6, <3>1, <3>2, <3>3, <3>4
<1>8. ASSUME NEW m \in marks, NEW n \in marks, m.kind = n.kind, m.sector = n.sector
      PROVE  m = n
  BY <1>3, <1>8
<1>9. ASSUME NEW m \in marks, NEW n \in marks, m.kind = "id", n.kind = "id", n.sector = m.sector + 1
      PROVE  n.at = m.at + SecLen
  BY <1>2, <1>3, <1>9
<1>10. Spaced
  BY <1>0, <1>7, <1>8 DEF Spaced
<1>11. \A m \in marks, n \in marks : m.kind = n.kind =>
         /\ m.sector = n.sector => m = n
         /\ m.sector < n.sector => m.at < n.at
         /\ m.kind = "id" /\ n.sector = m.sector + 1 => n.at = m.at + SecLen
  BY <1>7, <1>8, <1>9
<1>12. \A m \in marks, n \in marks : m.kind = "id" /\ n.kind = "data" =>
         /\ m.sector <= n.sector <=> m.at < n.at
         /\ m.sector = n.sector => n.at - (m.at + HdrLen + Gap2 + GapSync) \in Late
  BY <1>7, Numbers
<1>13. \A n \in marks : n.kind = "data" => n.value = content[n.sector]
  BY <1>3
<1>14. QED
  BY <1>3, <1>4, <1>6, <1>10, <1>11, <1>12, <1>13 DEF IbmFacts

AmigaMember(o, v, m) == \E s \in Sectors :
  m = [at |-> AmigaAt(o, s), kind |-> "sector", sector |-> s, value |-> v[s]]

\* An Amiga track: the sectors follow each other at one distance.
AmigaFacts ==
  /\ \A m \in marks : /\ m.kind = "sector" /\ m.sector \in Sectors
                      /\ m.at \in 2 * MaxLag .. TrackLen - 1
                      /\ m.at + InfoLen + BodyLen <= TrackLen
                      /\ m.value = content[m.sector]
  /\ Spaced
  /\ \A s \in Sectors : \E m \in marks : m.sector = s
  /\ \A m \in marks, n \in marks :
       /\ m.sector = n.sector => m = n
       /\ m.sector < n.sector => m.at < n.at
       /\ m.sector = 1 => n.at = m.at + (n.sector - 1) * AmigaLen

LEMMA AmigaPlaces ==
  ASSUME NEW o \in Late, NEW s \in Sectors, NEW t \in Sectors
  PROVE  /\ AmigaAt(o, s) \in Nat /\ AmigaAt(o, s) >= 2 * MaxLag + SecGap
         /\ AmigaAt(o, s) + InfoLen + BodyLen <= TrackLen
         /\ s < t => AmigaAt(o, s) + AmigaLen <= AmigaAt(o, t)
         /\ s = 1 => AmigaAt(o, t) = AmigaAt(o, s) + (t - 1) * AmigaLen
<1> DEFINE B == (s - 1) * AmigaLen
           C == (t - 1) * AmigaLen
           E == NrSectors * AmigaLen
<1>1. /\ B \in Nat /\ C \in Nat /\ (s < t => B + AmigaLen <= C) /\ B + AmigaLen <= E
      /\ (s = 1 => B = 0)
  BY Numbers, InOrder
<1>2. TrackGap + E + 2 * MaxLag <= TrackLen /\ E \in Nat
  <2>1. TrackGap + E + 2 * MaxLag <= TrackLen
    BY LayoutAssumption
  <2>2. ASSUME NEW n \in Nat, NEW w \in Nat PROVE n * w \in Nat
    OBVIOUS
  <2>3. QED
    BY <2>1, <2>2, Numbers
<1>3. AmigaAt(o, s) = o + TrackGap + B + SecGap /\ AmigaAt(o, t) = o + TrackGap + C + SecGap
  BY DEF AmigaAt
<1>4. s = 1 => AmigaAt(o, t) = AmigaAt(o, s) + C
  <2> HIDE DEF B, C
  <2>1. QED
    BY <1>1, <1>3, Numbers
<1> HIDE DEF B, E
<1>5. s = 1 => AmigaAt(o, t) = AmigaAt(o, s) + (t - 1) * AmigaLen
  BY <1>4
<1> HIDE DEF C
<1>6. QED
  BY <1>1, <1>2, <1>3, <1>5, Numbers, LagAssumption

LEMMA AmigaMarks ==
  ASSUME NEW o \in Late, NEW v, NEW m
  PROVE  m \in AmigaLayout(o, v) <=> AmigaMember(o, v, m)
<1>1. ASSUME NEW s \in Sectors
      PROVE  Mark(AmigaAt(o, s), "sector", s, v[s])
                = [at |-> AmigaAt(o, s), kind |-> "sector", sector |-> s, value |-> v[s]]
  <2>1. AmigaAt(o, s) \in Nat /\ AmigaAt(o, s) + InfoLen + BodyLen <= TrackLen
    BY AmigaPlaces
  <2>2. AmigaAt(o, s) \in 0 .. TrackLen - 1
    BY <2>1, Numbers
  <2>3. QED
    BY <2>2, MarkIs
<1>2. m \in AmigaLayout(o, v) <=> \E s \in Sectors : m = Mark(AmigaAt(o, s), "sector", s, v[s])
  BY DEF AmigaLayout
<1>3. QED
  BY <1>1, <1>2 DEF AmigaMember

LEMMA AmigaTrackFacts ==
  ASSUME Amiga, NEW o \in Late, marks = AmigaLayout(o, content)
  PROVE  AmigaFacts
<1> DEFINE A(s) == AmigaAt(o, s)
<1>0. /\ MaxLag \in Nat /\ InfoLen \in Nat /\ BodyLen \in Nat /\ SecGap \in Nat /\ InfoLen > 0
      /\ TrackLen \in Nat /\ AmigaLen = SecGap + InfoLen + BodyLen
      /\ 3 * MaxLag <= BodyLen + SecGap /\ HeaderLen = InfoLen
  BY Numbers, LagAssumption DEF HeaderLen, Amiga
<1>1. ASSUME NEW s \in Sectors
      PROVE  /\ s \in Nat /\ A(s) \in Nat /\ A(s) >= 2 * MaxLag + SecGap
             /\ A(s) + InfoLen + BodyLen <= TrackLen
  <2>1. s \in Nat
    BY Numbers
  <2>2. QED
    BY <2>1, AmigaPlaces
<1>2. ASSUME NEW s \in Sectors, NEW t \in Sectors
      PROVE  /\ s < t => A(s) + AmigaLen <= A(t)
             /\ s = 1 => A(t) = A(s) + (t - 1) * AmigaLen
  BY AmigaPlaces
<1>3. ASSUME NEW m \in marks
      PROVE  /\ m.sector \in Sectors /\ m.kind = "sector" /\ m.at = A(m.sector)
             /\ m.value = content[m.sector]
             /\ m = [at |-> m.at, kind |-> m.kind, sector |-> m.sector, value |-> m.value]
  BY <1>3, AmigaMarks DEF AmigaMember
<1>4. \A s \in Sectors : \E m \in marks : m.sector = s
  <2> SUFFICES ASSUME NEW s \in Sectors PROVE \E m \in marks : m.sector = s
    OBVIOUS
  <2>1. [at |-> A(s), kind |-> "sector", sector |-> s, value |-> content[s]] \in marks
    BY AmigaMarks DEF AmigaMember
  <2>2. QED
    BY <2>1
<1> HIDE DEF A
<1>5. ASSUME NEW m \in marks
      PROVE  m.at \in 2 * MaxLag .. TrackLen - 1 /\ m.at + InfoLen + BodyLen <= TrackLen
  <2> DEFINE s == m.sector
  <2>1. m.at = A(s) /\ A(s) \in Nat /\ A(s) >= 2 * MaxLag + SecGap
        /\ A(s) + InfoLen + BodyLen <= TrackLen
    BY <1>1, <1>3
  <2> HIDE DEF s
  <2>2. QED
    BY <1>0, <2>1
<1>6. ASSUME NEW m \in marks, NEW n \in marks
      PROVE  /\ m.at = n.at => m.sector = n.sector
             /\ m.at < n.at => m.at + InfoLen + 3 * MaxLag <= n.at
             /\ m.at + InfoLen + 3 * MaxLag <= n.at + TrackLen
             /\ m.sector < n.sector => m.at < n.at
  <2> DEFINE s == m.sector
             t == n.sector
  <2>1. /\ s \in Nat /\ A(s) \in Nat /\ A(s) >= 2 * MaxLag + SecGap
        /\ A(s) + InfoLen + BodyLen <= TrackLen /\ m.at = A(s)
        /\ t \in Nat /\ A(t) \in Nat /\ A(t) >= 2 * MaxLag + SecGap /\ n.at = A(t)
    BY <1>1, <1>3
  <2>2. (s < t => A(s) + AmigaLen <= A(t)) /\ (t < s => A(t) + AmigaLen <= A(s))
    BY <1>2, <1>3
  <2>3. s = m.sector /\ t = n.sector
    OBVIOUS
  <2> HIDE DEF s, t
  <2>4. QED
    BY <1>0, <2>1, <2>2, <2>3
<1>7. Spaced
  BY <1>0, <1>3, <1>6 DEF Spaced
<1>8. \A m \in marks, n \in marks :
        /\ m.sector = n.sector => m = n
        /\ m.sector < n.sector => m.at < n.at
        /\ m.sector = 1 => n.at = m.at + (n.sector - 1) * AmigaLen
  BY <1>2, <1>3, <1>6
<1>9. QED
  BY <1>3, <1>4, <1>5, <1>7, <1>8 DEF AmigaFacts

\* In every state of the invariant the marks are such a track.
LEMMA TrackFacts ==
  ASSUME LayoutInv
  PROVE  (Amiga => AmigaFacts) /\ (~Amiga => IbmFacts) /\ Spaced
<1>1. Amiga => AmigaFacts
  BY AmigaTrackFacts DEF LayoutInv
<1>2. ~Amiga => IbmFacts
  BY IbmTrackFacts DEF LayoutInv
<1>3. QED
  BY <1>1, <1>2 DEF AmigaFacts, IbmFacts

(***************************************************************************)
(* The program.                                                            *)
(***************************************************************************)
Writes == {"write", "track", "amiga_write"}

\* What the calls of a test are.
LEMMA CallIs ==
  ASSUME TypeOK, Program, test # <<>>
  PROVE  /\ test[line + 1] \in Operations
         /\ test[line + 1] \in {"amiga_read", "amiga_write"} <=> Amiga
         /\ line = WriteLine => test[line + 1] \in Writes
         /\ test[line + 1] \in Writes => line <= WriteLine
         /\ test[line + 1] \in {"write", "amiga_write"} => line = WriteLine
         /\ test[line + 1] = "track" => line = 0 /\ test = check_mfm
         /\ test[line + 1] \in {"read", "amiga_read"} => line > WriteLine
         /\ line \in Nat /\ WriteLine \in Nat /\ Len(test) \in Nat
<1>1. /\ fmt \in {"mfm", "fm", "amiga"} /\ test \in TestsOf(fmt) /\ line \in 0 .. Len(test) - 1
  BY SectorAssumption DEF TypeOK, Program
<1>2. CASE test = mfm_rw_sector \/ test = fm_rw_sector
  <2>1. test = <<"scan", "period", "write", "period", "read">> /\ ~Amiga /\ WriteLine = 2
    BY <1>1, <1>2 DEF mfm_rw_sector, fm_rw_sector, TestsOf, adf_test, check_mfm,
                      WriteLine, Amiga
  <2>2. Len(test) = 5 /\ line \in 0 .. 4
    BY <1>1, <2>1
  <2>3. line = 0 \/ line = 1 \/ line = 2 \/ line = 3 \/ line = 4
    BY <2>2
  <2>4. test[1] = "scan" /\ test[2] = "period" /\ test[3] = "write" /\ test[4] = "period"
        /\ test[5] = "read"
    BY <2>1
  <2>5. QED
    BY <2>1, <2>2, <2>3, <2>4 DEF Operations, Writes
<1>3. CASE test = check_mfm
  <2>1. test = <<"track", "write", "read", "scan">> /\ ~Amiga
    BY <1>1, <1>3 DEF mfm_rw_sector, fm_rw_sector, TestsOf, adf_test, check_mfm,
                      Amiga
  <2>2. WriteLine = 1
    BY <2>1 DEF WriteLine, mfm_rw_sector, fm_rw_sector, check_mfm
  <2>3. Len(test) = 4 /\ line \in 0 .. 3
    BY <1>1, <2>1
  <2>4. line = 0 \/ line = 1 \/ line = 2 \/ line = 3
    BY <2>3
  <2>5. test[1] = "track" /\ test[2] = "write" /\ test[3] = "read" /\ test[4] = "scan"
    BY <2>1
  <2>6. QED
    BY <1>3, <2>1, <2>2, <2>3, <2>4, <2>5 DEF Operations, Writes
<1>4. CASE test = adf_test
  <2>1. test = <<"amiga_write", "amiga_read">> /\ Amiga
    BY <1>1, <1>4 DEF mfm_rw_sector, fm_rw_sector, TestsOf, adf_test, check_mfm,
                      Amiga
  <2>2. WriteLine = 0
    BY <2>1 DEF WriteLine, mfm_rw_sector, fm_rw_sector, check_mfm
  <2>3. Len(test) = 2 /\ line \in 0 .. 1
    BY <1>1, <2>1
  <2>4. line = 0 \/ line = 1
    BY <2>3
  <2>5. test[1] = "amiga_write" /\ test[2] = "amiga_read"
    BY <2>1
  <2>6. QED
    BY <2>1, <2>2, <2>3, <2>4, <2>5 DEF Operations, Writes
<1>5. QED
  BY <1>1, <1>2, <1>3, <1>4 DEF TestsOf

\* Inside a call.
LEMMA InsideCall ==
  ASSUME IInv, pc # "idle"
  PROVE  /\ test # <<>> /\ call = test[line + 1] /\ call \in Operations /\ call # none
         /\ call \in {"amiga_read", "amiga_write"} <=> Amiga
         /\ pc \in Places(call)
<1>1. test # <<>> /\ call = test[line + 1] /\ pc \in Places(call)
  BY DEF IInv, Program
<1>2. QED
  BY <1>1, CallIs DEF IInv, Operations, none

\* A step from statement to statement of a call.
LEMMA WithinCall ==
  ASSUME IInv, pc # "idle", UNCHANGED <<test, line, call, fmt, marks, content, data, id>>,
         lag' = 0, pc' \in Places(call), pc' # "idle",
         pc' = "returned" => call \notin Writes
  PROVE  Program' /\ DataInv' /\ LayoutInv'
<1>1. test # <<>> /\ call = test[line + 1]
  BY InsideCall
<1>2. Program'
  BY <1>1 DEF IInv, Program, TestsOf, Places
<1>3. line # WriteLine \/ pc' # "returned"
  BY <1>1, CallIs DEF IInv
<1>4. DataInv'
  BY <1>1, <1>3 DEF IInv, DataInv, WriteLine, Amiga
<1>5. LayoutInv'
  BY DEF IInv, LayoutInv, Amiga
<1>6. QED
  BY <1>2, <1>4, <1>5

\* Which calls a statement may belong to.
LEMMA PlaceIs ==
  ASSUME IInv
  PROVE  /\ pc \in {"index"} => call \in {"scan", "track", "amiga_write"}
         /\ pc = "prep" => call = "scan"
         /\ pc = "search" => call \in Searches
         /\ pc \in {"sync"} \cup Reading => call \in Searches \cup {"scan"}
         /\ pc \in {"data", "datasync", "databytes"} => call \in {"read", "amiga_read"}
         /\ pc = "delay" => call = "write"
         /\ pc = "write" => call \in WholeTrack
         /\ pc = "writing" => call \in Writes
         /\ pc = "period" => call = "period"
<1>1. CASE pc = "idle"
  BY <1>1 DEF Reading
<1>2. CASE pc # "idle"
  <2>1. call \in Operations /\ pc \in Places(call)
    BY <1>2, InsideCall
  <2>2. CASE call = "scan"
    BY <2>1, <2>2 DEF Places, Reading, Searches, WholeTrack, Writes, none
  <2>3. CASE call = "period"
    BY <2>1, <2>3 DEF Places, Reading, Searches, WholeTrack, Writes, none
  <2>4. CASE call = "read"
    BY <2>1, <2>4 DEF Places, Reading, Searches, WholeTrack, Writes, none
  <2>5. CASE call = "write"
    BY <2>1, <2>5 DEF Places, Reading, Searches, WholeTrack, Writes, none
  <2>6. CASE call = "track"
    BY <2>1, <2>6 DEF Places, Reading, Searches, WholeTrack, Writes, none
  <2>7. CASE call = "amiga_read"
    BY <2>1, <2>7 DEF Places, Reading, Searches, WholeTrack, Writes, none
  <2>8. CASE call = "amiga_write"
    BY <2>1, <2>8 DEF Places, Reading, Searches, WholeTrack, Writes, none
  <2>9. QED
    BY <2>1, <2>2, <2>3, <2>4, <2>5, <2>6, <2>7, <2>8 DEF Operations
<1>3. QED
  BY <1>1, <1>2

LEMMA PlacesAre ==
  /\ Places("scan") = {"index", "prep", "returned", "sync", "mark", "bytes", "check"}
  /\ Places("period") = {"period", "returned"}
  /\ \A c \in {"read", "amiga_read"} :
       Places(c) = {"search", "sync", "mark", "bytes", "check", "data", "datasync", "databytes",
                    "returned"}
  /\ Places("write") = {"search", "sync", "mark", "bytes", "check", "delay", "writing", "returned"}
  /\ \A c \in WholeTrack : Places(c) = {"index", "write", "writing", "returned"}
BY DEF Places, Reading, WholeTrack, none

LEMMA MarkAt ==
  ASSUME TypeOK, NEW m \in marks
  PROVE  m.at \in 0 .. TrackLen - 1 /\ m.sector \in Sectors /\ m.kind \in Kinds /\ m.value \in Values
BY DEF TypeOK, MarkType

\* The parts of the invariant that are about one statement.
Local == SeenInv /\ ReadingInv /\ SearchInv /\ ScanInv /\ FollowInv /\ IndexInv /\ GateInv

LEMMA SearchPrepStep ==
  ASSUME IInv, SearchPrep, UNCHANGED <<test, line>>
  PROVE  IInv'
<1>1. /\ pc = "search" /\ pc' = "sync" /\ lag' = 0 /\ warned' = (warned \/ count >= 2)
      /\ UNCHANGED <<call, id, data, gap3, seen, start, count, wait, result, fmt, pos, marks,
                     content, mark, left, stop, begin>>
  BY DEF SearchPrep, Step, params, disk, write
<1>2. call \in Searches /\ MaxLag \in Nat
  BY <1>1, PlaceIs, Numbers
<1>3. Program' /\ DataInv' /\ LayoutInv'
  BY <1>1, <1>2, PlacesAre, WithinCall DEF Searches
<1>4. TypeOK'
  BY <1>1, <1>2 DEF IInv, TypeOK
<1>5. ~warned'
  BY <1>1, <1>2 DEF IInv, SearchInv, TypeOK
<1>6. SearchInv'
  <2>1. SUFFICES ASSUME count = 1, NEW m \in marks, Target(m) PROVE pos <= m.at
    BY <1>1, <1>2 DEF IInv, SearchInv, Target, Amiga, Reading
  <2>2. pos + (MaxLag - lag) <= m.at
    BY <1>1, <1>2, <2>1 DEF IInv, SearchInv
  <2>3. m.at \in Int /\ pos \in Int /\ lag \in 0 .. MaxLag
    BY MarkAt DEF IInv, TypeOK
  <2>4. QED
    BY <1>2, <2>2, <2>3
<1>7. SeenInv' /\ ReadingInv' /\ ScanInv' /\ FollowInv' /\ IndexInv' /\ GateInv'
  BY <1>1, <1>2 DEF IInv, SeenInv, ReadingInv, ScanInv, FollowInv, IndexInv, GateInv, Searches, Reading
<1>8. QED
  BY <1>3, <1>4, <1>5, <1>6, <1>7 DEF IInv

LEMMA ScanPrepStep ==
  ASSUME IInv, ScanPrep, UNCHANGED <<test, line>>
  PROVE  IInv'
<1>1. /\ pc = "prep" /\ pc' = "sync" /\ lag' = 0
      /\ UNCHANGED <<call, id, data, gap3, seen, start, count, wait, result, warned, fmt, pos, marks,
                     content, mark, left, stop, begin>>
  BY DEF ScanPrep, Step, params, disk, write
<1>2. call = "scan" /\ MaxLag \in Nat
  BY <1>1, PlaceIs, Numbers
<1>3. Program' /\ DataInv' /\ LayoutInv'
  BY <1>1, <1>2, PlacesAre, WithinCall
<1>4. TypeOK' /\ ~warned'
  BY <1>1, <1>2 DEF IInv, TypeOK
<1>5. ScanInv'
  <2>1. SUFFICES ASSUME count = 1, NEW m \in marks, m.kind = "id"
                 PROVE  IF m.sector <= Len(seen) THEN m.at < pos ELSE pos <= m.at
    BY <1>1, <1>2 DEF IInv, ScanInv, Reading
  <2>2. IF m.sector <= Len(seen) THEN m.at < pos ELSE pos + (MaxLag - lag) <= m.at
    BY <1>1, <1>2, <2>1 DEF IInv, ScanInv
  <2>3. m.at \in Int /\ pos \in Int /\ lag \in 0 .. MaxLag
    BY MarkAt DEF IInv, TypeOK
  <2>4. QED
    BY <1>2, <2>2, <2>3
<1>6. SeenInv' /\ ReadingInv' /\ SearchInv' /\ FollowInv' /\ IndexInv' /\ GateInv'
  BY <1>1, <1>2 DEF IInv, SeenInv, ReadingInv, SearchInv, FollowInv, IndexInv, GateInv, Searches, Reading
<1>7. QED
  BY <1>3, <1>4, <1>5, <1>6 DEF IInv

LEMMA DataPrepStep ==
  ASSUME IInv, DataPrep, UNCHANGED <<test, line>>
  PROVE  IInv'
<1>1. /\ pc = "data" /\ pc' = "datasync" /\ lag' = 0
      /\ UNCHANGED <<call, id, data, gap3, seen, start, count, wait, result, warned, fmt, pos, marks,
                     content, mark, left, stop, begin>>
  BY DEF DataPrep, Step, params, disk, write
<1>2. call \in {"read", "amiga_read"} /\ MaxLag \in Nat
  BY <1>1, PlaceIs, Numbers
<1>3. Program' /\ DataInv' /\ LayoutInv'
  BY <1>1, <1>2, PlacesAre, WithinCall
<1>4. TypeOK' /\ ~warned'
  BY <1>1, <1>2 DEF IInv, TypeOK
<1>5. FollowInv'
  <2>1. SUFFICES ASSUME NEW m \in marks, NEW n \in marks, Target(m), NextData(n)
                 PROVE  IF m.at < n.at THEN m.at < pos /\ pos <= n.at ELSE m.at < pos \/ pos <= n.at
    BY <1>1, <1>2 DEF FollowInv, Target, NextData, Amiga
  <2>2. Distance(m.at, pos) - HeaderLen \in 0 .. 2 * MaxLag + lag
    BY <1>1, <2>1 DEF IInv, FollowInv
  <2>3. /\ m.at \in 0 .. TrackLen - 1 /\ n.at \in 0 .. TrackLen - 1 /\ pos \in 0 .. TrackLen - 1
        /\ lag \in 0 .. MaxLag
    BY MarkAt DEF IInv, TypeOK
  <2>4. /\ m.at < n.at => m.at + HeaderLen + 3 * MaxLag <= n.at
        /\ m.at + HeaderLen + 3 * MaxLag <= n.at + TrackLen
        /\ HeaderLen \in Nat /\ HeaderLen > 0 /\ TrackLen \in Nat
    BY TrackFacts, Numbers DEF IInv, Spaced, HeaderLen
  <2>5. Distance(m.at, pos) = IF m.at <= pos THEN pos - m.at ELSE pos - m.at + TrackLen
    BY <2>3, DistanceIs
  <2>6. QED
    BY <1>2, <2>2, <2>3, <2>4, <2>5
<1>6. SeenInv' /\ ReadingInv' /\ SearchInv' /\ ScanInv' /\ IndexInv' /\ GateInv'
  BY <1>1, <1>2 DEF IInv, SeenInv, ReadingInv, SearchInv, ScanInv, IndexInv, GateInv, Searches, Reading
<1>7. QED
  BY <1>3, <1>4, <1>5, <1>6 DEF IInv

LEMMA IndexSeenStep ==
  ASSUME IInv, IndexSeen, UNCHANGED <<test, line>>
  PROVE  IInv'
<1>1. /\ pc = "index" /\ pc' = (IF call = "scan" THEN "prep" ELSE "write") /\ lag' = 0 /\ count > 0
      /\ UNCHANGED <<call, id, data, gap3, seen, start, count, wait, result, warned, fmt, pos, marks,
                     content, mark, left, stop, begin>>
  BY DEF IndexSeen, Step, params, disk, write
<1>2. call \in {"scan", "track", "amiga_write"} /\ MaxLag \in Nat
  BY <1>1, PlaceIs, Numbers
<1>3. Program' /\ DataInv' /\ LayoutInv'
  BY <1>1, <1>2, PlacesAre, WithinCall DEF WholeTrack
<1>4. TypeOK' /\ ~warned'
  BY <1>1, <1>2 DEF IInv, TypeOK
<1>5. count = 1 /\ pos = lag /\ lag \in 0 .. MaxLag
  BY <1>1 DEF IInv, TypeOK, IndexInv
<1>6. ASSUME call = "scan" PROVE ScanInv'
  <2>1. seen = <<>> /\ ~Amiga
    BY <1>1, <1>6, InsideCall DEF IInv, SeenInv
  <2>2. Len(seen) = 0
    BY <2>1
  <2>3. \A m \in marks : m.kind = "id" => m.sector \in Nat /\ m.sector >= 1 /\ pos + MaxLag <= m.at
    BY <1>2, <1>5, <2>1, TrackFacts, Numbers DEF IInv, IbmFacts
  <2>4. QED
    BY <1>1, <1>2, <1>5, <1>6, <2>2, <2>3, Numbers DEF ScanInv, Reading
<1>7. call # "scan" => ScanInv'
  BY <1>1 DEF ScanInv
<1>8. IndexInv'
  BY <1>1, <1>2, <1>5 DEF IndexInv
<1>9. SeenInv' /\ ReadingInv' /\ SearchInv' /\ FollowInv' /\ GateInv'
  BY <1>1, <1>2 DEF IInv, SeenInv, ReadingInv, SearchInv, FollowInv, GateInv, Searches, Reading
<1>10. QED
  BY <1>3, <1>4, <1>6, <1>7, <1>8, <1>9 DEF IInv

\* A header is read without the index in between.
LEMMA NoWrap ==
  ASSUME IInv, NEW m \in marks, m.kind = "id", Distance(m.at, pos) <= HeaderLen + 3 * MaxLag
  PROVE  /\ ~Amiga /\ HeaderLen = HdrLen
         /\ pos = m.at + Distance(m.at, pos) /\ m.at + HdrLen + 3 * MaxLag < TrackLen
<1>1. ~Amiga
  BY TrackFacts DEF IInv, AmigaFacts
<1>2. HeaderLen = HdrLen
  BY <1>1 DEF HeaderLen, Amiga
<1>3. PICK n \in marks : n.kind = "data" /\ n.sector = m.sector
  BY <1>1, TrackFacts, MarkAt DEF IInv, IbmFacts
<1>4. m.at < n.at
  <2>1. m.sector \in Int
    BY MarkAt, Numbers DEF IInv
  <2>2. QED
    BY <1>1, <1>3, <2>1, TrackFacts DEF IInv, IbmFacts
<1>5. m.at + HdrLen + 3 * MaxLag <= n.at
  BY <1>2, <1>4, TrackFacts DEF IInv, Spaced
<1>6. m.at \in 0 .. TrackLen - 1 /\ n.at \in 0 .. TrackLen - 1 /\ pos \in 0 .. TrackLen - 1
  BY MarkAt DEF IInv, TypeOK
<1>7. Distance(m.at, pos) = IF m.at <= pos THEN pos - m.at ELSE pos - m.at + TrackLen
  BY <1>6, DistanceIs
<1>8. HdrLen \in Nat /\ MaxLag \in Nat /\ TrackLen \in Nat
  BY Numbers
<1>9. m.at + HdrLen + 3 * MaxLag < TrackLen
  BY <1>5, <1>6, <1>8
<1>10. Distance(m.at, pos) <= HdrLen + 3 * MaxLag
  BY <1>2
<1>11. pos = m.at + Distance(m.at, pos)
  <2> DEFINE a == m.at
             b == n.at
             d == Distance(m.at, pos)
  <2>1. /\ a \in Nat /\ b < TrackLen /\ pos \in Nat /\ b \in Nat
        /\ d = IF a <= pos THEN pos - a ELSE pos - a + TrackLen
        /\ d <= HdrLen + 3 * MaxLag /\ a + HdrLen + 3 * MaxLag <= b
    BY <1>5, <1>6, <1>7, <1>8, <1>10
  <2> HIDE DEF a, b, d
  <2>2. CASE a <= pos
    BY <2>1, <2>2 DEF a, d
  <2>3. CASE pos < a
    BY <1>8, <2>1, <2>3
  <2>4. QED
    BY <2>1, <2>2, <2>3
<1>12. QED
  BY <1>1, <1>2, <1>9, <1>11

LEMMA NoMarkType == NoMark \in MarkType
BY Numbers, SectorAssumption DEF NoMark, MarkType, Kinds, none

LEMMA GoneIs ==
  ASSUME TypeOK
  PROVE  Gone \in 0 .. TrackLen - 1
         /\ Gone = IF mark.at <= pos THEN pos - mark.at ELSE pos - mark.at + TrackLen
<1>1. mark.at \in 0 .. TrackLen - 1 /\ pos \in 0 .. TrackLen - 1
  BY DEF TypeOK, MarkType
<1>2. QED
  BY <1>1, DistanceIs DEF Gone

LEMMA HeaderLenIs ==
  HeaderLen \in Nat /\ HeaderLen > MaxLag /\ MaxLag \in Nat
BY Numbers, LagAssumption DEF HeaderLen

LEMMA SyncSeenStep ==
  ASSUME IInv, SyncSeen, UNCHANGED <<test, line>>
  PROVE  IInv'
<1>1. /\ pc = "mark" /\ pc' = "bytes" /\ lag' = 0 /\ start' = Distance(1, pos)
      /\ UNCHANGED <<call, id, data, gap3, seen, count, wait, result, warned, fmt, pos, marks,
                     content, mark, left, stop, begin>>
  BY DEF SyncSeen, Step, params, disk, write
<1>2. call \in Searches \cup {"scan"}
  BY <1>1, PlaceIs DEF Reading
<1>3. Program' /\ DataInv' /\ LayoutInv'
  BY <1>1, <1>2, PlacesAre, WithinCall DEF Searches
<1>4. /\ mark \in marks /\ Gone = 1 + lag /\ left = HeaderLen - Gone /\ lag \in 0 .. MaxLag
      /\ pos \in 0 .. TrackLen - 1 /\ TrackLen \in Nat
  BY <1>1, Numbers DEF IInv, TypeOK, ReadingInv, Reading
<1>5. start' \in Int
  <2>1. pos - 1 \in Int /\ TrackLen \in Nat /\ TrackLen > 0
    BY <1>4, Numbers
  <2>2. QED
    BY <1>1, <2>1 DEF Distance
<1>6. TypeOK' /\ ~warned'
  BY <1>1, <1>5, HeaderLenIs DEF IInv, TypeOK
<1>7. ASSUME mark.kind = "id" PROVE start' - mark.at \in 0 .. MaxLag
  <2>1. pos = mark.at + 1 + lag /\ mark.at \in 0 .. TrackLen - 1
    BY <1>4, <1>7, NoWrap, HeaderLenIs, MarkAt DEF Gone, IInv
  <2>2. 1 \in 0 .. TrackLen - 1 /\ 1 <= pos
    BY <1>4, <2>1
  <2>3. Distance(1, pos) = pos - 1
    BY <1>4, <2>2, DistanceIs
  <2>4. QED
    BY <1>1, <1>4, <2>1, <2>3
<1>8. ReadingInv'
  <2>1. left \in Nat /\ Gone = HeaderLen - left
    BY <1>4, HeaderLenIs
  <2>2. Gone' = Gone /\ HeaderLen' = HeaderLen
    BY <1>1 DEF Gone, HeaderLen
  <2>3. Gone = HeaderLen - left + (IF left = 0 THEN 0 ELSE 0)
    BY <2>1, HeaderLenIs
  <2>4. QED
    BY <1>1, <1>4, <1>7, <2>1, <2>2, <2>3 DEF ReadingInv
<1>9. SearchInv'
  BY <1>1 DEF IInv, SearchInv, Reading, Target, Amiga
<1>10. ScanInv' /\ SeenInv'
  BY <1>1 DEF IInv, ScanInv, SeenInv, Reading
<1>11. FollowInv' /\ IndexInv' /\ GateInv'
  BY <1>1, <1>2 DEF FollowInv, IndexInv, GateInv
<1>12. QED
  BY <1>3, <1>6, <1>8, <1>9, <1>10, <1>11 DEF IInv

LEMMA ReadEndsStep ==
  ASSUME IInv, ReadEnds, UNCHANGED <<test, line>>
  PROVE  IInv'
<1>1. /\ pc = "bytes" /\ pc' = "check" /\ lag' = 0 /\ left = 0
      /\ wait' = (IF call = "write" THEN Gap2 ELSE 0)
      /\ UNCHANGED <<call, id, data, gap3, seen, start, count, result, warned, fmt, pos, marks,
                     content, mark, left, stop, begin>>
  BY DEF ReadEnds, Step, params, disk, write
<1>2. call \in Searches \cup {"scan"}
  BY <1>1, PlaceIs DEF Reading
<1>3. Program' /\ DataInv' /\ LayoutInv'
  BY <1>1, <1>2, PlacesAre, WithinCall DEF Searches
<1>4. mark \in marks /\ Gone = HeaderLen + lag /\ lag \in 0 .. MaxLag
  BY <1>1, HeaderLenIs DEF IInv, TypeOK, ReadingInv, Reading
<1>5. TypeOK' /\ ~warned'
  BY <1>1, Numbers DEF IInv, TypeOK
<1>6. ReadingInv'
  <2>1. Gone' = Gone /\ HeaderLen' = HeaderLen
    BY <1>1 DEF Gone, HeaderLen
  <2>2. Gone - HeaderLen \in 0 .. MaxLag + 0
    BY <1>4, HeaderLenIs
  <2>3. mark.kind = "id" => start - mark.at \in 0 .. MaxLag
    BY <1>1 DEF IInv, ReadingInv, Reading
  <2>4. QED
    BY <1>1, <1>4, <2>1, <2>2, <2>3 DEF ReadingInv
<1>7. SearchInv'
  BY <1>1 DEF IInv, SearchInv, Reading, Target, Amiga
<1>8. ScanInv' /\ SeenInv'
  BY <1>1 DEF IInv, ScanInv, SeenInv, Reading
<1>9. FollowInv' /\ IndexInv' /\ GateInv'
  BY <1>1, <1>2, Numbers DEF FollowInv, IndexInv, GateInv
<1>10. QED
  BY <1>3, <1>5, <1>6, <1>7, <1>8, <1>9 DEF IInv

\* There is one header of a sector, and one last sector.
LEMMA OneTarget ==
  ASSUME IInv, NEW m \in marks, NEW n \in marks, Target(m), Target(n)
  PROVE  m = n
BY TrackFacts DEF IInv, Target, AmigaFacts, IbmFacts

\* After a mark that is not the one searched for, that one is still to come.
LEMMA SearchGoesOn ==
  ASSUME IInv, pc = "check", call \in Searches, ~Target(mark), count = 1, NEW m \in marks, Target(m)
  PROVE  pos + MaxLag <= m.at
<1>1. mark \in marks /\ Gone - HeaderLen \in lag .. MaxLag + lag
      /\ (pos >= mark.at => mark.at <= m.at)
  BY DEF IInv, ReadingInv, SearchInv, Reading
<1>2. /\ mark.at < m.at => mark.at + HeaderLen + 3 * MaxLag <= m.at
      /\ mark.at + HeaderLen + 3 * MaxLag <= m.at + TrackLen
      /\ mark.at # m.at
  BY <1>1, TrackFacts DEF IInv, Spaced
<1>3. /\ mark.at \in 0 .. TrackLen - 1 /\ m.at \in 0 .. TrackLen - 1 /\ pos \in 0 .. TrackLen - 1
      /\ lag \in 0 .. MaxLag
  BY <1>1, MarkAt DEF IInv, TypeOK
<1>4. Gone = IF mark.at <= pos THEN pos - mark.at ELSE pos - mark.at + TrackLen
  BY GoneIs DEF IInv
<1>5. MaxLag \in Nat /\ HeaderLen \in Nat /\ TrackLen \in Nat
  BY HeaderLenIs, Numbers
<1>6. Gone <= HeaderLen + 2 * MaxLag
  BY <1>1, <1>3, <1>4, <1>5
<1>7. CASE mark.at <= pos
  BY <1>1, <1>2, <1>3, <1>4, <1>5, <1>6, <1>7
<1>8. CASE ~(mark.at <= pos)
  BY <1>2, <1>3, <1>4, <1>5, <1>6, <1>8
<1>9. QED
  BY <1>7, <1>8

LEMMA CheckStep ==
  ASSUME IInv, SearchCheck \/ LastSectorCheck, UNCHANGED <<test, line>>
  PROVE  IInv'
<1>1. /\ pc = "check" /\ lag' = 0 /\ mark' = NoMark /\ start' = 0 /\ call \in Searches
      /\ pc' = (IF ~Target(mark) THEN "search" ELSE IF call = "write" THEN "delay" ELSE "data")
      /\ UNCHANGED <<call, id, data, gap3, seen, count, wait, result, warned, fmt, pos, marks,
                     content, left, stop, begin>>
  <2>1. CASE SearchCheck
    BY <2>1, InsideCall DEF SearchCheck, Checked, Step, params, disk, write, Target, Wanted, Ibm,
                            Amiga, Searches
  <2>2. CASE LastSectorCheck
    <3>1. pc = "check" /\ Amiga /\ mark.sector \in Int /\ NrSectors \in Int
      BY <2>2, Numbers DEF LastSectorCheck, Checked, Step, IInv, TypeOK, MarkType
    <3>2. LastSector(mark) <=> Target(mark)
      BY <3>1 DEF LastSector, togo, Target
    <3>3. call \in Searches /\ call # "write"
      BY <3>1, PlaceIs, InsideCall DEF Searches, Reading
    <3>4. QED
      BY <2>2, <3>2, <3>3 DEF LastSectorCheck, Checked, Step, params, disk, write
  <2>3. QED
    BY <2>1, <2>2
<1>2. Program' /\ DataInv' /\ LayoutInv'
  BY <1>1, PlacesAre, WithinCall DEF Searches
<1>3. TypeOK' /\ ~warned'
  BY <1>1, NoMarkType, Numbers DEF IInv, TypeOK
<1>4. mark \in marks /\ Gone - HeaderLen \in lag .. MaxLag + lag /\ lag \in 0 .. MaxLag
      /\ MaxLag \in Nat /\ HeaderLen \in Nat /\ Gone \in Nat
  BY <1>1, GoneIs, HeaderLenIs, Numbers DEF IInv, TypeOK, ReadingInv, Reading
<1>5. SearchInv'
  <2>1. CASE ~Target(mark)
    <3>1. pc' = "search" /\ count < 2
      BY <1>1, <2>1 DEF IInv, SearchInv, Reading
    <3>2. count = 1 => \A m \in marks : Target(m) => pos + (MaxLag - 0) <= m.at
      BY <1>1, <2>1, <1>4, SearchGoesOn
    <3>3. QED
      BY <1>1, <3>1, <3>2 DEF SearchInv, Reading, Target, Amiga
  <2>2. CASE Target(mark)
    BY <1>1, <2>2 DEF SearchInv, Reading
  <2>3. QED
    BY <2>1, <2>2
<1>6. FollowInv'
  <2>1. CASE pc' = "data"
    <3>1. Target(mark)
      BY <1>1, <2>1
    <3>2. SUFFICES ASSUME NEW m \in marks, Target(m)
                   PROVE  Distance(m.at, pos) - HeaderLen \in 0 .. 2 * MaxLag + 0
      BY <1>1, <2>1 DEF FollowInv, Target, NextData, Amiga, HeaderLen, Distance
    <3>3. m = mark
      BY <1>4, <3>1, <3>2, OneTarget
    <3>4. QED
      BY <1>4, <3>3 DEF Gone
  <2>2. CASE pc' # "data"
    BY <1>1, <2>2 DEF FollowInv
  <2>3. QED
    BY <2>1, <2>2
<1>7. GateInv'
  <2>1. CASE pc' = "delay"
    <3>1. Target(mark) /\ call = "write"
      BY <1>1, <2>1
    <3>2. ~Amiga /\ mark.kind = "id"
      BY <1>1, <3>1, InsideCall DEF Target
    <3>3. Gone <= HeaderLen + 3 * MaxLag
      BY <1>4
    <3>4. pos = mark.at + Gone /\ HeaderLen = HdrLen
      BY <1>4, <3>2, <3>3, NoWrap DEF Gone
    <3>5. wait = Gap2 - lag
      BY <1>1, <3>1 DEF IInv, GateInv
    <3>6. mark.at \in Nat /\ HdrLen \in Nat /\ Gap2 \in Nat /\ HdrLen > 0
      BY <1>4, MarkAt, Numbers DEF IInv
    <3>7. pos > mark.at /\ pos + wait - (mark.at + HdrLen + Gap2) \in 0 .. MaxLag
      BY <1>4, <3>4, <3>5, <3>6
    <3>8. \A m \in marks : Target(m) => m = mark
      BY <1>4, <3>1, OneTarget
    <3>9. MaxLag + (IF wait = 0 THEN 0 ELSE 0) = MaxLag
      BY <1>4
    <3>10. QED
      BY <1>1, <2>1, <3>7, <3>8, <3>9 DEF GateInv, Target, Amiga
  <2>2. CASE pc' # "delay"
    BY <1>1, <2>2 DEF GateInv
  <2>3. QED
    BY <2>1, <2>2
<1>8. SeenInv' /\ ReadingInv' /\ ScanInv' /\ IndexInv'
  BY <1>1 DEF IInv, SeenInv, ReadingInv, ScanInv, IndexInv, Searches, Reading
<1>9. QED
  BY <1>2, <1>3, <1>5, <1>6, <1>7, <1>8 DEF IInv

\* The scan invariant before the next wait.
LEMMA ScanIs ==
  ASSUME call' = "scan", pc' = "prep", count' = 1, lag' = 0, marks' = marks, pos' = pos,
         Len(seen') <= NrSectors,
         \A i \in 1 .. Len(seen') : seen'[i].sector = i,
         \A m \in marks : m.kind = "id" /\ m.sector <= Len(seen')
                            => seen'[m.sector].start - m.at \in 0 .. MaxLag,
         \A m \in marks : m.kind = "id" =>
            IF m.sector <= Len(seen') THEN m.at < pos ELSE pos + (MaxLag - 0) <= m.at
  PROVE  ScanInv'
BY DEF ScanInv, Reading

\* A scan goes on in this revolution: the header read is the next one.
LEMMA ScanGoesOnStep ==
  ASSUME IInv, ScanGoesOn, UNCHANGED <<test, line>>
  PROVE  IInv'
<1>1. /\ pc = "check" /\ pc' = "prep" /\ lag' = 0 /\ mark' = NoMark /\ start' = 0
      /\ call = "scan" /\ count = 1
      /\ seen' = (IF mark.kind = "id" /\ Len(seen) < MaxInfo
                  THEN Append(seen, [sector |-> mark.sector, start |-> start]) ELSE seen)
      /\ UNCHANGED <<call, id, data, gap3, count, wait, result, warned, fmt, pos, marks,
                     content, left, stop, begin>>
  BY DEF ScanGoesOn, ThisRevolution, Checked, Step, params, disk, write
<1>2. Program' /\ DataInv' /\ LayoutInv'
  BY <1>1, PlacesAre, WithinCall
<1>3. /\ mark \in marks /\ Gone - HeaderLen \in lag .. MaxLag + lag /\ lag \in 0 .. MaxLag
      /\ MaxLag \in Nat /\ HeaderLen \in Nat /\ Gone \in Nat
      /\ (mark.kind = "id" => start - mark.at \in 0 .. MaxLag)
  BY <1>1, GoneIs, HeaderLenIs, Numbers DEF IInv, TypeOK, ReadingInv, Reading
<1>4. /\ seen \in Seq([sector : Sectors, start : Int]) /\ Len(seen) \in Nat /\ Len(seen) <= NrSectors
      /\ \A i \in 1 .. Len(seen) : seen[i].sector = i
      /\ \A m \in marks : m.kind = "id" /\ m.sector <= Len(seen)
                             => seen[m.sector].start - m.at \in 0 .. MaxLag
      /\ \A m \in marks : m.kind = "id" => /\ mark.at < pos
                                           /\ m.sector <= Len(seen) <=> m.at < mark.at
  BY <1>1 DEF IInv, TypeOK, ScanInv, Reading
<1>5. ~Amiga /\ IbmFacts /\ Spaced
  BY <1>1, InsideCall, TrackFacts DEF IInv
<1>6. mark.kind \in {"id", "data"} /\ mark.sector \in Sectors /\ mark.at \in 0 .. TrackLen - 1
      /\ pos \in 0 .. TrackLen - 1 /\ start \in Int /\ Sectors = 1 .. NrSectors /\ NrSectors \in Nat
      /\ mark.sector \in Nat
  BY <1>3, <1>5, MarkAt, Numbers DEF IInv, TypeOK, IbmFacts
<1>7. mark.at < pos
  <2>1. PICK m \in marks : m.kind = "id"
    BY <1>5, <1>6 DEF IbmFacts
  <2>2. QED
    BY <1>4, <2>1
<1>8. pos = mark.at + Gone
  BY <1>6, <1>7, GoneIs DEF IInv
<1> DEFINE k == Len(seen)
\* what has passed when the disk comes to this place
<1>9. ASSUME NEW m \in marks, mark.at < m.at PROVE pos + MaxLag <= m.at
  <2>1. mark.at + HeaderLen + 3 * MaxLag <= m.at
    BY <1>3, <1>5, <1>9 DEF Spaced
  <2>2. m.at \in Int
    BY MarkAt DEF IInv
  <2>3. /\ MaxLag \in Nat /\ HeaderLen \in Nat /\ Gone \in Nat /\ Gone <= HeaderLen + 2 * MaxLag
        /\ mark.at \in Nat
    BY <1>3, <1>6
  <2> DEFINE a == m.at
             b == mark.at
             h == HeaderLen
             g == Gone
  <2> HIDE DEF a, b, h, g
  <2>4. b + g + MaxLag <= a
    <3>1. /\ MaxLag \in Nat /\ h \in Nat /\ g \in Nat /\ g <= h + 2 * MaxLag
          /\ b \in Nat /\ a \in Int /\ b + h + 3 * MaxLag <= a
      BY <2>1, <2>2, <2>3 DEF a, b, h, g
    <3>2. QED
      BY <3>1
  <2>5. QED
    BY <1>8, <2>4 DEF a, b, g
<1>10. ASSUME NEW m \in marks PROVE m.at \in Int /\ m.sector \in Nat /\ m.sector \in 1 .. NrSectors
  BY <1>6, MarkAt DEF IInv
<1>11. ASSUME mark.kind = "id"
       PROVE  /\ mark.sector = k + 1 /\ seen' = Append(seen, [sector |-> mark.sector, start |-> start])
              /\ Len(seen') = k + 1 /\ seen'[k + 1] = [sector |-> mark.sector, start |-> start]
              /\ \A i \in 1 .. k : seen'[i] = seen[i]
              /\ seen' \in Seq([sector : Sectors, start : Int])
  <2>1. ~(mark.sector <= k)
    <3>1. mark.sector <= Len(seen) <=> mark.at < mark.at
      BY <1>3, <1>4, <1>11
    <3>2. QED
      BY <1>6, <3>1
  <2>2. k < NrSectors
    BY <1>4, <1>6, <2>1
  <2>3. PICK m \in marks : m.kind = "id" /\ m.sector = k + 1
    <3>1. k + 1 \in Sectors
      BY <1>4, <1>6, <2>2
    <3>2. QED
      BY <1>5, <3>1 DEF IbmFacts
  <2>4. ~(m.at < mark.at)
    BY <1>4, <2>3
  <2>5. mark.sector = k + 1
    <3>1. mark.sector > k + 1 => m.at < mark.at
      <4>1. (m.sector < mark.sector) => m.at < mark.at
        BY <1>3, <1>5, <1>11, <2>3 DEF IbmFacts
      <4>2. QED
        BY <1>4, <1>6, <2>3, <4>1
    <3>2. QED
      BY <1>4, <1>6, <2>1, <2>4, <3>1
  <2>6. k < MaxInfo
    BY <1>4, <1>6, <2>2, InfoAssumption
  <2>7. seen' = Append(seen, [sector |-> mark.sector, start |-> start])
    BY <1>1, <1>11, <2>6
  <2>8. [sector |-> mark.sector, start |-> start] \in [sector : Sectors, start : Int]
    BY <1>6
  <2>9. QED
    BY <1>4, <2>5, <2>7, <2>8
<1>12. mark.kind = "data" => seen' = seen
  BY <1>1
<1>13. TypeOK' /\ ~warned'
  <2>1. seen' \in Seq([sector : Sectors, start : Int])
    BY <1>4, <1>6, <1>11, <1>12
  <2>2. QED
    BY <1>1, <2>1, NoMarkType, HeaderLenIs DEF IInv, TypeOK
<1>14. ScanInv'
  <2>1. CASE mark.kind = "id"
    <3>1. k + 1 <= NrSectors /\ Len(seen') = k + 1
      BY <1>6, <1>11, <2>1
    <3>2. \A i \in 1 .. Len(seen') : seen'[i].sector = i
      BY <1>4, <1>11, <2>1
    <3>3. ASSUME NEW m \in marks, m.kind = "id", m.sector <= Len(seen')
          PROVE  seen'[m.sector].start - m.at \in 0 .. MaxLag
      <4>1. CASE m.sector = k + 1
        <5>1. m = mark
          BY <1>3, <1>5, <1>11, <2>1, <3>3, <4>1 DEF IbmFacts
        <5>2. QED
          BY <1>3, <1>11, <2>1, <4>1, <5>1
      <4>2. CASE m.sector # k + 1
        <5>1. m.sector <= k /\ m.sector \in 1 .. k
          BY <1>4, <1>10, <3>1, <3>3, <4>2
        <5>2. QED
          BY <1>4, <1>11, <2>1, <3>3, <5>1
      <4>3. QED
        BY <4>1, <4>2
    <3>4. ASSUME NEW m \in marks, m.kind = "id"
          PROVE  IF m.sector <= Len(seen') THEN m.at < pos ELSE pos + (MaxLag - 0) <= m.at
      <4>1. m.sector < mark.sector => m.at < mark.at
        BY <1>3, <1>5, <2>1, <3>4 DEF IbmFacts
      <4>2. mark.sector < m.sector => mark.at < m.at
        BY <1>3, <1>5, <2>1, <3>4 DEF IbmFacts
      <4>3. m.sector = mark.sector => m = mark
        BY <1>3, <1>5, <2>1, <3>4 DEF IbmFacts
      <4>4. m.at < mark.at => m.at < pos
        BY <1>6, <1>7, <1>10
      <4>5. mark.at < m.at => pos + MaxLag <= m.at
        BY <1>9
      <4>6. m.sector < mark.sector \/ m.sector = mark.sector \/ mark.sector < m.sector
        BY <1>6, <1>10
      <4>7. m.sector <= Len(seen') <=> m.sector < mark.sector \/ m.sector = mark.sector
        BY <1>6, <1>10, <1>11, <2>1
      <4>8. QED
        BY <1>3, <1>7, <4>1, <4>2, <4>3, <4>4, <4>5, <4>6, <4>7
    <3>5. Len(seen') <= NrSectors
      BY <3>1
    <3>6. QED
      BY <1>1, <3>2, <3>3, <3>4, <3>5, ScanIs
  <2>2. CASE mark.kind = "data"
    <3>1. ASSUME NEW m \in marks, m.kind = "id"
          PROVE  IF m.sector <= Len(seen) THEN m.at < pos ELSE pos + (MaxLag - 0) <= m.at
      <4>1. m.at = mark.at => m = mark
        BY <1>3, <1>5 DEF Spaced
      <4>2. m.at # mark.at
        BY <2>2, <3>1, <4>1
      <4>3. m.at < mark.at => m.at < pos
        BY <1>6, <1>7, <1>10
      <4>4. mark.at < m.at => pos + MaxLag <= m.at
        BY <1>9
      <4>5. m.at < mark.at \/ mark.at < m.at
        BY <1>6, <1>10, <4>2
      <4>6. m.sector <= Len(seen) <=> m.at < mark.at
        BY <1>4, <3>1
      <4>7. m.at < mark.at => ~(mark.at < m.at)
        BY <1>6, <1>10
      <4>8. QED
        BY <1>3, <4>3, <4>4, <4>5, <4>6, <4>7
    <3>2. QED
      BY <1>1, <1>4, <1>12, <2>2, <3>1 DEF ScanInv, Reading
  <2>3. QED
    BY <1>6, <2>1, <2>2
<1>15. SeenInv' /\ ReadingInv' /\ SearchInv' /\ FollowInv' /\ IndexInv' /\ GateInv'
  BY <1>1 DEF SeenInv, ReadingInv, SearchInv, FollowInv, IndexInv, GateInv, Searches, Reading
<1>16. QED
  BY <1>2, <1>13, <1>14, <1>15 DEF IInv

\* The gap measured between the first two headers.
LEMMA GapIs ==
  ASSUME IInv, call = "scan", pc # "index", Len(seen) >= 2
  PROVE  Gap3Of(seen) \in Gap3 - MaxLag .. Gap3 + MaxLag
<1>1. ~Amiga /\ IbmFacts
  <2>1. pc # "idle"
    BY DEF IInv, Program, Places, none
  <2>2. QED
    BY <2>1, InsideCall, TrackFacts DEF IInv
<1>2. /\ Len(seen) <= NrSectors /\ Len(seen) \in Nat /\ NrSectors \in Nat
      /\ \A m \in marks : m.kind = "id" /\ m.sector <= Len(seen)
                             => seen[m.sector].start - m.at \in 0 .. MaxLag
  BY Numbers DEF IInv, TypeOK, ScanInv
<1>3. 1 \in Sectors /\ 2 \in Sectors
  BY <1>2, Numbers
<1>4. PICK m \in marks : m.kind = "id" /\ m.sector = 1
  BY <1>1, <1>3 DEF IbmFacts
<1>5. PICK n \in marks : n.kind = "id" /\ n.sector = 2
  BY <1>1, <1>3 DEF IbmFacts
<1>6. n.sector = m.sector + 1
  BY <1>4, <1>5
<1>7. n.at = m.at + SecLen
  BY <1>1, <1>4, <1>5, <1>6 DEF IbmFacts
<1>8. seen[1].start - m.at \in 0 .. MaxLag /\ seen[2].start - n.at \in 0 .. MaxLag
  BY <1>2, <1>4, <1>5
<1>9. seen[1].start \in Int /\ seen[2].start \in Int
  <2>1. 1 \in 1 .. Len(seen) /\ 2 \in 1 .. Len(seen)
    BY <1>2
  <2>2. seen \in Seq([sector : Sectors, start : Int])
    BY DEF IInv, TypeOK
  <2>3. ASSUME NEW S, NEW q \in Seq(S), NEW i \in 1 .. Len(q) PROVE q[i] \in S
    OBVIOUS
  <2>4. seen[1] \in [sector : Sectors, start : Int]
    BY <2>1, <2>2, <2>3
  <2>5. seen[2] \in [sector : Sectors, start : Int]
    BY <2>1, <2>2, <2>3
  <2>6. QED
    BY <2>4, <2>5
<1>10. m.at \in Int /\ MaxLag \in Nat
  BY MarkAt, Numbers DEF IInv
<1> DEFINE a == seen[1].start
           b == seen[2].start
           g == m.at
<1>11. Gap3Of(seen) = b - a - (GapSync + HdrLen + Gap2) - (GapSync + DatLen)
  BY DEF Gap3Of
<1>12. a \in Int /\ b \in Int /\ g \in Int /\ a - g \in 0 .. MaxLag /\ b - (g + SecLen) \in 0 .. MaxLag
  BY <1>7, <1>8, <1>9, <1>10
<1> HIDE DEF a, b, g
<1>13. QED
  BY <1>10, <1>11, <1>12, Numbers

LEMMA ScanEndsStep ==
  ASSUME IInv, ScanEnds, UNCHANGED <<test, line>>
  PROVE  IInv'
<1>1. /\ pc = "check" /\ pc' = "returned" /\ lag' = 0 /\ mark' = NoMark /\ start' = 0
      /\ call = "scan" /\ count # 1
      /\ warned' = (warned \/ (Len(seen) >= 2 /\ Gap3Of(seen) < 0))
      /\ UNCHANGED <<call, id, data, gap3, seen, count, wait, result, fmt, pos, marks,
                     content, left, stop, begin>>
  BY DEF ScanEnds, ThisRevolution, Checked, Step, params, disk, write
<1>2. Program' /\ DataInv' /\ LayoutInv'
  BY <1>1, PlacesAre, WithinCall DEF Writes
<1>3. TypeOK'
  BY <1>1, NoMarkType, HeaderLenIs, Numbers DEF IInv, TypeOK
<1>4. ~warned'
  <2>1. Len(seen) >= 2 => Gap3Of(seen) \in Gap3 - MaxLag .. Gap3 + MaxLag
    BY <1>1, GapIs
  <2>2. Gap3 - MaxLag >= 0 /\ MaxLag \in Nat /\ Gap3 \in Nat
    BY LagAssumption, Numbers
  <2>3. Len(seen) >= 2 => ~(Gap3Of(seen) < 0)
    BY <2>1, <2>2
  <2>4. QED
    BY <1>1, <2>3 DEF IInv, TypeOK
<1>5. ScanInv'
  <2>1. count = 2 /\ Len(seen) = NrSectors
    BY <1>1 DEF IInv, ScanInv
  <2>2. QED
    BY <1>1, <2>1 DEF IInv, ScanInv, Reading
<1>6. SeenInv' /\ ReadingInv' /\ SearchInv' /\ FollowInv' /\ IndexInv' /\ GateInv'
  BY <1>1 DEF SeenInv, ReadingInv, SearchInv, FollowInv, IndexInv, GateInv, Searches, Reading
<1>7. QED
  BY <1>2, <1>3, <1>4, <1>5, <1>6 DEF IInv

\* What is read back is what was written.
LEMMA ReadBack ==
  ASSUME IInv, call \in {"read", "amiga_read"}
  PROVE  \A s \in DOMAIN data : content[s] = data[s]
<1>1. test # <<>> /\ call = test[line + 1]
  BY DEF IInv, Program, none
<1>2. line > WriteLine
  BY <1>1, CallIs DEF IInv
<1>3. QED
  BY <1>1, <1>2 DEF IInv, DataInv

\* A read that has returned.
LEMMA ReadReturns ==
  ASSUME IInv, call \in {"read", "amiga_read"}, pc = "databytes", pc' = "returned", lag' = 0,
         result' = data, warned' = FALSE, UNCHANGED <<test, line>>,
         UNCHANGED <<call, id, data, gap3, seen, start, count, wait, fmt, pos, marks,
                     content, mark, left, stop, begin>>
  PROVE  IInv'
<1>1. Program' /\ DataInv' /\ LayoutInv'
  BY PlacesAre, WithinCall DEF Writes
<1>2. TypeOK' /\ ~warned'
  <2>1. MaxLag \in Nat /\ 0 \in 0 .. MaxLag
    BY Numbers
  <2>2. TypeOK'
    BY <2>1, Zenon DEF IInv, TypeOK
  <2>3. QED
    BY <2>2
<1>3. FollowInv'
  BY DEF FollowInv
<1>4. SeenInv' /\ ReadingInv' /\ SearchInv' /\ ScanInv' /\ IndexInv' /\ GateInv'
  BY DEF IInv, SeenInv, ReadingInv, SearchInv, ScanInv, IndexInv, GateInv, Searches, Reading
<1>5. QED
  BY <1>1, <1>2, <1>3, <1>4 DEF IInv

LEMMA DataEndsStep ==
  ASSUME IInv, DataEnds, UNCHANGED <<test, line>>
  PROVE  IInv'
<1>1. /\ pc = "databytes" /\ pc' = "returned" /\ lag' = 0 /\ ~Amiga
      /\ warned' = (warned \/ mark.kind # "data")
      /\ result' = [s \in {id} |-> mark.value]
      /\ UNCHANGED <<call, id, data, gap3, seen, start, count, wait, fmt, pos, marks,
                     content, mark, left, stop, begin>>
  BY DEF DataEnds, Step, params, disk, write, Ibm, Amiga
<1>2. call \in {"read", "amiga_read"} /\ test # <<>>
  BY <1>1, PlaceIs, InsideCall
<1>3. mark \in marks /\ mark.kind = "data" /\ mark.sector = id
  BY <1>1 DEF IInv, FollowInv, NextData
<1>4. mark.value = content[id]
  BY <1>1, <1>3, TrackFacts DEF IInv, IbmFacts
<1>5. data \in [{id} -> Values]
  BY <1>1, <1>2 DEF IInv, DataInv
<1>6. content[id] = data[id]
  BY <1>2, <1>5, ReadBack
<1>7. result' = data
  BY <1>1, <1>4, <1>5, <1>6
<1>8. warned' = FALSE
  BY <1>1, <1>3 DEF IInv, TypeOK
<1>9. QED
  BY <1>1, <1>2, <1>7, <1>8, ReadReturns

\* The sectors of an Amiga track are found at their distances from the first.
LEMMA FoundIs ==
  ASSUME IInv, Amiga, mark \in marks, mark.sector = 1, NEW m \in marks
  PROVE  m.sector - 1 \in 0 .. NrSectors - 1 /\ Found(m.sector - 1) = {m}
<1>1. m.sector \in 1 .. NrSectors /\ NrSectors \in Nat /\ AmigaLen \in Nat /\ TrackLen \in Nat
  BY MarkAt, Numbers DEF IInv
<1>2. m.at = mark.at + (m.sector - 1) * AmigaLen /\ m.at \in 0 .. TrackLen - 1
  BY TrackFacts, MarkAt DEF IInv, AmigaFacts
<1>3. m.at % TrackLen = m.at
  BY <1>1, <1>2
<1>4. \A n \in marks : n.at = m.at => n = m
  BY TrackFacts DEF IInv, Spaced
<1>5. Found(m.sector - 1) = {n \in marks : n.at = m.at}
  BY <1>2, <1>3 DEF Found
<1>6. QED
  BY <1>1, <1>4, <1>5

LEMMA TrackEndsStep ==
  ASSUME IInv, TrackEnds, UNCHANGED <<test, line>>
  PROVE  IInv'
<1> DEFINE I == 0 .. NrSectors - 1
           all == UNION {Found(i) : i \in I}
<1>1. /\ pc = "databytes" /\ pc' = "returned" /\ lag' = 0 /\ Amiga
      /\ warned' = (warned \/ \E i \in I : {m \in Found(i) : togo(m) = NrSectors - i} = {})
      /\ result' = [s \in {m.sector : m \in all} |-> (CHOOSE m \in all : m.sector = s).value]
      /\ UNCHANGED <<call, id, data, gap3, seen, start, count, wait, fmt, pos, marks,
                     content, mark, left, stop, begin>>
  BY DEF TrackEnds, Step, params, disk, write
<1>2. call \in {"read", "amiga_read"} /\ test # <<>>
  BY <1>1, PlaceIs, InsideCall
<1>3. mark \in marks /\ mark.sector = 1 /\ AmigaFacts
  BY <1>1, TrackFacts DEF IInv, FollowInv, NextData
<1>4. Sectors = 1 .. NrSectors /\ NrSectors \in Nat
  BY Numbers
<1>5. all = marks
  <2>1. \A m \in marks : m \in all
    BY <1>1, <1>3, FoundIs
  <2>2. all \subseteq marks
    BY DEF Found
  <2>3. QED
    BY <2>1, <2>2
<1>6. \A m \in marks : m.sector \in Sectors /\ m.value = content[m.sector]
  BY <1>3 DEF AmigaFacts
<1>7. \A s \in Sectors : \E m \in marks : m.sector = s
  BY <1>3 DEF AmigaFacts
<1>8. {m.sector : m \in all} = Sectors
  <2> HIDE DEF all
  <2>1. QED
    BY <1>5, <1>6, <1>7
<1>9. ASSUME NEW s \in Sectors
      PROVE  (CHOOSE m \in all : m.sector = s).value = content[s]
  <2> HIDE DEF all
  <2>1. \E m \in all : m.sector = s
    BY <1>5, <1>7
  <2>2. (CHOOSE m \in all : m.sector = s) \in all /\ (CHOOSE m \in all : m.sector = s).sector = s
    BY <2>1
  <2>3. QED
    BY <1>5, <1>6, <2>2
<1>10. data \in [Sectors -> Values]
  BY <1>1, <1>2 DEF IInv, DataInv
<1>11. \A s \in Sectors : content[s] = data[s]
  BY <1>2, <1>10, ReadBack
<1>12. ASSUME NEW i \in I PROVE {m \in Found(i) : togo(m) = NrSectors - i} # {}
  <2>1. i + 1 \in Sectors /\ i \in Nat
    BY <1>4
  <2>2. PICK m \in marks : m.sector = i + 1
    BY <1>7, <2>1
  <2>3. m.sector - 1 = i
    BY <2>1, <2>2
  <2>4. Found(i) = {m}
    BY <1>1, <1>3, <2>3, FoundIs
  <2>5. togo(m) = NrSectors - i
    BY <1>4, <2>1, <2>2 DEF togo
  <2>6. QED
    BY <2>4, <2>5
<1> HIDE DEF all
<1>13. result' = data
  <2> DEFINE value(s) == (CHOOSE m \in all : m.sector = s).value
  <2>1. result' = [s \in Sectors |-> content[s]]
    <3>1. result' = [s \in Sectors |-> value(s)]
      BY <1>1, <1>8
    <3>2. \A s \in Sectors : value(s) = content[s]
      BY <1>9
    <3> HIDE DEF value
    <3>3. QED
      BY <3>1, <3>2
  <2>2. QED
    BY <1>10, <1>11, <2>1
<1>14. warned' = FALSE
  BY <1>1, <1>12 DEF IInv, TypeOK
<1>15. QED
  BY <1>1, <1>2, <1>13, <1>14, ReadReturns

(***************************************************************************)
(* Writing.                                                                *)
(***************************************************************************)
\* where the fields of a track end that is written from o on
LEMMA WrittenPlaces ==
  ASSUME NEW o \in Late, NEW s \in Sectors
  PROVE  LET W == 2 * EdgeGap + NrSectors * SecLen
         IN  /\ W \in Nat /\ W <= TrackLen
             /\ DataAt(o, s) + DatLen + Gap3 + EdgeGap <= o + W
             /\ AmigaAt(o, s) + InfoLen + BodyLen + 2 * MaxLag <= o + TrackLen
             /\ AmigaAt(o, s) >= o + TrackGap + SecGap
<1> DEFINE B == (s - 1) * SecLen
           C == (s - 1) * AmigaLen
           E == NrSectors * SecLen
           F == NrSectors * AmigaLen
<1>1. B \in Nat /\ B + SecLen <= E /\ C \in Nat /\ C + AmigaLen <= F
  BY Numbers, InOrder
<1>2. E \in Nat /\ F \in Nat
  <2>1. ASSUME NEW n \in Nat, NEW w \in Nat PROVE n * w \in Nat
    OBVIOUS
  <2>2. QED
    BY <2>1, Numbers
<1>3. 2 * EdgeGap + E <= TrackLen /\ TrackGap + F + 2 * MaxLag <= TrackLen
  BY LayoutAssumption
<1>4. /\ DataAt(o, s) = o + EdgeGap + B + GapSync + HdrLen + Gap2 + GapSync
      /\ AmigaAt(o, s) = o + TrackGap + C + SecGap
  BY DEF DataAt, HeaderAt, AmigaAt
<1> SUFFICES /\ 2 * EdgeGap + E \in Nat /\ 2 * EdgeGap + E <= TrackLen
             /\ DataAt(o, s) + DatLen + Gap3 + EdgeGap <= o + (2 * EdgeGap + E)
             /\ AmigaAt(o, s) + InfoLen + BodyLen + 2 * MaxLag <= o + TrackLen
             /\ AmigaAt(o, s) >= o + TrackGap + SecGap
  OBVIOUS
<1> HIDE DEF B, C, E, F
<1>5. QED
  BY <1>1, <1>2, <1>3, <1>4, Numbers

LEMMA WriteLenIs ==
  ASSUME TypeOK, call \in Writes
  PROVE  /\ WriteLen \in Nat
         /\ call = "write" => WriteLen = GapSync + DatLen + gap3
         /\ call = "track" => WriteLen = 2 * EdgeGap + NrSectors * SecLen
         /\ call = "amiga_write" => WriteLen = WholeLen
<1>1. 2 * EdgeGap + NrSectors * SecLen \in Nat
  <2>1. 0 \in Late /\ 1 \in Sectors
    BY Numbers
  <2>2. QED
    BY <2>1, WrittenPlaces
<1>2. gap3 \in Nat
  BY Numbers DEF TypeOK
<1>3. GapSync + DatLen + gap3 \in Nat /\ WholeLen \in Nat
  BY <1>2, Numbers
<1>4. CASE call = "write"
  <2>1. WriteLen = GapSync + DatLen + gap3
    BY <1>4 DEF WriteLen
  <2>2. QED
    BY <1>3, <1>4, <2>1, Zenon
<1>5. CASE call = "track"
  <2>1. WriteLen = 2 * EdgeGap + NrSectors * SecLen
    BY <1>5 DEF WriteLen
  <2>2. QED
    BY <1>1, <1>5, <2>1, Zenon
<1>6. CASE call = "amiga_write"
  <2>1. WriteLen = WholeLen
    BY <1>6 DEF WriteLen
  <2>2. QED
    BY <1>3, <1>6, <2>1, Zenon
<1>7. QED
  BY <1>4, <1>5, <1>6 DEF Writes

LEMMA OpenGateStep ==
  ASSUME IInv, OpenGate, UNCHANGED <<test, line>>
  PROVE  IInv'
<1>1. /\ pc \in {"delay", "write"} /\ pc' = "writing" /\ lag' = 0 /\ wait = 0
      /\ begin' = pos /\ left' = WriteLen /\ stop' = count + 1
      /\ UNCHANGED <<call, id, data, gap3, seen, start, count, wait, result, warned, fmt, pos, marks,
                     content, mark>>
  BY DEF OpenGate, Step, params, disk
<1>2. /\ pc = "delay" => call = "write"
      /\ pc = "write" => call \in WholeTrack
      /\ call \in Writes
  BY <1>1, PlaceIs DEF WholeTrack, Writes
<1>3. Program' /\ DataInv' /\ LayoutInv'
  BY <1>1, <1>2, PlacesAre, WithinCall
<1>4. /\ WriteLen \in Nat /\ WriteLen' = WriteLen /\ MaxLag \in Nat /\ pos \in 0 .. TrackLen - 1
      /\ lag \in 0 .. MaxLag /\ TrackLen \in Nat /\ HdrLen \in Nat /\ Gap2 \in Nat
  BY <1>1, <1>2, WriteLenIs, Numbers DEF IInv, TypeOK, WriteLen
<1>5. TypeOK' /\ ~warned'
  <2>1. left' \in Int /\ stop' \in Int /\ 0 \in 0 .. MaxLag
    BY <1>1, <1>4 DEF IInv, TypeOK
  <2>2. QED
    BY <1>1, <1>4, <2>1 DEF IInv, TypeOK
<1>6. GateInv'
  <2>1. ASSUME call = "write", NEW m \in marks, Target(m)
        PROVE  begin' - (m.at + HdrLen + Gap2) \in Late
    <3>1. pc = "delay" /\ m.at \in Nat
      BY <1>1, <1>2, <2>1, MarkAt DEF IInv, WholeTrack
    <3>2. pos + wait - (m.at + HdrLen + Gap2) \in 0 .. MaxLag + (IF wait = 0 THEN lag ELSE 0)
      BY <2>1, <3>1 DEF IInv, GateInv
    <3>3. pos - (m.at + HdrLen + Gap2) \in 0 .. 2 * MaxLag
      BY <1>1, <1>4, <3>1, <3>2
    <3>4. QED
      BY <1>1, <3>3, Numbers
  <2>2. ASSUME call \in WholeTrack
        PROVE  /\ begin' \in Late /\ stop' = 2 /\ count = 1
               /\ begin' + (WriteLen - left') = pos
    <3>1. count = 1 /\ pos <= MaxLag + lag
      BY <1>1, <1>2, <2>2 DEF IInv, IndexInv, WholeTrack
    <3>2. pos \in 0 .. 2 * MaxLag
      BY <1>4, <3>1
    <3>3. pos + (WriteLen - WriteLen) = pos
      BY <1>4
    <3>4. QED
      BY <1>1, <3>1, <3>2, <3>3, Numbers
  <2>3. left' >= 0
    BY <1>1, <1>4
  <2>4. \A m \in marks : Target(m)' <=> Target(m)
    BY <1>1 DEF Target, Amiga
  <2>5. CASE call = "write"
    <3>1. call \notin WholeTrack
      BY <2>5 DEF WholeTrack
    <3>2. QED
      BY <1>1, <2>1, <2>3, <2>5, <3>1 DEF GateInv, Target, Amiga
  <2>6. CASE call \in WholeTrack
    <3>1. call # "write"
      BY <2>6 DEF WholeTrack
    <3>2. left' >= -lag'
      BY <1>1, <2>3
    <3>3. count' = 1 /\ 1 \in 1 .. 2
      BY <1>1, <2>2, <2>6
    <3>4. QED
      BY <1>1, <1>4, <2>2, <2>6, <3>1, <3>2, <3>3 DEF GateInv
  <2>7. QED
    BY <1>2, <2>5, <2>6 DEF Writes, WholeTrack
<1>7. SeenInv' /\ ReadingInv' /\ SearchInv' /\ ScanInv' /\ FollowInv' /\ IndexInv'
  BY <1>1, <1>2 DEF IInv, SeenInv, ReadingInv, SearchInv, ScanInv, FollowInv, IndexInv, Searches,
                    Reading, Writes
<1>8. QED
  BY <1>3, <1>5, <1>6, <1>7 DEF IInv

\* A data field that is written replaces the one that was there.
LEMMA DataReplaced ==
  ASSUME IInv, pc = "writing", call = "write", WriteOver,
         NEW o \in Late, NEW d \in [Sectors -> Late], marks = IbmMarks(o, d, content), ~Amiga
  PROVE  \E e \in Late :
           /\ Written = {[at |-> DataAt(o, id) + e, kind |-> "data", sector |-> id,
                          value |-> data[id]]}
           /\ Overwritten = {[at |-> DataAt(o, id) + d[id], kind |-> "data", sector |-> id,
                              value |-> content[id]]}
<1> DEFINE H(s) == HeaderAt(o, s)
           D(s) == DataAt(o, s)
           e == begin - (H(id) + HdrLen + Gap2)
           n == WriteLen - left
           new == [at |-> D(id) + e, kind |-> "data", sector |-> id, value |-> data[id]]
           old == [at |-> D(id) + d[id], kind |-> "data", sector |-> id, value |-> content[id]]
           head == [at |-> H(id), kind |-> "id", sector |-> id, value |-> Filler]
<1>0. /\ MaxLag \in Nat /\ HdrLen \in Nat /\ Gap2 \in Nat /\ GapSync \in Nat /\ SecLen \in Nat
      /\ EdgeGap \in Nat /\ TrackLen \in Nat /\ DatLen \in Nat /\ Gap3 \in Nat /\ gap3 \in 0 .. Gap3
      /\ 3 * MaxLag <= GapSync /\ 2 * MaxLag <= EdgeGap /\ 2 * MaxLag < DatLen
      /\ SecLen = 2 * GapSync + HdrLen + Gap2 + DatLen + Gap3 /\ Late = 0 .. 2 * MaxLag
      /\ begin \in 0 .. TrackLen - 1 /\ left \in Int /\ lag \in 0 .. MaxLag
      /\ o \in 0 .. 2 * MaxLag /\ HdrLen > 0
  BY Numbers, LagAssumption DEF IInv, TypeOK
<1>a. id \in Sectors /\ \A s \in Sectors : s \in Nat /\ d[s] \in 0 .. 2 * MaxLag
  BY Numbers DEF IInv, TypeOK
<1>1. head \in marks /\ old \in marks
  BY <1>a, IbmMember
<1>2. e \in 0 .. 2 * MaxLag
  <2>1. Target(head)
    BY DEF Target
  <2>2. begin - (head.at + HdrLen + Gap2) \in Late
    BY <1>1, <2>1 DEF IInv, GateInv
  <2>3. QED
    BY <1>0, <2>2
<1>3. n \in GapSync + DatLen .. GapSync + DatLen + Gap3 + MaxLag
  <2>1. left <= 0 /\ left >= -lag
    BY DEF WriteOver, IInv, GateInv
  <2>2. WriteLen = GapSync + DatLen + gap3
    BY WriteLenIs DEF Writes, IInv
  <2>3. QED
    BY <1>0, <2>1, <2>2
<1>4. ASSUME NEW s \in Sectors
      PROVE  /\ H(s) \in Nat /\ D(s) \in Nat /\ D(s) = H(s) + HdrLen + Gap2 + GapSync
             /\ H(s) >= EdgeGap + GapSync + o
             /\ D(s) + DatLen + Gap3 + EdgeGap <= TrackLen + o
             /\ \A x \in Late : D(s) + x < TrackLen
             /\ s < id => H(s) + SecLen <= H(id)
             /\ id < s => H(id) + SecLen <= H(s)
  <2>1. 0 \in Late
    BY <1>0
  <2>3. /\ H(s) \in Nat /\ D(s) = H(s) + HdrLen + Gap2 + GapSync /\ H(s) >= EdgeGap + GapSync + o
        /\ D(s) + DatLen + Gap3 + EdgeGap <= TrackLen + o
    BY <2>1, FieldPlaces
  <2>4. (s < id => H(s) + SecLen <= H(id)) /\ (id < s => H(id) + SecLen <= H(s))
    BY <1>a, <2>1, SectorsFollow
  <2>5. \A x \in Late : D(s) + x < TrackLen
    BY FieldPlaces
  <2>6. D(s) \in Nat
    <3>1. ASSUME NEW h \in Nat PROVE h + HdrLen + Gap2 + GapSync \in Nat
      BY <1>0
    <3>2. QED
      BY <2>3, <3>1
  <2>7. QED
    BY <2>3, <2>4, <2>5, <2>6
<1>5. begin = H(id) + HdrLen + Gap2 + e /\ D(id) = H(id) + HdrLen + Gap2 + GapSync
  <2>1. H(id) \in Nat /\ D(id) = H(id) + HdrLen + Gap2 + GapSync
    BY <1>a, <1>4
  <2>2. QED
    BY <1>0, <2>1
<1>6. Written = {new}
  <2>1. begin + GapSync = D(id) + e /\ D(id) + e \in 0 .. TrackLen - 1
    <3> DEFINE h == H(id)
               t == D(id)
    <3>1. h \in Nat /\ t \in Nat /\ t + e < TrackLen
      BY <1>0, <1>a, <1>2, <1>4
    <3>2. begin = h + HdrLen + Gap2 + e /\ t = h + HdrLen + Gap2 + GapSync
      BY <1>5
    <3>3. begin + GapSync = t + e /\ t + e \in 0 .. TrackLen - 1
      <4> HIDE DEF h, t, e
      <4>1. QED
        BY <1>0, <1>2, <3>1, <3>2
    <3>4. QED
      BY <3>3
  <2>2. Mark(begin + GapSync, "data", id, data[id]) = new
    BY <2>1, MarkIs
  <2>3. Written = {m \in {new} : /\ Distance(begin, m.at) + FieldLen(m) <= n
                                 /\ Distance(begin, m.at) >= n - TrackLen}
    BY <2>2 DEF Written
  <2>4. Distance(begin, new.at) = GapSync
    <3>1. new.at = begin + GapSync /\ new.at \in 0 .. TrackLen - 1
      BY <2>1
    <3>2. QED
      BY <1>0, <3>1, DistanceIs
  <2>5. FieldLen(new) = DatLen
    BY DEF FieldLen
  <2>6. GapSync + DatLen <= n /\ GapSync >= n - TrackLen
    <3>1. DatLen + Gap3 + MaxLag <= TrackLen
      <4> DEFINE h == H(id)
                 t == D(id)
      <4>1. h \in Nat /\ t \in Nat /\ t + DatLen + Gap3 + EdgeGap <= TrackLen + o
            /\ h >= EdgeGap + GapSync + o /\ t = h + HdrLen + Gap2 + GapSync
        BY <1>a, <1>4, <1>5
      <4> HIDE DEF h, t
      <4>2. QED
        BY <1>0, <4>1
    <3> HIDE DEF n
    <3>2. QED
      BY <1>0, <1>3, <3>1
  <2>7. QED
    BY <2>3, <2>4, <2>5, <2>6
<1>7. Overwritten = {m \in marks : Distance(begin, m.at) < n \/ Distance(m.at, begin) < FieldLen(m)}
  BY DEF Overwritten
<1>8. Distance(begin, old.at) < n
  <2> DEFINE a == D(id) + d[id]
  <2>1. a = begin + GapSync + d[id] - e /\ d[id] \in 0 .. 2 * MaxLag /\ a \in 0 .. TrackLen - 1
    <3> DEFINE h == H(id)
               t == D(id)
               x == d[id]
    <3>1. h \in Nat /\ t \in Nat /\ t + x < TrackLen /\ x \in 0 .. 2 * MaxLag
      BY <1>0, <1>a, <1>4
    <3>2. begin = h + HdrLen + Gap2 + e /\ t = h + HdrLen + Gap2 + GapSync
      BY <1>5
    <3>3. t + x = begin + GapSync + x - e /\ t + x \in 0 .. TrackLen - 1
      <4> HIDE DEF h, t, e, x
      <4>1. QED
        BY <1>0, <1>2, <3>1, <3>2
    <3>4. QED
      BY <3>1, <3>3
  <2>2. Distance(begin, a) = IF begin <= a THEN a - begin ELSE a - begin + TrackLen
    BY <1>0, <2>1, DistanceIs
  <2>3. Distance(begin, a) < n
    <3> HIDE DEF n, e, H, D, a
    <3>1. QED
      BY <1>0, <1>2, <1>3, <2>1, <2>2
  <2>4. QED
    BY <2>3
<1>9. ASSUME NEW m \in marks, m # old
      PROVE  ~(Distance(begin, m.at) < n) /\ ~(Distance(m.at, begin) < FieldLen(m))
  <2>1. PICK s \in Sectors :
          \/ m = [at |-> H(s), kind |-> "id", sector |-> s, value |-> Filler]
          \/ m = [at |-> D(s) + d[s], kind |-> "data", sector |-> s, value |-> content[s]]
    BY IbmMember
  <2>2. /\ FieldLen(m) \in Nat /\ m.at \in 0 .. TrackLen - 1
        /\ \/ m.at = H(s) /\ FieldLen(m) = HdrLen
           \/ m.at = D(s) + d[s] /\ FieldLen(m) = DatLen /\ s # id
    <3>1. m.at \in 0 .. TrackLen - 1
      BY MarkAt DEF IInv
    <3>2. CASE m = [at |-> H(s), kind |-> "id", sector |-> s, value |-> Filler]
      BY <1>0, <3>1, <3>2 DEF FieldLen
    <3>3. CASE m = [at |-> D(s) + d[s], kind |-> "data", sector |-> s, value |-> content[s]]
      <4>1. s # id
        BY <1>9, <3>3
      <4>2. QED
        BY <1>0, <3>1, <3>3, <4>1 DEF FieldLen
    <3>4. QED
      BY <2>1, <3>2, <3>3
  <2>3. /\ Distance(begin, m.at) = IF begin <= m.at THEN m.at - begin ELSE m.at - begin + TrackLen
        /\ Distance(m.at, begin) = IF m.at <= begin THEN begin - m.at ELSE begin - m.at + TrackLen
    BY <1>0, <2>2, DistanceIs
  <2>4. /\ H(s) \in Nat /\ D(s) \in Nat /\ D(s) = H(s) + HdrLen + Gap2 + GapSync
        /\ H(s) >= EdgeGap + GapSync + o
        /\ D(s) + DatLen + Gap3 + EdgeGap <= TrackLen + o
        /\ s < id => H(s) + SecLen <= H(id)
        /\ id < s => H(id) + SecLen <= H(s)
        /\ s \in Nat /\ id \in Nat /\ d[s] \in 0 .. 2 * MaxLag
    BY <1>a, <1>4
  <2>5. H(id) \in Nat /\ D(id) \in Nat /\ D(id) + DatLen + Gap3 + EdgeGap <= TrackLen + o
        /\ H(id) >= EdgeGap + GapSync + o /\ (s = id => H(s) = H(id))
    BY <1>a, <1>4
  <2> DEFINE at == m.at
             len == FieldLen(m)
             ds == d[s]
             Hs == H(s)
             Ds == D(s)
             Hi == H(id)
             Di == D(id)
             x == Distance(begin, m.at)
             y == Distance(m.at, begin)
  <2>6. /\ len \in Nat /\ at \in 0 .. TrackLen - 1
        /\ (at = Hs /\ len = HdrLen) \/ (at = Ds + ds /\ len = DatLen /\ s # id)
        /\ x = (IF begin <= at THEN at - begin ELSE at - begin + TrackLen)
        /\ y = (IF at <= begin THEN begin - at ELSE begin - at + TrackLen)
        /\ Hs \in Nat /\ Ds \in Nat /\ Ds = Hs + HdrLen + Gap2 + GapSync
        /\ Hs >= EdgeGap + GapSync + o
        /\ Ds + DatLen + Gap3 + EdgeGap <= TrackLen + o
        /\ s < id => Hs + SecLen <= Hi
        /\ id < s => Hi + SecLen <= Hs
        /\ s \in Nat /\ id \in Nat /\ ds \in 0 .. 2 * MaxLag
        /\ Hi \in Nat /\ Di \in Nat /\ Di + DatLen + Gap3 + EdgeGap <= TrackLen + o
        /\ Hi >= EdgeGap + GapSync + o /\ (s = id => Hs = Hi)
        /\ begin = Hi + HdrLen + Gap2 + e /\ Di = Hi + HdrLen + Gap2 + GapSync
    BY <1>5, <2>2, <2>3, <2>4, <2>5
  <2>7. ~(x < n) /\ ~(y < len)
    <3> HIDE DEF at, len, ds, Hs, Ds, Hi, Di, x, y, n, e, H, D
    <3>1. CASE s = id
      BY <1>0, <1>2, <1>3, <2>6, <3>1
    <3>2. CASE s < id
      BY <1>0, <1>2, <1>3, <2>6, <3>2
    <3>3. CASE id < s
      BY <1>0, <1>2, <1>3, <2>6, <3>3
    <3>4. QED
      BY <2>6, <3>1, <3>2, <3>3
  <2>8. QED
    BY <2>7
<1>10. Overwritten = {old}
  <2> HIDE DEF old, n
  <2>1. QED
    BY <1>1, <1>7, <1>8, <1>9
<1>11. QED
  BY <1>0, <1>2, <1>6, <1>10

\* How long a whole track is written: from its begin to the end of the data, or
\* to the index, which may be noticed late.
LEMMA WholeTrackLen ==
  ASSUME IInv, pc = "writing", call \in WholeTrack, WriteOver
  PROVE  /\ WriteLen - left \in Int /\ begin \in 0 .. 2 * MaxLag
         /\ \/ WriteLen - left >= WriteLen /\ WriteLen - left <= WriteLen + MaxLag
            \/ WriteLen - left = pos + TrackLen - begin /\ pos \in 0 .. MaxLag
         /\ call = "amiga_write" => WriteLen - left = pos + TrackLen - begin /\ pos \in 0 .. MaxLag
<1>1. /\ begin \in Late /\ stop = 2 /\ count \in 1 .. 2 /\ left >= -lag
      /\ begin + (WriteLen - left) = IF count = 1 THEN pos ELSE pos + TrackLen
      /\ count = 2 => pos <= lag
      /\ left <= 0 \/ count = 2
  BY DEF IInv, GateInv, WriteOver, WholeTrack
<1>2. /\ WriteLen \in Nat /\ left \in Int /\ lag \in 0 .. MaxLag /\ MaxLag \in Nat
      /\ pos \in 0 .. TrackLen - 1 /\ TrackLen \in Nat /\ Late = 0 .. 2 * MaxLag
      /\ (call = "amiga_write" => WriteLen = WholeLen /\ WholeLen > TrackLen + MaxLag)
      /\ WholeLen \in Nat
  <2>1. call \in Writes
    BY DEF WholeTrack, Writes
  <2>2. WholeLen > TrackLen + MaxLag
    BY LayoutAssumption
  <2>3. QED
    BY <2>1, <2>2, WriteLenIs, Numbers DEF IInv, TypeOK
<1>3. QED
  BY <1>1, <1>2

LEMMA TrackReplaced ==
  ASSUME IInv, pc = "writing", call = "track", WriteOver
  PROVE  Written = IbmLayout(begin, Blank) /\ Overwritten = marks
<1> DEFINE W == 2 * EdgeGap + NrSectors * SecLen
           n == WriteLen - left
<1>1. ~Amiga
  BY InsideCall DEF IInv
<1>2. PICK o \in Late, d \in [Sectors -> Late] : marks = IbmMarks(o, d, content)
  BY <1>1 DEF IInv, LayoutInv
<1>3. /\ MaxLag \in Nat /\ HdrLen \in Nat /\ Gap2 \in Nat /\ GapSync \in Nat /\ EdgeGap \in Nat
      /\ TrackLen \in Nat /\ DatLen \in Nat /\ Gap3 \in Nat /\ HdrLen > 0 /\ Gap3 > 0
      /\ 3 * MaxLag <= GapSync /\ 2 * MaxLag <= EdgeGap /\ 2 * MaxLag < DatLen
      /\ pos \in 0 .. TrackLen - 1 /\ o \in 0 .. 2 * MaxLag /\ Late = 0 .. 2 * MaxLag
  BY Numbers, LagAssumption DEF IInv, TypeOK
<1>4. W \in Nat /\ W <= TrackLen
  <2>1. 1 \in Sectors
    BY Numbers
  <2>2. QED
    BY <2>1, WrittenPlaces
<1>5. /\ n \in Int /\ begin \in 0 .. 2 * MaxLag
      /\ \/ n >= W /\ n <= W + MaxLag
         \/ n = pos + TrackLen - begin /\ pos \in 0 .. MaxLag
  <2>1. WriteLen = W
    BY WriteLenIs DEF IInv, Writes
  <2>2. QED
    BY <2>1, WholeTrackLen DEF WholeTrack
<1>6. ASSUME NEW b \in Late, NEW s \in Sectors
      PROVE  /\ HeaderAt(b, s) \in Nat /\ DataAt(b, s) = HeaderAt(b, s) + HdrLen + Gap2 + GapSync
             /\ HeaderAt(b, s) >= EdgeGap + GapSync + b
             /\ DataAt(b, s) + DatLen + Gap3 + EdgeGap <= b + W
  <2>1. 0 \in Late
    BY <1>3
  <2>2. QED
    BY <2>1, FieldPlaces, WrittenPlaces
<1>7. ASSUME NEW m \in IbmLayout(begin, Blank)
      PROVE  Distance(begin, m.at) + FieldLen(m) <= n /\ Distance(begin, m.at) >= n - TrackLen
  <2>1. PICK s \in Sectors : \/ m = Mark(HeaderAt(begin, s), "id", s, Filler)
                             \/ m = Mark(DataAt(begin, s), "data", s, Blank[s])
    BY DEF IbmLayout
  <2> DEFINE h == HeaderAt(begin, s)
             t == DataAt(begin, s)
  <2>2. /\ h \in Nat /\ t = h + HdrLen + Gap2 + GapSync /\ h >= EdgeGap + GapSync + begin
        /\ t + DatLen + Gap3 + EdgeGap <= begin + W
    BY <1>3, <1>5, <1>6
  <2>3. h \in 0 .. TrackLen - 1 /\ t \in 0 .. TrackLen - 1 /\ begin \in 0 .. TrackLen - 1
    <3> HIDE DEF h, t, W
    <3>1. QED
      BY <1>3, <1>4, <1>5, <2>2
  <2>4. \/ m.at = h /\ FieldLen(m) = HdrLen
        \/ m.at = t /\ FieldLen(m) = DatLen
    BY <2>1, <2>3, MarkIs DEF FieldLen
  <2>5. /\ Distance(begin, h) = IF begin <= h THEN h - begin ELSE h - begin + TrackLen
        /\ Distance(begin, t) = IF begin <= t THEN t - begin ELSE t - begin + TrackLen
    BY <2>3, DistanceIs
  <2>6. /\ Distance(begin, h) + HdrLen <= n /\ Distance(begin, h) >= n - TrackLen
        /\ Distance(begin, t) + DatLen <= n /\ Distance(begin, t) >= n - TrackLen
    <3> HIDE DEF h, t, W, n
    <3>1. begin <= h /\ begin <= t
      BY <1>3, <1>5, <2>2
    <3>2. Distance(begin, h) = h - begin /\ Distance(begin, t) = t - begin
      BY <2>5, <3>1
    <3>3. QED
      BY <1>3, <1>4, <1>5, <2>2, <3>2
  <2>7. QED
    BY <2>4, <2>6
<1>8. ASSUME NEW m \in marks PROVE Distance(begin, m.at) < n
  <2>1. PICK s \in Sectors :
          \/ m = [at |-> HeaderAt(o, s), kind |-> "id", sector |-> s, value |-> Filler]
          \/ m = [at |-> DataAt(o, s) + d[s], kind |-> "data", sector |-> s, value |-> content[s]]
    BY <1>2, IbmMember
  <2> DEFINE h == HeaderAt(o, s)
             t == DataAt(o, s)
             x == d[s]
             at == m.at
  <2>2. /\ h \in Nat /\ t = h + HdrLen + Gap2 + GapSync /\ h >= EdgeGap + GapSync + o
        /\ t + DatLen + Gap3 + EdgeGap <= o + W /\ x \in 0 .. 2 * MaxLag
        /\ at = h \/ at = t + x
    BY <1>3, <1>6, <2>1
  <2>3. at \in 0 .. TrackLen - 1 /\ begin \in 0 .. TrackLen - 1
    BY MarkAt DEF IInv, TypeOK
  <2>4. Distance(begin, at) = IF begin <= at THEN at - begin ELSE at - begin + TrackLen
    BY <2>3, DistanceIs
  <2>5. Distance(begin, at) < n
    <3> HIDE DEF h, t, x, at, n, W
    <3>1. QED
      BY <1>3, <1>4, <1>5, <2>2, <2>3, <2>4
  <2>6. QED
    BY <2>5
<1>9. Written = {m \in IbmLayout(begin, Blank) : /\ Distance(begin, m.at) + FieldLen(m) <= n
                                                 /\ Distance(begin, m.at) >= n - TrackLen}
  BY DEF Written
<1>10. Overwritten = {m \in marks : Distance(begin, m.at) < n \/ Distance(m.at, begin) < FieldLen(m)}
  BY DEF Overwritten
<1> HIDE DEF n
<1>11. QED
  BY <1>7, <1>8, <1>9, <1>10

LEMMA AmigaReplaced ==
  ASSUME IInv, pc = "writing", call = "amiga_write", WriteOver
  PROVE  Written = AmigaLayout(begin, data) /\ Overwritten = marks
<1> DEFINE n == WriteLen - left
<1>1. Amiga
  BY InsideCall DEF IInv
<1>2. /\ MaxLag \in Nat /\ SecGap \in Nat /\ InfoLen \in Nat /\ BodyLen \in Nat /\ TrackLen \in Nat
      /\ TrackGap \in Nat /\ 2 * MaxLag <= TrackGap
      /\ pos \in 0 .. TrackLen - 1 /\ Late = 0 .. 2 * MaxLag
  BY Numbers, LagAssumption DEF IInv, TypeOK
<1>3. n = pos + TrackLen - begin /\ pos \in 0 .. MaxLag /\ begin \in 0 .. 2 * MaxLag
  BY WholeTrackLen DEF WholeTrack
<1>4. ASSUME NEW m \in AmigaLayout(begin, data)
      PROVE  Distance(begin, m.at) + FieldLen(m) <= n /\ Distance(begin, m.at) >= n - TrackLen
  <2>1. PICK s \in Sectors : m = Mark(AmigaAt(begin, s), "sector", s, data[s])
    BY DEF AmigaLayout
  <2> DEFINE a == AmigaAt(begin, s)
  <2>2. /\ a \in Nat /\ a >= begin + TrackGap + SecGap
        /\ a + InfoLen + BodyLen + 2 * MaxLag <= begin + TrackLen
        /\ a + InfoLen + BodyLen <= TrackLen /\ InfoLen > 0
    BY <1>2, <1>3, WrittenPlaces, AmigaPlaces, Numbers
  <2>3. a \in 0 .. TrackLen - 1 /\ begin \in 0 .. TrackLen - 1 /\ begin <= a
    <3> HIDE DEF a
    <3>1. QED
      BY <1>2, <1>3, <2>2
  <2>4. m.at = a /\ FieldLen(m) = InfoLen + BodyLen
    BY <2>1, <2>3, MarkIs DEF FieldLen
  <2>5. Distance(begin, a) = a - begin
    BY <2>3, DistanceIs
  <2>6. a - begin + (InfoLen + BodyLen) <= n /\ a - begin >= n - TrackLen
    <3> HIDE DEF a, n
    <3>1. QED
      BY <1>2, <1>3, <2>2
  <2>7. QED
    BY <2>4, <2>5, <2>6
<1>5. ASSUME NEW m \in marks PROVE Distance(begin, m.at) < n
  <2> DEFINE at == m.at
  <2>1. at \in 2 * MaxLag .. TrackLen - 1
    BY <1>1, TrackFacts DEF IInv, AmigaFacts
  <2>2. at \in 0 .. TrackLen - 1 /\ begin \in 0 .. TrackLen - 1
    BY MarkAt DEF IInv, TypeOK
  <2>3. Distance(begin, at) = IF begin <= at THEN at - begin ELSE at - begin + TrackLen
    BY <2>2, DistanceIs
  <2>4. Distance(begin, at) < n
    <3> HIDE DEF at, n
    <3>1. QED
      BY <1>2, <1>3, <2>1, <2>3
  <2>5. QED
    BY <2>4
<1>6. Written = {m \in AmigaLayout(begin, data) : /\ Distance(begin, m.at) + FieldLen(m) <= n
                                                  /\ Distance(begin, m.at) >= n - TrackLen}
  BY DEF Written
<1>7. Overwritten = {m \in marks : Distance(begin, m.at) < n \/ Distance(m.at, begin) < FieldLen(m)}
  BY DEF Overwritten
<1> HIDE DEF n
<1>8. QED
  BY <1>4, <1>5, <1>6, <1>7

LEMMA IbmType ==
  ASSUME NEW o \in Late, NEW d \in [Sectors -> Late], NEW v \in [Sectors -> Values]
  PROVE  IbmMarks(o, d, v) \subseteq MarkType
<1> SUFFICES ASSUME NEW m \in IbmMarks(o, d, v) PROVE m \in MarkType
  OBVIOUS
<1>1. PICK s \in Sectors :
        \/ m = [at |-> HeaderAt(o, s), kind |-> "id", sector |-> s, value |-> Filler]
        \/ m = [at |-> DataAt(o, s) + d[s], kind |-> "data", sector |-> s, value |-> v[s]]
  BY IbmMember
<1>2. HeaderAt(o, s) \in 0 .. TrackLen - 1 /\ DataAt(o, s) + d[s] \in 0 .. TrackLen - 1
  <2> DEFINE h == HeaderAt(o, s)
             t == DataAt(o, s)
             x == d[s]
  <2>1. h \in Nat /\ t + x \in Nat /\ t = h + HdrLen + Gap2 + GapSync /\ t + x < TrackLen
        /\ x \in 0 .. 2 * MaxLag
    BY FieldPlaces, Numbers
  <2> HIDE DEF h, t, x
  <2>2. h \in 0 .. TrackLen - 1 /\ t + x \in 0 .. TrackLen - 1
    BY <2>1, Numbers
  <2>3. QED
    BY <2>2 DEF h, t, x
<1>3. Filler \in Values /\ v[s] \in Values
  BY SectorAssumption
<1>4. QED
  BY <1>1, <1>2, <1>3 DEF MarkType, Kinds

LEMMA AmigaType ==
  ASSUME NEW o \in Late, NEW v \in [Sectors -> Values]
  PROVE  AmigaLayout(o, v) \subseteq MarkType
<1> SUFFICES ASSUME NEW m \in AmigaLayout(o, v) PROVE m \in MarkType
  OBVIOUS
<1>1. PICK s \in Sectors :
        m = [at |-> AmigaAt(o, s), kind |-> "sector", sector |-> s, value |-> v[s]]
  BY AmigaMarks DEF AmigaMember
<1>2. AmigaAt(o, s) \in 0 .. TrackLen - 1
  <2>1. AmigaAt(o, s) \in Nat /\ AmigaAt(o, s) + InfoLen + BodyLen <= TrackLen
    BY AmigaPlaces
  <2>2. QED
    BY <2>1, Numbers
<1>3. QED
  BY <1>1, <1>2 DEF MarkType, Kinds

\* A track is formatted with no field late.
LEMMA Formatted ==
  ASSUME NEW o \in Late, NEW v
  PROVE  IbmLayout(o, v) = IbmMarks(o, [s \in Sectors |-> 0], v)
         /\ [s \in Sectors |-> 0] \in [Sectors -> Late]
<1>1. 0 \in Late
  BY Numbers
<1>2. ASSUME NEW s \in Sectors PROVE DataAt(o, s) + [t \in Sectors |-> 0][s] = DataAt(o, s)
  <2>1. DataAt(o, s) + 0 \in Nat /\ HeaderAt(o, s) \in Nat
        /\ DataAt(o, s) = HeaderAt(o, s) + HdrLen + Gap2 + GapSync
    BY <1>1, FieldPlaces
  <2>2. ASSUME NEW h \in Nat PROVE h + HdrLen + Gap2 + GapSync \in Nat
    BY Numbers
  <2>3. DataAt(o, s) \in Nat
    BY <2>1, <2>2
  <2>4. QED
    BY <2>3
<1>3. {Mark(DataAt(o, s) + [t \in Sectors |-> 0][s], "data", s, v[s]) : s \in Sectors}
         = {Mark(DataAt(o, s), "data", s, v[s]) : s \in Sectors}
  BY <1>2
<1>4. QED
  BY <1>1, <1>3 DEF IbmLayout, IbmMarks

LEMMA CloseGateStep ==
  ASSUME IInv, CloseGate, UNCHANGED <<test, line>>
  PROVE  IInv'
<1>1. /\ pc = "writing" /\ pc' = "returned" /\ lag' = 0 /\ WriteOver
      /\ marks' = (marks \ Overwritten) \cup Written
      /\ content' = (IF call = "track" THEN Blank
                     ELSE [s \in Sectors |-> IF s \in DOMAIN data THEN data[s] ELSE content[s]])
      /\ UNCHANGED <<call, id, data, gap3, seen, start, count, wait, result, warned, fmt, pos,
                     mark, left, stop, begin>>
  BY DEF CloseGate, Step, params, write
<1>2. /\ call \in Writes /\ test # <<>> /\ call = test[line + 1]
      /\ (call \in {"amiga_read", "amiga_write"} <=> Amiga)
  BY <1>1, PlaceIs, InsideCall
<1>3. Filler \in Values /\ content \in [Sectors -> Values] /\ id \in Sectors /\ MaxLag \in Nat
  BY SectorAssumption, Numbers DEF IInv, TypeOK
<1>4. data \in IF Amiga THEN [Sectors -> Values] ELSE [{id} -> Values]
  BY <1>2 DEF IInv, DataInv
<1>5. content' \in [Sectors -> Values]
  BY <1>1, <1>3, <1>4 DEF Blank
<1>6. call # "track" => \A s \in DOMAIN data : content'[s] = data[s]
  BY <1>1, <1>3, <1>4
<1>7. /\ ~Amiga => \E o \in Late, d \in [Sectors -> Late] : marks' = IbmMarks(o, d, content')
      /\ Amiga => \E o \in Late : marks' = AmigaLayout(o, content')
  <2>1. CASE call = "write"
    <3>1. ~Amiga
      BY <1>2, <2>1
    <3>2. PICK o \in Late, d \in [Sectors -> Late] : marks = IbmMarks(o, d, content)
      BY <3>1 DEF IInv, LayoutInv
    <3>3. PICK e \in Late :
            /\ Written = {[at |-> DataAt(o, id) + e, kind |-> "data", sector |-> id,
                           value |-> data[id]]}
            /\ Overwritten = {[at |-> DataAt(o, id) + d[id], kind |-> "data", sector |-> id,
                               value |-> content[id]]}
      BY <1>1, <2>1, <3>1, <3>2, DataReplaced
    <3>4. DOMAIN data = {id}
      BY <1>4, <3>1
    <3>5. content' = [content EXCEPT ![id] = data[id]]
      BY <1>1, <1>3, <2>1, <3>4
    <3> DEFINE c == [d EXCEPT ![id] = e]
    <3>6. c \in [Sectors -> Late]
      OBVIOUS
    <3>7. ASSUME NEW m PROVE m \in marks' <=> m \in IbmMarks(o, c, content')
      <4>1. m \in marks' <=>
              \/ /\ \E s \in Sectors :
                      \/ m = [at |-> HeaderAt(o, s), kind |-> "id", sector |-> s, value |-> Filler]
                      \/ m = [at |-> DataAt(o, s) + d[s], kind |-> "data", sector |-> s,
                              value |-> content[s]]
                 /\ m # [at |-> DataAt(o, id) + d[id], kind |-> "data", sector |-> id,
                         value |-> content[id]]
              \/ m = [at |-> DataAt(o, id) + e, kind |-> "data", sector |-> id, value |-> data[id]]
        BY <1>1, <3>2, <3>3, IbmMember
      <4>2. m \in IbmMarks(o, c, content') <=>
              \E s \in Sectors :
                \/ m = [at |-> HeaderAt(o, s), kind |-> "id", sector |-> s, value |-> Filler]
                \/ m = [at |-> DataAt(o, s) + c[s], kind |-> "data", sector |-> s,
                        value |-> content'[s]]
        <5> HIDE DEF c
        <5>1. \A v : m \in IbmMarks(o, c, v) <=>
                \E s \in Sectors :
                  \/ m = [at |-> HeaderAt(o, s), kind |-> "id", sector |-> s, value |-> Filler]
                  \/ m = [at |-> DataAt(o, s) + c[s], kind |-> "data", sector |-> s, value |-> v[s]]
          BY <3>6, IbmMember
        <5>2. QED
          BY <5>1
      <4>3. c[id] = e /\ content'[id] = data[id]
            /\ \A s \in Sectors \ {id} : c[s] = d[s] /\ content'[s] = content[s]
        BY <1>3, <3>5
      <4> HIDE DEF c
      <4>4. QED
        BY <1>3, <4>1, <4>2, <4>3
    <3>8. marks' = IbmMarks(o, c, content')
      BY <3>7
    <3>9. QED
      BY <3>1, <3>6, <3>8
  <2>2. CASE call = "track"
    <3>1. ~Amiga /\ begin \in Late /\ content' = Blank
      BY <1>1, <1>2, <2>2 DEF IInv, GateInv, WholeTrack
    <3>2. marks' = IbmLayout(begin, Blank)
      BY <1>1, <2>2, TrackReplaced
    <3>3. QED
      BY <3>1, <3>2, Formatted
  <2>3. CASE call = "amiga_write"
    <3>1. Amiga /\ begin \in Late
      BY <1>1, <1>2, <2>3 DEF IInv, GateInv, WholeTrack
    <3>2. marks' = AmigaLayout(begin, data)
      BY <1>1, <2>3, AmigaReplaced
    <3>3. content' = data
      BY <1>1, <1>4, <2>3, <3>1
    <3>4. QED
      BY <3>1, <3>2, <3>3
  <2>4. QED
    BY <1>2, <2>1, <2>2, <2>3 DEF Writes
<1>8. LayoutInv'
  BY <1>1, <1>7 DEF LayoutInv, Amiga
<1>9. marks' \subseteq MarkType
  BY <1>5, <1>7, IbmType, AmigaType
<1>10. TypeOK' /\ ~warned'
  <2>1. 0 \in 0 .. MaxLag
    BY <1>3
  <2>2. QED
    BY <1>1, <1>5, <1>9, <2>1 DEF IInv, TypeOK
<1>11. Program'
  <2>1. pc' \in Places(call)
    BY <1>1, <1>2, PlacesAre DEF Writes, WholeTrack
  <2>2. QED
    BY <1>1, <1>2, <2>1 DEF IInv, Program, TestsOf, Places, Waits
<1>12. DataInv'
  <2>1. CASE call = "track"
    <3>1. line = 0 /\ test = check_mfm
      BY <1>2, <2>1, CallIs DEF IInv
    <3>2. WriteLine = 1
      BY <3>1 DEF WriteLine, check_mfm, mfm_rw_sector, fm_rw_sector
    <3>3. ~(line > WriteLine) /\ ~(line = WriteLine)
      BY <3>1, <3>2
    <3>4. QED
      BY <1>1, <1>2, <3>3 DEF IInv, DataInv, WriteLine, Amiga
  <2>2. CASE call # "track"
    BY <1>1, <1>2, <1>6, <2>2 DEF IInv, DataInv, WriteLine, Amiga
  <2>3. QED
    BY <2>1, <2>2
<1>13. SeenInv' /\ ReadingInv' /\ SearchInv' /\ ScanInv' /\ FollowInv' /\ IndexInv' /\ GateInv'
  BY <1>1, <1>2 DEF IInv, SeenInv, ReadingInv, SearchInv, ScanInv, FollowInv, IndexInv, GateInv,
                    Searches, Reading, Writes
<1>14. QED
  BY <1>8, <1>10, <1>11, <1>12, <1>13 DEF IInv

(***************************************************************************)
(* From call to call.                                                      *)
(***************************************************************************)
\* Between two calls there is nothing to know but the track.
LEMMA BetweenCalls ==
  ASSUME pc = "idle", call = none, seen = <<>>
  PROVE  SeenInv /\ ReadingInv /\ SearchInv /\ ScanInv /\ FollowInv /\ IndexInv /\ GateInv
BY DEF SeenInv, ReadingInv, SearchInv, ScanInv, FollowInv, IndexInv, GateInv, Searches, Reading, none

LEMMA BetweenCallsNext ==
  ASSUME pc' = "idle", call' = none, seen' = <<>>
  PROVE  (SeenInv /\ ReadingInv /\ SearchInv /\ ScanInv /\ FollowInv /\ IndexInv /\ GateInv)'
BY DEF SeenInv, ReadingInv, SearchInv, ScanInv, FollowInv, IndexInv, GateInv, Searches, Reading, none

\* The tests differ.
LEMMA TestsDiffer ==
  /\ adf_test # mfm_rw_sector /\ adf_test # fm_rw_sector /\ adf_test # check_mfm
  /\ \A t : t \in TestsOf(fmt) /\ fmt \in {"mfm", "fm", "amiga"} =>
       /\ t = adf_test <=> Amiga
       /\ Len(t) \in 2 .. 5 /\ t # <<>>
<1>1. /\ adf_test[1] = "amiga_write" /\ mfm_rw_sector[1] = "scan"
      /\ fm_rw_sector[1] = "scan" /\ check_mfm[1] = "track"
      /\ Len(adf_test) = 2 /\ Len(mfm_rw_sector) = 5
      /\ Len(fm_rw_sector) = 5 /\ Len(check_mfm) = 4
  BY DEF adf_test, mfm_rw_sector, fm_rw_sector, check_mfm
<1>2. adf_test # mfm_rw_sector /\ adf_test # fm_rw_sector /\ adf_test # check_mfm
  BY <1>1
<1>3. ASSUME NEW t, t \in TestsOf(fmt), fmt \in {"mfm", "fm", "amiga"}
      PROVE  (t = adf_test <=> Amiga) /\ Len(t) \in 2 .. 5 /\ t # <<>>
  <2>1. t = adf_test <=> Amiga
    BY <1>2, <1>3 DEF TestsOf, Amiga
  <2>2. t \in {adf_test, mfm_rw_sector, fm_rw_sector, check_mfm}
    BY <1>3 DEF TestsOf
  <2>3. Len(t) \in 2 .. 5
    BY <1>1, <2>2
  <2>4. Len(<<>>) = 0
    OBVIOUS
  <2>5. QED
    BY <2>1, <2>3, <2>4
<1>4. QED
  BY <1>2, <1>3

LEMMA BeginStep ==
  ASSUME IInv, NEW t \in TestsOf(fmt), Begin(t)
  PROVE  IInv'
<1>1. /\ test = <<>> /\ test' = t /\ id' \in Sectors /\ gap3' = Gap3
      /\ UNCHANGED <<pc, call, seen, start, count, wait, result, warned, fmt, pos, marks, content,
                     mark, left, stop, begin, lag, line>>
      /\ data' \in IF t = adf_test THEN [Sectors -> Values] ELSE [{id'} -> Values]
  BY DEF Begin, disk, write
<1>2. pc = "idle" /\ line = 0 /\ call = none
  BY <1>1 DEF IInv, Program
<1>3. seen = <<>>
  BY <1>2 DEF IInv, SeenInv, none
<1>4. fmt \in {"mfm", "fm", "amiga"} /\ Filler \in Values
  BY SectorAssumption DEF IInv, TypeOK
<1>5. (t = adf_test <=> Amiga) /\ Len(t) \in 2 .. 5 /\ t # <<>>
  BY <1>4, TestsDiffer
<1>6. TypeOK' /\ ~warned'
  <2>1. gap3' \in 0 .. Gap3
    BY <1>1, Numbers
  <2>2. QED
    BY <1>1, <2>1 DEF IInv, TypeOK
<1>7. Program'
  <2>1. 0 \in 0 .. Len(t) - 1
    BY <1>5
  <2>2. QED
    BY <1>1, <1>2, <1>5, <2>1 DEF IInv, Program, TestsOf, Places, Waits, none
<1>8. DataInv'
  <2>1. data' \in IF Amiga THEN [Sectors -> Values] ELSE [{id'} -> Values]
    BY <1>1, <1>5
  <2>2. WriteLine' \in Nat
    BY DEF WriteLine
  <2>3. ~(line' > WriteLine') /\ pc' # "returned"
    BY <1>1, <1>2, <2>2
  <2>4. QED
    BY <1>1, <2>1, <2>3 DEF DataInv, Amiga
<1>9. LayoutInv'
  BY <1>1 DEF IInv, LayoutInv, Amiga
<1>10. SeenInv' /\ ReadingInv' /\ SearchInv' /\ ScanInv' /\ FollowInv' /\ IndexInv' /\ GateInv'
  BY <1>1, <1>2, <1>3, BetweenCallsNext
<1>11. QED
  BY <1>6, <1>7, <1>8, <1>9, <1>10 DEF IInv

LEMMA CallsStep ==
  ASSUME IInv, Calls
  PROVE  IInv'
<1> DEFINE c == test[line + 1]
<1>1. test # <<>> /\ c \in Operations
  BY CallIs DEF IInv, Calls
<1>2. /\ pc = "idle" /\ call' = c /\ lag' = 0
      /\ UNCHANGED <<test, line, id, data, gap3, seen, start, wait, result, warned, fmt, pos, marks,
                     content, mark, left, stop, begin>>
      /\ \/ c \in {"scan", "track", "amiga_write"} /\ pc' = "index" /\ count' = 0
         \/ c \in Searches /\ pc' = "search" /\ count' = 0
         \/ c = "period" /\ pc' = "period" /\ count' = count
  <2>1. Do(c) /\ UNCHANGED <<test, line>>
    BY DEF Calls
  <2> HIDE DEF c
  <2>2. CASE c = "scan"
    BY <2>1, <2>2 DEF Do, ibm_scan, AtIndex, Enter, Step, params, disk, write
  <2>3. CASE c = "track"
    BY <2>1, <2>3 DEF Do, ibm_mfm_write_track, AtIndex, Enter, Step, params, disk, write
  <2>4. CASE c = "amiga_write"
    BY <2>1, <2>4 DEF Do, amiga_track_write, AtIndex, Enter, Step, params, disk, write
  <2>5. CASE c = "read"
    BY <2>1, <2>5 DEF Do, ibm_read_sector, Search, Enter, Step, params, disk, write, Searches
  <2>6. CASE c = "write"
    BY <2>1, <2>6 DEF Do, ibm_write_sector, Search, Enter, Step, params, disk, write, Searches
  <2>7. CASE c = "amiga_read"
    BY <2>1, <2>7 DEF Do, amiga_track_read, Search, Enter, Step, params, disk, write, Searches
  <2>8. CASE c = "period"
    BY <2>1, <2>8 DEF Do, Period, Enter, Step, params, disk, write
  <2>9. QED
    BY <1>1, <2>2, <2>3, <2>4, <2>5, <2>6, <2>7, <2>8 DEF Operations
<1>3. call = none
  BY <1>2 DEF IInv, Program
<1>4. seen = <<>>
  BY <1>3 DEF IInv, SeenInv, none
<1> HIDE DEF c
<1>5. TypeOK' /\ ~warned'
  <2>1. count' \in 0 .. 2 /\ 0 \in 0 .. MaxLag
    BY <1>2, Numbers DEF IInv, TypeOK
  <2>2. pc' \in {"index", "search", "period"}
    BY <1>2
  <2>3. QED
    BY <1>2, <2>1, <2>2 DEF IInv, TypeOK
<1>6. Program'
  <2>1. pc' \in Places(c)
    BY <1>2, PlacesAre DEF Searches, WholeTrack
  <2>2. pc' # "idle"
    BY <1>2
  <2>3. call' = test'[line' + 1] /\ TestsOf(fmt)' = TestsOf(fmt)
    BY <1>2 DEF c, TestsOf
  <2>4. Places(call)' = Places(c)
    BY <1>2 DEF Places
  <2>5. QED
    BY <1>1, <1>2, <2>1, <2>2, <2>3, <2>4 DEF IInv, Program
<1>7. DataInv'
  <2>1. pc' # "returned" /\ pc # "returned"
    BY <1>2
  <2>2. QED
    BY <1>1, <1>2, <2>1 DEF IInv, DataInv, WriteLine, Amiga
<1>8. LayoutInv'
  BY <1>2 DEF IInv, LayoutInv, Amiga
<1>9. SeenInv' /\ ReadingInv' /\ SearchInv' /\ ScanInv' /\ FollowInv' /\ IndexInv' /\ GateInv'
  <2>1. CASE c \in {"scan", "track", "amiga_write"} /\ pc' = "index" /\ count' = 0
    BY <1>2, <1>4, <2>1 DEF SeenInv, ReadingInv, SearchInv, ScanInv, FollowInv, IndexInv, GateInv,
                            Searches, Reading
  <2>2. CASE c \in Searches /\ pc' = "search" /\ count' = 0
    BY <1>2, <1>4, <2>2 DEF SeenInv, ReadingInv, SearchInv, ScanInv, FollowInv, IndexInv, GateInv,
                            Searches, Reading
  <2>3. CASE c = "period" /\ pc' = "period"
    BY <1>2, <1>4, <2>3 DEF SeenInv, ReadingInv, SearchInv, ScanInv, FollowInv, IndexInv, GateInv,
                            Searches, Reading
  <2>4. QED
    BY <1>2, <2>1, <2>2, <2>3
<1>10. QED
  BY <1>5, <1>6, <1>7, <1>8, <1>9 DEF IInv

LEMMA ReturnStep ==
  ASSUME IInv, Return
  PROVE  IInv'
<1>1. /\ pc = "returned" /\ pc' = "idle" /\ lag' = 0 /\ call' = none /\ seen' = <<>> /\ start' = 0
      /\ wait' = 0 /\ mark' = NoMark /\ left' = 0 /\ stop' = 0 /\ begin' = 0
      /\ UNCHANGED <<count, fmt, pos, marks, content>>
      /\ warned' = (warned \/ CASE call = "scan" -> Seen # Expected
                                [] call \in {"read", "amiga_read"} -> result # data
                                [] OTHER -> FALSE)
  BY DEF Return, Leave, Step, disk
<1>2. \/ /\ line + 1 < Len(test) /\ line' = line + 1 /\ UNCHANGED <<test, id, data>>
         /\ gap3' = IF call = "scan" /\ Len(seen) >= 2 THEN Gap3Of(seen) \div 2 ELSE gap3
      \/ test' = <<>> /\ line' = 0 /\ id' = 1 /\ gap3' = Gap3
  BY DEF Return
<1>3. test # <<>> /\ call = test[line + 1]
  BY <1>1, InsideCall
<1>4. ~warned'
  <2>1. call = "scan" => Seen = Expected
    <3>1. SUFFICES ASSUME call = "scan" PROVE Seen = Expected
      OBVIOUS
    <3>2. Len(seen) = NrSectors /\ \A i \in 1 .. Len(seen) : seen[i].sector = i
      BY <1>1, <3>1 DEF IInv, ScanInv
    <3>3. QED
      BY <3>2 DEF Seen, Expected
  <2>2. call \in {"read", "amiga_read"} => result = data
    BY <1>1 DEF IInv, FollowInv
  <2>3. QED
    BY <1>1, <2>1, <2>2 DEF IInv, TypeOK
<1>5. gap3' \in 0 .. Gap3
  <2>1. gap3 \in 0 .. Gap3 /\ Gap3 \in Nat /\ MaxLag \in Nat /\ MaxLag <= Gap3
    BY Numbers, LagAssumption DEF IInv, TypeOK
  <2>2. ASSUME call = "scan", Len(seen) >= 2 PROVE Gap3Of(seen) \div 2 \in 0 .. Gap3
    <3>1. Gap3Of(seen) \in Gap3 - MaxLag .. Gap3 + MaxLag
      BY <1>1, <2>2, GapIs
    <3>2. ASSUME NEW g \in Gap3 - MaxLag .. Gap3 + MaxLag PROVE g \div 2 \in 0 .. Gap3
      BY <2>1
    <3>3. QED
      BY <3>1, <3>2
  <2>3. QED
    BY <1>2, <2>1, <2>2
<1>6. TypeOK'
  <2>1. id' \in Sectors
    BY <1>2, Numbers DEF IInv, TypeOK
  <2>2. 0 \in 0 .. MaxLag /\ 0 \in 0 .. TrackLen - 1 /\ 0 \in Int /\ 0 \in Nat
    BY Numbers
  <2>3. seen' \in Seq([sector : Sectors, start : Int])
    BY <1>1
  <2>4. QED
    BY <1>1, <1>4, <1>5, <2>1, <2>2, <2>3, NoMarkType DEF IInv, TypeOK
<1>7. Program'
  <2>1. test' # <<>> => test' \in TestsOf(fmt) /\ line' \in 0 .. Len(test') - 1
    <3>1. line \in 0 .. Len(test) - 1 /\ test \in TestsOf(fmt) /\ Len(test) \in Nat
      BY <1>3, CallIs DEF IInv, Program
    <3>2. CASE test' = test /\ line' = line + 1 /\ line + 1 < Len(test)
      BY <3>1, <3>2
    <3>3. QED
      BY <1>2, <3>2
  <2>2. test' = <<>> => line' = 0
    BY <1>2, <1>3
  <2>3. Places(none) = {"idle"}
    BY DEF Places, none, WholeTrack
  <2>4. pc' \in Places(call)'
    BY <1>1, <2>3 DEF Places
  <2>5. call' = (IF pc' = "idle" THEN none ELSE test'[line' + 1])
    BY <1>1
  <2>6. TestsOf(fmt)' = TestsOf(fmt)
    BY <1>1 DEF TestsOf
  <2>7. QED
    BY <1>1, <2>1, <2>2, <2>4, <2>5, <2>6 DEF Program
<1>8. DataInv'
  <2>1. CASE test' = test /\ line' = line + 1 /\ UNCHANGED <<id, data>>
    <3>1. line \in Nat /\ WriteLine \in Nat /\ WriteLine' = WriteLine
      BY <1>3, <2>1, CallIs DEF IInv, WriteLine
    <3>2. line' > WriteLine' => line > WriteLine \/ line = WriteLine
      BY <2>1, <3>1
    <3>3. QED
      BY <1>1, <1>3, <2>1, <3>2 DEF IInv, DataInv, Amiga
  <2>2. CASE test' = <<>>
    BY <2>2 DEF DataInv
  <2>3. QED
    BY <1>2, <2>1, <2>2
<1>9. LayoutInv'
  BY <1>1 DEF IInv, LayoutInv, Amiga
<1>10. SeenInv' /\ ReadingInv' /\ SearchInv' /\ ScanInv' /\ FollowInv' /\ IndexInv' /\ GateInv'
  BY <1>1, BetweenCallsNext
<1>11. QED
  BY <1>4, <1>6, <1>7, <1>8, <1>9, <1>10 DEF IInv

(***************************************************************************)
(* The disk turns.                                                         *)
(***************************************************************************)
\* A revolution is longer than a header and the steps after it.
LEMMA LongTrack ==
  ASSUME IInv
  PROVE  /\ HeaderLen + 3 * MaxLag < TrackLen
         /\ ~Amiga => HdrLen + Gap2 + GapSync < TrackLen
<1>1. PICK o \in 0 .. 2 * MaxLag : o \in Late
  BY Numbers
<1>2. 1 \in Sectors
  BY Numbers
<1> DEFINE h == HeaderAt(o, 1)
           t == DataAt(o, 1)
           a == AmigaAt(o, 1)
<1>3. /\ h \in Nat /\ t = h + HdrLen + Gap2 + GapSync /\ h >= EdgeGap + GapSync + o
      /\ t + DatLen + Gap3 + EdgeGap <= TrackLen + o
  BY <1>1, <1>2, FieldPlaces
<1>4. a \in Nat /\ a >= o + TrackGap + SecGap /\ a + InfoLen + BodyLen + 2 * MaxLag <= o + TrackLen
  BY <1>1, <1>2, WrittenPlaces, AmigaPlaces
<1> HIDE DEF h, t, a
<1>5. HdrLen + 3 * MaxLag < TrackLen /\ HdrLen + Gap2 + GapSync < TrackLen
  BY <1>1, <1>3, Numbers, LagAssumption
<1>6. InfoLen + 3 * MaxLag < TrackLen
  BY <1>1, <1>4, Numbers, LagAssumption
<1>7. QED
  BY <1>5, <1>6 DEF HeaderLen

\* What a turn does to the clock, whatever the statement.
LEMMA TurnIs ==
  ASSUME IInv, Turn, UNCHANGED <<test, line>>
  PROVE  /\ UNCHANGED <<test, line, call, id, data, gap3, fmt, marks, content, seen, start, result,
                        warned, stop, begin>>
         /\ \/ pos = TrackLen - 1 /\ pos' = 0
            \/ pos < TrackLen - 1 /\ pos' = pos + 1
         /\ count' = IF pos' = 0 /\ count < 2 THEN count + 1 ELSE count
         /\ Waits => lag = 0 /\ lag' = 0
         /\ ~Waits => lag < MaxLag /\ lag' = lag + 1
         /\ wait' = IF wait > 0 THEN wait - 1 ELSE 0
         /\ pc \notin {"sync", "datasync"} =>
              /\ left' = IF left > 0 \/ pc = "writing" THEN left - 1 ELSE 0
              /\ pc' = IF pc = "period" /\ pos' = 0 THEN "returned" ELSE pc
              /\ mark' = mark
         /\ pos \in 0 .. TrackLen - 1 /\ pos' \in 0 .. TrackLen - 1 /\ count \in 0 .. 2
         /\ lag \in 0 .. MaxLag /\ wait \in Nat /\ left \in Int
         /\ MaxLag \in Nat /\ TrackLen \in Nat
<1>1. pos \in 0 .. TrackLen - 1 /\ TrackLen \in Nat /\ MaxLag \in Nat
  BY Numbers DEF IInv, TypeOK
<1>2. pos' = (pos + 1) % TrackLen
  BY DEF Turn
<1>3. \/ pos = TrackLen - 1 /\ pos' = 0
      \/ pos < TrackLen - 1 /\ pos' = pos + 1
  BY <1>1, <1>2
<1>4. pos' \in 0 .. TrackLen - 1
  BY <1>1, <1>3
<1>5. Waits => lag = 0
  BY DEF IInv, Program
<1>6. QED
  BY <1>1, <1>3, <1>4, <1>5 DEF Turn, params, write, IInv, TypeOK

\* A mark comes: no other mark is there.
LEMMA MarkComes ==
  ASSUME IInv, Turn, UNCHANGED <<test, line>>, pc \in {"sync", "datasync"}
  PROVE  \/ /\ \A m \in marks : m.at # pos
            /\ pc' = pc /\ mark' = mark /\ left' = IF left > 0 THEN left - 1 ELSE 0
         \/ /\ mark' \in marks /\ mark'.at = pos /\ mark' \in MarkType
            /\ pc' = (IF pc = "sync" THEN "mark" ELSE "databytes")
            /\ left' = (IF pc = "sync" THEN HeaderLen ELSE ReadLen) - 1
<1>1. CASE Here = {}
  BY <1>1 DEF Turn, Here
<1>2. CASE Here # {}
  <2>1. mark' \in Here /\ pc' = (IF pc = "sync" THEN "mark" ELSE "databytes")
        /\ left' = (IF pc = "sync" THEN HeaderLen ELSE ReadLen) - 1
    BY <1>2 DEF Turn
  <2>2. QED
    BY <2>1 DEF Here, IInv, TypeOK
<1>3. QED
  BY <1>1, <1>2

LEMMA ReadLenIs ==
  ReadLen \in Nat /\ ReadLen > 0
<1>1. NrSectors * AmigaLen >= AmigaLen /\ NrSectors * AmigaLen \in Nat
  <2>1. 1 \in 1 .. NrSectors /\ AmigaLen \in Nat /\ NrSectors \in Nat
    BY Numbers
  <2>2. (1 - 1) * AmigaLen + AmigaLen <= NrSectors * AmigaLen /\ (1 - 1) * AmigaLen = 0
    BY <2>1, InOrder
  <2>3. ASSUME NEW n \in Nat, NEW w \in Nat PROVE n * w \in Nat
    OBVIOUS
  <2>4. QED
    BY <2>1, <2>2, <2>3
<1> DEFINE E == NrSectors * AmigaLen
<1>2. E >= AmigaLen /\ E \in Nat
  BY <1>1
<1>3. ReadLen = IF fmt = "amiga" THEN E - SecGap ELSE DatLen
  BY DEF ReadLen
<1> HIDE DEF E
<1>4. QED
  BY <1>2, <1>3, Numbers

\* A statement that does not wait goes on not to wait.
LEMMA NoNewWait ==
  ASSUME IInv, Turn, UNCHANGED <<test, line>>, ~Waits
  PROVE  ~Waits' /\ pc' = pc
<1>1. pc \notin {"idle", "sync", "datasync", "period"} /\ pc' = pc
  BY TurnIs DEF Waits
<1>2. pc = "index" => count' # 0
  BY TurnIs DEF Waits
<1>3. pc \in {"bytes", "databytes"} => ~(left' > 0)
  BY TurnIs DEF Waits
<1>4. pc = "delay" => ~(wait' > 0)
  BY TurnIs DEF Waits
<1>5. pc = "writing" => WriteOver'
  <2>1. SUFFICES ASSUME pc = "writing" PROVE WriteOver'
    OBVIOUS
  <2>2. left <= 0 \/ (call # "write" /\ count = stop)
    BY <2>1 DEF Waits, WriteOver
  <2>3. left <= 0 => left' <= 0
    BY <2>1, TurnIs
  <2>4. call # "write" => stop = 2
    <3>1. call \in Writes
      BY <2>1, PlaceIs
    <3>2. QED
      BY <2>1, <3>1 DEF IInv, GateInv, Writes, WholeTrack
  <2>5. call # "write" /\ count = 2 => count' = 2 /\ stop' = 2 /\ call' = call
    BY <2>4, TurnIs
  <2>6. call # "write" /\ count = stop => call' # "write" /\ count' = stop'
    BY <2>4, <2>5
  <2>7. QED
    BY <2>2, <2>3, <2>6 DEF WriteOver
<1>6. QED
  BY <1>1, <1>2, <1>3, <1>4, <1>5 DEF Waits

LEMMA TurnTypeOK ==
  ASSUME IInv, Turn, UNCHANGED <<test, line>>
  PROVE  TypeOK' /\ ~warned'
<1>1. count' \in 0 .. 2 /\ wait' \in Nat /\ lag' \in 0 .. MaxLag /\ pos' \in 0 .. TrackLen - 1
  BY TurnIs
<1>2. left' \in Int /\ mark' \in MarkType
      /\ pc' \in {"idle", "index", "prep", "search", "sync", "mark", "bytes", "check", "data", "datasync",
                  "databytes", "delay", "write", "writing", "period", "returned"}
  <2>1. CASE pc \in {"sync", "datasync"}
    <3>1. left \in Int /\ mark \in MarkType
      BY DEF IInv, TypeOK
    <3>2. HeaderLen - 1 \in Int /\ ReadLen - 1 \in Int
      BY HeaderLenIs, ReadLenIs
    <3>3. left' \in Int
      BY <2>1, <3>1, <3>2, MarkComes
    <3>4. QED
      BY <2>1, <3>1, <3>3, MarkComes
  <2>2. CASE pc \notin {"sync", "datasync"}
    <3>1. left' \in Int
      BY <2>2, TurnIs
    <3>2. QED
      BY <2>2, <3>1, TurnIs DEF IInv, TypeOK
  <2>3. QED
    BY <2>1, <2>2
<1>3. UNCHANGED <<test, line, call, id, data, gap3, fmt, marks, content, seen, start, result,
                  warned, stop, begin>>
  BY TurnIs
<1>4. QED
  BY <1>1, <1>2, <1>3 DEF IInv, TypeOK

LEMMA TurnProgram ==
  ASSUME IInv, Turn, UNCHANGED <<test, line>>
  PROVE  Program' /\ DataInv' /\ LayoutInv'
<1>1. UNCHANGED <<test, line, call, id, data, gap3, fmt, marks, content, seen, start, result,
                  warned, stop, begin>>
  BY TurnIs
<1>2. Waits' => lag' = 0
  BY TurnIs, NoNewWait
<1>3. \/ pc' = pc
      \/ pc = "sync" /\ pc' = "mark"
      \/ pc = "datasync" /\ pc' = "databytes"
      \/ pc = "period" /\ pc' = "returned"
  <2>1. CASE pc \in {"sync", "datasync"}
    BY <2>1, MarkComes
  <2>2. CASE pc \notin {"sync", "datasync"}
    BY <2>2, TurnIs
  <2>3. QED
    BY <2>1, <2>2
<1>4. pc' \in Places(call)
  <2>1. pc \in Places(call)
    BY DEF IInv, Program
  <2>2. CASE pc' = pc
    BY <2>1, <2>2
  <2>3. CASE pc = "sync" /\ pc' = "mark"
    <3>1. call \in Searches \cup {"scan"}
      BY <2>3, PlaceIs
    <3>2. QED
      BY <2>3, <3>1, PlacesAre DEF Searches
  <2>4. CASE pc = "datasync" /\ pc' = "databytes"
    <3>1. call \in {"read", "amiga_read"}
      BY <2>4, PlaceIs
    <3>2. QED
      BY <2>4, <3>1, PlacesAre
  <2>5. CASE pc = "period" /\ pc' = "returned"
    <3>1. call = "period"
      BY <2>5, PlaceIs
    <3>2. QED
      BY <2>5, <3>1, PlacesAre
  <2>6. QED
    BY <1>3, <2>2, <2>3, <2>4, <2>5
<1>5. pc' = "idle" <=> pc = "idle"
  BY <1>3
<1>6. Program'
  <2>1. Places(call)' = Places(call) /\ TestsOf(fmt)' = TestsOf(fmt)
    BY <1>1 DEF Places, TestsOf
  <2>2. call' = (IF pc' = "idle" THEN none ELSE test'[line' + 1])
    BY <1>1, <1>5 DEF IInv, Program
  <2>3. test' = <<>> => pc' = "idle" /\ line' = 0
    BY <1>1, <1>5 DEF IInv, Program
  <2>4. test' # <<>> => test' \in TestsOf(fmt) /\ line' \in 0 .. Len(test') - 1
    BY <1>1 DEF IInv, Program
  <2>5. QED
    BY <1>2, <1>4, <2>1, <2>2, <2>3, <2>4 DEF Program
<1>7. DataInv'
  <2>1. SUFFICES ASSUME test # <<>> PROVE DataInv'
    BY <1>1 DEF DataInv
  <2>2. line = WriteLine /\ pc' = "returned" => pc = "returned"
    <3>1. SUFFICES ASSUME pc = "period", line = WriteLine PROVE FALSE
      BY <1>3
    <3>2. call = "period" /\ call = test[line + 1]
      BY <3>1, PlaceIs, InsideCall
    <3>3. QED
      BY <2>1, <3>1, <3>2, CallIs DEF IInv, Writes
  <2>3. WriteLine' = WriteLine
    BY <1>1 DEF WriteLine
  <2>4. QED
    BY <1>1, <2>1, <2>2, <2>3 DEF IInv, DataInv, Amiga
<1>8. LayoutInv'
  BY <1>1 DEF IInv, LayoutInv, Amiga
<1>9. QED
  BY <1>6, <1>7, <1>8

\* A header is read, with three steps after it, before the index.
LEMMA HeaderAhead ==
  ASSUME IInv
  PROVE  /\ \E m \in marks : Target(m)
         /\ \A m \in marks : m.kind = "id" \/ Target(m) =>
              m.at + HeaderLen + 3 * MaxLag <= TrackLen /\ m.at + HeaderLen < TrackLen
<1>1. CASE Amiga
  <2>1. AmigaFacts /\ HeaderLen = InfoLen
    BY <1>1, TrackFacts DEF IInv, HeaderLen, Amiga
  <2>2. NrSectors \in Sectors
    BY Numbers
  <2>3. PICK m \in marks : m.sector = NrSectors
    BY <2>1, <2>2 DEF AmigaFacts
  <2>4. ASSUME NEW n \in marks
        PROVE  n.at + InfoLen + 3 * MaxLag <= TrackLen /\ n.at + InfoLen < TrackLen
    <3>1. n.at \in 2 * MaxLag .. TrackLen - 1 /\ n.at + InfoLen + BodyLen <= TrackLen
      BY <2>1 DEF AmigaFacts
    <3> DEFINE a == n.at
    <3>2. a \in Int /\ a + InfoLen + BodyLen <= TrackLen
      BY <3>1
    <3> HIDE DEF a
    <3>3. a + InfoLen + 3 * MaxLag <= TrackLen /\ a + InfoLen < TrackLen
      BY <3>2, Numbers, LagAssumption
    <3>4. QED
      BY <3>3 DEF a
  <2>5. Target(m)
    BY <1>1, <2>3 DEF Target
  <2>6. QED
    BY <2>1, <2>4, <2>5
<1>2. CASE ~Amiga
  <2>1. IbmFacts /\ Spaced /\ HeaderLen = HdrLen /\ id \in Sectors
    BY <1>2, TrackFacts DEF IInv, HeaderLen, Amiga, TypeOK
  <2>2. PICK m \in marks : m.kind = "id" /\ m.sector = id
    BY <2>1 DEF IbmFacts
  <2>3. ASSUME NEW n \in marks, n.kind = "id"
        PROVE  n.at + HdrLen + 3 * MaxLag <= TrackLen /\ n.at + HdrLen < TrackLen
    <3>1. PICK k \in marks : k.kind = "data" /\ k.sector = n.sector
      BY <2>1, MarkAt DEF IInv, IbmFacts
    <3>2. n.sector \in Int /\ n.at \in Int /\ k.at \in 0 .. TrackLen - 1
      BY MarkAt, Numbers DEF IInv
    <3>3. n.at < k.at
      BY <2>1, <2>3, <3>1, <3>2 DEF IbmFacts
    <3>4. n.at + HdrLen + 3 * MaxLag <= k.at
      BY <2>1, <3>3 DEF Spaced
    <3>5. QED
      BY <3>2, <3>4, Numbers
  <2>4. Target(m)
    BY <1>2, <2>2 DEF Target
  <2>5. QED
    BY <1>2, <2>1, <2>3, <2>4 DEF Target
<1>3. QED
  BY <1>1, <1>2

\* A scan has listed all headers if all have passed.
LEMMA AllSeen ==
  ASSUME IInv, call = "scan", pc # "index", \A m \in marks : m.kind = "id" => m.sector <= Len(seen)
  PROVE  Len(seen) = NrSectors
<1>1. ~Amiga /\ IbmFacts
  <2>1. pc # "idle"
    BY DEF IInv, Program, none
  <2>2. QED
    BY <2>1, InsideCall, TrackFacts DEF IInv
<1>2. PICK m \in marks : m.kind = "id" /\ m.sector = NrSectors
  <2>1. NrSectors \in Sectors
    BY Numbers
  <2>2. QED
    BY <1>1, <2>1 DEF IbmFacts
<1>3. Len(seen) <= NrSectors /\ Len(seen) \in Nat /\ NrSectors \in Nat
  BY Numbers DEF IInv, TypeOK, ScanInv
<1>4. QED
  BY <1>2, <1>3

\* While a mark is read.
LEMMA ReadingTurns ==
  ASSUME IInv, Turn, UNCHANGED <<test, line>>, pc \in Reading
  PROVE  /\ Gone' = Gone + 1 /\ mark \in marks
         /\ SearchInv' /\ ScanInv'
<1>1. /\ pc' = pc /\ mark' = mark
      /\ \/ pos = TrackLen - 1 /\ pos' = 0
         \/ pos < TrackLen - 1 /\ pos' = pos + 1
      /\ count' = (IF pos' = 0 /\ count < 2 THEN count + 1 ELSE count)
      /\ pos \in 0 .. TrackLen - 1 /\ pos' \in 0 .. TrackLen - 1 /\ count \in 0 .. 2
      /\ UNCHANGED <<call, id, fmt, marks, seen>>
  BY TurnIs DEF Reading
<1>2. /\ MaxLag \in Nat /\ TrackLen \in Nat /\ HeaderLen \in Nat /\ HeaderLen > MaxLag
      /\ HeaderLen + 3 * MaxLag < TrackLen
  BY TurnIs, HeaderLenIs, LongTrack
<1>3. mark \in marks /\ mark.at \in 0 .. TrackLen - 1
  <2>1. mark \in marks
    BY DEF IInv, ReadingInv
  <2>2. QED
    BY <2>1, MarkAt DEF IInv
<1>4. /\ Gone \in 0 .. TrackLen - 1
      /\ Gone = IF mark.at <= pos THEN pos - mark.at ELSE pos - mark.at + TrackLen
  BY GoneIs DEF IInv
<1>5. Gone < HeaderLen + 2 * MaxLag
  <2>1. lag \in 0 .. MaxLag /\ left \in Int /\ (~Waits => lag < MaxLag)
    BY TurnIs
  <2>2. CASE pc = "mark"
    <3>1. Gone = 1 + lag /\ ~Waits
      BY <2>2 DEF IInv, ReadingInv, Reading, Waits
    <3>2. QED
      BY <1>2, <2>1, <3>1
  <2>3. CASE pc = "bytes"
    <3>1. left \in Nat /\ Gone = HeaderLen - left + (IF left = 0 THEN lag ELSE 0)
          /\ (Waits <=> left > 0)
      BY <2>3 DEF IInv, ReadingInv, Reading, Waits
    <3>2. QED
      BY <1>2, <2>1, <3>1
  <2>4. CASE pc = "check"
    <3>1. Gone - HeaderLen \in lag .. MaxLag + lag /\ ~Waits
      BY <2>4 DEF IInv, ReadingInv, Reading, Waits
    <3>2. QED
      BY <1>2, <1>4, <2>1, <3>1
  <2>5. QED
    BY <2>2, <2>3, <2>4 DEF Reading
<1> DEFINE at == mark.at
           g == Gone
<1>6. Gone' = IF at <= pos' THEN pos' - at ELSE pos' - at + TrackLen
  <2>1. Gone' = Distance(at, pos')
    BY <1>1 DEF Gone, Distance
  <2>2. QED
    BY <1>1, <1>3, <2>1, DistanceIs
<1>7. at \in 0 .. TrackLen - 1 /\ g < HeaderLen + 2 * MaxLag /\ g \in 0 .. TrackLen - 1
      /\ g = (IF at <= pos THEN pos - at ELSE pos - at + TrackLen)
  BY <1>3, <1>4, <1>5
<1>8. Gone' = Gone + 1
  <2> HIDE DEF at
  <2>1. (IF at <= pos' THEN pos' - at ELSE pos' - at + TrackLen) = g + 1
    <3> HIDE DEF g
    <3>1. ASSUME NEW p \in 0 .. TrackLen - 1, NEW q \in 0 .. TrackLen - 1,
                 (p = TrackLen - 1 /\ q = 0) \/ (p < TrackLen - 1 /\ q = p + 1),
                 g = (IF at <= p THEN p - at ELSE p - at + TrackLen)
          PROVE  (IF at <= q THEN q - at ELSE q - at + TrackLen) = g + 1
      BY <1>2, <1>7, <3>1
    <3>2. /\ pos \in 0 .. TrackLen - 1 /\ pos' \in 0 .. TrackLen - 1
          /\ (pos = TrackLen - 1 /\ pos' = 0) \/ (pos < TrackLen - 1 /\ pos' = pos + 1)
      BY <1>1
    <3>3. g = (IF at <= pos THEN pos - at ELSE pos - at + TrackLen)
      BY <1>7
    <3>4. QED
      BY <3>1, <3>2, <3>3, Zenon
  <2>2. QED
    BY <1>6, <2>1
\* The disk does not come to the index before a header that is still to come.
<1>9. ASSUME NEW m \in marks, m.kind = "id" \/ Target(m), at <= m.at, at <= pos
      PROVE  pos < TrackLen - 1
  <2> DEFINE b == m.at
  <2>1. /\ b \in 0 .. TrackLen - 1
        /\ b + HeaderLen + 3 * MaxLag <= TrackLen /\ b + HeaderLen < TrackLen
    BY <1>9, HeaderAhead, MarkAt DEF IInv
  <2>2. at < b => at + HeaderLen + 3 * MaxLag <= b
    BY <1>3, TrackFacts DEF IInv, Spaced
  <2>3. at <= b
    BY <1>9
  <2> HIDE DEF at, b, g
  <2>4. QED
    BY <1>1, <1>2, <1>7, <1>9, <2>1, <2>2, <2>3
<1>10. ~(at <= pos) => pos' = pos + 1 /\ pos' < at
  <2> HIDE DEF at, g
  <2>1. QED
    BY <1>1, <1>2, <1>7
<1>11. pos' = 0 => ~(pos' >= at)
  <2> HIDE DEF at, g
  <2>1. QED
    BY <1>1, <1>2, <1>7
<1>12. SearchInv'
  <2>1. SUFFICES ASSUME call \in Searches
                 PROVE  count' < 2 /\ (count' = 1 => \A m \in marks : Target(m) /\ pos' >= at => at <= m.at)
    BY <1>1 DEF SearchInv, Target, Amiga, Reading
  <2>2. count < 2 /\ (count = 1 => \A m \in marks : Target(m) => (pos >= at => at <= m.at))
    BY <2>1 DEF IInv, SearchInv, Reading
  <2>3. PICK n \in marks : Target(n)
    BY HeaderAhead
  <2>4. count = 1 => pos' # 0
    <3>1. SUFFICES ASSUME count = 1, pos' = 0 PROVE FALSE
      OBVIOUS
    <3>2. pos = TrackLen - 1
      BY <1>1, <1>2, <3>1
    <3>3. at <= pos /\ pos >= at
      BY <1>1, <1>7, <3>2
    <3>4. at <= n.at
      BY <2>2, <2>3, <3>1, <3>3
    <3>5. QED
      BY <1>1, <1>9, <2>3, <3>2, <3>3, <3>4
  <2>5. count' < 2
    BY <1>1, <2>2, <2>4
  <2>6. ASSUME count' = 1, NEW m \in marks, Target(m), pos' >= at PROVE at <= m.at
    <3>1. pos' # 0
      BY <1>11, <2>6
    <3>2. count = 1 /\ pos' = pos + 1
      BY <1>1, <2>6, <3>1
    <3>3. at <= pos
      <4> HIDE DEF at
      <4>1. QED
        BY <1>1, <1>7, <1>10, <2>6, <3>2
    <3>4. pos >= at
      <4> HIDE DEF at
      <4>1. QED
        BY <1>1, <1>7, <3>3
    <3>5. QED
      BY <2>2, <2>6, <3>2, <3>4
  <2>7. QED
    BY <2>5, <2>6
<1>13. ScanInv'
  <2>1. SUFFICES ASSUME call = "scan" PROVE ScanInv'
    BY <1>1 DEF ScanInv
  <2>2. /\ count \in 1 .. 2 /\ Len(seen) <= NrSectors
        /\ \A i \in 1 .. Len(seen) : seen[i].sector = i
        /\ \A m \in marks : m.kind = "id" /\ m.sector <= Len(seen)
                               => seen[m.sector].start - m.at \in 0 .. MaxLag
        /\ count = 2 => Len(seen) = NrSectors
        /\ count = 1 => \A m \in marks : m.kind = "id" =>
             at < pos /\ (m.sector <= Len(seen) <=> m.at < at)
    BY <2>1 DEF IInv, ScanInv, Reading
  <2>3. count' \in 1 .. 2
    BY <1>1, <2>2
  <2>4. count = 1 /\ pos' = 0 => Len(seen) = NrSectors
    <3>1. SUFFICES ASSUME count = 1, pos' = 0 PROVE Len(seen) = NrSectors
      OBVIOUS
    <3>2. pos = TrackLen - 1
      BY <1>1, <1>2, <3>1
    <3>3. ASSUME NEW m \in marks, m.kind = "id" PROVE m.sector <= Len(seen)
      <4>1. m.at \in Int
        BY MarkAt DEF IInv
      <4>2. m.at < at
        <5>1. SUFFICES ASSUME ~(m.at < at) PROVE FALSE
          OBVIOUS
        <5>2. at <= m.at /\ at <= pos
          <6> DEFINE b == m.at
          <6>1. ~(b < at) /\ b \in Int
            BY <4>1, <5>1
          <6> HIDE DEF at, b
          <6>2. at <= b /\ at <= pos
            BY <1>1, <1>7, <3>2, <6>1
          <6>3. QED
            BY <6>2 DEF b
        <5>3. QED
          BY <1>1, <1>9, <3>2, <3>3, <5>2
      <4>3. QED
        BY <2>2, <3>1, <3>3, <4>2
    <3>4. pc # "index"
      BY DEF Reading
    <3>5. QED
      BY <2>1, <3>3, <3>4, AllSeen
  <2>5. count' = 2 => Len(seen) = NrSectors
    BY <1>1, <2>2, <2>4
  <2>6. ASSUME count' = 1, NEW m \in marks, m.kind = "id"
        PROVE  at < pos' /\ (m.sector <= Len(seen) <=> m.at < at)
    <3>1. pos' # 0 /\ count = 1 /\ pos' = pos + 1
      BY <1>1, <2>2, <2>6
    <3>2. at < pos /\ (m.sector <= Len(seen) <=> m.at < at)
      BY <2>2, <2>6, <3>1
    <3>3. at < pos'
      <4> HIDE DEF at
      <4>1. QED
        BY <1>1, <1>7, <3>1, <3>2
    <3>4. QED
      BY <3>2, <3>3
  <2>7. QED
    <3>1. pc' \notin {"index", "prep", "sync", "returned"}
      BY <1>1 DEF Reading
    <3>2. QED
      BY <1>1, <2>1, <2>2, <2>3, <2>5, <2>6, <3>1 DEF ScanInv
<1>14. QED
  BY <1>3, <1>8, <1>12, <1>13

LEMMA TurnIdle ==
  ASSUME IInv, Turn, UNCHANGED <<test, line>>, pc \in {"idle", "period", "returned"}
  PROVE  Local'
<1>1. UNCHANGED <<call, seen, result, data>> /\ pc' \in {pc, "returned"}
      /\ (pc' # pc => pc = "period")
      /\ count' = (IF pos' = 0 /\ count < 2 THEN count + 1 ELSE count) /\ count \in 0 .. 2
      /\ UNCHANGED <<marks>>
  BY TurnIs
<1>2. /\ pc = "idle" => call = none /\ seen = <<>>
      /\ pc = "period" => call = "period"
  BY PlaceIs DEF IInv, Program, SeenInv, none
<1>3. CASE pc = "idle"
  BY <1>1, <1>2, <1>3, BetweenCallsNext DEF Local
<1>4. CASE pc = "period"
  <2>1. call = "period" /\ pc' \in {"period", "returned"}
    BY <1>1, <1>2, <1>4
  <2>2. SeenInv'
    BY <1>1, <2>1 DEF IInv, SeenInv
  <2>3. QED
    BY <1>1, <2>1, <2>2 DEF Local, ReadingInv, SearchInv, ScanInv, FollowInv, IndexInv, GateInv,
                            Searches, Reading
<1>5. CASE pc = "returned"
  <2>1. pc' = "returned"
    BY <1>1, <1>5
  <2>2. SeenInv' /\ FollowInv'
    BY <1>1, <1>5, <2>1 DEF IInv, SeenInv, FollowInv
  <2>3. ScanInv'
    <3>1. call = "scan" => count \in 1 .. 2 /\ count' \in 1 .. 2
      BY <1>1, <1>5 DEF IInv, ScanInv
    <3>2. QED
      BY <1>1, <1>5, <2>1, <3>1 DEF IInv, ScanInv, Reading
  <2>4. QED
    BY <1>1, <2>1, <2>2, <2>3 DEF Local, ReadingInv, SearchInv, IndexInv, GateInv, Searches, Reading
<1>6. QED
  BY <1>3, <1>4, <1>5

LEMMA TurnIndex ==
  ASSUME IInv, Turn, UNCHANGED <<test, line>>, pc \in {"index", "write"}
  PROVE  Local'
<1>1. /\ UNCHANGED <<call, seen, pc, marks>>
      /\ \/ pos = TrackLen - 1 /\ pos' = 0
         \/ pos < TrackLen - 1 /\ pos' = pos + 1
      /\ count' = (IF pos' = 0 /\ count < 2 THEN count + 1 ELSE count) /\ count \in 0 .. 2
      /\ Waits => lag = 0 /\ lag' = 0
      /\ ~Waits => lag < MaxLag /\ lag' = lag + 1
      /\ lag \in 0 .. MaxLag /\ MaxLag \in Nat /\ TrackLen \in Nat /\ pos \in 0 .. TrackLen - 1
  BY TurnIs
<1>2. call \in {"scan", "track", "amiga_write"} /\ (pc = "write" => call # "scan")
  BY PlaceIs DEF WholeTrack
<1>3. 3 * MaxLag < TrackLen - 1
  BY <1>1, LongTrack, HeaderLenIs
<1>4. IndexInv'
  <2>1. CASE pc = "index" /\ count = 0
    <3>1. Waits
      BY <2>1 DEF Waits
    <3>2. count' <= 1 /\ (count' = 1 => pos' = lag')
      BY <1>1, <2>1, <3>1
    <3>3. QED
      BY <1>1, <2>1, <3>2 DEF IndexInv
  <2>2. CASE pc = "index" /\ count # 0
    <3>1. ~Waits /\ count = 1 /\ pos = lag
      BY <1>1, <2>2 DEF Waits, IInv, IndexInv
    <3>2. count' = 1 /\ pos' = lag'
      BY <1>1, <1>3, <3>1
    <3>3. QED
      BY <1>1, <2>2, <3>2 DEF IndexInv
  <2>3. CASE pc = "write"
    <3>1. ~Waits /\ count = 1 /\ pos <= MaxLag + lag
      BY <2>3 DEF Waits, IInv, IndexInv
    <3>2. count' = 1 /\ pos' <= MaxLag + lag'
      BY <1>1, <1>3, <3>1
    <3>3. QED
      BY <1>1, <2>3, <3>2 DEF IndexInv
  <2>4. QED
    BY <2>1, <2>2, <2>3
<1>5. SeenInv'
  BY <1>1 DEF IInv, SeenInv
<1>6. QED
  BY <1>1, <1>2, <1>4, <1>5 DEF Local, ReadingInv, SearchInv, ScanInv, FollowInv, GateInv,
                                Searches, Reading

LEMMA TurnPrep ==
  ASSUME IInv, Turn, UNCHANGED <<test, line>>, pc = "prep"
  PROVE  Local'
<1>1. /\ UNCHANGED <<call, seen, pc, marks>>
      /\ \/ pos = TrackLen - 1 /\ pos' = 0
         \/ pos < TrackLen - 1 /\ pos' = pos + 1
      /\ count' = (IF pos' = 0 /\ count < 2 THEN count + 1 ELSE count) /\ count \in 0 .. 2
      /\ lag < MaxLag /\ lag' = lag + 1
      /\ lag \in 0 .. MaxLag /\ MaxLag \in Nat /\ TrackLen \in Nat /\ pos \in 0 .. TrackLen - 1
  BY TurnIs DEF Waits
<1>2. call = "scan"
  BY PlaceIs
<1>3. ASSUME count = 1, NEW m \in marks, m.kind = "id"
      PROVE  /\ IF m.sector <= Len(seen) THEN m.at < pos ELSE pos + (MaxLag - lag) <= m.at
             /\ m.at \in 0 .. TrackLen - 1
  BY <1>2, <1>3, MarkAt DEF IInv, ScanInv
<1>4. count \in 1 .. 2 /\ (count = 2 => Len(seen) = NrSectors)
  BY <1>2 DEF IInv, ScanInv
<1>5. count = 1 /\ pos' = 0 => Len(seen) = NrSectors
  <2>1. SUFFICES ASSUME count = 1, pos' = 0 PROVE Len(seen) = NrSectors
    OBVIOUS
  <2>2. ASSUME NEW m \in marks, m.kind = "id" PROVE m.sector <= Len(seen)
    <3>1. ~(pos + (MaxLag - lag) <= m.at)
      <4>1. m.at \in 0 .. TrackLen - 1
        BY <1>3, <2>1, <2>2
      <4>2. QED
        BY <1>1, <2>1, <4>1
    <3>2. QED
      BY <1>3, <2>1, <2>2, <3>1
  <2>3. QED
    BY <1>2, <2>2, AllSeen
<1>6. ASSUME count' = 1, NEW m \in marks, m.kind = "id"
      PROVE  IF m.sector <= Len(seen) THEN m.at < pos' ELSE pos' + (MaxLag - lag') <= m.at
  <2>1. count = 1 /\ pos' = pos + 1
    BY <1>1, <1>4, <1>6
  <2>2. /\ IF m.sector <= Len(seen) THEN m.at < pos ELSE pos + (MaxLag - lag) <= m.at
        /\ m.at \in 0 .. TrackLen - 1
    BY <1>3, <1>6, <2>1
  <2>3. QED
    BY <1>1, <2>1, <2>2
<1>7. ScanInv'
  <2>1. count' \in 1 .. 2 /\ (count' = 2 => Len(seen) = NrSectors)
    BY <1>1, <1>4, <1>5
  <2>2. /\ Len(seen) <= NrSectors /\ \A i \in 1 .. Len(seen) : seen[i].sector = i
        /\ \A m \in marks : m.kind = "id" /\ m.sector <= Len(seen)
                               => seen[m.sector].start - m.at \in 0 .. MaxLag
    BY <1>2 DEF IInv, ScanInv
  <2>3. QED
    BY <1>1, <1>6, <2>1, <2>2 DEF ScanInv, Reading
<1>8. QED
  BY <1>1, <1>2, <1>7 DEF Local, SeenInv, ReadingInv, SearchInv, FollowInv, IndexInv, GateInv,
                          Searches, Reading

LEMMA TurnSearch ==
  ASSUME IInv, Turn, UNCHANGED <<test, line>>, pc = "search"
  PROVE  Local'
<1>1. /\ UNCHANGED <<call, seen, pc, marks, id, fmt>>
      /\ \/ pos = TrackLen - 1 /\ pos' = 0
         \/ pos < TrackLen - 1 /\ pos' = pos + 1
      /\ count' = (IF pos' = 0 /\ count < 2 THEN count + 1 ELSE count) /\ count \in 0 .. 2
      /\ lag < MaxLag /\ lag' = lag + 1
      /\ lag \in 0 .. MaxLag /\ MaxLag \in Nat /\ TrackLen \in Nat /\ pos \in 0 .. TrackLen - 1
  BY TurnIs DEF Waits
<1>2. call \in Searches
  BY PlaceIs
<1>3. count < 2 /\ (count = 1 => \A m \in marks : Target(m) => pos + (MaxLag - lag) <= m.at)
  BY <1>2 DEF IInv, SearchInv
<1>4. \A m \in marks : m.at \in 0 .. TrackLen - 1 /\ m.at >= 2 * MaxLag
  <2>1. ASSUME NEW m \in marks PROVE m.at \in 2 * MaxLag .. TrackLen - 1
    <3>1. Amiga => m.at \in 2 * MaxLag .. TrackLen - 1
      BY TrackFacts DEF IInv, AmigaFacts
    <3>2. ~Amiga => m.at \in 3 * MaxLag .. TrackLen - 1
      BY TrackFacts DEF IInv, IbmFacts
    <3>3. QED
      BY <1>1, <3>1, <3>2
  <2>2. QED
    BY <1>1, <2>1
<1>5. PICK n \in marks : Target(n)
  BY HeaderAhead
<1>6. count = 1 => pos' = pos + 1
  <2>1. count = 1 => pos + (MaxLag - lag) <= n.at /\ n.at \in 0 .. TrackLen - 1
    BY <1>3, <1>4, <1>5
  <2>2. QED
    BY <1>1, <2>1
<1>7. count' < 2
  BY <1>1, <1>3, <1>6
<1>8. ASSUME count' = 1, NEW m \in marks, Target(m) PROVE pos' + (MaxLag - lag') <= m.at
  <2>1. m.at \in 0 .. TrackLen - 1 /\ m.at >= 2 * MaxLag
    BY <1>4
  <2>2. CASE count = 1
    <3>1. pos + (MaxLag - lag) <= m.at
      BY <1>3, <1>8, <2>2
    <3>2. QED
      BY <1>1, <1>6, <2>1, <2>2, <3>1
  <2>3. CASE count # 1
    <3>1. pos' = 0
      BY <1>1, <1>8, <2>3
    <3>2. QED
      BY <1>1, <2>1, <3>1
  <2>4. QED
    BY <2>2, <2>3
<1>9. SearchInv'
  BY <1>1, <1>7, <1>8 DEF SearchInv, Target, Amiga, Reading
<1>10. SeenInv'
  BY <1>1 DEF IInv, SeenInv
<1>11. QED
  BY <1>1, <1>2, <1>9, <1>10 DEF Local, ReadingInv, ScanInv, FollowInv, IndexInv, GateInv,
                                 Searches, Reading

LEMMA TurnSync ==
  ASSUME IInv, Turn, UNCHANGED <<test, line>>, pc = "sync"
  PROVE  Local'
<1>1. /\ UNCHANGED <<call, seen, marks, id, fmt>>
      /\ \/ pos = TrackLen - 1 /\ pos' = 0
         \/ pos < TrackLen - 1 /\ pos' = pos + 1
      /\ count' = (IF pos' = 0 /\ count < 2 THEN count + 1 ELSE count) /\ count \in 0 .. 2
      /\ lag = 0 /\ lag' = 0 /\ MaxLag \in Nat /\ TrackLen \in Nat
      /\ pos \in 0 .. TrackLen - 1 /\ pos' \in 0 .. TrackLen - 1
  BY TurnIs DEF Waits
<1>2. call \in Searches \cup {"scan"} /\ call # none
  BY PlaceIs DEF Searches, none
<1>3. \/ pc' = "sync" /\ \A m \in marks : m.at # pos
      \/ /\ pc' = "mark" /\ mark' \in marks /\ mark'.at = pos /\ left' = HeaderLen - 1
  BY MarkComes
<1>4. \A m \in marks : m.at \in 0 .. TrackLen - 1
  BY MarkAt DEF IInv
<1>5. \A m \in marks : m.kind = "id" \/ Target(m) => m.at < TrackLen - 1
  <2>1. HeaderLen \in Nat /\ HeaderLen > 0
    BY HeaderLenIs
  <2>2. SUFFICES ASSUME NEW m \in marks, m.kind = "id" \/ Target(m) PROVE m.at < TrackLen - 1
    OBVIOUS
  <2>3. m.at + HeaderLen < TrackLen /\ m.at \in 0 .. TrackLen - 1
    BY <1>4, <2>2, HeaderAhead
  <2>4. QED
    BY <1>1, <2>1, <2>3
<1>6. HeaderLen' = HeaderLen
  BY <1>1 DEF HeaderLen
<1>7. ReadingInv'
  <2>1. CASE pc' = "mark" /\ mark' \in marks /\ mark'.at = pos /\ left' = HeaderLen - 1
    <3>1. Gone' = Distance(pos, pos')
      BY <2>1 DEF Gone, Distance
    <3>2. Gone' = 1
      <4>1. Distance(pos, pos') = IF pos <= pos' THEN pos' - pos ELSE pos' - pos + TrackLen
        BY <1>1, DistanceIs
      <4>2. TrackLen > 1
        BY LongTrack, HeaderLenIs, Numbers
      <4>3. (IF pos <= pos' THEN pos' - pos ELSE pos' - pos + TrackLen) = 1
        <5>1. CASE pos = TrackLen - 1 /\ pos' = 0
          <6>1. ~(pos <= pos')
            BY <1>1, <4>2, <5>1
          <6>2. 0 - (TrackLen - 1) + TrackLen = 1
            BY <1>1
          <6>3. QED
            BY <5>1, <6>1, <6>2
        <5>2. CASE pos' = pos + 1
          BY <1>1, <5>2
        <5>3. QED
          BY <1>1, <5>1, <5>2
      <4>4. QED
        BY <3>1, <4>1, <4>3
    <3>3. left' = HeaderLen' - Gone' /\ Gone' = 1 + lag'
      BY <1>1, <1>6, <2>1, <3>2
    <3>4. QED
      BY <1>1, <2>1, <3>3 DEF ReadingInv
  <2>2. CASE pc' = "sync"
    BY <2>2 DEF ReadingInv, Reading
  <2>3. QED
    BY <1>3, <2>1, <2>2
<1>8. SearchInv'
  <2>1. SUFFICES ASSUME call \in Searches PROVE SearchInv'
    BY <1>1 DEF SearchInv
  <2>2. count < 2 /\ (count = 1 => \A m \in marks : Target(m) => pos <= m.at)
    BY <2>1 DEF IInv, SearchInv
  <2>3. PICK n \in marks : Target(n)
    BY HeaderAhead
  <2>4. count = 1 => pos' = pos + 1
    <3>1. n.at < TrackLen - 1 /\ n.at \in 0 .. TrackLen - 1
      BY <1>4, <1>5, <2>3
    <3>2. QED
      BY <1>1, <2>2, <2>3, <3>1
  <2>5. count' < 2
    BY <1>1, <2>2, <2>4
  <2>6. count' = 1 => count = 1 \/ pos' = 0
    BY <1>1
  <2>7. CASE pc' = "sync" /\ \A m \in marks : m.at # pos
    <3>1. ASSUME count' = 1, NEW m \in marks, Target(m) PROVE pos' <= m.at
      <4>1. m.at # pos /\ m.at \in 0 .. TrackLen - 1
        BY <1>4, <2>7
      <4>2. QED
        BY <1>1, <2>2, <2>4, <2>6, <3>1, <4>1
    <3>2. QED
      BY <1>1, <2>5, <2>7, <3>1 DEF SearchInv, Target, Amiga, Reading
  <2>8. CASE pc' = "mark" /\ mark' \in marks /\ mark'.at = pos
    <3>1. ASSUME count' = 1, NEW m \in marks, Target(m), pos' >= pos PROVE pos <= m.at
      <4>1. m.at \in 0 .. TrackLen - 1
        BY <1>4
      <4>2. QED
        BY <1>1, <2>2, <2>6, <3>1, <4>1
    <3>2. QED
      BY <1>1, <2>5, <2>8, <3>1 DEF SearchInv, Target, Amiga, Reading
  <2>9. QED
    BY <1>3, <2>7, <2>8
<1>9. ScanInv'
  <2>1. SUFFICES ASSUME call = "scan" PROVE ScanInv'
    BY <1>1 DEF ScanInv
  <2>2. /\ count \in 1 .. 2 /\ Len(seen) <= NrSectors
        /\ \A i \in 1 .. Len(seen) : seen[i].sector = i
        /\ \A m \in marks : m.kind = "id" /\ m.sector <= Len(seen)
                               => seen[m.sector].start - m.at \in 0 .. MaxLag
        /\ count = 2 => Len(seen) = NrSectors
        /\ count = 1 => \A m \in marks : m.kind = "id" =>
             IF m.sector <= Len(seen) THEN m.at < pos ELSE pos <= m.at
    BY <2>1 DEF IInv, ScanInv
  <2>3. count = 1 /\ pos' = 0 => Len(seen) = NrSectors
    <3>1. SUFFICES ASSUME count = 1, pos' = 0 PROVE Len(seen) = NrSectors
      OBVIOUS
    <3>2. ASSUME NEW m \in marks, m.kind = "id" PROVE m.sector <= Len(seen)
      <4>1. m.at < TrackLen - 1 /\ m.at \in 0 .. TrackLen - 1
        BY <1>4, <1>5, <3>2
      <4>2. ~(pos <= m.at)
        BY <1>1, <3>1, <4>1
      <4>3. QED
        BY <2>2, <3>1, <3>2, <4>2
    <3>3. QED
      BY <2>1, <3>2, AllSeen
  <2>4. count' \in 1 .. 2 /\ (count' = 2 => Len(seen) = NrSectors)
    BY <1>1, <2>2, <2>3
  <2>5. count' = 1 => count = 1 /\ pos' = pos + 1
    BY <1>1, <2>2
  <2>6. CASE pc' = "sync" /\ \A m \in marks : m.at # pos
    <3>1. ASSUME count' = 1, NEW m \in marks, m.kind = "id"
          PROVE  IF m.sector <= Len(seen) THEN m.at < pos' ELSE pos' <= m.at
      <4>1. m.at # pos /\ m.at \in 0 .. TrackLen - 1
        BY <1>4, <2>6
      <4>2. IF m.sector <= Len(seen) THEN m.at < pos ELSE pos <= m.at
        BY <2>2, <2>5, <3>1
      <4>3. QED
        BY <1>1, <2>5, <3>1, <4>1, <4>2
    <3>2. QED
      BY <1>1, <2>1, <2>2, <2>4, <2>6, <3>1 DEF ScanInv, Reading
  <2>7. CASE pc' = "mark" /\ mark' \in marks /\ mark'.at = pos
    <3>1. ASSUME count' = 1, NEW m \in marks, m.kind = "id"
          PROVE  mark'.at < pos' /\ (m.sector <= Len(seen) <=> m.at < mark'.at)
      <4>1. m.at \in 0 .. TrackLen - 1
        BY <1>4
      <4>2. IF m.sector <= Len(seen) THEN m.at < pos ELSE pos <= m.at
        BY <2>2, <2>5, <3>1
      <4>3. pos < pos' /\ (m.sector <= Len(seen) <=> m.at < pos)
        BY <1>1, <2>5, <3>1, <4>1, <4>2
      <4>4. QED
        BY <2>7, <4>3
    <3>2. QED
      BY <1>1, <2>1, <2>2, <2>4, <2>7, <3>1 DEF ScanInv, Reading
  <2>8. QED
    BY <1>3, <2>6, <2>7
<1>10. SeenInv'
  BY <1>1, <1>3 DEF IInv, SeenInv
<1>11. QED
  BY <1>1, <1>2, <1>3, <1>7, <1>8, <1>9, <1>10 DEF Local, FollowInv, IndexInv, GateInv

LEMMA TurnReading ==
  ASSUME IInv, Turn, UNCHANGED <<test, line>>, pc \in Reading
  PROVE  Local'
<1>1. /\ UNCHANGED <<pc, call, seen, marks, fmt, start, mark>>
      /\ lag \in 0 .. MaxLag /\ MaxLag \in Nat /\ left \in Int
      /\ Waits => lag = 0 /\ lag' = 0
      /\ ~Waits => lag < MaxLag /\ lag' = lag + 1
      /\ left' = (IF left > 0 THEN left - 1 ELSE 0)
      /\ wait' = (IF wait > 0 THEN wait - 1 ELSE 0)
  BY TurnIs DEF Reading
<1>2. Gone' = Gone + 1 /\ mark \in marks /\ SearchInv' /\ ScanInv'
  BY ReadingTurns
<1>3. Gone \in Nat /\ HeaderLen \in Nat /\ HeaderLen > MaxLag
  BY GoneIs, HeaderLenIs DEF IInv
<1>4. HeaderLen' = HeaderLen
  BY <1>1 DEF HeaderLen
<1>5. pc # "mark" /\ mark.kind = "id" => start - mark.at \in 0 .. MaxLag
  BY DEF IInv, ReadingInv
<1>6. ReadingInv'
  <2>1. CASE pc = "mark"
    <3>1. Gone = 1 + lag /\ left = HeaderLen - Gone /\ ~Waits
      BY <2>1 DEF IInv, ReadingInv, Reading, Waits
    <3>2. Gone' = 1 + lag' /\ left' = HeaderLen - Gone'
      BY <1>1, <1>2, <1>3, <3>1
    <3>3. QED
      BY <1>1, <1>2, <1>4, <2>1, <3>2 DEF ReadingInv
  <2>2. CASE pc = "bytes"
    <3>1. left \in Nat /\ Gone = HeaderLen - left + (IF left = 0 THEN lag ELSE 0)
          /\ (Waits <=> left > 0)
      BY <2>2 DEF IInv, ReadingInv, Reading, Waits
    <3>2. left' \in Nat /\ Gone' = HeaderLen - left' + (IF left' = 0 THEN lag' ELSE 0)
      <4>1. CASE left > 0
        BY <1>1, <1>2, <1>3, <3>1, <4>1
      <4>2. CASE left = 0
        BY <1>1, <1>2, <1>3, <3>1, <4>2
      <4>3. QED
        BY <3>1, <4>1, <4>2
    <3>3. QED
      BY <1>1, <1>2, <1>4, <1>5, <2>2, <3>2 DEF ReadingInv
  <2>3. CASE pc = "check"
    <3>1. Gone - HeaderLen \in lag .. MaxLag + lag /\ ~Waits
      BY <2>3 DEF IInv, ReadingInv, Reading, Waits
    <3>2. Gone' - HeaderLen \in lag' .. MaxLag + lag'
      BY <1>1, <1>2, <1>3, <3>1
    <3>3. QED
      BY <1>1, <1>2, <1>4, <1>5, <2>3, <3>2 DEF ReadingInv
  <2>4. QED
    BY <2>1, <2>2, <2>3 DEF Reading
<1>7. GateInv'
  <2>1. CASE pc = "check" /\ call = "write"
    <3>1. wait = Gap2 - lag /\ ~Waits
      BY <2>1 DEF IInv, GateInv, Waits
    <3>2. Gap2 \in Nat /\ MaxLag <= Gap2
      BY Numbers, LagAssumption
    <3>3. wait' = Gap2 - lag'
      BY <1>1, <3>1, <3>2
    <3>4. QED
      BY <1>1, <2>1, <3>3 DEF GateInv
  <2>2. CASE ~(pc = "check" /\ call = "write")
    BY <1>1, <2>2 DEF GateInv, Reading
  <2>3. QED
    BY <2>1, <2>2
<1>8. SeenInv'
  BY <1>1 DEF IInv, SeenInv
<1>9. QED
  BY <1>1, <1>2, <1>6, <1>7, <1>8 DEF Local, FollowInv, IndexInv, Reading

LEMMA TurnData ==
  ASSUME IInv, Turn, UNCHANGED <<test, line>>, pc = "data"
  PROVE  Local'
<1>1. /\ UNCHANGED <<pc, call, seen, marks, fmt, id>>
      /\ \/ pos = TrackLen - 1 /\ pos' = 0
         \/ pos < TrackLen - 1 /\ pos' = pos + 1
      /\ lag < MaxLag /\ lag' = lag + 1 /\ MaxLag \in Nat /\ TrackLen \in Nat /\ lag \in 0 .. MaxLag
      /\ pos \in 0 .. TrackLen - 1 /\ pos' \in 0 .. TrackLen - 1
  BY TurnIs DEF Waits
<1>2. call \in {"read", "amiga_read"}
  BY PlaceIs
<1>3. HeaderLen \in Nat /\ HeaderLen + 3 * MaxLag < TrackLen /\ HeaderLen' = HeaderLen
  BY <1>1, LongTrack, HeaderLenIs DEF HeaderLen
<1>4. ASSUME NEW m \in marks, NEW n \in marks, Target(m), NextData(n)
      PROVE  Distance(m.at, pos') - HeaderLen \in 0 .. 2 * MaxLag + lag'
  <2> DEFINE a == m.at
             x == Distance(a, pos)
             y == Distance(a, pos')
  <2>1. x - HeaderLen \in 0 .. 2 * MaxLag + lag
    BY <1>4 DEF IInv, FollowInv
  <2>2. a \in 0 .. TrackLen - 1
    BY MarkAt DEF IInv
  <2>3. /\ x = IF a <= pos THEN pos - a ELSE pos - a + TrackLen
        /\ y = IF a <= pos' THEN pos' - a ELSE pos' - a + TrackLen
    BY <1>1, <2>2, DistanceIs
  <2> HIDE DEF a, x, y
  <2>4. ASSUME NEW p \in 0 .. TrackLen - 1, NEW q \in 0 .. TrackLen - 1,
               (p = TrackLen - 1 /\ q = 0) \/ (p < TrackLen - 1 /\ q = p + 1),
               x = (IF a <= p THEN p - a ELSE p - a + TrackLen), x < TrackLen - 1
        PROVE  (IF a <= q THEN q - a ELSE q - a + TrackLen) = x + 1
    BY <1>1, <2>2, <2>4
  <2>5. x < TrackLen - 1 /\ x \in Int
    <3>1. x \in Int
      BY <1>1, <2>2, <2>3
    <3>2. QED
      BY <1>1, <1>3, <2>1, <3>1
  <2>6. (IF a <= pos' THEN pos' - a ELSE pos' - a + TrackLen) = x + 1
    BY <1>1, <2>3, <2>4, <2>5
  <2>7. y = x + 1
    BY <2>3, <2>6
  <2>8. y - HeaderLen \in 0 .. 2 * MaxLag + lag'
    BY <1>1, <1>3, <2>1, <2>5, <2>7
  <2>9. QED
    BY <2>8 DEF y, a
<1>5. FollowInv'
  BY <1>1, <1>3, <1>4 DEF FollowInv, Target, NextData, Amiga
<1>6. SeenInv'
  BY <1>1 DEF IInv, SeenInv
<1>7. QED
  BY <1>1, <1>2, <1>5, <1>6 DEF Local, ReadingInv, SearchInv, ScanInv, IndexInv, GateInv, Reading

\* The mark that comes after a header is the data that was read for.
LEMMA NextIs ==
  ASSUME IInv, NEW k \in marks, k.at = pos, pc = "datasync"
  PROVE  NextData(k)
<1>1. PICK m \in marks : Target(m)
  BY HeaderAhead
<1>2. /\ k.at \in 0 .. TrackLen - 1 /\ m.at \in 0 .. TrackLen - 1 /\ pos \in 0 .. TrackLen - 1
      /\ k.sector \in Nat /\ id \in Nat /\ NrSectors \in Nat /\ id \in Sectors
      /\ k.sector \in 1 .. NrSectors /\ m.sector \in Nat /\ 1 \in Sectors
  BY <1>1, MarkAt, Numbers DEF IInv, TypeOK
<1>3. ASSUME NEW n \in marks, NextData(n)
      PROVE  /\ m.at < n.at => m.at < pos /\ pos <= n.at
             /\ ~(m.at < n.at) => m.at < pos \/ pos <= n.at
             /\ n.at \in 0 .. TrackLen - 1 /\ n.sector \in Nat
  BY <1>1, <1>3, MarkAt, Numbers DEF IInv, FollowInv
<1>4. CASE ~Amiga
  <2>1. IbmFacts /\ Spaced
    BY <1>4, TrackFacts DEF IInv
  <2>2. m.kind = "id" /\ m.sector = id
    BY <1>1, <1>4 DEF Target
  <2>3. PICK n \in marks : n.kind = "data" /\ n.sector = id
    BY <1>2, <2>1 DEF IbmFacts
  <2>4. m.at < n.at
    BY <1>2, <2>1, <2>2, <2>3 DEF IbmFacts
  <2>5. NextData(n)
    BY <1>4, <2>3 DEF NextData
  <2>6. m.at < k.at /\ k.at <= n.at
    BY <1>3, <2>4, <2>5
  <2>7. CASE k.kind = "id"
    <3>1. k.at # n.at
      BY <2>1, <2>3, <2>7 DEF Spaced
    <3>2. k.at < n.at
      BY <1>2, <1>3, <2>5, <2>6, <3>1
    <3>3. k.sector <= id
      BY <2>1, <2>3, <2>7, <3>2 DEF IbmFacts
    <3>4. k.sector < id => k.at < m.at
      BY <2>1, <2>2, <2>7 DEF IbmFacts
    <3>5. k.sector = id => k = m
      BY <2>1, <2>2, <2>7 DEF IbmFacts
    <3>6. QED
      BY <1>2, <2>6, <3>3, <3>4, <3>5
  <2>8. CASE k.kind = "data"
    <3>1. id <= k.sector
      BY <2>1, <2>2, <2>6, <2>8 DEF IbmFacts
    <3>2. id < k.sector => n.at < k.at
      BY <2>1, <2>3, <2>8 DEF IbmFacts
    <3>3. k.sector = id
      BY <1>2, <1>3, <2>5, <2>6, <3>1, <3>2
    <3>4. QED
      BY <1>4, <2>8, <3>3 DEF NextData
  <2>9. QED
    BY <2>1, <2>7, <2>8 DEF IbmFacts
<1>5. CASE Amiga
  <2>1. AmigaFacts
    BY <1>5, TrackFacts DEF IInv
  <2>2. m.sector = NrSectors
    BY <1>1, <1>5 DEF Target
  <2>3. PICK n \in marks : n.sector = 1
    BY <1>2, <2>1 DEF AmigaFacts
  <2>4. NextData(n)
    BY <1>5, <2>3 DEF NextData
  <2>5. k.sector < NrSectors => k.at < m.at
    BY <2>1, <2>2 DEF AmigaFacts
  <2>6. k.sector = NrSectors => k = m
    BY <2>1, <2>2 DEF AmigaFacts
  <2>7. ~(m.at < k.at)
    BY <1>2, <2>5, <2>6
  <2>8. k.at <= n.at
    BY <1>2, <1>3, <2>4, <2>7
  <2>9. 1 < k.sector => n.at < k.at
    BY <2>1, <2>3 DEF AmigaFacts
  <2>10. k.sector = 1
    BY <1>2, <1>3, <2>4, <2>8, <2>9
  <2>11. QED
    BY <1>5, <2>10 DEF NextData
<1>6. QED
  BY <1>4, <1>5

LEMMA TurnDatasync ==
  ASSUME IInv, Turn, UNCHANGED <<test, line>>, pc = "datasync"
  PROVE  Local'
<1>1. /\ UNCHANGED <<call, seen, marks, id, fmt>>
      /\ \/ pos = TrackLen - 1 /\ pos' = 0
         \/ pos < TrackLen - 1 /\ pos' = pos + 1
      /\ TrackLen \in Nat /\ pos \in 0 .. TrackLen - 1 /\ pos' \in 0 .. TrackLen - 1
  BY TurnIs
<1>2. call \in {"read", "amiga_read"}
  BY PlaceIs
<1>3. \/ pc' = "datasync" /\ \A m \in marks : m.at # pos
      \/ /\ pc' = "databytes" /\ mark' \in marks /\ mark'.at = pos /\ left' = ReadLen - 1
  BY MarkComes
<1>4. FollowInv'
  <2>1. CASE pc' = "datasync" /\ \A m \in marks : m.at # pos
    <3>1. ASSUME NEW m \in marks, NEW n \in marks, Target(m), NextData(n)
          PROVE  IF m.at < n.at THEN m.at < pos' /\ pos' <= n.at ELSE m.at < pos' \/ pos' <= n.at
      <4>1. IF m.at < n.at THEN m.at < pos /\ pos <= n.at ELSE m.at < pos \/ pos <= n.at
        BY <3>1 DEF IInv, FollowInv
      <4>2. m.at \in 0 .. TrackLen - 1 /\ n.at \in 0 .. TrackLen - 1 /\ m.at # pos /\ n.at # pos
        BY <2>1, MarkAt DEF IInv
      <4> DEFINE a == m.at
                 b == n.at
      <4>3. a \in 0 .. TrackLen - 1 /\ b \in 0 .. TrackLen - 1 /\ a # pos /\ b # pos
            /\ IF a < b THEN a < pos /\ pos <= b ELSE a < pos \/ pos <= b
        BY <4>1, <4>2
      <4> HIDE DEF a, b
      <4>4. IF a < b THEN a < pos' /\ pos' <= b ELSE a < pos' \/ pos' <= b
        BY <1>1, <4>3
      <4>5. QED
        BY <4>4 DEF a, b
    <3>2. QED
      BY <1>1, <2>1, <3>1 DEF FollowInv, Target, NextData, Amiga
  <2>2. CASE pc' = "databytes" /\ mark' \in marks /\ mark'.at = pos /\ left' = ReadLen - 1
    <3>1. left' >= 0
      BY <2>2, ReadLenIs
    <3>2. \A k \in marks : k.at = pos => NextData(k)
      BY NextIs
    <3>3. NextData(mark')
      BY <2>2, <3>2
    <3>4. NextData(mark)'
      BY <1>1, <3>3 DEF NextData, Amiga
    <3>5. QED
      BY <1>1, <2>2, <3>1, <3>4 DEF FollowInv
  <2>3. QED
    BY <1>3, <2>1, <2>2
<1>5. SeenInv'
  BY <1>1, <1>3 DEF IInv, SeenInv
<1>6. QED
  BY <1>1, <1>2, <1>3, <1>4, <1>5 DEF Local, ReadingInv, SearchInv, ScanInv, IndexInv, GateInv, Reading

LEMMA TurnDatabytes ==
  ASSUME IInv, Turn, UNCHANGED <<test, line>>, pc = "databytes"
  PROVE  Local'
<1>1. /\ UNCHANGED <<pc, call, seen, marks, id, fmt, mark>> /\ left \in Int
      /\ left' = (IF left > 0 THEN left - 1 ELSE 0)
  BY TurnIs
<1>2. call \in {"read", "amiga_read"}
  BY PlaceIs
<1>3. FollowInv'
  <2>1. left' >= 0
    BY <1>1
  <2>2. mark \in marks /\ NextData(mark)
    BY DEF IInv, FollowInv
  <2>3. NextData(mark)'
    BY <1>1, <2>2 DEF NextData, Amiga
  <2>4. QED
    BY <1>1, <2>1, <2>2, <2>3 DEF FollowInv
<1>4. SeenInv'
  BY <1>1 DEF IInv, SeenInv
<1>5. QED
  BY <1>1, <1>2, <1>3, <1>4 DEF Local, ReadingInv, SearchInv, ScanInv, IndexInv, GateInv, Reading

LEMMA TurnDelay ==
  ASSUME IInv, Turn, UNCHANGED <<test, line>>, pc = "delay"
  PROVE  Local'
<1>1. /\ UNCHANGED <<pc, call, seen, marks, id, fmt>> /\ wait \in Nat
      /\ \/ pos = TrackLen - 1 /\ pos' = 0
         \/ pos < TrackLen - 1 /\ pos' = pos + 1
      /\ wait' = (IF wait > 0 THEN wait - 1 ELSE 0)
      /\ wait > 0 => lag = 0 /\ lag' = 0
      /\ wait = 0 => lag < MaxLag /\ lag' = lag + 1
      /\ MaxLag \in Nat /\ TrackLen \in Nat /\ lag \in 0 .. MaxLag /\ pos \in 0 .. TrackLen - 1
  BY TurnIs DEF Waits
<1>2. call = "write" /\ ~Amiga /\ IbmFacts
  BY PlaceIs, InsideCall, TrackFacts DEF IInv
<1>3. ASSUME NEW m \in marks, Target(m)
      PROVE  /\ pos' > m.at
             /\ pos' + wait' - (m.at + HdrLen + Gap2) \in 0 .. MaxLag + (IF wait' = 0 THEN lag' ELSE 0)
  <2>1. PICK n \in marks : n.kind = "data" /\ n.sector = id
    BY <1>2 DEF IInv, TypeOK, IbmFacts
  <2>2. m.kind = "id" /\ m.sector = id
    BY <1>2, <1>3 DEF Target
  <2> DEFINE a == m.at
             b == n.at
  <2>3. b - (a + HdrLen + Gap2 + GapSync) \in 0 .. 2 * MaxLag
    BY <1>2, <2>1, <2>2, Numbers DEF IbmFacts
  <2>4. a \in 0 .. TrackLen - 1 /\ b \in 0 .. TrackLen - 1
    BY MarkAt DEF IInv
  <2>5. pos > a /\ pos + wait - (a + HdrLen + Gap2) \in 0 .. MaxLag + (IF wait = 0 THEN lag ELSE 0)
    BY <1>3 DEF IInv, GateInv
  <2>6. HdrLen \in Nat /\ Gap2 \in Nat /\ GapSync \in Nat /\ 3 * MaxLag <= GapSync /\ GapSync > 0
    BY Numbers, LagAssumption
  <2> HIDE DEF a, b
  <2>7. CASE wait > 0
    <3>1. pos + wait - (a + HdrLen + Gap2) \in 0 .. MaxLag
      BY <1>1, <2>5, <2>7
    <3>2. pos < TrackLen - 1
      BY <1>1, <2>3, <2>4, <2>6, <2>7, <3>1
    <3>3. pos' = pos + 1 /\ wait' = wait - 1 /\ lag' = 0
      BY <1>1, <2>7, <3>2
    <3>4. pos' > a /\ pos' + wait' - (a + HdrLen + Gap2) \in 0 .. MaxLag
      BY <1>1, <2>4, <2>5, <2>6, <2>7, <3>1, <3>3
    <3>5. MaxLag + (IF wait' = 0 THEN lag' ELSE 0) = MaxLag
      BY <1>1, <3>3
    <3>6. pos' + wait' - (a + HdrLen + Gap2) \in 0 .. MaxLag + (IF wait' = 0 THEN lag' ELSE 0)
      BY <3>4, <3>5
    <3>7. QED
      BY <3>4, <3>6 DEF a
  <2>8. CASE wait = 0
    <3>1. pos - (a + HdrLen + Gap2) \in 0 .. MaxLag + lag
      BY <1>1, <2>4, <2>5, <2>6, <2>8
    <3>2. pos < TrackLen - 1
      BY <1>1, <2>3, <2>4, <2>6, <2>8, <3>1
    <3>3. pos' = pos + 1 /\ wait' = 0 /\ lag' = lag + 1
      BY <1>1, <2>8, <3>2
    <3>4. pos' > a /\ pos' + 0 - (a + HdrLen + Gap2) \in 0 .. MaxLag + lag'
      BY <1>1, <2>4, <2>5, <2>6, <3>1, <3>3
    <3>5. QED
      BY <3>3, <3>4 DEF a
  <2>9. QED
    BY <1>1, <2>7, <2>8
<1>4. GateInv'
  BY <1>1, <1>3 DEF GateInv, Target, Amiga
<1>5. SeenInv'
  BY <1>1 DEF IInv, SeenInv
<1>6. QED
  BY <1>1, <1>2, <1>4, <1>5 DEF Local, ReadingInv, SearchInv, ScanInv, IndexInv, FollowInv, Reading

LEMMA TurnWriting ==
  ASSUME IInv, Turn, UNCHANGED <<test, line>>, pc = "writing"
  PROVE  Local'
<1>1. /\ UNCHANGED <<pc, call, seen, marks, id, fmt, begin, stop, gap3>> /\ left \in Int
      /\ \/ pos = TrackLen - 1 /\ pos' = 0
         \/ pos < TrackLen - 1 /\ pos' = pos + 1
      /\ left' = left - 1
      /\ count' = (IF pos' = 0 /\ count < 2 THEN count + 1 ELSE count) /\ count \in 0 .. 2
      /\ ~WriteOver => lag = 0 /\ lag' = 0
      /\ WriteOver => lag < MaxLag /\ lag' = lag + 1
      /\ MaxLag \in Nat /\ TrackLen \in Nat /\ lag \in 0 .. MaxLag /\ pos \in 0 .. TrackLen - 1
  BY TurnIs DEF Waits
<1>2. call \in Writes
  BY PlaceIs
<1>3. left' >= -lag'
  <2>1. left >= -lag
    BY DEF IInv, GateInv
  <2>2. CASE WriteOver
    BY <1>1, <2>1, <2>2
  <2>3. CASE ~WriteOver
    <3>1. left > 0
      BY <1>1, <2>3 DEF WriteOver
    <3>2. QED
      BY <1>1, <2>3, <3>1
  <2>4. QED
    BY <2>2, <2>3
<1>4. ASSUME call \in WholeTrack
      PROVE  /\ begin \in Late /\ stop = 2 /\ count' \in 1 .. 2
             /\ begin + (WriteLen - left') = IF count' = 1 THEN pos' ELSE pos' + TrackLen
             /\ count' = 2 => pos' <= lag'
  <2>1. /\ begin \in Late /\ stop = 2 /\ count \in 1 .. 2
        /\ begin + (WriteLen - left) = IF count = 1 THEN pos ELSE pos + TrackLen
        /\ count = 2 => pos <= lag
    BY <1>4 DEF IInv, GateInv
  <2>2. WriteLen \in Nat /\ begin \in Nat
    BY <1>2, <2>1, WriteLenIs, Numbers DEF IInv
  <2>3. MaxLag < TrackLen - 1
    BY <1>1, LongTrack, HeaderLenIs
  <2>4. begin + (WriteLen - left') = begin + (WriteLen - left) + 1
    BY <1>1, <2>2
  <2>5. CASE count = 2
    <3>1. WriteOver
      BY <1>4, <2>1, <2>5 DEF WriteOver, WholeTrack
    <3>2. pos' = pos + 1 /\ count' = 2 /\ pos' <= lag'
      BY <1>1, <2>1, <2>3, <2>5, <3>1
    <3>3. QED
      BY <1>1, <2>1, <2>4, <2>5, <3>2
  <2>6. CASE count = 1 /\ pos' = 0
    <3>1. pos = TrackLen - 1 /\ count' = 2 /\ lag' >= 0
      BY <1>1, <2>6
    <3>2. QED
      BY <1>1, <2>1, <2>4, <2>6, <3>1
  <2>7. CASE count = 1 /\ pos' # 0
    <3>1. pos' = pos + 1 /\ count' = 1
      BY <1>1, <2>7
    <3>2. QED
      BY <1>1, <2>1, <2>4, <2>7, <3>1
  <2>8. QED
    BY <2>1, <2>5, <2>6, <2>7
<1>5. GateInv'
  <2>1. WriteLen' = WriteLen
    BY <1>1 DEF WriteLen
  <2>2. call = "write" => \A m \in marks : Target(m) => begin - (m.at + HdrLen + Gap2) \in Late
    BY DEF IInv, GateInv
  <2>3. QED
    BY <1>1, <1>3, <1>4, <2>1, <2>2 DEF GateInv, Target, Amiga
<1>6. SeenInv'
  BY <1>1 DEF IInv, SeenInv
<1>7. QED
  BY <1>1, <1>2, <1>5, <1>6 DEF Local, ReadingInv, SearchInv, ScanInv, IndexInv, FollowInv, Reading, Writes

LEMMA TurnStep ==
  ASSUME IInv, Turn, UNCHANGED <<test, line>>
  PROVE  IInv'
<1>1. Local'
  BY TurnIdle, TurnIndex, TurnPrep, TurnSearch, TurnSync, TurnReading, TurnData, TurnDatasync,
     TurnDatabytes, TurnDelay, TurnWriting DEF IInv, TypeOK, Reading
<1>2. QED
  BY <1>1, TurnTypeOK, TurnProgram DEF IInv, Local

(***************************************************************************)
(* The invariant is one.                                                   *)
(***************************************************************************)
LEMMA InitInv ==
  ASSUME InitTests
  PROVE  IInv
<1>1. /\ pc = "idle" /\ call = none /\ id = 1 /\ gap3 = Gap3 /\ seen = <<>> /\ start = 0 /\ wait = 0
      /\ mark = NoMark /\ left = 0 /\ stop = 0 /\ begin = 0 /\ count = 0 /\ warned = FALSE
      /\ fmt \in Formats /\ pos \in 0 .. TrackLen - 1 /\ content = Blank /\ lag = 0
      /\ marks = (IF Amiga THEN AmigaLayout(0, Blank) ELSE IbmLayout(0, Blank))
      /\ test = <<>> /\ line = 0
  BY DEF InitTests, Init, Amiga
<1>2. 0 \in Late /\ Blank \in [Sectors -> Values] /\ 1 \in Sectors
  BY Numbers, SectorAssumption DEF Blank
<1>3. LayoutInv
  BY <1>1, <1>2, Formatted DEF LayoutInv
<1>4. TypeOK
  <2>1. marks \subseteq MarkType
    BY <1>1, <1>2, Formatted, IbmType, AmigaType
  <2>2. gap3 \in 0 .. Gap3 /\ 0 \in 0 .. MaxLag /\ 0 \in 0 .. TrackLen - 1 /\ 0 \in 0 .. 2
    BY <1>1, Numbers
  <2>3. seen \in Seq([sector : Sectors, start : Int])
    BY <1>1
  <2>4. mark \in MarkType /\ content \in [Sectors -> Values] /\ id \in Sectors /\ fmt \in Formats
    BY <1>1, <1>2, NoMarkType
  <2>5. /\ pc = "idle" /\ start = 0 /\ count = 0 /\ wait = 0 /\ left = 0 /\ stop = 0 /\ begin = 0
        /\ lag = 0 /\ warned = FALSE /\ pos \in 0 .. TrackLen - 1
    BY <1>1, Zenon
  <2>6. warned \in BOOLEAN
    BY <2>5, Zenon
  <2>7. start \in Int /\ wait \in Nat /\ left \in Int /\ stop \in Int
    <3>1. 0 \in Int /\ 0 \in Nat
      OBVIOUS
    <3>2. QED
      BY <2>5, <3>1, Zenon
  <2>8. count \in 0 .. 2 /\ begin \in 0 .. TrackLen - 1 /\ lag \in 0 .. MaxLag
    BY <2>2, <2>5, Zenon
  <2>9. QED
    BY <2>1, <2>2, <2>3, <2>4, <2>5, <2>6, <2>7, <2>8, Zenon DEF TypeOK
<1>5. Program /\ DataInv
  <2>1. Places(none) = {"idle"}
    BY DEF Places, none, WholeTrack
  <2>2. QED
    BY <1>1, <2>1 DEF Program, DataInv
<1>6. SeenInv /\ ReadingInv /\ SearchInv /\ ScanInv /\ FollowInv /\ IndexInv /\ GateInv
  BY <1>1, BetweenCalls
<1>7. QED
  BY <1>1, <1>3, <1>4, <1>5, <1>6 DEF IInv

LEMMA NextInv ==
  ASSUME IInv, [Next]_allvars
  PROVE  IInv'
<1>1. CASE UNCHANGED allvars
  <2>1. UNCHANGED <<pc, call, id, data, gap3, seen, start, count, wait, result, warned, fmt, pos, marks,
                    content, mark, left, stop, begin, lag, test, line>>
    BY <1>1 DEF allvars, vars, params, disk, write
  <2>2. TypeOK' /\ ~warned'
    BY <2>1 DEF IInv, TypeOK
  <2>3. Program'
    BY <2>1 DEF IInv, Program, TestsOf, Places, Waits, WriteOver
  <2>4. DataInv' /\ LayoutInv'
    BY <2>1 DEF IInv, DataInv, LayoutInv, WriteLine, Amiga
  <2>5. SeenInv' /\ ScanInv' /\ IndexInv'
    BY <2>1 DEF IInv, SeenInv, ScanInv, IndexInv
  <2>6. ReadingInv'
    BY <2>1 DEF IInv, ReadingInv, Gone, HeaderLen, Distance
  <2>7. SearchInv' /\ FollowInv'
    BY <2>1 DEF IInv, SearchInv, FollowInv, Target, NextData, Amiga, Distance, HeaderLen
  <2>8. GateInv'
    BY <2>1 DEF IInv, GateInv, Target, Amiga, WriteLen
  <2>9. QED
    BY <2>2, <2>3, <2>4, <2>5, <2>6, <2>7, <2>8 DEF IInv
<1>2. CASE \E t \in TestsOf(fmt) : Begin(t)
  BY <1>2, BeginStep
<1>3. CASE Calls
  BY <1>3, CallsStep
<1>4. CASE Return
  BY <1>4, ReturnStep
<1>5. CASE InCall /\ UNCHANGED <<test, line>>
  BY <1>5, IndexSeenStep, SearchPrepStep, ScanPrepStep, SyncSeenStep, ReadEndsStep, ScanGoesOnStep,
     ScanEndsStep, CheckStep, DataPrepStep, DataEndsStep, TrackEndsStep, OpenGateStep, CloseGateStep
     DEF InCall
<1>6. CASE Rotate
  BY <1>6, TurnStep DEF Rotate
<1>7. QED
  BY <1>1, <1>2, <1>3, <1>4, <1>5, <1>6 DEF Next, Thread

(***************************************************************************)
(* The theorems.                                                           *)
(***************************************************************************)
\* The marks of the track and the thread's knowledge of the disk's position
\* agree in every statement of every test.
THEOREM PositionIsKnown == Spec => []IInv
<1>1. InitTests => IInv
  BY InitInv
<1>2. IInv /\ [Next]_allvars => IInv'
  BY NextInv
<1>3. QED
  BY <1>1, <1>2, PTL DEF Spec

\* No test blames a healthy disk.
THEOREM HealthyTrackPasses == Spec => []NoWarn
<1>1. IInv => NoWarn
  BY DEF IInv, NoWarn
<1>2. QED
  BY <1>1, PositionIsKnown, PTL

\* The gap that a scan measures is that of the track, up to the lateness of a
\* step, if there are two sectors to measure it between.
THEOREM GapIsMeasured ==
  ASSUME NrSectors >= 2
  PROVE  Spec => []GapMeasured
<1>1. IInv => GapMeasured
  <2> SUFFICES ASSUME IInv, pc = "returned", call = "scan"
               PROVE  Len(seen) >= 2 /\ Gap3Of(seen) \in Gap3 - MaxLag .. Gap3 + MaxLag
    BY DEF GapMeasured
  <2>1. Len(seen) = NrSectors
    BY DEF IInv, ScanInv
  <2>2. QED
    BY <2>1, GapIs
<1>2. QED
  BY <1>1, PositionIsKnown, PTL

\* The mark after a header is the data of its sector.
LEMMA DataFollows ==
  ASSUME IInv, ~Amiga, NEW m \in marks, NEW n \in marks, m.kind = "id", n.kind = "data",
         m.sector = n.sector
  PROVE  Next1(m) = n
<1>1. IbmFacts /\ Spaced
  BY TrackFacts DEF IInv
<1>2. m.at < n.at /\ m.sector \in Nat
  BY <1>1, MarkAt, Numbers DEF IInv, IbmFacts
<1>3. ASSUME NEW k \in marks \ {m, n}
      PROVE  Distance(m.at, n.at) < Distance(m.at, k.at)
  <2> DEFINE a == m.at
             b == n.at
             c == k.at
  <2>1. /\ a \in 0 .. TrackLen - 1 /\ b \in 0 .. TrackLen - 1 /\ c \in 0 .. TrackLen - 1
        /\ k.sector \in Nat /\ k.kind \in {"id", "data"}
    BY <1>1, MarkAt, Numbers DEF IInv, IbmFacts
  <2>2. /\ Distance(a, b) = IF a <= b THEN b - a ELSE b - a + TrackLen
        /\ Distance(a, c) = IF a <= c THEN c - a ELSE c - a + TrackLen
    BY <2>1, DistanceIs
  <2>3. c < a \/ b < c
    <3>1. k.at # m.at /\ k.at # n.at
      BY <1>1 DEF Spaced
    <3>2. CASE k.kind = "id"
      <4>1. k.sector # m.sector
        BY <1>1, <3>2 DEF IbmFacts
      <4>2. k.sector < m.sector => c < a
        BY <1>1, <3>2 DEF IbmFacts
      <4>3. k.sector <= n.sector <=> c < b
        BY <1>1, <3>2 DEF IbmFacts
      <4>4. c # b /\ (m.sector < k.sector => ~(k.sector <= n.sector))
        BY <1>2, <2>1, <3>1
      <4>5. k.sector < m.sector \/ m.sector < k.sector
        BY <1>2, <2>1, <4>1
      <4> HIDE DEF a, b, c
      <4>6. QED
        BY <2>1, <4>2, <4>3, <4>4, <4>5
    <3>3. CASE k.kind = "data"
      <4>1. k.sector # n.sector
        BY <1>1, <3>3 DEF IbmFacts
      <4>2. n.sector < k.sector => b < c
        BY <1>1, <3>3 DEF IbmFacts
      <4>3. m.sector <= k.sector <=> a < c
        BY <1>1, <3>3 DEF IbmFacts
      <4>4. c # a
        BY <3>1
      <4>5. n.sector < k.sector \/ ~(m.sector <= k.sector)
        BY <1>2, <2>1, <4>1
      <4> HIDE DEF a, b, c
      <4>6. QED
        BY <2>1, <4>2, <4>3, <4>4, <4>5
    <3>4. QED
      BY <2>1, <3>2, <3>3
  <2>4. a < b /\ TrackLen \in Nat
    BY <1>2, Numbers
  <2>5. Distance(a, b) < Distance(a, c)
    <3> HIDE DEF a, b, c
    <3>1. Distance(a, b) = b - a
      BY <2>1, <2>2, <2>4
    <3>2. CASE c < a
      <4>1. Distance(a, c) = c - a + TrackLen
        BY <2>1, <2>2, <3>2
      <4>2. QED
        BY <2>1, <2>4, <3>1, <3>2, <4>1
    <3>3. CASE b < c
      <4>1. Distance(a, c) = c - a
        BY <2>1, <2>2, <2>4, <3>3
      <4>2. QED
        BY <2>1, <3>1, <3>3, <4>1
    <3>4. QED
      BY <2>3, <3>2, <3>3
  <2>6. QED
    BY <2>5
<1>4. \A k \in marks : Distance(m.at, k.at) \in Int
  <2>1. SUFFICES ASSUME NEW k \in marks PROVE Distance(m.at, k.at) \in Int
    OBVIOUS
  <2>2. m.at \in 0 .. TrackLen - 1 /\ k.at \in 0 .. TrackLen - 1
    BY MarkAt DEF IInv
  <2>3. QED
    BY <2>2, DistanceIs
<1> DEFINE First(x) == \A k \in marks \ {m} : Distance(m.at, x.at) <= Distance(m.at, k.at)
<1>5. n \in marks \ {m} /\ First(n)
  BY <1>3, <1>4
<1>6. ASSUME NEW x \in marks \ {m}, First(x) PROVE x = n
  <2>1. Distance(m.at, x.at) <= Distance(m.at, n.at)
    BY <1>5, <1>6
  <2>2. x # n => Distance(m.at, n.at) < Distance(m.at, x.at)
    BY <1>3
  <2>3. QED
    BY <1>4, <2>1, <2>2
<1>7. Next1(m) = CHOOSE x \in marks \ {m} : First(x)
  BY DEF Next1
<1> HIDE DEF First
<1>8. QED
  BY <1>5, <1>6, <1>7

\* There is a mark of each kind for each sector.
LEMMA OnePerSector ==
  ASSUME IInv, ~Amiga, NEW kind \in {"id", "data"}
  PROVE  /\ IsFiniteSet({m \in marks : m.kind = kind})
         /\ Cardinality({m \in marks : m.kind = kind}) = NrSectors
<1> DEFINE M == {m \in marks : m.kind = kind}
           f == [s \in Sectors |-> CHOOSE m \in M : m.sector = s]
<1>1. IbmFacts
  BY TrackFacts DEF IInv
<1>2. ASSUME NEW s \in Sectors PROVE f[s] \in M /\ f[s].sector = s
  <2>1. \E m \in M : m.sector = s
    BY <1>1 DEF IbmFacts
  <2>2. QED
    BY <2>1
<1>3. \A m \in M : m.sector \in Sectors
  BY <1>1 DEF IbmFacts
<1>4. \A m \in M, n \in M : m.sector = n.sector => m = n
  BY <1>1 DEF IbmFacts
<1>5. f \in [Sectors -> M]
  BY <1>2
<1> HIDE DEF f, M
<1>6. \A s, t \in Sectors : f[s] = f[t] => s = t
  BY <1>2
<1>7. \A m \in M : \E s \in Sectors : f[s] = m
  BY <1>2, <1>3, <1>4
<1>8. f \in Bijection(Sectors, M)
  BY <1>5, <1>6, <1>7, Fun_IsBij
<1>9. ExistsBijection(Sectors, M)
  BY <1>8, Fun_ExistsBij
<1>10. IsFiniteSet(M) /\ Cardinality(M) = NrSectors
  BY <1>9, SectorAssumption, FS_Bijection DEF NrSectors
<1>11. QED
  BY <1>10 DEF M

\* Between writes every sector holds what was last written to it, and nothing
\* but the marks of the track is on it.
THEOREM WritesKeepTheTrack == Spec => []TrackIntact
<1>1. ASSUME IInv, ~Amiga PROVE IbmIntact
  <2> DEFINE H == {m \in marks : m.kind = "id"}
             D == {m \in marks : m.kind = "data"}
  <2>1. IbmFacts
    BY <1>1, TrackFacts DEF IInv
  <2>2. Cardinality(marks) = 2 * NrSectors
    <3>1. /\ IsFiniteSet(H) /\ Cardinality(H) = NrSectors
          /\ IsFiniteSet(D) /\ Cardinality(D) = NrSectors
      BY <1>1, OnePerSector
    <3>2. H \cup D = marks /\ H \cap D = {}
      BY <2>1 DEF IbmFacts
    <3>3. Cardinality(H \cap D) = 0
      BY <3>2, FS_EmptySet
    <3> HIDE DEF H, D
    <3>4. Cardinality(H \cup D) = Cardinality(H) + Cardinality(D) - Cardinality(H \cap D)
      BY <3>1, FS_Union
    <3>5. NrSectors + NrSectors - 0 = 2 * NrSectors
      BY Numbers
    <3>6. QED
      BY <3>1, <3>2, <3>3, <3>4, <3>5
  <2>3. ASSUME NEW s \in Sectors
        PROVE  \E m \in marks :
                 /\ m.kind = "id" /\ m.sector = s
                 /\ Next1(m) = [at |-> Next1(m).at, kind |-> "data", sector |-> s,
                                value |-> content[s]]
    <3>1. PICK m \in marks : m.kind = "id" /\ m.sector = s
      BY <2>1 DEF IbmFacts
    <3>2. PICK n \in marks : n.kind = "data" /\ n.sector = s
      BY <2>1 DEF IbmFacts
    <3>3. Next1(m) = n
      BY <1>1, <3>1, <3>2, DataFollows
    <3>4. n.value = content[s]
      BY <2>1, <3>2 DEF IbmFacts
    <3>5. n \in MarkType
      BY <1>1 DEF IInv, TypeOK
    <3>6. n = [at |-> n.at, kind |-> n.kind, sector |-> n.sector, value |-> n.value]
      BY <3>5 DEF MarkType
    <3>7. n = [at |-> n.at, kind |-> "data", sector |-> s, value |-> content[s]]
      BY <3>2, <3>4, <3>6
    <3>8. QED
      BY <3>1, <3>3, <3>7
  <2>4. QED
    BY <2>2, <2>3 DEF IbmIntact
<1>2. ASSUME IInv, Amiga PROVE AmigaIntact
  BY <1>2 DEF IInv, LayoutInv, AmigaIntact, Late
<1>3. IInv => TrackIntact
  BY <1>1, <1>2 DEF TrackIntact
<1>4. QED
  BY <1>3, PositionIsKnown, PTL
=============================================================================
