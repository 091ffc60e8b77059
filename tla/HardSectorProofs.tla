--------------------------- MODULE HardSectorProofs ---------------------------
(***************************************************************************)
(* Proofs about HardSector: the thread knows which sector is under the     *)
(* head although it only counts pulses, no WARN_ON fires on a disk without *)
(* fault, and a disk of another geometry is found out.                     *)
(***************************************************************************)
EXTENDS HardSector, TLAPS

(***************************************************************************)
(* The inductive invariant.                                                *)
(***************************************************************************)
\* the time from a pulse to the next, and the pulse before the latest
Gap(p)  == IF p \in HalfPulses THEN Half ELSE Full
Before  == IF pulse = 0 THEN Pulses - 1 ELSE pulse - 1
\* the pulse at which the period begins that is measured, or to be measured
From    == IF new THEN Before ELSE pulse
\* the pulse at which the write of a sector ends that has not ended before
Following == IF sector = Nr - 1 THEN 0 ELSE sector + 1
\* a half period is preceded by a whole one somewhere
Regular == made.hole /\ Hole >= 2

Contents == Values \cup (-1 .. Nr)

\* Which statements belong to which part of which test.
Waiting == {"full", "half", "second"}
Program ==
  \/ test = "none" /\ stage = "none" /\ pc = "idle"
  \/ test \in {"timing", "rw"} /\ stage = "first"
     /\ pc \in Waiting \cup {"warm", "check", "checked"}
  \/ /\ test = "timing"
     /\ \/ stage = "again" /\ pc \in Waiting \cup {"track"}
        \/ stage = "before" /\ pc \in {"seek", "check", "checked"}
        \/ stage = "format" /\ pc \in {"gate", "writing", "written"}
        \/ stage \in {"after1", "after2"} /\ pc \in {"check", "checked"}
  \/ /\ test = "rw"
     /\ \/ stage = "write" /\ pc \in Waiting \cup {"seek", "skip", "gate", "writing", "written"}
        \/ stage = "read1" /\ pc \in Waiting \cup {"skip", "read", "reading", "compare"}
        \/ stage = "read2" /\ pc \in Waiting \cup {"seek", "skip", "read", "reading", "compare"}

TypeOK ==
  /\ made \in Disks /\ pulse \in 0 .. Pulses - 1 /\ since \in Nat /\ lag \in 0 .. MaxLag
  /\ armed \in BOOLEAN /\ new \in BOOLEAN /\ warned \in BOOLEAN
  /\ i \in Nat /\ sector \in 0 .. Nr - 1 /\ s \in Int /\ top \in Int /\ busy \in Nat
  /\ lasted \in Nat /\ togo \in 0 .. 2
  /\ begin \in [sector : 0 .. Hole - 1, at : Nat]
  /\ data \in Contents /\ got \in Contents
  /\ content \in [0 .. Hole - 1 -> [at : Int, value : Contents]]

\* The time stamps, and the thread's own step when it has something to do.
ClockInv ==
  /\ since < Gap(pulse)
  /\ Waits => lag = 0
  /\ new => armed /\ since <= lag
  /\ armed => pc \in Measuring
  /\ armed => s = since + (IF new THEN Gap(Before) ELSE 0)

\* A period that counts begins with the pulse the last one ended with.
Counting == pc \in Measuring /\ (pc \in {"warm", "full"} => i > 0)
PromptInv == Counting /\ ~armed => since + (MaxLag - lag) < Gap(pulse)

\* What the pulses counted so far say of where the disk is.
IdleCount == pc \notin Measuring => i = 0
WarmCount == pc = "warm" =>
  /\ i <= 3 /\ (i > 0 => test = "timing") /\ (i = 1 => top = 0)
  /\ Good => /\ i = 2 => top = Full \/ (top = Half /\ From \in {Hole, 0})
             /\ i = 3 => top = Full \/ (top = Half /\ From = 0)
FullCount == pc = "full" =>
  i <= 2 /\ (Regular => (i = 1 => From \in {Hole, 0}) /\ (i = 2 => From = 0))
HalfCount == pc = "half" /\ Regular => i + 1 <= From /\ From <= Hole - 1
SecondCount == pc = "second" /\ Regular =>
  i < Hole /\ (From = Hole \/ (i = Nr + 1 /\ From < Hole))
CheckCount == pc = "check" =>
  /\ i <= Nr /\ made.hole
  /\ Regular => From = i \/ (i = 0 /\ From = Hole /\ ~Good)
SkipCount == pc = "skip" => From = i /\ i < sector

CountInv == /\ IdleCount /\ WarmCount /\ FullCount /\ HalfCount /\ SecondCount
            /\ CheckCount /\ SkipCount

\* Nothing but the search for the start of the track, and the check of the first
\* few sectors, goes by before a wrong disk is found out.
FaultInv == ~Good =>
  /\ stage \in {"none", "first"} /\ pc # "checked"
  /\ pc = "check" => i < Hole /\ i < Nr

\* The steps that must come soon after a pulse.
SoonInv ==
  /\ pc \in {"checked", "track"} => pulse = 0 /\ since <= MaxLag + lag
  /\ pc = "seek" /\ stage = "before" => pulse = 0 /\ since + busy + 2 * MaxLag - lag < Full
  /\ pc = "gate" => pulse = sector /\ since <= 2 * MaxLag + lag
  /\ pc = "read" => pulse = sector /\ since <= MaxLag + lag

WriteInv ==
  /\ pc = "writing" =>
       /\ begin.sector = sector /\ begin.at <= 3 * MaxLag
       /\ IF togo = 0
          THEN pulse = Following /\ begin.at + lasted = Full + since
          ELSE /\ Under = sector /\ begin.at + lasted = Place
               /\ togo = IF pulse = Nr - 1 THEN 2 ELSE 1
       /\ stage = "format" => s = begin.at + lasted /\ (togo = 0 => since <= lag)
       /\ stage = "write" => lasted <= SecLen + lag
  /\ pc = "written" /\ stage = "format" =>
       pulse = Following /\ s = since + Full /\ since <= MaxLag + lag

FormatInv ==
  /\ stage \in {"before", "format"} => \A x \in 0 .. Nr - 1 : content[x].at = none
  /\ stage = "format" =>
       /\ data = sector
       /\ \A x \in 0 .. Nr - 1 : x < sector \/ (x = sector /\ pc = "written")
                                   => content[x].value = x
  /\ stage \in {"after1", "after2"} => \A x \in 0 .. Nr - 1 : content[x].value = x

Reads == {"read1", "read2"}
ReadInv ==
  /\ stage \in Reads \cup {"write"} => data \in Values
  /\ stage \in Reads \/ (stage = "write" /\ pc = "written") =>
       /\ content[sector].value = data
       /\ content[sector].at \in Lead .. Lead + 3 * MaxLag
  /\ stage = "write" \/ (stage \in Reads /\ pc \notin {"reading", "compare"}) => got = none
  /\ pc = "reading" => IF got = none
                       THEN lasted = 0 /\ Under = sector /\ Place <= content[sector].at
                       ELSE got = data
  /\ pc = "compare" => got = data

IInv == /\ TypeOK /\ Program /\ ClockInv
        /\ Good => ~warned
        /\ ~warned => /\ PromptInv /\ CountInv /\ FaultInv /\ SoonInv
                      /\ WriteInv /\ FormatInv /\ ReadInv

-----------------------------------------------------------------------------
(***************************************************************************)
(* Constants and the disk.                                                 *)
(***************************************************************************)
LEMMA Numbers ==
  /\ Nr \in Nat /\ Nr >= 3 /\ Half \in Nat /\ Half >= 1 /\ Full \in Nat /\ Full = Half + Half
  /\ MaxLag \in Nat /\ Lead \in Nat /\ SecLen \in Nat /\ LongLen \in Nat
  /\ Lead < SecLen /\ SecLen + 3 * MaxLag < Full /\ Full + 3 * MaxLag < LongLen
  /\ 2 * MaxLag <= Lead /\ 3 * MaxLag < Half
BY DiskAssumption, TimeAssumption DEF Full

LEMMA SeekTimes == \A t \in Seeks : t \in Nat /\ t + 4 * MaxLag < Full
BY TimeAssumption

LEMMA DiskIs ==
  ASSUME made \in Disks
  PROVE  /\ Hole \in Nat /\ Hole >= 1 /\ made.hole \in BOOLEAN
         /\ Good <=> Hole = Nr /\ made.hole
         /\ Pulses \in Nat /\ Pulses >= 1
         /\ Pulses = IF made.hole THEN Hole + 1 ELSE Hole
<1>1. made \in [nr : Nat \ {0}, hole : BOOLEAN]
  BY DiskAssumption
<1>2. /\ made.nr \in Nat /\ made.nr >= 1 /\ made.hole \in BOOLEAN
      /\ made = [nr |-> made.nr, hole |-> made.hole]
  BY <1>1
<1>3. Good <=> made.nr = Nr /\ made.hole
  BY <1>2 DEF Good
<1>4. QED
  BY <1>2, <1>3 DEF Hole, Pulses

LEMMA RestOf ==
  ASSUME NEW x \in Int, NEW m \in Nat, 0 <= x, x < m
  PROVE  (x + 1) % m = IF x = m - 1 THEN 0 ELSE x + 1
<1>1. m # 0 /\ m \in Int
  OBVIOUS
<1>2. CASE x = m - 1
  <2>1. m % m = 0
    BY <1>1
  <2>2. QED
    BY <1>2, <2>1
<1>3. CASE x # m - 1
  <2>1. x + 1 \in 0 .. m - 1
    BY <1>3
  <2>2. ASSUME NEW y \in 0 .. m - 1 PROVE y % m = y
    OBVIOUS
  <2>3. QED
    BY <1>3, <2>1, <2>2
<1>4. QED
  BY <1>2, <1>3

-----------------------------------------------------------------------------
(***************************************************************************)
(* The disk turns.                                                         *)
(***************************************************************************)
\* What Turn does to the disk and the time stamps.
LEMMA TurnIs ==
  ASSUME TypeOK, ClockInv, Turn
  PROVE  /\ since' = IF since + 1 = Gap(pulse) THEN 0 ELSE since + 1
         /\ pulse' = IF since + 1 # Gap(pulse) THEN pulse
                     ELSE IF pulse = Pulses - 1 THEN 0 ELSE pulse + 1
         /\ new' \in BOOLEAN /\ (new' <=> armed /\ (new \/ since + 1 = Gap(pulse)))
         /\ since + 1 = Gap(pulse) => ~new
         /\ togo' = IF since + 1 = Gap(pulse) /\ togo > 0 THEN togo - 1 ELSE togo
         /\ made' = made /\ Hole' = Hole /\ Pulses' = Pulses /\ HalfPulses' = HalfPulses
         /\ Good' = Good /\ Regular' = Regular
<1>1. made' = made
  BY DEF Turn
<1>2. Hole' = Hole /\ Pulses' = Pulses /\ HalfPulses' = HalfPulses /\ Good' = Good
      /\ Regular' = Regular
  BY <1>1 DEF Hole, Pulses, HalfPulses, Good, Regular
<1>3. Due <=> since + 1 = Gap(pulse)
  BY DEF Due, Gap
<1>4. (pulse + 1) % Pulses = IF pulse = Pulses - 1 THEN 0 ELSE pulse + 1
  BY RestOf, DiskIs DEF TypeOK
<1>5. since' = (IF since + 1 = Gap(pulse) THEN 0 ELSE since + 1)
      /\ pulse' = (IF since + 1 # Gap(pulse) THEN pulse
                   ELSE IF pulse = Pulses - 1 THEN 0 ELSE pulse + 1)
  BY <1>3, <1>4 DEF Turn
<1>6. since + 1 = Gap(pulse) => ~new
  <2>1. Half \in Nat /\ 3 * MaxLag < Half /\ Gap(pulse) >= Half /\ MaxLag \in Nat
    BY Numbers DEF Gap
  <2>2. since \in Nat /\ lag \in 0 .. MaxLag /\ (new => since <= lag /\ armed)
    BY DEF TypeOK, ClockInv
  <2>3. Gap(pulse) \in Nat
    BY Numbers DEF Gap
  <2>4. SUFFICES ASSUME new, since + 1 = Gap(pulse) PROVE FALSE
    OBVIOUS
  <2>5. ~Waits
    BY <2>2, <2>4 DEF Waits, ClockInv, Measuring
  <2>6. lag < MaxLag
    BY <2>5 DEF Turn
  <2>7. QED
    BY <2>1, <2>2, <2>3, <2>4, <2>6
<1>7. new' \in BOOLEAN /\ (new' <=> armed /\ (new \/ since + 1 = Gap(pulse)))
  <2>1. new' = (armed /\ (new \/ Due)) /\ armed \in BOOLEAN /\ new \in BOOLEAN
    BY DEF Turn, TypeOK
  <2>2. QED
    BY <1>3, <2>1
<1>8. QED
  BY <1>1, <1>2, <1>3, <1>5, <1>6, <1>7 DEF Turn

\* It leaves the thread where it is.
LEMMA TurnKeeps ==
  ASSUME Turn
  PROVE  /\ pc' = pc /\ test' = test /\ stage' = stage /\ track' = track /\ i' = i
         /\ sector' = sector /\ armed' = armed /\ (armed' <=> armed) /\ top' = top /\ data' = data
         /\ warned' = warned /\ made' = made /\ begin' = begin
BY DEF Turn, where

LEMMA TurnType == ASSUME TypeOK, ClockInv, Turn PROVE TypeOK'
<1>1. /\ pulse \in 0 .. Pulses - 1 /\ since \in Nat /\ lag \in 0 .. MaxLag
      /\ Pulses \in Nat /\ Pulses >= 1 /\ Hole \in Nat
  BY DiskIs DEF TypeOK
<1>2. pulse' \in 0 .. Pulses' - 1 /\ since' \in Nat /\ new' \in BOOLEAN
  <2>1. pulse' \in 0 .. Pulses - 1
    BY <1>1, TurnIs
  <2>2. since' \in Nat
    BY <1>1, TurnIs
  <2>3. armed \in BOOLEAN /\ new \in BOOLEAN
    BY DEF TypeOK
  <2>4. new' \in BOOLEAN
    BY TurnIs, <2>3
  <2>5. QED
    BY <2>1, <2>2, <2>4, TurnIs
<1>3. lag' \in 0 .. MaxLag
  BY <1>1, Numbers DEF Turn
<1>4. s' \in Int /\ busy' \in Nat /\ togo' \in 0 .. 2 /\ lasted' \in Nat
  BY DEF TypeOK, Turn
<1>5. got' \in Contents /\ content' \in [0 .. Hole - 1 -> [at : Int, value : Contents]]
  <2>1. Under \in 0 .. Hole - 1
    BY <1>1, DiskIs DEF TypeOK, Under
  <2>2. blank \in [at : Int, value : Contents]
    BY Numbers DEF blank, none, Contents
  <2>3. content \in [0 .. Hole - 1 -> [at : Int, value : Contents]] /\ got \in Contents
    BY DEF TypeOK
  <2>4. content[Under].value \in Contents
    BY <2>1, <2>3
  <2>5. QED
    BY <2>1, <2>2, <2>3, <2>4 DEF Turn
<1>6. QED
  BY <1>2, <1>3, <1>4, <1>5, TurnKeeps, TurnIs DEF TypeOK

LEMMA TurnWaits == ASSUME TypeOK, ClockInv, Turn PROVE ~Waits => ~Waits'
<1>1. pc' = pc /\ stage' = stage /\ armed' = armed
  BY TurnKeeps
<1>2. lasted \in Nat /\ lasted' \in Nat /\ lasted' >= lasted /\ togo \in 0 .. 2
      /\ SecLen \in Nat /\ Lead \in Nat /\ LongLen \in Nat
  BY Numbers DEF TypeOK, Turn
<1>3. ReadOver => ReadOver'
  BY <1>2 DEF ReadOver
<1>4. WriteOver => WriteOver'
  <2>1. WriteLen' = WriteLen /\ WriteLen \in Nat
    BY <1>1, <1>2 DEF WriteLen
  <2>2. togo = 0 => togo' = 0
    BY DEF Turn
  <2>3. QED
    BY <1>2, <2>1, <2>2 DEF WriteOver
<1>5. busy = 0 => busy' = 0
  BY DEF Turn
<1>6. armed /\ new => new'
  BY DEF Turn
<1>7. ~(busy > 0) => busy = 0 /\ ~(busy' > 0)
  BY <1>5 DEF TypeOK
<1>8. QED
  BY <1>1, <1>3, <1>4, <1>6, <1>7 DEF Waits

LEMMA TurnClock == ASSUME TypeOK, ClockInv, Turn PROVE ClockInv'
<1>1. /\ pulse \in 0 .. Pulses - 1 /\ since \in Nat /\ lag \in 0 .. MaxLag
      /\ Pulses \in Nat /\ Pulses >= 1 /\ s \in Int /\ since < Gap(pulse)
  BY DiskIs DEF TypeOK, ClockInv
<1>2. \A p : Gap(p) \in {Half, Full} /\ Gap(p)' = Gap(p)
  BY TurnIs DEF Gap
<1>3. since' < Gap(pulse')
  BY <1>1, <1>2, TurnIs, Numbers
<1>4. Waits' => lag' = 0
  BY TurnWaits DEF Turn
<1>5. new' => armed' /\ since' <= lag'
  <2>1. SUFFICES ASSUME new' PROVE armed' /\ since' <= lag'
    OBVIOUS
  <2>2. armed /\ armed'
    BY <2>1, TurnIs, TurnKeeps
  <2>3. CASE new
    <3>1. ~Waits
      BY <2>2, <2>3 DEF Waits, ClockInv, Measuring
    <3>2. lag' = lag + 1 /\ since' = since + 1 /\ since <= lag
      BY <2>3, <3>1, TurnIs DEF Turn, ClockInv
    <3>3. QED
      BY <1>1, <2>2, <3>2
  <2>4. CASE ~new
    <3>1. since' = 0
      BY <2>1, <2>4, TurnIs
    <3>2. lag' \in Nat
      BY <1>1 DEF Turn
    <3>3. QED
      BY <2>2, <3>1, <3>2
  <2>5. QED
    BY <2>3, <2>4
<1>6. armed' => s' = since' + (IF new' THEN Gap(Before') ELSE 0)
  <2>1. SUFFICES ASSUME armed PROVE s' = since' + (IF new' THEN Gap(Before') ELSE 0)
    BY TurnKeeps
  <2>2. s' = s + 1 /\ s = since + (IF new THEN Gap(Before) ELSE 0)
    BY <2>1 DEF Turn, ClockInv
  <2>3. CASE since + 1 = Gap(pulse)
    <3>1. ~new /\ new' /\ since' = 0
      BY <2>1, <2>3, TurnIs
    <3>2. Before' = pulse
      BY <1>1, <2>3, TurnIs DEF Before
    <3>3. QED
      BY <1>1, <2>2, <2>3, <3>1, <3>2
  <2>4. CASE since + 1 # Gap(pulse)
    <3>1. (new' <=> new) /\ since' = since + 1
      BY <2>1, <2>4, TurnIs
    <3>2. Before' = Before
      BY <1>1, <2>4, TurnIs DEF Before
    <3>3. Gap(Before) \in Int
      BY <1>2, Numbers
    <3>4. QED
      BY <1>1, <2>2, <3>1, <3>2, <3>3
  <2>5. QED
    BY <2>3, <2>4
<1>7. armed' => pc' \in Measuring
  BY TurnKeeps DEF ClockInv
<1>8. QED
  BY <1>2, <1>3, <1>4, <1>5, <1>6, <1>7 DEF ClockInv

\* No pulse that counts is missed.
LEMMA TurnPrompt ==
  ASSUME TypeOK, ClockInv, PromptInv, Turn
  PROVE  PromptInv' /\ (Counting => From' = From)
<1>1. /\ pulse \in 0 .. Pulses - 1 /\ since \in Nat /\ lag \in 0 .. MaxLag
      /\ Pulses \in Nat /\ Pulses >= 1 /\ MaxLag \in Nat
      /\ Gap(pulse) \in Nat
  BY DiskIs, Numbers DEF TypeOK, ClockInv, Gap
<1>2. Counting' = Counting /\ (armed' <=> armed) /\ (Counting' <=> Counting)
  BY TurnKeeps DEF Counting
<1>3. ASSUME Counting, ~armed
      PROVE  ~Waits /\ lag < MaxLag /\ lag' = lag + 1 /\ since + 1 # Gap(pulse)
  <2>1. ~Waits
    BY <1>3 DEF Waits, Counting, Measuring
  <2>2. lag < MaxLag /\ lag' = lag + 1
    BY <2>1 DEF Turn
  <2>3. since + (MaxLag - lag) < Gap(pulse)
    BY <1>3 DEF PromptInv
  <2>4. QED
    BY <1>1, <2>1, <2>2, <2>3
<1>4. PromptInv'
  <2>1. SUFFICES ASSUME Counting, ~armed PROVE since' + (MaxLag - lag') < Gap(pulse)'
    BY <1>2 DEF PromptInv
  <2>2. lag' = lag + 1 /\ since' = since + 1 /\ pulse' = pulse
    BY <2>1, <1>3, TurnIs
  <2>3. Gap(pulse)' = Gap(pulse)
    BY <2>2, TurnIs DEF Gap
  <2>4. since + (MaxLag - lag) < Gap(pulse)
    BY <2>1 DEF PromptInv
  <2>5. QED
    BY <1>1, <2>2, <2>3, <2>4
<1>5. ASSUME Counting PROVE From' = From
  <2>1. CASE ~armed
    <3>1. pulse' = pulse /\ ~new' /\ ~new
      BY <1>3, <1>5, <2>1, TurnIs DEF ClockInv
    <3>2. QED
      BY <3>1 DEF From
  <2>2. CASE armed /\ since + 1 # Gap(pulse)
    <3>1. pulse' = pulse /\ (new' <=> new) /\ Pulses' = Pulses
      BY <2>2, TurnIs
    <3>2. QED
      BY <3>1 DEF From, Before
  <2>3. CASE armed /\ since + 1 = Gap(pulse)
    <3>1. new' /\ ~new /\ Pulses' = Pulses
      BY <2>3, TurnIs
    <3>2. pulse' = IF pulse = Pulses - 1 THEN 0 ELSE pulse + 1
      BY <2>3, TurnIs
    <3>3. QED
      BY <1>1, <3>1, <3>2 DEF From, Before
  <2>4. QED
    BY <2>1, <2>2, <2>3
<1>6. QED
  BY <1>4, <1>5

LEMMA TurnCounts ==
  ASSUME TypeOK, ClockInv, PromptInv, CountInv, FaultInv, Turn
  PROVE  CountInv' /\ FaultInv'
<1>1. Counting => From' = From
  BY TurnPrompt
<1>2. /\ pc' = pc /\ test' = test /\ stage' = stage /\ i' = i /\ sector' = sector /\ top' = top
      /\ Hole' = Hole /\ (Good' <=> Good) /\ (Regular' <=> Regular) /\ made' = made
  BY TurnKeeps, TurnIs
<1>3. i \in Nat
  BY Numbers DEF TypeOK
<1>4. FaultInv'
  BY <1>2 DEF FaultInv
<1>5. IdleCount'
  BY <1>2 DEF CountInv, IdleCount
<1>6. WarmCount'
  BY <1>1, <1>2 DEF CountInv, WarmCount, Counting, Measuring
<1>7. FullCount'
  BY <1>1, <1>2 DEF CountInv, FullCount, Counting, Measuring
<1>8. HalfCount'
  BY <1>1, <1>2 DEF CountInv, HalfCount, Counting, Measuring
<1>9. SecondCount'
  BY <1>1, <1>2 DEF CountInv, SecondCount, Counting, Measuring
<1>10. CheckCount'
  BY <1>1, <1>2 DEF CountInv, CheckCount, Counting, Measuring
<1>11. SkipCount'
  BY <1>1, <1>2 DEF CountInv, SkipCount, Counting, Measuring
<1>12. QED
  BY <1>4, <1>5, <1>6, <1>7, <1>8, <1>9, <1>10, <1>11 DEF CountInv

LEMMA TurnSoon ==
  ASSUME TypeOK, ClockInv, SoonInv, CountInv, Good, Turn
  PROVE  SoonInv'
<1>1. /\ pulse \in 0 .. Nr /\ since \in Nat /\ lag \in 0 .. MaxLag /\ sector \in 0 .. Nr - 1
      /\ MaxLag \in Nat /\ Half \in Nat /\ Full = Half + Half /\ busy \in Nat
      /\ Nr \in Nat /\ Nr >= 3 /\ 3 * MaxLag < Half
  BY DiskIs, Numbers DEF TypeOK
<1>2. /\ Gap(pulse) = Full \/ Gap(pulse) = Half
      /\ pulse = 0 => Gap(pulse) = Full
  BY <1>1, DiskIs DEF Gap, HalfPulses, TypeOK
<1>3. pc' = pc /\ stage' = stage /\ sector' = sector
  BY TurnKeeps
<1>4. ASSUME pc \in {"checked", "track", "read", "gate"}
      PROVE  /\ lag' = lag + 1 /\ lag < MaxLag
             /\ since <= 2 * MaxLag + lag => since' = since + 1 /\ pulse' = pulse
  <2>1. lag < MaxLag /\ lag' = lag + 1
    BY <1>4 DEF Waits, Turn, Measuring
  <2>2. since <= 2 * MaxLag + lag => since + 1 # Gap(pulse)
    BY <1>1, <1>2, <2>1
  <2>3. QED
    BY <2>1, <2>2, TurnIs
<1>5. (pc \in {"checked", "track"} => pulse = 0 /\ since <= MaxLag + lag)'
  <2>1. SUFFICES ASSUME pc \in {"checked", "track"}
                 PROVE  pulse' = 0 /\ since' <= MaxLag + lag'
    BY <1>3
  <2>2. pulse = 0 /\ since <= MaxLag + lag /\ since <= 2 * MaxLag + lag
    BY <1>1, <2>1 DEF SoonInv
  <2>3. QED
    BY <1>1, <1>4, <2>1, <2>2
<1>6. (pc = "gate" => pulse = sector /\ since <= 2 * MaxLag + lag)'
  <2>1. SUFFICES ASSUME pc = "gate"
                 PROVE  pulse' = sector /\ since' <= 2 * MaxLag + lag'
    BY <1>3
  <2>2. pulse = sector /\ since <= 2 * MaxLag + lag
    BY <2>1 DEF SoonInv
  <2>3. QED
    BY <1>1, <1>4, <2>1, <2>2
<1>7. (pc = "read" => pulse = sector /\ since <= MaxLag + lag)'
  <2>1. SUFFICES ASSUME pc = "read"
                 PROVE  pulse' = sector /\ since' <= MaxLag + lag'
    BY <1>3
  <2>2. pulse = sector /\ since <= MaxLag + lag /\ since <= 2 * MaxLag + lag
    BY <1>1, <2>1 DEF SoonInv
  <2>3. QED
    BY <1>1, <1>4, <2>1, <2>2
<1>8. (pc = "seek" /\ stage = "before" =>
         pulse = 0 /\ since + busy + 2 * MaxLag - lag < Full)'
  <2>1. SUFFICES ASSUME pc = "seek", stage = "before"
                 PROVE  pulse' = 0 /\ since' + busy' + 2 * MaxLag - lag' < Full
    BY <1>3
  <2>2. pulse = 0 /\ since + busy + 2 * MaxLag - lag < Full
    BY <2>1 DEF SoonInv
  <2>3. CASE busy > 0
    <3>1. Waits
      BY <2>1, <2>3 DEF Waits
    <3>2. lag = 0 /\ lag' = 0 /\ busy' = busy - 1
      BY <2>3, <3>1 DEF ClockInv, Turn
    <3>3. since + 1 # Gap(pulse)
      BY <1>1, <1>2, <2>2, <2>3, <3>2
    <3>4. since' = since + 1 /\ pulse' = pulse
      BY <3>3, TurnIs
    <3>5. QED
      BY <1>1, <2>2, <3>2, <3>4
  <2>4. CASE busy = 0
    <3>1. ~Waits
      BY <2>1, <2>4 DEF Waits, Measuring
    <3>2. lag < MaxLag /\ lag' = lag + 1 /\ busy' = 0
      BY <2>4, <3>1 DEF Turn
    <3>3. since + 1 # Gap(pulse)
      BY <1>1, <1>2, <2>2, <2>4, <3>2
    <3>4. since' = since + 1 /\ pulse' = pulse
      BY <3>3, TurnIs
    <3>5. QED
      BY <1>1, <2>2, <2>4, <3>2, <3>4
  <2>5. QED
    BY <1>1, <2>3, <2>4
<1>9. QED
  BY <1>5, <1>6, <1>7, <1>8 DEF SoonInv

\* Where the head is in the sector, on a disk without fault.
LEMMA PlaceIs ==
  ASSUME TypeOK, Good
  PROVE  /\ pulse \in 0 .. Nr /\ Hole = Nr /\ Pulses = Nr + 1 /\ Regular
         /\ \A p : Gap(p) = IF p \in {Nr - 1, Nr} THEN Half ELSE Full
         /\ Under = IF pulse = Nr THEN Nr - 1 ELSE pulse
         /\ Place = IF pulse = Nr THEN since + Half ELSE since
BY DiskIs, Numbers DEF TypeOK, Gap, HalfPulses, Under, Place, Regular

LEMMA TurnPlace ==
  ASSUME TypeOK, ClockInv, Good, Turn
  PROVE  /\ Place \in Nat /\ Place < Full /\ Under \in 0 .. Nr - 1
         /\ Place + 1 # Full => Under' = Under /\ Place' = Place + 1
         /\ Place + 1 = Full => since' = 0 /\ Place' = 0
                                /\ pulse' = IF Under = Nr - 1 THEN 0 ELSE Under + 1
         /\ togo' = IF pulse # pulse' /\ togo > 0 THEN togo - 1 ELSE togo
<1>1. /\ pulse \in 0 .. Nr /\ since \in Nat /\ since < Gap(pulse) /\ Nr \in Nat /\ Nr >= 3
      /\ Half \in Nat /\ Full = Half + Half /\ Half >= 1 /\ togo \in 0 .. 2
  BY PlaceIs, Numbers DEF TypeOK, ClockInv
<1>2. /\ Gap(pulse) = IF pulse \in {Nr - 1, Nr} THEN Half ELSE Full
      /\ Under = IF pulse = Nr THEN Nr - 1 ELSE pulse
      /\ Place = IF pulse = Nr THEN since + Half ELSE since
  BY PlaceIs
<1>3. /\ Under' = IF pulse' = Nr THEN Nr - 1 ELSE pulse'
      /\ Place' = IF pulse' = Nr THEN since' + Half ELSE since'
  BY PlaceIs, TurnIs DEF Under, Place
<1>4. /\ since' = IF since + 1 = Gap(pulse) THEN 0 ELSE since + 1
      /\ pulse' = IF since + 1 # Gap(pulse) THEN pulse
                  ELSE IF pulse = Nr THEN 0 ELSE pulse + 1
      /\ togo' = IF since + 1 = Gap(pulse) /\ togo > 0 THEN togo - 1 ELSE togo
  BY <1>1, TurnIs, PlaceIs
<1>5. since + 1 = Gap(pulse) <=> pulse' # pulse
  BY <1>1, <1>4
<1>6. togo' = IF pulse # pulse' /\ togo > 0 THEN togo - 1 ELSE togo
  BY <1>4, <1>5
<1>7. CASE pulse = Nr
  BY <1>1, <1>2, <1>3, <1>4, <1>6, <1>7
<1>8. CASE pulse = Nr - 1
  BY <1>1, <1>2, <1>3, <1>4, <1>6, <1>8
<1>9. CASE pulse < Nr - 1
  BY <1>1, <1>2, <1>3, <1>4, <1>6, <1>9
<1>10. QED
  BY <1>1, <1>7, <1>8, <1>9

LEMMA TurnWrite ==
  ASSUME TypeOK, Program, ClockInv, WriteInv, Good, Turn
  PROVE  WriteInv'
<1>1. /\ pulse \in 0 .. Nr /\ since \in Nat /\ lag \in 0 .. MaxLag /\ sector \in 0 .. Nr - 1
      /\ s \in Int /\ lasted \in Nat /\ togo \in 0 .. 2 /\ begin.at \in Nat
      /\ MaxLag \in Nat /\ Half \in Nat /\ Full = Half + Half /\ SecLen \in Nat
      /\ Nr \in Nat /\ Nr >= 3 /\ 3 * MaxLag < Half /\ SecLen + 3 * MaxLag < Full
  BY PlaceIs, Numbers DEF TypeOK
<1>2. /\ pc' = pc /\ stage' = stage /\ sector' = sector /\ begin' = begin
      /\ Following' = Following
  BY TurnKeeps DEF Following
<1>3. Gap(pulse) = Full \/ Gap(pulse) = Half
  BY PlaceIs
<1>4. ASSUME pc = "writing"
      PROVE  /\ begin.sector = sector /\ begin.at <= 3 * MaxLag
             /\ IF togo' = 0
                THEN pulse' = Following /\ begin.at + lasted' = Full + since'
                ELSE /\ Under' = sector /\ begin.at + lasted' = Place'
                     /\ togo' = IF pulse' = Nr - 1 THEN 2 ELSE 1
             /\ stage = "format" => s' = begin.at + lasted' /\ (togo' = 0 => since' <= lag')
             /\ stage = "write" => lasted' <= SecLen + lag'
  <2>1. /\ begin.sector = sector /\ begin.at <= 3 * MaxLag
        /\ togo = 0 => pulse = Following /\ begin.at + lasted = Full + since
        /\ togo # 0 => /\ Under = sector /\ begin.at + lasted = Place
                       /\ togo = IF pulse = Nr - 1 THEN 2 ELSE 1
        /\ stage = "format" => s = begin.at + lasted /\ (togo = 0 => since <= lag)
        /\ stage = "write" => lasted <= SecLen + lag
    BY <1>4 DEF WriteInv
  <2>2. s' = s + 1 /\ lasted' = lasted + 1
    BY <1>4 DEF Turn
  <2>3. lag' \in Nat /\ (~Waits => lag < MaxLag /\ lag' = lag + 1)
    BY <1>1 DEF Turn
  <2>4. stage = "format" => s' = begin.at + lasted'
    BY <1>1, <2>1, <2>2
  <2>5. stage = "write" => lasted' <= SecLen + lag'
    <3>1. SUFFICES ASSUME stage = "write" PROVE lasted' <= SecLen + lag'
      OBVIOUS
    <3>2. CASE Waits
      <4>1. lasted < SecLen
        BY <1>1, <1>4, <3>1, <3>2 DEF Waits, WriteOver, WriteLen, Measuring
      <4>2. lasted + 1 <= SecLen
        BY <1>1, <4>1
      <4>3. ASSUME NEW n \in Nat PROVE lasted + 1 <= SecLen + n
        BY <1>1, <4>2
      <4>4. QED
        BY <2>2, <2>3, <4>3
    <3>3. CASE ~Waits
      BY <1>1, <2>1, <2>2, <2>3, <3>1, <3>3
    <3>4. QED
      BY <3>2, <3>3
  <2>6. CASE togo = 0
    <3>1. ~Waits
      BY <1>4, <2>6 DEF Waits, WriteOver, Measuring
    <3>2. stage = "format" => since <= lag
      BY <2>1, <2>6
    <3>3. stage = "write" => since <= lag
      BY <1>1, <2>1, <2>6
    <3>4. since <= lag
      BY <1>4, <3>2, <3>3 DEF Program, Waiting
    <3>5. since + 1 # Gap(pulse)
      BY <1>1, <1>3, <2>3, <3>1, <3>4
    <3>6. since' = since + 1 /\ pulse' = pulse /\ togo' = 0
      BY <2>6, <3>5, TurnIs
    <3>7. begin.at + lasted' = Full + since' /\ since' <= lag' /\ pulse' = Following
      BY <1>1, <2>1, <2>2, <2>3, <2>6, <3>1, <3>4, <3>6
    <3>8. QED
      BY <2>1, <2>4, <2>5, <3>6, <3>7
  <2>7. CASE togo # 0
    <3>1. /\ Under = sector /\ begin.at + lasted = Place
          /\ togo = IF pulse = Nr - 1 THEN 2 ELSE 1
      BY <2>1, <2>7
    <3>2. Place \in Nat
      BY TurnPlace
    <3>3. CASE Place + 1 = Full
      <4>1. since' = 0 /\ pulse' = Following
        BY <3>1, <3>3, TurnPlace DEF Following
      <4>2. pulse # Nr - 1 /\ pulse' # pulse
        BY <1>1, <3>1, <3>3, <4>1, PlaceIs DEF Following, ClockInv
      <4>3. togo' = 0
        BY <3>1, <4>2, TurnPlace
      <4>4. begin.at + lasted' = Full + since'
        BY <1>1, <2>2, <3>1, <3>2, <3>3, <4>1
      <4>5. since' <= lag'
        BY <2>3, <4>1
      <4>6. QED
        BY <2>1, <2>4, <2>5, <4>1, <4>3, <4>4, <4>5
    <3>4. CASE Place + 1 # Full
      <4>1. Under' = sector /\ Place' = Place + 1
        BY <3>1, <3>4, TurnPlace
      <4>2. begin.at + lasted' = Place'
        BY <1>1, <2>2, <3>1, <3>2, <4>1
      <4>3. pulse' = pulse \/ (pulse = Nr - 1 /\ pulse' = Nr)
        <5>1. Under' = IF pulse' = Nr THEN Nr - 1 ELSE pulse'
          BY PlaceIs, TurnIs DEF Under
        <5>2. pulse' = pulse \/ pulse' = IF pulse = Nr THEN 0 ELSE pulse + 1
          BY TurnIs, PlaceIs, <1>1
        <5>3. Under = IF pulse = Nr THEN Nr - 1 ELSE pulse
          BY PlaceIs
        <5>4. QED
          BY <1>1, <3>1, <4>1, <5>1, <5>2, <5>3
      <4>4. togo' # 0 /\ togo' = IF pulse' = Nr - 1 THEN 2 ELSE 1
        <5>1. togo' = IF pulse # pulse' /\ togo > 0 THEN togo - 1 ELSE togo
          BY TurnPlace
        <5>2. togo \in {1, 2} /\ (togo = 2 <=> pulse = Nr - 1)
          BY <3>1
        <5>3. CASE pulse' = pulse
          BY <2>7, <3>1, <5>1, <5>3
        <5>4. CASE pulse = Nr - 1 /\ pulse' = Nr
          <6>1. Nr # Nr - 1
            BY <1>1
          <6>2. togo = 2 /\ togo' = 1
            BY <1>1, <5>1, <5>2, <5>4
          <6>3. QED
            BY <5>4, <6>1, <6>2
        <5>5. QED
          BY <4>3, <5>3, <5>4
      <4>5. QED
        BY <2>1, <2>4, <2>5, <4>1, <4>2, <4>4
    <3>5. QED
      BY <3>3, <3>4
  <2>8. QED
    BY <2>6, <2>7
<1>5. ASSUME pc = "written", stage = "format"
      PROVE  pulse' = Following /\ s' = since' + Full /\ since' <= MaxLag + lag'
  <2>1. pulse = Following /\ s = since + Full /\ since <= MaxLag + lag
    BY <1>5 DEF WriteInv
  <2>2. ~Waits
    BY <1>5 DEF Waits, Measuring
  <2>3. lag < MaxLag /\ lag' = lag + 1 /\ s' = s + 1
    BY <1>5, <2>2 DEF Turn
  <2>4. since + 1 # Gap(pulse)
    BY <1>1, <1>3, <2>1, <2>3
  <2>5. since' = since + 1 /\ pulse' = pulse
    BY <2>4, TurnIs
  <2>6. QED
    BY <1>1, <2>1, <2>3, <2>5
<1>6. QED
  BY <1>2, <1>4, <1>5 DEF WriteInv

\* On a wrong disk that has not been found out the thread has not gone far.
LEMMA WrongDisk ==
  Program /\ FaultInv /\ ~Good => SoonInv /\ WriteInv /\ FormatInv /\ ReadInv
<1> SUFFICES ASSUME Program, FaultInv, ~Good
             PROVE  SoonInv /\ WriteInv /\ FormatInv /\ ReadInv
  OBVIOUS
<1>1. stage \in {"none", "first"} /\ pc # "checked"
  BY DEF FaultInv
<1>2. pc \in Waiting \cup {"idle", "warm", "check"}
  BY <1>1 DEF Program, Waiting
<1>3. SoonInv
  BY <1>2 DEF SoonInv, Waiting
<1>4. WriteInv
  BY <1>2 DEF WriteInv, Waiting
<1>5. FormatInv
  BY <1>1 DEF FormatInv
<1>6. ReadInv
  BY <1>1, <1>2 DEF ReadInv, Waiting, Reads
<1>7. QED
  BY <1>3, <1>4, <1>5, <1>6

LEMMA WrongPrimed ==
  (Program /\ FaultInv /\ ~Good => SoonInv /\ WriteInv /\ FormatInv /\ ReadInv)'
BY WrongDisk, PTL

LEMMA LateIsGood ==
  ASSUME IInv, ~warned, pc \notin Waiting \cup {"idle", "warm", "check"}
  PROVE  Good
BY DEF IInv, FaultInv, Program, Waiting

LEMMA TurnFormat ==
  ASSUME TypeOK, Program, ClockInv, FormatInv, Good, Turn
  PROVE  FormatInv'
<1>1. /\ pc' = pc /\ stage' = stage /\ sector' = sector /\ data' = data
  BY TurnKeeps
<1>2. Under \in 0 .. Nr - 1 /\ Place \in Nat /\ none \notin Nat
  BY TurnPlace DEF none
<1>3. stage \in {"before", "format"} => content' = content
  <2>1. SUFFICES ASSUME stage \in {"before", "format"} PROVE content' = content
    OBVIOUS
  <2>2. content[Under].at = none
    BY <1>2, <2>1 DEF FormatInv
  <2>3. QED
    BY <1>2, <2>2 DEF Turn
<1>4. stage \in {"after1", "after2"} => content' = content
  <2>1. stage \in {"after1", "after2"} => pc # "writing"
    BY DEF Program, Waiting
  <2>2. QED
    BY <2>1 DEF Turn
<1>5. QED
  BY <1>1, <1>3, <1>4 DEF FormatInv

LEMMA TurnRead ==
  ASSUME TypeOK, Program, ClockInv, ReadInv, Good, Turn
  PROVE  ReadInv'
<1>1. /\ pc' = pc /\ stage' = stage /\ sector' = sector /\ data' = data
  BY TurnKeeps
<1>2. /\ Place \in Nat /\ Place < Full /\ lasted \in Nat /\ MaxLag \in Nat /\ Lead \in Nat
      /\ Full \in Nat /\ SecLen \in Nat /\ Lead < SecLen /\ SecLen + 3 * MaxLag < Full
  BY TurnPlace, Numbers DEF TypeOK
<1>3. pc # "writing" => content' = content
  BY DEF Turn
<1>4. pc # "reading" => got' = got
  BY DEF Turn
<1>5. (stage \in Reads \cup {"write"} => data \in Values)'
  BY <1>1 DEF ReadInv
<1>6. (stage \in Reads \/ (stage = "write" /\ pc = "written") =>
         /\ content[sector].value = data
         /\ content[sector].at \in Lead .. Lead + 3 * MaxLag)'
  <2>1. stage \in Reads => pc # "writing"
    BY DEF Program, Waiting, Reads
  <2>2. QED
    BY <1>1, <1>3, <2>1 DEF ReadInv
<1>7. (stage = "write" \/ (stage \in Reads /\ pc \notin {"reading", "compare"}) => got = none)'
  <2>1. stage = "write" => pc # "reading"
    BY DEF Program, Waiting
  <2>2. QED
    BY <1>1, <1>4, <2>1 DEF ReadInv
<1>8. (pc = "compare" => got = data)'
  BY <1>1, <1>4 DEF ReadInv
<1>9. (pc = "reading" => IF got = none
                         THEN lasted = 0 /\ Under = sector /\ Place <= content[sector].at
                         ELSE got = data)'
  <2>1. SUFFICES ASSUME pc = "reading"
                 PROVE  IF got' = none
                        THEN lasted' = 0 /\ Under' = sector /\ Place' <= content[sector].at
                        ELSE got' = data
    BY <1>1, <1>3
  <2>2. /\ stage \in Reads /\ data \in Values /\ content[sector].value = data
        /\ content[sector].at \in Lead .. Lead + 3 * MaxLag
    <3>1. stage \in Reads
      BY <2>1 DEF Program, Waiting, Reads
    <3>2. QED
      BY <3>1 DEF ReadInv
  <2>3. data # none
    BY <2>2, Numbers, DiskAssumption DEF none
  <2>4. CASE got # none
    BY <2>1, <2>4 DEF Turn, ReadInv
  <2>5. CASE got = none
    <3>1. lasted = 0 /\ Under = sector /\ Place <= content[sector].at
      BY <2>1, <2>5 DEF ReadInv
    <3>2. CASE Place = content[sector].at
      BY <2>1, <2>2, <2>3, <2>5, <3>1, <3>2 DEF Turn
    <3>3. CASE Place # content[sector].at
      <4>1. got' = none /\ lasted' = 0
        BY <2>1, <2>5, <3>1, <3>3 DEF Turn
      <4>2. Place + 1 <= content[sector].at /\ Place + 1 # Full
        BY <1>2, <2>2, <3>1, <3>3
      <4>3. QED
        BY <3>1, <4>1, <4>2, TurnPlace
    <3>4. QED
      BY <3>2, <3>3
  <2>6. QED
    BY <2>4, <2>5
<1>10. QED
  BY <1>5, <1>6, <1>7, <1>8, <1>9 DEF ReadInv

LEMMA TurnStep == IInv /\ Turn => IInv'
<1> SUFFICES ASSUME IInv, Turn PROVE IInv'
  OBVIOUS
<1>1. TypeOK' /\ Program' /\ ClockInv'
  <2>1. Program'
    BY TurnKeeps DEF IInv, Program
  <2>2. QED
    BY <2>1, TurnType, TurnClock DEF IInv
<1>2. (Good => ~warned)' /\ (warned' <=> warned) /\ Good' = Good
  BY TurnKeeps, TurnIs DEF IInv
<1>3. ASSUME ~warned
      PROVE  /\ PromptInv' /\ CountInv' /\ FaultInv' /\ SoonInv'
             /\ WriteInv' /\ FormatInv' /\ ReadInv'
  <2>1. PromptInv' /\ CountInv' /\ FaultInv'
    BY <1>3, TurnPrompt, TurnCounts DEF IInv
  <2>2. CASE Good
    BY <1>3, <2>1, <2>2, TurnSoon, TurnWrite, TurnFormat, TurnRead DEF IInv
  <2>3. CASE ~Good
    <3>1. FaultInv' /\ Program' /\ ~Good'
      BY <1>1, <1>2, <2>1, <2>3
    <3>2. SoonInv' /\ WriteInv' /\ FormatInv' /\ ReadInv'
      BY <3>1, WrongPrimed
    <3>3. QED
      BY <2>1, <3>2
  <2>4. QED
    BY <2>2, <2>3
<1>4. QED
  BY <1>1, <1>2, <1>3 DEF IInv

-----------------------------------------------------------------------------
(***************************************************************************)
(* Steps of the thread: the disk stands still for them.                    *)
(***************************************************************************)
LEMMA Still ==
  ASSUME disk' = disk
  PROVE  /\ made' = made /\ pulse' = pulse /\ since' = since
         /\ Hole' = Hole /\ Pulses' = Pulses /\ HalfPulses' = HalfPulses
         /\ (Good' <=> Good) /\ (Regular' <=> Regular)
         /\ Before' = Before /\ Under' = Under /\ Place' = Place
         /\ \A p : Gap(p)' = Gap(p)
<1>1. made' = made /\ pulse' = pulse /\ since' = since
  BY DEF disk
<1>2. Hole' = Hole /\ Pulses' = Pulses /\ HalfPulses' = HalfPulses
      /\ (Good' <=> Good) /\ (Regular' <=> Regular)
  BY <1>1 DEF Hole, Pulses, HalfPulses, Good, Regular
<1>3. QED
  BY <1>1, <1>2 DEF Before, Under, Place, Gap

LEMMA Unarmed ==
  ASSUME TypeOK, ClockInv, disk' = disk, lag' = 0, ~armed', ~new'
  PROVE  ClockInv' /\ From' = pulse /\ (since + MaxLag < Gap(pulse) => PromptInv')
<1>1. pulse' = pulse /\ since' = since /\ Gap(pulse)' = Gap(pulse)
  BY Still
<1>2. ClockInv'
  BY <1>1 DEF ClockInv
<1>3. From' = pulse
  BY <1>1 DEF From
<1>4. since + MaxLag < Gap(pulse) => PromptInv'
  BY <1>1, Numbers DEF PromptInv
<1>5. QED
  BY <1>2, <1>3, <1>4

\* A step of the thread other than the end of a measurement.
LEMMA LateStep ==
  ASSUME IInv, pc \notin Measuring, pc # "idle",
         disk' = disk, lag' = 0, armed' = armed, new' = new, i' = i,
         warned' \in BOOLEAN, warned => warned', Good /\ ~warned => ~warned',
         TypeOK', Program',
         Good /\ ~warned => /\ pc' \in Measuring => PromptInv' /\ CountInv'
                            /\ SoonInv' /\ WriteInv' /\ FormatInv' /\ ReadInv'
  PROVE  IInv'
<1>1. ~armed /\ ~new
  BY DEF IInv, ClockInv
<1>2. ~armed' /\ ~new'
  BY <1>1
<1>3. ClockInv'
  BY <1>2, Unarmed DEF IInv
<1>4. Good' <=> Good
  BY Still
<1>5. (Good => ~warned)'
  BY <1>4 DEF IInv
<1>6. ASSUME ~warned'
      PROVE  /\ PromptInv' /\ CountInv' /\ FaultInv' /\ SoonInv'
             /\ WriteInv' /\ FormatInv' /\ ReadInv'
  <2>1. ~warned /\ Good
    BY <1>6, LateIsGood DEF Measuring, Waiting
  <2>2. FaultInv'
    BY <1>4, <2>1 DEF FaultInv
  <2>3. CASE pc' \in Measuring
    BY <2>1, <2>2, <2>3
  <2>4. CASE pc' \notin Measuring
    <3>1. i' = 0
      BY <2>1 DEF IInv, CountInv, IdleCount
    <3>2. PromptInv'
      BY <2>4 DEF PromptInv, Counting
    <3>3. CountInv'
      BY <2>4, <3>1 DEF CountInv, IdleCount, WarmCount, FullCount, HalfCount, SecondCount,
                        CheckCount, SkipCount, Measuring
    <3>4. QED
      BY <2>1, <2>2, <3>2, <3>3
  <2>5. QED
    BY <2>3, <2>4
<1>7. QED
  BY <1>3, <1>5, <1>6 DEF IInv

LEMMA WaitAgainStep == ASSUME IInv, WaitAgain PROVE IInv'
<1>1. /\ pc = "checked" /\ pc' = "full" /\ stage = "first" /\ stage' = "again"
      /\ test = "timing" /\ test' = test /\ i' = i /\ lag' = 0
      /\ disk' = disk /\ armed' = armed /\ new' = new /\ warned' = warned
  BY DEF WaitAgain, Proceed, Step
<1>2. TypeOK' /\ Program'
  <2>1. TypeOK'
    BY <1>1, Still, Numbers DEF IInv, TypeOK, WaitAgain, Proceed, Step, result
  <2>2. QED
    BY <1>1, <2>1 DEF Program, Waiting
<1>3. ASSUME Good, ~warned
      PROVE  /\ PromptInv' /\ CountInv' /\ SoonInv' /\ WriteInv' /\ FormatInv' /\ ReadInv'
  <2>1. i' = 0
    BY <1>1, <1>3 DEF IInv, CountInv, IdleCount, Measuring
  <2>2. PromptInv'
    BY <1>1, <2>1 DEF PromptInv, Counting
  <2>3. CountInv'
    BY <1>1, <2>1 DEF CountInv, IdleCount, WarmCount, FullCount, HalfCount, SecondCount,
                      CheckCount, SkipCount, Measuring
  <2>4. SoonInv' /\ WriteInv'
    BY <1>1 DEF SoonInv, WriteInv
  <2>5. FormatInv' /\ ReadInv'
    BY <1>1 DEF FormatInv, ReadInv, Reads
  <2>6. QED
    BY <2>2, <2>3, <2>4, <2>5
<1>4. warned \in BOOLEAN
  BY DEF IInv, TypeOK
<1>5. QED
  BY <1>1, <1>2, <1>3, <1>4, LateStep DEF Measuring

LEMMA SeekTrackStep == ASSUME IInv, SeekTrack PROVE IInv'
<1>1. /\ pc \in {"track", "checked"} /\ stage \in {"again", "after2"} /\ pc' = "seek"
      /\ stage' = "before" /\ test' = test /\ i' = i /\ lag' = 0 /\ busy' \in Seeks
      /\ disk' = disk /\ armed' = armed /\ new' = new /\ warned' = warned
      /\ content' = [x \in 0 .. Hole - 1 |-> blank]
  BY DEF SeekTrack, Proceed, Step
<1>2. TypeOK' /\ Program'
  <2>1. test = "timing"
    BY <1>1 DEF IInv, Program
  <2>2. blank \in [at : Int, value : Contents] /\ busy' \in Nat
    BY <1>1, Numbers, SeekTimes DEF blank, none, Contents
  <2>3. /\ sector' = sector /\ s' = s /\ top' = top /\ lasted' = lasted /\ togo' = togo
        /\ begin' = begin /\ data' = data /\ got' = got
    BY DEF SeekTrack, Proceed, result
  <2>4. TypeOK'
    BY <1>1, <2>2, <2>3, Still, Numbers DEF IInv, TypeOK
  <2>5. QED
    BY <1>1, <2>1, <2>4 DEF Program, Waiting
<1>3. ASSUME Good, ~warned
      PROVE  SoonInv' /\ WriteInv' /\ FormatInv' /\ ReadInv'
  <2>1. pulse = 0 /\ since <= MaxLag + lag
    BY <1>1, <1>3 DEF IInv, SoonInv
  <2>2. pulse' = 0 /\ since' = since /\ since \in Nat /\ lag \in 0 .. MaxLag
    BY <1>1, <2>1, Still DEF IInv, TypeOK
  <2>3. since' + busy' + 2 * MaxLag - lag' < Full
    BY <1>1, <2>1, <2>2, SeekTimes, Numbers
  <2>4. SoonInv' /\ WriteInv'
    BY <1>1, <2>2, <2>3 DEF SoonInv, WriteInv
  <2>5. FormatInv'
    <3>1. Hole = Nr
      BY <1>3, DiskIs DEF IInv, TypeOK
    <3>2. \A x \in 0 .. Nr - 1 : content'[x].at = none
      BY <1>1, <3>1 DEF blank
    <3>3. QED
      BY <1>1, <3>2 DEF FormatInv
  <2>6. ReadInv'
    BY <1>1 DEF ReadInv, Reads
  <2>7. QED
    BY <2>4, <2>5, <2>6
<1>4. warned \in BOOLEAN
  BY DEF IInv, TypeOK
<1>5. QED
  BY <1>1, <1>2, <1>3, <1>4, LateStep DEF Measuring

LEMMA SoughtStep == ASSUME IInv, Sought PROVE IInv'
<1>1. /\ pc = "seek" /\ pc' = (IF test = "timing" THEN "check" ELSE "full")
      /\ stage' = stage /\ test' = test /\ i' = i /\ lag' = 0 /\ busy = 0
      /\ disk' = disk /\ armed' = armed /\ new' = new /\ warned' = warned
      /\ sector' = sector /\ data' = data /\ got' = got /\ content' = content
  BY DEF Sought, Step, where, result
<1>2. \/ test = "timing" /\ stage = "before" /\ pc' = "check"
      \/ test = "rw" /\ stage \in {"write", "read2"} /\ pc' = "full"
  BY <1>1 DEF IInv, Program, Waiting
<1>3. TypeOK' /\ Program'
  <2>1. TypeOK'
    <3>1. /\ s' = s /\ top' = top /\ lasted' = lasted /\ togo' = togo /\ begin' = begin
          /\ busy' = busy
      BY DEF Sought
    <3>2. QED
      BY <1>1, <3>1, Still, Numbers DEF IInv, TypeOK
  <2>2. QED
    BY <1>1, <1>2, <2>1 DEF Program, Waiting
<1>4. ASSUME Good, ~warned
      PROVE  PromptInv' /\ CountInv' /\ SoonInv' /\ WriteInv' /\ FormatInv' /\ ReadInv'
  <2>1. i' = 0 /\ Nr \in Nat
    BY <1>1, <1>4, Numbers DEF IInv, CountInv, IdleCount, Measuring
  <2>2. SoonInv' /\ WriteInv'
    BY <1>1, <1>2 DEF SoonInv, WriteInv
  <2>3. FormatInv' /\ ReadInv'
    BY <1>1, <1>2, <1>4 DEF IInv, FormatInv, ReadInv, Reads
  <2>4. CASE pc' = "check"
    <3>1. stage = "before"
      BY <1>2, <2>4
    <3>2. pulse = 0 /\ since + busy + 2 * MaxLag - lag < Full
      BY <1>1, <1>4, <3>1 DEF IInv, SoonInv
    <3>3. since \in Nat /\ lag \in 0 .. MaxLag /\ Gap(pulse) = Full
      BY <1>4, <3>2, PlaceIs, Numbers DEF IInv, TypeOK
    <3>4. since + MaxLag < Gap(pulse)
      BY <1>1, <3>2, <3>3, Numbers
    <3>5. ~armed' /\ ~new'
      BY <1>1 DEF IInv, ClockInv, Measuring
    <3>6. PromptInv' /\ From' = 0
      BY <1>1, <3>2, <3>4, <3>5, Unarmed DEF IInv
    <3>7. made'.hole
      BY <1>1, <1>4, Still, DiskIs DEF IInv, TypeOK
    <3>8. CountInv'
      BY <2>1, <2>4, <3>6, <3>7
         DEF CountInv, IdleCount, WarmCount, FullCount, HalfCount, SecondCount, CheckCount,
             SkipCount, Measuring
    <3>9. QED
      BY <2>2, <2>3, <3>6, <3>8
  <2>5. CASE pc' = "full"
    <3>1. PromptInv'
      BY <2>1, <2>5 DEF PromptInv, Counting
    <3>2. CountInv'
      BY <2>1, <2>5 DEF CountInv, IdleCount, WarmCount, FullCount, HalfCount, SecondCount,
                        CheckCount, SkipCount, Measuring
    <3>3. QED
      BY <2>2, <2>3, <3>1, <3>2
  <2>6. QED
    BY <1>2, <2>4, <2>5
<1>5. warned \in BOOLEAN
  BY DEF IInv, TypeOK
<1>6. QED
  BY <1>1, <1>3, <1>4, <1>5, LateStep DEF Measuring

LEMMA FirstSectorStep == ASSUME IInv, FirstSector PROVE IInv'
<1>1. /\ pc = "checked" /\ stage = "before" /\ pc' = "gate" /\ stage' = "format"
      /\ test' = test /\ i' = i /\ lag' = 0 /\ sector' = 0 /\ data' = 0
      /\ disk' = disk /\ armed' = armed /\ new' = new /\ warned' = warned
      /\ content' = content
  BY DEF FirstSector, Proceed, Step
<1>2. TypeOK' /\ Program'
  <2>1. test = "timing" /\ 0 \in Contents /\ 0 \in 0 .. Nr - 1
    BY <1>1, Numbers DEF IInv, Program, Contents
  <2>2. /\ s' = s /\ top' = top /\ lasted' = lasted /\ togo' = togo /\ begin' = begin
        /\ busy' = busy /\ got' = got
    BY DEF FirstSector, Proceed
  <2>3. TypeOK'
    BY <1>1, <2>1, <2>2, Still, Numbers DEF IInv, TypeOK
  <2>4. QED
    BY <1>1, <2>1, <2>3 DEF Program, Waiting
<1>3. ASSUME Good, ~warned
      PROVE  SoonInv' /\ WriteInv' /\ FormatInv' /\ ReadInv'
  <2>1. pulse = 0 /\ since <= MaxLag + lag
    BY <1>1, <1>3 DEF IInv, SoonInv
  <2>2. pulse' = 0 /\ since' = since /\ since \in Nat /\ lag \in 0 .. MaxLag
    BY <1>1, <2>1, Still DEF IInv, TypeOK
  <2>3. since' <= 2 * MaxLag + lag'
    BY <1>1, <2>1, <2>2, Numbers
  <2>4. SoonInv' /\ WriteInv'
    BY <1>1, <2>2, <2>3 DEF SoonInv, WriteInv
  <2>5. FormatInv'
    <3>1. \A x \in 0 .. Nr - 1 : content[x].at = none
      BY <1>1, <1>3 DEF IInv, FormatInv
    <3>2. \A x \in 0 .. Nr - 1 : ~(x < 0)
      BY Numbers
    <3>3. QED
      BY <1>1, <3>1, <3>2 DEF FormatInv
  <2>6. ReadInv'
    BY <1>1 DEF ReadInv, Reads
  <2>7. QED
    BY <2>4, <2>5, <2>6
<1>4. warned \in BOOLEAN
  BY DEF IInv, TypeOK
<1>5. QED
  BY <1>1, <1>2, <1>3, <1>4, LateStep DEF Measuring

LEMMA CheckAgainStep == ASSUME IInv, CheckAgain PROVE IInv'
<1>1. /\ pc = "checked" /\ stage = "after1" /\ pc' = "check" /\ stage' = "after2"
      /\ test' = test /\ i' = i /\ lag' = 0 /\ content' = content
      /\ disk' = disk /\ armed' = armed /\ new' = new /\ warned' = warned
  BY DEF CheckAgain, Proceed, Step
<1>2. TypeOK' /\ Program'
  <2>1. test = "timing"
    BY <1>1 DEF IInv, Program
  <2>2. /\ s' = s /\ top' = top /\ lasted' = lasted /\ togo' = togo /\ begin' = begin
        /\ busy' = busy /\ got' = got /\ data' = data /\ sector' = sector
    BY DEF CheckAgain, Proceed, result
  <2>3. TypeOK'
    BY <1>1, <2>2, Still, Numbers DEF IInv, TypeOK
  <2>4. QED
    BY <1>1, <2>1, <2>3 DEF Program, Waiting
<1>3. ASSUME Good, ~warned
      PROVE  PromptInv' /\ CountInv' /\ SoonInv' /\ WriteInv' /\ FormatInv' /\ ReadInv'
  <2>1. i' = 0 /\ Nr \in Nat
    BY <1>1, <1>3, Numbers DEF IInv, CountInv, IdleCount, Measuring
  <2>2. pulse = 0 /\ since <= MaxLag + lag
    BY <1>1, <1>3 DEF IInv, SoonInv
  <2>3. since \in Nat /\ lag \in 0 .. MaxLag /\ Gap(pulse) = Full
    BY <1>3, <2>2, PlaceIs, Numbers DEF IInv, TypeOK
  <2>4. since + MaxLag < Gap(pulse)
    BY <2>2, <2>3, Numbers
  <2>5. ~armed' /\ ~new'
    BY <1>1 DEF IInv, ClockInv, Measuring
  <2>6. PromptInv' /\ From' = 0
    BY <1>1, <2>2, <2>4, <2>5, Unarmed DEF IInv
  <2>7. made'.hole
    BY <1>1, <1>3, Still, DiskIs DEF IInv, TypeOK
  <2>8. CountInv'
    BY <1>1, <2>1, <2>6, <2>7
       DEF CountInv, IdleCount, WarmCount, FullCount, HalfCount, SecondCount, CheckCount,
           SkipCount, Measuring
  <2>9. SoonInv' /\ WriteInv'
    BY <1>1 DEF SoonInv, WriteInv
  <2>10. FormatInv' /\ ReadInv'
    BY <1>1, <1>3 DEF IInv, FormatInv, ReadInv, Reads
  <2>11. QED
    BY <2>6, <2>8, <2>9, <2>10
<1>4. warned \in BOOLEAN
  BY DEF IInv, TypeOK
<1>5. QED
  BY <1>1, <1>2, <1>3, <1>4, LateStep DEF Measuring

LEMMA RwSectorStep == ASSUME IInv, RwSector PROVE IInv'
<1>1. /\ pc \in {"checked", "compare"} /\ pc' = "seek" /\ stage' = "write"
      /\ test' = test /\ i' = i /\ lag' = 0 /\ busy' \in Seeks /\ data' \in Values
      /\ got' = none /\ content' = content
      /\ disk' = disk /\ armed' = armed /\ new' = new /\ warned' = warned
  BY DEF RwSector, Proceed, Step
<1>2. test = "rw" /\ sector' \in 0 .. Nr - 1
  <2>1. CASE test = "rw" /\ sector' = 0
    BY <2>1, Numbers
  <2>2. CASE stage = "read2" /\ sector < Nr - 1 /\ sector' = sector + 1
    <3>1. test = "rw"
      BY <2>2 DEF IInv, Program
    <3>2. sector \in 0 .. Nr - 1
      BY DEF IInv, TypeOK
    <3>3. QED
      BY <2>2, <3>1, <3>2, Numbers
  <2>3. QED
    BY <2>1, <2>2 DEF RwSector, Proceed
<1>3. TypeOK' /\ Program'
  <2>1. data' \in Contents /\ got' \in Contents /\ busy' \in Nat
    BY <1>1, SeekTimes, Numbers DEF Contents, none
  <2>2. /\ s' = s /\ top' = top /\ lasted' = lasted /\ togo' = togo /\ begin' = begin
    BY DEF RwSector, Proceed
  <2>3. TypeOK'
    BY <1>1, <1>2, <2>1, <2>2, Still, Numbers DEF IInv, TypeOK
  <2>4. QED
    BY <1>1, <1>2, <2>3 DEF Program, Waiting
<1>4. SoonInv' /\ WriteInv' /\ FormatInv' /\ ReadInv'
  <2>1. SoonInv' /\ WriteInv'
    BY <1>1 DEF SoonInv, WriteInv
  <2>2. FormatInv' /\ ReadInv'
    BY <1>1 DEF FormatInv, ReadInv, Reads
  <2>3. QED
    BY <2>1, <2>2
<1>5. warned \in BOOLEAN
  BY DEF IInv, TypeOK
<1>6. QED
  BY <1>1, <1>3, <1>4, <1>5, LateStep DEF Measuring

LEMMA ReadPrepStep == ASSUME IInv, ReadPrep PROVE IInv'
<1>1. /\ pc = "written" /\ stage = "write" /\ pc' = "full" /\ stage' = "read1"
      /\ test' = test /\ i' = i /\ lag' = 0
      /\ sector' = sector /\ data' = data /\ got' = got /\ content' = content
      /\ disk' = disk /\ armed' = armed /\ new' = new /\ warned' = warned
  BY DEF ReadPrep, Proceed, Step, result
<1>2. TypeOK' /\ Program'
  <2>1. test = "rw"
    BY <1>1 DEF IInv, Program
  <2>2. /\ s' = s /\ top' = top /\ lasted' = lasted /\ togo' = togo /\ begin' = begin
        /\ busy' = busy
    BY DEF ReadPrep, Proceed
  <2>3. TypeOK'
    BY <1>1, <2>2, Still, Numbers DEF IInv, TypeOK
  <2>4. QED
    BY <1>1, <2>1, <2>3 DEF Program, Waiting
<1>3. ASSUME Good, ~warned
      PROVE  PromptInv' /\ CountInv' /\ SoonInv' /\ WriteInv' /\ FormatInv' /\ ReadInv'
  <2>1. i' = 0
    BY <1>1, <1>3 DEF IInv, CountInv, IdleCount, Measuring
  <2>2. PromptInv'
    BY <1>1, <2>1 DEF PromptInv, Counting
  <2>3. CountInv'
    BY <1>1, <2>1 DEF CountInv, IdleCount, WarmCount, FullCount, HalfCount, SecondCount,
                      CheckCount, SkipCount, Measuring
  <2>4. SoonInv' /\ WriteInv'
    BY <1>1 DEF SoonInv, WriteInv
  <2>5. FormatInv' /\ ReadInv'
    BY <1>1, <1>3 DEF IInv, FormatInv, ReadInv, Reads
  <2>6. QED
    BY <2>2, <2>3, <2>4, <2>5
<1>4. warned \in BOOLEAN
  BY DEF IInv, TypeOK
<1>5. QED
  BY <1>1, <1>2, <1>3, <1>4, LateStep DEF Measuring

LEMMA RereadStep == ASSUME IInv, Reread PROVE IInv'
<1>1. /\ pc = "compare" /\ stage = "read1" /\ pc' = "seek" /\ stage' = "read2"
      /\ test' = test /\ i' = i /\ lag' = 0 /\ busy' \in Seeks
      /\ sector' = sector /\ data' = data /\ got' = none /\ content' = content
      /\ disk' = disk /\ armed' = armed /\ new' = new /\ warned' = warned
  BY DEF Reread, Proceed, Step
<1>2. TypeOK' /\ Program'
  <2>1. test = "rw" /\ busy' \in Nat /\ got' \in Contents
    BY <1>1, SeekTimes, Numbers DEF IInv, Program, Contents, none
  <2>2. /\ s' = s /\ top' = top /\ lasted' = lasted /\ togo' = togo /\ begin' = begin
    BY DEF Reread, Proceed
  <2>3. TypeOK'
    BY <1>1, <2>1, <2>2, Still, Numbers DEF IInv, TypeOK
  <2>4. QED
    BY <1>1, <2>1, <2>3 DEF Program, Waiting
<1>3. ASSUME Good, ~warned
      PROVE  SoonInv' /\ WriteInv' /\ FormatInv' /\ ReadInv'
  <2>1. SoonInv' /\ WriteInv'
    BY <1>1 DEF SoonInv, WriteInv
  <2>2. FormatInv' /\ ReadInv'
    BY <1>1, <1>3 DEF IInv, FormatInv, ReadInv, Reads
  <2>3. QED
    BY <2>1, <2>2
<1>4. warned \in BOOLEAN
  BY DEF IInv, TypeOK
<1>5. QED
  BY <1>1, <1>2, <1>3, <1>4, LateStep DEF Measuring

LEMMA ReturnStep == ASSUME IInv, Return PROVE IInv'
<1>1. /\ pc \in {"checked", "compare"} /\ pc' = "idle" /\ stage' = "none" /\ test' = "none"
      /\ i' = i /\ lag' = 0 /\ sector' = 0 /\ data' = none /\ got' = none
      /\ lasted' = 0 /\ togo' = 0 /\ begin' = [sector |-> 0, at |-> 0]
      /\ content' = [x \in 0 .. Hole - 1 |-> blank]
      /\ disk' = disk /\ armed' = armed /\ new' = new /\ warned' = warned
      /\ s' = s /\ top' = top /\ busy' = busy
  BY DEF Return, Step
<1>2. TypeOK' /\ Program'
  <2>1. blank \in [at : Int, value : Contents] /\ none \in Contents /\ 0 \in 0 .. Nr - 1
    BY Numbers DEF blank, none, Contents
  <2>2. begin' \in [sector : 0 .. Hole - 1, at : Nat]
    BY <1>1, DiskIs DEF IInv, TypeOK
  <2>3. TypeOK'
    BY <1>1, <2>1, <2>2, Still, Numbers DEF IInv, TypeOK
  <2>4. QED
    BY <1>1, <2>3 DEF Program
<1>3. SoonInv' /\ WriteInv' /\ FormatInv' /\ ReadInv'
  BY <1>1 DEF SoonInv, WriteInv, FormatInv, ReadInv, Reads
<1>4. warned \in BOOLEAN
  BY DEF IInv, TypeOK
<1>5. QED
  BY <1>1, <1>2, <1>3, <1>4, LateStep DEF Measuring

LEMMA OpenGateStep == ASSUME IInv, OpenGate PROVE IInv'
<1>1. /\ pc = "gate" /\ pc' = "writing" /\ stage' = stage /\ test' = test /\ i' = i
      /\ lag' = 0 /\ sector' = sector /\ s' = since /\ togo' = StopIndex /\ lasted' = 0
      /\ begin' = [sector |-> Under, at |-> Place] /\ data' = data /\ got' = got
      /\ content' = [content EXCEPT ![Under] = blank]
      /\ disk' = disk /\ armed' = armed /\ new' = new /\ warned' = warned
      /\ top' = top /\ busy' = busy
  BY DEF OpenGate, Step, where, result
<1>2. stage \in {"format", "write"}
  BY <1>1 DEF IInv, Program, Waiting
<1>3. TypeOK' /\ Program'
  <2>1. blank \in [at : Int, value : Contents]
    BY Numbers DEF blank, none, Contents
  <2>2. Under \in 0 .. Hole - 1 /\ Place \in Nat
    BY DiskIs, Numbers DEF IInv, TypeOK, Under, Place
  <2>3. begin' \in [sector : 0 .. Hole - 1, at : Nat] /\ togo' \in 0 .. 2
    BY <1>1, <2>2 DEF StopIndex
  <2>4. content' \in [0 .. Hole - 1 -> [at : Int, value : Contents]] /\ since \in Nat
    BY <1>1, <2>1, <2>2 DEF IInv, TypeOK
  <2>5. TypeOK'
    BY <1>1, <2>3, <2>4, Still, Numbers DEF IInv, TypeOK
  <2>6. QED
    BY <1>1, <1>2, <2>5 DEF IInv, Program, Waiting
<1>4. ASSUME Good, ~warned
      PROVE  SoonInv' /\ WriteInv' /\ FormatInv' /\ ReadInv'
  <2>1. pulse = sector /\ since <= 2 * MaxLag + lag
    BY <1>1, <1>4 DEF IInv, SoonInv
  <2>2. /\ since \in Nat /\ lag \in 0 .. MaxLag /\ sector \in 0 .. Nr - 1 /\ Nr \in Nat
        /\ MaxLag \in Nat /\ SecLen \in Nat
    BY Numbers DEF IInv, TypeOK
  <2>3. Under = sector /\ Place = since
    BY <1>4, <2>1, <2>2, PlaceIs DEF IInv
  <2>4. /\ pulse' = pulse /\ since' = since /\ Under' = Under /\ Place' = Place
    BY <1>1, Still
  <2>5. begin'.sector = sector /\ begin'.at = since /\ since <= 3 * MaxLag
    BY <1>1, <2>1, <2>2, <2>3
  <2>6. togo' # 0 /\ togo' = IF pulse = Nr - 1 THEN 2 ELSE 1
    BY <1>1, <2>1, <2>2 DEF StopIndex
  <2>7. since + 0 = since /\ 0 <= SecLen + 0
    BY <2>2
  <2>8. WriteInv'
    BY <1>1, <2>3, <2>4, <2>5, <2>6, <2>7 DEF WriteInv
  <2>9. SoonInv' /\ ReadInv'
    BY <1>1, <1>2, <1>4 DEF IInv, SoonInv, ReadInv, Reads
  <2>10. FormatInv'
    <3>1. CASE stage = "format"
      <4>1. /\ data = sector
            /\ \A x \in 0 .. Nr - 1 : content[x].at = none
            /\ \A x \in 0 .. Nr - 1 : x < sector => content[x].value = x
        BY <1>1, <1>4, <3>1 DEF IInv, FormatInv
      <4>2. content \in [0 .. Nr - 1 -> [at : Int, value : Contents]]
        BY <1>4, PlaceIs DEF IInv, TypeOK
      <4>3. \A x \in 0 .. Nr - 1 : content'[x] = IF x = sector THEN blank ELSE content[x]
        BY <1>1, <2>3, <4>2
      <4>4. \A x \in 0 .. Nr - 1 : content'[x].at = none
        BY <4>1, <4>3 DEF blank
      <4>5. \A x \in 0 .. Nr - 1 : x < sector => content'[x].value = x
        BY <2>2, <4>1, <4>3
      <4>6. QED
        BY <1>1, <3>1, <4>1, <4>4, <4>5 DEF FormatInv
    <3>2. CASE stage = "write"
      BY <1>1, <3>2 DEF FormatInv
    <3>3. QED
      BY <1>2, <3>1, <3>2
  <2>11. QED
    BY <2>8, <2>9, <2>10
<1>5. warned \in BOOLEAN
  BY DEF IInv, TypeOK
<1>6. QED
  BY <1>1, <1>3, <1>4, <1>5, LateStep DEF Measuring

LEMMA CloseGateStep == ASSUME IInv, CloseGate PROVE IInv'
<1> DEFINE mark == [at    |-> IF stage = "format" THEN none ELSE begin.at + Lead,
                    value |-> data]
<1>1. /\ pc = "writing" /\ pc' = "written" /\ WriteOver /\ stage' = stage /\ test' = test
      /\ i' = i /\ lag' = 0 /\ sector' = sector /\ s' = s /\ togo' = togo
      /\ lasted' = lasted /\ begin' = begin /\ data' = data /\ got' = got
      /\ content' = IF lasted < SecLen THEN content
                    ELSE [content EXCEPT ![begin.sector] = mark]
      /\ disk' = disk /\ armed' = armed /\ new' = new /\ warned' = warned
      /\ top' = top /\ busy' = busy
  BY DEF CloseGate, Step, where, result
<1>2. stage \in {"format", "write"}
  BY <1>1 DEF IInv, Program, Waiting
<1>3. TypeOK' /\ Program'
  <2>1. mark \in [at : Int, value : Contents]
    BY Numbers DEF IInv, TypeOK, none
  <2>2. begin.sector \in 0 .. Hole - 1
    BY DEF IInv, TypeOK
  <2>3. content' \in [0 .. Hole - 1 -> [at : Int, value : Contents]]
    <3> HIDE DEF mark
    <3>1. QED
      BY <1>1, <2>1, <2>2 DEF IInv, TypeOK
  <2>4. TypeOK'
    <3> HIDE DEF mark
    <3>1. QED
      BY <1>1, <2>3, Still, Numbers DEF IInv, TypeOK
  <2>5. QED
    BY <1>1, <1>2, <2>4 DEF IInv, Program, Waiting
<1>4. ASSUME Good, ~warned
      PROVE  SoonInv' /\ WriteInv' /\ FormatInv' /\ ReadInv'
  <2>1. /\ begin.sector = sector /\ begin.at <= 3 * MaxLag
        /\ togo = 0 => pulse = Following /\ begin.at + lasted = Full + since
        /\ togo # 0 => begin.at + lasted = Place
        /\ stage = "format" => s = begin.at + lasted /\ (togo = 0 => since <= lag)
    BY <1>1, <1>4 DEF IInv, WriteInv
  <2>2. /\ since \in Nat /\ lag \in 0 .. MaxLag /\ sector \in 0 .. Nr - 1 /\ Nr \in Nat
        /\ MaxLag \in Nat /\ SecLen \in Nat /\ LongLen \in Nat /\ Full \in Nat /\ Lead \in Nat
        /\ SecLen + 3 * MaxLag < Full /\ Full + 3 * MaxLag < LongLen
        /\ lasted \in Nat /\ begin.at \in Nat /\ s \in Int
    BY Numbers DEF IInv, TypeOK
  <2>3. Place \in Nat /\ Place < Full
    <3>1. /\ since < Gap(pulse) /\ Half \in Nat /\ Full = Half + Half
          /\ Gap(pulse) = IF pulse \in {Nr - 1, Nr} THEN Half ELSE Full
          /\ Place = IF pulse = Nr THEN since + Half ELSE since
      BY <1>4, PlaceIs, Numbers DEF IInv, ClockInv
    <3>2. QED
      BY <2>2, <3>1
  <2>4. lasted >= WriteLen \/ togo = 0
    BY <1>1 DEF WriteOver
  <2>5. stage = "format" => togo = 0
    <3>1. SUFFICES ASSUME stage = "format", togo # 0 PROVE FALSE
      OBVIOUS
    <3>2. lasted >= LongLen
      BY <2>4, <3>1 DEF WriteLen
    <3>3. begin.at + lasted < Full
      BY <2>1, <2>3, <3>1
    <3>4. QED
      BY <2>2, <3>2, <3>3
  <2>6. lasted >= SecLen
    <3>1. CASE togo = 0
      BY <2>1, <2>2, <3>1
    <3>2. CASE togo # 0
      <4>1. WriteLen = SecLen
        BY <1>2, <2>5, <3>2 DEF WriteLen
      <4>2. QED
        BY <2>4, <3>2, <4>1
    <3>3. QED
      BY <3>1, <3>2
  <2>7. content' = [content EXCEPT ![sector] = mark]
    <3> HIDE DEF mark
    <3>1. ~(lasted < SecLen)
      BY <2>2, <2>6
    <3>2. QED
      BY <1>1, <2>1, <3>1
  <2>8. content \in [0 .. Nr - 1 -> [at : Int, value : Contents]]
    BY <1>4, PlaceIs DEF IInv, TypeOK
  <2>9. \A x \in 0 .. Nr - 1 : content'[x] = IF x = sector THEN mark ELSE content[x]
    <3> HIDE DEF mark
    <3>1. QED
      BY <2>7, <2>8
  <2>10. SoonInv'
    BY <1>1 DEF SoonInv
  <2>11. WriteInv'
    <3>1. SUFFICES ASSUME stage = "format"
                   PROVE  pulse' = Following' /\ s' = since' + Full /\ since' <= MaxLag + lag'
      BY <1>1 DEF WriteInv
    <3>2. togo = 0
      BY <2>5, <3>1
    <3>3. pulse = Following /\ s = Full + since /\ since <= lag
      BY <2>1, <3>1, <3>2
    <3>4. Following' = Following /\ pulse' = pulse /\ since' = since
      BY <1>1, Still DEF Following
    <3>5. s = since + Full /\ since <= MaxLag + 0
      BY <2>2, <3>3
    <3>6. QED
      BY <1>1, <3>3, <3>4, <3>5
  <2>12. FormatInv'
    <3>1. CASE stage = "format"
      <4>1. /\ data = sector
            /\ \A x \in 0 .. Nr - 1 : content[x].at = none
            /\ \A x \in 0 .. Nr - 1 : x < sector => content[x].value = x
        BY <1>1, <1>4, <3>1 DEF IInv, FormatInv
      <4>2. \A x \in 0 .. Nr - 1 : content'[x].at = none
        BY <2>9, <3>1, <4>1
      <4>3. \A x \in 0 .. Nr - 1 : x < sector \/ x = sector => content'[x].value = x
        BY <2>2, <2>9, <4>1
      <4>4. QED
        BY <1>1, <3>1, <4>1, <4>2, <4>3 DEF FormatInv
    <3>2. CASE stage = "write"
      BY <1>1, <3>2 DEF FormatInv
    <3>3. QED
      BY <1>2, <3>1, <3>2
  <2>13. ReadInv'
    <3>1. CASE stage = "format"
      BY <1>1, <3>1 DEF ReadInv, Reads
    <3>2. CASE stage = "write"
      <4>1. content'[sector] = mark
        BY <2>2, <2>9
      <4>2. content'[sector].value = data /\ content'[sector].at = begin.at + Lead
        BY <3>2, <4>1
      <4>3. begin.at + Lead \in Lead .. Lead + 3 * MaxLag
        BY <2>1, <2>2
      <4>4. data \in Values /\ got = none
        BY <1>4, <3>2 DEF IInv, ReadInv
      <4>5. QED
        BY <1>1, <3>2, <4>2, <4>3, <4>4 DEF ReadInv, Reads
    <3>3. QED
      BY <1>2, <3>1, <3>2
  <2>14. QED
    BY <2>10, <2>11, <2>12, <2>13
<1>5. warned \in BOOLEAN
  BY DEF IInv, TypeOK
<1>6. QED
  BY <1>1, <1>3, <1>4, <1>5, LateStep DEF Measuring

LEMMA Formatted1Step == ASSUME IInv, Formatted1 PROVE IInv'
<1> DEFINE more == sector < Nr - 1
<1>1. /\ pc = "written" /\ stage = "format" /\ pc' = (IF more THEN "gate" ELSE "check")
      /\ sector' = (IF more THEN sector + 1 ELSE 0) /\ data' = sector'
      /\ stage' = (IF more THEN "format" ELSE "after1") /\ test' = test /\ i' = i
      /\ lag' = 0 /\ s' = 0 /\ togo' = togo /\ lasted' = lasted /\ begin' = begin
      /\ got' = got /\ content' = content
      /\ disk' = disk /\ armed' = armed /\ new' = new
      /\ top' = top /\ busy' = busy
  BY DEF Formatted1, Step
<1>2. warned' = (warned \/ Period # Full) /\ warned \in BOOLEAN
  BY DEF Formatted1, IInv, TypeOK
<1>3. sector \in 0 .. Nr - 1 /\ Nr \in Nat /\ Nr >= 3
  BY Numbers DEF IInv, TypeOK
<1>4. TypeOK' /\ Program'
  <2>1. test = "timing"
    BY <1>1 DEF IInv, Program
  <2>2. sector' \in 0 .. Nr - 1 /\ data' \in Contents
    BY <1>1, <1>3 DEF Contents
  <2>3. TypeOK'
    <3>1. warned' \in BOOLEAN
      BY <1>2
    <3> HIDE DEF more
    <3>2. QED
      BY <1>1, <2>2, <3>1, Still, Numbers DEF IInv, TypeOK
  <2>4. Program'
    <3> HIDE DEF more
    <3>1. QED
      BY <1>1, <2>1 DEF Program, Waiting
  <2>5. QED
    BY <2>3, <2>4
<1>5. ASSUME Good, ~warned
      PROVE  /\ ~warned'
             /\ pc' \in Measuring => PromptInv' /\ CountInv'
             /\ SoonInv' /\ WriteInv' /\ FormatInv' /\ ReadInv'
  <2>1. pulse = Following /\ s = since + Full /\ since <= MaxLag + lag
    BY <1>1, <1>5 DEF IInv, WriteInv
  <2>2. since \in Nat /\ lag \in 0 .. MaxLag /\ MaxLag \in Nat /\ Full \in Nat
    BY Numbers DEF IInv, TypeOK
  <2>3. pulse' = pulse /\ since' = since
    BY <1>1, Still
  <2>4. Period = Full
    BY <2>1, <2>2 DEF Period
  <2>5. sector' = Following
    BY <1>1, <1>3 DEF Following
  <2>6. WriteInv' /\ ReadInv'
    <3> HIDE DEF more
    <3>1. QED
      BY <1>1 DEF WriteInv, ReadInv, Reads
  <2>7. /\ \A x \in 0 .. Nr - 1 : content[x].at = none
        /\ \A x \in 0 .. Nr - 1 : x < sector \/ x = sector => content[x].value = x
    BY <1>1, <1>5 DEF IInv, FormatInv
  <2>8. CASE more
    <3>1. since <= 2 * MaxLag + 0
      BY <2>1, <2>2
    <3>2. SoonInv'
      BY <1>1, <2>1, <2>3, <2>5, <2>8, <3>1 DEF SoonInv
    <3>3. \A x \in 0 .. Nr - 1 : x < sector' => content'[x].value = x
      BY <1>1, <1>3, <2>7, <2>8
    <3>4. FormatInv'
      BY <1>1, <2>7, <2>8, <3>3 DEF FormatInv
    <3>5. QED
      BY <1>1, <1>2, <1>5, <2>4, <2>6, <2>8, <3>2, <3>4 DEF Measuring
  <2>9. CASE ~more
    <3>1. pulse = 0
      BY <1>1, <1>3, <2>1, <2>5, <2>9
    <3>2. Gap(pulse) = Full
      BY <1>3, <1>5, <3>1, PlaceIs DEF IInv
    <3>3. since + MaxLag < Gap(pulse)
      BY <2>1, <2>2, <3>2, Numbers
    <3>4. ~armed' /\ ~new'
      BY <1>1 DEF IInv, ClockInv, Measuring
    <3>5. PromptInv' /\ From' = 0
      BY <1>1, <3>1, <3>3, <3>4, Unarmed DEF IInv
    <3>6. made'.hole
      BY <1>1, <1>5, Still, DiskIs DEF IInv, TypeOK
    <3>7. i' = 0
      BY <1>1, <1>5 DEF IInv, CountInv, IdleCount, Measuring
    <3>8. CountInv'
      BY <1>1, <1>3, <2>9, <3>5, <3>6, <3>7
         DEF CountInv, IdleCount, WarmCount, FullCount, HalfCount, SecondCount, CheckCount,
             SkipCount, Measuring
    <3>9. SoonInv'
      BY <1>1, <2>9 DEF SoonInv
    <3>10. \A x \in 0 .. Nr - 1 : content'[x].value = x
      BY <1>1, <1>3, <2>7, <2>9
    <3>11. FormatInv'
      BY <1>1, <2>9, <3>10 DEF FormatInv
    <3>12. QED
      BY <1>2, <1>5, <2>4, <2>6, <3>5, <3>8, <3>9, <3>11
  <2>10. QED
    BY <2>8, <2>9
<1>6. pc # "idle" /\ pc \notin Measuring /\ warned' \in BOOLEAN /\ (warned => warned')
  BY <1>1, <1>2 DEF Measuring
<1> HIDE DEF more
<1>7. QED
  BY <1>1, <1>4, <1>5, <1>6, LateStep

LEMMA StartReadStep == ASSUME IInv, StartRead PROVE IInv'
<1>1. /\ pc = "read" /\ pc' = "reading" /\ stage' = stage /\ test' = test /\ i' = i
      /\ lag' = 0 /\ sector' = sector /\ s' = s /\ togo' = togo /\ lasted' = 0
      /\ begin' = begin /\ data' = data /\ got' = got /\ content' = content
      /\ disk' = disk /\ armed' = armed /\ new' = new /\ warned' = warned
      /\ top' = top /\ busy' = busy
  BY DEF StartRead, Step, where, result
<1>2. stage \in Reads
  BY <1>1 DEF IInv, Program, Waiting, Reads
<1>3. TypeOK' /\ Program'
  <2>1. TypeOK'
    BY <1>1, Still, Numbers DEF IInv, TypeOK
  <2>2. QED
    BY <1>1, <1>2, <2>1 DEF IInv, Program, Waiting, Reads
<1>4. ASSUME Good, ~warned
      PROVE  SoonInv' /\ WriteInv' /\ FormatInv' /\ ReadInv'
  <2>1. pulse = sector /\ since <= MaxLag + lag
    BY <1>1, <1>4 DEF IInv, SoonInv
  <2>2. /\ since \in Nat /\ lag \in 0 .. MaxLag /\ sector \in 0 .. Nr - 1 /\ Nr \in Nat
        /\ MaxLag \in Nat /\ Lead \in Nat /\ 2 * MaxLag <= Lead
    BY Numbers DEF IInv, TypeOK
  <2>3. Under' = sector /\ Place' = since
    BY <1>1, <1>4, <2>1, <2>2, PlaceIs, Still DEF IInv
  <2>4. /\ data \in Values /\ content[sector].value = data /\ got = none
        /\ content[sector].at \in Lead .. Lead + 3 * MaxLag
    BY <1>1, <1>2, <1>4 DEF IInv, ReadInv
  <2>5. since <= content[sector].at
    BY <2>1, <2>2, <2>4
  <2>6. ReadInv'
    BY <1>1, <1>2, <2>3, <2>4, <2>5 DEF ReadInv, Reads
  <2>7. SoonInv' /\ WriteInv' /\ FormatInv'
    BY <1>1, <1>2 DEF SoonInv, WriteInv, FormatInv, Reads
  <2>8. QED
    BY <2>6, <2>7
<1>5. warned \in BOOLEAN
  BY DEF IInv, TypeOK
<1>6. QED
  BY <1>1, <1>3, <1>4, <1>5, LateStep DEF Measuring

LEMMA EndReadStep == ASSUME IInv, EndRead PROVE IInv'
<1>1. /\ pc = "reading" /\ pc' = "compare" /\ ReadOver /\ stage' = stage /\ test' = test
      /\ i' = i /\ lag' = 0 /\ sector' = sector /\ s' = s /\ togo' = togo
      /\ lasted' = lasted /\ begin' = begin /\ data' = data /\ got' = got
      /\ content' = content /\ disk' = disk /\ armed' = armed /\ new' = new
      /\ top' = top /\ busy' = busy
  BY DEF EndRead, Step, where, result
<1>2. warned' = (warned \/ got # data) /\ warned \in BOOLEAN
  BY DEF EndRead, IInv, TypeOK
<1>3. stage \in Reads
  BY <1>1 DEF IInv, Program, Waiting, Reads
<1>4. TypeOK' /\ Program'
  <2>1. warned' \in BOOLEAN
    BY <1>2
  <2>2. TypeOK'
    BY <1>1, <2>1, Still, Numbers DEF IInv, TypeOK
  <2>3. QED
    BY <1>1, <1>3, <2>2 DEF IInv, Program, Waiting, Reads
<1>5. ASSUME Good, ~warned
      PROVE  ~warned' /\ SoonInv' /\ WriteInv' /\ FormatInv' /\ ReadInv'
  <2>1. /\ IF got = none THEN lasted = 0 ELSE got = data
        /\ data \in Values /\ content[sector].value = data
        /\ content[sector].at \in Lead .. Lead + 3 * MaxLag
    BY <1>1, <1>3, <1>5 DEF IInv, ReadInv
  <2>2. lasted # 0
    BY <1>1, Numbers DEF ReadOver
  <2>3. got = data
    BY <2>1, <2>2
  <2>4. SoonInv' /\ WriteInv' /\ FormatInv'
    BY <1>1, <1>3 DEF SoonInv, WriteInv, FormatInv, Reads
  <2>5. ReadInv'
    BY <1>1, <1>3, <2>1, <2>3 DEF ReadInv, Reads
  <2>6. QED
    BY <1>2, <1>5, <2>3, <2>4, <2>5
<1>6. pc # "idle" /\ pc \notin Measuring /\ pc' \notin Measuring
      /\ warned' \in BOOLEAN /\ (warned => warned')
  BY <1>1, <1>2 DEF Measuring
<1>7. QED
  BY <1>1, <1>4, <1>5, <1>6, LateStep

-----------------------------------------------------------------------------
(***************************************************************************)
(* Measuring.                                                              *)
(***************************************************************************)
LEMMA ArmStep == ASSUME IInv, Arm PROVE IInv'
<1>1. /\ pc \in Measuring /\ ~armed /\ armed' = TRUE /\ s' = since /\ new' = FALSE
      /\ lag' = 0 /\ pc' = pc /\ stage' = stage /\ test' = test /\ i' = i
      /\ sector' = sector /\ top' = top /\ data' = data /\ got' = got /\ warned' = warned
      /\ disk' = disk /\ content' = content
  BY DEF Arm, where, result
<1>2. TypeOK' /\ Program'
  <2>1. busy' = busy /\ lasted' = lasted /\ togo' = togo /\ begin' = begin /\ since \in Nat
    BY DEF Arm, IInv, TypeOK
  <2>2. armed' \in BOOLEAN /\ new' \in BOOLEAN /\ warned' \in BOOLEAN
    BY <1>1 DEF IInv, TypeOK
  <2>3. /\ made' \in Disks /\ pulse' \in 0 .. Pulses' - 1 /\ since' \in Nat /\ lag' \in 0 .. MaxLag
    BY <1>1, Still, Numbers DEF IInv, TypeOK
  <2>4. TypeOK'
    BY <1>1, <2>1, <2>2, <2>3, Still DEF IInv, TypeOK
  <2>5. QED
    BY <1>1, <2>4 DEF IInv, Program
<1>3. ClockInv'
  <2>1. since' = since /\ pulse' = pulse /\ Gap(pulse)' = Gap(pulse) /\ since \in Nat
    BY <1>1, Still DEF IInv, TypeOK
  <2>2. QED
    BY <1>1, <2>1 DEF IInv, ClockInv
<1>4. From' = From /\ (Good' <=> Good) /\ (Regular' <=> Regular) /\ Hole' = Hole
      /\ made' = made /\ since' = since /\ pulse' = pulse
  <2>1. ~new
    BY <1>1 DEF IInv, ClockInv
  <2>2. QED
    BY <1>1, <2>1, Still DEF From
<1>5. ASSUME ~warned'
      PROVE  /\ PromptInv' /\ CountInv' /\ FaultInv' /\ SoonInv'
             /\ WriteInv' /\ FormatInv' /\ ReadInv'
  <2>1. PromptInv'
    BY <1>1 DEF PromptInv
  <2>2. CountInv /\ FaultInv /\ FormatInv /\ ReadInv
    BY <1>1, <1>5 DEF IInv
  <2>3. IdleCount' /\ WarmCount'
    BY <1>1, <1>4, <2>2 DEF CountInv, IdleCount, WarmCount
  <2>4. FullCount' /\ HalfCount'
    BY <1>1, <1>4, <2>2 DEF CountInv, FullCount, HalfCount
  <2>5. SecondCount'
    BY <1>1, <1>4, <2>2 DEF CountInv, SecondCount
  <2>6. CheckCount' /\ SkipCount'
    BY <1>1, <1>4, <2>2 DEF CountInv, CheckCount, SkipCount
  <2>7. FaultInv'
    BY <1>1, <1>4, <2>2 DEF FaultInv
  <2>8. SoonInv' /\ WriteInv'
    BY <1>1 DEF SoonInv, WriteInv, Measuring
  <2>9. FormatInv' /\ ReadInv'
    BY <1>1, <2>2 DEF FormatInv, ReadInv, Measuring
  <2>10. QED
    BY <2>1, <2>3, <2>4, <2>5, <2>6, <2>7, <2>8, <2>9 DEF CountInv
<1>6. QED
  BY <1>1, <1>2, <1>3, <1>4, <1>5 DEF IInv

\* What a measurement says of the disk.
LEMMA MeasuredIs ==
  ASSUME IInv, NEW from, NEW to, Measured(from, to)
  PROVE  /\ pc = from /\ pc' = to /\ lag' = 0 /\ disk' = disk /\ content' = content
         /\ togo' = togo /\ lasted' = lasted /\ begin' = begin /\ s' = 0
         /\ Period = Gap(From) /\ From \in 0 .. Pulses - 1
         /\ pulse = IF From = Pulses - 1 THEN 0 ELSE From + 1
         /\ since \in Nat /\ since <= MaxLag
         /\ ClockInv' /\ PromptInv' /\ From' = pulse
<1>1. /\ pc = from /\ pc' = to /\ lag' = 0 /\ disk' = disk /\ armed' = FALSE /\ new' = FALSE
      /\ content' = content /\ armed /\ new /\ s' = 0
      /\ togo' = togo /\ lasted' = lasted /\ begin' = begin
  BY DEF Measured, Step, Seen
<1>2. /\ pulse \in 0 .. Pulses - 1 /\ since \in Nat /\ lag \in 0 .. MaxLag /\ since <= lag
      /\ s = since + Gap(Before) /\ Pulses \in Nat /\ Pulses >= 1
  BY <1>1, DiskIs DEF IInv, TypeOK, ClockInv
<1>3. \A p : Gap(p) \in {Half, Full}
  BY DEF Gap
<1>4. /\ Half \in Nat /\ Full = Half + Half /\ 3 * MaxLag < Half /\ MaxLag \in Nat
      /\ Gap(pulse) \in {Half, Full} /\ Gap(Before) \in {Half, Full}
  BY <1>3, Numbers
<1>5. From = Before
  BY <1>1 DEF From
<1>6. Period = Gap(From)
  BY <1>2, <1>4, <1>5 DEF Period
<1>7. From \in 0 .. Pulses - 1 /\ pulse = IF From = Pulses - 1 THEN 0 ELSE From + 1
  BY <1>2, <1>5 DEF Before
<1>8. since <= MaxLag /\ since + MaxLag < Gap(pulse)
  BY <1>2, <1>4
<1>9. ClockInv' /\ PromptInv' /\ From' = pulse
  <2>1. ~armed' /\ ~new'
    BY <1>1
  <2>2. QED
    BY <1>1, <1>8, <2>1, Unarmed DEF IInv
<1>10. QED
  BY <1>1, <1>2, <1>6, <1>7, <1>8, <1>9

LEMMA MeasuredType ==
  ASSUME IInv, NEW from, NEW to, Measured(from, to), sector' = sector, busy' = busy,
         data' = data, got' = got, i' \in Nat, top' \in Int, warned' \in BOOLEAN
  PROVE  TypeOK'
<1>1. /\ lag' = 0 /\ disk' = disk /\ content' = content /\ togo' = togo /\ lasted' = lasted
      /\ begin' = begin /\ s' = 0
  BY MeasuredIs
<1>2. armed' \in BOOLEAN /\ new' \in BOOLEAN
  <2>1. armed' = FALSE /\ new' = FALSE
    BY DEF Measured
  <2>2. QED
    BY <2>1
<1>3. /\ made' \in Disks /\ pulse' \in 0 .. Pulses' - 1 /\ since' \in Nat /\ lag' \in 0 .. MaxLag
  BY <1>1, Still, Numbers DEF IInv, TypeOK
<1>4. QED
  BY <1>1, <1>2, <1>3, Still DEF IInv, TypeOK

LEMMA MeasuredStep ==
  ASSUME IInv, NEW from, NEW to, Measured(from, to),
         warned' \in BOOLEAN, warned => warned', Good /\ ~warned => ~warned',
         TypeOK', Program', to \notin {"writing", "written"},
         ~warned' => CountInv' /\ FaultInv' /\ (Good => SoonInv' /\ FormatInv' /\ ReadInv')
  PROVE  IInv'
<1>1. pc' = to /\ disk' = disk /\ ClockInv' /\ PromptInv'
  BY MeasuredIs
<1>2. Good' <=> Good
  BY <1>1, Still
<1>3. (Good => ~warned)'
  BY <1>2 DEF IInv
<1>4. WriteInv'
  BY <1>1 DEF WriteInv
<1>5. ASSUME ~warned'
      PROVE  SoonInv' /\ WriteInv' /\ FormatInv' /\ ReadInv'
  <2>1. CASE Good
    BY <1>4, <1>5, <2>1
  <2>2. CASE ~Good
    BY <1>2, <1>5, <2>2, WrongPrimed
  <2>3. QED
    BY <2>1, <2>2
<1>6. QED
  BY <1>1, <1>3, <1>5 DEF IInv

\* The periods of a disk with an index hole.
LEMMA GapIs ==
  ASSUME TypeOK
  PROVE  /\ Half # Full
         /\ \A p : Gap(p) = Half \/ Gap(p) = Full
         /\ made.hole => \A p : Gap(p) = Half <=> p \in {Hole - 1, Hole}
         /\ ~made.hole => \A p : Gap(p) = Full
<1>1. Half # Full
  BY Numbers
<1>2. QED
  BY <1>1 DEF Gap, HalfPulses

LEMMA FindFullStep == ASSUME IInv, FindFull PROVE IInv'
<1> DEFINE to == IF EnoughTries(i) THEN "half" ELSE "full"
<1>1. /\ Measured("full", to) /\ i' = (IF EnoughTries(i) THEN 0 ELSE i + 1)
      /\ stage' = stage /\ test' = test /\ sector' = sector /\ top' = top /\ busy' = busy
      /\ data' = data /\ got' = got /\ warned' = warned
  BY DEF FindFull, where, result
<1>2. to \in {"half", "full"}
  OBVIOUS
<1> HIDE DEF to
<1>3. /\ pc = "full" /\ pc' = to /\ disk' = disk /\ content' = content /\ From' = pulse
      /\ Period = Gap(From) /\ From \in 0 .. Pulses - 1
      /\ pulse = IF From = Pulses - 1 THEN 0 ELSE From + 1
  BY <1>1, MeasuredIs
<1>4. TypeOK' /\ Program'
  <2>1. i' \in Nat /\ top' \in Int /\ warned' \in BOOLEAN
    BY <1>1 DEF IInv, TypeOK
  <2>2. TypeOK'
    BY <1>1, <2>1, MeasuredType
  <2>3. QED
    BY <1>1, <1>2, <1>3, <2>2 DEF IInv, Program, Waiting
<1>5. /\ Hole' = Hole /\ (Good' <=> Good) /\ (Regular' <=> Regular) /\ made' = made
  BY <1>3, Still
<1>6. ASSUME ~warned
      PROVE  CountInv' /\ FaultInv' /\ (Good => SoonInv' /\ FormatInv' /\ ReadInv')
  <2>1. i <= 2 /\ i \in Nat /\ (Regular => (i = 1 => From \in {Hole, 0}) /\ (i = 2 => From = 0))
    BY <1>3, <1>6 DEF IInv, TypeOK, CountInv, FullCount
  <2>2. Regular => made.hole /\ Hole \in Nat /\ Hole >= 2 /\ Pulses = Hole + 1
    BY DiskIs DEF IInv, TypeOK, Regular
  <2>3. Regular => (Period # Full => From \in {Hole - 1, Hole})
                   /\ (Period = Full => From \notin {Hole - 1, Hole})
    BY <1>3, <2>2, GapIs DEF IInv
  <2>4. FaultInv'
    BY <1>1, <1>2, <1>3, <1>5, <1>6 DEF IInv, FaultInv
  <2>5. Good => SoonInv' /\ FormatInv' /\ ReadInv'
    BY <1>1, <1>2, <1>3, <1>6 DEF IInv, SoonInv, FormatInv, ReadInv, Reads
  <2>6. CASE EnoughTries(i)
    <3>1. pc' = "half" /\ i' = 0
      BY <1>1, <1>3, <2>6 DEF to
    <3>2. Regular => 1 <= pulse /\ pulse <= Hole - 1
      <4>1. SUFFICES ASSUME Regular PROVE 1 <= pulse /\ pulse <= Hole - 1
        OBVIOUS
      <4>2. From \notin {Hole - 1, Hole}
        BY <2>1, <2>2, <2>3, <2>6, <4>1 DEF EnoughTries
      <4>3. QED
        BY <1>3, <2>2, <4>1, <4>2
    <3>3. HalfCount'
      BY <1>3, <1>5, <3>1, <3>2 DEF HalfCount
    <3>4. CountInv'
      BY <3>1, <3>3 DEF CountInv, IdleCount, WarmCount, FullCount, SecondCount, CheckCount,
                        SkipCount, Measuring
    <3>5. QED
      BY <2>4, <2>5, <3>4
  <2>7. CASE ~EnoughTries(i)
    <3>1. pc' = "full" /\ i' = i + 1 /\ Period # Full /\ i # 2
      BY <1>1, <1>3, <2>7 DEF to, EnoughTries
    <3>2. i' <= 2
      BY <2>1, <3>1
    <3>3. Regular => (i' = 1 => pulse \in {Hole, 0}) /\ (i' = 2 => pulse = 0)
      <4>1. SUFFICES ASSUME Regular
                     PROVE  (i' = 1 => pulse \in {Hole, 0}) /\ (i' = 2 => pulse = 0)
        OBVIOUS
      <4>2. From \in {Hole - 1, Hole}
        BY <2>3, <3>1, <4>1
      <4>3. pulse \in {Hole, 0}
        BY <1>3, <2>2, <4>1, <4>2
      <4>4. i = 1 => pulse = 0
        BY <1>3, <2>1, <2>2, <4>1, <4>2
      <4>5. i' = 2 => i = 1
        BY <2>1, <3>1
      <4>6. QED
        BY <4>3, <4>4, <4>5
    <3>4. FullCount'
      BY <1>3, <1>5, <3>1, <3>2, <3>3 DEF FullCount
    <3>5. CountInv'
      BY <3>1, <3>4 DEF CountInv, IdleCount, WarmCount, HalfCount, SecondCount, CheckCount,
                        SkipCount, Measuring
    <3>6. QED
      BY <2>4, <2>5, <3>5
  <2>8. QED
    BY <2>6, <2>7
<1>7. warned' \in BOOLEAN /\ (warned' <=> warned)
  BY <1>1 DEF IInv, TypeOK
<1>8. to \notin {"writing", "written"}
  BY <1>2
<1>9. QED
  BY <1>1, <1>4, <1>6, <1>7, <1>8, MeasuredStep

LEMMA FindHalfStep == ASSUME IInv, FindHalf PROVE IInv'
<1> DEFINE to == IF FoundHalf \/ i = Nr THEN "second" ELSE "half"
<1>1. /\ Measured("half", to) /\ i' = (IF FoundHalf THEN i ELSE i + 1)
      /\ stage' = stage /\ test' = test /\ sector' = sector /\ top' = top /\ busy' = busy
      /\ data' = data /\ got' = got /\ warned' = warned
  BY DEF FindHalf, where, result
<1>2. to \in {"half", "second"}
  OBVIOUS
<1> HIDE DEF to
<1>3. /\ pc = "half" /\ pc' = to /\ disk' = disk /\ content' = content /\ From' = pulse
      /\ Period = Gap(From) /\ From \in 0 .. Pulses - 1
      /\ pulse = IF From = Pulses - 1 THEN 0 ELSE From + 1
  BY <1>1, MeasuredIs
<1>4. TypeOK' /\ Program'
  <2>1. i' \in Nat /\ top' \in Int /\ warned' \in BOOLEAN
    BY <1>1 DEF IInv, TypeOK
  <2>2. TypeOK'
    BY <1>1, <2>1, MeasuredType
  <2>3. QED
    BY <1>1, <1>2, <1>3, <2>2 DEF IInv, Program, Waiting
<1>5. /\ Hole' = Hole /\ (Good' <=> Good) /\ (Regular' <=> Regular) /\ made' = made
  BY <1>3, Still
<1>6. ASSUME ~warned
      PROVE  CountInv' /\ FaultInv' /\ (Good => SoonInv' /\ FormatInv' /\ ReadInv')
  <2>1. i \in Nat /\ (Regular => i + 1 <= From /\ From <= Hole - 1)
    BY <1>3, <1>6 DEF IInv, TypeOK, CountInv, HalfCount
  <2>2. Regular => made.hole /\ Hole \in Nat /\ Hole >= 2 /\ Pulses = Hole + 1
    BY DiskIs DEF IInv, TypeOK, Regular
  <2>3. Regular => (FoundHalf <=> From \in {Hole - 1, Hole})
    BY <1>3, <2>2, GapIs DEF IInv, FoundHalf
  <2>4. FaultInv'
    BY <1>1, <1>2, <1>3, <1>5, <1>6 DEF IInv, FaultInv
  <2>5. Good => SoonInv' /\ FormatInv' /\ ReadInv'
    BY <1>1, <1>2, <1>3, <1>6 DEF IInv, SoonInv, FormatInv, ReadInv, Reads
  <2>6. Regular => pulse = From + 1 /\ (FoundHalf <=> pulse = Hole)
    <3>1. SUFFICES ASSUME Regular PROVE pulse = From + 1 /\ (FoundHalf <=> pulse = Hole)
      OBVIOUS
    <3>2. From + 1 <= Hole /\ From \in Nat
      BY <1>3, <2>1, <2>2, <3>1
    <3>3. pulse = From + 1
      BY <1>3, <2>2, <3>1, <3>2
    <3>4. QED
      BY <2>2, <2>3, <3>1, <3>2, <3>3
  <2>7. CASE pc' = "half"
    <3>1. ~FoundHalf /\ i' = i + 1
      BY <1>1, <1>3, <2>7 DEF to
    <3>2. Regular => (i + 1) + 1 <= pulse /\ pulse <= Hole - 1
      BY <1>3, <2>1, <2>2, <2>6, <3>1
    <3>3. HalfCount'
      BY <1>3, <1>5, <3>1, <3>2 DEF HalfCount
    <3>4. CountInv'
      BY <2>7, <3>3 DEF CountInv, IdleCount, WarmCount, FullCount, SecondCount, CheckCount,
                        SkipCount, Measuring
    <3>5. QED
      BY <2>4, <2>5, <3>4
  <2>8. CASE pc' = "second"
    <3>1. FoundHalf \/ i = Nr
      BY <1>3, <2>8 DEF to
    <3>2. Regular => i' < Hole /\ (pulse = Hole \/ (i' = Nr + 1 /\ pulse < Hole))
      <4>1. SUFFICES ASSUME Regular
                     PROVE  i' < Hole /\ (pulse = Hole \/ (i' = Nr + 1 /\ pulse < Hole))
        OBVIOUS
      <4>2. CASE FoundHalf
        BY <1>1, <1>3, <2>1, <2>2, <2>6, <4>1, <4>2
      <4>3. CASE ~FoundHalf
        <5>1. i' = i + 1 /\ i = Nr /\ pulse # Hole
          BY <1>1, <2>6, <3>1, <4>1, <4>3
        <5>2. i + 1 < Hole /\ pulse < Hole
          BY <1>3, <2>1, <2>2, <2>6, <4>1, <5>1
        <5>3. QED
          BY <5>1, <5>2
      <4>4. QED
        BY <4>2, <4>3
    <3>3. SecondCount'
      BY <1>3, <1>5, <2>8, <3>2 DEF SecondCount
    <3>4. CountInv'
      BY <2>8, <3>3 DEF CountInv, IdleCount, WarmCount, FullCount, HalfCount, CheckCount,
                        SkipCount, Measuring
    <3>5. QED
      BY <2>4, <2>5, <3>4
  <2>9. QED
    BY <1>2, <1>3, <2>7, <2>8
<1>7. warned' \in BOOLEAN /\ (warned' <=> warned)
  BY <1>1 DEF IInv, TypeOK
<1>8. to \notin {"writing", "written"}
  BY <1>2
<1>9. QED
  BY <1>1, <1>4, <1>6, <1>7, <1>8, MeasuredStep

LEMMA SecondHalfStep == ASSUME IInv, SecondHalf PROVE IInv'
<1>1. /\ Measured("second", AfterWait) /\ i' = 0
      /\ stage' = stage /\ test' = test /\ sector' = sector /\ top' = top /\ busy' = busy
      /\ data' = data /\ got' = got
  BY DEF SecondHalf, where, result
<1>2. warned' = (warned \/ Period # Half \/ i = Nr) /\ warned \in BOOLEAN
  BY DEF SecondHalf, IInv, TypeOK
<1>3. /\ pc = "second" /\ pc' = AfterWait /\ disk' = disk /\ content' = content
      /\ From' = pulse /\ Period = Gap(From) /\ From \in 0 .. Pulses - 1
      /\ pulse = IF From = Pulses - 1 THEN 0 ELSE From + 1
      /\ since \in Nat /\ since <= MaxLag /\ lag' = 0
  BY <1>1, MeasuredIs
<1>4. \/ stage = "first" /\ test \in {"timing", "rw"} /\ pc' = "check"
      \/ stage = "again" /\ test = "timing" /\ pc' = "track"
      \/ stage \in Reads \cup {"write"} /\ test = "rw" /\ sector > 0 /\ pc' = "skip"
      \/ stage = "write" /\ test = "rw" /\ ~(sector > 0) /\ pc' = "gate"
      \/ stage \in Reads /\ test = "rw" /\ ~(sector > 0) /\ pc' = "read"
  BY <1>3 DEF IInv, Program, Waiting, AfterWait, Reads
<1>5. TypeOK' /\ Program'
  <2>1. i' \in Nat /\ top' \in Int /\ warned' \in BOOLEAN
    BY <1>1, <1>2 DEF IInv, TypeOK
  <2>2. TypeOK'
    BY <1>1, <2>1, MeasuredType
  <2>3. QED
    BY <1>1, <1>4, <2>2 DEF Program, Waiting, Reads
<1>6. /\ Hole' = Hole /\ (Good' <=> Good) /\ (Regular' <=> Regular) /\ made' = made
      /\ pulse' = pulse /\ since' = since
  BY <1>3, Still
<1>7. Good /\ ~warned => From = Hole /\ pulse = 0 /\ ~warned'
  <2>1. SUFFICES ASSUME Good, ~warned PROVE From = Hole /\ pulse = 0 /\ ~warned'
    OBVIOUS
  <2>2. Hole = Nr /\ Regular /\ Pulses = Nr + 1 /\ Nr \in Nat
        /\ Gap(From) = IF From \in {Nr - 1, Nr} THEN Half ELSE Full
    BY <2>1, PlaceIs, Numbers DEF IInv
  <2>3. i < Hole /\ (From = Hole \/ (i = Nr + 1 /\ From < Hole)) /\ i \in Nat
    BY <1>3, <2>1, <2>2 DEF IInv, TypeOK, CountInv, SecondCount
  <2>4. From = Hole /\ i # Nr
    BY <2>2, <2>3
  <2>5. Period = Half /\ pulse = 0
    BY <1>3, <2>2, <2>4
  <2>6. QED
    BY <1>2, <2>1, <2>4, <2>5
<1>8. ASSUME ~warned'
      PROVE  CountInv' /\ FaultInv' /\ (Good => SoonInv' /\ FormatInv' /\ ReadInv')
  <2>1. ~warned /\ Period = Half /\ i # Nr /\ Nr \in Nat /\ Nr >= 3
    BY <1>2, <1>8, Numbers
  <2>2. CASE pc' = "check"
    <3>1. made.hole
      BY <1>3, <2>1, GapIs DEF IInv
    <3>2. Regular => pulse = 0 \/ (pulse = Hole /\ ~Good)
      <4>1. SUFFICES ASSUME Regular, ~Good PROVE pulse = 0 \/ pulse = Hole
        BY <1>7, <2>1
      <4>2. Hole \in Nat /\ Pulses = Hole + 1
        BY <3>1, DiskIs DEF IInv, TypeOK
      <4>3. From \in {Hole - 1, Hole}
        BY <1>3, <2>1, <3>1, GapIs DEF IInv
      <4>4. QED
        BY <1>3, <4>2, <4>3
    <3>3. CheckCount'
      BY <1>1, <1>3, <1>6, <2>1, <3>1, <3>2 DEF CheckCount
    <3>4. CountInv'
      BY <1>1, <2>2, <3>3 DEF CountInv, IdleCount, WarmCount, FullCount, HalfCount,
                              SecondCount, SkipCount, Measuring
    <3>5. stage = "first"
      BY <1>4, <2>2
    <3>6. FaultInv'
      <4>1. Hole \in Nat /\ Hole >= 1
        BY DiskIs DEF IInv, TypeOK
      <4>2. 0 < Hole /\ 0 < Nr
        BY <2>1, <4>1
      <4>3. QED
        BY <1>1, <1>6, <2>2, <3>5, <4>2 DEF FaultInv
    <3>7. SoonInv' /\ FormatInv' /\ ReadInv'
      BY <1>1, <2>2, <3>5 DEF SoonInv, FormatInv, ReadInv, Reads
    <3>8. QED
      BY <3>4, <3>6, <3>7
  <2>3. CASE pc' # "check"
    <3>1. Good
      BY <1>4, <2>1, <2>3 DEF IInv, FaultInv, Reads
    <3>2. pulse = 0 /\ FaultInv'
      BY <1>6, <1>7, <2>1, <3>1 DEF FaultInv
    <3>3. sector \in 0 .. Nr - 1 /\ (~(sector > 0) => sector = 0)
      BY Numbers DEF IInv, TypeOK
    <3>4. CountInv'
      <4>1. CASE pc' = "skip"
        <5>1. i' = 0 /\ From' = 0 /\ 0 < sector'
          BY <1>1, <1>3, <1>4, <3>2, <3>3, <4>1
        <5>2. SkipCount'
          BY <5>1 DEF SkipCount
        <5>3. QED
          BY <4>1, <5>2 DEF CountInv, IdleCount, WarmCount, FullCount, HalfCount,
                            SecondCount, CheckCount, Measuring
      <4>2. CASE pc' # "skip"
        BY <1>1, <1>4, <2>3, <4>2
           DEF CountInv, IdleCount, WarmCount, FullCount, HalfCount, SecondCount,
               CheckCount, SkipCount, Measuring
      <4>3. QED
        BY <4>1, <4>2
    <3>5. SoonInv'
      <4>1. since' <= MaxLag + lag' /\ since' <= 2 * MaxLag + lag'
        BY <1>3, <1>6, Numbers
      <4>2. pulse' = 0 /\ (pc' \in {"gate", "read"} => sector' = 0)
        BY <1>1, <1>4, <1>6, <3>2, <3>3
      <4>3. pc' # "seek"
        BY <1>4
      <4>4. QED
        BY <4>1, <4>2, <4>3 DEF SoonInv
    <3>6. FormatInv' /\ ReadInv'
      BY <1>1, <1>3, <1>4, <2>1, <2>3 DEF IInv, FormatInv, ReadInv, Reads
    <3>7. QED
      BY <3>2, <3>4, <3>5, <3>6
  <2>4. QED
    BY <2>2, <2>3
<1>9. warned' \in BOOLEAN /\ (warned => warned')
  BY <1>2
<1>10. AfterWait \notin {"writing", "written"}
  BY DEF AfterWait
<1>11. QED
  BY <1>1, <1>5, <1>7, <1>8, <1>9, <1>10, MeasuredStep

LEMMA CheckPeriodStep == ASSUME IInv, CheckPeriod PROVE IInv'
<1> DEFINE to == IF i = Nr THEN "checked" ELSE "check"
<1>1. /\ Measured("check", to) /\ i' = (IF i = Nr THEN 0 ELSE i + 1)
      /\ stage' = stage /\ test' = test /\ sector' = sector /\ top' = top /\ busy' = busy
      /\ data' = data /\ got' = got
  BY DEF CheckPeriod, where, result
<1>2. warned' = (warned \/ Period # Expected(i)) /\ warned \in BOOLEAN
  BY DEF CheckPeriod, IInv, TypeOK
<1>3. to \in {"check", "checked"} /\ (to = "checked" <=> i = Nr)
  OBVIOUS
<1> HIDE DEF to
<1>4. /\ pc = "check" /\ pc' = to /\ disk' = disk /\ content' = content
      /\ From' = pulse /\ Period = Gap(From) /\ From \in 0 .. Pulses - 1
      /\ pulse = IF From = Pulses - 1 THEN 0 ELSE From + 1
      /\ since \in Nat /\ since <= MaxLag /\ lag' = 0
  BY <1>1, MeasuredIs
<1>5. TypeOK' /\ Program'
  <2>1. i' \in Nat /\ top' \in Int /\ warned' \in BOOLEAN
    BY <1>1, <1>2 DEF IInv, TypeOK
  <2>2. TypeOK'
    BY <1>1, <2>1, MeasuredType
  <2>3. QED
    BY <1>1, <1>3, <1>4, <2>2 DEF IInv, Program, Waiting
<1>6. /\ Hole' = Hole /\ (Good' <=> Good) /\ (Regular' <=> Regular) /\ made' = made
      /\ pulse' = pulse /\ since' = since
  BY <1>4, Still
<1>7. i \in Nat /\ Nr \in Nat /\ Nr >= 3 /\ Half # Full
  BY Numbers DEF IInv, TypeOK
<1>8. Good /\ ~warned => From = i /\ i <= Nr /\ ~warned'
  <2>1. SUFFICES ASSUME Good, ~warned PROVE From = i /\ i <= Nr /\ ~warned'
    OBVIOUS
  <2>2. Regular /\ Gap(From) = IF From \in {Nr - 1, Nr} THEN Half ELSE Full
    BY <2>1, PlaceIs DEF IInv
  <2>3. From = i /\ i <= Nr
    BY <1>4, <2>1, <2>2 DEF IInv, CountInv, CheckCount
  <2>4. Period = Expected(i)
    BY <1>4, <1>7, <2>2, <2>3 DEF Expected
  <2>5. QED
    BY <1>2, <2>1, <2>3, <2>4
<1>9. ASSUME ~warned'
      PROVE  CountInv' /\ FaultInv' /\ (Good => SoonInv' /\ FormatInv' /\ ReadInv')
  <2>1. ~warned /\ Period = Expected(i)
    BY <1>2, <1>9
  <2>2. made.hole /\ (Regular => From = i \/ (i = 0 /\ From = Hole /\ ~Good)) /\ i <= Nr
    BY <1>4, <2>1 DEF IInv, CountInv, CheckCount
  <2>3. CASE Good
    <3>1. From = i /\ Pulses = Nr + 1 /\ Regular
      BY <1>8, <2>1, <2>3, PlaceIs DEF IInv
    <3>2. FaultInv'
      BY <1>6, <2>3 DEF FaultInv
    <3>3. FormatInv' /\ ReadInv'
      BY <1>1, <1>3, <1>4, <2>1 DEF IInv, FormatInv, ReadInv, Reads, Program
    <3>4. CASE i = Nr
      <4>1. pc' = "checked" /\ i' = 0 /\ pulse = 0
        BY <1>1, <1>3, <1>4, <3>1, <3>4
      <4>2. since' <= MaxLag + lag'
        BY <1>4, <1>6, Numbers
      <4>3. SoonInv'
        BY <1>6, <4>1, <4>2 DEF SoonInv
      <4>4. CountInv'
        BY <4>1 DEF CountInv, IdleCount, WarmCount, FullCount, HalfCount, SecondCount,
                    CheckCount, SkipCount, Measuring
      <4>5. QED
        BY <3>2, <3>3, <4>3, <4>4
    <3>5. CASE i # Nr
      <4>1. pc' = "check" /\ i' = i + 1
        BY <1>1, <1>3, <1>4, <3>5
      <4>2. pulse = i + 1 /\ i + 1 <= Nr
        BY <1>4, <1>7, <2>2, <3>1, <3>5
      <4>3. CheckCount'
        BY <1>4, <1>6, <2>2, <4>1, <4>2 DEF CheckCount
      <4>4. CountInv'
        BY <4>1, <4>3 DEF CountInv, IdleCount, WarmCount, FullCount, HalfCount,
                          SecondCount, SkipCount, Measuring
      <4>5. SoonInv'
        BY <4>1 DEF SoonInv
      <4>6. QED
        BY <3>2, <3>3, <4>4, <4>5
    <3>6. QED
      BY <3>4, <3>5
  <2>4. CASE ~Good
    <3>1. i < Hole /\ i < Nr /\ stage \in {"none", "first"}
      BY <1>4, <2>1, <2>4 DEF IInv, FaultInv
    <3>2. Hole \in Nat /\ Hole >= 1 /\ Hole # Nr /\ Pulses = Hole + 1
      BY <2>2, <2>4, DiskIs DEF IInv, TypeOK
    <3>3. Period = Half <=> From \in {Hole - 1, Hole}
      BY <1>4, <2>2, GapIs DEF IInv
    <3>4. Hole >= 2
      <4>1. SUFFICES ASSUME Hole = 1 PROVE FALSE
        BY <3>2
      <4>2. Period = Half
        BY <1>4, <3>2, <3>3, <4>1
      <4>3. i = 0 /\ Expected(i) = Full
        BY <1>7, <3>1, <4>1 DEF Expected
      <4>4. QED
        BY <1>7, <2>1, <4>2, <4>3
    <3>5. From = i
      <4>1. SUFFICES ASSUME i = 0, From = Hole PROVE FALSE
        BY <2>2, <3>4 DEF Regular
      <4>2. Period = Half /\ Expected(i) = Full
        BY <1>7, <3>3, <4>1 DEF Expected
      <4>3. QED
        BY <1>7, <2>1, <4>2
    <3>6. i + 1 < Nr
      <4>1. SUFFICES ASSUME i = Nr - 1 PROVE FALSE
        BY <1>7, <3>1
      <4>2. Expected(i) = Half
        BY <1>7, <4>1 DEF Expected
      <4>3. i \in {Hole - 1, Hole}
        BY <2>1, <3>3, <3>5, <4>2
      <4>4. QED
        BY <1>7, <3>1, <3>2, <4>1, <4>3
    <3>7. i + 1 < Hole
      <4>1. SUFFICES ASSUME i = Hole - 1 PROVE FALSE
        BY <1>7, <3>1, <3>2
      <4>2. Expected(i) = Full
        BY <1>7, <3>6 DEF Expected
      <4>3. Period = Half
        BY <3>3, <3>5, <4>1
      <4>4. QED
        BY <1>7, <2>1, <4>2, <4>3
    <3>8. pc' = "check" /\ i' = i + 1
      BY <1>1, <1>3, <1>4, <1>7, <3>1
    <3>9. pulse = i + 1 /\ i + 1 <= Nr
      BY <1>4, <1>7, <3>2, <3>5, <3>6, <3>7
    <3>10. CheckCount'
      BY <1>4, <1>6, <2>2, <3>8, <3>9 DEF CheckCount
    <3>11. CountInv'
      BY <3>8, <3>10 DEF CountInv, IdleCount, WarmCount, FullCount, HalfCount,
                         SecondCount, SkipCount, Measuring
    <3>12. FaultInv'
      BY <1>1, <1>6, <3>1, <3>6, <3>7, <3>8 DEF FaultInv
    <3>13. QED
      BY <2>4, <3>11, <3>12
  <2>5. QED
    BY <2>3, <2>4
<1>10. warned' \in BOOLEAN /\ (warned => warned')
  BY <1>2
<1>11. to \notin {"writing", "written"}
  BY <1>3
<1>12. QED
  BY <1>1, <1>5, <1>8, <1>9, <1>10, <1>11, MeasuredStep

LEMMA WarmStep == ASSUME IInv, Warm PROVE IInv'
<1> DEFINE longest == IF i = 0 THEN 0 ELSE Later(top, Period)
           last    == test = "rw" \/ i = 3
           to      == IF last THEN "full" ELSE "warm"
<1>1. /\ Measured("warm", to) /\ i' = (IF last THEN 0 ELSE i + 1)
      /\ top' = (IF last THEN 0 ELSE longest)
      /\ warned' = (warned \/ (last /\ test = "timing" /\ longest # Full))
      /\ stage' = stage /\ test' = test /\ sector' = sector /\ busy' = busy
      /\ data' = data /\ got' = got
  BY DEF Warm, where, result
<1>2. to \in {"warm", "full"} /\ (to = "full" <=> last)
  OBVIOUS
<1> HIDE DEF to
<1>3. /\ pc = "warm" /\ pc' = to /\ disk' = disk /\ content' = content
      /\ From' = pulse /\ Period = Gap(From) /\ From \in 0 .. Pulses - 1
      /\ pulse = IF From = Pulses - 1 THEN 0 ELSE From + 1
  BY <1>1, MeasuredIs
<1>4. /\ i \in Nat /\ top \in Int /\ Half \in Nat /\ Full = Half + Half /\ Half >= 1
      /\ Gap(From) \in {Half, Full} /\ warned \in BOOLEAN
  BY GapIs, Numbers DEF IInv, TypeOK
<1>5. longest \in Int
  BY <1>3, <1>4 DEF Later
<1>6. warned' \in BOOLEAN /\ (warned => warned')
  BY <1>1, <1>4
<1>7. stage = "first" /\ test \in {"timing", "rw"}
  BY <1>3 DEF IInv, Program, Waiting
<1>8. TypeOK' /\ Program'
  <2>1. i' \in Nat /\ top' \in Int
    <3> HIDE DEF longest, last
    <3>1. QED
      BY <1>1, <1>4, <1>5
  <2>2. TypeOK'
    BY <1>1, <1>6, <2>1, MeasuredType
  <2>3. QED
    BY <1>1, <1>2, <1>3, <1>7, <2>2 DEF Program, Waiting
<1>9. /\ Hole' = Hole /\ (Good' <=> Good) /\ (Regular' <=> Regular) /\ made' = made
  BY <1>3, Still
<1>10. ~warned => i <= 3 /\ (i > 0 => test = "timing") /\ (i = 1 => top = 0)
  BY <1>3 DEF IInv, CountInv, WarmCount
\* of two half periods in a row the second ends at the start of the track
<1>11. ASSUME Good, ~warned
       PROVE  /\ i = 1 => longest = Full \/ (longest = Half /\ pulse \in {Hole, 0})
              /\ i = 2 => longest = Full \/ (longest = Half /\ pulse = 0)
              /\ i = 3 => longest = Full
  <2>1. /\ i = 2 => top = Full \/ (top = Half /\ From \in {Hole, 0})
        /\ i = 3 => top = Full \/ (top = Half /\ From = 0)
    BY <1>3, <1>11 DEF IInv, CountInv, WarmCount
  <2>2. /\ Hole = Nr /\ Pulses = Nr + 1 /\ Nr \in Nat /\ Nr >= 3
        /\ Gap(From) = IF From \in {Nr - 1, Nr} THEN Half ELSE Full
    BY <1>11, PlaceIs, Numbers DEF IInv
  <2>3. i # 0 => longest = IF top >= Gap(From) THEN top ELSE Gap(From)
    BY <1>3 DEF Later
  <2>4. Gap(From) = Half => pulse \in {Hole, 0}
    BY <1>3, <1>4, <2>2
  <2>5. From = 0 => Gap(From) = Full
    BY <2>2
  <2>6. From = Hole => pulse = 0
    BY <1>3, <2>2
  <2> HIDE DEF longest
  <2>7. ASSUME i = 1 PROVE longest = Full \/ (longest = Half /\ pulse \in {Hole, 0})
    <3>1. top = 0
      BY <1>10, <1>11, <2>7
    <3>2. longest = Gap(From)
      BY <1>4, <2>3, <2>7, <3>1
    <3>3. QED
      BY <1>4, <2>4, <3>2
  <2>8. ASSUME i = 2 PROVE longest = Full \/ (longest = Half /\ pulse = 0)
    <3>1. CASE top = Full
      BY <1>4, <2>3, <2>8, <3>1
    <3>2. CASE top = Half /\ From \in {Hole, 0}
      BY <1>4, <2>3, <2>5, <2>6, <2>8, <3>2
    <3>3. QED
      BY <2>1, <2>8, <3>1, <3>2
  <2>9. ASSUME i = 3 PROVE longest = Full
    <3>1. CASE top = Full
      BY <1>4, <2>3, <2>9, <3>1
    <3>2. CASE top = Half /\ From = 0
      BY <1>4, <2>3, <2>5, <2>9, <3>2
    <3>3. QED
      BY <2>1, <2>9, <3>1, <3>2
  <2>10. QED
    BY <2>7, <2>8, <2>9
<1>12. Good /\ ~warned => ~warned'
  <2>1. SUFFICES ASSUME Good, ~warned PROVE ~warned'
    OBVIOUS
  <2>2. last /\ test = "timing" => i = 3
    OBVIOUS
  <2> HIDE DEF longest, last
  <2>3. QED
    BY <1>1, <1>11, <2>1, <2>2
<1>13. ASSUME ~warned'
       PROVE  CountInv' /\ FaultInv' /\ (Good => SoonInv' /\ FormatInv' /\ ReadInv')
  <2>1. ~warned
    BY <1>6, <1>13
  <2>2. FaultInv'
    BY <1>1, <1>2, <1>3, <1>9, <1>7 DEF FaultInv
  <2>3. SoonInv' /\ FormatInv' /\ ReadInv'
    BY <1>1, <1>2, <1>3, <1>7 DEF SoonInv, FormatInv, ReadInv, Reads
  <2>4. CASE last
    <3>1. pc' = "full" /\ i' = 0
      <4> HIDE DEF longest, last
      <4>1. QED
        BY <1>1, <1>2, <1>3, <2>4
    <3>2. FullCount'
      BY <3>1 DEF FullCount
    <3>3. CountInv'
      BY <3>1, <3>2 DEF CountInv, IdleCount, WarmCount, HalfCount, SecondCount, CheckCount,
                        SkipCount, Measuring
    <3>4. QED
      BY <2>2, <2>3, <3>3
  <2>5. CASE ~last
    <3>1. pc' = "warm" /\ i' = i + 1 /\ top' = longest
      <4> HIDE DEF longest, last
      <4>1. QED
        BY <1>1, <1>2, <1>3, <2>5
    <3>2. i <= 2 /\ test' = "timing"
      BY <1>1, <1>4, <1>7, <1>10, <2>1, <2>5
    <3>3. i' <= 3 /\ (i' > 0 => test' = "timing") /\ (i' = 1 => i = 0)
          /\ (i' = 2 => i = 1) /\ (i' = 3 => i = 2)
      BY <1>4, <3>1, <3>2
    <3>4. i = 0 => longest = 0
      OBVIOUS
    <3> HIDE DEF longest, last
    <3>5. WarmCount'
      BY <1>3, <1>9, <1>11, <2>1, <3>1, <3>3, <3>4 DEF WarmCount
    <3>6. CountInv'
      BY <3>1, <3>5 DEF CountInv, IdleCount, FullCount, HalfCount, SecondCount, CheckCount,
                        SkipCount, Measuring
    <3>7. QED
      BY <2>2, <2>3, <3>6
  <2>6. QED
    BY <2>4, <2>5
<1>14. to \notin {"writing", "written"}
  BY <1>2
<1> HIDE DEF longest, last
<1>15. QED
  BY <1>1, <1>6, <1>8, <1>12, <1>13, <1>14, MeasuredStep

LEMMA SkipStep == ASSUME IInv, Skip PROVE IInv'
<1> DEFINE to == IF i + 1 < sector THEN "skip"
                 ELSE IF stage = "write" THEN "gate" ELSE "read"
<1>1. /\ Measured("skip", to) /\ i' = (IF i + 1 < sector THEN i + 1 ELSE 0)
      /\ stage' = stage /\ test' = test /\ sector' = sector /\ top' = top /\ busy' = busy
      /\ data' = data /\ got' = got /\ warned' = warned
  BY DEF Skip, where, result
<1>2. /\ to = "skip" <=> i + 1 < sector
      /\ to \in {"skip", "gate", "read"} /\ (to = "gate" => stage = "write")
      /\ to = "read" => stage # "write"
  OBVIOUS
<1> HIDE DEF to
<1>3. /\ pc = "skip" /\ pc' = to /\ disk' = disk /\ content' = content
      /\ From' = pulse /\ From \in 0 .. Pulses - 1
      /\ pulse = IF From = Pulses - 1 THEN 0 ELSE From + 1
      /\ since \in Nat /\ since <= MaxLag /\ lag' = 0
  BY <1>1, MeasuredIs
<1>4. test = "rw" /\ stage \in Reads \cup {"write"}
  BY <1>3 DEF IInv, Program, Waiting, Reads
<1>5. TypeOK' /\ Program'
  <2>1. i' \in Nat /\ top' \in Int /\ warned' \in BOOLEAN
    BY <1>1 DEF IInv, TypeOK
  <2>2. TypeOK'
    BY <1>1, <2>1, MeasuredType
  <2>3. QED
    BY <1>1, <1>2, <1>3, <1>4, <2>2 DEF Program, Waiting, Reads
<1>6. /\ (Good' <=> Good) /\ pulse' = pulse /\ since' = since
  BY <1>3, Still
<1>7. ASSUME ~warned
      PROVE  CountInv' /\ FaultInv' /\ (Good => SoonInv' /\ FormatInv' /\ ReadInv')
  <2>1. Good
    BY <1>3, <1>7, LateIsGood DEF Waiting
  <2>2. From = i /\ i < sector /\ sector \in 0 .. Nr - 1 /\ i \in Nat /\ Nr \in Nat
        /\ Pulses = Nr + 1
    BY <1>3, <1>7, <2>1, PlaceIs, Numbers DEF IInv, TypeOK, CountInv, SkipCount
  <2>3. pulse = i + 1
    BY <1>3, <2>2
  <2>4. FaultInv'
    BY <1>6, <2>1 DEF FaultInv
  <2>5. FormatInv' /\ ReadInv'
    BY <1>1, <1>2, <1>3, <1>4, <1>7 DEF IInv, FormatInv, ReadInv, Reads
  <2>6. CASE i + 1 < sector
    <3>1. pc' = "skip" /\ i' = i + 1 /\ sector' = sector
      BY <1>1, <1>2, <1>3, <2>6
    <3>2. SkipCount'
      BY <1>3, <2>3, <2>6, <3>1 DEF SkipCount
    <3>3. CountInv'
      BY <3>1, <3>2 DEF CountInv, IdleCount, WarmCount, FullCount, HalfCount, SecondCount,
                        CheckCount, Measuring
    <3>4. SoonInv'
      BY <3>1 DEF SoonInv
    <3>5. QED
      BY <2>4, <2>5, <3>3, <3>4
  <2>7. CASE ~(i + 1 < sector)
    <3>1. pc' \in {"gate", "read"} /\ i' = 0 /\ sector' = sector /\ pulse = sector
      BY <1>1, <1>2, <1>3, <2>2, <2>3, <2>7
    <3>2. CountInv'
      BY <3>1 DEF CountInv, IdleCount, WarmCount, FullCount, HalfCount, SecondCount,
                  CheckCount, SkipCount, Measuring
    <3>3. since' <= MaxLag + lag' /\ since' <= 2 * MaxLag + lag' /\ pulse' = sector'
      BY <1>3, <1>6, <3>1, Numbers
    <3>4. SoonInv'
      BY <3>1, <3>3 DEF SoonInv
    <3>5. QED
      BY <2>4, <2>5, <3>2, <3>4
  <2>8. QED
    BY <2>6, <2>7
<1>8. warned' \in BOOLEAN /\ (warned' <=> warned)
  BY <1>1 DEF IInv, TypeOK
<1>9. to \notin {"writing", "written"}
  BY <1>2
<1>10. QED
  BY <1>1, <1>5, <1>7, <1>8, <1>9, MeasuredStep

-----------------------------------------------------------------------------
(***************************************************************************)
(* The invariant, and what follows from it.                                *)
(***************************************************************************)
\* A test begins with a period to warm up, wherever the disk is.
LEMMA CallStep == ASSUME IInv, Call PROVE IInv'
<1>1. /\ pc = "idle" /\ pc' = "warm" /\ stage' = "first" /\ test' \in {"timing", "rw"}
      /\ i' = i /\ lag' = 0 /\ sector' = sector /\ s' = s /\ togo' = togo /\ lasted' = lasted
      /\ begin' = begin /\ data' = data /\ got' = got /\ content' = content
      /\ disk' = disk /\ armed' = armed /\ new' = new /\ warned' = warned
      /\ top' = top /\ busy' = busy
  BY DEF Call, TimingTest, WriteTest, Step, result
<1>2. TypeOK' /\ Program'
  <2>1. TypeOK'
    BY <1>1, Still, Numbers DEF IInv, TypeOK
  <2>2. QED
    BY <1>1, <2>1 DEF Program, Waiting
<1>3. ~armed' /\ ~new' /\ ClockInv'
  <2>1. ~armed' /\ ~new'
    BY <1>1 DEF IInv, ClockInv, Measuring
  <2>2. QED
    BY <1>1, <2>1, Unarmed DEF IInv
<1>4. Good' <=> Good
  BY <1>1, Still
<1>5. ASSUME ~warned'
      PROVE  /\ PromptInv' /\ CountInv' /\ FaultInv' /\ SoonInv'
             /\ WriteInv' /\ FormatInv' /\ ReadInv'
  <2>1. i' = 0
    BY <1>1, <1>5 DEF IInv, CountInv, IdleCount, Measuring
  <2>2. PromptInv' /\ FaultInv'
    BY <1>1, <2>1 DEF PromptInv, Counting, FaultInv
  <2>3. WarmCount'
    BY <2>1 DEF WarmCount
  <2>4. CountInv'
    BY <1>1, <2>3 DEF CountInv, IdleCount, FullCount, HalfCount, SecondCount, CheckCount,
                      SkipCount, Measuring
  <2>5. SoonInv' /\ WriteInv' /\ FormatInv' /\ ReadInv'
    BY <1>1 DEF SoonInv, WriteInv, FormatInv, ReadInv, Reads
  <2>6. QED
    BY <2>2, <2>4, <2>5
<1>6. (Good => ~warned)'
  BY <1>1, <1>4 DEF IInv
<1>7. QED
  BY <1>2, <1>3, <1>5, <1>6 DEF IInv

LEMMA InitInv == Init => IInv
<1> SUFFICES ASSUME Init PROVE IInv
  OBVIOUS
<1>1. /\ made \in Disks /\ pc = "idle" /\ test = "none" /\ stage = "none" /\ i = 0
      /\ lag = 0 /\ since = 0 /\ ~warned /\ ~armed /\ ~new
  BY DEF Init
<1>2. TypeOK
  <2>1. blank \in [at : Int, value : Contents] /\ none \in Contents /\ 0 \in 0 .. Nr - 1
    BY Numbers DEF blank, none, Contents
  <2>2. pulse \in 0 .. Pulses - 1 /\ 0 \in 0 .. Hole - 1
    BY <1>1, DiskIs DEF Init
  <2>3. begin \in [sector : 0 .. Hole - 1, at : Nat]
    BY <2>2 DEF Init
  <2>4. content \in [0 .. Hole - 1 -> [at : Int, value : Contents]]
    BY <2>1 DEF Init
  <2>5. armed \in BOOLEAN /\ new \in BOOLEAN /\ warned \in BOOLEAN
    BY DEF Init
  <2>6. i \in Nat /\ sector \in 0 .. Nr - 1 /\ s \in Int /\ top \in Int /\ busy \in Nat
        /\ lasted \in Nat /\ togo \in 0 .. 2 /\ data \in Contents /\ got \in Contents
        /\ lag \in 0 .. MaxLag /\ since \in Nat
    BY <2>1, Numbers DEF Init
  <2>7. QED
    BY <1>1, <2>2, <2>3, <2>4, <2>5, <2>6 DEF TypeOK
<1>3. Program
  BY <1>1 DEF Program
<1>4. ClockInv
  <2>1. since < Gap(pulse)
    BY <1>1, Numbers DEF Gap
  <2>2. QED
    BY <1>1, <2>1 DEF ClockInv
<1>5. PromptInv /\ FaultInv
  BY <1>1 DEF PromptInv, Counting, FaultInv, Measuring
<1>6. CountInv
  BY <1>1 DEF CountInv, IdleCount, WarmCount, FullCount, HalfCount, SecondCount, CheckCount,
              SkipCount
<1>7. SoonInv /\ WriteInv /\ FormatInv /\ ReadInv
  BY <1>1 DEF SoonInv, WriteInv, FormatInv, ReadInv, Reads
<1>8. QED
  BY <1>1, <1>2, <1>3, <1>4, <1>5, <1>6, <1>7 DEF IInv

LEMMA ThreadStep == ASSUME IInv, Thread PROVE IInv'
BY ArmStep, FindFullStep, FindHalfStep, SecondHalfStep, CheckPeriodStep, WarmStep,
   WaitAgainStep, SeekTrackStep, SoughtStep, FirstSectorStep, Formatted1Step, CheckAgainStep,
   RwSectorStep, SkipStep, ReadPrepStep, RereadStep, ReturnStep, OpenGateStep, CloseGateStep,
   StartReadStep, EndReadStep
   DEF Thread

LEMMA IdleStep == ASSUME IInv, UNCHANGED vars PROVE IInv'
<1>1. /\ pc' = pc /\ test' = test /\ stage' = stage /\ i' = i /\ sector' = sector /\ s' = s
      /\ armed' = armed /\ top' = top /\ busy' = busy /\ data' = data /\ got' = got
      /\ warned' = warned /\ new' = new /\ togo' = togo /\ lasted' = lasted
      /\ begin' = begin /\ content' = content /\ lag' = lag /\ disk' = disk
  BY DEF vars, where, result, disk
<1>2. TypeOK' /\ Program'
  BY <1>1, Still DEF IInv, TypeOK, Program
<1>3. Waits' = Waits
  BY <1>1 DEF Waits, WriteOver, WriteLen, ReadOver
<1>4. ClockInv'
  BY <1>1, <1>3, Still DEF IInv, ClockInv
<1>5. From' = From
  BY <1>1, Still DEF From
<1>6. CountInv => CountInv'
  BY <1>1, <1>5, Still DEF CountInv, IdleCount, WarmCount, FullCount, HalfCount, SecondCount,
                           CheckCount, SkipCount
<1>7. (PromptInv => PromptInv') /\ (FaultInv => FaultInv') /\ (SoonInv => SoonInv')
  BY <1>1, Still DEF PromptInv, Counting, FaultInv, SoonInv
<1>8. (WriteInv => WriteInv') /\ (FormatInv => FormatInv') /\ (ReadInv => ReadInv')
  BY <1>1, Still DEF WriteInv, Following, FormatInv, ReadInv
<1>9. QED
  BY <1>1, <1>2, <1>4, <1>6, <1>7, <1>8, Still DEF IInv

\* The invariant holds throughout: what the thread has counted is where the disk is.
THEOREM SectorsAreCounted == Spec => []IInv
<1>1. IInv /\ [Next]_vars => IInv'
  BY ThreadStep, CallStep, TurnStep, IdleStep DEF Next
<1>2. QED
  BY InitInv, <1>1, PTL DEF Spec

\* A write begins with the sector that is meant and spares the next one, and a
\* formatted track holds its sectors in order (hfe_hard_sector_write_test and
\* hfe_hard_sector_index_timing_test).
THEOREM WritesItsSector == Spec => []WritesOwn
<1>1. IInv => WritesOwn
  <2> SUFFICES ASSUME IInv, Good PROVE WritesOwn
    BY DEF WritesOwn
  <2>1. /\ ~warned /\ TypeOK /\ ClockInv /\ CountInv /\ SoonInv /\ WriteInv /\ FormatInv
        /\ Program
    BY DEF IInv
  <2>2. /\ Regular /\ Hole = Nr /\ Pulses = Nr + 1 /\ Nr \in Nat /\ Nr >= 3 /\ MaxLag \in Nat
        /\ SecLen + 3 * MaxLag < Full /\ SecLen \in Nat /\ Full \in Nat
        /\ sector \in 0 .. Nr - 1 /\ lag \in 0 .. MaxLag /\ since \in Nat /\ lasted \in Nat
        /\ begin.at \in Nat
    BY <2>1, PlaceIs, Numbers DEF TypeOK
  <2>3. ASSUME pc = "check", ~armed, i = 0 PROVE pulse = 0
    BY <2>1, <2>2, <2>3 DEF CountInv, CheckCount, ClockInv, From
  <2>4. ASSUME pc = "skip", ~armed PROVE pulse = i
    BY <2>1, <2>4 DEF CountInv, SkipCount, ClockInv, From
  <2>5. ASSUME pc = "writing"
        PROVE  /\ begin.sector = sector /\ begin.at <= 3 * MaxLag
               /\ Under # sector => Under = (sector + 1) % Nr /\ Place <= MaxLag
    <3>1. /\ begin.sector = sector /\ begin.at <= 3 * MaxLag
          /\ togo = 0 => pulse = Following /\ begin.at + lasted = Full + since
          /\ togo # 0 => Under = sector
          /\ stage = "format" => (togo = 0 => since <= lag)
          /\ stage = "write" => lasted <= SecLen + lag
      BY <2>1, <2>5 DEF WriteInv
    <3>2. SUFFICES ASSUME togo = 0 PROVE Under = (sector + 1) % Nr /\ Place <= MaxLag
      BY <3>1
    <3>3. stage \in {"format", "write"}
      BY <2>1, <2>5 DEF Program, Waiting
    <3>4. since <= MaxLag
      BY <2>2, <3>1, <3>2, <3>3
    <3>5. Following = (sector + 1) % Nr
      BY <2>2, RestOf DEF Following
    <3>6. Following \in 0 .. Nr - 1
      BY <2>2 DEF Following
    <3>7. Under = Following /\ Place = since
      BY <2>2, <3>1, <3>2, <3>6 DEF Under, Place
    <3>8. QED
      BY <3>4, <3>5, <3>7
  <2>6. stage = "after2" => \A x \in 0 .. Nr - 1 : content[x].value = x
    BY <2>1 DEF FormatInv
  <2>7. QED
    BY <2>3, <2>4, <2>5, <2>6 DEF WritesOwn
<1>2. QED
  BY <1>1, SectorsAreCounted, PTL

\* No WARN_ON of the two tests fires on a disk without fault.
THEOREM HealthyDiskPasses == Spec => []NoWarn
<1>1. IInv => NoWarn
  BY DEF IInv, NoWarn
<1>2. QED
  BY <1>1, SectorsAreCounted, PTL

\* A disk of another geometry is found out by check_hard_sector_indexes().
THEOREM WrongDiskIsFound == Spec => []FaultSeen
<1>1. IInv => FaultSeen
  BY DEF IInv, FaultInv, FaultSeen
<1>2. QED
  BY <1>1, SectorsAreCounted, PTL
=============================================================================
