------------------------------ MODULE HardSector ------------------------------
(***************************************************************************)
(* The tests of a hard-sectored disk (main.c).  Such a disk has an index   *)
(* pulse at the start of every sector and one more, the index hole, in the *)
(* middle of the last; nothing in the data says which sector is which.     *)
(* The thread finds the start of the track by the two half periods, and    *)
(* from then on knows the sector only by having counted every pulse, while *)
(* it seeks, writes and reads in between.                                  *)
(*                                                                         *)
(* Time is in ticks of a fraction of a sector, so that the tolerances of   *)
(* the measurements (200us) are equality.  The device under test is one    *)
(* without fault, or one with an image of another geometry.                *)
(***************************************************************************)
EXTENDS Integers

CONSTANTS
  Nr,        \* sectors: 10
  Disks,     \* disks by sectors and whether there is an index hole
  Half,      \* sector_duration / 2: 10ms
  Seeks,     \* what a seek and the message before it may take: 10ms and more
  Lead,      \* from the start of a write to its sync mark
  SecLen,    \* what writing a sector takes: sz + 10 words
  LongLen,   \* what the formatting write would take: 1024 words
  Tracks,    \* tracks that the timing test formats: 5
  Values,    \* contents of a sector
  MaxLag     \* how far the disk may turn before the thread's next step

Full == 2 * Half

ASSUME DiskAssumption == /\ Nr \in Nat /\ Nr >= 3 /\ Half \in Nat \ {0}
                         /\ Tracks \in Nat \ {0} /\ Values \cap (-1 .. Nr) = {}
                         /\ Disks \subseteq [nr : Nat \ {0}, hole : BOOLEAN]
\* A seek is over before the pulse after next; a sector written late ends in
\* its time, and its mark comes after a read that is late has begun; a thread
\* that writes sector after sector, up to three steps late, is not half a
\* sector late.
ASSUME TimeAssumption ==
  /\ Seeks \subseteq Nat /\ MaxLag \in Nat /\ {Lead, SecLen, LongLen} \subseteq Nat
  /\ \A t \in Seeks : t + 4 * MaxLag < Full
  /\ Lead < SecLen /\ SecLen + 3 * MaxLag < Full /\ Full + 3 * MaxLag < LongLen
  /\ 2 * MaxLag <= Lead /\ 3 * MaxLag < Half

VARIABLES
  pc, test, stage,   \* where the thread is: statement, test, and part of the test
  i, track, sector,  \* loop variables
  s, armed,          \* get_index_period(): the age of the time stamp it has read
  top,               \* the longest of the first three periods
  busy,              \* time the seek still takes
  data, got,         \* what is written to the sector, and what is read
  warned,            \* a WARN_ON has fired
  \* the disk
  made,              \* one of Disks
  pulse,             \* the latest pulse: start of a sector, or the index hole
  since,             \* time since then: index.timestamp is so old
  new,               \* index.timestamp has changed since s was read
  togo,              \* stop_index less index.count
  lasted,            \* how long the write or the read has taken
  begin,             \* the sector and the place in it where the write began
  content,           \* per sector of the track: place of the sync mark, value
  lag                \* ticks since the thread could take its next step

where  == <<test, stage, track>>
disk   == <<made, pulse, since>>
result == <<data, got>>
vars   == <<pc, where, i, sector, s, armed, top, busy, result, warned, disk, new,
            togo, lasted, begin, content, lag>>

none == -1

\* the disk that is expected, and the index hole of any disk
Good == made = [nr |-> Nr, hole |-> TRUE]
Hole == made.nr
blank == [at |-> none, value |-> none]

Init ==
  /\ pc = "idle" /\ test = "none" /\ stage = "none" /\ i = 0 /\ track = 0 /\ sector = 0
  /\ s = 0 /\ armed = FALSE /\ top = 0 /\ busy = 0 /\ data = none /\ got = none
  /\ warned = FALSE /\ made \in Disks /\ since = 0 /\ new = FALSE
  /\ pulse \in IF made.hole THEN 0 .. Hole ELSE 0 .. Hole - 1
  /\ togo = 0 /\ lasted = 0 /\ begin = [sector |-> 0, at |-> 0]
  /\ content = [x \in 0 .. Hole - 1 |-> blank] /\ lag = 0

\* Definitions marked "wrong" are what a plausible mistake would make of the
\* definition after them; they show that a property depends on it.

Step(from, to) == pc = from /\ pc' = to /\ lag' = 0

(***************************************************************************)
(* get_index_period: read the time stamp, wait until it is another one,    *)
(* return the difference.  Its callers go on in the same step.             *)
(***************************************************************************)
Measuring == {"warm", "full", "half", "second", "check", "skip"}

Arm ==
  /\ pc \in Measuring /\ ~armed
  /\ armed' = TRUE /\ s' = since /\ new' = FALSE /\ lag' = 0
  /\ UNCHANGED <<pc, where, i, sector, top, busy, result, warned, disk,
                 togo, lasted, begin, content>>

Period == s - since

Seen == armed /\ new

Measured(from, to) ==
  /\ Step(from, to) /\ Seen
  /\ armed' = FALSE /\ s' = 0 /\ new' = FALSE
  /\ UNCHANGED <<disk, togo, lasted, begin, content>>

(***************************************************************************)
(* wait_for_hard_sector_trkstart.                                          *)
(***************************************************************************)
\* wrong: the first half period found may be the second
OneTry(n) == TRUE
EnoughTries(n) == Period = Full \/ n = 2

FindFull ==
  /\ Measured("full", IF EnoughTries(i) THEN "half" ELSE "full")
  /\ i' = IF EnoughTries(i) THEN 0 ELSE i + 1
  /\ UNCHANGED <<where, sector, top, busy, result, warned>>

FoundHalf == Period = Half

FindHalf ==
  /\ Measured("half", IF FoundHalf \/ i = Nr THEN "second" ELSE "half")
  /\ i' = IF FoundHalf THEN i ELSE i + 1
  /\ UNCHANGED <<where, sector, top, busy, result, warned>>

\* what the caller does next
AfterWait == IF stage = "first" THEN "check"
             ELSE IF stage = "again" THEN "track"
             ELSE IF sector > 0 THEN "skip"
             ELSE IF stage = "write" THEN "gate" ELSE "read"

\* wrong: takes the index hole for the start of the track
HoleIsStart ==
  /\ Step("second", AfterWait) /\ i' = 0
  /\ warned' = (warned \/ i = Nr)
  /\ UNCHANGED <<where, sector, s, armed, top, busy, result, disk, new, togo,
                 lasted, begin, content>>
SecondHalf ==
  /\ Measured("second", AfterWait) /\ i' = 0
  /\ warned' = (warned \/ Period # Half \/ i = Nr)
  /\ UNCHANGED <<where, sector, top, busy, result>>

(***************************************************************************)
(* check_hard_sector_indexes: all periods of a revolution.                 *)
(***************************************************************************)
Expected(n) == IF n < Nr - 1 THEN Full ELSE Half

\* wrong: only the periods of whole sectors are checked
CheckWhole ==
  /\ Measured("check", IF i = Nr THEN "checked" ELSE "check")
  /\ i' = IF i = Nr THEN 0 ELSE i + 1
  /\ warned' = (warned \/ (i < Nr - 1 /\ Period # Expected(i)))
  /\ UNCHANGED <<where, sector, top, busy, result>>

CheckPeriod ==
  /\ Measured("check", IF i = Nr THEN "checked" ELSE "check")
  /\ i' = IF i = Nr THEN 0 ELSE i + 1
  /\ warned' = (warned \/ Period # Expected(i))
  /\ UNCHANGED <<where, sector, top, busy, result>>

\* to the next part of the test
Proceed(from, to, next) ==
  /\ Step(from, to) /\ stage = next[1] /\ stage' = next[2]
  /\ UNCHANGED <<test, s, armed, top, warned, disk, new, togo, lasted, begin>>

(***************************************************************************)
(* hfe_hard_sector_index_timing_test.                                      *)
(***************************************************************************)
TimingTest ==
  /\ Step("idle", "warm")
  /\ test' = "timing" /\ stage' = "first"
  /\ UNCHANGED <<track, i, sector, s, armed, top, busy, result, warned, disk, new,
                 togo, lasted, begin, content>>

Later(a, b) == IF a >= b THEN a ELSE b

\* One period to warm up, and the longest of three more; the other test has
\* only the first.
Warm ==
  LET longest == IF i = 0 THEN 0 ELSE Later(top, Period)
      last    == test = "rw" \/ i = 3
  IN  /\ Measured("warm", IF last THEN "full" ELSE "warm")
      /\ i' = IF last THEN 0 ELSE i + 1
      /\ top' = IF last THEN 0 ELSE longest
      /\ warned' = (warned \/ (last /\ test = "timing" /\ longest # Full))
      /\ UNCHANGED <<where, sector, busy, result>>

WaitAgain ==
  /\ test = "timing" /\ Proceed("checked", "full", <<"first", "again">>)
  /\ UNCHANGED <<track, i, sector, busy, result, content>>

\* floppy_seek(trk, 0), while the pulses go on, to a track not yet formatted
SeekTrack ==
  /\ \/ Proceed("track", "seek", <<"again", "before">>)
     \/ track < Tracks - 1 /\ Proceed("checked", "seek", <<"after2", "before">>)
  /\ track' = IF stage = "again" THEN 0 ELSE track + 1
  /\ busy' \in Seeks /\ content' = [x \in 0 .. Hole - 1 |-> blank]
  /\ UNCHANGED <<i, sector, result>>

Sought ==
  /\ Step("seek", IF test = "timing" THEN "check" ELSE "full") /\ busy = 0
  /\ UNCHANGED <<where, i, sector, s, armed, top, busy, result, warned, disk, new,
                 togo, lasted, begin, content>>

FirstSector ==
  /\ Proceed("checked", "gate", <<"before", "format">>)
  /\ sector' = 0 /\ data' = 0
  /\ UNCHANGED <<track, i, busy, got, content>>

\* WARN_ON(time_diff(s, index.timestamp)), and on to the next sector
Formatted1 ==
  /\ stage = "format"
  /\ Step("written", IF sector < Nr - 1 THEN "gate" ELSE "check")
  /\ sector' = IF sector < Nr - 1 THEN sector + 1 ELSE 0
  /\ data' = sector'
  /\ stage' = IF sector < Nr - 1 THEN "format" ELSE "after1"
  /\ warned' = (warned \/ Period # Full)
  /\ s' = 0
  /\ UNCHANGED <<test, track, i, armed, top, busy, got, disk, new, togo, lasted,
                 begin, content>>

CheckAgain ==
  /\ Proceed("checked", "check", <<"after1", "after2">>)
  /\ UNCHANGED <<track, i, sector, busy, result, content>>

(***************************************************************************)
(* hfe_hard_sector_write_test and mfm_hard_sector_rw_sector: write one     *)
(* sector after the other, and read each twice.                            *)
(***************************************************************************)
WriteTest ==
  /\ Step("idle", "warm")
  /\ test' = "rw" /\ stage' = "first"
  /\ UNCHANGED <<track, i, sector, s, armed, top, busy, result, warned, disk, new,
                 togo, lasted, begin, content>>

\* floppy_seek() and the conversion of random data, before the start of the
\* track is looked for again
RwSector ==
  /\ \/ test = "rw" /\ Proceed("checked", "seek", <<"first", "write">>) /\ sector' = 0
     \/ sector < Nr - 1 /\ Proceed("compare", "seek", <<"read2", "write">>)
        /\ sector' = sector + 1
  /\ busy' \in Seeks /\ data' \in Values /\ got' = none
  /\ UNCHANGED <<track, i, content>>

Skip ==
  /\ Measured("skip", IF i + 1 < sector THEN "skip"
                      ELSE IF stage = "write" THEN "gate" ELSE "read")
  /\ i' = IF i + 1 < sector THEN i + 1 ELSE 0
  /\ UNCHANGED <<where, sector, top, busy, result, warned>>

ReadPrep ==
  /\ Proceed("written", "full", <<"write", "read1">>)
  /\ UNCHANGED <<track, i, sector, busy, result, content>>

\* to the neighbouring track and back
Reread ==
  /\ Proceed("compare", "seek", <<"read1", "read2">>)
  /\ busy' \in Seeks /\ got' = none
  /\ UNCHANGED <<track, i, sector, data, content>>

Return ==
  /\ \/ Step("checked", "idle") /\ stage = "after2" /\ track = Tracks - 1
     \/ Step("compare", "idle") /\ stage = "read2" /\ sector = Nr - 1
  /\ test' = "none" /\ stage' = "none" /\ track' = 0 /\ sector' = 0
  /\ data' = none /\ got' = none
  /\ lasted' = 0 /\ togo' = 0 /\ begin' = [sector |-> 0, at |-> 0]
  /\ content' = [x \in 0 .. Hole - 1 |-> blank]
  /\ UNCHANGED <<i, s, armed, top, busy, warned, disk, new>>

(***************************************************************************)
(* floppy_write_now and floppy_read, as far as time goes.                  *)
(***************************************************************************)
\* the sector under the head, and the place in it
Under == IF pulse = Hole THEN Hole - 1 ELSE pulse
Place == IF pulse = Hole THEN since + Half ELSE since

\* terminate_at_index
\* wrong: one pulse too early
PulseBefore == IF sector = Nr - 1 THEN 1 ELSE 0
StopIndex == IF sector = Nr - 1 THEN 2 ELSE 1

OpenGate ==
  /\ Step("gate", "writing")
  /\ s' = since     \* read by the caller before the call
  /\ togo' = StopIndex /\ lasted' = 0
  /\ begin' = [sector |-> Under, at |-> Place]
  /\ content' = [content EXCEPT ![Under] = blank]
  /\ UNCHANGED <<where, i, sector, armed, top, busy, result, warned, disk, new>>

WriteLen == IF stage = "format" THEN LongLen ELSE SecLen

WriteOver == lasted >= WriteLen \/ togo = 0

\* What is on the disk now: all that was to be written, if it had the time.
\* The formatting test writes no sync marks.
CloseGate ==
  /\ Step("writing", "written") /\ WriteOver
  /\ content' = IF lasted < SecLen THEN content
                ELSE [content EXCEPT ![begin.sector] =
                        [at |-> IF stage = "format" THEN none ELSE begin.at + Lead,
                         value |-> data]]
  /\ UNCHANGED <<where, i, sector, s, armed, top, busy, result, warned, disk, new,
                 togo, lasted, begin>>

StartRead ==
  /\ Step("read", "reading")
  /\ lasted' = 0
  /\ UNCHANGED <<where, i, sector, s, armed, top, busy, result, warned, disk, new,
                 togo, begin, content>>

ReadOver == lasted >= SecLen - Lead

\* followed by the comparison of what was read
EndRead ==
  /\ Step("reading", "compare") /\ ReadOver
  /\ warned' = (warned \/ got # data)
  /\ UNCHANGED <<where, i, sector, s, armed, top, busy, result, disk, new,
                 togo, lasted, begin, content>>

(***************************************************************************)
(* The disk turns; IRQ_INDEX_changed stamps the pulses.                    *)
(***************************************************************************)
\* states in which the thread waits for the disk or for time to pass
Waits == \/ pc = "idle"
         \/ pc \in Measuring /\ armed /\ ~new
         \/ pc = "seek" /\ busy > 0
         \/ pc = "writing" /\ ~WriteOver
         \/ pc = "reading" /\ ~ReadOver

\* after which pulse the next comes half a period later
HalfPulses == IF made.hole THEN {Hole - 1, Hole} ELSE {}
Pulses     == IF made.hole THEN Hole + 1 ELSE Hole
Due == since + 1 = (IF pulse \in HalfPulses THEN Half ELSE Full)

Turn ==
  /\ Waits \/ lag < MaxLag
  /\ lag' = IF Waits THEN 0 ELSE lag + 1
  /\ IF Due THEN since' = 0 /\ pulse' = (pulse + 1) % Pulses
            ELSE since' = since + 1 /\ UNCHANGED pulse
  /\ new' = (armed /\ (new \/ Due))
  /\ s' = IF armed \/ pc \in {"writing", "written"} THEN s + 1 ELSE s
  /\ togo' = IF Due /\ togo > 0 THEN togo - 1 ELSE togo
  /\ busy' = IF busy > 0 THEN busy - 1 ELSE 0
  \* a write destroys the marks it passes over
  /\ content' = IF pc = "writing" /\ Under # begin.sector /\ Place = content[Under].at
                THEN [content EXCEPT ![Under] = blank] ELSE content
  /\ got' = IF pc = "reading" /\ got = none /\ Place = content[Under].at
            THEN content[Under].value ELSE got
  /\ lasted' = IF pc = "writing" \/ (pc = "reading" /\ got' # none)
               THEN lasted + 1 ELSE lasted
  /\ UNCHANGED <<pc, where, i, sector, armed, top, data, warned, made, begin>>

Call == TimingTest \/ WriteTest
Thread == \/ Arm \/ FindFull \/ FindHalf \/ SecondHalf \/ CheckPeriod
          \/ Warm \/ WaitAgain \/ SeekTrack \/ Sought \/ FirstSector \/ Formatted1
          \/ CheckAgain \/ RwSector \/ Skip \/ ReadPrep \/ Reread \/ Return
          \/ OpenGate \/ CloseGate \/ StartRead \/ EndRead
Next == Call \/ Thread \/ Turn

Spec == Init /\ [][Next]_vars
FairSpec == Spec /\ WF_vars(Thread) /\ WF_vars(Turn)

(***************************************************************************)
(* Properties                                                              *)
(***************************************************************************)
\* "Assumes currently at track start": whoever counts sectors starts to count
\* at the pulse of sector 0, wherever the disk was when it was looked for, and
\* again after seeking and after writing a whole track.  So a write begins
\* with its sector and does not reach the data of the next: the gate is closed
\* as soon as the thread notices the pulse.  After a formatting pass the
\* sectors hold their own numbers, in order.
WritesOwn == Good =>
  /\ pc = "check" /\ ~armed /\ i = 0 => pulse = 0
  /\ pc = "skip" /\ ~armed => pulse = i
  /\ pc = "writing" => /\ begin.sector = sector /\ begin.at <= 3 * MaxLag
                       /\ Under # sector => /\ Under = (sector + 1) % Nr
                                            /\ Place <= MaxLag
  /\ stage = "after2" => \A x \in 0 .. Nr - 1 : content[x].value = x

\* On a disk without fault no WARN_ON fires: every period that is expected is
\* measured, in spite of seeks, and a sector reads back as it was written.
NoWarn == Good => ~warned

\* A disk with too few or too many sectors, or without an index hole, has been
\* found out once all the periods of a revolution have been checked, although
\* looking for a half period in vain is not an error by itself.
FaultSeen == pc = "checked" /\ ~Good => warned

\* Every test ends.
TestsEnd == []<>(pc = "idle")
=============================================================================
