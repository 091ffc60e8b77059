--------------------------- MODULE PeripheralProofs ---------------------------
(***************************************************************************)
(* Proofs about the two devices that the main thread drives over wires.    *)
(*                                                                         *)
(* DiskChange, for every number of cylinders, every set of images and      *)
(* every choice of time-outs and stalls that its assumptions allow: the    *)
(* driver knows where the head is, a disk change ends with the right       *)
(* image, and no BUG_ON fires.                                             *)
(*                                                                         *)
(* Tm1651, for all texts and numbers, all interrupted bytes and any number *)
(* of faults: the display shows what was accepted, and three attempts are  *)
(* enough for a chip that misses something in two of them.                 *)
(***************************************************************************)
EXTENDS DiskChange, Tm1651, SequenceTheorems, TLAPS

(***************************************************************************)
(* The drive and its disk changes.                                         *)
(***************************************************************************)
\* Where the thread waits for the device; where it seeks; and where it is between
\* changes.
Waits == {"t0", "eject", "eject_check", "t1", "mount", "mount_check", "mount_step",
          "motor_on", "ready", "ready_check", "changed"}
Seeks == {"seek0", "seek"}
Calm  == {"init", "idle", "command", "off", "off_again", "on"}

\* Types, by owner.
ThreadOK ==
  /\ pc \in Calm \cup Seeks \cup {"change", "return_to_0"} \cup Waits
  /\ ret \in {"idle", "command", "t0"}
  /\ cyl \in 0 .. DaCyl /\ target \in 0 .. DaCyl
  /\ name \in Images \cup {none}
  /\ count \in Nat

DeviceOK ==
  /\ head \in 0 .. DaCyl
  /\ image \in Images \cup {none} /\ command \in Images \cup {none}
  /\ motor \in BOOLEAN /\ dskchg \in BOOLEAN /\ ready \in BOOLEAN /\ edge \in BOOLEAN

ClockOK ==
  /\ elapsed \in Nat /\ delay \in Nat /\ stall \in 0 .. MaxStall /\ age \in Nat

TypeOK == ThreadOK /\ DeviceOK /\ ClockOK

\* The driver and the device disagree about the cylinder only while one of
\* them looks for cylinder 0.
HeadInv ==
  /\ pc \notin {"init", "seek0"} => cyl = head
  /\ pc \in {"change", "return_to_0"} => head = DaCyl

\* The three stages of a change, as the device sees it.
Told    == image # none /\ command = name /\ ~edge
Ejected == image = none /\ command = name /\ dskchg /\ ~ready
Mounted == image = name /\ command = none

\* Outside a change there is a disk, and no edge can come but the one that
\* floppy_init() has set pending.
CalmInv ==
  /\ pc \in Calm \/ (pc \in Seeks /\ ret # "t0") =>
       /\ image # none /\ command = none
       /\ edge => pc = "init" \/ head = 0 \/ delay > 0
  /\ pc = "command" => ret = "command"
  /\ pc \in Seeks \cup {"command"} /\ ret = "command" => name # none /\ motor

\* Within a change the count tells what has become of the edge.
ChangeInv ==
  LET back    == pc \in Seeks /\ ret = "t0"
      waiting == back \/ pc \in {"t0", "eject", "eject_check"}
  IN
  /\ back \/ pc \in {"change", "return_to_0"} \cup Waits => name # none /\ motor
  /\ pc \in {"change", "return_to_0"} => Told
  /\ pc = "return_to_0" => count = 0
  /\ back => target = 0
  /\ waiting => \/ Told /\ count = 0 /\ (head < DaCyl => ~dskchg)
                \/ (Ejected \/ Mounted) /\ dskchg /\ head = 0 /\ (count = 0 <=> edge)
  /\ pc \in Waits \/ (pc = "seek" /\ ret = "t0") => head = 0
  /\ pc \in Waits \ {"t0", "eject", "eject_check"} => ~edge /\ (Ejected \/ Mounted)
  /\ pc \in {"t1", "mount_check", "mount_step"} => dskchg
  /\ pc \in {"motor_on", "ready", "ready_check", "changed"} => Mounted /\ ~dskchg
  /\ pc = "changed" => ready

\* A delay ends before the next step, and only some steps end in one.
DelayInv ==
  /\ delay > 0 => stall = 0
  /\ pc = "mount" => delay <= StepTime
  /\ pc \in {"eject", "eject_check", "mount_check", "mount_step", "motor_on", "ready",
             "ready_check", "changed"} => delay = 0

\* The device meets its obligations in time.
AgeInv == Obligation # none => age <= DueBy

\* Time since the eject became due, and since the thread has waited for it.
EjectInv ==
  /\ Told /\ head = 0 /\ ret = "t0" =>
       /\ pc = "seek0" => age + delay >= StepTime
       /\ pc = "seek" => age >= StepTime
       /\ pc = "t0" => age + delay >= StepTime + SettleTime
       /\ pc \in {"eject", "eject_check"} => age >= StepTime + SettleTime + elapsed
  /\ pc \in Waits => ret = "t0"
  /\ pc \in {"eject", "eject_check"} /\ edge => elapsed + MaxStall <= EjectLimit
  /\ pc = "eject_check" => elapsed + MaxStall <= EjectLimit + stall

\* Time since the mount became due; a disk that came after the last step
\* shows only after the next one.
MountInv ==
  /\ pc \in {"mount", "mount_check", "mount_step"} /\ Ejected => elapsed <= age
  /\ pc = "mount" /\ Mounted /\ dskchg => elapsed + delay <= MountBy + StepTime + stall
  /\ pc = "mount_check" /\ Mounted => elapsed <= MountBy + StepTime + MaxStall + stall

\* Time since the disk was there to spin up.
ReadyInv ==
  /\ pc = "mount" /\ ~dskchg /\ ~ready => age + delay >= StepTime
  /\ pc = "motor_on" /\ ~ready => age >= StepTime
  /\ pc \in {"ready", "ready_check"} /\ ~ready => age >= StepTime + elapsed
  /\ pc = "ready_check" => elapsed + MaxStall <= ReadyLimit + stall

IInv ==
  /\ TypeOK /\ HeadInv /\ CalmInv /\ ChangeInv /\ DelayInv
  /\ AgeInv /\ EjectInv /\ MountInv /\ ReadyInv /\ NoBug

\* What is due is due in time.
LEMMA EjectDue ==
  ASSUME IInv, Told, head = 0, name # none
  PROVE  age <= EjectBy
BY DEF IInv, AgeInv, DueBy, Obligation, Told, trk0, none

LEMMA MountDue ==
  ASSUME IInv, Ejected
  PROVE  age <= MountBy
BY DEF IInv, AgeInv, DueBy, Obligation, Ejected, none

LEMMA ReadyDue ==
  ASSUME IInv, Mounted, name # none, motor, ~ready
  PROVE  age <= ReadyBy
BY DEF IInv, AgeInv, DueBy, Obligation, Mounted, none

(***************************************************************************)
(* One lemma per action.  Each shows in turn: the types; the driver's idea *)
(* of the cylinder, the delays and the absence of a BUG; the stages of the *)
(* change; the device's punctuality; and how the times of the thread and   *)
(* of the device are related.                                              *)
(***************************************************************************)

LEMMA FindTrack0Keeps ==
  ASSUME IInv, FindTrack0, Watch
  PROVE  IInv'
<1> USE CylAssumption, TimeAssumption, ImageAssumption DEF IInv, FindTrack0, Runs, Step, Watch,
        thread, device, clock, Waits, Seeks, Calm, trk0
<1>1. TypeOK'
  <2>1. ThreadOK'
    BY DEF TypeOK, ThreadOK, DeviceOK
  <2>2. DeviceOK'
    BY DEF TypeOK, DeviceOK
  <2>3. ClockOK'
    BY DEF TypeOK, ClockOK
  <2>4. QED
    BY <2>1, <2>2, <2>3 DEF TypeOK
<1>2. HeadInv' /\ DelayInv' /\ NoBug'
  BY InTimeAssumption, MountDue DEF TypeOK, ThreadOK, DeviceOK, ClockOK, HeadInv, DelayInv, NoBug, ChangeInv, EjectInv, MountInv, ReadyInv, Told, Ejected, Mounted
<1>3. CalmInv' /\ ChangeInv'
  BY DEF TypeOK, ThreadOK, DeviceOK, ClockOK, HeadInv, CalmInv, ChangeInv, Told, Ejected, Mounted
<1>4. AgeInv'
  BY DEF TypeOK, ThreadOK, DeviceOK, ClockOK, AgeInv, Obligation, DueBy
<1>5. EjectInv' /\ MountInv' /\ ReadyInv'
  BY InTimeAssumption, EjectDue, MountDue, ReadyDue DEF TypeOK, ThreadOK, DeviceOK, ClockOK, CalmInv, ChangeInv, DelayInv, EjectInv, MountInv, ReadyInv, Obligation, Told, Ejected, Mounted
<1>6. QED
  BY <1>1, <1>2, <1>3, <1>4, <1>5

LEMMA SelectKeeps ==
  ASSUME IInv, floppy_select, Watch
  PROVE  IInv'
<1> USE CylAssumption, TimeAssumption, ImageAssumption DEF IInv, floppy_select, Runs, Watch,
        thread, device, clock, Waits, Seeks, Calm, trk0
<1>1. TypeOK'
  BY DEF TypeOK, ThreadOK, DeviceOK, ClockOK, Longest
<1>2. HeadInv' /\ DelayInv' /\ NoBug'
  BY InTimeAssumption, MountDue DEF TypeOK, ThreadOK, DeviceOK, ClockOK, HeadInv, DelayInv, NoBug, ChangeInv, EjectInv, MountInv, ReadyInv, Told, Ejected, Mounted
<1>3. CalmInv' /\ ChangeInv'
  BY DEF TypeOK, ThreadOK, DeviceOK, ClockOK, HeadInv, CalmInv, ChangeInv, Told, Ejected, Mounted
<1>4. AgeInv'
  BY DEF TypeOK, ThreadOK, DeviceOK, ClockOK, AgeInv, Obligation, DueBy
<1>5. EjectInv' /\ MountInv' /\ ReadyInv'
  BY InTimeAssumption, EjectDue, MountDue, ReadyDue DEF TypeOK, ThreadOK, DeviceOK, ClockOK, CalmInv, ChangeInv, DelayInv, EjectInv, MountInv, ReadyInv, Obligation, Told, Ejected, Mounted
<1>6. QED
  BY <1>1, <1>2, <1>3, <1>4, <1>5

LEMMA MotorOffKeeps ==
  ASSUME IInv, MotorOff, Watch
  PROVE  IInv'
<1> USE CylAssumption, TimeAssumption, ImageAssumption DEF IInv, MotorOff, MotorOff, SetMotor, Runs, Watch,
        thread, device, clock, Waits, Seeks, Calm, trk0
<1>1. TypeOK'
  <2>1. ThreadOK'
    BY DEF TypeOK, ThreadOK, DeviceOK
  <2>2. DeviceOK'
    BY DEF TypeOK, DeviceOK
  <2>3. ClockOK'
    BY DEF TypeOK, ClockOK
  <2>4. QED
    BY <2>1, <2>2, <2>3 DEF TypeOK
<1>2. HeadInv' /\ DelayInv' /\ NoBug'
  BY InTimeAssumption, MountDue DEF TypeOK, ThreadOK, DeviceOK, ClockOK, HeadInv, DelayInv, NoBug, ChangeInv, EjectInv, MountInv, ReadyInv, Told, Ejected, Mounted
<1>3. CalmInv' /\ ChangeInv'
  BY DEF TypeOK, ThreadOK, DeviceOK, ClockOK, HeadInv, CalmInv, ChangeInv, Told, Ejected, Mounted
<1>4. AgeInv'
  BY DEF TypeOK, ThreadOK, DeviceOK, ClockOK, AgeInv, Obligation, DueBy
<1>5. EjectInv' /\ MountInv' /\ ReadyInv'
  BY InTimeAssumption, EjectDue, MountDue, ReadyDue DEF TypeOK, ThreadOK, DeviceOK, ClockOK, CalmInv, ChangeInv, DelayInv, EjectInv, MountInv, ReadyInv, Obligation, Told, Ejected, Mounted
<1>6. QED
  BY <1>1, <1>2, <1>3, <1>4, <1>5

LEMMA SeekCallKeeps ==
  ASSUME IInv, \E c \in Cyls : floppy_seek(c), Watch
  PROVE  IInv'
<1> USE CylAssumption, TimeAssumption, ImageAssumption DEF IInv, floppy_seek, SeekTo, Runs, Watch,
        thread, device, clock, Waits, Seeks, Calm, trk0
<1>1. TypeOK'
  BY DEF TypeOK, ThreadOK, DeviceOK, ClockOK, Longest
<1>2. HeadInv' /\ DelayInv' /\ NoBug'
  BY InTimeAssumption, MountDue DEF TypeOK, ThreadOK, DeviceOK, ClockOK, HeadInv, DelayInv, NoBug, ChangeInv, EjectInv, MountInv, ReadyInv, Told, Ejected, Mounted
<1>3. CalmInv' /\ ChangeInv'
  BY DEF TypeOK, ThreadOK, DeviceOK, ClockOK, HeadInv, CalmInv, ChangeInv, Told, Ejected, Mounted
<1>4. AgeInv'
  BY DEF TypeOK, ThreadOK, DeviceOK, ClockOK, AgeInv, Obligation, DueBy
<1>5. EjectInv' /\ MountInv' /\ ReadyInv'
  BY InTimeAssumption, EjectDue, MountDue, ReadyDue DEF TypeOK, ThreadOK, DeviceOK, ClockOK, CalmInv, ChangeInv, DelayInv, EjectInv, MountInv, ReadyInv, Obligation, Told, Ejected, Mounted
<1>6. QED
  BY <1>1, <1>2, <1>3, <1>4, <1>5

LEMMA SelectImageKeeps ==
  ASSUME IInv, \E i \in Images : da_select_image(i), Watch
  PROVE  IInv'
<1> USE CylAssumption, TimeAssumption, ImageAssumption DEF IInv, da_select_image, SeekTo, Runs, Watch,
        thread, device, clock, Waits, Seeks, Calm, trk0
<1>1. TypeOK'
  BY DEF TypeOK, ThreadOK, DeviceOK, ClockOK, Longest
<1>2. HeadInv' /\ DelayInv' /\ NoBug'
  BY InTimeAssumption, MountDue DEF TypeOK, ThreadOK, DeviceOK, ClockOK, HeadInv, DelayInv, NoBug, ChangeInv, EjectInv, MountInv, ReadyInv, Told, Ejected, Mounted
<1>3. CalmInv' /\ ChangeInv'
  BY DEF TypeOK, ThreadOK, DeviceOK, ClockOK, HeadInv, CalmInv, ChangeInv, Told, Ejected, Mounted
<1>4. AgeInv'
  BY DEF TypeOK, ThreadOK, DeviceOK, ClockOK, AgeInv, Obligation, DueBy
<1>5. EjectInv' /\ MountInv' /\ ReadyInv'
  BY InTimeAssumption, EjectDue, MountDue, ReadyDue DEF TypeOK, ThreadOK, DeviceOK, ClockOK, CalmInv, ChangeInv, DelayInv, EjectInv, MountInv, ReadyInv, Obligation, Told, Ejected, Mounted
<1>6. QED
  BY <1>1, <1>2, <1>3, <1>4, <1>5

LEMMA Seek0Keeps ==
  ASSUME IInv, Seek0, Watch
  PROVE  IInv'
<1> USE CylAssumption, TimeAssumption, ImageAssumption DEF IInv, Seek0, Runs, Step, Watch,
        thread, device, clock, Waits, Seeks, Calm, trk0
<1>1. TypeOK'
  <2>1. ThreadOK'
    BY DEF TypeOK, ThreadOK, DeviceOK
  <2>2. DeviceOK'
    BY DEF TypeOK, DeviceOK
  <2>3. ClockOK'
    BY DEF TypeOK, ClockOK
  <2>4. QED
    BY <2>1, <2>2, <2>3 DEF TypeOK
<1>2. HeadInv' /\ DelayInv' /\ NoBug'
  BY InTimeAssumption, MountDue DEF TypeOK, ThreadOK, DeviceOK, ClockOK, HeadInv, DelayInv, NoBug, ChangeInv, EjectInv, MountInv, ReadyInv, Told, Ejected, Mounted
<1>3. CalmInv' /\ ChangeInv'
  BY DEF TypeOK, ThreadOK, DeviceOK, ClockOK, HeadInv, CalmInv, ChangeInv, Told, Ejected, Mounted
<1>4. AgeInv'
  BY DEF TypeOK, ThreadOK, DeviceOK, ClockOK, AgeInv, Obligation, DueBy
<1>5. EjectInv' /\ MountInv' /\ ReadyInv'
  BY InTimeAssumption, EjectDue, MountDue, ReadyDue DEF TypeOK, ThreadOK, DeviceOK, ClockOK, CalmInv, ChangeInv, DelayInv, EjectInv, MountInv, ReadyInv, Obligation, Told, Ejected, Mounted
<1>6. QED
  BY <1>1, <1>2, <1>3, <1>4, <1>5

LEMMA SeekKeeps ==
  ASSUME IInv, Seek, Watch
  PROVE  IInv'
<1> USE CylAssumption, TimeAssumption, ImageAssumption DEF IInv, Seek, Runs, Step, Watch,
        thread, device, clock, Waits, Seeks, Calm, trk0
<1>1. TypeOK'
  <2>1. ThreadOK'
    BY DEF TypeOK, ThreadOK, DeviceOK
  <2>2. DeviceOK'
    BY DEF TypeOK, DeviceOK
  <2>3. ClockOK'
    BY DEF TypeOK, ClockOK
  <2>4. QED
    BY <2>1, <2>2, <2>3 DEF TypeOK
<1>2. HeadInv' /\ DelayInv' /\ NoBug'
  BY InTimeAssumption, MountDue DEF TypeOK, ThreadOK, DeviceOK, ClockOK, HeadInv, DelayInv, NoBug, ChangeInv, EjectInv, MountInv, ReadyInv, Told, Ejected, Mounted
<1>3. CalmInv' /\ ChangeInv'
  BY DEF TypeOK, ThreadOK, DeviceOK, ClockOK, HeadInv, CalmInv, ChangeInv, Told, Ejected, Mounted
<1>4. AgeInv'
  BY DEF TypeOK, ThreadOK, DeviceOK, ClockOK, AgeInv, Obligation, DueBy
<1>5. EjectInv' /\ MountInv' /\ ReadyInv'
  BY InTimeAssumption, EjectDue, MountDue, ReadyDue DEF TypeOK, ThreadOK, DeviceOK, ClockOK, CalmInv, ChangeInv, DelayInv, EjectInv, MountInv, ReadyInv, Obligation, Told, Ejected, Mounted
<1>6. QED
  BY <1>1, <1>2, <1>3, <1>4, <1>5

LEMMA SelectNameKeeps ==
  ASSUME IInv, SelectName, Watch
  PROVE  IInv'
<1> USE CylAssumption, TimeAssumption, ImageAssumption DEF IInv, SelectName, Runs, Watch,
        thread, device, clock, Waits, Seeks, Calm, trk0
<1>1. TypeOK'
  BY DEF TypeOK, ThreadOK, DeviceOK, ClockOK, Longest
<1>2. HeadInv' /\ DelayInv' /\ NoBug'
  BY InTimeAssumption, MountDue DEF TypeOK, ThreadOK, DeviceOK, ClockOK, HeadInv, DelayInv, NoBug, ChangeInv, EjectInv, MountInv, ReadyInv, Told, Ejected, Mounted
<1>3. CalmInv' /\ ChangeInv'
  BY DEF TypeOK, ThreadOK, DeviceOK, ClockOK, HeadInv, CalmInv, ChangeInv, Told, Ejected, Mounted
<1>4. AgeInv'
  BY DEF TypeOK, ThreadOK, DeviceOK, ClockOK, AgeInv, Obligation, DueBy
<1>5. EjectInv' /\ MountInv' /\ ReadyInv'
  BY InTimeAssumption, EjectDue, MountDue, ReadyDue DEF TypeOK, ThreadOK, DeviceOK, ClockOK, CalmInv, ChangeInv, DelayInv, EjectInv, MountInv, ReadyInv, Obligation, Told, Ejected, Mounted
<1>6. QED
  BY <1>1, <1>2, <1>3, <1>4, <1>5

LEMMA ResetCountKeeps ==
  ASSUME IInv, ResetCount, Watch
  PROVE  IInv'
<1> USE CylAssumption, TimeAssumption, ImageAssumption DEF IInv, ResetCount, Runs, Watch,
        thread, device, clock, Waits, Seeks, Calm, trk0
<1>1. TypeOK'
  BY DEF TypeOK, ThreadOK, DeviceOK, ClockOK, Longest
<1>2. HeadInv' /\ DelayInv' /\ NoBug'
  BY InTimeAssumption, MountDue DEF TypeOK, ThreadOK, DeviceOK, ClockOK, HeadInv, DelayInv, NoBug, ChangeInv, EjectInv, MountInv, ReadyInv, Told, Ejected, Mounted
<1>3. CalmInv' /\ ChangeInv'
  BY DEF TypeOK, ThreadOK, DeviceOK, ClockOK, HeadInv, CalmInv, ChangeInv, Told, Ejected, Mounted
<1>4. AgeInv'
  BY DEF TypeOK, ThreadOK, DeviceOK, ClockOK, AgeInv, Obligation, DueBy
<1>5. EjectInv' /\ MountInv' /\ ReadyInv'
  BY InTimeAssumption, EjectDue, MountDue, ReadyDue DEF TypeOK, ThreadOK, DeviceOK, ClockOK, CalmInv, ChangeInv, DelayInv, EjectInv, MountInv, ReadyInv, Obligation, Told, Ejected, Mounted
<1>6. QED
  BY <1>1, <1>2, <1>3, <1>4, <1>5

LEMMA ReturnTo0Keeps ==
  ASSUME IInv, ReturnTo0, Watch
  PROVE  IInv'
<1> USE CylAssumption, TimeAssumption, ImageAssumption DEF IInv, ReturnTo0, SeekTo, Runs, Watch,
        thread, device, clock, Waits, Seeks, Calm, trk0
<1>1. TypeOK'
  BY DEF TypeOK, ThreadOK, DeviceOK, ClockOK, Longest
<1>2. HeadInv' /\ DelayInv' /\ NoBug'
  BY InTimeAssumption, MountDue DEF TypeOK, ThreadOK, DeviceOK, ClockOK, HeadInv, DelayInv, NoBug, ChangeInv, EjectInv, MountInv, ReadyInv, Told, Ejected, Mounted
<1>3. CalmInv' /\ ChangeInv'
  BY DEF TypeOK, ThreadOK, DeviceOK, ClockOK, HeadInv, CalmInv, ChangeInv, Told, Ejected, Mounted
<1>4. AgeInv'
  BY DEF TypeOK, ThreadOK, DeviceOK, ClockOK, AgeInv, Obligation, DueBy
<1>5. EjectInv' /\ MountInv' /\ ReadyInv'
  BY InTimeAssumption, EjectDue, MountDue, ReadyDue DEF TypeOK, ThreadOK, DeviceOK, ClockOK, CalmInv, ChangeInv, DelayInv, EjectInv, MountInv, ReadyInv, Obligation, Told, Ejected, Mounted
<1>6. QED
  BY <1>1, <1>2, <1>3, <1>4, <1>5

LEMMA EjectStampKeeps ==
  ASSUME IInv, Stamp("t0", "eject"), Watch
  PROVE  IInv'
<1> USE CylAssumption, TimeAssumption, ImageAssumption DEF IInv, Stamp, Runs, Watch,
        thread, device, clock, Waits, Seeks, Calm, trk0
<1>1. TypeOK'
  BY DEF TypeOK, ThreadOK, DeviceOK, ClockOK, Longest
<1>2. HeadInv' /\ DelayInv' /\ NoBug'
  BY InTimeAssumption, MountDue DEF TypeOK, ThreadOK, DeviceOK, ClockOK, HeadInv, DelayInv, NoBug, ChangeInv, EjectInv, MountInv, ReadyInv, Told, Ejected, Mounted
<1>3. CalmInv' /\ ChangeInv'
  BY DEF TypeOK, ThreadOK, DeviceOK, ClockOK, HeadInv, CalmInv, ChangeInv, Told, Ejected, Mounted
<1>4. AgeInv'
  BY DEF TypeOK, ThreadOK, DeviceOK, ClockOK, AgeInv, Obligation, DueBy
<1>5. EjectInv' /\ MountInv' /\ ReadyInv'
  BY InTimeAssumption, EjectDue, MountDue, ReadyDue DEF TypeOK, ThreadOK, DeviceOK, ClockOK, CalmInv, ChangeInv, DelayInv, EjectInv, MountInv, ReadyInv, Obligation, Told, Ejected, Mounted
<1>6. QED
  BY <1>1, <1>2, <1>3, <1>4, <1>5

LEMMA EjectPollKeeps ==
  ASSUME IInv, EjectPoll, Watch
  PROVE  IInv'
<1> USE CylAssumption, TimeAssumption, ImageAssumption DEF IInv, EjectPoll, Runs, Watch,
        thread, device, clock, Waits, Seeks, Calm, trk0
<1>1. TypeOK'
  BY DEF TypeOK, ThreadOK, DeviceOK, ClockOK, Longest
<1>2. HeadInv' /\ DelayInv' /\ NoBug'
  BY InTimeAssumption, MountDue DEF TypeOK, ThreadOK, DeviceOK, ClockOK, HeadInv, DelayInv, NoBug, ChangeInv, EjectInv, MountInv, ReadyInv, Told, Ejected, Mounted
<1>3. CalmInv' /\ ChangeInv'
  BY DEF TypeOK, ThreadOK, DeviceOK, ClockOK, HeadInv, CalmInv, ChangeInv, Told, Ejected, Mounted
<1>4. AgeInv'
  BY DEF TypeOK, ThreadOK, DeviceOK, ClockOK, AgeInv, Obligation, DueBy
<1>5. EjectInv' /\ MountInv' /\ ReadyInv'
  BY InTimeAssumption, EjectDue, MountDue, ReadyDue DEF TypeOK, ThreadOK, DeviceOK, ClockOK, CalmInv, ChangeInv, DelayInv, EjectInv, MountInv, ReadyInv, Obligation, Told, Ejected, Mounted
<1>6. QED
  BY <1>1, <1>2, <1>3, <1>4, <1>5

LEMMA EjectCheckKeeps ==
  ASSUME IInv, EjectCheck, Watch
  PROVE  IInv'
<1> USE CylAssumption, TimeAssumption, ImageAssumption DEF IInv, EjectCheck, BUG_ON, Runs, Watch,
        thread, device, clock, Waits, Seeks, Calm, trk0
<1>1. TypeOK'
  BY DEF TypeOK, ThreadOK, DeviceOK, ClockOK, Longest
<1>2. HeadInv' /\ DelayInv' /\ NoBug'
  BY InTimeAssumption, MountDue DEF TypeOK, ThreadOK, DeviceOK, ClockOK, HeadInv, DelayInv, NoBug, ChangeInv, EjectInv, MountInv, ReadyInv, Told, Ejected, Mounted
<1>3. CalmInv' /\ ChangeInv'
  BY DEF TypeOK, ThreadOK, DeviceOK, ClockOK, HeadInv, CalmInv, ChangeInv, Told, Ejected, Mounted
<1>4. AgeInv'
  BY DEF TypeOK, ThreadOK, DeviceOK, ClockOK, AgeInv, Obligation, DueBy
<1>5. EjectInv' /\ MountInv' /\ ReadyInv'
  BY InTimeAssumption, EjectDue, MountDue, ReadyDue DEF TypeOK, ThreadOK, DeviceOK, ClockOK, CalmInv, ChangeInv, DelayInv, EjectInv, MountInv, ReadyInv, Obligation, Told, Ejected, Mounted
<1>6. QED
  BY <1>1, <1>2, <1>3, <1>4, <1>5

LEMMA MountStampKeeps ==
  ASSUME IInv, Stamp("t1", "mount"), Watch
  PROVE  IInv'
<1> USE CylAssumption, TimeAssumption, ImageAssumption DEF IInv, Stamp, Runs, Watch,
        thread, device, clock, Waits, Seeks, Calm, trk0
<1>1. TypeOK'
  BY DEF TypeOK, ThreadOK, DeviceOK, ClockOK, Longest
<1>2. HeadInv' /\ DelayInv' /\ NoBug'
  BY InTimeAssumption, MountDue DEF TypeOK, ThreadOK, DeviceOK, ClockOK, HeadInv, DelayInv, NoBug, ChangeInv, EjectInv, MountInv, ReadyInv, Told, Ejected, Mounted
<1>3. CalmInv' /\ ChangeInv'
  BY DEF TypeOK, ThreadOK, DeviceOK, ClockOK, HeadInv, CalmInv, ChangeInv, Told, Ejected, Mounted
<1>4. AgeInv'
  BY DEF TypeOK, ThreadOK, DeviceOK, ClockOK, AgeInv, Obligation, DueBy
<1>5. EjectInv' /\ MountInv' /\ ReadyInv'
  BY InTimeAssumption, EjectDue, MountDue, ReadyDue DEF TypeOK, ThreadOK, DeviceOK, ClockOK, CalmInv, ChangeInv, DelayInv, EjectInv, MountInv, ReadyInv, Obligation, Told, Ejected, Mounted
<1>6. QED
  BY <1>1, <1>2, <1>3, <1>4, <1>5

LEMMA MountPollKeeps ==
  ASSUME IInv, MountPoll, Watch
  PROVE  IInv'
<1> USE CylAssumption, TimeAssumption, ImageAssumption DEF IInv, MountPoll, Runs, Watch,
        thread, device, clock, Waits, Seeks, Calm, trk0
<1>1. TypeOK'
  BY DEF TypeOK, ThreadOK, DeviceOK, ClockOK, Longest
<1>2. HeadInv' /\ DelayInv' /\ NoBug'
  BY InTimeAssumption, MountDue DEF TypeOK, ThreadOK, DeviceOK, ClockOK, HeadInv, DelayInv, NoBug, ChangeInv, EjectInv, MountInv, ReadyInv, Told, Ejected, Mounted
<1>3. CalmInv' /\ ChangeInv'
  BY DEF TypeOK, ThreadOK, DeviceOK, ClockOK, HeadInv, CalmInv, ChangeInv, Told, Ejected, Mounted
<1>4. AgeInv'
  BY DEF TypeOK, ThreadOK, DeviceOK, ClockOK, AgeInv, Obligation, DueBy
<1>5. EjectInv' /\ MountInv' /\ ReadyInv'
  BY InTimeAssumption, EjectDue, MountDue, ReadyDue DEF TypeOK, ThreadOK, DeviceOK, ClockOK, CalmInv, ChangeInv, DelayInv, EjectInv, MountInv, ReadyInv, Obligation, Told, Ejected, Mounted
<1>6. QED
  BY <1>1, <1>2, <1>3, <1>4, <1>5

LEMMA MountCheckKeeps ==
  ASSUME IInv, MountCheck, Watch
  PROVE  IInv'
<1> USE CylAssumption, TimeAssumption, ImageAssumption DEF IInv, MountCheck, BUG_ON, Runs, Watch,
        thread, device, clock, Waits, Seeks, Calm, trk0
<1>1. TypeOK'
  BY DEF TypeOK, ThreadOK, DeviceOK, ClockOK, Longest
<1>2. HeadInv' /\ DelayInv' /\ NoBug'
  BY InTimeAssumption, MountDue DEF TypeOK, ThreadOK, DeviceOK, ClockOK, HeadInv, DelayInv, NoBug, ChangeInv, EjectInv, MountInv, ReadyInv, Told, Ejected, Mounted
<1>3. CalmInv' /\ ChangeInv'
  BY DEF TypeOK, ThreadOK, DeviceOK, ClockOK, HeadInv, CalmInv, ChangeInv, Told, Ejected, Mounted
<1>4. AgeInv'
  BY DEF TypeOK, ThreadOK, DeviceOK, ClockOK, AgeInv, Obligation, DueBy
<1>5. EjectInv' /\ MountInv' /\ ReadyInv'
  BY InTimeAssumption, EjectDue, MountDue, ReadyDue DEF TypeOK, ThreadOK, DeviceOK, ClockOK, CalmInv, ChangeInv, DelayInv, EjectInv, MountInv, ReadyInv, Obligation, Told, Ejected, Mounted
<1>6. QED
  BY <1>1, <1>2, <1>3, <1>4, <1>5

LEMMA MountStepKeeps ==
  ASSUME IInv, MountStep, Watch
  PROVE  IInv'
<1> USE CylAssumption, TimeAssumption, ImageAssumption DEF IInv, MountStep, Step, Runs, Watch,
        thread, device, clock, Waits, Seeks, Calm, trk0
<1>0. head = 0 /\ head' = 0 /\ (Ejected \/ Mounted) /\ dskchg' = (dskchg /\ image = none)
  BY DEF TypeOK, DeviceOK, ChangeInv
<1>1. TypeOK'
  BY <1>0 DEF TypeOK, ThreadOK, DeviceOK, ClockOK, Longest
<1>2. HeadInv' /\ DelayInv' /\ NoBug'
  BY <1>0, InTimeAssumption, MountDue DEF TypeOK, ThreadOK, DeviceOK, ClockOK, HeadInv, DelayInv, NoBug, ChangeInv, EjectInv, MountInv, ReadyInv, Told, Ejected, Mounted
<1>3. CalmInv' /\ ChangeInv'
  BY <1>0 DEF TypeOK, ThreadOK, DeviceOK, ClockOK, HeadInv, CalmInv, ChangeInv, Told, Ejected, Mounted
<1>4. AgeInv'
  BY <1>0 DEF TypeOK, ThreadOK, DeviceOK, ClockOK, AgeInv, Obligation, DueBy
<1>5. EjectInv' /\ MountInv' /\ ReadyInv'
  BY <1>0, InTimeAssumption, EjectDue, MountDue, ReadyDue DEF TypeOK, ThreadOK, DeviceOK, ClockOK, CalmInv, ChangeInv, DelayInv, EjectInv, MountInv, ReadyInv, Obligation, Told, Ejected, Mounted
<1>6. QED
  BY <1>1, <1>2, <1>3, <1>4, <1>5

LEMMA MotorOnKeeps ==
  ASSUME IInv, SetMotor("motor_on", "ready", TRUE), Watch
  PROVE  IInv'
<1> USE CylAssumption, TimeAssumption, ImageAssumption DEF IInv, SetMotor, Runs, Watch,
        thread, device, clock, Waits, Seeks, Calm, trk0
<1>1. TypeOK'
  BY DEF TypeOK, ThreadOK, DeviceOK, ClockOK, Longest
<1>2. HeadInv' /\ DelayInv' /\ NoBug'
  BY InTimeAssumption, MountDue DEF TypeOK, ThreadOK, DeviceOK, ClockOK, HeadInv, DelayInv, NoBug, ChangeInv, EjectInv, MountInv, ReadyInv, Told, Ejected, Mounted
<1>3. CalmInv' /\ ChangeInv'
  BY DEF TypeOK, ThreadOK, DeviceOK, ClockOK, HeadInv, CalmInv, ChangeInv, Told, Ejected, Mounted
<1>4. AgeInv'
  BY DEF TypeOK, ThreadOK, DeviceOK, ClockOK, AgeInv, Obligation, DueBy
<1>5. EjectInv' /\ MountInv' /\ ReadyInv'
  BY InTimeAssumption, EjectDue, MountDue, ReadyDue DEF TypeOK, ThreadOK, DeviceOK, ClockOK, CalmInv, ChangeInv, DelayInv, EjectInv, MountInv, ReadyInv, Obligation, Told, Ejected, Mounted
<1>6. QED
  BY <1>1, <1>2, <1>3, <1>4, <1>5

LEMMA ReadyPollKeeps ==
  ASSUME IInv, ReadyPoll, Watch
  PROVE  IInv'
<1> USE CylAssumption, TimeAssumption, ImageAssumption DEF IInv, ReadyPoll, Runs, Watch,
        thread, device, clock, Waits, Seeks, Calm, trk0
<1>1. TypeOK'
  BY DEF TypeOK, ThreadOK, DeviceOK, ClockOK, Longest
<1>2. HeadInv' /\ DelayInv' /\ NoBug'
  BY InTimeAssumption, MountDue DEF TypeOK, ThreadOK, DeviceOK, ClockOK, HeadInv, DelayInv, NoBug, ChangeInv, EjectInv, MountInv, ReadyInv, Told, Ejected, Mounted
<1>3. CalmInv' /\ ChangeInv'
  BY DEF TypeOK, ThreadOK, DeviceOK, ClockOK, HeadInv, CalmInv, ChangeInv, Told, Ejected, Mounted
<1>4. AgeInv'
  BY DEF TypeOK, ThreadOK, DeviceOK, ClockOK, AgeInv, Obligation, DueBy
<1>5. EjectInv' /\ MountInv' /\ ReadyInv'
  BY InTimeAssumption, EjectDue, MountDue, ReadyDue DEF TypeOK, ThreadOK, DeviceOK, ClockOK, CalmInv, ChangeInv, DelayInv, EjectInv, MountInv, ReadyInv, Obligation, Told, Ejected, Mounted
<1>6. QED
  BY <1>1, <1>2, <1>3, <1>4, <1>5

LEMMA ReadyCheckKeeps ==
  ASSUME IInv, ReadyCheck, Watch
  PROVE  IInv'
<1> USE CylAssumption, TimeAssumption, ImageAssumption DEF IInv, ReadyCheck, BUG_ON, Runs, Watch,
        thread, device, clock, Waits, Seeks, Calm, trk0
<1>1. TypeOK'
  BY DEF TypeOK, ThreadOK, DeviceOK, ClockOK, Longest
<1>2. HeadInv' /\ DelayInv' /\ NoBug'
  BY InTimeAssumption, MountDue DEF TypeOK, ThreadOK, DeviceOK, ClockOK, HeadInv, DelayInv, NoBug, ChangeInv, EjectInv, MountInv, ReadyInv, Told, Ejected, Mounted
<1>3. CalmInv' /\ ChangeInv'
  BY DEF TypeOK, ThreadOK, DeviceOK, ClockOK, HeadInv, CalmInv, ChangeInv, Told, Ejected, Mounted
<1>4. AgeInv'
  BY DEF TypeOK, ThreadOK, DeviceOK, ClockOK, AgeInv, Obligation, DueBy
<1>5. EjectInv' /\ MountInv' /\ ReadyInv'
  BY InTimeAssumption, EjectDue, MountDue, ReadyDue DEF TypeOK, ThreadOK, DeviceOK, ClockOK, CalmInv, ChangeInv, DelayInv, EjectInv, MountInv, ReadyInv, Obligation, Told, Ejected, Mounted
<1>6. QED
  BY <1>1, <1>2, <1>3, <1>4, <1>5

LEMMA ChangedKeeps ==
  ASSUME IInv, Changed, Watch
  PROVE  IInv'
<1> USE CylAssumption, TimeAssumption, ImageAssumption DEF IInv, Changed, Runs, Watch,
        thread, device, clock, Waits, Seeks, Calm, trk0
<1>1. TypeOK'
  BY DEF TypeOK, ThreadOK, DeviceOK, ClockOK, Longest
<1>2. HeadInv' /\ DelayInv' /\ NoBug'
  BY InTimeAssumption, MountDue DEF TypeOK, ThreadOK, DeviceOK, ClockOK, HeadInv, DelayInv, NoBug, ChangeInv, EjectInv, MountInv, ReadyInv, Told, Ejected, Mounted
<1>3. CalmInv' /\ ChangeInv'
  BY DEF TypeOK, ThreadOK, DeviceOK, ClockOK, HeadInv, CalmInv, ChangeInv, Told, Ejected, Mounted
<1>4. AgeInv'
  BY DEF TypeOK, ThreadOK, DeviceOK, ClockOK, AgeInv, Obligation, DueBy
<1>5. EjectInv' /\ MountInv' /\ ReadyInv'
  BY InTimeAssumption, EjectDue, MountDue, ReadyDue DEF TypeOK, ThreadOK, DeviceOK, ClockOK, CalmInv, ChangeInv, DelayInv, EjectInv, MountInv, ReadyInv, Obligation, Told, Ejected, Mounted
<1>6. QED
  BY <1>1, <1>2, <1>3, <1>4, <1>5

LEMMA OffPollKeeps ==
  ASSUME IInv, OffPoll, Watch
  PROVE  IInv'
<1> USE CylAssumption, TimeAssumption, ImageAssumption DEF IInv, OffPoll, Runs, Watch,
        thread, device, clock, Waits, Seeks, Calm, trk0
<1>1. TypeOK'
  BY DEF TypeOK, ThreadOK, DeviceOK, ClockOK, Longest
<1>2. HeadInv' /\ DelayInv' /\ NoBug'
  BY InTimeAssumption, MountDue DEF TypeOK, ThreadOK, DeviceOK, ClockOK, HeadInv, DelayInv, NoBug, ChangeInv, EjectInv, MountInv, ReadyInv, Told, Ejected, Mounted
<1>3. CalmInv' /\ ChangeInv'
  BY DEF TypeOK, ThreadOK, DeviceOK, ClockOK, HeadInv, CalmInv, ChangeInv, Told, Ejected, Mounted
<1>4. AgeInv'
  BY DEF TypeOK, ThreadOK, DeviceOK, ClockOK, AgeInv, Obligation, DueBy
<1>5. EjectInv' /\ MountInv' /\ ReadyInv'
  BY InTimeAssumption, EjectDue, MountDue, ReadyDue DEF TypeOK, ThreadOK, DeviceOK, ClockOK, CalmInv, ChangeInv, DelayInv, EjectInv, MountInv, ReadyInv, Obligation, Told, Ejected, Mounted
<1>6. QED
  BY <1>1, <1>2, <1>3, <1>4, <1>5

LEMMA OffAgainKeeps ==
  ASSUME IInv, OffAgain, Watch
  PROVE  IInv'
<1> USE CylAssumption, TimeAssumption, ImageAssumption DEF IInv, OffAgain, SetMotor, Runs, Watch,
        thread, device, clock, Waits, Seeks, Calm, trk0
<1>1. TypeOK'
  <2>1. ThreadOK'
    BY DEF TypeOK, ThreadOK, DeviceOK
  <2>2. DeviceOK'
    BY DEF TypeOK, DeviceOK
  <2>3. ClockOK'
    BY DEF TypeOK, ClockOK
  <2>4. QED
    BY <2>1, <2>2, <2>3 DEF TypeOK
<1>2. HeadInv' /\ DelayInv' /\ NoBug'
  BY InTimeAssumption, MountDue DEF TypeOK, ThreadOK, DeviceOK, ClockOK, HeadInv, DelayInv, NoBug, ChangeInv, EjectInv, MountInv, ReadyInv, Told, Ejected, Mounted
<1>3. CalmInv' /\ ChangeInv'
  BY DEF TypeOK, ThreadOK, DeviceOK, ClockOK, HeadInv, CalmInv, ChangeInv, Told, Ejected, Mounted
<1>4. AgeInv'
  BY DEF TypeOK, ThreadOK, DeviceOK, ClockOK, AgeInv, Obligation, DueBy
<1>5. EjectInv' /\ MountInv' /\ ReadyInv'
  BY InTimeAssumption, EjectDue, MountDue, ReadyDue DEF TypeOK, ThreadOK, DeviceOK, ClockOK, CalmInv, ChangeInv, DelayInv, EjectInv, MountInv, ReadyInv, Obligation, Told, Ejected, Mounted
<1>6. QED
  BY <1>1, <1>2, <1>3, <1>4, <1>5

LEMMA OnPollKeeps ==
  ASSUME IInv, OnPoll, Watch
  PROVE  IInv'
<1> USE CylAssumption, TimeAssumption, ImageAssumption DEF IInv, OnPoll, Runs, Watch,
        thread, device, clock, Waits, Seeks, Calm, trk0
<1>1. TypeOK'
  BY DEF TypeOK, ThreadOK, DeviceOK, ClockOK, Longest
<1>2. HeadInv' /\ DelayInv' /\ NoBug'
  BY InTimeAssumption, MountDue DEF TypeOK, ThreadOK, DeviceOK, ClockOK, HeadInv, DelayInv, NoBug, ChangeInv, EjectInv, MountInv, ReadyInv, Told, Ejected, Mounted
<1>3. CalmInv' /\ ChangeInv'
  BY DEF TypeOK, ThreadOK, DeviceOK, ClockOK, HeadInv, CalmInv, ChangeInv, Told, Ejected, Mounted
<1>4. AgeInv'
  BY DEF TypeOK, ThreadOK, DeviceOK, ClockOK, AgeInv, Obligation, DueBy
<1>5. EjectInv' /\ MountInv' /\ ReadyInv'
  BY InTimeAssumption, EjectDue, MountDue, ReadyDue DEF TypeOK, ThreadOK, DeviceOK, ClockOK, CalmInv, ChangeInv, DelayInv, EjectInv, MountInv, ReadyInv, Obligation, Told, Ejected, Mounted
<1>6. QED
  BY <1>1, <1>2, <1>3, <1>4, <1>5

LEMMA EjectKeeps ==
  ASSUME IInv, Eject
  PROVE  IInv'
<1> USE CylAssumption, TimeAssumption, ImageAssumption DEF IInv, Eject,
        thread, device, clock, Waits, Seeks, Calm, trk0
<1>0. /\ Told /\ count = 0 /\ ~dskchg /\ head = 0 /\ pc \in Seeks \cup {"t0", "eject", "eject_check"}
      /\ ret = "t0" /\ name # none
  BY DEF TypeOK, ThreadOK, DeviceOK, ClockOK, HeadInv, CalmInv, ChangeInv, EjectInv, Obligation, Told, Ejected, Mounted, none
<1>1. TypeOK'
  BY <1>0 DEF TypeOK, ThreadOK, DeviceOK, ClockOK, Longest, Obligation
<1>2. HeadInv' /\ DelayInv' /\ NoBug'
  BY <1>0, InTimeAssumption, MountDue DEF TypeOK, ThreadOK, DeviceOK, ClockOK, HeadInv, DelayInv, NoBug, ChangeInv, EjectInv, MountInv, ReadyInv, Told, Ejected, Mounted, Obligation
<1>3. CalmInv' /\ ChangeInv'
  BY <1>0 DEF TypeOK, ThreadOK, DeviceOK, ClockOK, HeadInv, CalmInv, ChangeInv, Told, Ejected, Mounted, Obligation
<1>4. AgeInv'
  BY <1>0 DEF TypeOK, ThreadOK, DeviceOK, ClockOK, AgeInv, Obligation, DueBy
<1>5. EjectInv' /\ MountInv' /\ ReadyInv'
  BY <1>0, InTimeAssumption, EjectDue, MountDue, ReadyDue DEF TypeOK, ThreadOK, DeviceOK, ClockOK, CalmInv, ChangeInv, DelayInv, EjectInv, MountInv, ReadyInv, Obligation, Told, Ejected, Mounted
<1>6. QED
  BY <1>1, <1>2, <1>3, <1>4, <1>5

LEMMA MountKeeps ==
  ASSUME IInv, Mount
  PROVE  IInv'
<1> USE CylAssumption, TimeAssumption, ImageAssumption DEF IInv, Mount,
        thread, device, clock, Waits, Seeks, Calm, trk0
<1>0. Ejected /\ name # none /\ ~(pc \in Calm) /\ (pc \in Seeks => ret = "t0")
  BY DEF TypeOK, ThreadOK, CalmInv, ChangeInv, Obligation, Told, Ejected, Mounted, none
<1>1. TypeOK'
  BY <1>0 DEF TypeOK, ThreadOK, DeviceOK, ClockOK, Longest, Obligation
<1>2. HeadInv' /\ DelayInv' /\ NoBug'
  BY <1>0, InTimeAssumption, MountDue DEF TypeOK, ThreadOK, DeviceOK, ClockOK, HeadInv, DelayInv, NoBug, ChangeInv, EjectInv, MountInv, ReadyInv, Told, Ejected, Mounted, Obligation
<1>3. CalmInv' /\ ChangeInv'
  BY <1>0 DEF TypeOK, ThreadOK, DeviceOK, ClockOK, HeadInv, CalmInv, ChangeInv, Told, Ejected, Mounted, Obligation
<1>4. AgeInv'
  BY <1>0 DEF TypeOK, ThreadOK, DeviceOK, ClockOK, AgeInv, Obligation, DueBy
<1>5. EjectInv' /\ MountInv' /\ ReadyInv'
  BY <1>0, InTimeAssumption, EjectDue, MountDue, ReadyDue DEF TypeOK, ThreadOK, DeviceOK, ClockOK, CalmInv, ChangeInv, DelayInv, EjectInv, MountInv, ReadyInv, Obligation, Told, Ejected, Mounted
<1>6. QED
  BY <1>1, <1>2, <1>3, <1>4, <1>5

LEMMA SpinUpKeeps ==
  ASSUME IInv, SpinUp
  PROVE  IInv'
<1> USE CylAssumption, TimeAssumption, ImageAssumption DEF IInv, SpinUp,
        thread, device, clock, Waits, Seeks, Calm, trk0
<1>1. TypeOK'
  BY DEF TypeOK, ThreadOK, DeviceOK, ClockOK, Longest, Obligation
<1>2. HeadInv' /\ DelayInv' /\ NoBug'
  BY InTimeAssumption, MountDue DEF TypeOK, ThreadOK, DeviceOK, ClockOK, HeadInv, DelayInv, NoBug, ChangeInv, EjectInv, MountInv, ReadyInv, Told, Ejected, Mounted, Obligation
<1>3. CalmInv' /\ ChangeInv'
  BY DEF TypeOK, ThreadOK, DeviceOK, ClockOK, HeadInv, CalmInv, ChangeInv, Told, Ejected, Mounted, Obligation
<1>4. AgeInv'
  BY DEF TypeOK, ThreadOK, DeviceOK, ClockOK, AgeInv, Obligation, DueBy
<1>5. EjectInv' /\ MountInv' /\ ReadyInv'
  BY InTimeAssumption, EjectDue, MountDue, ReadyDue DEF TypeOK, ThreadOK, DeviceOK, ClockOK, CalmInv, ChangeInv, DelayInv, EjectInv, MountInv, ReadyInv, Obligation, Told, Ejected, Mounted
<1>6. QED
  BY <1>1, <1>2, <1>3, <1>4, <1>5

LEMMA SpinDownKeeps ==
  ASSUME IInv, SpinDown
  PROVE  IInv'
<1> USE CylAssumption, TimeAssumption, ImageAssumption DEF IInv, SpinDown,
        thread, device, clock, Waits, Seeks, Calm, trk0
<1>1. TypeOK'
  <2>1. ThreadOK' /\ ClockOK'
    BY SMTT(30) DEF TypeOK, ThreadOK, ClockOK, Longest, Obligation
  <2>2. head' \in 0 .. DaCyl /\ image' \in Images \cup {none} /\ command' \in Images \cup {none}
    BY DEF TypeOK, DeviceOK
  <2>3. motor' \in BOOLEAN /\ dskchg' \in BOOLEAN /\ ready' \in BOOLEAN /\ edge' \in BOOLEAN
    BY DEF TypeOK, DeviceOK
  <2> QED
    BY <2>1, <2>2, <2>3 DEF TypeOK, DeviceOK
<1>2. HeadInv' /\ DelayInv' /\ NoBug'
  BY InTimeAssumption, MountDue DEF TypeOK, ThreadOK, DeviceOK, ClockOK, HeadInv, DelayInv, NoBug, ChangeInv, EjectInv, MountInv, ReadyInv, Told, Ejected, Mounted, Obligation
<1>3. CalmInv' /\ ChangeInv'
  BY DEF TypeOK, ThreadOK, DeviceOK, ClockOK, HeadInv, CalmInv, ChangeInv, Told, Ejected, Mounted, Obligation
<1>4. AgeInv'
  BY DEF TypeOK, ThreadOK, DeviceOK, ClockOK, AgeInv, Obligation, DueBy
<1>5. EjectInv' /\ MountInv' /\ ReadyInv'
  BY InTimeAssumption, EjectDue, MountDue, ReadyDue DEF TypeOK, ThreadOK, DeviceOK, ClockOK, CalmInv, ChangeInv, DelayInv, EjectInv, MountInv, ReadyInv, Obligation, Told, Ejected, Mounted
<1>6. QED
  BY <1>1, <1>2, <1>3, <1>4, <1>5

LEMMA TickKeeps ==
  ASSUME IInv, Tick
  PROVE  IInv'
<1> USE CylAssumption, TimeAssumption, ImageAssumption DEF IInv, Tick, Least,
        thread, device, clock, Waits, Seeks, Calm, trk0
<1>0. elapsed' <= elapsed + 1 /\ elapsed' \in Nat
  BY DEF TypeOK, ClockOK, Longest
<1>1. TypeOK'
  BY <1>0 DEF TypeOK, ThreadOK, DeviceOK, ClockOK, Longest
<1>2. HeadInv' /\ DelayInv' /\ NoBug'
  BY <1>0, InTimeAssumption, MountDue DEF TypeOK, ThreadOK, DeviceOK, ClockOK, HeadInv, DelayInv, NoBug, ChangeInv, EjectInv, MountInv, ReadyInv, Told, Ejected, Mounted
<1>3. CalmInv' /\ ChangeInv'
  BY <1>0 DEF TypeOK, ThreadOK, DeviceOK, ClockOK, HeadInv, CalmInv, ChangeInv, Told, Ejected, Mounted
<1>4. AgeInv'
  BY <1>0 DEF TypeOK, ThreadOK, DeviceOK, ClockOK, AgeInv, Obligation, DueBy
<1>5. EjectInv' /\ MountInv' /\ ReadyInv'
  <2>1. /\ stall \in Nat /\ delay \in Nat /\ age \in Nat /\ elapsed \in Nat
        /\ {StepTime, SettleTime, MaxStall, EjectLimit, MountBy, ReadyLimit} \subseteq Nat
    BY DEF TypeOK, ClockOK
  <2>2. (Told /\ head = 0 /\ name # none) \/ Ejected \/ (Mounted /\ motor /\ ~ready /\ name # none)
        => age' = age + 1
    BY DEF Obligation, Told, Ejected, Mounted, none
  <2>3. EjectInv'
    BY <1>0, <2>1, <2>2 DEF TypeOK, ThreadOK, EjectInv, ChangeInv, DelayInv, Told
  <2>4. MountInv'
    <3>1. /\ pc' = pc /\ dskchg' = dskchg /\ (Ejected <=> Ejected') /\ (Mounted <=> Mounted')
          /\ Ejected => age' = age + 1
      BY <2>2 DEF Ejected, Mounted
    <3>2. CASE delay = 0
      <4>1. delay' = 0 /\ (pc # "idle" => stall' = stall + 1)
        BY <3>2
      <4> HIDE DEF Tick
      <4>2. QED
        BY <1>0, <2>1, <3>1, <3>2, <4>1 DEF MountInv
    <3>3. CASE delay > 0
      <4>1. delay' = delay - 1 /\ stall' = 0 /\ stall = 0 /\ pc \notin {"mount_check", "mount_step"}
        BY <2>1, <3>3 DEF DelayInv
      <4> HIDE DEF Tick
      <4>2. QED
        BY <1>0, <2>1, <3>1, <3>3, <4>1 DEF MountInv
    <3>4. QED
      BY <2>1, <3>2, <3>3
  <2>5. ReadyInv'
    BY <1>0, <2>1, <2>2 DEF ReadyInv, ChangeInv, DelayInv, Mounted, Ejected
  <2>6. QED
    BY <2>3, <2>4, <2>5
<1>6. QED
  BY <1>1, <1>2, <1>3, <1>4, <1>5

LEMMA IRQKeeps ==
  ASSUME IInv, IRQ_DSKCHG_changed
  PROVE  IInv'
<1> USE CylAssumption, TimeAssumption, ImageAssumption DEF IInv, IRQ_DSKCHG_changed,
        thread, device, clock, Waits, Seeks, Calm, trk0
<1>1. TypeOK'
  <2>1. ThreadOK'
    BY DEF TypeOK, ThreadOK, DeviceOK
  <2>2. DeviceOK'
    BY DEF TypeOK, DeviceOK
  <2>3. ClockOK'
    BY DEF TypeOK, ClockOK
  <2>4. QED
    BY <2>1, <2>2, <2>3 DEF TypeOK
<1>2. HeadInv' /\ DelayInv' /\ NoBug'
  BY InTimeAssumption, MountDue DEF TypeOK, ThreadOK, DeviceOK, ClockOK, HeadInv, DelayInv, NoBug, ChangeInv, EjectInv, MountInv, ReadyInv, Told, Ejected, Mounted
<1>3. CalmInv' /\ ChangeInv'
  BY DEF TypeOK, ThreadOK, DeviceOK, ClockOK, HeadInv, CalmInv, ChangeInv, Told, Ejected, Mounted
<1>4. AgeInv'
  BY DEF TypeOK, ThreadOK, DeviceOK, ClockOK, AgeInv, Obligation, DueBy
<1>5. EjectInv' /\ MountInv' /\ ReadyInv'
  BY InTimeAssumption, EjectDue, MountDue, ReadyDue DEF TypeOK, ThreadOK, DeviceOK, ClockOK, CalmInv, ChangeInv, DelayInv, EjectInv, MountInv, ReadyInv, Obligation, Told, Ejected, Mounted
<1>6. QED
  BY <1>1, <1>2, <1>3, <1>4, <1>5

LEMMA InitInv == Init => IInv
<1> SUFFICES ASSUME Init PROVE IInv
  OBVIOUS
<1> USE CylAssumption, TimeAssumption, ImageAssumption DEF Init, Waits, Seeks, Calm
<1>1. TypeOK
  <2>1. ThreadOK
    BY DEF ThreadOK
  <2>2. DeviceOK
    BY DEF DeviceOK
  <2>3. ClockOK
    BY DEF ClockOK
  <2>4. QED
    BY <2>1, <2>2, <2>3 DEF TypeOK
<1>2. HeadInv /\ CalmInv /\ ChangeInv /\ DelayInv
  BY DEF HeadInv, CalmInv, ChangeInv, DelayInv
<1>3. AgeInv
  BY DEF AgeInv, DueBy
<1>4. EjectInv /\ MountInv /\ ReadyInv
  BY DEF EjectInv, MountInv, ReadyInv
<1>5. QED
  BY <1>1, <1>2, <1>3, <1>4 DEF IInv, NoBug

\* No step of the thread, the device, the interrupt or the clock breaks the
\* invariant.
LEMMA NextInv == IInv /\ [Next]_vars => IInv'
<1> SUFFICES ASSUME IInv, [Next]_vars PROVE IInv'
  OBVIOUS
<1>1. CASE Thread
  <2>1. CASE floppy_disk_change
    BY <1>1, <2>1, ResetCountKeeps, ReturnTo0Keeps, EjectStampKeeps, EjectPollKeeps,
       EjectCheckKeeps, MountStampKeeps, MountPollKeeps, MountCheckKeeps, MountStepKeeps,
       MotorOnKeeps, ReadyPollKeeps, ReadyCheckKeeps, ChangedKeeps
       DEF Thread, floppy_disk_change
  <2>2. QED
    BY <1>1, <2>1, FindTrack0Keeps, Seek0Keeps, SeekKeeps, SelectNameKeeps, OffPollKeeps,
       OffAgainKeeps, OnPollKeeps DEF Thread
<1>2. CASE Call
  BY <1>2, SelectKeeps, MotorOffKeeps, SeekCallKeeps, SelectImageKeeps DEF Call
<1>3. CASE Device \/ IRQ_DSKCHG_changed \/ Tick
  BY <1>3, EjectKeeps, MountKeeps, SpinUpKeeps, SpinDownKeeps, IRQKeeps, TickKeeps DEF Device
<1>4. CASE UNCHANGED vars
  <2>1. /\ UNCHANGED <<pc, ret, cyl, target, name, bug, count, motor, head, image, command,
                       dskchg, ready, edge, elapsed, delay, stall, age>>
    BY <1>4 DEF vars, thread, device, clock
  <2>2. TypeOK' /\ HeadInv' /\ CalmInv' /\ DelayInv' /\ NoBug'
    BY <2>1 DEF IInv, TypeOK, ThreadOK, DeviceOK, ClockOK, HeadInv, CalmInv, DelayInv, NoBug
  <2>3. ChangeInv' /\ EjectInv'
    BY <2>1 DEF IInv, ChangeInv, EjectInv, Told, Ejected, Mounted
  <2>4. AgeInv' /\ MountInv' /\ ReadyInv'
    BY <2>1 DEF IInv, AgeInv, MountInv, ReadyInv, Obligation, DueBy, trk0, Ejected, Mounted
  <2>5. QED
    BY <2>2, <2>3, <2>4 DEF IInv
<1>5. QED
  BY <1>1, <1>2, <1>3, <1>4 DEF Next

\* The invariant behind the properties of drive control holds throughout.
THEOREM Inductive == Spec => []IInv
<1>1. QED
  BY InitInv, NextInv, PTL DEF Spec

\* floppy_seek(), the search for track 0 and the steps of the disk-change loop
\* leave drive[0].cyl where the head is, for any number of cylinders.
THEOREM CylIsAlwaysHead == Spec => []CylIsHead
<1>1. IInv => CylIsHead
  BY DEF IInv, HeadInv, CylIsHead
<1>2. QED
  BY <1>1, Inductive, PTL

\* floppy_disk_change() returns with the image in the drive that
\* da_select_image() asked for, whatever the times of the device are.
THEOREM ChangeIsComplete == Spec => []ChangeComplete
<1>1. IInv => ChangeComplete
  BY DEF IInv, HeadInv, ChangeInv, Mounted, Waits, ChangeComplete
<1>2. QED
  BY <1>1, Inductive, PTL

\* The time-outs of floppy_disk_change() are long enough for every device and
\* every stall of the thread within InTimeAssumption.
THEOREM NoBugFires == Spec => []NoBug
<1>1. IInv => NoBug
  BY DEF IInv
<1>2. QED
  BY <1>1, Inductive, PTL

(***************************************************************************)
(* The display.  A chip in step has as many bits of the byte as the driver *)
(* has given clocks.  A chip that has missed a clock or the start          *)
(* condition of the attempt is out of step, and does not hold DAT where    *)
(* the driver looks for the acknowledgement.                               *)
(***************************************************************************)
\* Where the driver is.
InByte  == {"bit1", "bit2", "ack", "bit3"}
Ending  == {"stop1", "stop2", "stop3"}
Stages  == {"init1", "init2", "idle", "start1", "start2", "start3", "returned"}
             \cup InByte \cup Ending

Texts    == {Update(d) : d \in [1 .. 3 -> 0 .. 255]}
Settings == {Cmd(\h80), Cmd(\h89)}
Probe    == Cmd(\h40)

\* What is transferred, and what was accepted: nothing before the first command of
\* led_7seg_init().
CallInv ==
  /\ stage \in Stages
  /\ script \in {<<>>, <<Cmd(\h89)>>, <<Update(Blank), Cmd(\h89)>>}
  /\ stage # "idle" => bytes \in Texts \cup Settings \cup {Probe}
  /\ stage = "idle" => bytes = <<>>
  /\ text \in Texts \cup {Unknown} /\ on \in Settings \cup {Unknown}
  /\ bytes = Probe => text = Unknown /\ on = Unknown

DriverInv ==
  /\ fail \in BOOLEAN /\ retry \in 0 .. 3 /\ missed \in 0 .. retry + 1 /\ faults \in Nat
  /\ stage \in {"init1", "init2"} => bytes = Probe /\ retry = 0
  /\ stage = "returned" => retry > 0
  /\ stage \notin {"idle", "returned"} => retry < 3
  /\ stage \in InByte => y \in 1 .. 511 /\ k \in 0 .. Len(bytes) - 1
  /\ stage = "ack" => y = 1
  /\ stage = "stop1" => y = 0

\* The level that the driver leaves on DAT.
WireInv ==
  /\ dat \in {0, 1}
  /\ stage \in {"init1", "init2", "idle", "start1", "start2", "start3", "ack",
                "returned"} => dat = 1
  /\ stage \in Ending => dat = 0
  /\ stage = "bit3" => dat = IF y = 1 THEN 0 ELSE y % 2

\* The level of CLK that the chip knows: only a pulse of this attempt can be missing.
PulseInv ==
  present =>
    IF stage \in {"bit2", "ack", "bit3", "start2", "stop2"} THEN seen = 0
    ELSE seen = 1 \/ (stage \in {"bit1", "stop1"} /\ missed = retry + 1)

\* The chip's own state: it acknowledges between bytes, within a transfer.
ChipTypes ==
  /\ present \in BOOLEAN /\ seen \in {0, 1} /\ live \in BOOLEAN /\ pull \in BOOLEAN
  /\ bits \in Seq({0, 1}) /\ Len(bits) \in 0 .. 8
  /\ nr \in 0 .. 2 /\ addr \in 1 .. 5 /\ segs \in [1 .. 4 -> 0 .. 255] /\ lit \in BOOLEAN

ChipInv ==
  /\ ChipTypes
  /\ pull => live /\ bits = <<>>
  /\ ~live => bits = <<>>
  /\ seen = 0 /\ ~pull => Len(bits) # 8
  /\ ~present => ~live

\* "If not, we must assume no LED controller is attached."
AbsentInv == ~present => fail /\ text = Unknown /\ on = Unknown

\* The first attempt finds the chip in any state; each later one finds it after
\* its stop condition, or still acknowledging.
First == bytes = Probe /\ retry = 0
StaleInv ==
  /\ pull /\ nr = 0 => First /\ stage \in {"init1", "init2", "start1"}
  /\ live /\ ~First =>
       /\ stage \in {"idle", "start1", "returned"} => pull
       /\ stage = "start2" => ~pull /\ Len(bits) = 0 /\ nr > 0
       /\ stage = "start3" => ~pull /\ Len(bits) = 1 /\ nr > 0

\* How many of the clocks of the byte have been given; 9 at the stop condition.
Clocks(n) == IF n >= 256 THEN 0 ELSE IF n >= 128 THEN 1 ELSE IF n >= 64 THEN 2
             ELSE IF n >= 32 THEN 3 ELSE IF n >= 16 THEN 4 ELSE IF n >= 8 THEN 5
             ELSE IF n >= 4 THEN 6 ELSE IF n >= 2 THEN 7 ELSE IF n = 1 THEN 8 ELSE 9
InStep == live /\ IF pull THEN IF seen = 1 THEN Clocks(y) \in {0, 9} ELSE Clocks(y) = 8
                  ELSE Len(bits) = Clocks(y)

\* Only a fault of this attempt puts chip and driver out of step.
SyncInv == stage \in InByte /\ present /\ missed # retry + 1 => InStep

\* The bits that have arrived and those still to send make the byte, and 256 to
\* mark its end.
Bit(b, i) == IF i <= Len(b) THEN b[i] ELSE 0
Low(b)  == Bit(b, 1) + 2 * Bit(b, 2) + 4 * Bit(b, 3) + 8 * Bit(b, 4) + 16 * Bit(b, 5)
           + 32 * Bit(b, 6) + 64 * Bit(b, 7) + 128 * Bit(b, 8)
Scale(i) == CASE i = 0 -> 1 [] i = 1 -> 2 [] i = 2 -> 4 [] i = 3 -> 8 [] i = 4 -> 16
            [] i = 5 -> 32 [] i = 6 -> 64 [] i = 7 -> 128 [] OTHER -> 256
ValueInv == stage \in InByte /\ InStep /\ Len(bits) = Clocks(y) =>
              Low(bits) + Scale(Len(bits)) * y = bytes[k + 1] + 256

\* r bytes of the attempt have arrived.
Got(r) ==
  /\ nr = IF r < 2 THEN r ELSE 2
  /\ addr = IF Len(bytes) = 5 /\ r > 0 THEN r ELSE 5
  /\ Len(bytes) = 5 => \A j \in 1 .. 4 : j < r => segs[j] = bytes[j + 1]
  /\ Len(bytes) = 1 /\ r > 0 => (lit <=> bytes = Cmd(\h89))
GotInv == stage \in InByte /\ InStep /\ bytes # Probe =>
            Got(IF pull /\ seen = 0 THEN k + 1 ELSE k)

\* A chip that missed one pulse of the first byte after its start condition is one bit
\* short; the low level of the stop condition makes the last one 0, and the byte
\* neither an address nor a setting.
LateInv ==
  stage \in InByte \cup {"stop1"} /\ live /\ ~InStep /\ nr = 0 /\ bytes # Probe =>
    /\ ~pull /\ k = 0 /\ Clocks(y) = Len(bits) + 1
    /\ stage = "stop1" => bits[8] = 0

\* The driver takes for an acknowledgement what the chip gives as one.
AckInv ==
  /\ stage = "bit3" /\ y = 1 => (fail <=> ~pull)
  /\ stage \in Ending /\ present /\ fail => missed = retry + 1
  /\ stage = "stop1" /\ ~fail => bits = <<>>

\* What an attempt without failure, or an accepted call, has left in the chip.
Shows(b) ==
  /\ Len(b) = 5 => addr = 5 /\ \A j \in 1 .. 3 : segs[j] = b[j + 1]
  /\ Len(b) = 1 /\ b # Probe => (lit <=> b = Cmd(\h89))

ShownInv ==
  /\ stage \in Ending \cup {"returned"} /\ ~fail => present /\ Shows(bytes)
  /\ text # Unknown /\ Len(bytes) # 5 => present /\ Shows(text)
  /\ on # Unknown /\ Len(bytes) # 1 => present /\ Shows(on)

\* An attempt that fails has had a fault of its own.
CountInv ==
  /\ present /\ stage \notin {"idle", "returned"} =>
       faults >= IF missed = retry + 1 THEN retry + 1 ELSE retry
  /\ present /\ stage = "returned" /\ fail => faults >= 3

LedInv ==
  /\ CallInv /\ DriverInv /\ WireInv /\ PulseInv /\ ChipInv /\ AbsentInv /\ StaleInv
  /\ SyncInv /\ ValueInv /\ GotInv /\ LateInv /\ AckInv /\ ShownInv /\ CountInv

(***************************************************************************)
(* Lemmas about bytes, and about the bits and clocks of one.               *)
(***************************************************************************)
LEMMA CmdFacts ==
  ASSUME NEW c \in 0 .. 255
  PROVE  Len(Cmd(c)) = 1 /\ Cmd(c)[1] = c
BY DEF Cmd

LEMMA LenFacts == \A d \in Seq(0 .. 255) : Len(d) \in Nat /\ DOMAIN d = 1 .. Len(d)
BY LenProperties

LEMMA JoinFacts ==
  ASSUME NEW a \in Seq(0 .. 255), NEW b \in Seq(0 .. 255)
  PROVE  /\ a \o b \in Seq(0 .. 255) /\ Len(a \o b) = Len(a) + Len(b)
         /\ \A i \in 1 .. Len(a) + Len(b) :
              (a \o b)[i] = IF i <= Len(a) THEN a[i] ELSE b[i - Len(a)]
BY ConcatProperties

LEMMA UpdateFacts ==
  ASSUME NEW d \in [1 .. 3 -> 0 .. 255]
  PROVE  /\ Len(Update(d)) = 5
         /\ Update(d)[1] = 192 /\ Update(d)[5] = 0
         /\ \A j \in 1 .. 3 : Update(d)[j + 1] = d[j]
<1>1. d \in Seq(0 .. 255) /\ Len(d) = 3
  <2>1. d \in UNION {[1 .. n -> 0 .. 255] : n \in Nat}
    OBVIOUS
  <2>2. d \in Seq(0 .. 255)
    BY <2>1, SeqDef
  <2>3. Len(d) \in Nat /\ DOMAIN d = 1 .. Len(d)
    BY <2>2, LenFacts
  <2>4. DOMAIN d = 1 .. 3
    OBVIOUS
  <2> QED
    BY <2>2, <2>3, <2>4
<1>2. /\ <<192>> \in Seq(0 .. 255) /\ Len(<<192>>) = 1 /\ <<192>>[1] = 192
      /\ <<0>> \in Seq(0 .. 255) /\ Len(<<0>>) = 1 /\ <<0>>[1] = 0
  OBVIOUS
<1> DEFINE h == <<192>>
           z == <<0>>
           e == h \o d
<1>3. Update(d) = e \o z
  BY DEF Update
<1> HIDE DEF h, z, e
<1>4. /\ e \in Seq(0 .. 255) /\ Len(e) = Len(h) + Len(d)
      /\ \A i \in 1 .. Len(h) + Len(d) : e[i] = IF i <= Len(h) THEN h[i] ELSE d[i - Len(h)]
  <2>1. h \in Seq(0 .. 255)
    BY <1>2 DEF h
  <2> QED
    BY <1>1, <2>1, JoinFacts DEF e
<1>5. Len(e) = 4 /\ e[1] = 192 /\ \A j \in 1 .. 3 : e[j + 1] = d[j]
  BY <1>1, <1>2, <1>4 DEF h
<1>6. /\ Len(e \o z) = Len(e) + Len(z)
      /\ \A i \in 1 .. Len(e) + Len(z) : (e \o z)[i] = IF i <= Len(e) THEN e[i] ELSE z[i - Len(e)]
  BY <1>2, <1>4, JoinFacts DEF z
<1> QED
  BY <1>2, <1>3, <1>5, <1>6 DEF z

LEMMA GlyphFacts == \A c : Glyph(c) \in 0 .. 255
BY DEF Glyph, digits, letters

LEMMA SegmentsFacts == \A s : Segments(s) \in [1 .. 3 -> 0 .. 255]
BY GlyphFacts DEF Segments

\* What can be transferred.
LEMMA BytesFacts ==
  \A b \in Texts \cup Settings \cup {Probe} :
    /\ Len(b) \in {1, 5}
    /\ b \in Texts <=> Len(b) = 5
    /\ b \in Texts => b[1] = 192
    /\ b \in Settings => b[1] \in {128, 137} /\ (b = Cmd(\h89) <=> b[1] = 137)
    /\ b \in Settings <=> Len(b) = 1 /\ b # Probe
<1>1. \A c \in {\h80, \h89, \h40} : Len(Cmd(c)) = 1 /\ Cmd(c)[1] = c
  BY CmdFacts
<1>2. ASSUME NEW b \in Texts
      PROVE  Len(b) = 5 /\ b[1] = 192 /\ b \notin Settings /\ b # Probe
  <2>1. Len(b) = 5 /\ b[1] = 192
    BY UpdateFacts DEF Texts
  <2> QED
    BY <1>1, <2>1 DEF Settings, Probe
<1>3. ASSUME NEW b \in Settings \cup {Probe}
      PROVE  /\ Len(b) = 1 /\ b[1] \in {\h80, \h89, \h40} /\ b \notin Texts
             /\ b \in Settings <=> b # Probe
             /\ b \in Settings => b[1] \in {128, 137} /\ (b = Cmd(\h89) <=> b[1] = 137)
  <2>1. Len(b) = 1 /\ b[1] \in {\h80, \h89, \h40}
    BY <1>1 DEF Settings, Probe
  <2>2. b \notin Texts
    BY <1>2, <2>1
  <2>3. b \in Settings <=> b # Probe
    BY <1>1 DEF Settings, Probe
  <2>4. b \in Settings => b[1] \in {128, 137} /\ (b = Cmd(\h89) <=> b[1] = 137)
    BY <1>1 DEF Settings
  <2> QED
    BY <2>1, <2>2, <2>3, <2>4
<1> QED
  BY <1>2, <1>3

LEMMA ByteFacts ==
  \A b \in Texts \cup Settings \cup {Probe} :
    Len(b) \in {1, 5} /\ b[1] \in 0 .. 255 /\ \A i \in 1 .. Len(b) : b[i] \in 0 .. 255
<1>1. ASSUME NEW b \in Texts
      PROVE  Len(b) = 5 /\ b[1] = 192 /\ \A i \in 1 .. Len(b) : b[i] \in 0 .. 255
  <2>1. PICK d \in [1 .. 3 -> 0 .. 255] : b = Update(d)
    BY DEF Texts
  <2>2. Len(b) = 5 /\ b[1] = 192 /\ b[5] = 0 /\ \A j \in 1 .. 3 : b[j + 1] = d[j]
    BY <2>1, UpdateFacts
  <2>3. b[2] = d[1] /\ b[3] = d[2] /\ b[4] = d[3]
    BY <2>2
  <2> QED
    BY <2>2, <2>3
<1>2. ASSUME NEW b \in Settings \cup {Probe}
      PROVE  Len(b) = 1 /\ b[1] \in 0 .. 255 /\ \A i \in 1 .. Len(b) : b[i] \in 0 .. 255
  <2>1. Len(b) = 1 /\ b[1] \in 0 .. 255
    BY CmdFacts DEF Settings, Probe
  <2> QED
    BY <2>1
<1>3. ASSUME NEW b \in Texts \cup Settings \cup {Probe}
      PROVE  Len(b) \in {1, 5} /\ b[1] \in 0 .. 255 /\ \A i \in 1 .. Len(b) : b[i] \in 0 .. 255
  <2>1. CASE b \in Texts
    BY <1>1, <2>1
  <2>2. CASE b \in Settings \cup {Probe}
    BY <1>2, <2>2
  <2> QED
    BY <2>1, <2>2
<1> QED
  BY <1>3

LEMMA CallFacts == \A b \in Texts \cup Settings : b # Probe /\ b # <<>>
<1> SUFFICES ASSUME NEW b \in Texts \cup Settings PROVE b # Probe /\ b # <<>>
  OBVIOUS
<1>1. b \in Texts \cup Settings \cup {Probe}
  OBVIOUS
<1>2. /\ b \in Texts <=> Len(b) = 5
      /\ b \in Settings <=> Len(b) = 1 /\ b # Probe
  BY <1>1, BytesFacts
<1>3. Len(Probe) = 1 /\ Len(<<>>) = 0
  BY DEF Probe, Cmd
<1> QED
  BY <1>2, <1>3

LEMMA HalfFacts ==
  ASSUME NEW n \in Nat
  PROVE  n \div 2 \in Nat /\ n % 2 \in {0, 1} /\ n = 2 * (n \div 2) + (n % 2)
<1>1. n \div 2 \in Nat /\ n % 2 \in {0, 1}
  OBVIOUS
<1>2. n = 2 * (n \div 2) + (n % 2)
  OBVIOUS
<1> QED
  BY <1>1, <1>2

LEMMA ClocksFacts ==
  /\ \A n \in 1 .. 511 : Clocks(n) \in 0 .. 8 /\ (Clocks(n) = 8 <=> n = 1)
  /\ \A x \in 0 .. 255 : x + 256 \in 1 .. 511 /\ Clocks(x + 256) = 0
  /\ Clocks(0) = 9
<1>1. \A n \in 1 .. 511 : Clocks(n) \in 0 .. 8 /\ (Clocks(n) = 8 <=> n = 1)
  <2>1. ASSUME NEW n \in 1 .. 511 PROVE Clocks(n) \in 0 .. 8
    BY DEF Clocks
  <2>2. Clocks(1) = 8
    BY DEF Clocks
  <2>3. ASSUME NEW n \in 2 .. 511 PROVE Clocks(n) # 8
    BY SMTT(30) DEF Clocks
  <2> QED
    BY <2>1, <2>2, <2>3
<1>2. \A x \in 0 .. 255 : x + 256 \in 1 .. 511 /\ Clocks(x + 256) = 0
  BY DEF Clocks
<1>3. Clocks(0) = 9
  BY DEF Clocks
<1> QED
  BY <1>1, <1>2, <1>3

LEMMA HalfClocks ==
  ASSUME NEW n \in 1 .. 511, n # 1
  PROVE  n \div 2 \in 1 .. 511 /\ Clocks(n \div 2) = Clocks(n) + 1
<1> DEFINE w == n % 2
           m == n \div 2
<1>1. w \in {0, 1} /\ m \in Nat /\ n = 2 * m + w
  BY HalfFacts
<1> HIDE DEF w, m
<1>2. m \in 1 .. 511 /\ Clocks(m) = Clocks(n) + 1
  BY <1>1 DEF Clocks
<1> QED
  BY <1>2 DEF m

LEMMA BitsFacts == \A b \in Seq({0, 1}) : Len(b) \in Nat /\ (Len(b) = 0 <=> b = <<>>)
BY EmptySeq, LenProperties

\* One more bit, and half of what is left.
LEMMA AppendFacts ==
  ASSUME NEW b \in Seq({0, 1}), Len(b) \in 0 .. 7,
         NEW n \in Nat, NEW w \in 0 .. 1, NEW m \in Nat, n = 2 * m + w,
         NEW c \in Nat, Low(b) + Scale(Len(b)) * n = c
  PROVE  Low(Append(b, w)) + Scale(Len(b) + 1) * m = c
<1> DEFINE a == Append(b, w)
<1>1. Len(b) \in 0 .. 7
  OBVIOUS
<1>2. \A i \in 1 .. Len(b) : b[i] \in {0, 1}
  BY ElementOfSeq
<1>3. Len(a) = Len(b) + 1 /\ (\A i \in 1 .. Len(b) : a[i] = b[i]) /\ a[Len(b) + 1] = w
  BY AppendProperties
<1> SUFFICES Low(a) + Scale(Len(b) + 1) * m = c
  OBVIOUS
<1> HIDE DEF a
<1>4. \A i \in 1 .. 8 : Bit(b, i) \in 0 .. 1 /\ (i > Len(b) => Bit(b, i) = 0)
  BY <1>1, <1>2 DEF Bit
<1>5. \A i \in 1 .. 8 : Bit(a, i) = IF i = Len(b) + 1 THEN w ELSE Bit(b, i)
  BY <1>1, <1>2, <1>3 DEF Bit
<1>6. PICK x1 \in 0 .. 1, x2 \in 0 .. 1, x3 \in 0 .. 1, x4 \in 0 .. 1,
           x5 \in 0 .. 1, x6 \in 0 .. 1, x7 \in 0 .. 1, x8 \in 0 .. 1 :
        /\ Bit(b, 1) = x1 /\ Bit(b, 2) = x2 /\ Bit(b, 3) = x3 /\ Bit(b, 4) = x4
        /\ Bit(b, 5) = x5 /\ Bit(b, 6) = x6 /\ Bit(b, 7) = x7 /\ Bit(b, 8) = x8
  BY <1>4
<1>7. CASE Len(b) = 0
  <2>1. /\ Bit(a, 1) = w /\ Bit(a, 2) = x2 /\ Bit(a, 3) = x3 /\ Bit(a, 4) = x4
        /\ Bit(a, 5) = x5 /\ Bit(a, 6) = x6 /\ Bit(a, 7) = x7 /\ Bit(a, 8) = x8
        /\ x1 = 0
    BY <1>4, <1>5, <1>6, <1>7
  <2>2. x1 + 2 * x2 + 4 * x3 + 8 * x4 + 16 * x5 + 32 * x6 + 64 * x7 + 128 * x8
        + 1 * n = c
    BY <1>6, <1>7 DEF Low, Scale
  <2>3. w + 2 * x2 + 4 * x3 + 8 * x4 + 16 * x5 + 32 * x6 + 64 * x7 + 128 * x8
        + 2 * m = c
    BY <2>1, <2>2
  <2> QED
    BY <1>7, <2>1, <2>3 DEF Low, Scale
<1>8. CASE Len(b) = 1
  <2>1. /\ Bit(a, 1) = x1 /\ Bit(a, 2) = w /\ Bit(a, 3) = x3 /\ Bit(a, 4) = x4
        /\ Bit(a, 5) = x5 /\ Bit(a, 6) = x6 /\ Bit(a, 7) = x7 /\ Bit(a, 8) = x8
        /\ x2 = 0
    BY <1>4, <1>5, <1>6, <1>8
  <2>2. x1 + 2 * x2 + 4 * x3 + 8 * x4 + 16 * x5 + 32 * x6 + 64 * x7 + 128 * x8
        + 2 * n = c
    BY <1>6, <1>8 DEF Low, Scale
  <2>3. x1 + 2 * w + 4 * x3 + 8 * x4 + 16 * x5 + 32 * x6 + 64 * x7 + 128 * x8
        + 4 * m = c
    BY <2>1, <2>2
  <2> QED
    BY <1>8, <2>1, <2>3 DEF Low, Scale
<1>9. CASE Len(b) = 2
  <2>1. /\ Bit(a, 1) = x1 /\ Bit(a, 2) = x2 /\ Bit(a, 3) = w /\ Bit(a, 4) = x4
        /\ Bit(a, 5) = x5 /\ Bit(a, 6) = x6 /\ Bit(a, 7) = x7 /\ Bit(a, 8) = x8
        /\ x3 = 0
    BY <1>4, <1>5, <1>6, <1>9
  <2>2. x1 + 2 * x2 + 4 * x3 + 8 * x4 + 16 * x5 + 32 * x6 + 64 * x7 + 128 * x8
        + 4 * n = c
    BY <1>6, <1>9 DEF Low, Scale
  <2>3. x1 + 2 * x2 + 4 * w + 8 * x4 + 16 * x5 + 32 * x6 + 64 * x7 + 128 * x8
        + 8 * m = c
    BY <2>1, <2>2
  <2> QED
    BY <1>9, <2>1, <2>3 DEF Low, Scale
<1>10. CASE Len(b) = 3
  <2>1. /\ Bit(a, 1) = x1 /\ Bit(a, 2) = x2 /\ Bit(a, 3) = x3 /\ Bit(a, 4) = w
        /\ Bit(a, 5) = x5 /\ Bit(a, 6) = x6 /\ Bit(a, 7) = x7 /\ Bit(a, 8) = x8
        /\ x4 = 0
    BY <1>4, <1>5, <1>6, <1>10
  <2>2. x1 + 2 * x2 + 4 * x3 + 8 * x4 + 16 * x5 + 32 * x6 + 64 * x7 + 128 * x8
        + 8 * n = c
    BY <1>6, <1>10 DEF Low, Scale
  <2>3. x1 + 2 * x2 + 4 * x3 + 8 * w + 16 * x5 + 32 * x6 + 64 * x7 + 128 * x8
        + 16 * m = c
    BY <2>1, <2>2
  <2> QED
    BY <1>10, <2>1, <2>3 DEF Low, Scale
<1>11. CASE Len(b) = 4
  <2>1. /\ Bit(a, 1) = x1 /\ Bit(a, 2) = x2 /\ Bit(a, 3) = x3 /\ Bit(a, 4) = x4
        /\ Bit(a, 5) = w /\ Bit(a, 6) = x6 /\ Bit(a, 7) = x7 /\ Bit(a, 8) = x8
        /\ x5 = 0
    BY <1>4, <1>5, <1>6, <1>11
  <2>2. x1 + 2 * x2 + 4 * x3 + 8 * x4 + 16 * x5 + 32 * x6 + 64 * x7 + 128 * x8
        + 16 * n = c
    BY <1>6, <1>11 DEF Low, Scale
  <2>3. x1 + 2 * x2 + 4 * x3 + 8 * x4 + 16 * w + 32 * x6 + 64 * x7 + 128 * x8
        + 32 * m = c
    BY <2>1, <2>2
  <2> QED
    BY <1>11, <2>1, <2>3 DEF Low, Scale
<1>12. CASE Len(b) = 5
  <2>1. /\ Bit(a, 1) = x1 /\ Bit(a, 2) = x2 /\ Bit(a, 3) = x3 /\ Bit(a, 4) = x4
        /\ Bit(a, 5) = x5 /\ Bit(a, 6) = w /\ Bit(a, 7) = x7 /\ Bit(a, 8) = x8
        /\ x6 = 0
    BY <1>4, <1>5, <1>6, <1>12
  <2>2. x1 + 2 * x2 + 4 * x3 + 8 * x4 + 16 * x5 + 32 * x6 + 64 * x7 + 128 * x8
        + 32 * n = c
    BY <1>6, <1>12 DEF Low, Scale
  <2>3. x1 + 2 * x2 + 4 * x3 + 8 * x4 + 16 * x5 + 32 * w + 64 * x7 + 128 * x8
        + 64 * m = c
    BY <2>1, <2>2
  <2> QED
    BY <1>12, <2>1, <2>3 DEF Low, Scale
<1>13. CASE Len(b) = 6
  <2>1. /\ Bit(a, 1) = x1 /\ Bit(a, 2) = x2 /\ Bit(a, 3) = x3 /\ Bit(a, 4) = x4
        /\ Bit(a, 5) = x5 /\ Bit(a, 6) = x6 /\ Bit(a, 7) = w /\ Bit(a, 8) = x8
        /\ x7 = 0
    BY <1>4, <1>5, <1>6, <1>13
  <2>2. x1 + 2 * x2 + 4 * x3 + 8 * x4 + 16 * x5 + 32 * x6 + 64 * x7 + 128 * x8
        + 64 * n = c
    BY <1>6, <1>13 DEF Low, Scale
  <2>3. x1 + 2 * x2 + 4 * x3 + 8 * x4 + 16 * x5 + 32 * x6 + 64 * w + 128 * x8
        + 128 * m = c
    BY <2>1, <2>2
  <2> QED
    BY <1>13, <2>1, <2>3 DEF Low, Scale
<1>14. CASE Len(b) = 7
  <2>1. /\ Bit(a, 1) = x1 /\ Bit(a, 2) = x2 /\ Bit(a, 3) = x3 /\ Bit(a, 4) = x4
        /\ Bit(a, 5) = x5 /\ Bit(a, 6) = x6 /\ Bit(a, 7) = x7 /\ Bit(a, 8) = w
        /\ x8 = 0
    BY <1>4, <1>5, <1>6, <1>14
  <2>2. x1 + 2 * x2 + 4 * x3 + 8 * x4 + 16 * x5 + 32 * x6 + 64 * x7 + 128 * x8
        + 128 * n = c
    BY <1>6, <1>14 DEF Low, Scale
  <2>3. x1 + 2 * x2 + 4 * x3 + 8 * x4 + 16 * x5 + 32 * x6 + 64 * x7 + 128 * w
        + 256 * m = c
    BY <2>1, <2>2
  <2> QED
    BY <1>14, <2>1, <2>3 DEF Low, Scale
<1> QED
  BY <1>1, <1>7, <1>8, <1>9, <1>10, <1>11, <1>12, <1>13, <1>14

LEMMA ValueFacts ==
  ASSUME NEW b \in Seq({0, 1}), Len(b) = 8
  PROVE  Value(b) = Low(b) /\ Value(b) \in 0 .. 255 /\ (b[8] = 0 => Value(b) < 128)
<1>1. \A i \in 1 .. 8 : b[i] \in 0 .. 1
  <2>1. \A i \in 1 .. Len(b) : b[i] \in {0, 1}
    BY ElementOfSeq
  <2> QED
    BY <2>1
<1>2. PICK x1 \in 0 .. 1, x2 \in 0 .. 1, x3 \in 0 .. 1, x4 \in 0 .. 1,
           x5 \in 0 .. 1, x6 \in 0 .. 1, x7 \in 0 .. 1, x8 \in 0 .. 1 :
        /\ b[1] = x1 /\ b[2] = x2 /\ b[3] = x3 /\ b[4] = x4
        /\ b[5] = x5 /\ b[6] = x6 /\ b[7] = x7 /\ b[8] = x8
  BY <1>1
<1> DEFINE v == x1 + 2 * x2 + 4 * x3 + 8 * x4 + 16 * x5 + 32 * x6 + 64 * x7 + 128 * x8
<1>3. v \in 0 .. 255 /\ (x8 = 0 => v < 128)
  OBVIOUS
<1>4. Value(b) = v
  BY <1>2 DEF Value
<1>5. Low(b) = v
  BY <1>2 DEF Low, Bit
<1> HIDE DEF v
<1> QED
  BY <1>2, <1>3, <1>4, <1>5

LEMMA LowEmpty == Low(<<>>) = 0 /\ Scale(0) = 1 /\ Scale(8) = 256 /\ Len(<<>>) = 0
BY DEF Low, Scale, Bit

(***************************************************************************)
(* The chip's own state stays consistent, whatever happens on the wires.   *)
(***************************************************************************)
LEMMA EmptyBits == <<>> \in Seq({0, 1}) /\ Len(<<>>) = 0
OBVIOUS

LEMMA MoreBits ==
  ASSUME NEW b \in Seq({0, 1}), NEW w \in {0, 1}, NEW n \in Nat, Len(b) = n
  PROVE  Append(b, w) \in Seq({0, 1}) /\ Len(Append(b, w)) = n + 1
BY AppendProperties

LEMMA ReceiveKeeps ==
  ASSUME ChipTypes, NEW v \in 0 .. 255, Receive(v)
  PROVE  /\ nr' \in {1, 2} /\ addr' \in 1 .. 5 /\ segs' \in [1 .. 4 -> 0 .. 255]
         /\ lit' \in BOOLEAN
<1>1. nr' \in {1, 2}
  BY DEF Receive
<1>2. addr' \in 1 .. 5
  BY DEF Receive, ChipTypes
<1>3. segs' \in [1 .. 4 -> 0 .. 255]
  BY DEF Receive, ChipTypes
<1>4. lit' \in BOOLEAN
  BY DEF Receive, ChipTypes
<1> QED
  BY <1>1, <1>2, <1>3, <1>4

\* A chip that has part of a byte is in a transfer.
LEMMA FullFacts == ChipInv /\ Len(bits) # 0 => live /\ ~pull /\ present
<1> SUFFICES ASSUME ChipInv, Len(bits) # 0 PROVE live /\ ~pull /\ present
  OBVIOUS
<1>1. bits # <<>>
  BY EmptyBits
<1> QED
  BY <1>1 DEF ChipInv

LEMMA FallKeeps ==
  ASSUME ChipInv, present, Fall
  PROVE  ChipInv'
<1>1. seen' = 0 /\ present' = present /\ live' = live
  BY DEF Fall
<1>2. ~live => bits = <<>>
  BY DEF ChipInv
<1>3. CASE Len(bits) = 8
  <2>1. pull' = present /\ bits' = <<>> /\ Receive(Value(bits))
    BY <1>3 DEF Fall
  <2>2. live
    BY <1>3, FullFacts
  <2>3. Value(bits) \in 0 .. 255
    BY <1>3, ValueFacts DEF ChipInv, ChipTypes
  <2>4. /\ nr' \in {1, 2} /\ addr' \in 1 .. 5 /\ segs' \in [1 .. 4 -> 0 .. 255]
        /\ lit' \in BOOLEAN
    BY <2>1, <2>3, ReceiveKeeps DEF ChipInv
  <2>5. ChipTypes'
    BY <1>1, <2>1, <2>4, EmptyBits DEF ChipTypes, ChipInv
  <2> QED
    BY <1>1, <2>1, <2>2, <2>5 DEF ChipInv
<1>4. CASE Len(bits) # 8
  <2>1. ~pull' /\ pull' = FALSE /\ UNCHANGED <<bits, nr, addr, segs, lit>>
    BY <1>4 DEF Fall
  <2>2. ChipTypes'
    BY <1>1, <2>1 DEF ChipTypes, ChipInv
  <2> QED
    BY <1>1, <1>4, <2>1, <2>2 DEF ChipInv
<1> QED
  BY <1>3, <1>4

LEMMA RiseKeeps ==
  ASSUME ChipInv, seen = 0, dat \in {0, 1}, Rise
  PROVE  ChipInv'
<1>1. seen' = 1 /\ UNCHANGED <<present, live, pull, nr, addr, segs, lit>>
  BY DEF Rise
<1>2. CASE live /\ ~pull
  <2>1. bits' = Append(bits, dat)
    BY <1>2 DEF Rise, Wire
  <2>2. PICK n \in 0 .. 7 : Len(bits) = n
    BY <1>2 DEF ChipInv, ChipTypes
  <2>3. bits' \in Seq({0, 1}) /\ Len(bits') = n + 1
    BY <2>1, <2>2, MoreBits DEF ChipInv, ChipTypes
  <2>4. Len(bits') \in 0 .. 8
    BY <2>3
  <2>5. ChipTypes'
    BY <1>1, <2>3, <2>4 DEF ChipTypes, ChipInv
  <2> QED
    BY <1>1, <1>2, <2>5 DEF ChipInv
<1>3. CASE ~(live /\ ~pull)
  <2>1. bits' = bits
    BY <1>3 DEF Rise
  <2>2. ChipTypes'
    BY <1>1, <2>1 DEF ChipTypes, ChipInv
  <2> QED
    BY <1>1, <2>1, <2>2 DEF ChipInv
<1> QED
  BY <1>2, <1>3

LEMMA ChipStays == ChipInv /\ UNCHANGED chip => ChipInv'
BY DEF ChipInv, ChipTypes, chip

LEMMA SetClkKeeps ==
  ASSUME ChipInv, dat \in {0, 1}, NEW v \in {0, 1}, SetClk(v)
  PROVE  ChipInv' /\ present' = present
<1>1. CASE present /\ seen # v /\ (IF v = 1 THEN Rise ELSE Fall)
  <2>1. CASE v = 1
    BY <1>1, <2>1, RiseKeeps DEF Rise, ChipInv, ChipTypes
  <2>2. CASE v = 0
    <3>1. present /\ Fall
      BY <1>1, <2>2
    <3> QED
      BY <3>1, FallKeeps DEF Fall
  <2> QED
    BY <2>1, <2>2
<1>2. CASE UNCHANGED chip
  BY <1>2, ChipStays DEF chip
<1> QED
  BY <1>1, <1>2 DEF SetClk

LEMMA SetDatKeeps ==
  ASSUME ChipInv, NEW v \in {0, 1}, SetDat(v)
  PROVE  ChipInv' /\ present' = present
<1>1. UNCHANGED <<present, seen, pull, segs, lit>>
  BY DEF SetDat
<1>2. CASE UNCHANGED <<live, bits, nr, addr>>
  BY <1>1, <1>2 DEF ChipInv, ChipTypes
<1>3. CASE /\ present /\ seen = 1 /\ live' \in BOOLEAN
           /\ ~pull /\ bits' = <<>> /\ nr' = 0 /\ addr' = 5
  <2>1. ChipTypes'
    BY <1>1, <1>3, EmptyBits DEF ChipTypes, ChipInv
  <2> QED
    BY <1>1, <1>3, <2>1 DEF ChipInv
<1>4. CASE /\ present /\ seen = 1 /\ Wire(dat, pull) # Wire(v, pull)
           /\ live' \in BOOLEAN /\ bits' = <<>> /\ nr' = 0 /\ addr' = 5
  <2>1. ~pull
    BY <1>4 DEF Wire
  <2> QED
    BY <1>3, <1>4, <2>1
<1>5. CASE /\ present /\ seen = 1 /\ Wire(dat, pull) = 1 /\ Wire(v, pull) = 0
           /\ live' = TRUE /\ bits' = <<>> /\ nr' = 0 /\ addr' = 5
  BY <1>4, <1>5
<1>6. CASE /\ present /\ seen = 1 /\ Wire(dat, pull) = 0 /\ Wire(v, pull) = 1
           /\ live' = FALSE /\ bits' = <<>> /\ nr' = 0 /\ addr' = 5
  <2>1. live' \in BOOLEAN
    BY <1>6
  <2>2. Wire(dat, pull) # Wire(v, pull)
    BY <1>6
  <2> QED
    BY <1>4, <1>6, <2>1, <2>2
<1> HIDE DEF Wire
<1>7. ChipInv'
  BY <1>2, <1>5, <1>6 DEF SetDat
<1> QED
  BY <1>1, <1>7

(***************************************************************************)
(* The invariant holds at the start and after each step.                   *)
(***************************************************************************)
LEMMA InitLedInv == LedInit => LedInv
<1> SUFFICES ASSUME LedInit PROVE LedInv
  OBVIOUS
<1> USE DEF LedInit
<1>1. bits \in Seq({0, 1}) /\ Len(bits) \in 0 .. 8
  <2>1. CASE live
    <3>1. bits \in Seq({0, 1}) /\ Len(bits) <= 8
      BY <2>1, StringAssumption
    <3> QED
      <4>1. PICK n \in Nat : Len(bits) = n
        BY <3>1, BitsFacts
      <4>2. n <= 8
        BY <3>1, <4>1
      <4> QED
        BY <3>1, <4>1, <4>2
  <2>2. CASE ~live
    BY <2>2, EmptyBits
  <2> QED
    BY <2>1, <2>2
<1>2. CallInv
  BY DEF CallInv, Stages, Probe
<1>3. DriverInv
  BY DEF DriverInv, Probe, InByte
<1>4. WireInv
  BY DEF WireInv, Ending
<1>5. PulseInv
  BY DEF PulseInv
<1>6. ChipInv
  <2>1. ChipTypes
    <3>1. present \in BOOLEAN /\ live \in BOOLEAN /\ pull \in BOOLEAN /\ lit \in BOOLEAN
      OBVIOUS
    <3>2. seen \in {0, 1} /\ nr \in 0 .. 2 /\ addr \in 1 .. 5
      OBVIOUS
    <3>3. segs \in [1 .. 4 -> 0 .. 255]
      OBVIOUS
    <3> QED
      BY <1>1, <3>1, <3>2, <3>3 DEF ChipTypes
  <2>2. ~live => bits = <<>>
    OBVIOUS
  <2>3. pull => live /\ bits = <<>>
    OBVIOUS
  <2>4. ~present => ~live
    OBVIOUS
  <2> QED
    BY <2>1, <2>2, <2>3, <2>4 DEF ChipInv
<1>7. StaleInv
  BY DEF StaleInv, First, Probe
<1>8. SyncInv /\ ValueInv /\ GotInv /\ LateInv
  BY DEF SyncInv, ValueInv, GotInv, LateInv, InByte
<1>9. AckInv /\ CountInv
  BY DEF AckInv, CountInv, Ending
<1>10. ShownInv
  BY DEF ShownInv, Ending
<1>11. AbsentInv
  BY DEF AbsentInv
<1> QED
  BY <1>2, <1>3, <1>4, <1>5, <1>6, <1>7, <1>8, <1>9, <1>10, <1>11 DEF LedInv

LEMMA Start1Keeps == LedInv /\ Start1 => LedInv'
<1> SUFFICES ASSUME LedInv, Start1 PROVE LedInv'
  OBVIOUS
<1> USE DEF LedInv
<1>1. /\ stage = "start1" /\ stage' = "start2" /\ (present => seen = 1)
      /\ UNCHANGED <<script, bytes, k, y, fail, retry, text, on, dat, missed, faults>>
      /\ IF present THEN Fall ELSE UNCHANGED chip
  BY DEF Start1, Only, Go, SetClk, NoFault, Fault, PulseInv, call, tries, asked
<1>2. CallInv' /\ DriverInv' /\ WireInv'
  BY <1>1 DEF CallInv, DriverInv, WireInv, Stages, InByte, Ending
<1>3. PulseInv' /\ CountInv' /\ AbsentInv'
  BY <1>1 DEF PulseInv, CountInv, Fall, chip, AbsentInv
<1>4. ChipInv'
  BY <1>1, FallKeeps, ChipStays
<1>5. /\ present' = present /\ live' = live
       /\ IF present /\ Len(bits) = 8 THEN First /\ pull' /\ bits' = <<>> /\ Receive(Value(bits))
          ELSE ~pull' /\ UNCHANGED <<bits, nr, addr, segs, lit>>
  <2>1. Len(bits) = 8 => live /\ ~pull /\ present
    BY FullFacts
  <2>2. Len(bits) = 8 => First
    BY <1>1, <2>1 DEF StaleInv
  <2>3. ~present => ~pull
    BY DEF ChipInv
  <2> QED
    BY <1>1, <2>1, <2>2, <2>3 DEF Fall, chip, ChipInv
<1>6. StaleInv'
  <2>1. CASE present /\ Len(bits) = 8
    BY <1>1, <1>5, <2>1 DEF StaleInv, First, Receive
  <2>2. CASE ~(present /\ Len(bits) = 8)
    <3>1. live /\ ~First => Len(bits) = 0 /\ nr # 0
      BY <1>1, EmptyBits DEF StaleInv, ChipInv
    <3> QED
      BY <1>1, <1>5, <2>2, <3>1 DEF StaleInv, First, ChipInv, ChipTypes
  <2> QED
    BY <2>1, <2>2
<1>7. SyncInv' /\ ValueInv' /\ GotInv' /\ LateInv' /\ AckInv'
  BY <1>1 DEF SyncInv, ValueInv, GotInv, LateInv, AckInv, InByte, Ending
<1>8. ShownInv'
  <2>1. CASE present /\ Len(bits) = 8
    BY <1>1, <1>5, <2>1 DEF ShownInv, Ending, First, CallInv
  <2>2. CASE ~(present /\ Len(bits) = 8)
    BY <1>1, <1>5, <2>2 DEF ShownInv, Ending, Shows
  <2> QED
    BY <2>1, <2>2
<1> QED
  BY <1>2, <1>3, <1>4, <1>6, <1>7, <1>8

\* A step of the driver that changes nothing but the wires.
LEMMA OnlyFacts ==
  ASSUME NEW from, NEW to, Only(from, to)
  PROVE  /\ stage = from /\ stage' = to
         /\ UNCHANGED <<script, bytes, k, y, fail, retry, text, on>>
BY DEF Only, Go, call, tries, asked

LEMMA Init1Keeps == LedInv /\ Init1 => LedInv'
<1> SUFFICES ASSUME LedInv, Init1 PROVE LedInv'
  OBVIOUS
<1> USE DEF LedInv
<1>1. /\ stage = "init1" /\ stage' = "init2" /\ dat = 1
      /\ UNCHANGED <<script, bytes, k, y, fail, retry, text, on>>
  BY OnlyFacts DEF Init1, WireInv
<1>2. UNCHANGED <<chip, dat, missed, faults>>
  BY <1>1 DEF Init1, SetDat, NoFault, chip, Wire
<1>3. CallInv' /\ DriverInv' /\ WireInv'
  BY <1>1, <1>2 DEF CallInv, DriverInv, WireInv, Stages, InByte, Ending
<1>4. PulseInv' /\ CountInv' /\ AbsentInv'
  BY <1>1, <1>2 DEF PulseInv, CountInv, AbsentInv, chip
<1>5. ChipInv'
  BY <1>2, ChipStays
<1>6. StaleInv'
  BY <1>1, <1>2 DEF StaleInv, First, chip
<1>7. SyncInv' /\ ValueInv' /\ GotInv' /\ LateInv' /\ AckInv'
  BY <1>1 DEF SyncInv, ValueInv, GotInv, LateInv, AckInv, InByte, Ending
<1>8. ShownInv'
  BY <1>1, <1>2 DEF ShownInv, Ending, Shows, chip
<1> QED
  BY <1>3, <1>4, <1>5, <1>6, <1>7, <1>8

LEMMA Init2Keeps == LedInv /\ Init2 => LedInv'
<1> SUFFICES ASSUME LedInv, Init2 PROVE LedInv'
  OBVIOUS
<1> USE DEF LedInv
<1>1. /\ stage = "init2" /\ stage' = "start1" /\ (present => seen = 1)
      /\ UNCHANGED <<script, bytes, k, y, fail, retry, text, on>>
  BY OnlyFacts DEF Init2, PulseInv
<1>2. UNCHANGED <<chip, dat, missed, faults>>
  BY <1>1 DEF Init2, SetClk, NoFault
<1>3. CallInv' /\ DriverInv' /\ WireInv'
  BY <1>1, <1>2 DEF CallInv, DriverInv, WireInv, Stages, InByte, Ending
<1>4. PulseInv' /\ CountInv' /\ AbsentInv'
  BY <1>1, <1>2 DEF PulseInv, CountInv, AbsentInv, chip
<1>5. ChipInv'
  BY <1>2, ChipStays
<1>6. StaleInv'
  BY <1>1, <1>2 DEF StaleInv, First, chip, DriverInv
<1>7. SyncInv' /\ ValueInv' /\ GotInv' /\ LateInv' /\ AckInv'
  BY <1>1 DEF SyncInv, ValueInv, GotInv, LateInv, AckInv, InByte, Ending
<1>8. ShownInv'
  BY <1>1, <1>2 DEF ShownInv, Ending, Shows, chip
<1> QED
  BY <1>3, <1>4, <1>5, <1>6, <1>7, <1>8

LEMMA Start2Keeps == LedInv /\ Start2 => LedInv'
<1> SUFFICES ASSUME LedInv, Start2 PROVE LedInv'
  OBVIOUS
<1> USE DEF LedInv
<1>1. /\ stage = "start2" /\ stage' = "start3" /\ (present => seen = 0)
      /\ UNCHANGED <<script, bytes, k, y, fail, retry, text, on>>
  BY OnlyFacts DEF Start2, PulseInv
<1>2. /\ UNCHANGED <<dat, missed, faults>> /\ present' = present /\ dat = 1
      /\ IF present THEN Rise ELSE UNCHANGED chip
  BY <1>1 DEF Start2, SetClk, NoFault, Rise, chip, WireInv
<1>3. CallInv' /\ DriverInv' /\ WireInv'
  BY <1>1, <1>2 DEF CallInv, DriverInv, WireInv, Stages, InByte, Ending
<1>4. PulseInv' /\ CountInv' /\ AbsentInv'
  BY <1>1, <1>2 DEF PulseInv, CountInv, AbsentInv, Rise
<1>5. ChipInv'
  BY <1>1, <1>2, RiseKeeps, ChipStays
<1>6. UNCHANGED <<live, pull, nr, addr, segs, lit>>
  BY <1>2 DEF Rise, chip
<1>7. StaleInv'
  <2>1. ASSUME live, ~First PROVE ~pull /\ Len(bits') = 1 /\ nr > 0
    <3>1. present /\ ~pull /\ Len(bits) = 0 /\ nr > 0
      BY <1>1, <2>1 DEF StaleInv, ChipInv
    <3>2. bits' = Append(bits, 1)
      BY <1>2, <2>1, <3>1 DEF Rise, Wire
    <3> QED
      BY <3>1, <3>2, MoreBits DEF ChipInv, ChipTypes
  <2> QED
    BY <1>1, <1>6, <2>1 DEF StaleInv, First
<1>8. SyncInv' /\ ValueInv' /\ GotInv' /\ LateInv' /\ AckInv'
  BY <1>1 DEF SyncInv, ValueInv, GotInv, LateInv, AckInv, InByte, Ending
<1>9. ShownInv'
  BY <1>1, <1>2, <1>6 DEF ShownInv, Ending, Shows
<1> QED
  BY <1>3, <1>4, <1>5, <1>7, <1>8, <1>9

LEMMA Stop2Keeps == LedInv /\ Stop2 => LedInv'
<1> SUFFICES ASSUME LedInv, Stop2 PROVE LedInv'
  OBVIOUS
<1> USE DEF LedInv
<1>1. /\ stage = "stop2" /\ stage' = "stop3" /\ (present => seen = 0)
      /\ UNCHANGED <<script, bytes, k, y, fail, retry, text, on>>
  BY OnlyFacts DEF Stop2, PulseInv
<1>2. /\ UNCHANGED <<dat, missed, faults>> /\ present' = present /\ dat = 0
      /\ IF present THEN Rise ELSE UNCHANGED chip
  BY <1>1 DEF Stop2, SetClk, NoFault, Rise, chip, WireInv, Ending
<1>3. CallInv' /\ DriverInv' /\ WireInv'
  BY <1>1, <1>2 DEF CallInv, DriverInv, WireInv, Stages, InByte, Ending
<1>4. PulseInv' /\ CountInv' /\ AbsentInv'
  BY <1>1, <1>2 DEF PulseInv, CountInv, AbsentInv, Rise
<1>5. ChipInv'
  BY <1>1, <1>2, RiseKeeps, ChipStays
<1>6. UNCHANGED <<live, pull, nr, addr, segs, lit>>
  BY <1>2 DEF Rise, chip
<1>7. StaleInv'
  BY <1>1, <1>6 DEF StaleInv, First
<1>8. SyncInv' /\ ValueInv' /\ GotInv' /\ LateInv'
  BY <1>1 DEF SyncInv, ValueInv, GotInv, LateInv, InByte
<1>9. AckInv'
  BY <1>1, <1>2 DEF AckInv, Ending
<1>10. ShownInv'
  BY <1>1, <1>2, <1>6 DEF ShownInv, Ending, Shows
<1> QED
  BY <1>3, <1>4, <1>5, <1>7, <1>8, <1>9, <1>10

LEMMA Stop3Keeps == LedInv /\ Stop3 => LedInv'
<1> SUFFICES ASSUME LedInv, Stop3 PROVE LedInv'
  OBVIOUS
<1> USE DEF LedInv
<1>1. /\ stage = "stop3" /\ stage' = (IF fail /\ retry < 2 THEN "start1" ELSE "returned")
      /\ UNCHANGED <<script, bytes, k, y, fail, text, on>> /\ retry' = retry + 1
      /\ dat = 0 /\ dat' = 1 /\ (present => seen = 1)
  <2>1. retry + 1 < 3 <=> retry < 2
    BY DEF DriverInv
  <2> QED
    BY <2>1 DEF Stop3, Go, call, asked, TryAgain, WireInv, PulseInv, Ending, SetDat
<1>2. /\ UNCHANGED <<present, seen, pull, segs, lit, missed, faults>>
      /\ IF present /\ ~pull THEN ~live' /\ addr' = 5 ELSE UNCHANGED <<live, bits, nr, addr>>
  BY <1>1 DEF Stop3, SetDat, Wire, NoFault
<1>3. CallInv' /\ WireInv'
  BY <1>1, <1>2 DEF CallInv, WireInv, Stages, InByte, Ending
<1>4. DriverInv'
  BY <1>1, <1>2 DEF DriverInv, InByte, Ending
<1>5. PulseInv' /\ AbsentInv'
  BY <1>1, <1>2 DEF PulseInv, AbsentInv
<1>6. CountInv'
  BY <1>1, <1>2 DEF CountInv, AckInv, DriverInv, Ending
<1>7. ChipInv'
  BY SetDatKeeps DEF Stop3
<1>8. StaleInv'
  BY <1>1, <1>2 DEF StaleInv, First, ChipInv, DriverInv
<1>9. SyncInv' /\ ValueInv' /\ GotInv' /\ LateInv' /\ AckInv'
  BY <1>1 DEF SyncInv, ValueInv, GotInv, LateInv, AckInv, InByte, Ending
<1>10. ShownInv'
  BY <1>1, <1>2 DEF ShownInv, Ending, Shows
<1> QED
  BY <1>3, <1>4, <1>5, <1>6, <1>7, <1>8, <1>9, <1>10

\* A call, or the next one of led_7seg_init().
LEMMA CallKeeps ==
  ASSUME LedInv, stage \in {"idle", "returned"}, stage' = "start1",
         bytes' \in Texts \cup Settings,
         k' = 0, y' = 0, fail' = TRUE, retry' = 0, missed' = 0, faults' = 0,
         UNCHANGED <<dat, chip>>, CallInv', AbsentInv', ShownInv'
  PROVE  LedInv'
<1> USE DEF LedInv
<1>1. bytes' # Probe
  BY CallFacts
<1>2. DriverInv' /\ WireInv'
  BY <1>1 DEF DriverInv, WireInv, Stages, InByte, Ending
<1>3. PulseInv' /\ CountInv'
  BY DEF PulseInv, CountInv, chip
<1>4. ChipInv'
  BY ChipStays
<1>5. StaleInv'
  <2>1. ~First
    BY EmptyBits DEF First, CallInv, DriverInv, Probe, Cmd
  <2> QED
    BY <1>1, <2>1 DEF StaleInv, First, chip
<1>6. SyncInv' /\ ValueInv' /\ GotInv' /\ LateInv' /\ AckInv'
  BY DEF SyncInv, ValueInv, GotInv, LateInv, AckInv, InByte, Ending
<1> QED
  BY <1>2, <1>3, <1>4, <1>5, <1>6

LEMMA TransferKeeps ==
  ASSUME LedInv, NEW b \in Texts \cup Settings, Transfer(b)
  PROVE  LedInv'
<1>1. /\ stage = "idle" /\ stage' = "start1" /\ bytes' = b
      /\ k' = 0 /\ y' = 0 /\ fail' = TRUE /\ retry' = 0 /\ missed' = 0 /\ faults' = 0
      /\ UNCHANGED <<script, dat, chip, text, on>>
  BY DEF Transfer, Go, asked
<1>2. bytes = <<>> /\ Len(bytes) = 0
  BY <1>1, EmptyBits DEF LedInv, CallInv
<1>3. CallInv'
  BY <1>1, CallFacts DEF LedInv, CallInv, Stages
<1>4. AbsentInv'
  BY <1>1 DEF LedInv, AbsentInv, chip
<1>5. ShownInv'
  BY <1>1, <1>2 DEF LedInv, ShownInv, Shows, Ending, chip
<1> QED
  BY <1>1, <1>3, <1>4, <1>5, CallKeeps

LEMMA LedCallKeeps == LedInv /\ LedCall => LedInv'
<1> SUFFICES ASSUME LedInv, LedCall PROVE LedInv'
  OBVIOUS
<1>1. \A s : Update(Segments(s)) \in Texts
  BY SegmentsFacts DEF Texts
<1>2. \A e \in BOOLEAN : Cmd(IF e THEN \h89 ELSE \h80) \in Settings
  BY DEF Settings
<1>3. PICK b \in Texts \cup Settings : Transfer(b)
  BY <1>1, <1>2 DEF LedCall, led_7seg_write_string, led_7seg_write_decimal,
                    led_7seg_display_setting
<1> QED
  BY <1>3, TransferKeeps

LEMMA ReturnKeeps == LedInv /\ Return => LedInv'
<1> SUFFICES ASSUME LedInv, Return PROVE LedInv'
  OBVIOUS
<1> USE DEF LedInv
<1>1. /\ stage = "returned" /\ stage' = (IF script = <<>> THEN "idle" ELSE "start1")
      /\ k' = 0 /\ y' = 0 /\ fail' = TRUE /\ retry' = 0 /\ missed' = 0 /\ faults' = 0
      /\ text' = (IF Len(bytes) = 1 THEN text ELSE IF fail THEN Unknown ELSE bytes)
      /\ on' = (IF Len(bytes) > 1 \/ bytes = Probe THEN on
                ELSE IF fail THEN Unknown ELSE bytes)
      /\ UNCHANGED <<dat, chip>>
  BY DEF Return, Go, Probe
<1>2. bytes \in Texts \cup Settings \cup {Probe} /\ (bytes = Probe => text = Unknown /\ on = Unknown)
  BY <1>1 DEF CallInv
<1>3. /\ Len(bytes) = 5 <=> bytes \in Texts
      /\ Len(bytes) = 1 /\ bytes # Probe <=> bytes \in Settings
      /\ Len(bytes) \in {1, 5}
  BY <1>2, BytesFacts
<1>4. text' \in Texts \cup {Unknown} /\ on' \in Settings \cup {Unknown}
  BY <1>1, <1>2, <1>3 DEF CallInv
<1>5. AbsentInv'
  BY <1>1 DEF AbsentInv, chip
<1>6. Len(bytes') # 5 => (text' # Unknown => present /\ Shows(text'))
  <2>1. CASE Len(bytes) = 5 /\ text' # Unknown
    <3>1. text' = bytes /\ ~fail
      BY <1>1, <2>1
    <3> QED
      BY <1>1, <3>1 DEF ShownInv
  <2>2. CASE Len(bytes) # 5
    BY <1>1, <1>3, <2>2 DEF ShownInv, Ending
  <2> QED
    BY <2>1, <2>2
<1>7. on' # Unknown => present /\ Shows(on')
  <2>1. CASE Len(bytes) = 1 /\ on' # Unknown
    <3>1. on' = bytes /\ ~fail
      BY <1>1, <1>2, <2>1
    <3> QED
      BY <1>1, <3>1 DEF ShownInv
  <2>2. CASE Len(bytes) # 1
    BY <1>1, <1>3, <2>2 DEF ShownInv, Ending
  <2> QED
    BY <2>1, <2>2
<1>8. ShownInv'
  BY <1>1, <1>6, <1>7 DEF ShownInv, Shows, Ending, chip
<1>9. CASE script = <<>>
  <2>1. stage' = "idle" /\ bytes' = <<>> /\ script' = <<>>
    BY <1>1, <1>9 DEF Return
  <2>2. bytes' # Probe
    BY <2>1, EmptyBits DEF Probe, Cmd
  <2>3. CallInv'
    BY <1>4, <2>1, <2>2 DEF CallInv, Stages
  <2>4. DriverInv' /\ WireInv'
    BY <1>1, <2>1 DEF DriverInv, WireInv, InByte, Ending
  <2>5. PulseInv' /\ CountInv'
    BY <1>1, <2>1 DEF PulseInv, CountInv, chip
  <2>6. ChipInv'
    BY <1>1, ChipStays
  <2>7. StaleInv'
    BY <1>1, <2>1, <2>2 DEF StaleInv, First, chip, DriverInv
  <2>8. SyncInv' /\ ValueInv' /\ GotInv' /\ LateInv' /\ AckInv'
    BY <2>1 DEF SyncInv, ValueInv, GotInv, LateInv, AckInv, InByte, Ending
  <2> QED
    BY <1>5, <1>8, <2>3, <2>4, <2>5, <2>6, <2>7, <2>8
<1>10. CASE script # <<>>
  <2>1. stage' = "start1" /\ bytes' = Head(script) /\ script' = Tail(script)
    BY <1>1, <1>10 DEF Return
  <2>2. Cmd(\h89) \in Settings /\ Update(Blank) \in Texts
    BY SegmentsFacts DEF Texts, Settings, Blank
  <2>3. bytes' \in Texts \cup Settings /\ script' \in {<<>>, <<Cmd(\h89)>>}
    <3> DEFINE u == Update(Blank)
               c == Cmd(\h89)
    <3>1. script = <<c>> \/ script = <<u, c>>
      BY <1>10 DEF CallInv
    <3> HIDE DEF u, c
    <3>2. /\ Head(<<c>>) = c /\ Tail(<<c>>) = <<>>
          /\ Head(<<u, c>>) = u /\ Tail(<<u, c>>) = <<c>>
      OBVIOUS
    <3> QED
      BY <2>1, <2>2, <3>1, <3>2 DEF u, c
  <2>4. bytes' # Probe
    BY <2>3, CallFacts
  <2>5. CallInv'
    BY <1>4, <2>1, <2>3, <2>4 DEF CallInv, Stages
  <2> QED
    BY <1>1, <1>5, <1>8, <2>1, <2>3, <2>5, CallKeeps
<1> QED
  BY <1>9, <1>10

\* The stop condition, CLK low: a chip that is late takes it for the clock of an
\* acknowledgement.
LEMMA Stop1Keeps == LedInv /\ Stop1 => LedInv'
<1> SUFFICES ASSUME LedInv, Stop1 PROVE LedInv'
  OBVIOUS
<1> USE DEF LedInv
<1>1. /\ stage = "stop1" /\ stage' = "stop2" /\ bytes \in Texts \cup Settings \cup {Probe}
      /\ UNCHANGED <<script, bytes, k, y, fail, retry, text, on>>
  BY OnlyFacts DEF Stop1, CallInv
<1>2. /\ UNCHANGED <<dat, missed, faults>> /\ present' = present /\ dat = 0
      /\ IF present /\ seen = 1 THEN Fall ELSE UNCHANGED chip
  BY <1>1 DEF Stop1, SetClk, NoFault, Fall, chip, WireInv, Ending, ChipInv, ChipTypes
<1>3. CallInv' /\ DriverInv' /\ WireInv'
  BY <1>1, <1>2 DEF CallInv, DriverInv, WireInv, Stages, InByte, Ending
<1>4. PulseInv' /\ CountInv' /\ AbsentInv'
  BY <1>1, <1>2 DEF PulseInv, CountInv, AbsentInv, Fall, chip, ChipInv, ChipTypes
<1>5. ChipInv'
  BY <1>1, <1>2, FallKeeps, ChipStays
<1>6. SyncInv' /\ ValueInv' /\ GotInv' /\ LateInv'
  BY <1>1 DEF SyncInv, ValueInv, GotInv, LateInv, InByte
<1>7. AckInv'
  BY <1>1, <1>2 DEF AckInv, Ending
<1>8. CASE present /\ seen = 1 /\ Len(bits) = 8
  <2>1. live /\ ~pull /\ bits # <<>>
    BY <1>8, FullFacts, EmptyBits
  <2>2. fail
    BY <1>1, <2>1 DEF AckInv, DriverInv
  <2>3. pull' /\ bits' = <<>> /\ Receive(Value(bits)) /\ live' = live
    BY <1>2, <1>8 DEF Fall
  <2>4. nr' # 0
    BY <2>3 DEF Receive
  <2>5. StaleInv'
    BY <1>1, <2>3, <2>4 DEF StaleInv, First
  <2>6. bytes # Probe => nr # 0 \/ Value(bits) < 128
    <3>1. Clocks(y) = 9
      BY <1>1, ClocksFacts DEF DriverInv
    <3>2. ~InStep
      BY <1>8, <2>1, <3>1 DEF InStep
    <3>3. nr = 0 /\ bytes # Probe => bits[8] = 0
      BY <1>1, <2>1, <3>2 DEF LateInv
    <3> QED
      BY <1>8, <3>3, ValueFacts DEF ChipInv, ChipTypes
  <2>7. Value(bits) \in 0 .. 255
    BY <1>8, ValueFacts DEF ChipInv, ChipTypes
  <2>8. bytes # Probe => lit' = lit
    BY <2>3, <2>6, <2>7 DEF Receive
  <2>9. bytes # Probe /\ addr = 5 => addr' = 5 /\ segs' = segs
    BY <2>3, <2>6, <2>7 DEF Receive
  <2>10. ShownInv'
    <3>1. CASE bytes = Probe
      BY <1>1, <2>2, <3>1 DEF ShownInv, CallInv
    <3>2. CASE bytes # Probe
      BY <1>1, <1>2, <2>2, <2>8, <2>9, <3>2 DEF ShownInv, Shows, Ending
    <3> QED
      BY <3>1, <3>2
  <2> QED
    BY <1>3, <1>4, <1>5, <1>6, <1>7, <2>5, <2>10
<1>9. CASE ~(present /\ seen = 1 /\ Len(bits) = 8)
  <2>1. UNCHANGED <<live, bits, nr, addr, segs, lit>> /\ (pull' => pull)
    BY <1>2, <1>9 DEF Fall, chip
  <2>2. StaleInv'
    BY <1>1, <2>1 DEF StaleInv, First
  <2>3. ShownInv'
    BY <1>1, <1>2, <2>1 DEF ShownInv, Shows, Ending
  <2> QED
    BY <1>3, <1>4, <1>5, <1>6, <1>7, <2>2, <2>3
<1> QED
  BY <1>8, <1>9

\* The start condition: the chip sees it, is in step without it, or misses it.
LEMMA Start3Keeps == LedInv /\ Start3 => LedInv'
<1> SUFFICES ASSUME LedInv, Start3 PROVE LedInv'
  OBVIOUS
<1> USE DEF LedInv
<1>1. /\ stage = "start3" /\ stage' = "bit1" /\ k' = 0 /\ y' = bytes[1] + 256
      /\ bytes \in Texts \cup Settings \cup {Probe} /\ dat = 1 /\ dat' = 0
      /\ (present => seen = 1)
      /\ UNCHANGED <<script, bytes, fail, retry, text, on>>
  BY DEF Start3, Go, call, asked, CallInv, WireInv, PulseInv, SetDat
<1>2. bytes[1] \in 0 .. 255 /\ Len(bytes) \in {1, 5}
  BY <1>1, ByteFacts
<1>3. y' \in 1 .. 511 /\ Clocks(y') = 0
  BY <1>1, <1>2, ClocksFacts
<1>4. UNCHANGED <<present, seen, pull, segs, lit>>
  BY DEF Start3, SetDat
<1>5. \/ /\ present /\ ~pull /\ live' = TRUE /\ bits' = <<>> /\ nr' = 0 /\ addr' = 5
         /\ NoFault
      \/ /\ present /\ ~pull /\ Fault /\ UNCHANGED <<live, bits, nr, addr>>
      \/ /\ ~present \/ pull
         /\ NoFault /\ UNCHANGED <<live, bits, nr, addr>>
  BY <1>1 DEF Start3, SetDat, Wire
<1>6. CallInv' /\ WireInv'
  BY <1>1 DEF CallInv, WireInv, Stages, InByte, Ending
<1>7. retry' = retry /\ missed' \in {missed, retry + 1} /\ faults' \in Nat
  BY <1>1, <1>5 DEF NoFault, Fault, DriverInv
<1>8. DriverInv'
  BY <1>1, <1>2, <1>3, <1>7 DEF DriverInv, InByte
<1>9. PulseInv' /\ AbsentInv'
  BY <1>1, <1>4 DEF PulseInv, AbsentInv
<1>10. CountInv'
  BY <1>1, <1>4, <1>5 DEF CountInv, NoFault, Fault, DriverInv
<1>11. ChipInv'
  BY SetDatKeeps DEF Start3
<1>12. StaleInv'
  BY <1>1, <1>4, <1>5 DEF StaleInv, First
<1>13. AckInv'
  BY <1>1 DEF AckInv, Ending
<1>14. ValueInv'
  <2>1. ASSUME Len(bits') = Clocks(y')
        PROVE  Low(bits') + Scale(Len(bits')) * y' = bytes'[k' + 1] + 256
    <3>1. bits' = <<>>
      BY <1>3, <1>11, <2>1, BitsFacts DEF ChipInv, ChipTypes
    <3>2. y' \in Nat /\ \A n \in Nat : 1 * n = n
      BY <1>3
    <3> QED
      BY <1>1, <1>2, <3>1, <3>2, LowEmpty
  <2> QED
    BY <2>1 DEF ValueInv
<1>15. CASE /\ present /\ ~pull /\ live' = TRUE /\ bits' = <<>> /\ nr' = 0 /\ addr' = 5
            /\ NoFault
  <2>1. InStep'
    BY <1>3, <1>4, <1>15, EmptyBits DEF InStep
  <2>2. SyncInv' /\ LateInv'
    BY <2>1 DEF SyncInv, LateInv
  <2>3. GotInv'
    BY <1>1, <1>4, <1>15 DEF GotInv, Got
  <2>4. ShownInv'
    BY <1>1, <1>4, <1>15 DEF ShownInv, Shows, Ending
  <2> QED
    BY <1>6, <1>8, <1>9, <1>10, <1>11, <1>12, <1>13, <1>14, <2>2, <2>3, <2>4
<1>16. CASE /\ ~present \/ pull \/ (present /\ ~pull /\ Fault)
            /\ UNCHANGED <<live, bits, nr, addr>>
  <2>1. live /\ bytes # Probe => ~pull /\ Len(bits) = 1 /\ nr > 0
    BY <1>1 DEF StaleInv, First
  <2>2. SyncInv'
    <3>1. CASE pull
      BY <1>1, <1>3, <1>4, <1>16, <3>1 DEF SyncInv, InStep, ChipInv
    <3>2. CASE ~pull
      BY <1>1, <1>4, <1>16, <3>2 DEF SyncInv, Fault
    <3> QED
      BY <3>1, <3>2
  <2>3. InStep' => bytes = Probe
    BY <1>3, <1>4, <1>16, <2>1 DEF InStep
  <2>4. GotInv'
    BY <1>1, <2>3 DEF GotInv
  <2>5. LateInv'
    BY <1>1, <1>16, <2>1 DEF LateInv
  <2>6. ShownInv'
    BY <1>1, <1>4, <1>16 DEF ShownInv, Shows, Ending
  <2> QED
    BY <1>6, <1>8, <1>9, <1>10, <1>11, <1>12, <1>13, <1>14, <2>2, <2>4, <2>5, <2>6
<1> QED
  BY <1>5, <1>15, <1>16

LEMMA Bit2Keeps == LedInv /\ Bit2 => LedInv'
<1> SUFFICES ASSUME LedInv, Bit2 PROVE LedInv'
  OBVIOUS
<1> USE DEF LedInv
<1>1. /\ stage = "bit2" /\ stage' = (IF y = 1 THEN "ack" ELSE "bit3") /\ dat' = y % 2
      /\ (present => seen = 0) /\ y \in 1 .. 511
      /\ UNCHANGED <<script, bytes, k, y, fail, retry, text, on>>
  BY OnlyFacts DEF Bit2, PulseInv, SetDat, DriverInv, InByte
<1>2. UNCHANGED <<chip, missed, faults>>
  BY <1>1 DEF Bit2, SetDat, NoFault, chip
<1>3. y % 2 \in {0, 1} /\ 1 % 2 = 1
  BY <1>1
<1>4. CallInv' /\ WireInv'
  BY <1>1, <1>3 DEF CallInv, WireInv, Stages, InByte, Ending
<1>5. DriverInv'
  BY <1>1, <1>2 DEF DriverInv, InByte
<1>6. PulseInv' /\ CountInv' /\ AbsentInv'
  BY <1>1, <1>2 DEF PulseInv, CountInv, AbsentInv, chip
<1>7. ChipInv'
  BY <1>2, ChipStays
<1>8. StaleInv'
  BY <1>1, <1>2 DEF StaleInv, First, chip
<1>9. InStep' <=> InStep
  BY <1>1, <1>2 DEF InStep, chip
<1>10. SyncInv' /\ ValueInv' /\ LateInv'
  BY <1>1, <1>2, <1>9 DEF SyncInv, ValueInv, LateInv, InByte, chip
<1>11. GotInv'
  BY <1>1, <1>2, <1>9 DEF GotInv, Got, InByte, chip
<1>12. AckInv'
  BY <1>1 DEF AckInv, Ending
<1>13. ShownInv'
  BY <1>1, <1>2 DEF ShownInv, Shows, Ending, chip
<1> QED
  BY <1>4, <1>5, <1>6, <1>7, <1>8, <1>10, <1>11, <1>12, <1>13

LEMMA AckKeeps == LedInv /\ Ack => LedInv'
<1> SUFFICES ASSUME LedInv, Ack PROVE LedInv'
  OBVIOUS
<1> USE DEF LedInv
<1>1. /\ stage = "ack" /\ stage' = "bit3" /\ dat = 1 /\ dat' = 0 /\ y = 1
      /\ (present => seen = 0)
      /\ UNCHANGED <<script, bytes, k, y, retry, text, on>>
  BY DEF Ack, Go, call, asked, PulseInv, SetDat, DriverInv, WireInv
<1>2. UNCHANGED <<chip, missed, faults>>
  BY <1>1 DEF Ack, SetDat, NoFault, chip
<1>3. fail' \in BOOLEAN /\ (fail' <=> ~pull)
  <2>1. CASE pull
    <3>1. Wire(dat, pull) # 1
      BY <2>1 DEF Wire
    <3>2. fail' = FALSE
      BY <3>1 DEF Ack
    <3> QED
      BY <2>1, <3>2
  <2>2. CASE ~pull
    <3>1. Wire(dat, pull) = 1
      BY <1>1, <2>2 DEF Wire
    <3>2. fail' = TRUE
      BY <3>1 DEF Ack
    <3> QED
      BY <2>2, <3>2
  <2> QED
    BY <2>1, <2>2
<1>4. CallInv' /\ WireInv'
  BY <1>1 DEF CallInv, WireInv, Stages, InByte, Ending
<1>5. DriverInv'
  BY <1>1, <1>2, <1>3 DEF DriverInv, InByte
<1>6. PulseInv' /\ CountInv'
  BY <1>1, <1>2 DEF PulseInv, CountInv, chip
<1>7. AbsentInv'
  BY <1>1, <1>2, <1>3 DEF AbsentInv, chip, ChipInv
<1>8. ChipInv'
  BY <1>2, ChipStays
<1>9. StaleInv'
  BY <1>1, <1>2 DEF StaleInv, First, chip
<1>10. InStep' <=> InStep
  BY <1>1, <1>2 DEF InStep, chip
<1>11. SyncInv' /\ ValueInv' /\ LateInv'
  BY <1>1, <1>2, <1>10 DEF SyncInv, ValueInv, LateInv, InByte, chip
<1>12. GotInv'
  BY <1>1, <1>2, <1>10 DEF GotInv, Got, InByte, chip
<1>13. AckInv'
  BY <1>1, <1>2, <1>3 DEF AckInv, Ending, chip
<1>14. ShownInv'
  BY <1>1, <1>2 DEF ShownInv, Shows, Ending, chip
<1> QED
  BY <1>4, <1>5, <1>6, <1>7, <1>8, <1>9, <1>11, <1>12, <1>13, <1>14

\* The next byte of the attempt arrives.
LEMMA ReceiveGot ==
  ASSUME ChipTypes, bytes \in Texts \cup Settings, k \in 0 .. Len(bytes) - 1, Got(k),
         Receive(bytes[k + 1]), UNCHANGED <<bytes, k>>
  PROVE  Got(k + 1)'
<1>1. Len(bytes) \in {1, 5} /\ (Len(bytes) = 5 => bytes[1] = 192)
  BY BytesFacts
<1>2. Len(bytes) = 1 => bytes[1] \in {128, 137} /\ (bytes = Cmd(\h89) <=> bytes[1] = 137)
  BY BytesFacts
<1>3. nr = (IF k < 2 THEN k ELSE 2) /\ addr = (IF Len(bytes) = 5 /\ k > 0 THEN k ELSE 5)
  BY DEF Got
<1>4. nr = 0 <=> k = 0
  BY <1>1, <1>3
<1>5. nr' = IF k + 1 < 2 THEN k + 1 ELSE 2
  BY <1>1, <1>3, <1>4 DEF Receive
<1>6. addr' = IF Len(bytes) = 5 /\ k + 1 > 0 THEN k + 1 ELSE 5
  <2>1. CASE k = 0
    BY <1>1, <1>2, <1>4, <2>1 DEF Receive
  <2>2. CASE k # 0
    <3>1. Len(bytes) = 5 /\ k \in 1 .. 4
      BY <1>1, <2>2
    <3> QED
      BY <1>3, <1>4, <2>2, <3>1 DEF Receive
  <2> QED
    BY <2>1, <2>2
<1>7. ASSUME Len(bytes) = 5, NEW j \in 1 .. 4, j < k + 1 PROVE segs'[j] = bytes[j + 1]
  <2>1. k # 0 /\ addr = k /\ k \in 1 .. 4 /\ nr # 0
    BY <1>3, <1>4, <1>7
  <2>2. segs' = [segs EXCEPT ![k] = bytes[k + 1]]
    BY <2>1 DEF Receive
  <2>3. j < k => segs[j] = bytes[j + 1]
    BY <1>7 DEF Got
  <2> QED
    BY <1>7, <2>1, <2>2, <2>3 DEF ChipTypes
<1>8. Len(bytes) = 1 => (lit' <=> bytes = Cmd(\h89))
  <2> SUFFICES ASSUME Len(bytes) = 1 PROVE lit' <=> bytes = Cmd(\h89)
    OBVIOUS
  <2>1. k = 0 /\ nr = 0
    BY <1>4
  <2>2. lit' = (bytes[1] = 137)
    BY <1>2, <2>1 DEF Receive
  <2> QED
    BY <1>2, <2>2
<1> QED
  BY <1>5, <1>6, <1>7, <1>8 DEF Got

LEMMA Cancel256 == \A p, q \in 0 .. 255 : p + 256 = q + 256 => p = q
OBVIOUS

\* CLK low: a chip that has eight bits takes them and acknowledges.
LEMMA Bit1Keeps == LedInv /\ Bit1 => LedInv'
<1> SUFFICES ASSUME LedInv, Bit1 PROVE LedInv'
  OBVIOUS
<1> USE DEF LedInv
<1>1. /\ stage = "bit1" /\ stage' = "bit2" /\ y \in 1 .. 511 /\ k \in 0 .. Len(bytes) - 1
      /\ bytes \in Texts \cup Settings \cup {Probe}
      /\ UNCHANGED <<script, bytes, k, y, fail, retry, text, on>>
  BY OnlyFacts DEF Bit1, DriverInv, InByte, CallInv
<1>2. /\ UNCHANGED <<dat, missed, faults>> /\ present' = present
      /\ IF present /\ seen = 1 THEN Fall ELSE UNCHANGED chip
  BY <1>1 DEF Bit1, SetClk, NoFault, Fall, chip, ChipInv, ChipTypes
<1>3. CallInv' /\ DriverInv' /\ WireInv'
  BY <1>1, <1>2 DEF CallInv, DriverInv, WireInv, Stages, InByte, Ending
<1>4. PulseInv' /\ CountInv' /\ AbsentInv'
  BY <1>1, <1>2 DEF PulseInv, CountInv, AbsentInv, Fall, chip, ChipInv, ChipTypes
<1>5. ChipInv'
  BY <1>1, <1>2, FallKeeps, ChipStays
<1>6. AckInv'
  BY <1>1, <1>2 DEF AckInv, Ending
<1>7. Clocks(y) \in 0 .. 8 /\ (Clocks(y) = 8 <=> y = 1)
  BY <1>1, ClocksFacts
<1>8. live' = live
  BY <1>2 DEF Fall, chip
<1>9. CASE present /\ seen = 1 /\ Len(bits) = 8
  <2>1. live /\ ~pull
    BY <1>9, FullFacts
  <2>2. pull' = TRUE /\ seen' = 0 /\ bits' = <<>> /\ Receive(Value(bits))
    BY <1>2, <1>9 DEF Fall
  <2>3. nr' # 0
    BY <2>2 DEF Receive
  <2>4. StaleInv'
    BY <1>1, <2>2, <2>3 DEF StaleInv, First
  <2>5. Value(bits) \in 0 .. 255 /\ Value(bits) = Low(bits)
    BY <1>9, ValueFacts DEF ChipInv, ChipTypes
  <2>6. InStep => Clocks(y) = 8
    BY <1>9, <2>1 DEF InStep
  <2>7. InStep' <=> Clocks(y) = 8
    BY <1>1, <1>8, <2>1, <2>2 DEF InStep
  <2>8. Clocks(y) = 8 => InStep
    BY <1>9, <2>1 DEF InStep
  <2>9. SyncInv'
    BY <1>1, <1>2, <2>6, <2>7 DEF SyncInv, InByte
  <2>10. ValueInv'
    BY <1>1, <2>2, <2>7, EmptyBits DEF ValueInv
  <2>11. LateInv'
    BY <2>3 DEF LateInv
  <2>12. InStep => Value(bits) = bytes[k + 1]
    <3> SUFFICES ASSUME InStep PROVE Value(bits) = bytes[k + 1]
      OBVIOUS
    <3>1. Clocks(y) = 8 /\ y = 1
      BY <1>7, <2>6
    <3>2. Low(bits) + Scale(8) * 1 = bytes[k + 1] + 256
      BY <1>1, <1>9, <3>1 DEF ValueInv, InByte
    <3>3. k + 1 \in 1 .. Len(bytes)
      BY <1>1, ByteFacts
    <3>4. bytes[k + 1] \in 0 .. 255
      BY <1>1, <3>3, ByteFacts
    <3>5. Value(bits) + 256 = bytes[k + 1] + 256
      BY <2>5, <3>2, LowEmpty
    <3>6. \A p, q \in 0 .. 255 : p + 256 = q + 256 => p = q
      BY Cancel256
    <3> QED
      BY <2>5, <3>4, <3>5, <3>6
  <2>13. bytes # Probe /\ InStep => Got(k)
    BY <1>1, <2>1 DEF GotInv, InByte
  <2>14. bytes # Probe /\ ~InStep => nr # 0
    BY <1>1, <1>9, <2>1, <1>7 DEF LateInv, InByte
  <2>15. GotInv'
    <3> SUFFICES ASSUME InStep, bytes # Probe PROVE Got(k + 1)'
      BY <1>1, <2>2, <2>7, <2>8 DEF GotInv
    <3>1. Got(k) /\ Receive(bytes[k + 1]) /\ bytes \in Texts \cup Settings
      BY <1>1, <2>2, <2>12, <2>13
    <3> QED
      BY <1>1, <3>1, ReceiveGot DEF ChipInv
  <2>16. ShownInv'
    <3>1. CASE bytes = Probe
      BY <1>1, <1>2, <3>1 DEF ShownInv, Ending, CallInv
    <3>2. CASE bytes # Probe
      <4>1. Len(bytes) = 5 => bytes[1] = 192
        BY <1>1, BytesFacts
      <4>2. Len(bytes) = 1 => bytes[1] # 192
        BY <1>1, <3>2, BytesFacts
      <4>3. nr = 0 => Value(bits) = bytes[1]
        <5> SUFFICES ASSUME nr = 0 PROVE Value(bits) = bytes[1]
          OBVIOUS
        <5>1. InStep /\ Got(k)
          BY <2>13, <2>14, <3>2
        <5>2. k = 0
          BY <1>1, <5>1 DEF Got
        <5> QED
          BY <2>12, <5>1, <5>2
      <4>4. Len(bytes) = 5 => lit' = lit
        BY <2>2, <4>1, <4>3 DEF Receive
      <4>5. Len(bytes) # 5 /\ addr = 5 => addr' = 5 /\ segs' = segs
        <5> SUFFICES ASSUME Len(bytes) # 5, addr = 5 PROVE addr' = 5 /\ segs' = segs
          OBVIOUS
        <5>1. Len(bytes) = 1
          BY <1>1, BytesFacts
        <5> QED
          BY <2>2, <4>2, <4>3, <5>1 DEF Receive
      <4>6. Len(bytes) \in {1, 5}
        BY <1>1, BytesFacts
      <4>7. (text # Unknown => Len(text) = 5) /\ (on # Unknown => Len(on) = 1)
        BY BytesFacts DEF CallInv
      <4>8. text # Unknown /\ Len(bytes) # 5 => present /\ Shows(text)'
        BY <1>1, <4>5, <4>7 DEF ShownInv, Shows
      <4>9. on # Unknown /\ Len(bytes) # 1 => present /\ Shows(on)'
        BY <1>1, <4>4, <4>6, <4>7 DEF ShownInv, Shows
      <4> QED
        BY <1>1, <1>2, <4>8, <4>9 DEF ShownInv, Ending, Shows
    <3> QED
      BY <3>1, <3>2
  <2> QED
    BY <1>3, <1>4, <1>5, <1>6, <2>4, <2>9, <2>10, <2>11, <2>15, <2>16
<1>10. CASE ~(present /\ seen = 1 /\ Len(bits) = 8)
  <2>1. UNCHANGED <<live, bits, nr, addr, segs, lit>> /\ (pull' => pull)
    BY <1>2, <1>10 DEF Fall, chip
  <2>2. IF present /\ seen = 1 THEN seen' = 0 /\ ~pull' ELSE seen' = seen /\ pull' = pull
    BY <1>2, <1>10 DEF Fall, chip
  <2>3. StaleInv'
    BY <1>1, <2>1 DEF StaleInv, First
  <2>4. ShownInv'
    BY <1>1, <1>2, <2>1 DEF ShownInv, Shows, Ending
  <2>5. InStep' <=> InStep
    <3>1. CASE present /\ seen = 1 /\ pull
      <4>1. bits = <<>> /\ Len(bits) = 0
        BY <3>1, EmptyBits DEF ChipInv
      <4> QED
        BY <1>1, <1>7, <1>8, <2>1, <2>2, <3>1, <4>1 DEF InStep
    <3>2. CASE ~(present /\ seen = 1 /\ pull)
      BY <1>1, <1>8, <2>1, <2>2, <3>2 DEF InStep
    <3> QED
      BY <3>1, <3>2
  <2>6. SyncInv' /\ ValueInv'
    BY <1>1, <1>2, <2>1, <2>5 DEF SyncInv, ValueInv, InByte
  <2>7. LateInv'
    BY <1>1, <2>1, <2>5 DEF LateInv, InByte
  <2>8. GotInv'
    BY <1>1, <2>1, <2>2, <2>5 DEF GotInv, Got, InByte
  <2> QED
    BY <1>3, <1>4, <1>5, <1>6, <2>3, <2>4, <2>6, <2>7, <2>8
<1> QED
  BY <1>9, <1>10

\* CLK high: one more bit, or the clock of the acknowledgement; the chip may miss it.
LEMMA Bit3Keeps == LedInv /\ Bit3 => LedInv'
<1> SUFFICES ASSUME LedInv, Bit3 PROVE LedInv'
  OBVIOUS
<1> USE DEF LedInv
<1>1. /\ stage = "bit3" /\ (present => seen = 0) /\ dat = (IF y = 1 THEN 0 ELSE y % 2)
      /\ bytes \in Texts \cup Settings \cup {Probe} /\ y \in 1 .. 511
      /\ k \in 0 .. Len(bytes) - 1
      /\ UNCHANGED <<script, bytes, fail, retry, text, on, dat>>
  BY DEF Bit3, Go, SetClk, call, asked, CallInv, WireInv, PulseInv, DriverInv, InByte
<1>2. \/ /\ y # 1 /\ stage' = "bit1" /\ y' = y \div 2 /\ k' = k
      \/ /\ y = 1 /\ ~fail /\ k + 1 < Len(bytes) /\ stage' = "bit1"
         /\ k' = k + 1 /\ y' = bytes[k + 2] + 256
      \/ /\ y = 1 /\ (fail \/ k + 1 = Len(bytes)) /\ stage' = "stop1" /\ k' = k /\ y' = 0
  <2>1. Len(bytes) \in Nat
    BY <1>1, ByteFacts
  <2>2. k + 1 < Len(bytes) \/ k + 1 = Len(bytes)
    BY <1>1, <2>1
  <2> QED
    BY <1>1, <2>2 DEF Bit3, Go, NextByte
<1>3. \/ present /\ Rise /\ NoFault
      \/ ~present /\ NoFault /\ UNCHANGED chip
      \/ present /\ live /\ Fault /\ UNCHANGED chip
  BY <1>1 DEF Bit3, SetClk
<1>4. Clocks(y) \in 0 .. 8 /\ (Clocks(y) = 8 <=> y = 1)
  BY <1>1, ClocksFacts
<1>5. \/ y # 1 /\ y' \in 1 .. 511 /\ Clocks(y') = Clocks(y) + 1
      \/ y = 1 /\ stage' = "bit1" /\ y' \in 1 .. 511 /\ Clocks(y') = 0
      \/ y = 1 /\ stage' = "stop1" /\ y' = 0 /\ Clocks(y') = 9
  <2>1. CASE y # 1 /\ y' = y \div 2
    <3>1. y \div 2 \in 1 .. 511 /\ Clocks(y \div 2) = Clocks(y) + 1
      BY <1>1, <2>1, HalfClocks
    <3> QED
      BY <2>1, <3>1
  <2>2. CASE y = 1 /\ k + 1 < Len(bytes) /\ stage' = "bit1" /\ y' = bytes[k + 2] + 256
    <3>1. k + 2 \in 1 .. Len(bytes)
      BY <1>1, <2>2, ByteFacts
    <3>2. bytes[k + 2] \in 0 .. 255
      BY <1>1, <3>1, ByteFacts
    <3>3. bytes[k + 2] + 256 \in 1 .. 511 /\ Clocks(bytes[k + 2] + 256) = 0
      BY <3>2, ClocksFacts
    <3> QED
      BY <2>2, <3>3
  <2>3. CASE y = 1 /\ stage' = "stop1" /\ y' = 0
    BY <2>3, ClocksFacts
  <2> QED
    BY <1>2, <2>1, <2>2, <2>3
<1>6. stage' \in {"bit1", "stop1"} /\ UNCHANGED <<present, live, pull, nr, addr, segs, lit>>
  BY <1>2, <1>3 DEF Rise, chip
<1>7. CallInv' /\ WireInv'
  BY <1>1, <1>2, <1>6 DEF CallInv, WireInv, Stages, InByte, Ending
<1>8. DriverInv'
  <2>1. Len(bytes) \in {1, 5}
    BY <1>1, ByteFacts
  <2>2. stage' = "bit1" => y' \in 1 .. 511 /\ k' \in 0 .. Len(bytes) - 1
    BY <1>1, <1>2, <1>5, <2>1
  <2>3. missed' \in {missed, retry + 1} /\ faults' \in Nat
    BY <1>3 DEF NoFault, Fault, DriverInv
  <2> QED
    BY <1>1, <1>2, <1>6, <2>2, <2>3 DEF DriverInv, InByte
<1>9. PulseInv' /\ AbsentInv'
  BY <1>1, <1>3, <1>6 DEF PulseInv, AbsentInv, Rise, Fault
<1>10. CountInv'
  BY <1>1, <1>3, <1>6 DEF CountInv, DriverInv, NoFault, Fault
<1>11. ChipInv'
  BY <1>1, <1>3, RiseKeeps, ChipStays DEF WireInv
<1>12. StaleInv'
  BY <1>1, <1>6 DEF StaleInv, First
<1>13. present => (InStep <=> live /\ IF pull THEN Clocks(y) = 8 ELSE Len(bits) = Clocks(y))
  BY <1>1 DEF InStep
<1>14. present /\ ~pull => Len(bits) \in 0 .. 7
  BY <1>1 DEF ChipInv, ChipTypes
<1>15. ASSUME present, Rise, NoFault
       PROVE  /\ seen' = 1 /\ missed' = missed
              /\ IF live /\ ~pull THEN /\ bits' = Append(bits, dat)
                                       /\ bits' \in Seq({0, 1}) /\ Len(bits') = Len(bits) + 1
                                       /\ bits'[Len(bits) + 1] = dat
                 ELSE bits' = bits
              /\ InStep' <=> InStep
  <2>1. seen' = 1 /\ missed' = missed
    BY <1>15 DEF Rise, NoFault
  <2>2. CASE live /\ ~pull
    <3>1. bits' = Append(bits, dat) /\ dat \in {0, 1}
      BY <1>1, <1>15, <2>2 DEF Rise, Wire, WireInv
    <3>2. PICK n \in 0 .. 7 : Len(bits) = n
      BY <1>14, <1>15, <2>2
    <3>3. bits' \in Seq({0, 1}) /\ Len(bits') = n + 1
      BY <3>1, <3>2, MoreBits DEF ChipInv, ChipTypes
    <3>4. bits'[n + 1] = dat
      BY <3>1, <3>2, AppendProperties DEF ChipInv, ChipTypes
    <3>5. InStep <=> n = Clocks(y)
      BY <1>13, <1>15, <2>2, <3>2
    <3>6. InStep' <=> n + 1 = Clocks(y')
      BY <1>6, <2>2, <3>3 DEF InStep
    <3>7. n = Clocks(y) <=> n + 1 = Clocks(y')
      BY <1>4, <1>5
    <3> QED
      BY <2>1, <2>2, <3>1, <3>2, <3>3, <3>4, <3>5, <3>6, <3>7
  <2>3. CASE ~(live /\ ~pull)
    <3>1. bits' = bits
      BY <1>15, <2>3 DEF Rise
    <3>2. CASE live /\ pull
      <4>1. InStep <=> Clocks(y) = 8
        BY <1>13, <1>15, <3>2
      <4>2. InStep' <=> Clocks(y') \in {0, 9}
        BY <1>6, <2>1, <3>2 DEF InStep
      <4>3. Clocks(y) = 8 <=> Clocks(y') \in {0, 9}
        BY <1>4, <1>5
      <4> QED
        BY <2>1, <2>3, <3>1, <4>1, <4>2, <4>3
    <3>3. CASE ~live
      <4>1. ~InStep /\ ~InStep'
        BY <1>6, <3>3 DEF InStep
      <4> QED
        BY <2>1, <2>3, <3>1, <4>1
    <3> QED
      BY <2>3, <3>2, <3>3
  <2> QED
    BY <2>2, <2>3
<1>16. ASSUME present, live, Fault, UNCHANGED chip
       PROVE  missed' = retry + 1 /\ InStep /\ ~InStep' /\ bits' = bits
  <2>1. missed # retry + 1 /\ missed' = retry + 1 /\ seen' = seen /\ bits' = bits
    BY <1>16 DEF Fault, chip
  <2>2. InStep
    BY <1>1, <1>16, <2>1 DEF SyncInv, InByte
  <2>3. CASE pull
    <3>1. Clocks(y) = 8 /\ Clocks(y') \in {0, 9}
      BY <1>4, <1>5, <1>13, <1>16, <2>2, <2>3
    <3>2. ~InStep'
      BY <1>1, <1>6, <1>16, <2>1, <2>3, <3>1 DEF InStep
    <3> QED
      BY <2>1, <2>2, <3>2
  <2>4. CASE ~pull
    <3>1. Len(bits) = Clocks(y) /\ Len(bits) \in 0 .. 7
      BY <1>13, <1>14, <1>16, <2>2, <2>4
    <3>2. Clocks(y') # Len(bits)
      BY <1>4, <1>5, <3>1
    <3>3. ~InStep'
      BY <1>6, <2>1, <2>4, <3>2 DEF InStep
    <3> QED
      BY <2>1, <2>2, <3>3
  <2> QED
    BY <2>3, <2>4
<1>17. InStep' => present /\ Rise /\ NoFault /\ InStep
  <2>1. CASE ~present /\ UNCHANGED chip
    BY <2>1 DEF InStep, ChipInv, chip
  <2> QED
    BY <1>3, <1>15, <1>16, <2>1
<1>18. InStep => IF pull THEN y = 1 ELSE y # 1
  <2> SUFFICES ASSUME InStep PROVE IF pull THEN y = 1 ELSE y # 1
    OBVIOUS
  <2>1. present
    BY DEF InStep, ChipInv
  <2>2. CASE pull
    BY <1>4, <1>13, <2>1, <2>2
  <2>3. CASE ~pull
    BY <1>4, <1>13, <1>14, <2>1, <2>3
  <2> QED
    BY <2>2, <2>3
<1>19. SyncInv'
  <2> SUFFICES ASSUME present', missed' # retry' + 1 PROVE InStep'
    BY DEF SyncInv
  <2>1. Rise /\ NoFault /\ present
    BY <1>1, <1>3, <1>6, <1>16
  <2>2. InStep
    BY <1>1, <2>1 DEF SyncInv, InByte, NoFault
  <2> QED
    BY <1>15, <2>1, <2>2
<1>20. ValueInv'
  <2> SUFFICES ASSUME stage' = "bit1", InStep', Len(bits') = Clocks(y')
               PROVE  Low(bits') + Scale(Len(bits')) * y' = bytes'[k' + 1] + 256
    BY <1>6 DEF ValueInv, InByte
  <2>1. present /\ live /\ Rise /\ NoFault /\ InStep
    BY <1>6, <1>17 DEF InStep
  <2>2. CASE pull
    <3>1. bits' = <<>> /\ y = 1
      BY <1>15, <1>18, <2>1, <2>2 DEF ChipInv
    <3>2. k' = k + 1 /\ y' = bytes[k + 2] + 256
      BY <1>2, <3>1
    <3>3. k' + 1 = k + 2
      BY <1>1, <3>2
    <3>4. y' \in 1 .. 511 /\ \A n \in 1 .. 511 : 0 + 1 * n = n
      BY <1>5, <3>1
    <3> QED
      BY <1>1, <3>1, <3>2, <3>3, <3>4, LowEmpty
  <2>3. CASE ~pull
    <3>1. y # 1 /\ y' = y \div 2 /\ k' = k /\ dat = y % 2
      BY <1>1, <1>2, <1>18, <2>1, <2>3
    <3>2. bits' = Append(bits, y % 2) /\ Len(bits') = Len(bits) + 1
      BY <1>15, <2>1, <2>3, <3>1
    <3>3. Len(bits) = Clocks(y)
      BY <1>13, <2>1, <2>3
    <3>4. Low(bits) + Scale(Len(bits)) * y = bytes[k + 1] + 256
      BY <1>1, <2>1, <3>3 DEF ValueInv, InByte
    <3>5. bytes[k + 1] + 256 \in Nat
      <4>1. k + 1 \in 1 .. Len(bytes)
        BY <1>1, ByteFacts
      <4>2. bytes[k + 1] \in 0 .. 255
        BY <1>1, <4>1, ByteFacts
      <4>3. \A p \in 0 .. 255 : p + 256 \in Nat
        OBVIOUS
      <4> QED
        BY <4>2, <4>3
    <3>6. y \in Nat /\ y % 2 \in 0 .. 1 /\ y \div 2 \in Nat /\ y = 2 * (y \div 2) + (y % 2)
      BY <1>1, HalfFacts
    <3>7. bits \in Seq({0, 1}) /\ Len(bits) \in 0 .. 7
      BY <1>14, <2>1, <2>3 DEF ChipInv, ChipTypes
    <3>8. Low(Append(bits, y % 2)) + Scale(Len(bits) + 1) * (y \div 2) = bytes[k + 1] + 256
      BY <3>4, <3>5, <3>6, <3>7, AppendFacts
    <3> QED
      BY <1>1, <3>1, <3>2, <3>8
  <2> QED
    BY <2>2, <2>3
<1>21. GotInv'
  <2>1. ASSUME stage' = "bit1", InStep', bytes # Probe PROVE Got(k') /\ seen' = 1
    <3>1. InStep /\ seen' = 1
      BY <1>15, <1>17, <2>1
    <3>2. seen = 0
      BY <1>1, <1>17, <2>1
    <3>3. Got(IF pull THEN k + 1 ELSE k)
      BY <1>1, <2>1, <3>1, <3>2 DEF GotInv, InByte
    <3>4. k' = IF pull THEN k + 1 ELSE k
      BY <1>2, <1>18, <2>1, <3>1
    <3> QED
      BY <3>1, <3>3, <3>4
  <2> QED
    BY <1>1, <1>6, <2>1 DEF GotInv, Got, InByte
<1>22. LateInv'
  <2> SUFFICES ASSUME live, ~InStep', nr = 0, bytes # Probe
               PROVE  ~pull /\ k' = 0 /\ Clocks(y') = Len(bits') + 1 /\ (stage' = "stop1" => bits'[8] = 0)
    BY <1>1, <1>6 DEF LateInv
  <2>1. present
    BY DEF ChipInv
  <2>2. CASE Rise /\ NoFault
    <3>1. ~InStep
      BY <1>15, <2>1, <2>2
    <3>2. ~pull /\ k = 0 /\ Clocks(y) = Len(bits) + 1
      BY <1>1, <3>1 DEF LateInv, InByte
    <3>3. PICK n \in 0 .. 7 : Len(bits) = n
      BY <1>14, <2>1, <3>2
    <3>4. Len(bits') = n + 1 /\ bits'[n + 1] = dat
      BY <1>15, <2>1, <2>2, <3>2, <3>3
    <3>5. CASE y # 1
      <4>1. k' = k /\ stage' = "bit1" /\ Clocks(y') = Clocks(y) + 1
        BY <1>2, <1>5, <3>5
      <4> QED
        BY <3>2, <3>3, <3>4, <4>1
    <3>6. CASE y = 1
      <4>1. fail
        BY <1>1, <3>2, <3>6 DEF AckInv
      <4>2. k' = k /\ stage' = "stop1" /\ Clocks(y') = 9
        BY <1>2, <1>5, <3>6, <4>1
      <4>3. n = 7 /\ dat = 0
        BY <1>1, <1>4, <3>2, <3>3, <3>6
      <4> QED
        BY <3>2, <3>4, <4>2, <4>3
    <3> QED
      BY <3>5, <3>6
  <2>3. CASE Fault /\ UNCHANGED chip
    <3>1. InStep /\ bits' = bits
      BY <1>16, <2>1, <2>3
    <3>2. Got(IF pull /\ seen = 0 THEN k + 1 ELSE k)
      BY <1>1, <3>1 DEF GotInv, InByte
    <3>3. ~pull /\ k = 0
      BY <1>1, <2>1, <3>2 DEF Got
    <3>4. y # 1 /\ Len(bits) = Clocks(y)
      BY <1>13, <1>18, <2>1, <3>1, <3>3
    <3>5. k' = k /\ stage' = "bit1" /\ Clocks(y') = Clocks(y) + 1
      BY <1>2, <1>5, <3>4
    <3> QED
      BY <3>1, <3>3, <3>4, <3>5
  <2> QED
    BY <1>3, <2>1, <2>2, <2>3
<1>23. AckInv'
  <2>1. ASSUME stage' = "stop1", present', fail' PROVE missed' = retry' + 1
    <3> SUFFICES ASSUME missed' # retry + 1 PROVE FALSE
      BY <1>1
    <3>1. Rise /\ NoFault /\ present
      BY <1>3, <1>6, <1>16, <2>1
    <3>2. InStep
      BY <1>1, <3>1 DEF SyncInv, InByte, NoFault
    <3>3. y = 1
      BY <1>2, <2>1
    <3> QED
      BY <1>1, <1>18, <2>1, <3>2, <3>3 DEF AckInv
  <2>2. ASSUME stage' = "stop1", ~fail' PROVE bits' = <<>>
    <3>1. y = 1
      BY <1>2, <2>2
    <3>2. pull /\ bits = <<>>
      BY <1>1, <2>2, <3>1 DEF AckInv, ChipInv
    <3> QED
      BY <1>3, <1>15, <3>2 DEF chip
  <2> QED
    BY <1>6, <2>1, <2>2 DEF AckInv, Ending
<1>24. ShownInv'
  <2>1. ASSUME stage' = "stop1", ~fail' PROVE present /\ Shows(bytes)
    <3>1. y = 1 /\ ~fail /\ k + 1 = Len(bytes)
      BY <1>1, <1>2, <2>1
    <3>2. pull /\ live /\ present
      BY <1>1, <3>1 DEF AckInv, ChipInv
    <3>3. InStep
      BY <1>4, <1>13, <3>1, <3>2
    <3>4. bytes # Probe => Got(Len(bytes))
      BY <1>1, <3>1, <3>2, <3>3 DEF GotInv, InByte
    <3>5. Len(Probe) = 1
      BY CmdFacts DEF Probe
    <3>6. Len(bytes) = 5 => addr = 5 /\ \A j \in 1 .. 3 : segs[j] = bytes[j + 1]
      BY <3>4, <3>5 DEF Got
    <3>7. Len(bytes) = 1 /\ bytes # Probe => (lit <=> bytes = Cmd(\h89))
      BY <1>1, <3>4, CallFacts, BytesFacts DEF Got
    <3> QED
      BY <3>2, <3>6, <3>7 DEF Shows
  <2> QED
    BY <1>1, <1>6, <2>1 DEF ShownInv, Shows, Ending
<1> QED
  BY <1>7, <1>8, <1>9, <1>10, <1>11, <1>12, <1>19, <1>20, <1>21, <1>22, <1>23, <1>24

LEMMA LedStutter == LedInv /\ UNCHANGED ledVars => LedInv'
<1> SUFFICES ASSUME LedInv, UNCHANGED ledVars PROVE LedInv'
  OBVIOUS
<1> USE DEF LedInv, ledVars, call, tries, asked
<1>1. UNCHANGED chip /\ UNCHANGED <<present, seen, live, bits, pull, nr, addr, segs, lit>>
  BY DEF chip
<1>2. CallInv' /\ DriverInv' /\ WireInv'
  BY DEF CallInv, DriverInv, WireInv
<1>3. PulseInv' /\ CountInv' /\ AbsentInv'
  BY <1>1 DEF PulseInv, CountInv, AbsentInv
<1>4. ChipInv'
  BY <1>1, ChipStays
<1>5. StaleInv' /\ AckInv'
  BY <1>1 DEF StaleInv, AckInv, First
<1>6. InStep' <=> InStep
  BY <1>1 DEF InStep
<1>7. SyncInv' /\ ValueInv' /\ LateInv'
  BY <1>1, <1>6 DEF SyncInv, ValueInv, LateInv
<1>8. GotInv'
  BY <1>1, <1>6 DEF GotInv, Got
<1>9. ShownInv'
  BY <1>1 DEF ShownInv, Shows
<1> QED
  BY <1>2, <1>3, <1>4, <1>5, <1>7, <1>8, <1>9

LEMMA LedNextKeeps == LedInv /\ [LedNext]_ledVars => LedInv'
<1> SUFFICES ASSUME LedInv, [LedNext]_ledVars PROVE LedInv'
  OBVIOUS
<1>1. CASE LedCall
  BY <1>1, LedCallKeeps
<1>2. CASE Init1 \/ Init2
  BY <1>2, Init1Keeps, Init2Keeps
<1>3. CASE Start1 \/ Start2 \/ Start3
  BY <1>3, Start1Keeps, Start2Keeps, Start3Keeps
<1>4. CASE Bit1 \/ Bit2 \/ Ack \/ Bit3
  BY <1>4, Bit1Keeps, Bit2Keeps, AckKeeps, Bit3Keeps
<1>5. CASE Stop1 \/ Stop2 \/ Stop3
  BY <1>5, Stop1Keeps, Stop2Keeps, Stop3Keeps
<1>6. CASE Return
  BY <1>6, ReturnKeeps
<1>7. CASE UNCHANGED ledVars
  BY <1>7, LedStutter
<1> QED
  BY <1>1, <1>2, <1>3, <1>4, <1>5, <1>6, <1>7 DEF LedNext, Driver

LEMMA LedInvariant == LedSpec => []LedInv
<1>1. LedInit => LedInv
  BY InitLedInv
<1>2. LedInv /\ [LedNext]_ledVars => LedInv'
  BY LedNextKeeps
<1> QED
  BY <1>1, <1>2, PTL DEF LedSpec

\* Whatever text or brightness the driver takes for accepted is what the display
\* shows between calls, for every text and number, every interrupted byte and
\* any number of missed pulses and start conditions.
THEOREM TheDisplayShowsWhatWasAccepted == LedSpec => []ShowsAccepted
<1>1. LedInv => ShowsAccepted
  <2> SUFFICES ASSUME LedInv, stage = "idle"
               PROVE  /\ text # Unknown => present /\ Update(SubSeq(segs, 1, 3)) = text
                      /\ on # Unknown => present /\ lit = (on = Cmd(\h89))
    BY DEF ShowsAccepted
  <2> USE DEF LedInv
  <2>1. Len(bytes) = 0
    BY EmptyBits DEF CallInv
  <2>2. ASSUME text # Unknown PROVE present /\ Update(SubSeq(segs, 1, 3)) = text
    <3>1. present /\ Shows(text) /\ text \in Texts
      BY <2>1, <2>2 DEF ShownInv, CallInv
    <3>2. PICK d \in [1 .. 3 -> 0 .. 255] : text = Update(d)
      BY <3>1 DEF Texts
    <3>3. Len(text) = 5 /\ \A j \in 1 .. 3 : text[j + 1] = d[j]
      BY <3>2, UpdateFacts
    <3>4. \A j \in 1 .. 3 : segs[j] = d[j]
      BY <3>1, <3>3 DEF Shows
    <3>5. SubSeq(segs, 1, 3) = [j \in 1 .. 3 |-> segs[j]]
      OBVIOUS
    <3>6. SubSeq(segs, 1, 3) = d
      BY <3>4, <3>5
    <3> QED
      BY <3>1, <3>2, <3>6
  <2>3. ASSUME on # Unknown PROVE present /\ lit = (on = Cmd(\h89))
    <3>1. present /\ Shows(on) /\ on \in Settings
      BY <2>1, <2>3 DEF ShownInv, CallInv
    <3>2. Len(on) = 1 /\ on # Probe
      BY <3>1, BytesFacts
    <3>3. lit <=> on = Cmd(\h89)
      BY <3>1, <3>2 DEF Shows
    <3>4. lit \in BOOLEAN
      BY DEF ChipInv, ChipTypes
    <3> QED
      BY <3>1, <3>3, <3>4
  <2> QED
    BY <2>2, <2>3
<1> QED
  BY <1>1, LedInvariant, PTL

\* A call fails with a chip only if the chip missed something in each of its three
\* attempts, whatever a reset found the chip in the middle of.
THEOREM ThreeAttemptsSuffice == LedSpec => []RetriesSuffice
<1>1. LedInv => RetriesSuffice
  BY DEF LedInv, CountInv, RetriesSuffice, DriverInv
<1> QED
  BY <1>1, LedInvariant, PTL
==============================================================================
