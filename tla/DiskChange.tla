------------------------------ MODULE DiskChange ------------------------------
(***************************************************************************)
(* Drive control (floppy.c) and image selection (da.c) against a device    *)
(* under test.  The testbed steps the head, selects an image through the   *)
(* direct-access track, and then follows the disk change by the DSKCHG     *)
(* line, its interrupt and the READY line, under time-outs that are BUGs.  *)
(*                                                                         *)
(* The device is external: it is the FlashFloppy that floppy.c expects, at *)
(* any speed within its bounds.  Time is in ticks; lines that are asserted *)
(* are TRUE.  Only unit 0 is used by the program.                          *)
(***************************************************************************)
EXTENDS Integers

CONSTANTS
  DaCyl,       \* the direct-access cylinder, 255: the last one
  Cyls,        \* the cylinders the tests seek to
  Images,      \* the images they select
  StepTime, SettleTime,                          \* 2 ms and 10 ms
  EjectLimit, MountLimit, ReadyLimit, MotorLimit,\* 1000, 5000, 1000, 500 ms
  EjectBy, MountBy, ReadyBy,   \* the device meets its obligations in this time
  MaxStall     \* the longest time the thread is kept from its next step

ASSUME CylAssumption == DaCyl \in 1 .. 255 /\ Cyls \subseteq 0 .. DaCyl
ASSUME TimeAssumption ==
  /\ StepTime \in Nat \ {0} /\ {SettleTime, MaxStall} \subseteq Nat
  /\ {EjectLimit, MountLimit, ReadyLimit, MotorLimit} \subseteq Nat
  /\ {EjectBy, MountBy, ReadyBy} \subseteq Nat
\* What the device and the interrupts may take of each time-out: the eject
\* begins before the seek's last delays, a mounted disk shows only after one
\* more step, and the thread may be late for a sample and for the comparison.
ASSUME InTimeAssumption ==
  /\ EjectBy + MaxStall <= EjectLimit + StepTime + SettleTime /\ MaxStall <= EjectLimit
  /\ MountBy + StepTime + 2 * MaxStall <= MountLimit
  /\ ReadyBy + MaxStall <= ReadyLimit + StepTime

VARIABLES
  pc, ret,     \* where the thread is, and where floppy_seek() returns to
  cyl,         \* drive[0].cyl
  target,      \* the argument of floppy_seek()
  name,        \* the argument of da_select_image()
  count,       \* dskchg.count
  bug,         \* a BUG_ON has fired
  motor,       \* the MOTOR line
  \* the device
  head,        \* where its head is
  image,       \* the image in the drive, or none while it changes
  command,     \* the image it has been told to change to, or none
  dskchg, ready,   \* its output lines
  edge,        \* DSKCHG has been asserted and the interrupt is pending
  \* time
  elapsed,     \* since the time stamp the thread compares with
  delay,       \* left of a delay_ms() of the thread
  stall,       \* since the thread could take its next step
  age          \* since the device's current obligation began

thread == <<pc, ret, cyl, target, name, bug>>
device == <<head, image, command, dskchg, ready>>
clock  == <<elapsed, delay, stall, age>>
vars   == <<thread, count, motor, device, edge, clock>>

none == "none"
ASSUME ImageAssumption == none \notin Images
trk0 == head = 0
Longest == MountLimit + EjectLimit + ReadyLimit + MotorLimit

Init ==
  /\ pc = "init" /\ ret = "idle" /\ cyl = 0 /\ target = 0 /\ name = none
  /\ count = 0 /\ bug = FALSE /\ motor = FALSE
  /\ head \in 0 .. DaCyl /\ image \in Images /\ command = none
  /\ dskchg \in BOOLEAN /\ ready \in BOOLEAN
  /\ edge = TRUE                      \* floppy_init() sets it pending
  /\ elapsed = 0 /\ delay = 0 /\ stall = 0 /\ age = 0

(***************************************************************************)
(* The device's side of a step pulse, and of the time that passes.         *)
(***************************************************************************)
\* A step moves the head unless it is at the stop, and clears DSKCHG if
\* there is a disk.
Step(cylinders) ==
  /\ head' = IF head + cylinders \in 0 .. DaCyl THEN head + cylinders ELSE head
  /\ dskchg' = (dskchg /\ image = none)
  /\ UNCHANGED <<image, command, ready>>

Obligation == IF command # none /\ image # none /\ trk0 THEN "eject"
              ELSE IF image = none THEN "mount"
              ELSE IF motor /\ ~ready THEN "ready" ELSE none
DueBy == CASE Obligation = "eject" -> EjectBy
           [] Obligation = "mount" -> MountBy
           [] Obligation = "ready" -> ReadyBy
           [] OTHER -> 0

Eject ==
  /\ Obligation = "eject"
  /\ image' = none /\ ready' = FALSE /\ dskchg' = TRUE
  /\ edge' = (edge \/ ~dskchg)
  /\ age' = 0
  /\ UNCHANGED <<thread, count, motor, head, command, elapsed, delay, stall>>

Mount ==
  /\ Obligation = "mount"
  /\ image' = command /\ command' = none /\ age' = 0
  /\ UNCHANGED <<thread, count, motor, head, dskchg, ready, edge, elapsed, delay, stall>>

\* READY follows the motor, with a device that does not ignore it.
SpinUp ==
  /\ Obligation = "ready"
  /\ ready' = TRUE /\ age' = 0
  /\ UNCHANGED <<thread, count, motor, head, image, command, dskchg, edge,
                 elapsed, delay, stall>>

SpinDown ==
  /\ ~motor /\ ready
  /\ ready' = FALSE /\ age' = 0
  /\ UNCHANGED <<thread, count, motor, head, image, command, dskchg, edge,
                 elapsed, delay, stall>>

Least(a, b) == IF a <= b THEN a ELSE b

Tick ==
  /\ ~edge                            \* an interrupt is taken at once
  /\ Obligation # none => age < DueBy
  /\ pc # "idle" /\ delay = 0 => stall < MaxStall
  /\ elapsed' = Least(elapsed + 1, Longest)
  /\ delay' = IF delay > 0 THEN delay - 1 ELSE 0
  /\ stall' = IF delay = 0 /\ pc # "idle" THEN stall + 1 ELSE 0
  /\ age' = IF Obligation # none THEN age + 1 ELSE 0
  /\ UNCHANGED <<thread, count, motor, device, edge>>

IRQ_DSKCHG_changed ==
  /\ edge
  /\ edge' = FALSE /\ count' = count + 1
  /\ UNCHANGED <<thread, motor, device, clock>>

(***************************************************************************)
(* The thread.  A line is sampled in one step and acted upon in the next.  *)
(***************************************************************************)
\* The thread takes a step that ends in a delay of d, and restarts the
\* elapsed time if it takes a time stamp.
Runs(d, stamp) ==
  /\ delay = 0 /\ ~bug
  /\ delay' = d /\ stall' = 0
  /\ elapsed' = IF stamp THEN 0 ELSE elapsed

\* A step of the thread may change what the device has to do next.
Watch == age' = IF Obligation' = Obligation THEN age ELSE 0

\* Definitions marked "wrong" are what a plausible mistake would make of the
\* definition after them; they show that a property depends on it.

\* wrong: trusts the head to be at cylinder 0
FindNothing ==
  /\ pc = "init"
  /\ pc' = "idle" /\ cyl' = 0 /\ Runs(0, FALSE)
  /\ UNCHANGED <<ret, target, name, bug, count, motor, device, edge>>

\* floppy_init: step out until TRK0
FindTrack0 ==
  /\ pc = "init"
  /\ IF trk0 THEN pc' = "idle" /\ cyl' = 0 /\ Runs(0, FALSE) /\ UNCHANGED device
     ELSE Step(-1) /\ Runs(StepTime, FALSE) /\ UNCHANGED <<pc, cyl>>
  /\ UNCHANGED <<ret, target, name, bug, count, motor, edge>>

floppy_select ==
  /\ pc = "idle"
  /\ motor' = TRUE /\ Runs(0, FALSE)
  /\ UNCHANGED <<thread, count, device, edge>>

SeekTo(c, r) == /\ target' = c /\ ret' = r
                /\ pc' = IF c = 0 THEN "seek0" ELSE "seek"

floppy_seek(c) ==
  /\ pc = "idle"
  /\ SeekTo(c, "idle") /\ Runs(0, FALSE)
  /\ UNCHANGED <<cyl, name, bug, count, motor, device, edge>>

\* cylinder 0 is found by TRK0 ...
Seek0 ==
  /\ pc = "seek0"
  /\ IF trk0 THEN pc' = "seek" /\ cyl' = 0 /\ Runs(0, FALSE) /\ UNCHANGED device
     ELSE Step(-1) /\ Runs(StepTime, FALSE) /\ UNCHANGED <<pc, cyl>>
  /\ UNCHANGED <<ret, target, name, bug, count, motor, edge>>

\* ... and all others by counting from the cylinder the driver believes in.
Seek ==
  /\ pc = "seek"
  /\ \/ cyl < target /\ Step(1) /\ cyl' = cyl + 1 /\ Runs(StepTime, FALSE)
                     /\ UNCHANGED pc
     \/ cyl > target /\ Step(-1) /\ cyl' = cyl - 1 /\ Runs(StepTime, FALSE)
                     /\ UNCHANGED pc
     \/ cyl = target /\ pc' = ret /\ Runs(SettleTime, FALSE)
                     /\ UNCHANGED <<cyl, device>>
  /\ UNCHANGED <<ret, target, name, bug, count, motor, edge>>

\* da_select_image: to the direct-access track; there the command sector is
\* written between two reads of the status sector, which the device answers
\* only on that track.
da_select_image(i) ==
  /\ pc = "idle" /\ motor
  /\ name' = i /\ SeekTo(DaCyl, "command") /\ Runs(0, FALSE)
  /\ UNCHANGED <<cyl, bug, count, motor, device, edge>>

SelectName ==
  /\ pc = "command" /\ head = DaCyl
  /\ command' = name /\ pc' = "change" /\ Runs(0, FALSE)
  /\ UNCHANGED <<ret, cyl, target, name, bug, count, motor, head, image, dskchg,
                 ready, edge>>

BUG_ON(condition, next) ==
  IF condition THEN bug' = TRUE /\ UNCHANGED pc ELSE pc' = next /\ UNCHANGED bug

\* wrong: starts from an old count
ResetNothing ==
  /\ pc = "change"
  /\ pc' = "return_to_0" /\ Runs(0, FALSE)
  /\ UNCHANGED <<ret, cyl, target, name, bug, count, motor, device, edge>>

\* floppy_disk_change: reset the counter, and only then trigger the change
ResetCount ==
  /\ pc = "change"
  /\ count' = 0 /\ pc' = "return_to_0" /\ Runs(0, FALSE)
  /\ UNCHANGED <<ret, cyl, target, name, bug, motor, device, edge>>

ReturnTo0 ==
  /\ pc = "return_to_0"
  /\ IF trk0 THEN bug' = TRUE /\ UNCHANGED <<pc, ret, target>>
     ELSE SeekTo(0, "t0") /\ UNCHANGED bug
  /\ Runs(0, FALSE)
  /\ UNCHANGED <<cyl, name, count, motor, device, edge>>

\* wrong: resets the count only when the wait begins
StampReset(from, to) ==
  /\ pc = from /\ pc' = to /\ count' = 0 /\ Runs(0, TRUE)
  /\ UNCHANGED <<ret, cyl, target, name, bug, motor, device, edge>>

\* Each wait takes a time stamp, then samples and compares in turn.
Stamp(from, to) ==
  /\ pc = from /\ pc' = to /\ Runs(0, TRUE)
  /\ UNCHANGED <<ret, cyl, target, name, bug, count, motor, device, edge>>

EjectPoll ==
  /\ pc = "eject"
  /\ pc' = IF count = 0 THEN "eject_check" ELSE "t1"
  /\ Runs(0, FALSE)
  /\ UNCHANGED <<ret, cyl, target, name, bug, count, motor, device, edge>>

EjectCheck ==
  /\ pc = "eject_check"
  /\ BUG_ON(elapsed > EjectLimit, "eject") /\ Runs(0, FALSE)
  /\ UNCHANGED <<ret, cyl, target, name, count, motor, device, edge>>

MountPoll ==
  /\ pc = "mount"
  /\ pc' = IF dskchg THEN "mount_check" ELSE "motor_on"
  /\ Runs(0, FALSE)
  /\ UNCHANGED <<ret, cyl, target, name, bug, count, motor, device, edge>>

MountCheck ==
  /\ pc = "mount_check"
  /\ BUG_ON(elapsed > MountLimit, "mount_step") /\ Runs(0, FALSE)
  /\ UNCHANGED <<ret, cyl, target, name, count, motor, device, edge>>

\* "We step heads and poll DSKCHG."
MountStep ==
  /\ pc = "mount_step"
  /\ Step(-1) /\ Runs(StepTime, FALSE)
  /\ cyl' = IF cyl > 0 THEN cyl - 1 ELSE 0
  /\ pc' = "mount"
  /\ UNCHANGED <<ret, target, name, bug, count, motor, edge>>

SetMotor(from, to, on) ==
  /\ pc = from /\ pc' = to
  /\ motor' = on /\ Runs(0, TRUE)
  /\ UNCHANGED <<ret, cyl, target, name, bug, count, device, edge>>

ReadyPoll ==
  /\ pc = "ready"
  /\ pc' = IF ready THEN "changed" ELSE "ready_check"
  /\ Runs(0, FALSE)
  /\ UNCHANGED <<ret, cyl, target, name, bug, count, motor, device, edge>>

ReadyCheck ==
  /\ pc = "ready_check"
  /\ BUG_ON(elapsed > ReadyLimit, "ready") /\ Runs(0, FALSE)
  /\ UNCHANGED <<ret, cyl, target, name, count, motor, device, edge>>

Changed ==
  /\ pc = "changed" /\ pc' = "idle" /\ Runs(0, FALSE)
  /\ UNCHANGED <<ret, cyl, target, name, bug, count, motor, device, edge>>

\* test_ready: motor off; READY is sampled until it drops or time is up, and
\* then once more
MotorOff == ret = "idle" /\ motor /\ SetMotor("idle", "off", FALSE)

OffPoll ==
  /\ pc = "off"
  /\ pc' = IF ready /\ elapsed < MotorLimit THEN "off" ELSE "off_again"
  /\ Runs(0, FALSE)
  /\ UNCHANGED <<ret, cyl, target, name, bug, count, motor, device, edge>>

\* wrong: waits for READY with the motor off
OffAgainStays == IF ready THEN SetMotor("off_again", "idle", TRUE)
                 ELSE SetMotor("off_again", "on", FALSE)

OffAgain == IF ready THEN SetMotor("off_again", "idle", TRUE)
            ELSE SetMotor("off_again", "on", TRUE)

OnPoll ==
  /\ pc = "on"
  /\ pc' = IF ready THEN "idle" ELSE "on"
  /\ Runs(0, FALSE)
  /\ UNCHANGED <<ret, cyl, target, name, bug, count, motor, device, edge>>

floppy_disk_change ==
  \/ ResetCount \/ ReturnTo0
  \/ Stamp("t0", "eject") \/ EjectPoll \/ EjectCheck
  \/ Stamp("t1", "mount") \/ MountPoll \/ MountCheck \/ MountStep
  \/ SetMotor("motor_on", "ready", TRUE) \/ ReadyPoll \/ ReadyCheck \/ Changed

Call ==
  /\ \/ floppy_select \/ MotorOff
     \/ \E c \in Cyls : floppy_seek(c)
     \/ \E i \in Images : da_select_image(i)
  /\ Watch
Thread ==
  /\ \/ FindTrack0 \/ Seek0 \/ Seek \/ SelectName \/ floppy_disk_change
     \/ OffPoll \/ OffAgain \/ OnPoll
  /\ Watch
Device == Eject \/ Mount \/ SpinUp \/ SpinDown
Next == Thread \/ Call \/ Device \/ IRQ_DSKCHG_changed \/ Tick

Spec == Init /\ [][Next]_vars
FairSpec == Spec /\ WF_vars(Thread) /\ WF_vars(Tick)
                 /\ WF_vars(Eject \/ Mount \/ SpinUp) /\ WF_vars(IRQ_DSKCHG_changed)

(***************************************************************************)
(* Properties                                                              *)
(***************************************************************************)
\* Between calls the driver's idea of the cylinder is where the head is,
\* wherever the head was at the start and however often the disk-change
\* loop has stepped it against the stop.
CylIsHead == pc = "idle" => cyl = head

\* When floppy_disk_change() returns, the image that was asked for is in the
\* drive, DSKCHG is clear and the drive is ready at cylinder 0: an edge left
\* from before the call, or lines the device has not yet moved, never pass
\* for the change.
ChangeComplete ==
  pc = "changed" =>
    /\ image = name /\ command = none
    /\ ~dskchg /\ ready /\ head = 0 /\ cyl = 0

\* A device that meets its bounds trips no BUG_ON: no edge is missed, and no
\* time-out strikes although the event came in time and only the thread was
\* late to look.
NoBug == ~bug

\* Every call returns.
CallsReturn == []<>(pc = "idle")
=============================================================================
