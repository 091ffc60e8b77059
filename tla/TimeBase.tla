------------------------------- MODULE TimeBase -------------------------------
(***************************************************************************)
(* time.c and delay_ticks(): 32-bit system time from a 24-bit counter that *)
(* counts down.  time_stamp holds the complement of a recent time, renewed *)
(* by a timer callback; time_now() joins its high byte to the counter and  *)
(* corrects for a reload since.                                            *)
(*                                                                         *)
(* A 32-bit value is a record of its high byte and its low 24 bits, the    *)
(* parts the code takes it apart into.  The callback interrupts the        *)
(* thread anywhere, also between the two reads of time_now().              *)
(***************************************************************************)
EXTENDS Integers

CONSTANTS
  Hi, Lo,   \* values of the high byte and of the 24-bit counter
  Period,   \* time_ms(500): the stamp is renewed that often
  Early,    \* a callback may run that early (SLACK_TICKS of timer.c)
  Late,     \* and its new stamp is stored that late at the latest
  MaxStall, \* ticks between two reads of the counter by the thread, at most
  Delays    \* arguments of delay_ticks()

ASSUME WidthAssumption == Hi \in Nat /\ Lo \in Nat /\ Hi >= 2 /\ Lo >= 2
ASSUME RateAssumption ==
  /\ {Period, Early, Late, MaxStall} \subseteq Nat
  /\ Early < Period
  /\ Period + Late + MaxStall < Lo
ASSUME DelayAssumption == Delays \subseteq Nat

VARIABLES
  clock,  \* the time: what an ideal time_now() returns
  stamp,  \* time_stamp
  age,    \* ticks since the time of which stamp is the complement
  due,    \* ticks until the deadline of time_stamp_timer
  cb,     \* the callback is running, past its time_now()
  cbnow, cbage,   \* its result, and the ticks since
  thread, \* what the thread does
  copy, copyage,  \* its copy of time_stamp, and the age of that
  got,    \* what time_now() returns
  asked, ticks, prev, \* delay_ticks(): argument, what is left of it, last count
  gone,   \* ticks since delay_ticks() was called
  stall   \* ticks since the thread's last read

base     == <<stamp, age, due>>
irq      == <<cb, cbnow, cbage>>
reader   == <<copy, copyage, got>>
delay    == <<asked, ticks, prev, gone>>
timeVars == <<clock, base, irq, thread, reader, delay, stall>>

\* Locals out of scope are Zero.
Zero  == [hi |-> 0, lo |-> 0]
Words == [hi : 0 .. Hi - 1, lo : 0 .. Lo - 1]

Not(w) == [hi |-> Hi - 1 - w.hi, lo |-> Lo - 1 - w.lo]     \* ~w

Succ(w) == IF w.lo < Lo - 1 THEN [w EXCEPT !.lo = w.lo + 1]
           ELSE [hi |-> IF w.hi < Hi - 1 THEN w.hi + 1 ELSE 0, lo |-> 0]

\* STK->VAL: the counter runs down
Stk == Lo - 1 - clock.lo

\* Definitions marked "wrong" are what a plausible mistake would make of the
\* definition after them; they show that a property depends on it.

\* wrong: no correction for a reload of the counter
TimeNowPlain(st) == Not([hi |-> st.hi, lo |-> Stk])

\* The value of time_now() from a time_stamp read earlier and the counter now.
TimeNow(st) ==
  Not([hi |-> IF Stk > st.lo THEN (IF st.hi > 0 THEN st.hi - 1 ELSE Hi - 1) ELSE st.hi,
       lo |-> Stk])

\* time_init(): the stamp is the bare counter, so time starts within 2^24 ticks
\* of its 32-bit wrap.
TimeInit ==
  /\ clock \in {w \in Words : w.hi = Hi - 1}
  /\ stamp = [hi |-> 0, lo |-> Stk] /\ age = 0 /\ due = Period
  /\ cb = FALSE /\ cbnow = Zero /\ cbage = 0
  /\ thread = "idle" /\ copy = Zero /\ copyage = 0 /\ got = Zero
  /\ asked = 0 /\ ticks = 0 /\ prev = 0 /\ gone = 0 /\ stall = 0

(***************************************************************************)
(* time_stamp_update(), called by IRQ_timer().                             *)
(***************************************************************************)
UpdateRead ==
  /\ ~cb /\ due <= Early
  /\ cb' = TRUE /\ cbnow' = TimeNow(stamp) /\ cbage' = 0
  /\ UNCHANGED <<clock, base, thread, reader, delay, stall>>

\* wrong: the stamp is not complemented
UpdateStorePlain ==
  /\ cb
  /\ stamp' = cbnow /\ age' = cbage
  /\ due' = Period - cbage
  /\ cb' = FALSE /\ cbnow' = Zero /\ cbage' = 0
  /\ UNCHANGED <<clock, thread, reader, delay, stall>>

UpdateStore ==
  /\ cb
  /\ stamp' = Not(cbnow) /\ age' = cbage
  /\ due' = Period - cbage           \* timer_set(now + time_ms(500))
  /\ cb' = FALSE /\ cbnow' = Zero /\ cbage' = 0
  /\ UNCHANGED <<clock, thread, reader, delay, stall>>

(***************************************************************************)
(* time_now() in the thread: two reads.  The callback is not running when  *)
(* the thread is.                                                          *)
(***************************************************************************)
NowStamp ==
  /\ ~cb /\ thread = "idle"
  /\ copy' = stamp /\ copyage' = age
  /\ thread' = "now" /\ stall' = 0
  /\ UNCHANGED <<clock, base, irq, got, delay>>

NowCount ==
  /\ ~cb /\ thread = "now"
  /\ got' = TimeNow(copy) /\ copy' = Zero /\ copyage' = 0
  /\ thread' = "returned" /\ stall' = 0
  /\ UNCHANGED <<clock, base, irq, delay>>

NowReturn ==
  /\ ~cb /\ thread = "returned"
  /\ got' = Zero
  /\ thread' = "idle"
  /\ UNCHANGED <<clock, base, irq, copy, copyage, delay, stall>>

(***************************************************************************)
(* delay_ticks(): add up what has gone by between reads of the counter.    *)
(***************************************************************************)
DelayCall(n) ==
  /\ ~cb /\ thread = "idle"
  /\ asked' = n /\ ticks' = n /\ prev' = Stk /\ gone' = 0
  /\ thread' = "delay" /\ stall' = 0
  /\ UNCHANGED <<clock, base, irq, reader>>

DiffFull  == IF prev > Stk THEN prev - Stk ELSE prev - Stk + Lo    \* wrong: 0 is 2^24
DelayDiff == IF prev >= Stk THEN prev - Stk ELSE prev - Stk + Lo   \* & STK_MASK

DelayPoll ==
  /\ ~cb /\ thread = "delay"
  /\ IF ticks <= DelayDiff
     THEN thread' = "delayed" /\ UNCHANGED <<ticks, prev>>
     ELSE thread' = thread /\ ticks' = ticks - DelayDiff /\ prev' = Stk
  /\ stall' = 0
  /\ UNCHANGED <<clock, base, irq, reader, asked, gone>>

DelayReturn ==
  /\ ~cb /\ thread = "delayed"
  /\ asked' = 0 /\ ticks' = 0 /\ prev' = 0 /\ gone' = 0
  /\ thread' = "idle"
  /\ UNCHANGED <<clock, base, irq, reader, stall>>

(***************************************************************************)
(* Time passes, within what the callback and the thread may take.          *)
(***************************************************************************)
ClockTick ==
  /\ due > -Late
  /\ thread \in {"now", "delay"} => stall < MaxStall
  /\ thread \notin {"returned", "delayed"}   \* looked at when the last read was made
  /\ clock' = Succ(clock)
  /\ age' = age + 1 /\ due' = due - 1
  /\ cbage' = IF cb THEN cbage + 1 ELSE cbage
  /\ copyage' = IF thread = "now" THEN copyage + 1 ELSE copyage
  /\ gone' = IF thread = "delay" THEN gone + 1 ELSE gone
  /\ stall' = IF thread \in {"now", "delay"} THEN stall + 1 ELSE stall
  /\ UNCHANGED <<stamp, cb, cbnow, thread, copy, got, asked, ticks, prev>>

TimeNext == \/ UpdateRead \/ UpdateStore \/ NowStamp \/ NowCount \/ NowReturn
            \/ (\E n \in Delays : DelayCall(n)) \/ DelayPoll \/ DelayReturn \/ ClockTick

TimeSpec == TimeInit /\ [][TimeNext]_timeVars

-----------------------------------------------------------------------------
TimeTypeOK ==
  /\ {clock, stamp, cbnow, copy, got} \subseteq Words
  /\ age \in 0 .. Period + Late /\ due \in -Late .. Period
  /\ cb \in BOOLEAN /\ cbage \in 0 .. Early + Late
  /\ thread \in {"idle", "now", "returned", "delay", "delayed"}
  /\ copyage \in 0 .. Period + Late + MaxStall
  /\ asked \in Nat /\ ticks \in 0 .. asked /\ prev \in 0 .. Lo - 1
  /\ gone \in 0 .. asked + MaxStall /\ stall \in 0 .. MaxStall

\* time_now() returns the time, across the reload of the counter, the wrap of
\* the 32-bit time and a renewal of the stamp between its two reads.
NowIsExact == thread = "returned" => got = clock

\* The stamp keeps up: it is the complement of a time less than one counter
\* period ago, although it is renewed from time_now() itself.
Plus(w, n) == \* w + n, for n < Lo
  IF w.lo + n < Lo THEN [w EXCEPT !.lo = w.lo + n]
  ELSE [hi |-> IF w.hi < Hi - 1 THEN w.hi + 1 ELSE 0, lo |-> w.lo + n - Lo]
StampIsRecent == clock = Plus(Not(stamp), age) /\ age < Lo

\* delay_ticks() returns no sooner than asked, and no later than one poll after.
DelayIsExact == thread = "delayed" => gone >= asked /\ gone <= asked + MaxStall

-----------------------------------------------------------------------------
(***************************************************************************)
(* The inductive invariant behind the properties, in named parts.          *)
(***************************************************************************)
\* The deadline of the stamp timer is one period from the stamped time.
StampInv == StampIsRecent /\ age + due = Period

\* The time that the callback has read is cbage ticks old, and was read no
\* sooner than Early before the deadline.
CallbackInv == cb => clock = Plus(cbnow, cbage) /\ cbage + due <= Early

\* The reader's copy of the stamp is less than one counter period old.
ReaderInv == thread = "now" => /\ clock = Plus(Not(copy), copyage)
                               /\ copyage <= Period + Late + stall

\* What is left of a delay, and what has gone by since the last poll.
PollInv == thread = "delay" => gone = (asked - ticks) + stall /\ DelayDiff = stall

TimeInv == TimeTypeOK /\ StampInv /\ CallbackInv /\ ReaderInv /\ PollInv
           /\ NowIsExact /\ DelayIsExact
=============================================================================
