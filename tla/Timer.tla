-------------------------------- MODULE Timer --------------------------------
(***************************************************************************)
(* timer.c: deadline callbacks from one hardware timer.  The active timers *)
(* form a list sorted by deadline; the one-pulse timer TIM4 is programmed  *)
(* for the head of the list, finely if the deadline is near, coarsely and  *)
(* early if it is far; its interrupt runs what is due and programs it for  *)
(* the rest.                                                               *)
(*                                                                         *)
(* Deadlines are kept as the code compares them: left[t] stands for        *)
(* time_diff(now, t->deadline).  A tick of the clock lowers every left[t]  *)
(* and the hardware's count together.  TimeBase has the arithmetic of      *)
(* time_now() itself.                                                      *)
(***************************************************************************)
EXTENDS Integers, FiniteSets, Sequences, SequencesExt

CONSTANTS
  Timers,
  Slack,      \* SLACK_TICKS, 12
  Fine,       \* deltas below it are timed finely, 0x10000
  Unit,       \* time_us(100), 900 ticks: the step of the coarse prescaler
  EarlyUnits, \* coarse timing ends that many units early, 50
  ArrMax,     \* 0xffff
  SetDeltas,  \* how far ahead the thread sets deadlines
  CbDeltas,   \* how far ahead callbacks set theirs
  MaxDelay,   \* ticks that may pass before the CPU's next step
  MaxMask,    \* ticks for which vprintk() keeps all interrupts disabled
  SetGap      \* ticks between two calls of the thread at least: a call takes
              \* longer than the two ticks of the shortest hardware count

ASSUME TimersAssumption == IsFiniteSet(Timers)
\* The coarse range starts where a count of at least one unit is left.
ASSUME ScaleAssumption ==
  /\ {Slack, Fine, Unit, EarlyUnits, ArrMax, MaxDelay, MaxMask, SetGap} \subseteq Nat
  /\ Slack >= 1 /\ Unit >= 1 /\ ArrMax >= 1
  /\ Fine > Slack /\ Fine \div Unit > EarlyUnits
\* SLACK_TICKS is there "to counteract the latency incurred by reprogram_timer()
\* and IRQ_timer()": it covers each step of theirs, and that of an index interrupt
\* between; coarse timing ends earlier by more than that.  How long the thread
\* may keep the interrupt out (MaxMask) has no such limit: it formats a whole
\* message with interrupts disabled.
ASSUME LatencyAssumption == /\ MaxDelay < Slack /\ MaxDelay + Unit <= EarlyUnits * Unit
                            /\ SetGap >= 2
ASSUME DeltaAssumption == /\ SetDeltas \subseteq {d \in Int : d >= -1}
                          /\ CbDeltas \subseteq {d \in Int : d > Slack}

VARIABLES
  q,       \* the list from head
  left,    \* time_diff(now, deadline) of each active timer
  hwOn, hw, \* CEN, and ticks until the counter overflows
  pend,    \* TIM4's interrupt is pending
  pc,      \* where the CPU is
  ret,     \* where it goes on after reprogram_timer()
  delta,   \* argument of reprogram_timer()
  slow     \* ticks that the CPU's next step has been due, or the thread has run

vars == <<q, left, hwOn, hw, pend, pc, ret, delta, slow>>

Active == {q[i] : i \in DOMAIN q}

Init ==
  /\ q = <<>> /\ left = [t \in Timers |-> 0]
  /\ hwOn = FALSE /\ hw = 0 /\ pend = FALSE
  /\ pc = "thread" /\ ret = "thread" /\ delta = 0 /\ slow = 0

\* Definitions marked "wrong" are what a plausible mistake would make of the
\* definition after them; they show that a property depends on it.

\* Ticks until overflow after reprogram_timer(d).
Count(d) ==
  IF d < Fine
  THEN (IF d <= Slack THEN 1 ELSE d - Slack) + 1
  ELSE LET n == d \div Unit - EarlyUnits
       IN ((IF n < ArrMax THEN n ELSE ArrMax) + 1) * Unit

\* reprogram_timer(): stop, load and start the one-pulse timer, with a delta
\* computed a moment ago.
Reprogram ==
  /\ pc = "program"
  /\ hwOn' = TRUE /\ hw' = Count(delta)
  /\ pc' = ret /\ slow' = 0
  /\ UNCHANGED <<q, left, pend, ret, delta>>

(***************************************************************************)
(* timer_set() and timer_cancel(), called by the thread or by a callback.  *)
(* IRQ_save() keeps IRQ_timer() out; time passes on.                       *)
(***************************************************************************)
Without(t) == IF t \in Active THEN RemoveAt(q, CHOOSE i \in DOMAIN q : q[i] = t) ELSE q

\* wrong: the order of the comparison is reversed
PositionReversed(s, d) ==
  CHOOSE p \in 1 .. Len(s) + 1 : /\ \A i \in 1 .. p - 1 : left[s[i]] > d
                                 /\ p <= Len(s) => left[s[p]] <= d

\* Before the first timer whose deadline is not earlier.
Position(s, d) ==
  CHOOSE p \in 1 .. Len(s) + 1 : /\ \A i \in 1 .. p - 1 : left[s[i]] < d
                                 /\ p <= Len(s) => left[s[p]] >= d

NewHead(t) == q = <<>>     \* wrong: only the first timer starts the hardware
IsHead(t) == q'[1] = t

Set(t, d, then) ==
  /\ q' = InsertAt(Without(t), Position(Without(t), d), t)
  /\ left' = [left EXCEPT ![t] = d]
  /\ ret' = then
  /\ IF IsHead(t)
     THEN pc' = "program" /\ delta' = d
     ELSE pc' = then /\ delta' = delta
  /\ slow' = 0
  /\ UNCHANGED <<hwOn, hw, pend>>

Cancel(t, then) ==
  /\ q' = Without(t)
  /\ left' = [left EXCEPT ![t] = 0]
  /\ pc' = then /\ slow' = 0
  /\ UNCHANGED <<hwOn, hw, pend, ret, delta>>

\* A pending interrupt is taken before the thread's next instruction.
ThreadRuns == pc = "thread" /\ ~pend /\ slow >= SetGap

ThreadSet == ThreadRuns /\ \E t \in Timers, d \in SetDeltas : Set(t, d, "thread")

ThreadCancel == ThreadRuns /\ \E t \in Active : Cancel(t, "thread")

(***************************************************************************)
(* vprintk(): from the formatting of the message to the start of the DMA   *)
(* no interrupt is taken.  An overflow meanwhile stays pending until the   *)
(* thread enables interrupts again.                                        *)
(***************************************************************************)
Disable ==
  /\ ThreadRuns
  /\ pc' = "masked" /\ slow' = 0
  /\ UNCHANGED <<q, left, hwOn, hw, pend, ret, delta>>

Enable ==
  /\ pc = "masked"
  /\ pc' = "thread" /\ slow' = 0
  /\ UNCHANGED <<q, left, hwOn, hw, pend, ret, delta>>

(***************************************************************************)
(* IRQ_timer()                                                             *)
(***************************************************************************)
TakeIrq ==
  /\ pc = "thread" /\ pend
  /\ pend' = FALSE /\ pc' = "loop" /\ slow' = 0
  /\ UNCHANGED <<q, left, hwOn, hw, ret, delta>>

\* wrong: left without a wake-up for the head
NotDueQuiet ==
  /\ pc = "loop" /\ q # <<>> /\ left[q[1]] > Slack
  /\ pc' = "thread" /\ slow' = 0
  /\ UNCHANGED <<q, left, hwOn, hw, pend, ret, delta>>

\* The head is not due: program the timer for it and leave.
NotDue ==
  /\ pc = "loop" /\ q # <<>> /\ left[q[1]] > Slack
  /\ delta' = left[q[1]] /\ ret' = "thread"
  /\ pc' = "program" /\ slow' = 0
  /\ UNCHANGED <<q, left, hwOn, hw, pend>>

\* wrong: called but not taken off the list
DueAgain ==
  /\ pc = "loop" /\ q # <<>> /\ left[q[1]] <= Slack
  /\ pc' = "call" /\ slow' = 0
  /\ UNCHANGED <<q, left, hwOn, hw, pend, ret, delta>>

\* The head is due: take it off the list and call it.
Due ==
  /\ pc = "loop" /\ q # <<>> /\ left[q[1]] <= Slack
  /\ q' = Tail(q) /\ left' = [left EXCEPT ![q[1]] = 0]
  /\ pc' = "call" /\ slow' = 0
  /\ UNCHANGED <<hwOn, hw, pend, ret, delta>>

IrqEnd ==
  /\ pc = "loop" /\ q = <<>>
  /\ pc' = "thread" /\ slow' = 0
  /\ UNCHANGED <<q, left, hwOn, hw, pend, ret, delta>>

\* What a callback may do to the timers.
Callback ==
  /\ pc = "call"
  /\ \/ \E t \in Timers, d \in CbDeltas : Set(t, d, "loop")
     \/ \E t \in Active : Cancel(t, "loop")
     \/ pc' = "loop" /\ slow' = 0 /\ UNCHANGED <<q, left, hwOn, hw, pend, ret, delta>>

(***************************************************************************)
(* Time                                                                    *)
(***************************************************************************)
Busy == pc # "thread" \/ pend

Allowed == IF pc = "masked" THEN MaxMask ELSE MaxDelay

Tick ==
  /\ Busy => slow < Allowed
  /\ left' = [t \in Timers |-> IF t \in Active THEN left[t] - 1 ELSE 0]
  /\ hw' = IF hwOn THEN hw - 1 ELSE hw
  /\ hwOn' = (hwOn /\ hw > 1)
  /\ pend' = (pend \/ (hwOn /\ hw = 1))
  /\ slow' = IF Busy THEN slow + 1
             ELSE IF pend' THEN 0 ELSE IF slow < SetGap THEN slow + 1 ELSE slow
  /\ UNCHANGED <<q, pc, ret, delta>>

Cpu == Reprogram \/ Enable \/ TakeIrq \/ NotDue \/ Due \/ IrqEnd \/ Callback

Next == ThreadSet \/ ThreadCancel \/ Disable \/ Cpu \/ Tick

\* The CPU does not stop, and neither does time.
Spec == Init /\ [][Next]_vars /\ WF_vars(Cpu) /\ WF_vars(Tick)

-----------------------------------------------------------------------------
(***************************************************************************)
(* Properties.                                                             *)
(***************************************************************************)
\* The list is sorted by deadline and holds a timer at most once, whatever mix
\* of sets, re-sets, cancels and callbacks has come before.
Sorted == /\ \A i, j \in DOMAIN q : i < j => left[q[i]] <= left[q[j]] /\ q[i] # q[j]

\* Outside the handler an active timer always has a wake-up ahead of it: the
\* interrupt is pending, or the counter overflows by the deadline of the head
\* (or within two ticks, if that has passed or is about to).
WakeupArmed ==
  (pc \in {"thread", "masked"} /\ q # <<>>) =>
    pend \/ (hwOn /\ (hw <= left[q[1]] \/ hw <= 2))

\* The delays of the CPU are all that makes a callback late.  A timer is called,
\* cancelled or set again before it is overdue by more than: what its interrupt
\* comes late, and a delay each for taking the interrupt and for the look at the
\* list, and two for the callback and the next look of each timer before it.  The
\* interrupt comes late by a vprintk() during which it has been pending, once at
\* most, since nothing the thread does goes before a pending interrupt; or, for a
\* timer that was overdue when it was set (one tick), by the delay for programming
\* it and the shortest hardware count (two).
WakeLate  == IF MaxMask > MaxDelay + 3 THEN MaxMask ELSE MaxDelay + 3
LateBound == WakeLate + 2 * Cardinality(Timers) * MaxDelay
OnTime == \A t \in Active : left[t] >= - LateBound

\* The interrupt never keeps the CPU for good: the handler ends.
HandlerEnds == pc = "loop" ~> pc = "thread"
=============================================================================
