----------------------------- MODULE TimeProofs -----------------------------
(***************************************************************************)
(* Proofs about the time base and the timers.  TimeBase: for every counter *)
(* width, renewal period and delay of the callback that fit together       *)
(* (RateAssumption), the time is exact.  Timer: for any number of timers, any *)
(* scale of the hardware timer and any deadlines, the list stays sorted, a *)
(* wake-up is always armed, and no callback is later than the delays of the *)
(* CPU make it.                                                            *)
(***************************************************************************)
EXTENDS Timer, TimeBase, SequenceTheorems, FiniteSetTheorems, WellFoundedInduction, TLAPS

(***************************************************************************)
(* TimeBase: words of two parts.                                           *)
(***************************************************************************)
LEMMA WordParts ==
  ASSUME NEW w \in Words
  PROVE  /\ w.hi \in 0 .. Hi - 1 /\ w.lo \in 0 .. Lo - 1
         /\ w = [hi |-> w.hi, lo |-> w.lo]
BY DEF Words

LEMMA WordEqual ==
  ASSUME NEW v \in Words, NEW w \in Words, v.hi = w.hi, v.lo = w.lo
  PROVE  v = w
BY DEF Words

LEMMA NotWord ==
  ASSUME NEW w \in Words
  PROVE  Not(w) \in Words /\ Not(Not(w)) = w
<1>1. Not(w) \in Words
  BY WordParts, WidthAssumption DEF Words, Not
<1>2. Not(Not(w)).hi = w.hi /\ Not(Not(w)).lo = w.lo
  BY WordParts, WidthAssumption DEF Not
<1>3. Not(Not(w)) \in Words
  BY WordParts, <1>2 DEF Words, Not
<1>4. QED
  BY <1>1, <1>2, <1>3, WordEqual

LEMMA PlusWord ==
  ASSUME NEW w \in Words, NEW n \in 0 .. Lo - 1
  PROVE  /\ Plus(w, n) \in Words
         /\ Plus(w, n).lo = (IF w.lo + n < Lo THEN w.lo + n ELSE w.lo + n - Lo)
         /\ Plus(w, n).hi = (IF w.lo + n < Lo THEN w.hi
                             ELSE IF w.hi < Hi - 1 THEN w.hi + 1 ELSE 0)
<1>1. w.hi \in 0 .. Hi - 1 /\ w.lo \in 0 .. Lo - 1 /\ w = [hi |-> w.hi, lo |-> w.lo]
  BY WordParts
<1>2. CASE w.lo + n < Lo
  <2>1. Plus(w, n) = [hi |-> w.hi, lo |-> w.lo + n]
    BY <1>1, <1>2 DEF Plus
  <2>2. QED
    BY <1>1, <1>2, <2>1, WidthAssumption DEF Words
<1>3. CASE ~(w.lo + n < Lo)
  <2>1. Plus(w, n) = [hi |-> IF w.hi < Hi - 1 THEN w.hi + 1 ELSE 0, lo |-> w.lo + n - Lo]
    BY <1>3 DEF Plus
  <2>2. QED
    BY <1>1, <1>3, <2>1, WidthAssumption DEF Words
<1>4. QED
  BY <1>2, <1>3

LEMMA SuccWord ==
  ASSUME NEW w \in Words
  PROVE  /\ Succ(w) \in Words /\ Succ(w) = Plus(w, 1)
         /\ Succ(w).lo = (IF w.lo < Lo - 1 THEN w.lo + 1 ELSE 0)
         /\ Succ(w).hi = (IF w.lo < Lo - 1 THEN w.hi
                          ELSE IF w.hi < Hi - 1 THEN w.hi + 1 ELSE 0)
<1>1. w.hi \in 0 .. Hi - 1 /\ w.lo \in 0 .. Lo - 1 /\ w = [hi |-> w.hi, lo |-> w.lo]
  BY WordParts
<1>2. Succ(w) = Plus(w, 1)
  BY <1>1, WidthAssumption DEF Succ, Plus
<1>3. 1 \in 0 .. Lo - 1
  BY WidthAssumption
<1>4. QED
  BY <1>1, <1>2, <1>3, PlusWord, WidthAssumption

\* The clock that is n after w is n + 1 after it one tick later.
LEMMA SuccPlus ==
  ASSUME NEW w \in Words, NEW n \in 0 .. Lo - 2
  PROVE  Succ(Plus(w, n)) = Plus(w, n + 1)
<1>1. w.hi \in 0 .. Hi - 1 /\ w.lo \in 0 .. Lo - 1
  BY WordParts
<1>2. n \in 0 .. Lo - 1 /\ n + 1 \in 0 .. Lo - 1
  BY WidthAssumption
<1>3. Plus(w, n) \in Words /\ Plus(w, n + 1) \in Words
  BY <1>2, PlusWord
<1> DEFINE v == Plus(w, n)
           u == Plus(w, n + 1)
<1>4. /\ v.lo = (IF w.lo + n < Lo THEN w.lo + n ELSE w.lo + n - Lo)
      /\ v.hi = (IF w.lo + n < Lo THEN w.hi ELSE IF w.hi < Hi - 1 THEN w.hi + 1 ELSE 0)
      /\ u.lo = (IF w.lo + (n + 1) < Lo THEN w.lo + (n + 1) ELSE w.lo + (n + 1) - Lo)
      /\ u.hi = (IF w.lo + (n + 1) < Lo THEN w.hi ELSE IF w.hi < Hi - 1 THEN w.hi + 1 ELSE 0)
  BY <1>2, PlusWord
<1>5. /\ Succ(v).lo = (IF v.lo < Lo - 1 THEN v.lo + 1 ELSE 0)
      /\ Succ(v).hi = (IF v.lo < Lo - 1 THEN v.hi ELSE IF v.hi < Hi - 1 THEN v.hi + 1 ELSE 0)
  BY <1>3, SuccWord
<1>6. Succ(v).lo = u.lo /\ Succ(v).hi = u.hi
  <2> HIDE DEF v, u
  <2>1. QED
    BY <1>1, <1>2, <1>4, <1>5, WidthAssumption
<1>7. QED
  BY <1>3, <1>6, SuccWord, WordEqual

LEMMA PlusZero ==
  ASSUME NEW w \in Words
  PROVE  Plus(w, 0) = w
<1>1. 0 \in 0 .. Lo - 1 /\ w.lo \in 0 .. Lo - 1 /\ w.lo + 0 < Lo
  BY WordParts, WidthAssumption
<1>2. Plus(w, 0) \in Words /\ Plus(w, 0).hi = w.hi /\ Plus(w, 0).lo = w.lo + 0
  BY <1>1, PlusWord
<1>3. QED
  BY <1>1, <1>2, WordEqual

(***************************************************************************)
(* The arithmetic of time_now(): with a stamp less than one counter period *)
(* old, joining the high byte to the counter and taking 2^24 off if the    *)
(* counter has been reloaded gives the time.                               *)
(***************************************************************************)
THEOREM TimeNowIsExact ==
  ASSUME clock \in Words, NEW st \in Words, NEW n \in 0 .. Lo - 1,
         clock = Plus(Not(st), n)
  PROVE  TimeNow(st) = clock
<1>1. /\ st.hi \in 0 .. Hi - 1 /\ st.lo \in 0 .. Lo - 1
      /\ clock.hi \in 0 .. Hi - 1 /\ clock.lo \in 0 .. Lo - 1
  BY WordParts
<1>2. Not(st).hi = Hi - 1 - st.hi /\ Not(st).lo = Lo - 1 - st.lo /\ Not(st) \in Words
  BY NotWord DEF Not
<1>3. /\ clock.lo = (IF Not(st).lo + n < Lo THEN Not(st).lo + n ELSE Not(st).lo + n - Lo)
      /\ clock.hi = (IF Not(st).lo + n < Lo THEN Not(st).hi
                     ELSE IF Not(st).hi < Hi - 1 THEN Not(st).hi + 1 ELSE 0)
  BY <1>2, PlusWord
<1> DEFINE h == IF Stk > st.lo THEN (IF st.hi > 0 THEN st.hi - 1 ELSE Hi - 1) ELSE st.hi
<1>4. Stk > st.lo <=> ~(Not(st).lo + n < Lo)
  BY <1>1, <1>2, <1>3, WidthAssumption DEF Stk
<1>5. Hi - 1 - h = clock.hi /\ Lo - 1 - Stk = clock.lo
  BY <1>1, <1>2, <1>3, <1>4, WidthAssumption DEF Stk
<1>6. TimeNow(st) = [hi |-> Hi - 1 - h, lo |-> Lo - 1 - Stk]
  BY DEF TimeNow, Not
<1>7. QED
  BY <1>5, <1>6, WordParts

(***************************************************************************)
(* Induction.                                                              *)
(***************************************************************************)
\* In every state of the invariant the current stamp gives the time.
LEMMA StampGivesTime ==
  ASSUME TimeInv
  PROVE  TimeNow(stamp) = clock
<1>1. age \in 0 .. Lo - 1
  BY WidthAssumption, RateAssumption DEF TimeInv, TimeTypeOK, StampInv, StampIsRecent
<1>2. clock \in Words /\ stamp \in Words /\ clock = Plus(Not(stamp), age)
  BY DEF TimeInv, TimeTypeOK, StampInv, StampIsRecent
<1>3. QED
  BY <1>1, <1>2, TimeNowIsExact

LEMMA ZeroWord == Zero \in Words
BY WidthAssumption DEF Zero, Words

LEMMA StkRange ==
  ASSUME TimeTypeOK
  PROVE  Stk \in 0 .. Lo - 1
<1>1. clock.lo \in 0 .. Lo - 1
  BY WordParts DEF TimeTypeOK
<1>2. QED
  BY <1>1, WidthAssumption DEF Stk

LEMMA TimeInitInv == TimeInit => TimeInv
<1> SUFFICES ASSUME TimeInit PROVE TimeInv
  OBVIOUS
<1>1. clock \in Words /\ clock.hi = Hi - 1 /\ clock.lo \in 0 .. Lo - 1
  BY WordParts DEF TimeInit
<1>2. Stk \in 0 .. Lo - 1 /\ Stk = Lo - 1 - clock.lo
  BY <1>1, WidthAssumption DEF Stk
<1>3. stamp \in Words /\ stamp.hi = 0 /\ stamp.lo = Stk
  BY <1>2, WidthAssumption DEF TimeInit, Words
<1>4. Not(stamp) = clock
  <2>1. Not(stamp).hi = clock.hi /\ Not(stamp).lo = clock.lo
    BY <1>1, <1>2, <1>3, WidthAssumption DEF Not
  <2>2. QED
    BY <1>1, <1>3, <2>1, NotWord, WordEqual
<1>5. clock = Plus(Not(stamp), age) /\ age < Lo
  BY <1>1, <1>4, PlusZero, WidthAssumption DEF TimeInit
<1>6. TimeTypeOK
  <2>1. {clock, stamp, cbnow, copy, got} \subseteq Words
    BY <1>1, <1>3, ZeroWord DEF TimeInit
  <2>2. /\ {Period, Early, Late, MaxStall} \subseteq Nat /\ Lo \in Nat /\ Lo >= 2
    BY RateAssumption, WidthAssumption
  <2>3. /\ 0 \in 0 .. Period + Late /\ Period \in -Late .. Period /\ 0 \in 0 .. Early + Late
        /\ 0 \in 0 .. Period + Late + MaxStall /\ 0 \in 0 .. Lo - 1
        /\ 0 \in 0 .. 0 + MaxStall /\ 0 \in 0 .. MaxStall /\ 0 \in 0 .. 0 /\ 0 \in Nat
    BY <2>2
  <2>4. QED
    BY <2>1, <2>3 DEF TimeInit, TimeTypeOK
<1>7. QED
  BY <1>5, <1>6, RateAssumption DEF TimeInit, TimeInv, StampInv, StampIsRecent, CallbackInv,
                                    ReaderInv, PollInv, NowIsExact, DelayIsExact

LEMMA UpdateStep ==
  ASSUME TimeInv, UpdateRead \/ UpdateStore
  PROVE  TimeInv'
<1>0. TimeTypeOK /\ StampInv /\ CallbackInv /\ ReaderInv /\ PollInv /\ NowIsExact /\ DelayIsExact
  BY DEF TimeInv
<1>1. UNCHANGED <<clock, thread, copy, copyage, got, asked, ticks, prev, gone, stall>>
  BY DEF UpdateRead, UpdateStore, reader, delay
<1>2. ReaderInv' /\ NowIsExact' /\ DelayIsExact' /\ PollInv'
  BY <1>0, <1>1 DEF ReaderInv, NowIsExact, DelayIsExact, PollInv, DelayDiff, Stk, Plus, Not
<1>3. CASE UpdateRead
  <2>1. /\ cb' = TRUE /\ cbnow' = clock /\ cbage' = 0 /\ due <= Early
        /\ UNCHANGED <<stamp, age, due>>
    BY <1>3, StampGivesTime DEF UpdateRead, base
  <2>2. TimeTypeOK'
    BY <1>0, <1>1, <2>1, RateAssumption DEF TimeTypeOK
  <2>3. StampInv'
    BY <1>0, <1>1, <2>1 DEF StampInv, StampIsRecent, Plus, Not
  <2>4. CallbackInv'
    BY <1>0, <1>1, <2>1, PlusZero DEF CallbackInv, TimeTypeOK
  <2>5. QED
    BY <1>2, <2>2, <2>3, <2>4 DEF TimeInv
<1>4. CASE UpdateStore
  <2>1. /\ cb /\ stamp' = Not(cbnow) /\ age' = cbage /\ due' = Period - cbage
        /\ cb' = FALSE /\ cbnow' = Zero /\ cbage' = 0
    BY <1>4 DEF UpdateStore
  <2>2. cbage \in 0 .. Early + Late /\ Early + Late < Lo
    BY <1>0, WidthAssumption, RateAssumption DEF TimeTypeOK
  <2>3. cbnow \in Words /\ clock \in Words /\ clock = Plus(cbnow, cbage)
    BY <1>0, <2>1 DEF TimeTypeOK, CallbackInv
  <2>4. Not(cbnow) \in Words /\ Not(Not(cbnow)) = cbnow
    BY <2>3, NotWord
  <2>5. TimeTypeOK'
    <3>1. /\ cbage \in 0 .. Period + Late /\ Period - cbage \in -Late .. Period
          /\ 0 \in 0 .. Early + Late
      BY <2>2, RateAssumption
    <3>2. {clock', stamp', cbnow', copy', got'} \subseteq Words /\ cb' \in BOOLEAN
      BY <1>0, <1>1, <2>1, <2>4, ZeroWord DEF TimeTypeOK
    <3>3. QED
      BY <1>0, <1>1, <2>1, <3>1, <3>2 DEF TimeTypeOK
  <2>6. clock' = Plus(Not(stamp'), age') /\ age' < Lo /\ age' + due' = Period
    BY <1>1, <2>1, <2>2, <2>3, <2>4, RateAssumption, WidthAssumption
  <2>7. StampInv' /\ CallbackInv'
    BY <2>1, <2>6 DEF StampInv, StampIsRecent, CallbackInv
  <2>8. QED
    BY <1>2, <2>5, <2>7 DEF TimeInv
<1>5. QED
  BY <1>3, <1>4

LEMMA NowStep ==
  ASSUME TimeInv, NowStamp \/ NowCount \/ NowReturn
  PROVE  TimeInv'
<1>0. TimeTypeOK /\ StampInv /\ CallbackInv /\ ReaderInv /\ PollInv /\ NowIsExact /\ DelayIsExact
  BY DEF TimeInv
<1>1. /\ UNCHANGED <<clock, stamp, age, due, cb, cbnow, cbage, asked, ticks, prev, gone>>
      /\ thread' \in {"idle", "now", "returned"}
  BY DEF NowStamp, NowCount, NowReturn, base, irq, delay
<1>2. StampInv' /\ CallbackInv' /\ PollInv' /\ DelayIsExact'
  BY <1>0, <1>1 DEF StampInv, StampIsRecent, CallbackInv, PollInv, DelayIsExact, Plus, Not
<1>3. CASE NowStamp
  <2>1. copy' = stamp /\ copyage' = age /\ thread' = "now" /\ stall' = 0 /\ got' = got
    BY <1>3 DEF NowStamp
  <2>2. TimeTypeOK' /\ NowIsExact'
    BY <1>0, <1>1, <2>1, RateAssumption DEF TimeTypeOK, NowIsExact
  <2>3. ReaderInv'
    BY <1>0, <1>1, <2>1, RateAssumption DEF TimeTypeOK, StampInv, StampIsRecent, ReaderInv, Plus, Not
  <2>4. QED
    BY <1>2, <2>2, <2>3 DEF TimeInv
<1>4. CASE NowCount
  <2>1. /\ thread = "now" /\ got' = TimeNow(copy) /\ copy' = Zero /\ copyage' = 0
        /\ thread' = "returned" /\ stall' = 0
    BY <1>4 DEF NowCount
  <2>2. copyage \in 0 .. Lo - 1
    BY <1>0, <2>1, WidthAssumption, RateAssumption DEF TimeTypeOK
  <2>3. clock \in Words /\ copy \in Words /\ clock = Plus(Not(copy), copyage)
    BY <1>0, <2>1 DEF TimeTypeOK, ReaderInv
  <2>4. got' = clock
    BY <2>1, <2>2, <2>3, TimeNowIsExact
  <2>5. TimeTypeOK' /\ NowIsExact' /\ ReaderInv'
    BY <1>0, <1>1, <2>1, <2>3, <2>4, ZeroWord, RateAssumption DEF TimeTypeOK, NowIsExact, ReaderInv
  <2>6. QED
    BY <1>2, <2>5 DEF TimeInv
<1>5. CASE NowReturn
  <2>1. got' = Zero /\ thread' = "idle" /\ UNCHANGED <<copy, copyage, stall>>
    BY <1>5 DEF NowReturn
  <2>2. TimeTypeOK' /\ NowIsExact' /\ ReaderInv'
    BY <1>0, <1>1, <2>1, ZeroWord DEF TimeTypeOK, NowIsExact, ReaderInv
  <2>3. QED
    BY <1>2, <2>2 DEF TimeInv
<1>6. QED
  BY <1>3, <1>4, <1>5

LEMMA DelayStep ==
  ASSUME TimeInv, (\E n \in Delays : DelayCall(n)) \/ DelayPoll \/ DelayReturn
  PROVE  TimeInv'
<1>0. TimeTypeOK /\ StampInv /\ CallbackInv /\ ReaderInv /\ PollInv /\ NowIsExact /\ DelayIsExact
  BY DEF TimeInv
<1>1. /\ UNCHANGED <<clock, stamp, age, due, cb, cbnow, cbage, copy, copyage, got>>
      /\ thread' \in {"idle", "delay", "delayed"}
  BY DEF DelayCall, DelayPoll, DelayReturn, base, irq, reader, TimeTypeOK
<1>2. StampInv' /\ CallbackInv' /\ ReaderInv' /\ NowIsExact'
  BY <1>0, <1>1 DEF StampInv, StampIsRecent, CallbackInv, ReaderInv, NowIsExact, Plus, Not
<1>3. Stk \in 0 .. Lo - 1 /\ Stk' = Stk
  BY <1>0, <1>1, StkRange DEF Stk
<1>4. ASSUME NEW n \in Delays, DelayCall(n)
      PROVE  TimeTypeOK' /\ PollInv' /\ DelayIsExact'
  <2>1. n \in Nat
    BY DelayAssumption
  <2>2. asked' = n /\ ticks' = n /\ prev' = Stk /\ gone' = 0 /\ thread' = "delay" /\ stall' = 0
    BY <1>4 DEF DelayCall
  <2>3. TimeTypeOK'
    BY <1>0, <1>1, <1>3, <2>1, <2>2, RateAssumption DEF TimeTypeOK
  <2>4. PollInv' /\ DelayIsExact'
    BY <1>3, <2>1, <2>2 DEF PollInv, DelayIsExact, DelayDiff
  <2>5. QED
    BY <2>3, <2>4
<1>5. CASE DelayPoll
  <2>1. /\ thread = "delay" /\ stall' = 0 /\ UNCHANGED <<asked, gone>>
        /\ gone = (asked - ticks) + stall /\ DelayDiff = stall
    BY <1>0, <1>5 DEF DelayPoll, PollInv
  <2>2. asked \in Nat /\ ticks \in 0 .. asked /\ stall \in 0 .. MaxStall /\ MaxStall \in Nat
    BY <1>0, RateAssumption DEF TimeTypeOK
  <2>3. ASSUME ticks <= DelayDiff
        PROVE  TimeTypeOK' /\ PollInv' /\ DelayIsExact'
    <3>1. thread' = "delayed" /\ UNCHANGED <<ticks, prev>>
      BY <1>5, <2>3 DEF DelayPoll
    <3>2. TimeTypeOK' /\ PollInv'
      <4>1. 0 \in 0 .. MaxStall
        BY <2>2
      <4>2. /\ {clock', stamp', cbnow', copy', got'} \subseteq Words /\ cb' \in BOOLEAN
            /\ age' \in 0 .. Period + Late /\ due' \in -Late .. Period
            /\ cbage' \in 0 .. Early + Late /\ copyage' \in 0 .. Period + Late + MaxStall
        BY <1>0, <1>1 DEF TimeTypeOK
      <4>3. /\ thread' \in {"idle", "now", "returned", "delay", "delayed"}
            /\ asked' \in Nat /\ ticks' \in 0 .. asked' /\ prev' \in 0 .. Lo - 1
            /\ gone' \in 0 .. asked' + MaxStall /\ stall' \in 0 .. MaxStall
        BY <1>0, <2>1, <3>1, <4>1 DEF TimeTypeOK
      <4>4. QED
        BY <3>1, <4>2, <4>3 DEF TimeTypeOK, PollInv
    <3>3. DelayIsExact'
      BY <2>1, <2>2, <2>3, <3>1 DEF DelayIsExact
    <3>4. QED
      BY <3>2, <3>3
  <2>4. ASSUME ~(ticks <= DelayDiff)
        PROVE  TimeTypeOK' /\ PollInv' /\ DelayIsExact'
    <3>1. thread' = "delay" /\ ticks' = ticks - stall /\ prev' = Stk
      BY <1>5, <2>1, <2>4 DEF DelayPoll
    <3>2. TimeTypeOK'
      <4>1. 0 \in 0 .. MaxStall /\ ticks - stall \in 0 .. asked
        BY <2>1, <2>2, <2>4
      <4>2. /\ {clock', stamp', cbnow', copy', got'} \subseteq Words /\ cb' \in BOOLEAN
            /\ age' \in 0 .. Period + Late /\ due' \in -Late .. Period
            /\ cbage' \in 0 .. Early + Late /\ copyage' \in 0 .. Period + Late + MaxStall
        BY <1>0, <1>1 DEF TimeTypeOK
      <4>3. /\ thread' \in {"idle", "now", "returned", "delay", "delayed"}
            /\ asked' \in Nat /\ ticks' \in 0 .. asked' /\ prev' \in 0 .. Lo - 1
            /\ gone' \in 0 .. asked' + MaxStall /\ stall' \in 0 .. MaxStall
        BY <1>0, <1>3, <2>1, <3>1, <4>1 DEF TimeTypeOK
      <4>4. QED
        BY <4>2, <4>3 DEF TimeTypeOK
    <3>3. PollInv' /\ DelayIsExact'
      BY <1>3, <2>1, <2>2, <2>4, <3>1 DEF PollInv, DelayIsExact, DelayDiff
    <3>4. QED
      BY <3>2, <3>3
  <2>5. TimeTypeOK' /\ PollInv' /\ DelayIsExact'
    BY <2>3, <2>4
  <2>6. QED
    BY <1>2, <2>5 DEF TimeInv
<1>6. CASE DelayReturn
  <2>1. /\ thread' = "idle" /\ stall' = stall
        /\ asked' = 0 /\ ticks' = 0 /\ prev' = 0 /\ gone' = 0
    BY <1>6 DEF DelayReturn
  <2>2. 0 \in 0 .. Lo - 1 /\ 0 \in 0 .. 0 + MaxStall /\ 0 \in 0 .. 0 /\ 0 \in Nat
    BY WidthAssumption, RateAssumption
  <2>3. /\ {clock', stamp', cbnow', copy', got'} \subseteq Words /\ cb' \in BOOLEAN
        /\ age' \in 0 .. Period + Late /\ due' \in -Late .. Period
        /\ cbage' \in 0 .. Early + Late /\ copyage' \in 0 .. Period + Late + MaxStall
        /\ stall' \in 0 .. MaxStall
    BY <1>0, <1>1, <2>1 DEF TimeTypeOK
  <2>4. TimeTypeOK' /\ PollInv' /\ DelayIsExact'
    BY <2>1, <2>2, <2>3 DEF TimeTypeOK, PollInv, DelayIsExact
  <2>5. QED
    BY <1>2, <2>4 DEF TimeInv
<1>7. QED
  BY <1>2, <1>4, <1>5, <1>6 DEF TimeInv

LEMMA ClockTickStep ==
  ASSUME TimeInv, ClockTick
  PROVE  TimeInv'
<1>0. TimeTypeOK /\ StampInv /\ CallbackInv /\ ReaderInv /\ PollInv /\ NowIsExact /\ DelayIsExact
  BY DEF TimeInv
<1>1. /\ clock' = Succ(clock) /\ clock \in Words /\ clock' \in Words
      /\ age' = age + 1 /\ due' = due - 1 /\ due > -Late
      /\ thread \notin {"returned", "delayed"}
      /\ UNCHANGED <<stamp, cb, cbnow, thread, copy, got, asked, ticks, prev>>
  BY <1>0, SuccWord DEF ClockTick, TimeTypeOK
<1>2. /\ {Period, Early, Late, MaxStall} \subseteq Nat
      /\ Period + Late + MaxStall < Lo /\ Early < Period
      /\ Lo \in Nat
  BY RateAssumption, WidthAssumption
<1>3. StampInv'
  <2>1. age \in 0 .. Lo - 2 /\ age' + due' = Period /\ age' \in 0 .. Period + Late
    BY <1>0, <1>1, <1>2 DEF TimeTypeOK, StampInv
  <2>2. Not(stamp) \in Words /\ clock = Plus(Not(stamp), age)
    BY <1>0, NotWord DEF TimeTypeOK, StampInv, StampIsRecent
  <2>3. clock' = Plus(Not(stamp), age + 1)
    BY <1>1, <2>1, <2>2, SuccPlus
  <2>4. QED
    BY <1>1, <1>2, <2>1, <2>3 DEF StampInv, StampIsRecent, Plus, Not
<1>4. CallbackInv'
  <2> SUFFICES ASSUME cb PROVE clock' = Plus(cbnow, cbage') /\ cbage' + due' <= Early
    BY <1>1 DEF CallbackInv, Plus
  <2>1. cbage' = cbage + 1 /\ cbage \in 0 .. Lo - 2 /\ cbage + due <= Early /\ cbnow \in Words
    BY <1>0, <1>1, <1>2 DEF ClockTick, TimeTypeOK, CallbackInv
  <2>2. clock = Plus(cbnow, cbage)
    BY <1>0 DEF CallbackInv
  <2>3. QED
    BY <1>0, <1>1, <1>2, <2>1, <2>2, SuccPlus DEF TimeTypeOK
<1>5. ReaderInv'
  <2> SUFFICES ASSUME thread = "now"
               PROVE  clock' = Plus(Not(copy), copyage') /\ copyage' <= Period + Late + stall'
    BY <1>1 DEF ReaderInv, Plus, Not
  <2>1. copyage' = copyage + 1 /\ stall' = stall + 1 /\ stall < MaxStall
    BY DEF ClockTick
  <2>2. copyage \in 0 .. Lo - 2 /\ stall \in 0 .. MaxStall /\ copyage <= Period + Late + stall
    BY <1>0, <1>2, <2>1 DEF TimeTypeOK, ReaderInv
  <2>3. Not(copy) \in Words /\ clock = Plus(Not(copy), copyage)
    BY <1>0, NotWord DEF TimeTypeOK, ReaderInv
  <2>4. QED
    BY <1>1, <1>2, <2>1, <2>2, <2>3, SuccPlus
<1>6. PollInv'
  <2> SUFFICES ASSUME thread = "delay"
               PROVE  gone' = (asked - ticks) + stall' /\ DelayDiff' = stall'
    BY <1>1 DEF PollInv
  <2>1. gone' = gone + 1 /\ stall' = stall + 1 /\ stall < MaxStall
    BY DEF ClockTick
  <2>2. stall \in 0 .. MaxStall /\ prev \in 0 .. Lo - 1 /\ asked \in Nat /\ ticks \in 0 .. asked
        /\ gone = (asked - ticks) + stall /\ DelayDiff = stall
    BY <1>0 DEF TimeTypeOK, PollInv
  <2>3. Stk \in 0 .. Lo - 1 /\ Stk' = (IF Stk > 0 THEN Stk - 1 ELSE Lo - 1)
    <3>1. clock.lo \in 0 .. Lo - 1 /\ clock'.lo = (IF clock.lo < Lo - 1 THEN clock.lo + 1 ELSE 0)
      BY <1>1, WordParts, SuccWord
    <3>2. QED
      BY <3>1, <1>2 DEF Stk
  <2>4. DelayDiff' = DelayDiff + 1
    <3>1. DelayDiff' = (IF prev >= Stk' THEN prev - Stk' ELSE prev - Stk' + Lo)
      BY <1>1 DEF DelayDiff
    <3>2. DelayDiff = (IF prev >= Stk THEN prev - Stk ELSE prev - Stk + Lo)
      BY DEF DelayDiff
    <3>3. DelayDiff < Lo - 1
      BY <1>2, <2>1, <2>2
    <3>4. QED
      BY <1>2, <2>2, <2>3, <3>1, <3>2, <3>3
  <2>5. QED
    BY <2>1, <2>2, <2>4
<1>7. TimeTypeOK'
  <2>1. age' \in 0 .. Period + Late /\ due' \in -Late .. Period
    BY <1>0, <1>1, <1>2 DEF TimeTypeOK, StampInv
  <2>2. cbage' \in 0 .. Early + Late
    <3>1. CASE cb
      BY <1>0, <1>1, <1>2, <3>1 DEF ClockTick, TimeTypeOK, CallbackInv
    <3>2. CASE ~cb
      BY <1>0, <3>2 DEF ClockTick, TimeTypeOK
    <3>3. QED
      BY <3>1, <3>2
  <2>3. stall' \in 0 .. MaxStall
    BY <1>0, <1>2 DEF ClockTick, TimeTypeOK
  <2>4. copyage' \in 0 .. Period + Late + MaxStall
    BY <1>0, <1>2 DEF ClockTick, TimeTypeOK, ReaderInv
  <2>5. gone' \in 0 .. asked + MaxStall
    BY <1>0, <1>2 DEF ClockTick, TimeTypeOK, PollInv
  <2>6. QED
    BY <1>0, <1>1, <2>1, <2>2, <2>3, <2>4, <2>5 DEF TimeTypeOK
<1>8. NowIsExact' /\ DelayIsExact'
  BY <1>1 DEF NowIsExact, DelayIsExact
<1>9. QED
  BY <1>3, <1>4, <1>5, <1>6, <1>7, <1>8 DEF TimeInv

\* Every step keeps the invariant.
THEOREM TimeInductive == TimeInv /\ [TimeNext]_timeVars => TimeInv'
<1> SUFFICES ASSUME TimeInv, [TimeNext]_timeVars PROVE TimeInv'
  OBVIOUS
<1>1. CASE UpdateRead \/ UpdateStore
  BY <1>1, UpdateStep
<1>2. CASE NowStamp \/ NowCount \/ NowReturn
  BY <1>2, NowStep
<1>3. CASE (\E n \in Delays : DelayCall(n)) \/ DelayPoll \/ DelayReturn
  BY <1>3, DelayStep
<1>4. CASE ClockTick
  BY <1>4, ClockTickStep
<1>5. CASE UNCHANGED timeVars
  BY <1>5 DEF timeVars, base, irq, reader, delay, TimeInv, TimeTypeOK, StampInv, StampIsRecent,
              CallbackInv, ReaderInv, PollInv, NowIsExact, DelayIsExact, DelayDiff, Stk, Plus, Not
<1>6. QED
  BY <1>1, <1>2, <1>3, <1>4, <1>5 DEF TimeNext

\* The invariant holds in every reachable state.
THEOREM TimeInvariance == TimeSpec => []TimeInv
<1>1. TimeInit => TimeInv
  BY TimeInitInv
<1>2. TimeInv /\ [TimeNext]_timeVars => TimeInv'
  BY TimeInductive
<1>3. QED
  BY <1>1, <1>2, PTL DEF TimeSpec

\* Every quantity of the time base stays in its range.
THEOREM TimeTypeCorrect == TimeSpec => []TimeTypeOK
BY TimeInvariance, PTL DEF TimeInv

\* time_now() returns the time.
THEOREM NowIsAlwaysExact == TimeSpec => []NowIsExact
BY TimeInvariance, PTL DEF TimeInv

\* time_stamp is always less than one counter period old.
THEOREM StampStaysRecent == TimeSpec => []StampIsRecent
BY TimeInvariance, PTL DEF TimeInv, StampInv

\* delay_ticks() neither returns early nor oversleeps more than one poll.
THEOREM DelayIsAlwaysExact == TimeSpec => []DelayIsExact
BY TimeInvariance, PTL DEF TimeInv

-----------------------------------------------------------------------------
(***************************************************************************)
(* Timer: lemmas about division, sets and lists.                           *)
(***************************************************************************)
\* The remainder is what the quotient leaves.
LEMMA DivMod ==
  ASSUME NEW x \in Int, NEW S \in Nat \ {0}
  PROVE  /\ x \div S \in Int /\ x % S \in 0 .. S - 1
         /\ x % S = x - S * (x \div S)
<1>1. x % S = x - S * (x \div S)
  OBVIOUS
<1>2. x \div S \in Int /\ x % S \in 0 .. S - 1
  OBVIOUS
<1>3. QED
  BY <1>1, <1>2

LEMMA LeastElement ==
  ASSUME NEW T \in SUBSET Nat, T # {}
  PROVE  \E x \in T : \A y \in T : x <= y
<1> DEFINE R == OpToRel(<, Nat)
<1>1. \A x, y \in Nat : <<y, x>> \in R <=> y < x
  BY DEF OpToRel
<1>2. IsWellFoundedOn(R, Nat)
  BY NatLessThanWellFounded
<1> HIDE DEF R
<1>3. PICK x \in T : \A y \in T : ~ (<<y, x>> \in R)
  BY <1>2, WFMin
<1>4. ASSUME NEW y \in T
      PROVE  x <= y
  <2>1. ~ (y < x)
    BY <1>1, <1>3, Zenon
  <2>2. QED
    BY <2>1
<1>5. QED
  BY <1>4

(***************************************************************************)
(* Sequences without an element, and with one more.                        *)
(***************************************************************************)
LEMMA RemoveAtIs ==
  ASSUME NEW S, NEW s \in Seq(S), NEW p \in 1 .. Len(s)
  PROVE  /\ RemoveAt(s, p) \in Seq(S)
         /\ Len(RemoveAt(s, p)) = Len(s) - 1
         /\ \A j \in 1 .. Len(s) - 1 : RemoveAt(s, p)[j] = IF j < p THEN s[j] ELSE s[j + 1]
<1> DEFINE a == SubSeq(s, 1, p - 1)  b == SubSeq(s, p + 1, Len(s))  n == Len(s)
<1>1. n \in Nat /\ \A i \in 1 .. n : s[i] \in S
  BY LenProperties, ElementOfSeq
<1>2. /\ a \in Seq(S) /\ Len(a) = p - 1
      /\ \A i \in 1 .. p - 1 : a[i] = s[i]
  <2>1. \A i \in 1 .. p - 1 : s[i] \in S
    BY <1>1
  <2>2. p - 1 \in Int /\ 1 \in Int
    BY <1>1
  <2>3. QED
    BY <2>1, <2>2, <1>1, SubSeqProperties
<1>3. /\ b \in Seq(S) /\ Len(b) = n - p
      /\ \A i \in 1 .. n - p : b[i] = s[p + i]
  <2>1. \A i \in p + 1 .. n : s[i] \in S
    BY <1>1
  <2>2. p + 1 \in Int /\ n \in Int
    BY <1>1
  <2>3. QED
    BY <2>1, <2>2, <1>1, SubSeqProperties
<1> HIDE DEF a, b, n
<1>4. /\ a \o b \in Seq(S) /\ Len(a \o b) = Len(a) + Len(b)
      /\ \A i \in 1 .. Len(a) + Len(b) :
           (a \o b)[i] = IF i <= Len(a) THEN a[i] ELSE b[i - Len(a)]
  BY <1>2, <1>3, ConcatProperties
<1>5. RemoveAt(s, p) = a \o b
  BY DEF RemoveAt, a, b, n
<1>6. p \in 1 .. n
  BY DEF n
<1>7. \A j \in 1 .. n - 1 : (a \o b)[j] = IF j < p THEN s[j] ELSE s[j + 1]
  <2> TAKE j \in 1 .. n - 1
  <2>1. CASE j < p
    BY <2>1, <1>1, <1>2, <1>3, <1>4, <1>6
  <2>2. CASE ~(j < p)
    <3>1. j - (p - 1) \in 1 .. n - p /\ p + (j - (p - 1)) = j + 1
      BY <2>2, <1>1, <1>6
    <3>2. (a \o b)[j] = b[j - (p - 1)]
      BY <2>2, <1>1, <1>2, <1>3, <1>4, <1>6
    <3>3. QED
      BY <2>2, <3>1, <3>2, <1>3
  <2>3. QED
    BY <2>1, <2>2
<1>8. Len(a \o b) = n - 1
  BY <1>1, <1>2, <1>3, <1>4, <1>6
<1>9. QED
  BY <1>4, <1>5, <1>7, <1>8 DEF n

LEMMA InsertAtIs ==
  ASSUME NEW S, NEW s \in Seq(S), NEW e \in S, NEW p \in 1 .. Len(s) + 1
  PROVE  /\ InsertAt(s, p, e) \in Seq(S)
         /\ Len(InsertAt(s, p, e)) = Len(s) + 1
         /\ \A j \in 1 .. Len(s) + 1 :
              InsertAt(s, p, e)[j] = IF j < p THEN s[j] ELSE IF j = p THEN e ELSE s[j - 1]
<1> DEFINE a == SubSeq(s, 1, p - 1)  b == SubSeq(s, p, Len(s))  n == Len(s)  c == a \o <<e>>
<1>1. n \in Nat /\ \A i \in 1 .. n : s[i] \in S
  BY LenProperties, ElementOfSeq
<1>2. /\ a \in Seq(S) /\ Len(a) = p - 1
      /\ \A i \in 1 .. p - 1 : a[i] = s[i]
  <2>1. \A i \in 1 .. p - 1 : s[i] \in S
    BY <1>1
  <2>2. p - 1 \in Int /\ 1 \in Int
    BY <1>1
  <2>3. QED
    BY <2>1, <2>2, <1>1, SubSeqProperties
<1>3. /\ b \in Seq(S) /\ Len(b) = n - p + 1
      /\ \A i \in 1 .. n - p + 1 : b[i] = s[p - 1 + i]
  <2>1. \A i \in p .. n : s[i] \in S
    BY <1>1
  <2>2. p \in Int /\ n \in Int
    BY <1>1
  <2>3. /\ SubSeq(s, p, n) \in Seq(S)
        /\ Len(SubSeq(s, p, n)) = IF p <= n THEN n - p + 1 ELSE 0
        /\ \A i \in 1 .. n - p + 1 : SubSeq(s, p, n)[i] = s[p + i - 1]
    BY <2>1, <2>2, SubSeqProperties
  <2>4. \A i \in 1 .. n - p + 1 : p + i - 1 = p - 1 + i
    BY <2>2
  <2>5. (IF p <= n THEN n - p + 1 ELSE 0) = n - p + 1
    BY <1>1
  <2>6. QED
    BY <2>3, <2>4, <2>5
<1>4. <<e>> \in Seq(S) /\ Len(<<e>>) = 1 /\ <<e>>[1] = e
  OBVIOUS
<1> HIDE DEF a, b, n, c
<1>5. /\ c \in Seq(S) /\ Len(c) = p
      /\ \A i \in 1 .. p : c[i] = IF i < p THEN a[i] ELSE e
  <2>1. /\ c \in Seq(S) /\ Len(c) = Len(a) + Len(<<e>>)
        /\ \A i \in 1 .. Len(a) + Len(<<e>>) :
             c[i] = IF i <= Len(a) THEN a[i] ELSE <<e>>[i - Len(a)]
    BY <1>2, <1>4, ConcatProperties DEF c
  <2>2. p \in 1 .. n + 1
    BY DEF n
  <2>3. QED
    BY <1>1, <1>2, <1>4, <2>1, <2>2
<1>6. /\ c \o b \in Seq(S) /\ Len(c \o b) = Len(c) + Len(b)
      /\ \A i \in 1 .. Len(c) + Len(b) :
           (c \o b)[i] = IF i <= Len(c) THEN c[i] ELSE b[i - Len(c)]
  <2>1. c \in Seq(S) /\ b \in Seq(S)
    BY <1>3, <1>5
  <2>2. QED
    BY <2>1, ConcatProperties
<1>7. InsertAt(s, p, e) = c \o b
  BY DEF InsertAt, a, b, c, n
<1>8. p \in 1 .. n + 1
  BY DEF n
<1>9. \A j \in 1 .. n + 1 :
        (c \o b)[j] = IF j < p THEN s[j] ELSE IF j = p THEN e ELSE s[j - 1]
  <2> TAKE j \in 1 .. n + 1
  <2>1. CASE j <= p
    <3>1. j \in 1 .. p /\ j \in 1 .. Len(c) + Len(b) /\ j <= Len(c)
      BY <2>1, <1>1, <1>3, <1>5, <1>8
    <3>2. (c \o b)[j] = IF j < p THEN a[j] ELSE e
      BY <3>1, <1>5, <1>6
    <3>3. j < p => a[j] = s[j]
      BY <3>1, <1>2, <1>8
    <3>4. QED
      BY <2>1, <3>1, <3>2, <3>3, <1>8
  <2>2. CASE ~(j <= p)
    <3>1. j - p \in 1 .. n - p + 1 /\ p - 1 + (j - p) = j - 1
      BY <2>2, <1>1, <1>8
    <3>2. (c \o b)[j] = b[j - p]
      <4>1. /\ n \in Nat /\ p \in Nat /\ Len(c) = p /\ Len(b) = n - p + 1
            /\ p <= n + 1 /\ ~(j <= p)
        BY <2>2, <1>1, <1>3, <1>5, <1>8
      <4>2. j \in 1 .. Len(c) + Len(b) /\ ~(j <= Len(c))
        BY <4>1
      <4>3. (c \o b)[j] = b[j - Len(c)]
        BY <1>6, <4>2
      <4>4. QED
        BY <4>1, <4>3
    <3>3. QED
      BY <2>2, <3>1, <3>2, <1>3, <1>8
  <2>3. QED
    BY <2>1, <2>2
<1>10. Len(c) + Len(b) = n + 1
  BY <1>1, <1>3, <1>5, <1>8
<1>11. QED
  BY <1>6, <1>7, <1>9, <1>10, Zenon DEF n

(***************************************************************************)
(* timer_set() and timer_cancel() on the list.                             *)
(***************************************************************************)
TypeOK ==
  /\ q \in Seq(Timers) /\ left \in [Timers -> Int]
  /\ hwOn \in BOOLEAN /\ hw \in Nat /\ (hwOn => hw >= 1) /\ pend \in BOOLEAN
  /\ pc \in {"thread", "masked", "program", "loop", "call"} /\ ret \in {"thread", "loop"}
  /\ delta \in Int /\ slow \in Nat

LEMMA ListIs ==
  ASSUME q \in Seq(Timers)
  PROVE  /\ Len(q) \in Nat /\ DOMAIN q = 1 .. Len(q)
         /\ \A i \in 1 .. Len(q) : q[i] \in Timers
         /\ Active = {q[i] : i \in 1 .. Len(q)}
BY LenProperties, ElementOfSeq DEF Active

\* Every timer that is left has moved forward, and the order is kept.
LEMMA WithoutIs ==
  ASSUME q \in Seq(Timers), left \in [Timers -> Int], Sorted, NEW t
  PROVE  /\ Without(t) \in Seq(Timers) /\ Len(Without(t)) <= Len(q)
         /\ \A j \in 1 .. Len(Without(t)) :
              /\ Without(t)[j] # t
              /\ \E i \in j .. Len(q) : Without(t)[j] = q[i]
         /\ \A i, j \in 1 .. Len(Without(t)) :
              i < j => /\ left[Without(t)[i]] <= left[Without(t)[j]]
                       /\ Without(t)[i] # Without(t)[j]
<1> DEFINE n == Len(q)  w == Without(t)
<1>1. n \in Nat /\ DOMAIN q = 1 .. n /\ Active = {q[i] : i \in 1 .. n}
  BY ListIs
<1>2. \A i, j \in 1 .. n : i < j => left[q[i]] <= left[q[j]] /\ q[i] # q[j]
  BY <1>1 DEF Sorted
<1>3. CASE t \notin Active
  <2>1. w = q
    BY <1>3 DEF Without
  <2>2. \A j \in 1 .. n : q[j] # t /\ j \in j .. n
    BY <1>1, <1>3
  <2> HIDE DEF w
  <2>3. QED
    BY <1>1, <1>2, <2>1, <2>2 DEF w, n
<1>4. CASE t \in Active
  <2> DEFINE p == CHOOSE i \in DOMAIN q : q[i] = t
  <2>1. p \in 1 .. n /\ q[p] = t
    BY <1>1, <1>4
  <2> HIDE DEF p, n
  <2>2. w = RemoveAt(q, p)
    BY <1>4 DEF Without, p
  <2>3. /\ w \in Seq(Timers) /\ Len(w) = n - 1
        /\ \A j \in 1 .. n - 1 : w[j] = IF j < p THEN q[j] ELSE q[j + 1]
    BY <2>1, <2>2, RemoveAtIs DEF n
  <2> DEFINE from(j) == IF j < p THEN j ELSE j + 1
  <2> HIDE DEF w
  <2>4. \A j \in 1 .. n - 1 : /\ from(j) \in 1 .. n /\ from(j) \in j .. n
                              /\ w[j] = q[from(j)] /\ from(j) # p
    BY <1>1, <2>1, <2>3
  <2>5. \A i, j \in 1 .. n - 1 : i < j => from(i) < from(j)
    BY <1>1, <2>1
  <2> HIDE DEF from
  <2>6. \A j \in 1 .. n - 1 : w[j] # t
    <3> TAKE j \in 1 .. n - 1
    <3>1. from(j) < p \/ p < from(j)
      BY <1>1, <2>1, <2>4
    <3>2. q[from(j)] # q[p]
      BY <1>2, <2>1, <2>4, <3>1
    <3>3. QED
      BY <2>1, <2>4, <3>2
  <2>7. \A i, j \in 1 .. n - 1 : i < j => left[w[i]] <= left[w[j]] /\ w[i] # w[j]
    <3> TAKE i, j \in 1 .. n - 1
    <3> HAVE i < j
    <3>1. from(i) \in 1 .. n /\ from(j) \in 1 .. n /\ from(i) < from(j)
      BY <2>4, <2>5
    <3>2. w[i] = q[from(i)] /\ w[j] = q[from(j)]
      BY <2>4
    <3>3. left[q[from(i)]] <= left[q[from(j)]] /\ q[from(i)] # q[from(j)]
      BY <1>2, <3>1
    <3>4. QED
      BY <3>2, <3>3
  <2>8. n - 1 <= n /\ \A j \in 1 .. n - 1 : \E i \in j .. n : w[j] = q[i]
    BY <1>1, <2>4
  <2>9. QED
    BY <2>3, <2>6, <2>7, <2>8 DEF w, n
<1>5. QED
  BY <1>3, <1>4

\* The loop of timer_set() finds a place.
LEMMA PositionIs ==
  ASSUME left \in [Timers -> Int], NEW s \in Seq(Timers), NEW d \in Int
  PROVE  /\ Position(s, d) \in 1 .. Len(s) + 1
         /\ \A i \in 1 .. Position(s, d) - 1 : left[s[i]] < d
         /\ Position(s, d) <= Len(s) => left[s[Position(s, d)]] >= d
<1> DEFINE n == Len(s)
           stops(i) == i <= n => left[s[i]] >= d
           P(p) == (\A i \in 1 .. p - 1 : left[s[i]] < d) /\ (p <= n => left[s[p]] >= d)
           T == {i \in 1 .. n + 1 : stops(i)}
<1>1. n \in Nat /\ \A i \in 1 .. n : left[s[i]] \in Int
  BY LenProperties, ElementOfSeq
<1> HIDE DEF n
<1>2. n + 1 \in T /\ T \subseteq Nat
  BY <1>1
<1>3. PICK p \in T : \A i \in T : p <= i
  <2> HIDE DEF T
  <2>1. QED
    BY <1>2, LeastElement
<1>4. \A i \in 1 .. p - 1 : left[s[i]] < d
  <2> TAKE i \in 1 .. p - 1
  <2>1. i \in 1 .. n + 1 /\ i \in 1 .. n /\ ~(p <= i)
    BY <1>1, <1>3
  <2>2. ~stops(i)
    BY <1>3, <2>1
  <2>3. QED
    BY <1>1, <2>1, <2>2
<1>5. p \in 1 .. n + 1 /\ P(p)
  BY <1>3, <1>4
<1>6. Position(s, d) = CHOOSE x \in 1 .. n + 1 : P(x)
  BY DEF Position, n
<1> HIDE DEF P
<1>7. Position(s, d) \in 1 .. n + 1 /\ P(Position(s, d))
  BY <1>5, <1>6
<1>8. QED
  BY <1>7 DEF P, n

\* A timer that has been set comes first or behind those before; what is behind it
\* is due no earlier, and what is before it has not moved back.
SetList(t, d) ==
  /\ q' \in Seq(Timers) /\ Len(q') >= 1 /\ left' \in [Timers -> Int]
  /\ Sorted'
  /\ left'[t] = d
  /\ \A j \in 1 .. Len(q') :
       \/ q'[j] = t
       \/ \E i \in 1 .. Len(q) : /\ q'[j] = q[i] /\ left'[q'[j]] = left[q[i]]
                                 /\ j <= i \/ left[q[i]] >= d

LEMMA SetKeepsList ==
  ASSUME TypeOK, Sorted, NEW t \in Timers, NEW d \in Int, NEW then, Set(t, d, then)
  PROVE  SetList(t, d)
<1> DEFINE w == Without(t)  p == Position(w, d)  n == Len(w)
<1>1. /\ w \in Seq(Timers) /\ n <= Len(q)
      /\ \A j \in 1 .. n : w[j] # t /\ \E i \in j .. Len(q) : w[j] = q[i]
      /\ \A i, j \in 1 .. n : i < j => left[w[i]] <= left[w[j]] /\ w[i] # w[j]
  BY WithoutIs DEF TypeOK
<1>2. /\ q' = InsertAt(w, p, t)
      /\ left' = [left EXCEPT ![t] = d] /\ left \in [Timers -> Int]
  BY DEF Set, TypeOK
<1> HIDE DEF w
<1>3. /\ p \in 1 .. n + 1 /\ \A i \in 1 .. p - 1 : left[w[i]] < d
      /\ p <= n => left[w[p]] >= d
  BY <1>1, <1>2, PositionIs
<1>4. n \in Nat /\ Len(q) \in Nat /\ \A i \in 1 .. n : w[i] \in Timers /\ left[w[i]] \in Int
  BY <1>1, <1>2, LenProperties, ElementOfSeq DEF TypeOK
<1> HIDE DEF p
<1>5. /\ q' \in Seq(Timers) /\ Len(q') = n + 1
      /\ \A j \in 1 .. n + 1 : q'[j] = IF j < p THEN w[j] ELSE IF j = p THEN t ELSE w[j - 1]
  <2> DEFINE v == InsertAt(w, p, t)
  <2>1. /\ v \in Seq(Timers) /\ Len(v) = Len(w) + 1
        /\ \A j \in 1 .. Len(w) + 1 : v[j] = IF j < p THEN w[j] ELSE IF j = p THEN t ELSE w[j - 1]
    BY <1>1, <1>3, InsertAtIs
  <2>2. q' = v
    BY <1>2
  <2> HIDE DEF v
  <2>3. QED
    BY <2>1, <2>2
<1> HIDE DEF n
<1>6. /\ left' \in [Timers -> Int] /\ left'[t] = d
      /\ \A i \in 1 .. n : left'[w[i]] = left[w[i]]
  BY <1>1, <1>2, <1>4
<1>7. \A i \in p .. n : left[w[i]] >= d
  <2> TAKE i \in p .. n
  <2>1. p \in 1 .. n /\ i \in 1 .. n /\ left[w[p]] >= d
    BY <1>3, <1>4
  <2>2. left[w[p]] <= left[w[i]]
    BY <1>1, <1>4, <2>1
  <2>3. QED
    BY <1>4, <2>1, <2>2
<1>8. Sorted'
  <2> SUFFICES ASSUME NEW i \in 1 .. n + 1, NEW j \in 1 .. n + 1, i < j
               PROVE  left'[q'[i]] <= left'[q'[j]] /\ q'[i] # q'[j]
    <3>1. DOMAIN q' = 1 .. n + 1
      BY <1>5, LenProperties
    <3>2. QED
      BY <3>1 DEF Sorted
  <2>1. CASE j < p
    <3>1. i \in 1 .. n /\ j \in 1 .. n /\ q'[i] = w[i] /\ q'[j] = w[j]
      BY <1>3, <1>4, <1>5, <2>1
    <3>2. QED
      BY <1>1, <1>6, <3>1
  <2>2. CASE j = p
    <3>1. i \in 1 .. n /\ i \in 1 .. p - 1 /\ q'[i] = w[i] /\ q'[j] = t
      BY <1>3, <1>4, <1>5, <2>2
    <3>2. left[w[i]] < d
      BY <1>3, <3>1
    <3>3. QED
      BY <1>1, <1>4, <1>6, <3>1, <3>2
  <2>3. CASE p < j /\ i = p
    <3>1. j - 1 \in 1 .. n /\ j - 1 \in p .. n /\ q'[i] = t /\ q'[j] = w[j - 1]
      BY <1>3, <1>4, <1>5, <2>3
    <3>2. QED
      BY <1>1, <1>4, <1>6, <1>7, <3>1
  <2>4. CASE p < j /\ i < p
    <3>1. q'[i] = w[i] /\ q'[j] = w[j - 1] /\ i \in 1 .. n /\ j - 1 \in 1 .. n /\ i < j - 1
      BY <1>3, <1>4, <1>5, <2>4
    <3>2. left[w[i]] <= left[w[j - 1]] /\ w[i] # w[j - 1]
      BY <1>1, <3>1
    <3>3. QED
      BY <1>6, <3>1, <3>2
  <2>5. CASE p < j /\ p < i
    <3>1. i - 1 \in 1 .. n /\ j - 1 \in 1 .. n /\ i - 1 < j - 1 /\ q'[i] = w[i - 1]
          /\ q'[j] = w[j - 1]
      BY <1>3, <1>4, <1>5, <2>5
    <3>2. left[w[i - 1]] <= left[w[j - 1]] /\ w[i - 1] # w[j - 1]
      BY <1>1, <3>1
    <3>3. QED
      BY <1>6, <3>1, <3>2
  <2>6. QED
    BY <1>3, <1>4, <2>1, <2>2, <2>3, <2>4, <2>5
<1>9. ASSUME NEW j \in 1 .. n + 1
      PROVE  \/ q'[j] = t
             \/ \E i \in 1 .. Len(q) : /\ q'[j] = q[i] /\ left'[q'[j]] = left[q[i]]
                                       /\ j <= i \/ left[q[i]] >= d
  <2>1. CASE j < p
    <3>1. j \in 1 .. n /\ q'[j] = w[j]
      BY <1>3, <1>4, <1>5, <2>1
    <3>2. PICK i \in j .. Len(q) : w[j] = q[i]
      BY <1>1, <3>1
    <3>3. i \in 1 .. Len(q) /\ j <= i
      BY <1>4, <3>1
    <3>4. left'[q'[j]] = left[q[i]]
      BY <1>6, <3>1, <3>2
    <3>5. QED
      BY <3>1, <3>2, <3>3, <3>4
  <2>2. CASE j = p
    BY <1>5, <2>2
  <2>3. CASE j > p
    <3>1. j - 1 \in 1 .. n /\ j - 1 \in p .. n /\ q'[j] = w[j - 1]
      BY <1>3, <1>4, <1>5, <2>3
    <3>2. PICK i \in j - 1 .. Len(q) : w[j - 1] = q[i]
      BY <1>1, <3>1
    <3>3. i \in 1 .. Len(q)
      BY <1>4, <3>1
    <3>4. left'[q'[j]] = left[q[i]] /\ left[q[i]] >= d
      BY <1>6, <1>7, <3>1, <3>2
    <3>5. QED
      BY <3>1, <3>2, <3>3, <3>4
  <2>4. QED
    BY <1>3, <1>4, <2>1, <2>2, <2>3
<1>10. QED
  BY <1>4, <1>5, <1>6, <1>8, <1>9 DEF SetList

LEMMA CancelKeepsList ==
  ASSUME TypeOK, Sorted, NEW t, NEW then, Cancel(t, then)
  PROVE  /\ q' \in Seq(Timers) /\ left' \in [Timers -> Int] /\ Sorted'
         /\ \A j \in 1 .. Len(q') : \E i \in j .. Len(q) :
              q'[j] = q[i] /\ left'[q'[j]] = left[q[i]]
<1> DEFINE w == Without(t)  n == Len(w)
<1>1. /\ w \in Seq(Timers)
      /\ \A j \in 1 .. n : w[j] # t /\ \E i \in j .. Len(q) : w[j] = q[i]
      /\ \A i, j \in 1 .. n : i < j => left[w[i]] <= left[w[j]] /\ w[i] # w[j]
  BY WithoutIs DEF TypeOK
<1>2. q' = w /\ left' = [left EXCEPT ![t] = 0] /\ left \in [Timers -> Int]
  BY DEF Cancel, TypeOK
<1> HIDE DEF w
<1>3. DOMAIN w = 1 .. n /\ \A j \in 1 .. n : w[j] \in Timers
  BY <1>1, LenProperties, ElementOfSeq
<1>4. left' \in [Timers -> Int] /\ \A j \in 1 .. n : left'[w[j]] = left[w[j]]
  <2>1. left' \in [Timers -> Int]
    <3>1. /\ left' = [u \in DOMAIN left |-> IF u = t THEN 0 ELSE left[u]]
          /\ DOMAIN left = Timers /\ \A u \in Timers : left[u] \in Int
      BY <1>2
    <3>2. \A u \in Timers : (IF u = t THEN 0 ELSE left[u]) \in Int
      BY <3>1
    <3>3. QED
      BY <3>1, <3>2
  <2>2. \A u \in Timers : u # t => left'[u] = left[u]
    BY <1>2
  <2>3. QED
    BY <1>1, <1>3, <2>1, <2>2
<1>5. Sorted'
  BY <1>1, <1>2, <1>3, <1>4 DEF Sorted
<1>6. q' \in Seq(Timers) /\ left' \in [Timers -> Int]
  BY <1>1, <1>2, <1>4
<1>7. ASSUME NEW j \in 1 .. n
      PROVE  \E i \in j .. Len(q) : w[j] = q[i] /\ left'[w[j]] = left[q[i]]
  <2>1. PICK i \in j .. Len(q) : w[j] = q[i]
    BY <1>1
  <2>2. left'[w[j]] = left[w[j]]
    BY <1>4
  <2>3. QED
    BY <2>1, <2>2
<1>8. \A j \in 1 .. Len(q') : \E i \in j .. Len(q) :
         q'[j] = q[i] /\ left'[q'[j]] = left[q[i]]
  <2> HIDE DEF n
  <2>1. Len(q') = n
    BY <1>2 DEF n
  <2>2. QED
    BY <1>2, <1>7, <2>1
<1>9. QED
  BY <1>5, <1>6, <1>8

(***************************************************************************)
(* The invariant.                                                          *)
(***************************************************************************)
\* Two delays, for the callback and the next look at the list, for each timer that may
\* be behind place i.
Wait(i) == 2 * (MaxDelay * (Cardinality(Timers) - i))

DelayInv == Busy => slow <= Allowed

\* reprogram_timer() is called for the head of the list.
ProgramInv ==
  pc = "program" => /\ q # <<>> /\ left[q[1]] = delta - slow
                    /\ delta >= -1 /\ (ret = "loop" => delta > Slack)

\* The hardware overflows by the deadline of the head, or it was given the shortest
\* count, so long ago that the thread has called nothing since.
ArmedInv ==
  (pc = "thread" /\ ~pend /\ q # <<>>) =>
    hwOn /\ \/ hw <= left[q[1]]
            \/ hw + slow <= 2 /\ left[q[1]] >= - (MaxDelay + 1) - slow

\* With interrupts disabled, which the thread has done no sooner than that.
MaskedInv ==
  (pc = "masked" /\ q # <<>>) =>
    IF pend THEN left[q[1]] >= - slow ELSE hwOn /\ hw <= left[q[1]]

\* How late the timer at place i may be.
LateInv ==
  \A i \in 1 .. Len(q) :
    /\ pc = "thread" /\ pend => left[q[i]] >= - WakeLate - slow
    /\ pc = "loop" => left[q[i]] >= - (MaxDelay + WakeLate) - slow - Wait(i)
    /\ pc = "call" => left[q[i]] >= - WakeLate - slow - Wait(i)

IInv == TypeOK /\ Sorted /\ DelayInv /\ ProgramInv /\ ArmedInv /\ MaskedInv /\ LateInv

LEMMA Scales ==
  /\ MaxDelay \in Nat /\ Slack \in Nat /\ SetGap \in Nat /\ Slack >= 1 /\ MaxDelay < Slack
  /\ SetGap >= 2 /\ Cardinality(Timers) \in Nat /\ MaxMask \in Nat
  /\ WakeLate \in Nat /\ WakeLate >= MaxMask /\ WakeLate >= MaxDelay + 3
<1>1. /\ MaxDelay \in Nat /\ Slack \in Nat /\ SetGap \in Nat /\ Slack >= 1 /\ MaxDelay < Slack
      /\ SetGap >= 2 /\ Cardinality(Timers) \in Nat /\ MaxMask \in Nat
  BY ScaleAssumption, LatencyAssumption, TimersAssumption, FS_CardinalityType
<1>2. /\ WakeLate \in Nat /\ WakeLate >= MaxMask /\ WakeLate >= MaxDelay + 3
  BY <1>1 DEF WakeLate
<1>3. QED
  BY <1>1, <1>2

\* A step of the CPU starts the count of its delay again.
LEMMA NoDelay ==
  ASSUME slow' = 0
  PROVE  DelayInv'
<1>1. Allowed' \in Nat
  BY Scales DEF Allowed
<1>2. QED
  BY <1>1 DEF DelayInv

LEMMA CountIs ==
  ASSUME NEW d \in Int
  PROVE  /\ Count(d) \in Nat /\ Count(d) >= 1
         /\ d <= Slack => Count(d) = 2
         /\ d > Slack => Count(d) <= d - MaxDelay
<1>1. /\ {Slack, Fine, Unit, EarlyUnits, ArrMax, MaxDelay} \subseteq Nat
      /\ Slack >= 1 /\ Unit >= 1 /\ ArrMax >= 1 /\ Fine > Slack
      /\ MaxDelay < Slack /\ MaxDelay + Unit <= EarlyUnits * Unit
  BY ScaleAssumption, LatencyAssumption
<1>2. CASE d < Fine
  BY <1>1, <1>2 DEF Count
<1>3. CASE ~(d < Fine)
  <2> DEFINE k == d \div Unit  n == k - EarlyUnits  a == (IF n < ArrMax THEN n ELSE ArrMax) + 1
  <2>1. Fine \div Unit \in Int /\ k \in Int /\ Fine \div Unit <= k /\ Unit * k <= d /\ d \in Nat
    <3>1. Unit \in Nat \ {0} /\ Fine \in Int
      BY <1>1
    <3>2. /\ k \in Int /\ d % Unit = d - Unit * k /\ d % Unit \in 0 .. Unit - 1
      BY <3>1, DivMod
    <3>3. LET m == Fine \div Unit
          IN  m \in Int /\ Fine % Unit = Fine - Unit * m /\ Fine % Unit \in 0 .. Unit - 1
      BY <3>1, DivMod
    <3> DEFINE m == Fine \div Unit
    <3> HIDE DEF k, m
    <3>4. Unit * k \in Int /\ Unit * m \in Int /\ Unit * k <= d /\ d < Unit * k + Unit
          /\ Unit * m <= Fine
      BY <1>1, <3>2, <3>3 DEF m
    <3>5. Unit * (k + 1) = Unit * k + Unit /\ k + 1 \in Int /\ m \in Int
      BY <1>1, <3>2, <3>3 DEF m
    <3>6. Unit * m < Unit * (k + 1)
      BY <1>1, <1>3, <3>4, <3>5
    <3>7. m < k + 1
      BY <1>1, <3>5, <3>6
    <3>8. QED
      BY <1>1, <1>3, <3>2, <3>4, <3>5, <3>7 DEF m
  <2>2. n \in Nat /\ n >= 1
    BY <1>1, <2>1, ScaleAssumption
  <2>3. Count(d) = a * Unit
    BY <1>3 DEF Count
  <2>4. a \in Nat /\ a >= 1 /\ a <= n + 1 /\ n \in Int
    BY <1>1, <2>2
  <2> HIDE DEF a
  <2>5. a * Unit \in Nat /\ a * Unit >= 1 /\ a * Unit <= (n + 1) * Unit
    BY <1>1, <2>4
  <2>6. (n + 1) * Unit = Unit * k - EarlyUnits * Unit + Unit
    BY <1>1, <2>1
  <2>7. a * Unit <= d - MaxDelay
    <3> HIDE DEF k, n
    <3>1. Unit * k \in Int /\ EarlyUnits * Unit \in Int
      BY <1>1, <2>1
    <3>2. QED
      BY <1>1, <2>1, <2>5, <2>6, <3>1
  <2>8. d > Slack
    BY <1>1, <1>3
  <2>9. QED
    BY <1>1, <2>3, <2>5, <2>7, <2>8
<1>4. QED
  BY <1>1, <1>2, <1>3

\* No timer is in the list twice, so there are no more places than timers.
LEMMA Places ==
  ASSUME TypeOK, Sorted
  PROVE  /\ Len(q) \in Nat /\ Len(q) <= Cardinality(Timers)
         /\ \A i \in 1 .. Len(q) : left[q[i]] \in Int /\ left[q[1]] <= left[q[i]]
<1> DEFINE n == Len(q)
<1>1. n \in Nat /\ q \in [1 .. n -> Timers] /\ DOMAIN q = 1 .. n
  BY LenProperties DEF TypeOK
<1> HIDE DEF n
<1>2. \A i, j \in 1 .. n : i # j => q[i] # q[j]
  BY <1>1 DEF Sorted
<1>3. q \in Injection(1 .. n, Timers)
  BY <1>1, <1>2 DEF Injection, IsInjective
<1>4. Cardinality(1 .. n) <= Cardinality(Timers)
  BY <1>3, TimersAssumption, FS_Injection
<1>5. Cardinality(1 .. n) = n
  BY <1>1, FS_Interval
<1>6. ASSUME NEW i \in 1 .. n
      PROVE  left[q[i]] \in Int /\ left[q[1]] <= left[q[i]]
  <2>1. 1 \in 1 .. n /\ left[q[i]] \in Int /\ left[q[1]] \in Int
    BY <1>1 DEF TypeOK
  <2>2. 1 < i \/ i = 1
    BY <1>1
  <2>3. QED
    BY <1>1, <2>1, <2>2 DEF Sorted
<1>7. QED
  BY <1>1, <1>4, <1>5, <1>6 DEF n

\* The same after a step.
LEMMA PlacesNext ==
  (TypeOK /\ Sorted)' => Len(q') \in Nat /\ Len(q') <= Cardinality(Timers)
<1>1. TypeOK /\ Sorted => Len(q) \in Nat /\ Len(q) <= Cardinality(Timers)
  BY Places
<1>2. (TypeOK /\ Sorted => Len(q) \in Nat /\ Len(q) <= Cardinality(Timers))'
  BY <1>1, PTL
<1>3. QED
  BY <1>2

LEMMA WaitIs ==
  /\ \A i \in 1 .. Cardinality(Timers) : Wait(i) \in Nat
  /\ \A i, j \in 1 .. Cardinality(Timers) : i <= j => Wait(j) <= Wait(i)
  /\ \A i \in 1 .. Cardinality(Timers) - 1 : Wait(i) = Wait(i + 1) + 2 * MaxDelay
  /\ Cardinality(Timers) >= 1 =>
       LateBound = Wait(1) + 2 * MaxDelay + WakeLate /\ LateBound \in Nat
<1> DEFINE N == Cardinality(Timers)
<1>1. MaxDelay \in Nat /\ N \in Nat
  BY Scales
<1> HIDE DEF N
<1>2. \A i \in 1 .. N : N - i \in Nat /\ MaxDelay * (N - i) \in Nat
  BY <1>1
<1>3. \A i, j \in 1 .. N : i <= j => MaxDelay * (N - j) <= MaxDelay * (N - i)
  BY <1>1
<1>4. \A i \in 1 .. N - 1 : MaxDelay * (N - i) = MaxDelay * (N - (i + 1)) + MaxDelay
  BY <1>1
<1>5. MaxDelay * (N - 1) = MaxDelay * N - MaxDelay /\ MaxDelay * N \in Nat
      /\ 2 * N * MaxDelay = 2 * (MaxDelay * N)
  BY <1>1
<1>6. \A i \in 1 .. N : Wait(i) = 2 * (MaxDelay * (N - i))
  BY DEF Wait, N
<1>7. LateBound = WakeLate + 2 * N * MaxDelay /\ WakeLate \in Nat
  BY Scales DEF LateBound, N
<1>8. \A i \in 1 .. N : Wait(i) \in Nat
  BY <1>2, <1>6
<1>9. \A i, j \in 1 .. N : i <= j => Wait(j) <= Wait(i)
  BY <1>2, <1>3, <1>6
<1>10. \A i \in 1 .. N - 1 : Wait(i) = Wait(i + 1) + 2 * MaxDelay
  <2> TAKE i \in 1 .. N - 1
  <2>1. i \in 1 .. N /\ i + 1 \in 1 .. N
    BY <1>1
  <2>2. QED
    BY <1>1, <1>2, <1>4, <1>6, <2>1
<1>11. N >= 1 => LateBound = Wait(1) + 2 * MaxDelay + WakeLate /\ LateBound \in Nat
  <2>1. N >= 1 => 1 \in 1 .. N
    BY <1>1
  <2>2. QED
    BY <1>1, <1>2, <1>5, <1>6, <1>7, <2>1
<1>12. QED
  BY <1>8, <1>9, <1>10, <1>11 DEF N

(***************************************************************************)
(* Each step keeps the invariant.                                          *)
(***************************************************************************)
LEMMA InitInv == Init => IInv
<1> SUFFICES ASSUME Init
             PROVE  IInv
  OBVIOUS
<1>1. q \in Seq(Timers) /\ Len(q) = 0 /\ DOMAIN q = {}
  BY DEF Init
<1>2. left \in [Timers -> Int]
  BY DEF Init
<1>3. TypeOK
  <2>1. hwOn = FALSE /\ pend = FALSE /\ pc = "thread" /\ ret = "thread"
    BY DEF Init
  <2>2. hw = 0 /\ delta = 0 /\ slow = 0
    BY DEF Init
  <2>3. /\ hwOn \in BOOLEAN /\ pend \in BOOLEAN /\ ~hwOn
        /\ pc \in {"thread", "masked", "program", "loop", "call"} /\ ret \in {"thread", "loop"}
    BY <2>1, ZenonT(60)
  <2>4. hw \in Nat /\ delta \in Int /\ slow \in Nat
    BY <2>2
  <2>5. QED
    BY <1>1, <1>2, <2>3, <2>4 DEF TypeOK
<1>4. Sorted
  BY <1>1 DEF Sorted
<1>5. DelayInv /\ ProgramInv /\ ArmedInv /\ MaskedInv
  BY <1>1 DEF Init, DelayInv, Busy, Allowed, ProgramInv, ArmedInv, MaskedInv
<1>6. LateInv
  BY <1>1 DEF LateInv
<1>7. QED
  BY <1>3, <1>4, <1>5, <1>6 DEF IInv

LEMMA ReprogramKeeps ==
  ASSUME IInv, Reprogram
  PROVE  IInv'
<1>1. /\ pc = "program" /\ hwOn' = TRUE /\ hw' = Count(delta) /\ pc' = ret /\ slow' = 0
      /\ UNCHANGED <<q, left, pend, ret, delta>> /\ ret \in {"thread", "loop"}
      /\ delta \in Int /\ slow \in Nat /\ slow <= MaxDelay
      /\ q # <<>> /\ left[q[1]] = delta - slow /\ delta >= -1 /\ (ret = "loop" => delta > Slack)
  BY DEF Reprogram, IInv, TypeOK, DelayInv, Busy, Allowed, ProgramInv
<1>2. /\ hw' \in Nat /\ hw' >= 1
      /\ delta <= Slack => hw' = 2
      /\ delta > Slack => hw' <= delta - MaxDelay
  BY <1>1, CountIs
<1>3. TypeOK'
  BY <1>1, <1>2 DEF IInv, TypeOK
<1>4. Sorted' /\ DelayInv' /\ ProgramInv'
  BY <1>1, Scales DEF IInv, Sorted, DelayInv, Busy, Allowed, ProgramInv
<1>5. ArmedInv' /\ MaskedInv'
  BY <1>1, <1>2, Scales DEF ArmedInv, MaskedInv
<1>6. LateInv'
  <2> SUFFICES ASSUME NEW i \in 1 .. Len(q)
               PROVE  /\ pc' = "thread" => left[q[i]] >= - WakeLate
                      /\ pc' = "loop" => left[q[i]] >= - (MaxDelay + WakeLate) - Wait(i)
    BY <1>1, Scales DEF LateInv
  <2>1. left[q[i]] \in Int /\ left[q[i]] >= delta - slow /\ i \in 1 .. Cardinality(Timers)
    BY <1>1, Places, Scales DEF IInv
  <2>2. Wait(i) \in Nat
    BY <2>1, WaitIs
  <2>3. QED
    BY <1>1, <2>1, <2>2, Scales
<1>7. QED
  BY <1>3, <1>4, <1>5, <1>6 DEF IInv

LEMMA ThreadSetKeeps ==
  ASSUME IInv, ThreadSet
  PROVE  IInv'
<1>1. PICK t \in Timers, d \in SetDeltas : Set(t, d, "thread")
  BY DEF ThreadSet
<1>2. d \in Int /\ d >= -1
  BY DeltaAssumption
<1>3. SetList(t, d)
  BY <1>1, <1>2, SetKeepsList DEF IInv
<1>4. /\ pc = "thread" /\ ~pend /\ slow \in Nat /\ slow >= 2
      /\ ret' = "thread" /\ slow' = 0 /\ UNCHANGED <<hwOn, hw, pend>>
      /\ IF q'[1] = t THEN pc' = "program" /\ delta' = d
                      ELSE pc' = "thread" /\ delta' = delta
  BY <1>1, Scales DEF ThreadSet, ThreadRuns, Set, IsHead, IInv, TypeOK
<1>5. TypeOK' /\ Sorted' /\ DelayInv'
  BY <1>2, <1>3, <1>4, Scales, NoDelay DEF IInv, TypeOK, SetList
<1>6. q' # <<>> /\ left'[t] = d
  BY <1>3, LenProperties DEF SetList
<1>7. ProgramInv' /\ MaskedInv'
  BY <1>2, <1>4, <1>6 DEF ProgramInv, MaskedInv
<1>8. ArmedInv'
  <2> SUFFICES ASSUME pc' = "thread"
               PROVE  hwOn /\ hw <= left'[q'[1]]
    BY <1>4 DEF ArmedInv
  <2>1. q'[1] # t /\ 1 \in 1 .. Len(q')
    <3>1. Len(q') \in Nat /\ Len(q') >= 1
      BY <1>3, LenProperties DEF SetList
    <3>2. QED
      BY <1>4, <3>1
  <2>2. PICK i \in 1 .. Len(q) : left'[q'[1]] = left[q[i]]
    BY <1>3, <2>1 DEF SetList
  <2>3. left[q[1]] <= left[q[i]] /\ left[q[i]] \in Int /\ left[q[1]] \in Int /\ q # <<>>
    <3>1. Len(q) \in Nat /\ Len(q) >= 1 /\ 1 \in 1 .. Len(q)
      BY Places DEF IInv
    <3>2. QED
      BY <3>1, Places DEF IInv
  <2>4. hwOn /\ hw \in Nat /\ hw >= 1
    BY <1>4, <2>3 DEF IInv, ArmedInv, TypeOK
  <2>5. hw <= left[q[1]]
    BY <1>4, <2>3, <2>4, Scales DEF IInv, ArmedInv
  <2>6. QED
    BY <2>2, <2>3, <2>4, <2>5
<1>9. LateInv'
  BY <1>4 DEF LateInv
<1>10. QED
  BY <1>5, <1>7, <1>8, <1>9 DEF IInv

LEMMA ThreadCancelKeeps ==
  ASSUME IInv, ThreadCancel
  PROVE  IInv'
<1>1. PICK t \in Active : Cancel(t, "thread")
  BY DEF ThreadCancel
<1>2. /\ q' \in Seq(Timers) /\ left' \in [Timers -> Int] /\ Sorted'
      /\ \A j \in 1 .. Len(q') : \E i \in j .. Len(q) :
           q'[j] = q[i] /\ left'[q'[j]] = left[q[i]]
  BY <1>1, CancelKeepsList DEF IInv
<1>3. /\ pc = "thread" /\ ~pend /\ slow \in Nat /\ slow >= 2
      /\ pc' = "thread" /\ slow' = 0 /\ UNCHANGED <<hwOn, hw, pend, ret, delta>>
  BY <1>1, Scales DEF ThreadCancel, ThreadRuns, Cancel, IInv, TypeOK
<1>4. TypeOK' /\ Sorted' /\ DelayInv' /\ ProgramInv' /\ MaskedInv' /\ LateInv'
  BY <1>2, <1>3, Scales, NoDelay DEF IInv, TypeOK, ProgramInv, MaskedInv, LateInv
<1>5. ArmedInv'
  <2> SUFFICES ASSUME q' # <<>>
               PROVE  hwOn /\ hw <= left'[q'[1]]
    BY <1>3 DEF ArmedInv
  <2>1. 1 \in 1 .. Len(q')
    BY <1>2, LenProperties, EmptySeq
  <2>2. PICK i \in 1 .. Len(q) : left'[q'[1]] = left[q[i]]
    BY <1>2, <2>1
  <2>3. left[q[1]] <= left[q[i]] /\ left[q[i]] \in Int /\ left[q[1]] \in Int /\ q # <<>>
    <3>1. Len(q) \in Nat /\ Len(q) >= 1 /\ 1 \in 1 .. Len(q)
      BY Places DEF IInv
    <3>2. QED
      BY <3>1, Places DEF IInv
  <2>4. hwOn /\ hw \in Nat /\ hw >= 1
    BY <1>3, <2>3 DEF IInv, ArmedInv, TypeOK
  <2>5. hw <= left[q[1]]
    BY <1>3, <2>3, <2>4, Scales DEF IInv, ArmedInv
  <2>6. QED
    BY <2>2, <2>3, <2>4, <2>5
<1>6. QED
  BY <1>4, <1>5 DEF IInv

LEMMA DisableKeeps ==
  ASSUME IInv, Disable
  PROVE  IInv'
<1>1. /\ pc = "thread" /\ ~pend /\ slow \in Nat /\ slow >= 2 /\ pc' = "masked" /\ slow' = 0
      /\ UNCHANGED <<q, left, hwOn, hw, pend, ret, delta>>
  BY Scales DEF Disable, ThreadRuns, IInv, TypeOK
<1>2. TypeOK' /\ Sorted' /\ DelayInv' /\ ProgramInv' /\ ArmedInv' /\ LateInv'
  BY <1>1, Scales, NoDelay
     DEF IInv, TypeOK, Sorted, ProgramInv, ArmedInv, LateInv
<1>3. MaskedInv'
  <2> SUFFICES ASSUME q # <<>>
               PROVE  hwOn /\ hw <= left[q[1]]
    BY <1>1 DEF MaskedInv
  <2>1. left[q[1]] \in Int /\ hwOn /\ hw \in Nat /\ hw >= 1
    <3>1. 1 \in 1 .. Len(q)
      BY LenProperties, EmptySeq DEF IInv, TypeOK
    <3>2. left[q[1]] \in Int
      BY <3>1, Places DEF IInv
    <3>3. QED
      BY <1>1, <3>2 DEF IInv, TypeOK, ArmedInv
  <2>2. QED
    BY <1>1, <2>1, Scales DEF IInv, ArmedInv
<1>4. QED
  BY <1>2, <1>3 DEF IInv

LEMMA EnableKeeps ==
  ASSUME IInv, Enable
  PROVE  IInv'
<1>1. /\ pc = "masked" /\ pc' = "thread" /\ slow \in Nat /\ slow <= MaxMask /\ slow' = 0
      /\ UNCHANGED <<q, left, hwOn, hw, pend, ret, delta>>
  BY DEF Enable, IInv, TypeOK, DelayInv, Busy, Allowed
<1>2. TypeOK' /\ Sorted' /\ DelayInv' /\ ProgramInv' /\ MaskedInv'
  BY <1>1, Scales, NoDelay DEF IInv, TypeOK, Sorted, ProgramInv, MaskedInv
<1>3. ArmedInv'
  BY <1>1 DEF IInv, MaskedInv, ArmedInv
<1>4. LateInv'
  <2> SUFFICES ASSUME NEW i \in 1 .. Len(q), pend
               PROVE  left[q[i]] >= - WakeLate - 0
    BY <1>1 DEF LateInv
  <2>1. left[q[i]] \in Int /\ left[q[1]] \in Int /\ left[q[1]] <= left[q[i]] /\ q # <<>>
    <3>1. Len(q) \in Nat /\ 1 \in 1 .. Len(q) /\ q # <<>>
      BY Places DEF IInv
    <3>2. QED
      BY <3>1, Places DEF IInv
  <2>2. left[q[1]] >= - slow
    BY <1>1, <2>1 DEF IInv, MaskedInv
  <2>3. QED
    BY <1>1, <2>1, <2>2, Scales
<1>5. QED
  BY <1>2, <1>3, <1>4 DEF IInv

LEMMA TakeIrqKeeps ==
  ASSUME IInv, TakeIrq
  PROVE  IInv'
<1>1. /\ pc = "thread" /\ pend /\ pend' = FALSE /\ pc' = "loop" /\ slow' = 0
      /\ UNCHANGED <<q, left, hwOn, hw, ret, delta>> /\ slow \in Nat /\ slow <= MaxDelay
  BY DEF TakeIrq, IInv, TypeOK, DelayInv, Busy, Allowed
<1>2. TypeOK' /\ Sorted' /\ DelayInv' /\ ProgramInv' /\ ArmedInv' /\ MaskedInv'
  <2>1. TypeOK'
    BY <1>1 DEF IInv, TypeOK
  <2>2. Sorted'
    BY <1>1 DEF IInv, Sorted
  <2>3. DelayInv' /\ ProgramInv' /\ ArmedInv' /\ MaskedInv'
    BY <1>1, Scales, NoDelay DEF ProgramInv, ArmedInv, MaskedInv
  <2>4. QED
    BY <2>1, <2>2, <2>3
<1>3. ASSUME NEW i \in 1 .. Len(q)
      PROVE  left[q[i]] >= - (MaxDelay + WakeLate) - Wait(i)
  <2>1. left[q[i]] \in Int /\ left[q[i]] >= - WakeLate - slow
        /\ i \in 1 .. Cardinality(Timers)
    BY <1>1, Places, Scales DEF IInv, LateInv
  <2>2. Wait(i) \in Nat
    BY <2>1, WaitIs
  <2>3. QED
    BY <1>1, <2>1, <2>2, Scales
<1>4. LateInv'
  <2>1. \A i \in 1 .. Len(q) : left[q[i]] >= - (MaxDelay + WakeLate) - 0 - Wait(i)
    <3> TAKE i \in 1 .. Len(q)
    <3>1. - (MaxDelay + WakeLate) - 0 = - (MaxDelay + WakeLate)
      BY Scales
    <3>2. QED
      BY <1>3, <3>1
  <2>2. QED
    BY <1>1, <2>1 DEF LateInv
<1>5. QED
  BY <1>2, <1>4 DEF IInv

LEMMA NotDueKeeps ==
  ASSUME IInv, NotDue
  PROVE  IInv'
<1>1. /\ q # <<>> /\ left[q[1]] > Slack /\ delta' = left[q[1]] /\ ret' = "thread"
      /\ pc' = "program" /\ slow' = 0 /\ UNCHANGED <<q, left, hwOn, hw, pend>>
  BY DEF NotDue
<1>2. left[q[1]] \in Int
  <2>1. 1 \in 1 .. Len(q)
    BY <1>1, LenProperties, EmptySeq DEF IInv, TypeOK
  <2>2. QED
    BY <2>1, Places DEF IInv
<1>3. TypeOK' /\ Sorted' /\ DelayInv' /\ ArmedInv' /\ MaskedInv' /\ LateInv'
  BY <1>1, <1>2, Scales, NoDelay DEF IInv, TypeOK, Sorted, ArmedInv, MaskedInv, LateInv
<1>4. ProgramInv'
  BY <1>1, <1>2, Scales DEF ProgramInv
<1>5. QED
  BY <1>3, <1>4 DEF IInv

LEMMA DueKeeps ==
  ASSUME IInv, Due
  PROVE  IInv'
<1> DEFINE n == Len(q)
<1>1. /\ pc = "loop" /\ q # <<>> /\ q' = Tail(q) /\ left' = [left EXCEPT ![q[1]] = 0]
      /\ pc' = "call" /\ slow' = 0 /\ UNCHANGED <<hwOn, hw, pend, ret, delta>>
      /\ q \in Seq(Timers) /\ left \in [Timers -> Int] /\ slow \in Nat /\ slow <= MaxDelay
  BY DEF Due, IInv, TypeOK, DelayInv, Busy, Allowed
<1>2. /\ q' \in Seq(Timers) /\ Len(q') = n - 1 /\ \A i \in 1 .. n - 1 : q'[i] = q[i + 1]
      /\ n \in Nat /\ n >= 1 /\ DOMAIN q' = 1 .. n - 1 /\ DOMAIN q = 1 .. n
  <2>1. /\ Tail(q) \in Seq(Timers) /\ Len(Tail(q)) = n - 1
        /\ \A i \in 1 .. Len(Tail(q)) : Tail(q)[i] = q[i + 1]
    BY <1>1, HeadTailProperties
  <2>2. n \in Nat /\ n >= 1
    BY <1>1, LenProperties, EmptySeq
  <2>3. DOMAIN Tail(q) = 1 .. Len(Tail(q)) /\ DOMAIN q = 1 .. n
    BY <1>1, <2>1, LenProperties
  <2>4. QED
    BY <1>1, <2>1, <2>2, <2>3
<1> HIDE DEF n
<1>3. \A i, j \in 1 .. n : i < j => left[q[i]] <= left[q[j]] /\ q[i] # q[j]
  BY <1>2 DEF IInv, Sorted
<1>4. left' \in [Timers -> Int] /\ \A i \in 1 .. n - 1 : left'[q'[i]] = left[q[i + 1]]
  <2>1. left' \in [Timers -> Int]
    BY <1>1
  <2>2. ASSUME NEW i \in 1 .. n - 1
        PROVE  left'[q'[i]] = left[q[i + 1]]
    <3>1. 1 \in 1 .. n /\ i + 1 \in 1 .. n /\ 1 < i + 1
      BY <1>2
    <3>2. q[1] # q[i + 1]
      BY <1>3, <3>1
    <3>3. q[i + 1] \in Timers
      BY <1>1, <3>1, ElementOfSeq DEF n
    <3>4. QED
      BY <1>1, <1>2, <3>2, <3>3
  <2>3. QED
    BY <2>1, <2>2
<1>5. Sorted'
  <2> SUFFICES ASSUME NEW i \in 1 .. n - 1, NEW j \in 1 .. n - 1, i < j
               PROVE  left'[q'[i]] <= left'[q'[j]] /\ q'[i] # q'[j]
    BY <1>2 DEF Sorted
  <2>1. i + 1 \in 1 .. n /\ j + 1 \in 1 .. n /\ i + 1 < j + 1
    BY <1>2
  <2>2. left[q[i + 1]] <= left[q[j + 1]] /\ q[i + 1] # q[j + 1]
    BY <1>3, <2>1
  <2>3. QED
    BY <1>2, <1>4, <2>2
<1>6. TypeOK' /\ DelayInv' /\ ProgramInv' /\ ArmedInv' /\ MaskedInv'
  BY <1>1, <1>2, <1>4, Scales, NoDelay DEF IInv, TypeOK, ProgramInv, ArmedInv, MaskedInv
<1>7. ASSUME NEW i \in 1 .. n - 1
      PROVE  left'[q'[i]] >= - WakeLate - 0 - Wait(i)
  <2>1. /\ n <= Cardinality(Timers) /\ i + 1 \in 1 .. n /\ left[q[i + 1]] \in Int
    BY <1>2, Places DEF IInv, n
  <2>2. left[q[i + 1]] >= - (MaxDelay + WakeLate) - slow - Wait(i + 1)
    BY <1>1, <2>1 DEF IInv, LateInv, n
  <2>3. i \in 1 .. Cardinality(Timers) - 1 /\ i + 1 \in 1 .. Cardinality(Timers)
    BY <1>2, <2>1, Scales
  <2>4. Wait(i) = Wait(i + 1) + 2 * MaxDelay /\ Wait(i + 1) \in Nat
    BY <2>3, WaitIs
  <2> DEFINE x == left[q[i + 1]]  y == Wait(i + 1)
  <2>5. x \in Int /\ y \in Nat /\ x >= - (MaxDelay + WakeLate) - slow - y
        /\ left'[q'[i]] = x /\ Wait(i) = y + 2 * MaxDelay
    BY <1>4, <2>1, <2>2, <2>4
  <2> HIDE DEF x, y
  <2>6. x >= - WakeLate - 0 - (y + 2 * MaxDelay)
    BY <1>1, <2>5, Scales
  <2>7. QED
    BY <2>5, <2>6
<1>8. LateInv'
  BY <1>1, <1>2, <1>7 DEF LateInv
<1>9. QED
  BY <1>5, <1>6, <1>8 DEF IInv

LEMMA IrqEndKeeps ==
  ASSUME IInv, IrqEnd
  PROVE  IInv'
<1>1. /\ q = <<>> /\ pc' = "thread" /\ slow' = 0
      /\ UNCHANGED <<q, left, hwOn, hw, pend, ret, delta>>
  BY DEF IrqEnd
<1>2. 1 .. Len(q') = {}
  BY <1>1
<1>3. QED
  BY <1>1, <1>2, Scales, NoDelay
     DEF IInv, TypeOK, Sorted, ProgramInv, ArmedInv, MaskedInv, LateInv

LEMMA CallbackKeeps ==
  ASSUME IInv, Callback
  PROVE  IInv'
<1>0. /\ pc = "call" /\ slow \in Nat /\ slow <= MaxDelay
  BY DEF Callback, IInv, TypeOK, DelayInv, Busy, Allowed
<1>1. ASSUME NEW i \in 1 .. Len(q)
      PROVE  /\ left[q[i]] \in Int /\ i \in 1 .. Cardinality(Timers)
             /\ left[q[i]] >= - (MaxDelay + WakeLate) - Wait(i)
  <2>1. left[q[i]] \in Int /\ left[q[i]] >= - WakeLate - slow - Wait(i)
        /\ i \in 1 .. Cardinality(Timers)
    BY <1>0, Places, Scales DEF IInv, LateInv
  <2>2. Wait(i) \in Nat /\ MaxDelay \in Nat
    BY <2>1, WaitIs, Scales
  <2> DEFINE x == left[q[i]]  w == Wait(i)
  <2>3. x \in Int /\ w \in Nat /\ x >= - WakeLate - slow - w
    BY <2>1, <2>2
  <2> HIDE DEF x, w
  <2>4. x >= - (MaxDelay + WakeLate) - w
    BY <1>0, <2>2, <2>3, Scales
  <2>5. QED
    BY <2>1, <2>4 DEF x, w
\* Whoever has come no further back than it was may still wait as long.
<1>2. ASSUME NEW i \in 1 .. Len(q), NEW j \in 1 .. Cardinality(Timers), j <= i
      PROVE  left[q[i]] >= - (MaxDelay + WakeLate) - 0 - Wait(j)
  <2>1. /\ i \in 1 .. Cardinality(Timers) /\ left[q[i]] \in Int
        /\ left[q[i]] >= - (MaxDelay + WakeLate) - Wait(i)
    BY <1>1
  <2>2. Wait(j) \in Nat /\ Wait(i) \in Nat /\ Wait(i) <= Wait(j)
    BY <1>2, <2>1, WaitIs
  <2>3. QED
    BY <2>1, <2>2, Scales
<1>3. CASE \E t \in Timers, d \in CbDeltas : Set(t, d, "loop")
  <2>1. PICK t \in Timers, d \in CbDeltas : Set(t, d, "loop")
    BY <1>3
  <2>2. d \in Int /\ d > Slack
    BY DeltaAssumption
  <2>3. SetList(t, d)
    BY <2>1, <2>2, SetKeepsList DEF IInv
  <2>4. /\ ret' = "loop" /\ slow' = 0 /\ UNCHANGED <<hwOn, hw, pend>>
        /\ IF q'[1] = t THEN pc' = "program" /\ delta' = d
                        ELSE pc' = "loop" /\ delta' = delta
    BY <2>1 DEF Set, IsHead
  <2>5. TypeOK' /\ Sorted' /\ DelayInv'
    BY <2>2, <2>3, <2>4, Scales, NoDelay DEF IInv, TypeOK, SetList
  <2>6. q' # <<>> /\ left'[t] = d
    BY <2>3, LenProperties DEF SetList
  <2>7. ProgramInv' /\ ArmedInv' /\ MaskedInv'
    BY <2>2, <2>4, <2>6, Scales DEF ProgramInv, ArmedInv, MaskedInv
  <2>8. ASSUME NEW j \in 1 .. Len(q')
        PROVE  left'[q'[j]] >= - (MaxDelay + WakeLate) - 0 - Wait(j)
    <3>1. j \in 1 .. Cardinality(Timers)
      <4>1. Len(q') \in Nat /\ Len(q') <= Cardinality(Timers)
        BY <2>5, PlacesNext
      <4>2. QED
        BY <4>1, Scales
    <3>2. Wait(j) \in Nat
      BY <3>1, WaitIs
    <3>3. CASE q'[j] = t
      BY <2>2, <2>6, <3>2, <3>3, Scales
    <3>4. ASSUME NEW i \in 1 .. Len(q), left'[q'[j]] = left[q[i]], j <= i
          PROVE  left'[q'[j]] >= - (MaxDelay + WakeLate) - 0 - Wait(j)
      BY <1>2, <3>1, <3>4
    <3>5. ASSUME NEW i \in 1 .. Len(q), left'[q'[j]] = left[q[i]], left[q[i]] >= d
          PROVE  left'[q'[j]] >= - (MaxDelay + WakeLate) - 0 - Wait(j)
      BY <1>1, <2>2, <3>2, <3>5, Scales
    <3>6. QED
      BY <2>3, <3>3, <3>4, <3>5 DEF SetList
  <2>9. LateInv'
    BY <2>4, <2>8 DEF LateInv
  <2>10. QED
    BY <2>5, <2>7, <2>9 DEF IInv
<1>4. CASE \E t \in Active : Cancel(t, "loop")
  <2>1. PICK t \in Active : Cancel(t, "loop")
    BY <1>4
  <2>2. /\ q' \in Seq(Timers) /\ left' \in [Timers -> Int] /\ Sorted'
        /\ \A j \in 1 .. Len(q') : \E i \in j .. Len(q) :
             q'[j] = q[i] /\ left'[q'[j]] = left[q[i]]
    BY <2>1, CancelKeepsList DEF IInv
  <2>3. pc' = "loop" /\ slow' = 0 /\ UNCHANGED <<hwOn, hw, pend, ret, delta>>
    BY <2>1 DEF Cancel
  <2>4. TypeOK' /\ Sorted' /\ DelayInv' /\ ProgramInv' /\ ArmedInv' /\ MaskedInv'
    BY <2>2, <2>3, Scales, NoDelay DEF IInv, TypeOK, ProgramInv, ArmedInv, MaskedInv
  <2>5. ASSUME NEW j \in 1 .. Len(q')
        PROVE  left'[q'[j]] >= - (MaxDelay + WakeLate) - 0 - Wait(j)
    <3>1. j \in 1 .. Cardinality(Timers) /\ j \in Nat
      <4>1. Len(q') \in Nat /\ Len(q') <= Cardinality(Timers)
        BY <2>4, PlacesNext
      <4>2. QED
        BY <4>1, Scales
    <3>2. PICK i \in j .. Len(q) : left'[q'[j]] = left[q[i]]
      BY <2>2
    <3>3. i \in 1 .. Len(q) /\ j <= i
      BY <3>1, Places DEF IInv
    <3>4. QED
      BY <1>2, <3>1, <3>2, <3>3
  <2>6. LateInv'
    BY <2>3, <2>5 DEF LateInv
  <2>7. QED
    BY <2>4, <2>6 DEF IInv
<1>5. CASE pc' = "loop" /\ slow' = 0 /\ UNCHANGED <<q, left, hwOn, hw, pend, ret, delta>>
  <2>1. TypeOK' /\ Sorted' /\ DelayInv' /\ ProgramInv' /\ ArmedInv' /\ MaskedInv'
    BY <1>5, Scales, NoDelay DEF IInv, TypeOK, Sorted, ProgramInv, ArmedInv, MaskedInv
  <2>2. \A i \in 1 .. Len(q) : left[q[i]] >= - (MaxDelay + WakeLate) - 0 - Wait(i)
    BY <1>1, <1>2
  <2>3. LateInv'
    BY <1>5, <2>2 DEF LateInv
  <2>4. QED
    BY <2>1, <2>3 DEF IInv
<1>6. QED
  BY <1>3, <1>4, <1>5 DEF Callback

LEMMA TickKeeps ==
  ASSUME IInv, Tick
  PROVE  IInv'
<1>1. /\ UNCHANGED <<q, pc, ret, delta>> /\ (Busy => slow < Allowed)
      /\ left' = [t \in Timers |-> IF t \in Active THEN left[t] - 1 ELSE 0]
      /\ hw' = (IF hwOn THEN hw - 1 ELSE hw) /\ hwOn' = (hwOn /\ hw > 1)
      /\ pend' = (pend \/ (hwOn /\ hw = 1))
      /\ slow' = (IF Busy THEN slow + 1
                  ELSE IF pend' THEN 0 ELSE IF slow < SetGap THEN slow + 1 ELSE slow)
      /\ hw \in Nat /\ (hwOn => hw >= 1) /\ slow \in Nat /\ delta \in Int
      /\ hwOn \in BOOLEAN /\ pend \in BOOLEAN
      /\ pc \in {"thread", "masked", "program", "loop", "call"}
  BY DEF Tick, IInv, TypeOK
<1>2. left' \in [Timers -> Int] /\ \A i \in 1 .. Len(q) : left'[q[i]] = left[q[i]] - 1
  <2>1. /\ \A i \in 1 .. Len(q) : q[i] \in Timers /\ q[i] \in Active
        /\ left \in [Timers -> Int]
    BY ListIs DEF IInv, TypeOK
  <2>2. QED
    BY <1>1, <2>1
<1>3. TypeOK'
  <2> hwOn' \in BOOLEAN /\ pend' \in BOOLEAN
    BY <1>1, ZenonT(60)
  <2>1. hw' \in Nat /\ (hwOn' => hw' >= 1)
    <3>1. CASE hwOn
      <4>1. hw' = hw - 1 /\ hw >= 1 /\ (hwOn' => hw > 1)
        BY <1>1, <3>1
      <4>2. QED
        BY <1>1, <4>1
    <3>2. CASE ~hwOn
      <4>1. hw' = hw /\ ~hwOn'
        BY <1>1, <3>2
      <4>2. QED
        BY <1>1, <4>1
    <3>3. QED
      BY <3>1, <3>2
  <2>2. slow' \in Nat
    BY <1>1, Scales
  <2>3. QED
    BY <1>1, <1>2, <2>1, <2>2 DEF IInv, TypeOK
<1>4. \A i \in 1 .. Len(q) : left[q[i]] \in Int /\ left[q[1]] <= left[q[i]]
  BY Places DEF IInv
<1>5. DOMAIN q = 1 .. Len(q) /\ Len(q) \in Nat /\ (q # <<>> => 1 \in 1 .. Len(q))
  BY LenProperties, EmptySeq DEF IInv, TypeOK
<1>6. Sorted'
  <2> SUFFICES ASSUME NEW i \in 1 .. Len(q), NEW j \in 1 .. Len(q), i < j
               PROVE  left'[q[i]] <= left'[q[j]] /\ q[i] # q[j]
    BY <1>1, <1>5 DEF Sorted
  <2>1. left[q[i]] <= left[q[j]] /\ q[i] # q[j]
    BY <1>5 DEF IInv, Sorted
  <2>2. QED
    BY <1>2, <1>4, <2>1
<1>7. DelayInv'
  BY <1>1, Scales DEF DelayInv, Busy, Allowed
<1>8. ProgramInv'
  <2> SUFFICES ASSUME pc = "program"
               PROVE  /\ q # <<>> /\ left'[q[1]] = delta - slow'
                      /\ delta >= -1 /\ (ret = "loop" => delta > Slack)
    BY <1>1 DEF ProgramInv
  <2>1. /\ q # <<>> /\ left[q[1]] = delta - slow
        /\ delta >= -1 /\ (ret = "loop" => delta > Slack)
    BY DEF IInv, ProgramInv
  <2>2. slow' = slow + 1
    BY <1>1 DEF Busy
  <2>3. left'[q[1]] = left[q[1]] - 1
    BY <1>2, <1>5, <2>1
  <2>4. QED
    BY <1>1, <2>1, <2>2, <2>3
<1>9. ASSUME pc = "thread", ~pend, q # <<>>
      PROVE  /\ hwOn /\ left[q[1]] \in Int /\ left'[q[1]] = left[q[1]] - 1
             /\ \/ hw <= left[q[1]]
                \/ hw + slow <= 2 /\ left[q[1]] >= - (MaxDelay + 1) - slow
  BY <1>2, <1>4, <1>5, <1>9 DEF IInv, ArmedInv
<1>10. ArmedInv'
  <2> SUFFICES ASSUME pc = "thread", ~pend', q # <<>>
               PROVE  hwOn' /\ \/ hw' <= left'[q[1]]
                               \/ hw' + slow' <= 2 /\ left'[q[1]] >= - (MaxDelay + 1) - slow'
    BY <1>1 DEF ArmedInv
  <2>1. ~pend /\ hwOn /\ hw > 1 /\ hw' = hw - 1 /\ hwOn'
    BY <1>1, <1>9
  <2>2. slow' = IF slow < SetGap THEN slow + 1 ELSE slow
    BY <1>1, <2>1 DEF Busy
  <2>3. hw + slow <= 2 => slow = 0
    BY <1>1, <2>1
  <2>4. QED
    BY <1>1, <1>9, <2>1, <2>2, <2>3, Scales
<1>11. MaskedInv'
  <2> SUFFICES ASSUME pc = "masked", q # <<>>
               PROVE  IF pend' THEN left'[q[1]] >= - slow' ELSE hwOn' /\ hw' <= left'[q[1]]
    BY <1>1 DEF MaskedInv
  <2>1. left'[q[1]] = left[q[1]] - 1 /\ left[q[1]] \in Int /\ slow' = slow + 1
    BY <1>1, <1>2, <1>4, <1>5 DEF Busy
  <2>2. CASE pend
    <3>1. pend' /\ left[q[1]] >= - slow
      BY <1>1, <2>2 DEF IInv, MaskedInv
    <3>2. QED
      BY <1>1, <2>1, <3>1
  <2>3. CASE ~pend
    <3>1. hwOn /\ hw <= left[q[1]] /\ hw >= 1
      BY <1>1, <2>3 DEF IInv, MaskedInv
    <3>2. CASE hw = 1
      <4>1. pend'
        BY <1>1, <3>1, <3>2
      <4>2. left'[q[1]] >= 0
        BY <2>1, <3>1, <3>2
      <4>3. QED
        BY <1>1, <2>1, <4>1, <4>2
    <3>3. CASE hw # 1
      <4>1. ~pend'
        BY <1>1, <2>3, <3>3
      <4>2. hw > 1 /\ hw' = hw - 1
        BY <1>1, <3>1, <3>3
      <4>3. hwOn'
        BY <1>1, <3>1, <4>2
      <4>4. QED
        BY <1>1, <2>1, <3>1, <4>1, <4>2, <4>3
    <3>4. QED
      BY <3>2, <3>3
  <2>4. QED
    BY <2>2, <2>3
<1>12. LateInv'
  <2> SUFFICES ASSUME NEW i \in 1 .. Len(q)
               PROVE  /\ pc = "thread" /\ pend' => left'[q[i]] >= - WakeLate - slow'
                      /\ pc = "loop" => left'[q[i]] >= - (MaxDelay + WakeLate) - slow' - Wait(i)
                      /\ pc = "call" => left'[q[i]] >= - WakeLate - slow' - Wait(i)
    BY <1>1 DEF LateInv
  <2>1. /\ left[q[i]] \in Int /\ left[q[1]] \in Int /\ left[q[1]] <= left[q[i]]
        /\ left'[q[i]] = left[q[i]] - 1 /\ q # <<>>
    <3>1. 1 \in 1 .. Len(q) /\ q # <<>>
      BY <1>5
    <3>2. QED
      BY <1>2, <1>4, <3>1
  <2>2. i \in 1 .. Cardinality(Timers)
    BY <1>5, Places, Scales DEF IInv
  <2>3. Wait(i) \in Nat
    BY <2>2, WaitIs
  <2>4. Busy => slow' = slow + 1
    BY <1>1
  <2>5. CASE pc # "thread"
    <3>1. /\ slow' = slow + 1 /\ slow \in Nat
          /\ pc = "loop" => left[q[i]] >= - (MaxDelay + WakeLate) - slow - Wait(i)
          /\ pc = "call" => left[q[i]] >= - WakeLate - slow - Wait(i)
      BY <1>1, <2>4, <2>5 DEF IInv, TypeOK, LateInv, Busy
    <3> DEFINE x == left[q[i]]  w == Wait(i)
    <3>2. MaxDelay \in Nat /\ x \in Int /\ w \in Nat
      BY <2>1, <2>3, Scales
    <3> HIDE DEF x, w
    <3>3. /\ x >= - (MaxDelay + WakeLate) - slow - w
             => x - 1 >= - (MaxDelay + WakeLate) - (slow + 1) - w
          /\ x >= - WakeLate - slow - w
             => x - 1 >= - WakeLate - (slow + 1) - w
      BY <3>1, <3>2, Scales
    <3>4. QED
      BY <2>1, <2>5, <3>1, <3>3 DEF x, w
  <2>6. CASE pc = "thread" /\ pend
    BY <1>1, <2>1, <2>4, <2>6, Scales DEF IInv, LateInv, Busy
  <2>7. CASE pc = "thread" /\ ~pend /\ pend'
    <3>1. hwOn /\ hw = 1 /\ slow' = 0
      BY <1>1, <2>7 DEF Busy
    <3>2. left[q[1]] >= - (MaxDelay + 2)
      BY <1>1, <1>9, <2>1, <2>7, <3>1, Scales
    <3>3. QED
      BY <2>1, <2>7, <3>1, <3>2, Scales
  <2>8. QED
    BY <2>5, <2>6, <2>7
<1>13. QED
  BY <1>3, <1>6, <1>7, <1>8, <1>10, <1>11, <1>12 DEF IInv

LEMMA NextKeeps == IInv /\ [Next]_vars => IInv'
<1> SUFFICES ASSUME IInv, [Next]_vars
             PROVE  IInv'
  OBVIOUS
<1>1. CASE Next
  BY <1>1, ThreadSetKeeps, ThreadCancelKeeps, ReprogramKeeps, DisableKeeps, EnableKeeps,
     TakeIrqKeeps, NotDueKeeps, DueKeeps, IrqEndKeeps, CallbackKeeps, TickKeeps DEF Next, Cpu
<1>2. CASE UNCHANGED vars
  BY <1>2 DEF vars, IInv, TypeOK, Sorted, DelayInv, Busy, Allowed, ProgramInv, ArmedInv, MaskedInv, LateInv
<1>3. QED
  BY <1>1, <1>2

\* The invariant holds in every state.
THEOREM Inductive == Spec => []IInv
<1>1. Init => IInv
  BY InitInv
<1>2. IInv /\ [Next]_vars => IInv'
  BY NextKeeps
<1>3. QED
  BY <1>1, <1>2, PTL DEF Spec

\* The list is sorted and free of repetition, for any number of timers and whatever
\* thread and callbacks do.
THEOREM ListIsSorted == Spec => []Sorted
<1>1. IInv => Sorted
  BY DEF IInv
<1>2. QED
  BY <1>1, Inductive, PTL

\* No timer waits without a wake-up, for every scale of the hardware.
THEOREM WakeupIsArmed == Spec => []WakeupArmed
<1>1. IInv => WakeupArmed
  BY DEF IInv, ArmedInv, MaskedInv, WakeupArmed, TypeOK
<1>2. QED
  BY <1>1, Inductive, PTL

\* No callback is later than the delays of the CPU make it.
THEOREM CallbacksOnTime == Spec => []OnTime
<1>1. IInv => OnTime
  <2> SUFFICES ASSUME IInv, NEW t \in Active
               PROVE  left[t] >= - LateBound
    BY DEF OnTime
  <2>1. PICK i \in 1 .. Len(q) : t = q[i]
    BY ListIs DEF IInv, TypeOK
  <2>2. /\ Len(q) \in Nat /\ Len(q) <= Cardinality(Timers)
        /\ left[q[i]] \in Int /\ left[q[1]] \in Int /\ left[q[1]] <= left[q[i]]
    BY Places DEF IInv
  <2>3. i \in 1 .. Cardinality(Timers) /\ 1 \in 1 .. Cardinality(Timers) /\ 1 <= i
        /\ Cardinality(Timers) >= 1
    BY <2>2, Scales
  <2>4. /\ Wait(i) \in Nat /\ Wait(i) <= Wait(1) /\ Wait(1) \in Nat
        /\ LateBound = Wait(1) + 2 * MaxDelay + WakeLate
    BY <2>3, WaitIs
  <2>5. q # <<>> /\ slow \in Nat /\ delta \in Int /\ hw \in Nat /\ (hwOn => hw >= 1)
        /\ pc \in {"thread", "masked", "program", "loop", "call"} /\ pend \in BOOLEAN
    BY <2>2 DEF IInv, TypeOK
  <2> DEFINE x == left[q[i]]  h == left[q[1]]  w == Wait(i)  v == Wait(1)
  <2>a. /\ x \in Int /\ h \in Int /\ h <= x /\ w \in Nat /\ v \in Nat /\ w <= v
        /\ MaxDelay \in Nat /\ slow \in Nat /\ WakeLate \in Nat
        /\ WakeLate >= MaxMask /\ WakeLate >= MaxDelay + 3 /\ MaxMask \in Nat
    BY <2>2, <2>4, <2>5, Scales
  <2> SUFFICES x >= - (v + 2 * MaxDelay + WakeLate)
    BY <2>1, <2>4
  <2>6. CASE pc \in {"loop", "call"}
    <3>1. slow <= MaxDelay
      BY <2>6 DEF IInv, DelayInv, Busy, Allowed
    <3>2. x >= - (MaxDelay + WakeLate) - slow - w \/ x >= - WakeLate - slow - w
      BY <2>6 DEF IInv, LateInv
    <3> HIDE DEF x, h, w, v
    <3>3. QED
      BY <2>a, <3>1, <3>2
  <2>7. CASE pc = "program"
    <3>1. slow <= MaxDelay
      BY <2>7 DEF IInv, DelayInv, Busy, Allowed
    <3>2. h = delta - slow /\ delta >= -1
      BY <2>7 DEF IInv, ProgramInv
    <3> HIDE DEF x, h, w, v
    <3>3. QED
      BY <2>a, <2>5, <3>1, <3>2
  <2>8. CASE pc = "thread" /\ pend
    <3>1. slow <= MaxDelay
      BY <2>8 DEF IInv, DelayInv, Busy, Allowed
    <3>2. x >= - WakeLate - slow
      BY <2>8 DEF IInv, LateInv
    <3> HIDE DEF x, h, w, v
    <3>3. QED
      BY <2>a, <3>1, <3>2
  <2>9. CASE pc = "thread" /\ ~pend
    <3>1. \/ hwOn /\ hw <= h
          \/ hw + slow <= 2 /\ h >= - (MaxDelay + 1) - slow
      BY <2>5, <2>9 DEF IInv, ArmedInv
    <3> HIDE DEF x, h, w, v
    <3>2. QED
      BY <2>a, <2>5, <3>1
  <2>10. CASE pc = "masked"
    <3>1. slow <= MaxMask
      BY <2>10 DEF IInv, DelayInv, Busy, Allowed
    <3>2. IF pend THEN h >= - slow ELSE hwOn /\ hw <= h
      BY <2>5, <2>10 DEF IInv, MaskedInv
    <3> HIDE DEF x, h, w, v
    <3>3. h >= - slow
      BY <2>a, <2>5, <3>2
    <3>4. QED
      BY <2>a, <3>1, <3>3
  <2>11. QED
    BY <2>5, <2>6, <2>7, <2>8, <2>9, <2>10
<1>2. QED
  BY <1>1, Inductive, PTL
=============================================================================
