--------------------------- MODULE ReadRingProofs ---------------------------
(***************************************************************************)
(* Proofs about ReadRing for every ring, counter, cell and buffer size:    *)
(* the two decoders agree with each other and with the disk; the reader    *)
(* knows where the captures it has not taken begin; and a reader that      *)
(* takes two steps per capture, and is never further behind than the ring  *)
(* is long, loses none; and as long as none is lost, what a read returns   *)
(* is what has passed the head, from the first sync mark on: the read      *)
(* implements TrackRead.                                                   *)
(***************************************************************************)
EXTENDS ReadRing, SequenceTheorems, TLAPS

(***************************************************************************)
(* Quotient and remainder.                                                 *)
(***************************************************************************)
\* The remainder is what the quotient leaves.
LEMMA DivMod ==
  ASSUME NEW x \in Int, NEW S \in Nat \ {0}
  PROVE  /\ x \div S \in Int /\ x % S \in 0 .. S - 1
         /\ x % S = x - S * (x \div S)
<1>1. x % S = x - S * (x \div S)
  OBVIOUS
<1>2. x \div S \in Int /\ x % S \in 0 .. S - 1
  OBVIOUS
<1>3. QED
  BY <1>1, <1>2

\* A remainder in range and a quotient are determined by the number.
LEMMA UniqueRest ==
  ASSUME NEW S \in Nat \ {0}, NEW q1 \in Int, NEW q2 \in Int,
         NEW r1 \in 0 .. S - 1, NEW r2 \in 0 .. S - 1,
         r1 + S * q1 = r2 + S * q2
  PROVE  r1 = r2
OBVIOUS

\* One instance of distributivity at a time keeps products out of the provers' way.
LEMMA Distribute ==
  ASSUME NEW s \in Int, NEW p \in Int, NEW k \in Int
  PROVE  s * (p + k) = s * p + s * k /\ s * p \in Int
OBVIOUS

\* Whole turns of a ring of S places lead back to the same place.
LEMMA SameRest ==
  ASSUME NEW x \in Int, NEW y \in Int, NEW k \in Int, NEW S \in Nat \ {0}
  PROVE  y = x + S * k => y % S = x % S
<1> DEFINE a == x % S  p == x \div S  b == y % S  q == y \div S
<1>1. a \in 0 .. S - 1 /\ p \in Int /\ a = x - S * p
  BY DivMod
<1>2. b \in 0 .. S - 1 /\ q \in Int /\ b = y - S * q
  BY DivMod
<1> HIDE DEF a, b, p, q
<1>3. S \in Int
  OBVIOUS
<1>4. S * (p + k) = S * p + S * k /\ S * p \in Int
  BY <1>1, <1>3, Distribute, ZenonT(60)
<1>5. S * q \in Int
  BY <1>2, <1>3, Distribute, ZenonT(60)
<1> HAVE y = x + S * k
<1>6. b + S * q = a + S * (p + k) /\ p + k \in Int
  BY <1>1, <1>2, <1>4, <1>5
<1>7. a = b
  BY <1>1, <1>2, <1>6, UniqueRest
<1>8. QED
  BY <1>7 DEF a, b

\* The quotient is the only one with a remainder in range.
LEMMA DivIs ==
  ASSUME NEW S \in Nat \ {0}, NEW k \in Int, NEW r \in 0 .. S - 1, NEW x \in Int
  PROVE  x = r + S * k => x \div S = k /\ x % S = r
<1> DEFINE q == x \div S  a == x % S
<1>1. a \in 0 .. S - 1 /\ q \in Int /\ a = x - S * q
  BY DivMod
<1> HIDE DEF a, q
<1>2. S * q \in Int /\ S * k \in Int
  BY <1>1
<1> HAVE x = r + S * k
<1>3. a + S * q = r + S * k
  BY <1>1, <1>2
<1>4. a = r
  BY <1>1, <1>3, UniqueRest
<1>5. S * q = S * k
  BY <1>2, <1>3, <1>4
<1>6. q = k
  BY <1>1, <1>5
<1>7. QED
  BY <1>4, <1>6 DEF a, q

\* One place further round a ring.
LEMMA NextRest ==
  ASSUME NEW x \in Int, NEW S \in Nat \ {0}
  PROVE  (x + 1) % S = IF x % S = S - 1 THEN 0 ELSE (x % S) + 1
<1> DEFINE q == x \div S  r == x % S
<1>1. r \in 0 .. S - 1 /\ q \in Int /\ r = x - S * q
  BY DivMod
<1> HIDE DEF q, r
<1>2. S * q \in Int /\ S * (q + 1) = S * q + S /\ q + 1 \in Int /\ x + 1 \in Int
  BY <1>1
<1> DEFINE y == x + 1
<1>y. y \in Int
  OBVIOUS
<1> HIDE DEF y
<1>z. ASSUME NEW c \in 0 .. S - 1, NEW k \in Int
      PROVE  y = c + S * k => y % S = c
  BY <1>y, DivIs, SMTT(30)
<1>3. CASE r = S - 1
  <2>1. x + 1 = 0 + S * (q + 1) /\ 0 \in 0 .. S - 1
    BY <1>1, <1>2, <1>3
  <2>2. (x + 1) % S = 0
    BY <1>2, <2>1, <1>z DEF y
  <2>3. QED
    BY <1>3, <2>2 DEF r
<1>4. CASE r # S - 1
  <2>1. x + 1 = (r + 1) + S * q /\ r + 1 \in 0 .. S - 1
    BY <1>1, <1>2, <1>4
  <2>2. (x + 1) % S = r + 1
    BY <1>1, <1>2, <2>1, <1>z DEF y
  <2>3. QED
    BY <1>4, <2>2 DEF r
<1>5. QED
  BY <1>3, <1>4

(***************************************************************************)
(* The decoders.  An interval of t ticks, q cells and r ticks, stands for  *)
(* q cells or one more.                                                    *)
(***************************************************************************)
\* Away from a tie, the division of the sync search, the subtractions of the data
\* loop and the nearest number of cells agree, for intervals of any length.
THEOREM DecodersAgree ==
  ASSUME NEW t \in Nat, NoTie(t)
  PROVE  SyncCells(t) = Nominal(t) /\ DataCells(t) = Nominal(t)
<1> DEFINE h == Cell \div 2  q == t \div Cell  r == t % Cell
           n == IF r < h THEN IF q = 0 THEN 1 ELSE q ELSE q + 1
<1>1. Cell \in Nat \ {0} /\ Cell >= 2 /\ h \in Nat /\ (Cell = 2 * h \/ Cell = 2 * h + 1)
  BY CellAssumption
<1>2. r \in 0 .. Cell - 1 /\ q \in Int /\ t = r + Cell * q /\ r # h
  <2>1. r \in 0 .. Cell - 1 /\ q \in Int /\ r = t - Cell * q
    BY <1>1, DivMod
  <2>2. Cell * q \in Int
    BY <1>1, <2>1
  <2> HIDE DEF q
  <2>3. t = r + Cell * q
    BY <2>1, <2>2
  <2>4. QED
    BY <2>1, <2>3 DEF NoTie
<1> HIDE DEF h, q, r
<1>3. q \in Nat /\ q <= t
  BY <1>1, <1>2
<1>4. Cell * q \in Nat /\ Cell * (q - 1) = Cell * q - Cell /\ Cell * (q + 1) = Cell * q + Cell
      /\ (q >= 1 => Cell * q >= Cell) /\ (2 * Cell) * q = 2 * (Cell * q)
  BY <1>1, <1>3
<1>5. SyncCells(t) = n
  <2>1. CASE t < h
    <3>1. q = 0 /\ r < h
      BY <1>1, <1>2, <1>3, <1>4, <2>1
    <3>2. QED
      BY <2>1, <3>1 DEF SyncCells, h
  <2>2. CASE ~(t < h) /\ r < h
    <3>1. q >= 1
      BY <1>1, <1>2, <1>3, <1>4, <2>2
    <3>2. t - h = (r + Cell - h) + Cell * (q - 1) /\ r + Cell - h \in 0 .. Cell - 1
          /\ q - 1 \in Int /\ t - h \in Int
      BY <1>1, <1>2, <1>4, <2>2
    <3>3. (t - h) \div Cell = q - 1
      <4>1. ASSUME NEW a \in Int, NEW b \in Int, NEW c \in 0 .. Cell - 1, a = c + Cell * b
            PROVE  a \div Cell = b
        BY <1>1, <4>1, DivIs
      <4>2. QED
        BY <3>2, <4>1, Zenon
    <3>4. QED
      BY <1>3, <2>2, <3>1, <3>3 DEF SyncCells, h
  <2>3. CASE ~(t < h) /\ ~(r < h)
    <3>1. t - h = (r - h) + Cell * q /\ r - h \in 0 .. Cell - 1 /\ t - h \in Int
      BY <1>1, <1>2, <1>4, <2>3
    <3>2. (t - h) \div Cell = q
      BY <1>1, <1>2, <3>1, DivIs
    <3>3. QED
      BY <2>3, <3>2 DEF SyncCells, h
  <2>4. QED
    BY <2>1, <2>2, <2>3
<1>6. Nominal(t) = n
  <2>1. CASE 2 * t < Cell
    <3>1. q = 0 /\ r < h
      BY <1>1, <1>2, <1>3, <1>4, <2>1
    <3>2. QED
      BY <2>1, <3>1 DEF Nominal
  <2>2. CASE ~(2 * t < Cell) /\ r < h
    <3>1. q >= 1
      BY <1>1, <1>2, <1>3, <1>4, <2>2
    <3>2. 2 * t + Cell = (2 * r + Cell) + (2 * Cell) * q /\ 2 * r + Cell \in 0 .. 2 * Cell - 1
          /\ 2 * Cell \in Nat \ {0} /\ 2 * t + Cell \in Int
      BY <1>1, <1>2, <1>4, <2>2
    <3>3. (2 * t + Cell) \div (2 * Cell) = q
      BY <1>2, <3>2, DivIs
    <3>4. QED
      BY <2>2, <3>1, <3>3 DEF Nominal
  <2>3. CASE ~(2 * t < Cell) /\ ~(r < h)
    <3>1. 2 * t + Cell = (2 * r - Cell) + (2 * Cell) * (q + 1)
      <4>1. (2 * Cell) * (q + 1) = 2 * (Cell * q) + 2 * Cell
        BY <1>1, <1>3, <1>4
      <4>2. QED
        BY <1>1, <1>2, <1>4, <4>1
    <3>2. 2 * r - Cell \in 0 .. 2 * Cell - 1 /\ 2 * Cell \in Nat \ {0} /\ 2 * t + Cell \in Int
          /\ q + 1 \in Int
      BY <1>1, <1>2, <2>3
    <3>3. (2 * t + Cell) \div (2 * Cell) = q + 1
      BY <3>1, <3>2, DivIs
    <3>4. QED
      BY <2>3, <3>3 DEF Nominal
  <2>4. QED
    BY <2>1, <2>2, <2>3
<1>7. DataCells(t) = n
  <2> DEFINE P(m) == /\ t - (m - 1) * Cell <= Cell + Cell \div 2
                     /\ m = 1 \/ t - (m - 2) * Cell > Cell + Cell \div 2
  <2>1. \A m \in 1 .. t + 1 : /\ m * Cell \in Int /\ (m - 1) * Cell = m * Cell - Cell
                              /\ (m - 2) * Cell = m * Cell - 2 * Cell
    BY <1>1
  <2>2. \A m \in 1 .. t + 1 : P(m) <=> (t <= m * Cell + h) /\ (m = 1 \/ t > m * Cell - Cell + h)
    BY <1>1, <2>1 DEF h
  <2>3. n \in 1 .. t + 1 /\ n * Cell = IF n = q THEN Cell * q ELSE Cell * q + Cell
    BY <1>1, <1>2, <1>3, <1>4
  <2>4. P(n)
    <3>1. t <= n * Cell + h
      BY <1>1, <1>2, <1>3, <1>4, <2>3
    <3>2. n = 1 \/ t > n * Cell - Cell + h
      BY <1>1, <1>2, <1>3, <1>4, <2>3
    <3>3. QED
      BY <2>2, <2>3, <3>1, <3>2
  <2>5. \A m \in 1 .. t + 1 : P(m) => m = n
    <3> SUFFICES ASSUME NEW m \in 1 .. t + 1, P(m), m # n
                 PROVE  FALSE
      OBVIOUS
    <3> HIDE DEF n
    <3>1. /\ t <= m * Cell + h /\ (m = 1 \/ t > m * Cell - Cell + h)
          /\ t <= n * Cell + h /\ (n = 1 \/ t > n * Cell - Cell + h)
          /\ m * Cell \in Int /\ n * Cell \in Int
      BY <2>1, <2>2, <2>3, <2>4
    <3> HIDE DEF P
    <3>2. CASE m > n
      <4>1. m * Cell - Cell >= n * Cell
        <5>1. m - 1 >= n /\ m - 1 \in Int /\ n \in Int
          BY <2>3, <3>2
        <5>2. (m - 1) * Cell >= n * Cell
          BY <1>1, <5>1
        <5>3. QED
          BY <2>1, <5>2
      <4>2. QED
        BY <1>1, <2>3, <3>1, <3>2, <4>1
    <3>3. CASE m < n
      <4>1. n * Cell - Cell >= m * Cell
        <5>1. n - 1 >= m /\ n - 1 \in Int /\ m \in Int
          BY <2>3, <3>3
        <5>2. (n - 1) * Cell >= m * Cell
          BY <1>1, <5>1
        <5>3. QED
          BY <2>1, <2>3, <5>2
      <4>2. QED
        BY <1>1, <2>3, <3>1, <3>3, <4>1
    <3>4. QED
      BY <2>3, <3>2, <3>3
  <2> HIDE DEF n
  <2>6. (CHOOSE m \in 1 .. t + 1 : P(m)) = n
    <3> HIDE DEF P
    <3>1. QED
      BY <2>3, <2>4, <2>5
  <2>7. QED
    BY <2>6 DEF DataCells
<1>8. QED
  BY <1>5, <1>6, <1>7

(***************************************************************************)
(* The ring.                                                               *)
(***************************************************************************)
TypeOK ==
  /\ pc \in {"idle", "prepared", "poll", "take", "full", "done"} /\ on \in BOOLEAN
  /\ cons \in Slots /\ prod \in Slots /\ dmaprod \in Slots
  /\ pending \in Nat /\ speed \in Nat /\ credit \in Nat

\* Timer and DMA run from the start of the timer to the end of the call.
PhaseInv ==
  /\ on <=> pc \in {"poll", "take", "full"}
  /\ pc = "prepared" => cons = 0 /\ dmaprod = 0 /\ pending = 0 /\ ~lost

\* What was read from CNDTR, and is not yet taken, is pending.
BatchInv == pc = "take" => (prod - cons) % Size \in 1 .. pending

IInv == TypeOK /\ PhaseInv /\ PositionOK /\ BatchInv

LEMMA SlotsAre == Size \in Nat \ {0} /\ Slots = 0 .. Size - 1
BY SizeAssumption DEF Slots

\* A place that is one step further, seen from the producer's side.
LEMMA OneStep ==
  /\ \A x \in Int : x % Size \in Slots
  /\ \A x \in Slots : x % Size = x
  /\ \A x \in Int : ((x % Size) + 1) % Size = (x + 1) % Size
<1>1. \A x \in Int : x % Size \in Slots
  BY SlotsAre
<1>2. \A x \in Slots : x % Size = x
  BY SlotsAre
<1>3. ASSUME NEW x \in Int
      PROVE  ((x % Size) + 1) % Size = (x + 1) % Size
  <2> DEFINE r == x % Size
  <2>1. r \in Slots /\ (x + 1) % Size = IF r = Size - 1 THEN 0 ELSE r + 1
    BY <1>1, NextRest, SlotsAre
  <2>2. (r + 1) % Size = IF r % Size = Size - 1 THEN 0 ELSE (r % Size) + 1
    <3> HIDE DEF r
    <3>1. r \in Int
      BY <2>1, SlotsAre
    <3>2. QED
      BY <3>1, NextRest, SlotsAre
  <2>3. r % Size = r
    BY <1>2, <2>1
  <2>4. QED
    BY <2>1, <2>2, <2>3
<1>4. QED
  BY <1>1, <1>2, <1>3

LEMMA AdvanceStep ==
  ASSUME IInv, pc = "take", Advance, UNCHANGED <<prod, dmaprod>>
  PROVE  /\ cons' \in Slots /\ pending' \in Nat
         /\ cons' = (dmaprod' - pending') % Size
         /\ cons' # prod' => (prod' - cons') % Size \in 1 .. pending'
<1>1. /\ cons \in Slots /\ prod \in Slots /\ dmaprod \in Int /\ pending \in Int
      /\ cons = (dmaprod - pending) % Size /\ (prod - cons) % Size \in 1 .. pending
      /\ cons' = (cons + 1) % Size /\ pending' = pending - 1 /\ pending \in Nat
  BY SlotsAre DEF IInv, TypeOK, PhaseInv, PositionOK, BatchInv, Advance
<1>2. cons' \in Slots /\ pending' \in Nat
  <2>1. cons + 1 \in Int
    BY <1>1, SlotsAre
  <2>2. cons' \in Slots
    BY <1>1, <2>1, OneStep
  <2>3. pending >= 1
    BY <1>1
  <2>4. QED
    BY <1>1, <2>2, <2>3
<1>3. cons' = (dmaprod' - pending') % Size
  <2>1. dmaprod - pending \in Int /\ (dmaprod - pending) + 1 = dmaprod' - pending'
    BY <1>1
  <2>2. QED
    BY <1>1, <2>1, OneStep
<1>4. cons' # prod' => (prod' - cons') % Size \in 1 .. pending'
  <2> SUFFICES ASSUME cons' # prod
               PROVE  (prod - cons') % Size \in 1 .. pending - 1
    BY <1>1
  <2> DEFINE d == (prod - cons) % Size  e == (prod - cons') % Size
  <2>1. cons' = IF cons = Size - 1 THEN 0 ELSE cons + 1
    BY <1>1, SlotsAre
  <2>2. d = IF prod >= cons THEN prod - cons ELSE prod - cons + Size
    BY <1>1, SlotsAre
  <2>3. e = IF prod >= cons' THEN prod - cons' ELSE prod - cons' + Size
    BY <1>1, <1>2, SlotsAre
  <2> HIDE DEF d, e
  <2>4. e = d - 1 /\ e # 0
    BY <1>1, <1>2, <2>1, <2>2, <2>3, SlotsAre
  <2>5. QED
    BY <1>1, <2>4, SlotsAre DEF d, e
<1>5. QED
  BY <1>2, <1>3, <1>4

LEMMA CreditType ==
  ASSUME TypeOK, CpuStep
  PROVE  credit' \in Nat /\ speed' \in Nat
<1>1. speed * Burst \in Nat
  BY PaceAssumption DEF TypeOK
<1>2. QED
  BY <1>1 DEF TypeOK, CpuStep, Least

LEMMA InitInv == Init => IInv
<1> SUFFICES ASSUME Init
             PROVE  IInv
  OBVIOUS
<1>1. 0 \in Slots
  BY SlotsAre
<1>2. QED
  BY <1>1 DEF Init, IInv, TypeOK, PhaseInv, PositionOK, BatchInv

LEMMA PrepStep ==
  ASSUME IInv, NEW s \in {"none", "mfm", "fm"}, Prep(s)
  PROVE  IInv'
<1>1. ~on /\ pc' = "prepared" /\ cons' = 0 /\ dmaprod' = 0 /\ pending' = 0 /\ lost' = FALSE
      /\ on' = on /\ prod' = prod /\ prod \in Slots
  BY DEF IInv, TypeOK, PhaseInv, Prep, FreshCons
<1>2. speed' \in Nat /\ credit' \in Nat
  <2>1. speed' \in Nat /\ credit' = speed' * Burst
    BY PaceAssumption DEF Prep
  <2>2. \A x \in Nat : x * Burst \in Nat
    BY PaceAssumption
  <2>3. QED
    BY <2>1, <2>2
<1>3. 0 \in Slots
  BY SlotsAre
<1>4. QED
  BY <1>1, <1>2, <1>3 DEF IInv, TypeOK, PhaseInv, PositionOK, BatchInv

LEMMA StartStep ==
  ASSUME IInv, StartTimer
  PROVE  IInv'
<1>1. pc' = "poll" /\ on' = TRUE /\ cons = 0 /\ dmaprod = 0 /\ pending = 0
      /\ UNCHANGED <<cons, prod, dmaprod, pending, lost>>
  BY DEF IInv, PhaseInv, StartTimer, reader, dma
<1>2. credit' \in Nat /\ speed' \in Nat
  BY CreditType DEF IInv, StartTimer
<1>3. (0 - 0) % Size = 0
  BY SlotsAre
<1>4. QED
  BY <1>1, <1>2, <1>3 DEF IInv, TypeOK, PhaseInv, PositionOK, BatchInv

\* The captures up to the position read from CNDTR are among the pending ones.
LEMMA FreshBatch ==
  ASSUME IInv, on, cons # dmaprod
  PROVE  (dmaprod - cons) % Size \in 1 .. pending
<1> DEFINE q == (dmaprod - pending) \div Size  r == (dmaprod - pending) % Size
<1>1. /\ cons \in 0 .. Size - 1 /\ dmaprod \in 0 .. Size - 1 /\ pending \in Nat
      /\ cons = r /\ dmaprod - pending \in Int
  BY SlotsAre DEF IInv, TypeOK, PositionOK
<1>2. q \in Int /\ r = dmaprod - pending - Size * q
  BY <1>1, SlotsAre, DivMod
<1> HIDE DEF q, r
<1>3. pending = dmaprod - cons - Size * q /\ Size * q \in Int
  BY <1>1, <1>2, SlotsAre
<1>4. (dmaprod - cons) % Size = IF dmaprod >= cons THEN dmaprod - cons ELSE dmaprod - cons + Size
  BY <1>1, SlotsAre
<1>5. q <= 0 \/ Size * q >= Size
  BY <1>2, SlotsAre
<1>6. q = 0 \/ q >= 1 \/ Size * q <= 0 - Size
  BY <1>2, SlotsAre
<1>7. q = 0 => Size * q = 0
  BY SlotsAre
<1>8. QED
  BY <1>1, <1>2, <1>3, <1>4, <1>5, <1>6, <1>7, SlotsAre

LEMMA PollStep ==
  ASSUME IInv, Poll
  PROVE  IInv'
<1>1. /\ pc = "poll" /\ on /\ prod' = dmaprod /\ dmaprod \in Slots
      /\ pc' = IF cons = dmaprod THEN "poll" ELSE "take"
      /\ UNCHANGED <<cons, dmaprod, pending, lost, on>>
  BY DEF IInv, TypeOK, PhaseInv, Poll, dma
<1>2. credit' \in Nat /\ speed' \in Nat
  BY CreditType DEF IInv, Poll
<1>3. cons # dmaprod => (dmaprod - cons) % Size \in 1 .. pending
  BY <1>1, FreshBatch
<1>4. BatchInv'
  BY <1>1, <1>3 DEF BatchInv
<1>5. PositionOK'
  BY <1>1 DEF IInv, PositionOK
<1>6. QED
  BY <1>1, <1>2, <1>4, <1>5 DEF IInv, TypeOK, PhaseInv

LEMMA TakeStep ==
  ASSUME IInv, TakeSync \/ TakeData
  PROVE  IInv'
<1>1. /\ pc = "take" /\ Advance /\ CpuStep /\ UNCHANGED <<prod, dmaprod, on, lost>>
      /\ pc' \in {"poll", "take", "full"} /\ (pc' = "take" => cons' # prod')
  BY DEF TakeSync, TakeData, dma
<1>2. /\ cons' \in Slots /\ pending' \in Nat
      /\ cons' = (dmaprod' - pending') % Size
      /\ cons' # prod' => (prod' - cons') % Size \in 1 .. pending'
  BY <1>1, AdvanceStep
<1>3. credit' \in Nat /\ speed' \in Nat
  BY <1>1, CreditType DEF IInv
<1>4. QED
  BY <1>1, <1>2, <1>3 DEF IInv, TypeOK, PhaseInv, PositionOK, BatchInv

LEMMA StopStep ==
  ASSUME IInv, Stop
  PROVE  IInv'
<1>1. pc' = "done" /\ on' = FALSE /\ UNCHANGED <<cons, prod, dmaprod, pending, lost>>
  BY DEF Stop, reader, dma
<1>2. credit' \in Nat /\ speed' \in Nat
  BY CreditType DEF IInv, Stop
<1>3. QED
  BY <1>1, <1>2 DEF IInv, TypeOK, PhaseInv, PositionOK, BatchInv

LEMMA CaptureStep ==
  ASSUME IInv, NEW t, Capture(t)
  PROVE  IInv'
<1>1. /\ on /\ credit >= speed /\ credit' = credit - speed /\ pending' = pending + 1
      /\ dmaprod' = (dmaprod + 1) % Size /\ UNCHANGED <<pc, cons, prod, on, speed>>
      /\ dmaprod \in Slots /\ pending \in Nat /\ cons = (dmaprod - pending) % Size
      /\ credit \in Nat /\ speed \in Nat /\ pc \in {"poll", "take", "full"}
  BY DEF Capture, reader, IInv, TypeOK, PhaseInv, PositionOK
<1>2. dmaprod' \in Slots
  <2>1. dmaprod + 1 \in Int
    BY <1>1, SlotsAre
  <2>2. QED
    BY <1>1, <2>1, OneStep
<1>3. cons' = (dmaprod' - pending') % Size
  <2> DEFINE q == (dmaprod + 1) \div Size  d == (dmaprod + 1) % Size
             x == dmaprod - pending  y == d - (pending + 1)
  <2>1. d = dmaprod + 1 - Size * q /\ q \in Int /\ d \in Int
    BY <1>1, SlotsAre, DivMod
  <2> HIDE DEF d, q
  <2>2. y = x + Size * (0 - q) /\ x \in Int /\ y \in Int /\ 0 - q \in Int
    <3>1. Size * (0 - q) = 0 - Size * q /\ Size * q \in Int
      BY <2>1, SlotsAre
    <3>2. QED
      BY <1>1, <2>1, <3>1, SlotsAre
  <2> HIDE DEF x, y
  <2>3. y % Size = x % Size
    BY <2>2, SlotsAre, SameRest
  <2>4. QED
    BY <1>1, <2>3 DEF x, y, d
<1>4. pc' = "take" => (prod' - cons') % Size \in 1 .. pending'
  BY <1>1 DEF IInv, BatchInv
<1>5. credit' \in Nat /\ pending' \in Nat
  BY <1>1
<1>6. QED
  BY <1>1, <1>2, <1>3, <1>4, <1>5 DEF IInv, TypeOK, PhaseInv, PositionOK, BatchInv

LEMMA IdleStep ==
  ASSUME IInv, UNCHANGED vars
  PROVE  IInv'
BY DEF IInv, TypeOK, PhaseInv, PositionOK, BatchInv, vars, reader, dma

LEMMA NextStep ==
  ASSUME IInv, [Next]_vars
  PROVE  IInv'
<1>1. CASE \E s \in {"none", "mfm", "fm"} : Prep(s)
  BY <1>1, PrepStep
<1>2. CASE Reader
  BY <1>2, StartStep, PollStep, TakeStep, StopStep DEF Reader
<1>3. CASE Reversal
  BY <1>3, CaptureStep DEF Reversal
<1>4. CASE UNCHANGED vars
  BY <1>4, IdleStep
<1>5. QED
  BY <1>1, <1>2, <1>3, <1>4 DEF Next

\* The types, the phases of a read and the places in the ring, in every state.
THEOREM Inductive == Spec => []IInv
<1>1. Init => IInv
  BY InitInv
<1>2. IInv /\ [Next]_vars => IInv'
  BY NextStep
<1>3. QED
  BY <1>1, <1>2, PTL DEF Spec

\* Behind by however many captures, the reader's index is where they begin, or whole
\* turns of the ring away from it.
THEOREM PositionIsOK == Spec => []PositionOK
<1>1. IInv => PositionOK
  BY DEF IInv
<1>2. QED
  BY <1>1, Inductive, PTL

(***************************************************************************)
(* The pace.  A capture costs the reader's credit what taking it pays back *)
(* and one step more: what is pending and what is in hand stay within the  *)
(* captures that may come without any step of the CPU.                     *)
(***************************************************************************)
Work == speed * pending + credit

PaceInv ==
  /\ credit <= speed * Burst
  /\ speed >= 2 =>
       /\ ~lost
       /\ pc \in {"poll", "full"} => Work <= speed * Burst
       /\ pc = "take" => Work <= speed * Burst + 1

LEMMA Products ==
  ASSUME TypeOK
  PROVE  /\ speed * Burst \in Nat /\ speed * pending \in Nat
         /\ speed * (pending + 1) = speed * pending + speed
         /\ speed * (pending - 1) = speed * pending - speed
         /\ Burst \in Nat \ {0} /\ speed \in Nat /\ pending \in Nat /\ credit \in Nat
BY PaceAssumption DEF TypeOK

\* Whoever pays for n captures out of what Burst captures bring, and one step, pays
\* for at most Burst.
LEMMA Affordable ==
  ASSUME NEW s \in Nat, s >= 2, NEW n \in Nat, NEW b \in Nat, s * n <= s * b + 1
  PROVE  n <= b
<1> SUFFICES ASSUME n > b
             PROVE  FALSE
  OBVIOUS
<1>1. s * n >= s * (b + 1)
  OBVIOUS
<1>2. s * (b + 1) = s * b + s /\ s * b \in Nat /\ s * n \in Nat
  OBVIOUS
<1>3. QED
  BY <1>1, <1>2

\* A step of the CPU adds at most one to the credit.
LEMMA PaceCpu ==
  ASSUME TypeOK, PaceInv, CpuStep
  PROVE  /\ speed' = speed /\ credit' \in Nat
         /\ credit' <= speed * Burst /\ credit' <= credit + 1
BY Products DEF PaceInv, CpuStep, Least

LEMMA PacePrep ==
  ASSUME NEW s \in {"none", "mfm", "fm"}, Prep(s)
  PROVE  PaceInv'
<1>1. speed' \in Nat /\ credit' = speed' * Burst /\ lost' = FALSE /\ pc' = "prepared"
  BY PaceAssumption DEF Prep
<1>2. \A x \in Nat : x * Burst \in Nat /\ x * Burst <= x * Burst
  BY PaceAssumption
<1>3. credit' <= speed' * Burst
  BY <1>1, <1>2
<1>4. QED
  BY <1>1, <1>3 DEF PaceInv

LEMMA PaceStart ==
  ASSUME IInv, PaceInv, StartTimer
  PROVE  PaceInv'
<1>1. pc' = "poll" /\ pending = 0 /\ pending' = pending /\ lost' = lost /\ CpuStep /\ TypeOK
  BY DEF IInv, PhaseInv, StartTimer
<1>2. speed' = speed /\ credit' \in Nat /\ credit' <= speed * Burst
  BY <1>1, PaceCpu
<1>3. Work' = credit'
  BY <1>1, <1>2, Products DEF Work
<1>4. QED
  BY <1>1, <1>2, <1>3, Products DEF PaceInv

LEMMA PacePoll ==
  ASSUME Burst < Size, IInv, PaceInv, Poll
  PROVE  PaceInv'
<1>1. /\ pc = "poll" /\ on /\ pending' = pending /\ lost' = lost /\ CpuStep /\ TypeOK
      /\ pc' = IF cons = dmaprod THEN "poll" ELSE "take"
  BY DEF IInv, PhaseInv, Poll
<1>2. speed' = speed /\ credit' \in Nat /\ credit' <= speed * Burst /\ credit' <= credit + 1
  BY <1>1, PaceCpu
<1>3. Work' = speed * pending + credit'
  BY <1>1, <1>2 DEF Work
<1>4. CASE cons = dmaprod /\ speed >= 2
  <2>1. pending <= Burst
    <3>1. speed * pending + credit <= speed * Burst
      BY <1>1, <1>4 DEF PaceInv, Work
    <3>2. speed * pending <= speed * Burst + 1
      BY <3>1, <1>1, Products
    <3>3. QED
      BY <1>1, <1>4, <3>2, Products, Affordable
  <2>2. cons = (dmaprod - pending) % Size /\ cons \in Slots
    BY <1>1 DEF IInv, TypeOK, PositionOK
  <2>3. pending = 0
    <3>1. pending \in Nat /\ pending < Size /\ Burst \in Nat
      BY <1>1, <2>1, Products, SlotsAre
    <3>2. (dmaprod - pending) % Size = IF dmaprod >= pending THEN dmaprod - pending
                                       ELSE dmaprod - pending + Size
      BY <1>4, <2>2, <3>1, SlotsAre
    <3>3. QED
      BY <1>4, <2>2, <3>1, <3>2, SlotsAre
  <2>4. Work' = credit'
    BY <1>1, <1>2, <1>3, <2>3, Products
  <2>5. QED
    BY <1>1, <1>2, <1>4, <2>4 DEF PaceInv
<1>5. CASE cons # dmaprod /\ speed >= 2
  <2>1. Work <= speed * Burst
    BY <1>1, <1>5 DEF PaceInv
  <2>2. Work' <= speed * Burst + 1
    BY <1>1, <1>2, <1>3, <2>1, Products DEF Work
  <2>3. QED
    BY <1>1, <1>2, <1>5, <2>2 DEF PaceInv
<1>6. CASE ~(speed >= 2)
  BY <1>2, <1>6 DEF PaceInv
<1>7. QED
  BY <1>4, <1>5, <1>6

LEMMA PaceTake ==
  ASSUME IInv, PaceInv, TakeSync \/ TakeData
  PROVE  PaceInv'
<1>1. /\ pc = "take" /\ pending' = pending - 1 /\ lost' = lost /\ CpuStep /\ TypeOK
  BY DEF IInv, TakeSync, TakeData, Advance
<1>2. speed' = speed /\ credit' \in Nat /\ credit' <= speed * Burst /\ credit' <= credit + 1
  BY <1>1, PaceCpu
<1>3. Work' = speed * (pending - 1) + credit'
  BY <1>1, <1>2 DEF Work
<1>4. ASSUME speed >= 2
      PROVE  Work' <= speed * Burst
  <2>1. Work <= speed * Burst + 1
    BY <1>1, <1>4 DEF PaceInv
  <2>2. QED
    BY <1>1, <1>2, <1>3, <1>4, <2>1, Products DEF Work
<1>5. Work' \in Int /\ speed * Burst \in Int
  BY <1>1, <1>2, <1>3, Products
<1>6. speed >= 2 => Work' <= speed * Burst + 1
  BY <1>4, <1>5
<1>7. QED
  BY <1>1, <1>2, <1>4, <1>6 DEF PaceInv

LEMMA PaceStop ==
  ASSUME IInv, PaceInv, Stop
  PROVE  PaceInv'
<1>1. pc' = "done" /\ lost' = lost /\ CpuStep /\ TypeOK
  BY DEF IInv, Stop
<1>2. speed' = speed /\ credit' <= speed * Burst
  BY <1>1, PaceCpu
<1>3. QED
  BY <1>1, <1>2 DEF PaceInv

LEMMA PaceCapture ==
  ASSUME Burst < Size, IInv, PaceInv, NEW t, Capture(t)
  PROVE  PaceInv'
<1>1. /\ on /\ TypeOK /\ pc \in {"poll", "take", "full"} /\ UNCHANGED <<pc, speed>>
      /\ credit >= speed /\ credit' = credit - speed /\ pending' = pending + 1
      /\ lost' = (lost \/ pending >= Size)
  BY DEF IInv, TypeOK, PhaseInv, Capture
<1>2. Work' = Work
  BY <1>1, Products DEF Work
<1>3. credit' <= speed * Burst
  BY <1>1, Products DEF PaceInv
<1>4. ASSUME speed >= 2
      PROVE  ~lost'
  <2>1. speed * pending + credit <= speed * Burst + 1
    BY <1>1, <1>4, Products DEF PaceInv, Work
  <2>2. speed * (pending + 1) <= speed * Burst + 1
    BY <1>1, <2>1, Products
  <2>3. pending + 1 <= Burst
    BY <1>1, <1>4, <2>2, Products, Affordable
  <2>4. pending < Size
    <3>1. pending \in Nat /\ Burst \in Nat /\ Size \in Nat
      BY <1>1, Products, SlotsAre DEF TypeOK
    <3>2. QED
      BY <2>3, <3>1
  <2>5. ~lost
    BY <1>4 DEF PaceInv
  <2>6. ~(pending >= Size)
    BY <1>1, <2>4, Products, SlotsAre
  <2>7. QED
    BY <1>1, <2>5, <2>6
<1>5. QED
  BY <1>1, <1>2, <1>3, <1>4 DEF PaceInv

LEMMA PaceNext ==
  ASSUME Burst < Size, IInv, PaceInv, [Next]_vars
  PROVE  PaceInv'
<1>1. CASE \E s \in {"none", "mfm", "fm"} : Prep(s)
  BY <1>1, PacePrep
<1>2. CASE Reader
  BY <1>2, PaceStart, PacePoll, PaceTake, PaceStop DEF Reader
<1>3. CASE Reversal
  BY <1>3, PaceCapture DEF Reversal
<1>4. CASE UNCHANGED vars
  BY <1>4 DEF PaceInv, Work, vars
<1>5. QED
  BY <1>1, <1>2, <1>3, <1>4 DEF Next

\* In a ring longer than the longest burst, a CPU that takes two steps per capture on
\* average loses no capture, however many captures and reads there are.
THEOREM NoOverrunAtPace ==
  ASSUME Burst < Size
  PROVE  Spec => []NoOverrun
<1>1. Init => PaceInv
  <2> SUFFICES ASSUME Init
               PROVE  PaceInv
    OBVIOUS
  <2>1. QED
    BY PaceAssumption DEF Init, PaceInv
<1>2. IInv /\ PaceInv /\ [Next]_vars => PaceInv'
  BY PaceNext
<1>3. PaceInv => NoOverrun
  BY DEF PaceInv, NoOverrun
<1>4. QED
  BY <1>1, <1>2, <1>3, Inductive, PTL DEF Spec
(***************************************************************************)
(* The cells.  While no capture is lost, the pending captures divide the   *)
(* cells not yet taken as the disk has shown them, and window and buffer   *)
(* are pieces of the cells taken.                                          *)
(***************************************************************************)
\* The last Word bits of the first n cells of d, after nothing but ones.
Recent(d, n) == [i \in 1 .. Word |-> IF n - Word + i >= 1 THEN d[n - Word + i] ELSE 1]

\* The capture that the reader compares with, and those it has still to take.
Sample(j) == IF j = 0 THEN prev ELSE buf[(cons + j - 1) % Size]
Gap(j) == (Sample(j) - Sample(j - 1)) % CntMod

\* The cells between a and b end in a reversal.
Group(d, a, b) == a < b /\ \A p \in 1 .. b - a : d[a + p] = CellBits(b - a)[p]

\* Where the cells taken end, and where those of each pending capture do: either
\* decoder will find as many cells in the interval as have passed the head.
Cut(e) ==
  /\ e \in [0 .. pending -> 0 .. Len(disk)] /\ e[pending] = Len(disk)
  /\ Sample(pending) = cnt
  /\ \A j \in 1 .. pending :
       /\ Group(disk, e[j - 1], e[j])
       /\ SyncCells(Gap(j)) = e[j] - e[j - 1] /\ DataCells(Gap(j)) = e[j] - e[j - 1]

\* The buffer is to begin at cell b, when n cells have been taken.
StartsAt(b, n) ==
  IF sync = "none" THEN b = 1
  ELSE \E f \in Word .. n :
         /\ b = f - SyncFound + 1
         /\ Recent(disk, f) \in Marks /\ \A i \in Word .. f - 1 : Recent(disk, i) \notin Marks

\* What has been made of the first n cells.
Decoded(n) ==
  /\ window = Recent(disk, n)
  /\ seeking => \A i \in Word .. n : Recent(disk, i) \notin Marks
  /\ ~seeking =>
       \E b \in 1 .. n + 1 :
         /\ StartsAt(b, n) /\ bcprod = Least(n - b + 1, BcMax)
         /\ pc \in {"full", "done"} <=> n - b + 1 >= BcMax
         /\ \A w \in 1 .. NrWords : w * Word <= bcprod => out[w] = Recent(disk, b + w * Word - 1)

CellsInv == ~lost => \E e \in [0 .. pending -> 0 .. Len(disk)] : Cut(e) /\ Decoded(e[0])

WordsInv ==
  /\ sync \in {"none", "mfm", "fm"} /\ seeking \in BOOLEAN /\ lost \in BOOLEAN
  /\ disk \in Seq(Bits) /\ cnt \in 0 .. CntMod - 1 /\ buf \in [Slots -> Nat]
  /\ DOMAIN out = 1 .. NrWords
  /\ seeking => sync # "none" /\ pc \notin {"full", "done"}

DiskInv == WordsInv /\ CellsInv

(***************************************************************************)
(* Words, cells and windows.                                               *)
(***************************************************************************)
LEMMA Widths ==
  /\ Cell \in Nat /\ Cell >= 2 /\ Word \in Nat /\ Word >= 2 /\ CntMod \in Nat \ {0}
  /\ NrWords \in Nat /\ NrWords >= 2 /\ BcMax \in Nat /\ BcMax >= 2 * Word
<1>1. /\ Cell \in Nat /\ Cell >= 2 /\ Word \in Nat /\ Word >= 2 /\ CntMod \in Nat \ {0}
      /\ NrWords \in Nat /\ NrWords >= 2
  BY CellAssumption, BufferAssumption
<1>2. /\ Word * (2 + (NrWords - 2)) = Word * 2 + Word * (NrWords - 2)
      /\ Word * (NrWords - 2) \in Nat /\ NrWords * Word = Word * (2 + (NrWords - 2))
  BY <1>1
<1>3. QED
  BY <1>1, <1>2 DEF BcMax

\* Where the words of the buffer end.
LEMMA WordEnds ==
  ASSUME NEW w \in 1 .. NrWords
  PROVE  /\ w * Word \in Nat /\ Word <= w * Word /\ w * Word <= BcMax
         /\ (w - 1) * Word = w * Word - Word
         /\ w # 1 => w * Word >= 2 * Word
<1>1. Word \in Nat /\ NrWords \in Nat /\ w \in Nat /\ w >= 1 /\ NrWords - w \in Nat
  BY Widths
<1>2. /\ (w - 1) * Word \in Nat /\ (w - 1) * Word = w * Word - Word /\ w * Word \in Nat
  BY <1>1
<1>3. (NrWords - w) * Word \in Nat /\ (NrWords - w) * Word = NrWords * Word - w * Word
      /\ NrWords * Word \in Nat
  BY <1>1
<1>4. w # 1 => (w - 2) * Word \in Nat /\ (w - 2) * Word = w * Word - 2 * Word
  BY <1>1
<1>5. QED
  BY <1>1, <1>2, <1>3, <1>4 DEF BcMax

LEMMA CellBitsAre ==
  ASSUME NEW n \in Nat
  PROVE  /\ CellBits(n) \in Seq(Bits) /\ Len(CellBits(n)) = n
         /\ \A i \in 1 .. n : CellBits(n)[i] = IF i = n THEN 1 ELSE 0
<1>1. CellBits(n) \in [1 .. n -> Bits]
  BY DEF CellBits, Bits
<1>2. QED
  BY <1>1 DEF CellBits

LEMMA NominalIs ==
  ASSUME NEW t \in Nat
  PROVE  Nominal(t) \in Nat /\ Nominal(t) >= 1
<1> DEFINE x == 2 * t + Cell  S == 2 * Cell  k == x \div S
<1>1. x \in Nat /\ S \in Nat \ {0} /\ (~(2 * t < Cell) => x >= S)
  BY Widths
<1>2. k \in Int /\ x % S \in 0 .. S - 1 /\ x % S = x - S * k
  <2> HIDE DEF x, S
  <2>1. QED
    BY <1>1, DivMod
<1>3. ~(2 * t < Cell) => k >= 1
  <2> HIDE DEF x, S, k
  <2>1. k <= 0 => S * k <= 0
    BY <1>1, <1>2
  <2>2. S * k \in Int
    BY <1>1, <1>2
  <2>3. QED
    BY <1>1, <1>2, <2>1, <2>2
<1> HIDE DEF k
<1>4. Nominal(t) = IF 2 * t < Cell THEN 1 ELSE k
  BY DEF Nominal, k
<1>5. QED
  BY <1>2, <1>3, <1>4

\* The difference of two captures in the counter's width is the time between them.
LEMMA DifferenceIs ==
  ASSUME NEW c \in 0 .. CntMod - 1, NEW t \in Nat, t < CntMod
  PROVE  (c + t) % CntMod \in 0 .. CntMod - 1 /\ (((c + t) % CntMod) - c) % CntMod = t
<1> DEFINE s == (c + t) % CntMod
<1>1. CntMod \in Nat \ {0} /\ c \in Nat
  BY Widths
<1>2. s = IF c + t < CntMod THEN c + t ELSE c + t - CntMod
  <2>1. CASE c + t < CntMod
    BY <1>1, <2>1
  <2>2. CASE ~(c + t < CntMod)
    <3>1. c + t - CntMod \in 0 .. CntMod - 1 /\ c + t = (c + t - CntMod) + CntMod * 1
      BY <1>1, <2>2
    <3>2. c + t \in Int
      BY <1>1
    <3>3. QED
      BY <1>1, <2>2, <3>1, <3>2, DivIs
  <2>3. QED
    BY <2>1, <2>2
<1> HIDE DEF s
<1>3. (s - c) % CntMod = t
  <2>1. CASE s - c = t
    BY <1>1, <2>1
  <2>2. CASE s - c = t - CntMod
    <3>1. t \in 0 .. CntMod - 1 /\ s - c = t + CntMod * (-1) /\ s - c \in Int /\ -1 \in Int
      BY <1>1, <2>2
    <3>2. QED
      BY <1>1, <3>1, DivIs
  <2>3. QED
    BY <1>1, <1>2, <2>1, <2>2
<1>4. QED
  BY <1>1, <1>2, <1>3 DEF s

LEMMA RecentIs ==
  ASSUME NEW d \in Seq(Bits), NEW n \in 0 .. Len(d)
  PROVE  /\ Recent(d, n) \in [1 .. Word -> Bits] /\ Recent(d, n) \in Seq(Bits)
         /\ Len(Recent(d, n)) = Word
<1>1. Len(d) \in Nat /\ Word \in Nat
  BY Widths, LenProperties
<1>2. \A i \in 1 .. Word : n - Word + i >= 1 => d[n - Word + i] \in Bits
  <2> TAKE i \in 1 .. Word
  <2>1. n - Word + i >= 1 => n - Word + i \in 1 .. Len(d)
    BY <1>1
  <2>2. QED
    BY <2>1, ElementOfSeq
<1>3. 1 \in Bits
  BY DEF Bits
<1>4. Recent(d, n) \in [1 .. Word -> Bits]
  BY <1>2, <1>3 DEF Recent
<1>5. QED
  BY <1>1, <1>4

\* Cells that have passed keep their place when more pass.
LEMMA RecentAppend ==
  ASSUME NEW d \in Seq(Bits), NEW x \in Seq(Bits), NEW n \in 0 .. Len(d)
  PROVE  Recent(d \o x, n) = Recent(d, n)
<1>1. Len(d) \in Nat /\ Len(x) \in Nat /\ Word \in Nat
  BY Widths, LenProperties
<1>2. ASSUME NEW i \in 1 .. Word
      PROVE  n - Word + i >= 1 => (d \o x)[n - Word + i] = d[n - Word + i]
  <2>1. n - Word + i >= 1 => n - Word + i \in 1 .. Len(d) + Len(x) /\ n - Word + i <= Len(d)
    BY <1>1
  <2>2. QED
    BY <2>1, ConcatProperties
<1>3. QED
  BY <1>2 DEF Recent

LEMMA ShiftIs ==
  ASSUME NEW w \in Seq(Bits), Len(w) = Word, NEW bits \in Seq(Bits)
  PROVE  Shift(w, bits) =
           [i \in 1 .. Word |-> IF i + Len(bits) <= Word THEN w[i + Len(bits)]
                                ELSE bits[i + Len(bits) - Word]]
<1> DEFINE m == Len(bits)  x == w \o bits  s == SubSeq(x, m + 1, m + Word)
<1>1. m \in Nat /\ Word \in Nat
  BY Widths, LenProperties
<1>2. /\ x \in Seq(Bits) /\ Len(x) = Word + m
      /\ \A i \in 1 .. Word + m : x[i] = IF i <= Word THEN w[i] ELSE bits[i - Word]
  BY ConcatProperties
<1> HIDE DEF x
<1>3. s \in Seq(Bits) /\ Len(s) = Word /\ \A i \in 1 .. Word : s[i] = x[m + i]
  <2>1. \A i \in m + 1 .. m + Word : x[i] \in Bits
    <3>1. \A i \in m + 1 .. m + Word : i \in 1 .. Len(x)
      BY <1>1, <1>2
    <3>2. QED
      BY <1>2, <3>1, ElementOfSeq
  <2>2. /\ SubSeq(x, m + 1, m + Word) \in Seq(Bits)
        /\ Len(SubSeq(x, m + 1, m + Word))
             = IF m + 1 <= m + Word THEN m + Word - (m + 1) + 1 ELSE 0
        /\ \A i \in 1 .. m + Word - (m + 1) + 1 :
             SubSeq(x, m + 1, m + Word)[i] = x[m + 1 + i - 1]
    <3>1. m + 1 \in Int /\ m + Word \in Int
      BY <1>1
    <3>2. QED
      BY <2>1, <3>1, SubSeqProperties
  <2>3. m + Word - (m + 1) + 1 = Word /\ (m + 1 <= m + Word <=> Word >= 1)
        /\ \A i \in 1 .. Word : m + 1 + i - 1 = m + i
    BY <1>1
  <2>4. QED
    BY <2>2, <2>3, Widths
<1> HIDE DEF s
<1>4. s = [i \in 1 .. Word |-> s[i]]
  <2>1. s \in [1 .. Word -> Bits]
    BY <1>3, LenProperties
  <2>2. QED
    BY <2>1
<1>5. ASSUME NEW i \in 1 .. Word
      PROVE  s[i] = IF i + m <= Word THEN w[i + m] ELSE bits[i + m - Word]
  <2>1. m + i \in 1 .. Word + m /\ m + i = i + m
    BY <1>1
  <2>2. QED
    BY <1>2, <1>3, <2>1
<1>6. Shift(w, bits) = s
  BY <1>1 DEF Shift, s, x, m
<1> HIDE DEF m
<1>7. s = [i \in 1 .. Word |-> IF i + m <= Word THEN w[i + m] ELSE bits[i + m - Word]]
  BY <1>4, <1>5
<1>8. QED
  BY <1>6, <1>7 DEF m

\* The window follows the disk.
LEMMA ShiftRecent ==
  ASSUME NEW d \in Seq(Bits), NEW n \in Nat, NEW bits \in Seq(Bits),
         n + Len(bits) <= Len(d), \A p \in 1 .. Len(bits) : d[n + p] = bits[p]
  PROVE  Shift(Recent(d, n), bits) = Recent(d, n + Len(bits))
<1> DEFINE m == Len(bits)  r == Recent(d, n)
<1>1. m \in Nat /\ Word \in Nat /\ n \in 0 .. Len(d) /\ Len(d) \in Nat
  BY Widths, LenProperties
<1>2. Shift(r, bits) = [i \in 1 .. Word |-> IF i + m <= Word THEN r[i + m] ELSE bits[i + m - Word]]
  BY <1>1, RecentIs, ShiftIs
<1>3. ASSUME NEW i \in 1 .. Word
      PROVE  (IF i + m <= Word THEN r[i + m] ELSE bits[i + m - Word])
               = IF (n + m) - Word + i >= 1 THEN d[(n + m) - Word + i] ELSE 1
  <2> HIDE DEF m
  <2>1. CASE i + m <= Word
    <3>1. i + m \in 1 .. Word /\ n - Word + (i + m) = (n + m) - Word + i
      BY <1>1, <2>1
    <3>2. r[i + m] = IF n - Word + (i + m) >= 1 THEN d[n - Word + (i + m)] ELSE 1
      BY <3>1 DEF Recent
    <3>3. QED
      BY <2>1, <3>1, <3>2
  <2>2. CASE ~(i + m <= Word)
    <3>1. i + m - Word \in 1 .. m /\ n + (i + m - Word) = (n + m) - Word + i
          /\ (n + m) - Word + i >= 1
      BY <1>1, <2>2
    <3>2. d[n + (i + m - Word)] = bits[i + m - Word]
      BY <3>1 DEF m
    <3>3. QED
      BY <2>2, <3>1, <3>2
  <2>3. QED
    BY <2>1, <2>2
<1> HIDE DEF m, r
<1>4. Recent(d, n + m) = [i \in 1 .. Word |-> IF (n + m) - Word + i >= 1
                                              THEN d[(n + m) - Word + i] ELSE 1]
  BY Zenon DEF Recent
<1>5. Shift(r, bits) = Recent(d, n + m)
  BY <1>2, <1>3, <1>4
<1>6. QED
  BY <1>5 DEF m, r

\* A window with a mark in it is full of cells of the disk, and ends in a reversal.
LEMMA MarkIs ==
  ASSUME NEW d \in Seq(Bits), NEW n \in 0 .. Len(d), Recent(d, n) \in Marks
  PROVE  n >= Word /\ d[n] = 1
<1> DEFINE r == Recent(d, n)
<1>1. Word \in Nat /\ Word >= 2 /\ n \in Nat
  BY Widths, LenProperties
<1>2. r[1] = 0 /\ r[Word] = 1
  BY MarkAssumption DEF Marks
<1>3. /\ r[1] = IF n - Word + 1 >= 1 THEN d[n - Word + 1] ELSE 1
      /\ r[Word] = IF n - Word + Word >= 1 THEN d[n - Word + Word] ELSE 1
  BY <1>1 DEF Recent
<1> HIDE DEF r
<1>4. n >= Word
  BY <1>1, <1>2, <1>3
<1>5. n - Word + Word = n /\ n >= 1
  BY <1>1, <1>4
<1>6. QED
  BY <1>2, <1>3, <1>4, <1>5

\* A full window is a piece of the disk.
LEMMA RecentIsSub ==
  ASSUME NEW d \in Seq(Bits), NEW n \in Word .. Len(d)
  PROVE  Recent(d, n) = SubSeq(d, n - Word + 1, n)
<1> DEFINE s == SubSeq(d, n - Word + 1, n)
<1>1. Word \in Nat /\ Word >= 2 /\ n \in Nat /\ n >= Word /\ Len(d) \in Nat /\ n <= Len(d)
  BY Widths, LenProperties
<1>2. s \in Seq(Bits) /\ Len(s) = Word /\ \A i \in 1 .. Word : s[i] = d[n - Word + i]
  <2>1. \A i \in n - Word + 1 .. n : d[i] \in Bits
    <3>1. \A i \in n - Word + 1 .. n : i \in 1 .. Len(d)
      BY <1>1
    <3>2. QED
      BY <3>1, ElementOfSeq
  <2>2. n - Word + 1 \in Int /\ n \in Int
    BY <1>1
  <2>3. /\ s \in Seq(Bits)
        /\ Len(s) = IF n - Word + 1 <= n THEN n - (n - Word + 1) + 1 ELSE 0
        /\ \A i \in 1 .. n - (n - Word + 1) + 1 : s[i] = d[n - Word + 1 + i - 1]
    BY <2>1, <2>2, SubSeqProperties
  <2> HIDE DEF s
  <2>4. n - Word + 1 <= n /\ n - (n - Word + 1) + 1 = Word
        /\ \A i \in 1 .. Word : n - Word + 1 + i - 1 = n - Word + i
    BY <1>1
  <2>5. QED
    BY <2>3, <2>4
<1> HIDE DEF s
<1>3. s = [i \in 1 .. Word |-> s[i]]
  <2>1. s \in [1 .. Word -> Bits]
    BY <1>2, LenProperties
  <2>2. QED
    BY <2>1
<1>4. \A i \in 1 .. Word : n - Word + i >= 1
  BY <1>1
<1>5. Recent(d, n) = [i \in 1 .. Word |-> s[i]]
  BY <1>2, <1>4 DEF Recent
<1>6. QED
  BY <1>3, <1>5 DEF s

(***************************************************************************)
(* Every action keeps it.                                                  *)
(***************************************************************************)
LEMMA RestIs ==
  ASSUME NEW x \in Int
  PROVE  /\ x % Size \in Int /\ x \div Size \in Int
         /\ x % Size = x - Size * (x \div Size) /\ Size * (x \div Size) \in Int
<1>1. /\ x % Size \in 0 .. Size - 1 /\ x \div Size \in Int
      /\ x % Size = x - Size * (x \div Size)
  BY DivMod, SlotsAre
<1>2. QED
  BY <1>1, SlotsAre

\* Whole turns lead back to the same place.
LEMMA WholeTurns ==
  ASSUME NEW n \in Int, NEW m \in Int
  PROVE  (n + Size * m) % Size = n % Size
<1> DEFINE y == n + Size * m
<1>1. y \in Int /\ Size \in Nat \ {0} /\ y = n + Size * m
  BY SlotsAre
<1> HIDE DEF y
<1>2. y % Size = n % Size
  BY <1>1, SameRest
<1>3. QED
  BY <1>2 DEF y

\* A place further on by k, from a place known only up to whole turns.
LEMMA PlacePlus ==
  ASSUME NEW n \in Int, NEW m \in Int
  PROVE  ((n % Size) + m) % Size = (n + m) % Size
<1> DEFINE a == (n % Size) + m  c == n + m  q == n \div Size
<1>1. a \in Int /\ c \in Int /\ q \in Int /\ c = a + Size * q
  <2>1. /\ n % Size \in Int /\ q \in Int
        /\ n % Size = n - Size * q /\ Size * q \in Int
    BY RestIs
  <2> HIDE DEF q
  <2>2. QED
    BY <2>1
<1>2. Size \in Nat \ {0}
  BY SlotsAre
<1> HIDE DEF a, c, q
<1>3. c % Size = a % Size
  BY <1>1, WholeTurns
<1>4. QED
  BY <1>3 DEF a, c

\* Places less than a turn apart are different.
LEMMA OtherPlace ==
  ASSUME NEW x \in Int, NEW k \in 1 .. Size - 1
  PROVE  (x + k) % Size # x % Size
<1> DEFINE r == x % Size  q == x \div Size  y == x + k  s == y % Size  p == y \div Size
<1>1. r \in Int /\ q \in Int /\ r = x - Size * q /\ Size * q \in Int
  BY RestIs
<1>2. y \in Int /\ s \in Int /\ p \in Int /\ s = y - Size * p /\ Size * p \in Int
  <2>1. y \in Int
    BY SlotsAre
  <2> HIDE DEF y
  <2>2. QED
    BY <2>1, RestIs
<1> HIDE DEF r, q, s, p
<1>3. SUFFICES ASSUME s = r
               PROVE  FALSE
  BY DEF s, r, y
<1>4. Size * (p - q) = Size * p - Size * q
  BY <1>1, <1>2, SlotsAre
<1>5. k = Size * (p - q)
  BY <1>1, <1>2, <1>3, <1>4, SlotsAre DEF y
<1>6. (p - q <= 0 => Size * (p - q) <= 0) /\ (p - q >= 1 => Size * (p - q) >= Size)
  BY <1>1, <1>2, SlotsAre
<1>7. QED
  BY <1>1, <1>2, <1>5, <1>6, SlotsAre

LEMMA WordsAre ==
  ASSUME WordsInv
  PROVE  /\ Len(disk) \in Nat /\ disk \in Seq(Bits)
         /\ Marks \subseteq MfmMarks \cup FmMarks
         /\ SyncFound \in Nat /\ SyncFound >= 1 /\ SyncFound <= Word /\ SyncFound >= Word - 1
         /\ sync = "fm" => SyncFound = Word - 1
         /\ sync # "fm" => SyncFound = Word
BY Widths, LenProperties DEF WordsInv, Marks, SyncFound

\* What has been made of the cells stays made of them while more pass.
LEMMA DecodedKept ==
  ASSUME WordsInv, NEW n \in 0 .. Len(disk), Decoded(n),
         UNCHANGED <<sync, seeking, window, bcprod, out>>,
         pc' \in {"full", "done"} <=> pc \in {"full", "done"},
         \A i \in 0 .. Len(disk) : Recent(disk', i) = Recent(disk, i)
  PROVE  Decoded(n)'
<1>1. /\ Marks' = Marks /\ SyncFound' = SyncFound /\ Word \in Nat /\ Len(disk) \in Nat
      /\ BcMax \in Nat /\ SyncFound \in Nat
  BY WordsAre, Widths DEF Marks, SyncFound
<1>2. window' = Recent(disk', n)
  BY DEF Decoded
<1>3. ASSUME seeking', NEW i \in Word .. n
      PROVE  Recent(disk', i) \notin Marks'
  <2>1. i \in 0 .. Len(disk) /\ Recent(disk, i) \notin Marks
    BY <1>1, <1>3 DEF Decoded
  <2>2. QED
    BY <1>1, <2>1
<1>4. ASSUME ~seeking
      PROVE  \E b \in 1 .. n + 1 :
               /\ StartsAt(b, n)' /\ bcprod' = Least(n - b + 1, BcMax)
               /\ pc' \in {"full", "done"} <=> n - b + 1 >= BcMax
               /\ \A w \in 1 .. NrWords :
                    w * Word <= bcprod' => out'[w] = Recent(disk', b + w * Word - 1)
  <2>1. PICK b \in 1 .. n + 1 :
          /\ StartsAt(b, n) /\ bcprod = Least(n - b + 1, BcMax)
          /\ pc \in {"full", "done"} <=> n - b + 1 >= BcMax
          /\ \A w \in 1 .. NrWords : w * Word <= bcprod => out[w] = Recent(disk, b + w * Word - 1)
    BY <1>4 DEF Decoded
  <2>2. StartsAt(b, n)'
    <3>1. CASE sync = "none"
      BY <2>1, <3>1 DEF StartsAt
    <3>2. CASE sync # "none"
      <4>1. PICK f \in Word .. n :
              /\ b = f - SyncFound + 1
              /\ Recent(disk, f) \in Marks /\ \A i \in Word .. f - 1 : Recent(disk, i) \notin Marks
        BY <2>1, <3>2 DEF StartsAt
      <4>2. f \in 0 .. Len(disk) /\ \A i \in Word .. f - 1 : i \in 0 .. Len(disk)
        BY <1>1
      <4>3. /\ b = f - SyncFound' + 1 /\ Recent(disk', f) \in Marks'
            /\ \A i \in Word .. f - 1 : Recent(disk', i) \notin Marks'
        BY <1>1, <4>1, <4>2
      <4>4. QED
        BY <3>2, <4>3 DEF StartsAt
    <3>3. QED
      BY <3>1, <3>2
  <2>3. ASSUME NEW w \in 1 .. NrWords, w * Word <= bcprod
        PROVE  out'[w] = Recent(disk', b + w * Word - 1)
    <3>1. w * Word \in Nat /\ w * Word >= Word /\ Word >= 2
      BY WordEnds, Widths
    <3>2. b + w * Word - 1 \in 0 .. Len(disk)
      <4> DEFINE x == w * Word
      <4>1. x \in Nat /\ x <= bcprod
        BY <2>3, <3>1
      <4> HIDE DEF x
      <4>2. x <= n - b + 1
        BY <1>1, <2>1, <4>1 DEF Least
      <4>3. b + x - 1 \in 0 .. Len(disk)
        BY <1>1, <4>1, <4>2
      <4>4. QED
        BY <4>3 DEF x
    <3>3. out[w] = Recent(disk, b + w * Word - 1)
      BY <2>1, <2>3
    <3>4. QED
      BY <3>2, <3>3
  <2>4. QED
    BY <2>1, <2>2, <2>3
<1>5. QED
  BY <1>2, <1>3, <1>4 DEF Decoded

\* The calls around the loops leave captures and cells alone.
LEMMA QuietStep ==
  ASSUME IInv, DiskInv,
         UNCHANGED <<sync, seeking, window, bcprod, out, cons, prev, dma, pending, lost>>,
         pc' \in {"full", "done"} <=> pc \in {"full", "done"}
  PROVE  DiskInv'
<1>1. WordsInv'
  BY DEF DiskInv, WordsInv, dma
<1>2. ASSUME ~lost
      PROVE  CellsInv'
  <2>1. PICK e \in [0 .. pending -> 0 .. Len(disk)] : Cut(e) /\ Decoded(e[0])
    BY <1>2 DEF DiskInv, CellsInv
  <2>2. Cut(e)'
    BY <2>1 DEF Cut, Sample, Gap, dma
  <2>3. e[0] \in 0 .. Len(disk)
    BY <2>1 DEF IInv, TypeOK
  <2>4. Decoded(e[0])'
    BY <2>1, <2>3, DecodedKept DEF DiskInv, dma
  <2>5. QED
    BY <2>1, <2>2, <2>4 DEF CellsInv, dma
<1>3. QED
  BY <1>1, <1>2 DEF DiskInv, CellsInv

LEMMA PrepCells ==
  ASSUME IInv, DiskInv, NEW s \in {"none", "mfm", "fm"}, Prep(s)
  PROVE  DiskInv'
<1> DEFINE e == [j \in 0 .. 0 |-> 0]
<1>1. /\ pc' = "prepared" /\ sync' = s /\ seeking' = (s # "none")
      /\ window' = Ones /\ bcprod' = 0 /\ out' = [k \in 1 .. NrWords |-> Ones]
      /\ cons' = 0 /\ prev' = cnt /\ cnt' = cnt /\ buf' = buf
      /\ disk' = <<>> /\ pending' = 0 /\ lost' = FALSE
  BY DEF Prep, FreshWindow, FreshCons, FreshPrev
<1>2. Word \in Nat /\ Word >= 2 /\ BcMax \in Nat /\ BcMax >= 2 * Word
  BY Widths
<1>3. WordsInv'
  BY <1>1, EmptySeq DEF DiskInv, WordsInv
<1>4. Len(disk') = 0 /\ e \in [0 .. pending' -> 0 .. Len(disk')] /\ e[0] = 0
  BY <1>1, EmptySeq
<1>5. Cut(e)'
  BY <1>1, <1>4 DEF Cut, Sample
<1>6. Recent(disk', 0) = Ones
  <2>1. \A i \in 1 .. Word : ~(0 - Word + i >= 1)
    BY <1>2
  <2>2. QED
    BY <2>1 DEF Recent, Ones
<1>7. Decoded(0)'
  <2>1. window' = Recent(disk', 0)
    BY <1>1, <1>6
  <2>2. Word .. 0 = {}
    BY <1>2
  <2>3. ASSUME ~seeking'
        PROVE  /\ 1 \in 1 .. 0 + 1 /\ StartsAt(1, 0)' /\ bcprod' = Least(0 - 1 + 1, BcMax)
               /\ pc' \in {"full", "done"} <=> 0 - 1 + 1 >= BcMax
               /\ \A w \in 1 .. NrWords :
                    w * Word <= bcprod' => out'[w] = Recent(disk', 1 + w * Word - 1)
    <3>1. sync' = "none"
      BY <1>1, <2>3
    <3>2. \A w \in 1 .. NrWords : ~(w * Word <= 0)
      BY <1>2, WordEnds
    <3>3. bcprod' = Least(0 - 1 + 1, BcMax)
      BY <1>1, <1>2 DEF Least
    <3>4. StartsAt(1, 0)'
      BY <3>1 DEF StartsAt
    <3>5. QED
      BY <1>1, <1>2, <3>2, <3>3, <3>4
  <2>4. ~seeking' =>
          \E b \in 1 .. 0 + 1 :
            /\ StartsAt(b, 0)' /\ bcprod' = Least(0 - b + 1, BcMax)
            /\ pc' \in {"full", "done"} <=> 0 - b + 1 >= BcMax
            /\ \A w \in 1 .. NrWords :
                 w * Word <= bcprod' => out'[w] = Recent(disk', b + w * Word - 1)
    BY <2>3
  <2>5. QED
    BY <2>1, <2>2, <2>4 DEF Decoded
<1> HIDE DEF e
<1>8. CellsInv'
  BY <1>4, <1>5, <1>7 DEF CellsInv
<1>9. QED
  BY <1>3, <1>8 DEF DiskInv

\* Taking a capture moves the first cut, and the interval is the one in front of it.
LEMMA CutAdvance ==
  ASSUME IInv, WordsInv, pc = "take", Advance, UNCHANGED dma,
         NEW e \in [0 .. pending -> 0 .. Len(disk)], Cut(e)
  PROVE  /\ e[0] \in 0 .. Len(disk) /\ e[1] \in 0 .. Len(disk)
         /\ Group(disk, e[0], e[1])
         /\ SyncCells(Elapsed) = e[1] - e[0] /\ DataCells(Elapsed) = e[1] - e[0]
         /\ \E g \in [0 .. pending' -> 0 .. Len(disk')] : Cut(g)' /\ g[0] = e[1]
<1>1. /\ pending \in Nat /\ pending >= 1 /\ cons \in Slots /\ cons \in Int
      /\ cons' = (cons + 1) % Size /\ prev' = buf[cons] /\ pending' = pending - 1
      /\ UNCHANGED <<buf, cnt, disk>>
  BY SlotsAre DEF IInv, TypeOK, BatchInv, Advance, dma
<1>2. (cons + 1 - 1) % Size = cons
  BY <1>1, OneStep
<1>3. Sample(0) = prev /\ Sample(1) = buf[cons]
  BY <1>2 DEF Sample
<1>4. Gap(1) = Elapsed
  BY <1>3 DEF Gap, Elapsed
<1>5. /\ 0 \in 0 .. pending /\ 1 \in 0 .. pending /\ 1 \in 1 .. pending /\ 1 - 1 = 0
  BY <1>1
<1>6. /\ Group(disk, e[0], e[1])
      /\ SyncCells(Elapsed) = e[1] - e[0] /\ DataCells(Elapsed) = e[1] - e[0]
  BY <1>4, <1>5 DEF Cut
<1>7. ASSUME NEW j \in 0 .. pending'
      PROVE  Sample(j)' = Sample(j + 1)
  <2>1. CASE j = 0
    BY <1>1, <1>3, <2>1 DEF Sample
  <2>2. CASE j # 0
    <3>1. cons + 1 \in Int /\ j - 1 \in Int /\ (cons + 1) + (j - 1) = cons + (j + 1) - 1
          /\ j + 1 # 0
      BY <1>1, <2>2
    <3>2. (cons' + (j - 1)) % Size = ((cons + 1) + (j - 1)) % Size
      BY <1>1, <3>1, PlacePlus
    <3>3. cons' \in Int /\ cons' + j - 1 = cons' + (j - 1)
      <4>1. cons' \in Int
        BY <1>1, <3>1, OneStep, SlotsAre
      <4>2. QED
        BY <4>1
    <3>4. (cons' + j - 1) % Size = (cons + (j + 1) - 1) % Size
      BY <3>1, <3>2, <3>3
    <3>5. QED
      BY <1>1, <2>2, <3>1, <3>4 DEF Sample
  <2>3. QED
    BY <2>1, <2>2
<1>8. PICK g \in [0 .. pending' -> 0 .. Len(disk')] : \A j \in 0 .. pending' : g[j] = e[j + 1]
  <2> DEFINE h == [j \in 0 .. pending' |-> e[j + 1]]
  <2>1. \A j \in 0 .. pending' : j + 1 \in 0 .. pending
    BY <1>1
  <2>2. h \in [0 .. pending' -> 0 .. Len(disk')]
    BY <1>1, <2>1
  <2>3. \A j \in 0 .. pending' : h[j] = e[j + 1]
    OBVIOUS
  <2> HIDE DEF h
  <2>4. QED
    BY <2>2, <2>3
<1>10. g[0] = e[1] /\ g[pending'] = e[pending]
  BY <1>1, <1>8
<1>11. Sample(pending)' = cnt'
  <2>1. PICK k \in 0 .. pending' : k = pending' /\ k + 1 = pending
    BY <1>1
  <2>2. Sample(k)' = Sample(pending)
    BY <1>7, <2>1
  <2>3. Sample(pending)' = Sample(k)'
    BY <2>1 DEF Sample
  <2>4. QED
    BY <1>1, <2>2, <2>3 DEF Cut
<1>12. ASSUME NEW j \in 1 .. pending'
       PROVE  /\ Group(disk, g[j - 1], g[j])'
              /\ (SyncCells(Gap(j)) = g[j] - g[j - 1])' /\ (DataCells(Gap(j)) = g[j] - g[j - 1])'
  <2>1. /\ j \in 0 .. pending' /\ j - 1 \in 0 .. pending' /\ (j - 1) + 1 = j
        /\ j + 1 \in 1 .. pending /\ (j + 1) - 1 = j
    BY <1>1
  <2>2. Sample(j)' = Sample(j + 1) /\ Sample(j - 1)' = Sample(j)
    BY <1>7, <2>1
  <2>3. Gap(j)' = Gap(j + 1)
    BY <2>1, <2>2 DEF Gap
  <2>4. g[j] = e[j + 1] /\ g[j - 1] = e[j]
    BY <1>8, <2>1
  <2>5. /\ Group(disk, e[(j + 1) - 1], e[j + 1])
        /\ SyncCells(Gap(j + 1)) = e[j + 1] - e[(j + 1) - 1]
        /\ DataCells(Gap(j + 1)) = e[j + 1] - e[(j + 1) - 1]
    BY <2>1 DEF Cut
  <2>6. SyncCells(Gap(j))' = SyncCells(Gap(j + 1)) /\ DataCells(Gap(j))' = DataCells(Gap(j + 1))
    BY <2>3 DEF SyncCells, DataCells
  <2>7. Group(disk, e[j], e[j + 1])'
    BY <1>1, <2>1, <2>5 DEF Group, CellBits
  <2>8. QED
    BY <2>1, <2>4, <2>5, <2>6, <2>7
<1>13. Cut(g)'
  <2>1. g[pending'] = Len(disk')
    BY <1>1, <1>10 DEF Cut
  <2>2. QED
    BY <1>8, <1>11, <1>12, <2>1 DEF Cut
<1>14. e[0] \in 0 .. Len(disk) /\ e[1] \in 0 .. Len(disk)
  BY <1>5
<1>15. QED
  BY <1>6, <1>8, <1>10, <1>13, <1>14

\* No mark ends inside the cells of one interval: a mark ends in a reversal.
LEMMA NoMarkInside ==
  ASSUME WordsInv, NEW n \in 0 .. Len(disk), NEW m \in 0 .. Len(disk), Group(disk, n, m),
         NEW i \in n + 1 .. m - 1
  PROVE  Recent(disk, i) \notin Marks
<1>1. Len(disk) \in Nat /\ disk \in Seq(Bits)
  BY WordsAre
<1>2. i - n \in 1 .. m - n /\ i - n # m - n /\ n + (i - n) = i /\ m - n \in Nat
      /\ i \in 0 .. Len(disk)
  BY <1>1
<1>3. disk[i] = 0
  <2>1. disk[n + (i - n)] = CellBits(m - n)[i - n]
    BY <1>2 DEF Group
  <2>2. CellBits(m - n)[i - n] = 0
    BY <1>2, CellBitsAre
  <2>3. QED
    BY <1>2, <2>1, <2>2
<1>4. QED
  BY <1>1, <1>2, <1>3, MarkIs

LEMMA TakeWords ==
  ASSUME IInv, WordsInv, TakeSync \/ TakeData
  PROVE  WordsInv'
<1>1. /\ UNCHANGED <<sync, disk, cnt, buf, lost>>
      /\ seeking' \in BOOLEAN /\ (seeking' => seeking /\ pc' \in {"poll", "take"})
      /\ DOMAIN out' = 1 .. NrWords
  <2>1. CASE TakeSync
    <3>1. /\ UNCHANGED <<sync, disk, cnt, buf, lost>> /\ seeking
          /\ seeking' = ~(window' \in Marks) /\ pc' \in {"poll", "take"}
          /\ out' = [out EXCEPT ![1] = window'] \/ out' = out
      BY <2>1 DEF TakeSync, dma
    <3>2. DOMAIN out' = DOMAIN out
      BY <3>1
    <3>3. QED
      BY <3>1, <3>2 DEF WordsInv
  <2>2. CASE TakeData
    BY <2>2 DEF TakeData, dma, WordsInv
  <2>3. QED
    BY <2>1, <2>2
<1>2. QED
  BY <1>1 DEF WordsInv

LEMMA TakeSyncCells ==
  ASSUME IInv, DiskInv, TakeSync
  PROVE  DiskInv'
<1>1. WordsInv'
  BY TakeWords DEF DiskInv
<1>2. SUFFICES ASSUME ~lost
               PROVE  CellsInv'
  <2>1. lost' = lost
    BY DEF TakeSync
  <2>2. QED
    BY <1>1, <1>2, <2>1 DEF DiskInv, CellsInv
<1>3. PICK e \in [0 .. pending -> 0 .. Len(disk)] : Cut(e) /\ Decoded(e[0])
  BY <1>2 DEF DiskInv, CellsInv
<1>4. /\ pc = "take" /\ seeking /\ Advance /\ UNCHANGED dma /\ UNCHANGED <<sync, lost>>
      /\ UNCHANGED disk
  BY DEF TakeSync, dma
<1>5. /\ e[0] \in 0 .. Len(disk) /\ e[1] \in 0 .. Len(disk)
      /\ Group(disk, e[0], e[1]) /\ SyncCells(Elapsed) = e[1] - e[0]
      /\ \E g \in [0 .. pending' -> 0 .. Len(disk')] : Cut(g)' /\ g[0] = e[1]
  BY <1>3, <1>4, CutAdvance DEF DiskInv
<1> DEFINE n == e[0]  m == e[1]  k == m - n
<1> SUFFICES Decoded(m)'
  BY <1>5 DEF CellsInv
<1>6. /\ n \in 0 .. Len(disk) /\ m \in 0 .. Len(disk) /\ k \in Nat /\ k >= 1 /\ n < m
      /\ Len(disk) \in Nat /\ disk \in Seq(Bits) /\ n + k = m
      /\ \A p \in 1 .. k : disk[n + p] = CellBits(k)[p]
  BY <1>5, WordsAre DEF DiskInv, Group
<1>7. /\ window = Recent(disk, n) /\ \A i \in Word .. n : Recent(disk, i) \notin Marks
  BY <1>3, <1>4 DEF Decoded
<1> HIDE DEF n, m, k
<1>8. SyncCells(Elapsed) = k
  BY <1>5 DEF n, m, k
<1>9. window' = Recent(disk, m)
  <2>1. window' = Shift(window, CellBits(k))
    BY <1>8 DEF TakeSync
  <2>2. /\ CellBits(k) \in Seq(Bits) /\ Len(CellBits(k)) = k
    BY <1>6, CellBitsAre
  <2>3. n \in Nat /\ n + Len(CellBits(k)) <= Len(disk)
        /\ \A p \in 1 .. Len(CellBits(k)) : disk[n + p] = CellBits(k)[p]
    BY <1>6, <2>2
  <2>4. Shift(Recent(disk, n), CellBits(k)) = Recent(disk, n + Len(CellBits(k)))
    BY <1>6, <2>2, <2>3, ShiftRecent
  <2>5. QED
    BY <1>6, <1>7, <2>1, <2>2, <2>4
<1> DEFINE found == Recent(disk, m) \in Marks
<1>10. /\ bcprod' = IF found THEN SyncFound ELSE bcprod + k
       /\ out' = IF found THEN [out EXCEPT ![1] = window'] ELSE out
       /\ seeking' = ~found /\ pc' \in {"poll", "take"}
  BY <1>8, <1>9 DEF TakeSync
<1>11. Marks' = Marks /\ SyncFound' = SyncFound
  BY <1>4 DEF Marks, SyncFound
<1>12. /\ Word \in Nat /\ Word >= 2 /\ NrWords >= 2 /\ NrWords \in Nat
       /\ BcMax \in Nat /\ BcMax >= 2 * Word
  BY Widths
<1>13. \A i \in Word .. m - 1 : Recent(disk, i) \notin Marks
  <2> TAKE i \in Word .. m - 1
  <2>1. i \in Word .. n \/ i \in n + 1 .. m - 1
    BY <1>6, <1>12
  <2>2. Group(disk, n, m)
    BY <1>5 DEF n, m
  <2>3. QED
    BY <1>6, <1>7, <2>1, <2>2, NoMarkInside DEF DiskInv
<1>14. CASE ~found
  <2>1. \A i \in Word .. m : Recent(disk, i) \notin Marks
    BY <1>6, <1>12, <1>13, <1>14
  <2>2. seeking' = TRUE
    BY <1>10, <1>14
  <2>3. QED
    BY <1>4, <1>9, <1>11, <2>1, <2>2 DEF Decoded
<1>15. CASE found
  <2>1. m >= Word
    BY <1>6, <1>15, MarkIs
  <2>2. /\ SyncFound \in Nat /\ SyncFound >= 1 /\ SyncFound <= Word /\ SyncFound >= Word - 1
        /\ (sync = "fm" => SyncFound = Word - 1) /\ (sync # "fm" => SyncFound = Word)
        /\ sync # "none"
    BY <1>4, WordsAre DEF DiskInv, WordsInv
  <2>3. PICK b \in 1 .. m + 1 : b = m - SyncFound + 1 /\ m - b + 1 = SyncFound
    <3>1. m - SyncFound + 1 \in 1 .. m + 1 /\ m - (m - SyncFound + 1) + 1 = SyncFound
      BY <1>6, <1>12, <2>1, <2>2
    <3>2. QED
      BY <3>1
  <2>4. StartsAt(b, m)'
    <3>1. m \in Word .. m /\ b = m - SyncFound' + 1 /\ sync' # "none"
      BY <1>4, <1>6, <1>11, <1>12, <2>1, <2>2, <2>3
    <3>2. Recent(disk', m) \in Marks' /\ \A i \in Word .. m - 1 : Recent(disk', i) \notin Marks'
      BY <1>4, <1>11, <1>13, <1>15
    <3>3. QED
      BY <3>1, <3>2 DEF StartsAt
  <2>5. bcprod' = Least(m - b + 1, BcMax) /\ bcprod' = SyncFound
    BY <1>10, <1>12, <1>15, <2>2, <2>3 DEF Least
  <2>6. pc' \in {"full", "done"} <=> m - b + 1 >= BcMax
    BY <1>10, <1>12, <2>2, <2>3
  <2>7. ASSUME NEW w \in 1 .. NrWords, w * Word <= bcprod'
        PROVE  out'[w] = Recent(disk', b + w * Word - 1)
    <3>1. w = 1 /\ SyncFound = Word
      <4>1. w # 1 => w * Word >= 2 * Word
        BY WordEnds
      <4>2. w * Word \in Nat /\ w * Word >= Word
        BY WordEnds
      <4> DEFINE x == w * Word
      <4> HIDE DEF x
      <4>3. x \in Nat /\ x >= Word /\ (w # 1 => x >= 2 * Word) /\ x <= SyncFound
        BY <2>5, <2>7, <4>1, <4>2 DEF x
      <4>4. QED
        BY <1>12, <2>2, <4>3
    <3>2. b + w * Word - 1 = m
      BY <1>6, <1>12, <2>3, <3>1
    <3>3. DOMAIN out = 1 .. NrWords
      BY DEF DiskInv, WordsInv
    <3>4. out'[1] = window'
      BY <1>10, <1>12, <1>15, <3>3
    <3>5. QED
      BY <1>4, <1>9, <3>1, <3>2, <3>4
  <2>8. seeking' = FALSE
    BY <1>10, <1>15
  <2>9. QED
    BY <1>4, <1>9, <2>3, <2>4, <2>5, <2>6, <2>7, <2>8 DEF Decoded
<1>16. QED
  BY <1>14, <1>15

\* The first p cells of an interval.
LEMMA CellPrefix ==
  ASSUME NEW k \in Nat, NEW p \in 1 .. k
  PROVE  /\ SubSeq(CellBits(k), 1, p) \in Seq(Bits) /\ Len(SubSeq(CellBits(k), 1, p)) = p
         /\ \A i \in 1 .. p : SubSeq(CellBits(k), 1, p)[i] = CellBits(k)[i]
<1> DEFINE c == CellBits(k)  s == SubSeq(c, 1, p)
<1>1. c \in Seq(Bits) /\ Len(c) = k /\ p \in Nat /\ p >= 1 /\ p <= k
  BY CellBitsAre
<1>2. \A i \in 1 .. p : c[i] \in Bits
  <2>1. \A i \in 1 .. p : i \in 1 .. Len(c)
    BY <1>1
  <2>2. QED
    BY <1>1, <2>1, ElementOfSeq
<1> HIDE DEF c
<1>3. /\ s \in Seq(Bits) /\ Len(s) = IF 1 <= p THEN p - 1 + 1 ELSE 0
      /\ \A i \in 1 .. p - 1 + 1 : s[i] = c[1 + i - 1]
  BY <1>1, <1>2, SubSeqProperties
<1>4. p - 1 + 1 = p /\ \A i \in 1 .. p : 1 + i - 1 = i
  BY <1>1
<1> HIDE DEF s
<1>5. s \in Seq(Bits) /\ Len(s) = p /\ \A i \in 1 .. p : s[i] = c[i]
  BY <1>1, <1>3, <1>4
<1>6. QED
  BY <1>5 DEF s, c

LEMMA TakeDataCells ==
  ASSUME IInv, DiskInv, TakeData
  PROVE  DiskInv'
<1>1. WordsInv'
  BY TakeWords DEF DiskInv
<1>2. SUFFICES ASSUME ~lost
               PROVE  CellsInv'
  <2>1. lost' = lost
    BY DEF TakeData
  <2>2. QED
    BY <1>1, <1>2, <2>1 DEF DiskInv, CellsInv
<1>3. PICK e \in [0 .. pending -> 0 .. Len(disk)] : Cut(e) /\ Decoded(e[0])
  BY <1>2 DEF DiskInv, CellsInv
<1>4. /\ pc = "take" /\ ~seeking /\ Advance /\ UNCHANGED dma /\ UNCHANGED <<sync, seeking, lost>>
      /\ UNCHANGED disk
  BY DEF TakeData, dma
<1>5. /\ e[0] \in 0 .. Len(disk) /\ e[1] \in 0 .. Len(disk)
      /\ Group(disk, e[0], e[1]) /\ DataCells(Elapsed) = e[1] - e[0]
      /\ \E g \in [0 .. pending' -> 0 .. Len(disk')] : Cut(g)' /\ g[0] = e[1]
  BY <1>3, <1>4, CutAdvance DEF DiskInv
<1> DEFINE n == e[0]  m == e[1]  k == m - n
<1> SUFFICES Decoded(m)'
  BY <1>5 DEF CellsInv
<1>6. /\ n \in Nat /\ m \in 0 .. Len(disk) /\ k \in Nat /\ k >= 1 /\ n < m /\ m \in Nat
      /\ Len(disk) \in Nat /\ disk \in Seq(Bits) /\ n + k = m
      /\ \A p \in 1 .. k : disk[n + p] = CellBits(k)[p]
  BY <1>5, WordsAre DEF DiskInv, Group
<1>7. window = Recent(disk, n)
  BY <1>3 DEF Decoded
<1>8. PICK b \in 1 .. n + 1 :
        /\ StartsAt(b, n) /\ bcprod = Least(n - b + 1, BcMax)
        /\ pc \in {"full", "done"} <=> n - b + 1 >= BcMax
        /\ \A w \in 1 .. NrWords : w * Word <= bcprod => out[w] = Recent(disk, b + w * Word - 1)
  BY <1>3, <1>4 DEF Decoded
<1> HIDE DEF n, m, k
<1>9. DataCells(Elapsed) = k
  BY <1>5 DEF n, m, k
<1>10. CellBits(k) \in Seq(Bits) /\ Len(CellBits(k)) = k
  BY <1>6, CellBitsAre
<1>11. /\ Word \in Nat /\ Word >= 2 /\ NrWords >= 2 /\ NrWords \in Nat
       /\ BcMax \in Nat /\ BcMax >= 2 * Word
  BY Widths
<1>12. bcprod = n - b + 1 /\ bcprod \in Nat /\ bcprod < BcMax /\ bcprod + k = m - b + 1
  <2>1. ~(n - b + 1 >= BcMax)
    BY <1>4, <1>8
  <2>2. n - b + 1 \in Nat
    BY <1>6
  <2>3. QED
    BY <1>6, <1>8, <1>11, <2>1, <2>2 DEF Least
<1>13. /\ window' = Shift(window, CellBits(k))
       /\ bcprod' = Least(bcprod + k, BcMax)
       /\ out' = [w \in 1 .. NrWords |->
                    IF w * Word \in bcprod + 1 .. bcprod + k
                    THEN Shift(window, SubSeq(CellBits(k), 1, w * Word - bcprod))
                    ELSE out[w]]
       /\ pc' = IF bcprod + k >= BcMax THEN "full" ELSE IF cons' = prod THEN "poll" ELSE "take"
  BY <1>9, <1>10 DEF TakeData, Full
<1>14. ASSUME NEW p \in 1 .. k, NEW s \in Seq(Bits), Len(s) = p,
              \A i \in 1 .. p : s[i] = CellBits(k)[i]
       PROVE  Shift(window, s) = Recent(disk, n + p)
  <2>1. n \in Nat /\ n + Len(s) <= Len(disk) /\ \A i \in 1 .. Len(s) : disk[n + i] = s[i]
    <3>1. p \in Nat /\ p <= k /\ Len(s) = p /\ \A i \in 1 .. p : i \in 1 .. k
      BY <1>6, <1>14
    <3>2. \A i \in 1 .. p : disk[n + i] = s[i]
      BY <1>6, <1>14, <3>1
    <3>3. n + p <= Len(disk)
      BY <1>6, <3>1
    <3>4. QED
      BY <1>6, <3>1, <3>2, <3>3
  <2>2. Shift(Recent(disk, n), s) = Recent(disk, n + Len(s))
    BY <1>6, <2>1, ShiftRecent
  <2>3. QED
    BY <1>7, <1>14, <2>2
<1>15. window' = Recent(disk', m)
  BY <1>4, <1>6, <1>10, <1>13, <1>14
<1>16. Marks' = Marks /\ SyncFound' = SyncFound /\ SyncFound \in Nat
  BY <1>4, WordsAre DEF Marks, SyncFound, DiskInv
<1>17. StartsAt(b, m)'
  <2>1. CASE sync = "none"
    BY <1>4, <1>8, <2>1 DEF StartsAt
  <2>2. CASE sync # "none"
    <3>1. PICK f \in Word .. n :
            /\ b = f - SyncFound + 1
            /\ Recent(disk, f) \in Marks /\ \A i \in Word .. f - 1 : Recent(disk, i) \notin Marks
      BY <1>8, <2>2 DEF StartsAt
    <3>2. f \in Word .. m
      BY <1>6, <1>11
    <3>3. QED
      BY <1>4, <1>16, <2>2, <3>1, <3>2 DEF StartsAt
  <2>3. QED
    BY <2>1, <2>2
<1>18. bcprod' = Least(m - b + 1, BcMax) /\ b \in 1 .. m + 1
  <2>1. b \in 1 .. m + 1
    BY <1>6
  <2>2. QED
    BY <1>12, <1>13, <2>1
<1>19. pc' \in {"full", "done"} <=> m - b + 1 >= BcMax
  BY <1>12, <1>13
<1>20. ASSUME NEW w \in 1 .. NrWords, w * Word <= bcprod'
       PROVE  out'[w] = Recent(disk', b + w * Word - 1)
  <2> DEFINE x == w * Word
  <2>1. x \in Nat /\ x >= Word /\ x <= BcMax
    BY WordEnds
  <2>2. out'[w] = IF x \in bcprod + 1 .. bcprod + k
                  THEN Shift(window, SubSeq(CellBits(k), 1, x - bcprod)) ELSE out[w]
    BY <1>13
  <2>3. x <= bcprod => out[w] = Recent(disk, b + x - 1)
    BY <1>8
  <2>4. x <= bcprod'
    BY <1>20
  <2>5. SUFFICES out'[w] = Recent(disk', b + x - 1)
    OBVIOUS
  <2> HIDE DEF x
  <2>6. CASE x <= bcprod
    <3>1. ~(x \in bcprod + 1 .. bcprod + k)
      BY <1>12, <2>1, <2>6
    <3>2. QED
      BY <1>4, <2>2, <2>3, <2>6, <3>1
  <2>7. CASE ~(x <= bcprod)
    <3>1. x \in bcprod + 1 .. bcprod + k
      BY <1>6, <1>11, <1>12, <1>13, <2>1, <2>4, <2>7 DEF Least
    <3>2. PICK p \in 1 .. k : p = x - bcprod
      BY <1>6, <1>12, <2>1, <3>1
    <3>3. /\ SubSeq(CellBits(k), 1, p) \in Seq(Bits) /\ Len(SubSeq(CellBits(k), 1, p)) = p
          /\ \A i \in 1 .. p : SubSeq(CellBits(k), 1, p)[i] = CellBits(k)[i]
      BY <1>6, CellPrefix
    <3>4. Shift(window, SubSeq(CellBits(k), 1, p)) = Recent(disk, n + p)
      BY <1>14, <3>3
    <3>5. n + p = b + x - 1
      BY <1>6, <1>12, <2>1, <3>2
    <3>6. QED
      BY <1>4, <2>2, <3>1, <3>2, <3>4, <3>5
  <2>8. QED
    BY <2>6, <2>7
<1>21. seeking' = FALSE
  BY <1>4 DEF DiskInv, WordsInv
<1>22. QED
  BY <1>15, <1>17, <1>18, <1>19, <1>20, <1>21 DEF Decoded

\* What the disk shows, and how either decoder will see it.
LEMMA IntervalIs ==
  ASSUME NEW t \in Phases \cup Intervals
  PROVE  /\ t \in Nat /\ t < CntMod /\ Nominal(t) \in Nat /\ Nominal(t) >= 1
         /\ SyncCells(t) = Nominal(t) /\ DataCells(t) = Nominal(t)
<1>1. t \in Nat /\ NoTie(t) /\ t < CntMod
  BY CellAssumption
<1>2. QED
  BY <1>1, NominalIs, DecodersAgree

LEMMA CaptureCells ==
  ASSUME IInv, DiskInv, NEW t \in Phases \cup Intervals, Capture(t)
  PROVE  DiskInv'
<1> DEFINE k == Nominal(t)  c == CellBits(k)
<1>1. /\ cnt' = (cnt + t) % CntMod /\ buf' = [buf EXCEPT ![dmaprod] = cnt']
      /\ disk' = disk \o c /\ lost' = (lost \/ pending >= Size) /\ pending' = pending + 1
      /\ UNCHANGED <<pc, sync, seeking, window, bcprod, out, cons, prod, prev>>
  BY DEF Capture, reader
<1>2. /\ t \in Nat /\ t < CntMod /\ k \in Nat /\ k >= 1 /\ SyncCells(t) = k /\ DataCells(t) = k
  BY IntervalIs
<1>3. c \in Seq(Bits) /\ Len(c) = k
  BY <1>2, CellBitsAre
<1> HIDE DEF k
<1>4. /\ cnt \in 0 .. CntMod - 1 /\ disk \in Seq(Bits) /\ buf \in [Slots -> Nat]
      /\ Len(disk) \in Nat /\ CntMod \in Nat \ {0}
  BY WordsAre, Widths DEF DiskInv, WordsInv
<1>5. cnt' \in 0 .. CntMod - 1 /\ (cnt' - cnt) % CntMod = t
  BY <1>1, <1>2, <1>4, DifferenceIs
<1>6. /\ disk' \in Seq(Bits) /\ Len(disk') = Len(disk) + k
      /\ \A i \in 1 .. Len(disk) : disk'[i] = disk[i]
      /\ \A i \in 1 .. k : disk'[Len(disk) + i] = c[i]
  <2> HIDE DEF c
  <2>1. /\ disk \o c \in Seq(Bits) /\ Len(disk \o c) = Len(disk) + k
        /\ \A i \in 1 .. Len(disk) + k :
             (disk \o c)[i] = IF i <= Len(disk) THEN disk[i] ELSE c[i - Len(disk)]
    BY <1>3, <1>4, ConcatProperties
  <2>2. ASSUME NEW i \in 1 .. Len(disk)
        PROVE  (disk \o c)[i] = disk[i]
    BY <1>2, <1>4, <2>1
  <2>3. ASSUME NEW i \in 1 .. k
        PROVE  (disk \o c)[Len(disk) + i] = c[i]
    <3>1. Len(disk) + i \in 1 .. Len(disk) + k /\ ~(Len(disk) + i <= Len(disk))
          /\ Len(disk) + i - Len(disk) = i
      BY <1>2, <1>4
    <3>2. QED
      BY <2>1, <3>1
  <2>4. QED
    BY <1>1, <2>1, <2>2, <2>3
<1>7. WordsInv'
  <2>1. buf' \in [Slots -> Nat]
    <3>1. cnt' \in Nat
      BY <1>4, <1>5
    <3>2. QED
      BY <1>1, <1>4, <3>1
  <2>2. lost' \in BOOLEAN
    BY <1>1
  <2>3. QED
    BY <1>1, <1>5, <1>6, <2>1, <2>2 DEF DiskInv, WordsInv
<1>8. SUFFICES ASSUME ~lost'
               PROVE  CellsInv'
  BY <1>7 DEF DiskInv, CellsInv
<1>9. ~lost /\ ~(pending >= Size) /\ lost \in BOOLEAN
  BY <1>1, <1>8 DEF DiskInv, WordsInv
<1>10. PICK e \in [0 .. pending -> 0 .. Len(disk)] : Cut(e) /\ Decoded(e[0])
  BY <1>9 DEF DiskInv, CellsInv
<1>11. /\ pending \in Nat /\ pending < Size /\ cons \in Slots /\ cons \in Int /\ dmaprod \in Slots
       /\ on /\ cons = (dmaprod - pending) % Size /\ dmaprod \in Int
  BY <1>9, SlotsAre DEF IInv, TypeOK, PositionOK, Capture
\* The DMA stores behind the last pending capture, in a slot of its own.
<1>12. dmaprod = (cons + pending) % Size
  <2>1. dmaprod - pending \in Int /\ (dmaprod - pending) + pending = dmaprod
    BY <1>11
  <2>2. (cons + pending) % Size = dmaprod % Size
    BY <1>11, <2>1, PlacePlus
  <2>3. QED
    BY <1>11, <2>2, OneStep
<1>13. ASSUME NEW j \in 0 .. pending
       PROVE  Sample(j)' = Sample(j)
  <2>1. CASE j = 0
    BY <1>1, <2>1 DEF Sample
  <2>2. CASE j # 0
    <3>1. /\ cons + j - 1 \in Int /\ pending - j + 1 \in 1 .. Size - 1
          /\ (cons + j - 1) + (pending - j + 1) = cons + pending
      BY <1>11, <2>2, SlotsAre
    <3>2. (cons + j - 1) % Size # dmaprod
      BY <1>12, <3>1, OtherPlace
    <3>3. (cons + j - 1) % Size \in Slots
      BY <3>1, OneStep
    <3>4. buf'[(cons + j - 1) % Size] = buf[(cons + j - 1) % Size]
      BY <1>1, <1>4, <3>2, <3>3
    <3>5. QED
      BY <1>1, <2>2, <3>4 DEF Sample
  <2>3. QED
    BY <2>1, <2>2
<1>14. PICK last \in Nat : last = pending + 1
  BY <1>11
<1>15. Sample(last)' = cnt'
  <2>1. cons + last - 1 = cons + pending /\ last # 0
    BY <1>11, <1>14
  <2>2. buf'[(cons + last - 1) % Size] = cnt'
    BY <1>1, <1>4, <1>11, <1>12, <2>1
  <2>3. QED
    BY <1>1, <2>1, <2>2 DEF Sample
<1>16. PICK g \in [0 .. last -> 0 .. Len(disk')] :
          \A j \in 0 .. last : g[j] = IF j = last THEN Len(disk') ELSE e[j]
  <2> DEFINE h == [j \in 0 .. last |-> IF j = last THEN Len(disk') ELSE e[j]]
  <2>1. ASSUME NEW j \in 0 .. last
        PROVE  (IF j = last THEN Len(disk') ELSE e[j]) \in 0 .. Len(disk')
    <3>1. Len(disk') \in Nat /\ Len(disk') >= Len(disk)
      BY <1>2, <1>4, <1>6
    <3>2. CASE j = last
      BY <3>1, <3>2
    <3>3. CASE j # last
      <4>1. j \in 0 .. pending
        BY <1>11, <1>14, <3>3
      <4>2. e[j] \in 0 .. Len(disk)
        BY <4>1
      <4>3. QED
        BY <1>4, <3>1, <3>3, <4>2
    <3>4. QED
      BY <3>2, <3>3
  <2>2. h \in [0 .. last -> 0 .. Len(disk')]
    BY <2>1
  <2>3. \A j \in 0 .. last : h[j] = IF j = last THEN Len(disk') ELSE e[j]
    OBVIOUS
  <2> HIDE DEF h
  <2>4. QED
    BY <2>2, <2>3
<1>17. ASSUME NEW j \in 1 .. pending
       PROVE  /\ Group(disk, g[j - 1], g[j])'
              /\ (SyncCells(Gap(j)) = g[j] - g[j - 1])' /\ (DataCells(Gap(j)) = g[j] - g[j - 1])'
  <2>1. /\ j \in 0 .. pending /\ j - 1 \in 0 .. pending /\ j \in 0 .. last /\ j - 1 \in 0 .. last
        /\ j # last /\ j - 1 # last
    BY <1>11, <1>14
  <2>2. Sample(j)' = Sample(j) /\ Sample(j - 1)' = Sample(j - 1)
    BY <1>13, <2>1
  <2>3. Gap(j)' = Gap(j)
    BY <2>2 DEF Gap
  <2>4. SyncCells(Gap(j))' = SyncCells(Gap(j)) /\ DataCells(Gap(j))' = DataCells(Gap(j))
    BY <2>3 DEF SyncCells, DataCells
  <2>5. g[j] = e[j] /\ g[j - 1] = e[j - 1] /\ e[j] \in 0 .. Len(disk) /\ e[j - 1] \in 0 .. Len(disk)
    BY <1>16, <2>1
  <2>6. /\ Group(disk, e[j - 1], e[j])
        /\ SyncCells(Gap(j)) = e[j] - e[j - 1] /\ DataCells(Gap(j)) = e[j] - e[j - 1]
    BY <1>10 DEF Cut
  <2>7. Group(disk', e[j - 1], e[j])
    <3>1. e[j - 1] < e[j] /\ \A p \in 1 .. e[j] - e[j - 1] :
             disk[e[j - 1] + p] = CellBits(e[j] - e[j - 1])[p]
      BY <2>6 DEF Group
    <3>2. \A p \in 1 .. e[j] - e[j - 1] : e[j - 1] + p \in 1 .. Len(disk)
      BY <1>4, <2>5
    <3>3. \A p \in 1 .. e[j] - e[j - 1] : disk'[e[j - 1] + p] = disk[e[j - 1] + p]
      BY <1>6, <3>2
    <3>4. QED
      BY <3>1, <3>3 DEF Group
  <2>8. QED
    BY <2>4, <2>5, <2>6, <2>7 DEF Group, CellBits
<1>18. /\ Group(disk, g[last - 1], g[last])'
       /\ (SyncCells(Gap(last)) = g[last] - g[last - 1])'
       /\ (DataCells(Gap(last)) = g[last] - g[last - 1])'
  <2>1. /\ last \in 0 .. last /\ last - 1 \in 0 .. last /\ last - 1 # last /\ last - 1 = pending
        /\ pending \in 0 .. pending
    BY <1>11, <1>14
  <2>2. g[last] = Len(disk) + k /\ g[last - 1] = Len(disk)
    BY <1>6, <1>10, <1>16, <2>1 DEF Cut
  <2>3. Sample(last - 1)' = cnt
    <3>1. Sample(pending) = cnt
      BY <1>10 DEF Cut
    <3>2. PICK j \in 0 .. pending : j = pending
      BY <2>1
    <3>3. Sample(j)' = Sample(pending)
      BY <1>13, <3>2
    <3>4. Sample(last - 1)' = Sample(j)'
      BY <2>1, <3>2
    <3>5. QED
      BY <3>1, <3>3, <3>4
  <2>4. Gap(last)' = t
    BY <1>5, <1>15, <2>3 DEF Gap
  <2>5. SyncCells(Gap(last))' = k /\ DataCells(Gap(last))' = k
    BY <1>2, <2>4 DEF SyncCells, DataCells
  <2>6. g[last] - g[last - 1] = k /\ g[last - 1] < g[last]
    BY <1>2, <1>4, <2>2
  <2>7. Group(disk', g[last - 1], g[last])
    BY <1>6, <2>2, <2>6 DEF Group
  <2>8. QED
    BY <2>5, <2>6, <2>7 DEF Group, CellBits
<1>19. Cut(g)'
  <2>1. pending' = last /\ \A j \in 1 .. last : j \in 1 .. pending \/ j = last
    BY <1>1, <1>11, <1>14
  <2>2. g[pending'] = Len(disk') /\ Sample(pending)' = cnt'
    <3>1. Sample(pending)' = Sample(last)'
      BY <2>1 DEF Sample
    <3>2. g[last] = Len(disk')
      BY <1>16
    <3>3. QED
      BY <1>15, <2>1, <3>1, <3>2
  <2>3. ASSUME NEW j \in 1 .. last
        PROVE  /\ Group(disk, g[j - 1], g[j])'
               /\ (SyncCells(Gap(j)) = g[j] - g[j - 1])' /\ (DataCells(Gap(j)) = g[j] - g[j - 1])'
    BY <1>17, <1>18, <2>1
  <2>4. QED
    BY <1>16, <2>1, <2>2, <2>3 DEF Cut
<1>20. g[0] = e[0] /\ e[0] \in 0 .. Len(disk)
  BY <1>11, <1>14, <1>16
<1>21. Decoded(g[0])'
  <2>1. \A i \in 0 .. Len(disk) : Recent(disk', i) = Recent(disk, i)
    BY <1>1, <1>3, <1>4, RecentAppend
  <2>2. WordsInv /\ Decoded(e[0]) /\ UNCHANGED <<sync, seeking, window, bcprod, out, pc>>
    BY <1>1, <1>10 DEF DiskInv
  <2>3. Decoded(e[0])'
    BY <1>20, <2>1, <2>2, DecodedKept
  <2>4. QED
    BY <1>20, <2>3
<1>22. pending' = last
  BY <1>1, <1>14
<1>23. QED
  BY <1>16, <1>19, <1>21, <1>22 DEF CellsInv

LEMMA InitCells == Init => DiskInv
<1> SUFFICES ASSUME Init
             PROVE  DiskInv
  OBVIOUS
<1> DEFINE e == [j \in 0 .. 0 |-> 0]
<1>1. /\ pc = "idle" /\ sync = "none" /\ seeking = FALSE /\ window = Ones /\ bcprod = 0
      /\ out = [k \in 1 .. NrWords |-> Ones] /\ cons = 0 /\ prev = 0 /\ cnt = 0
      /\ buf = [s \in Slots |-> 0] /\ disk = <<>> /\ pending = 0 /\ lost = FALSE
  BY DEF Init
<1>2. /\ Word \in Nat /\ Word >= 2 /\ BcMax \in Nat /\ BcMax >= 2 * Word /\ CntMod \in Nat \ {0}
  BY Widths
<1>3. WordsInv
  <2>1. disk \in Seq(Bits) /\ cnt \in 0 .. CntMod - 1
    BY <1>1, <1>2, EmptySeq
  <2>2. buf \in [Slots -> Nat] /\ DOMAIN out = 1 .. NrWords
    BY <1>1
  <2>3. QED
    BY <1>1, <2>1, <2>2 DEF WordsInv
<1>4. Len(disk) = 0 /\ e \in [0 .. pending -> 0 .. Len(disk)] /\ e[0] = 0
  BY <1>1, EmptySeq
<1>5. Cut(e)
  BY <1>1, <1>4 DEF Cut, Sample
<1>6. Recent(disk, 0) = Ones
  <2>1. \A i \in 1 .. Word : ~(0 - Word + i >= 1)
    BY <1>2
  <2>2. QED
    BY <2>1 DEF Recent, Ones
<1>7. Decoded(0)
  <2>1. 1 \in 1 .. 0 + 1 /\ 0 - 1 + 1 = 0 /\ ~(0 >= BcMax)
    BY <1>2
  <2>2. \A w \in 1 .. NrWords : ~(w * Word <= 0)
    BY <1>2, WordEnds
  <2>3. bcprod = Least(0 - 1 + 1, BcMax)
    BY <1>1, <1>2 DEF Least
  <2>4. StartsAt(1, 0)
    BY <1>1 DEF StartsAt
  <2>5. QED
    BY <1>1, <1>6, <2>1, <2>2, <2>3, <2>4 DEF Decoded
<1> HIDE DEF e
<1>8. CellsInv
  BY <1>4, <1>5, <1>7 DEF CellsInv
<1>9. QED
  BY <1>3, <1>8 DEF DiskInv

LEMMA DiskNext ==
  ASSUME IInv, DiskInv, [Next]_vars
  PROVE  DiskInv'
<1>1. CASE \E s \in {"none", "mfm", "fm"} : Prep(s)
  BY <1>1, PrepCells
<1>2. CASE StartTimer
  <2>1. /\ UNCHANGED <<sync, seeking, window, bcprod, out, cons, prev, dma, pending, lost>>
        /\ pc = "prepared" /\ pc' = "poll"
    BY <1>2 DEF StartTimer, reader
  <2>2. QED
    BY <2>1, QuietStep
<1>3. CASE Poll
  <2>1. /\ UNCHANGED <<sync, seeking, window, bcprod, out, cons, prev, dma, pending, lost>>
        /\ pc = "poll" /\ pc' \in {"poll", "take"}
    BY <1>3 DEF Poll
  <2>2. QED
    BY <2>1, QuietStep
<1>4. CASE Stop
  <2>1. /\ UNCHANGED <<sync, seeking, window, bcprod, out, cons, prev, dma, pending, lost>>
        /\ pc = "full" /\ pc' = "done"
    BY <1>4 DEF Stop, reader
  <2>2. QED
    BY <2>1, QuietStep
<1>5. CASE UNCHANGED vars
  <2>1. UNCHANGED <<sync, seeking, window, bcprod, out, cons, prev, dma, pending, lost, pc>>
    BY <1>5 DEF vars, reader
  <2>2. QED
    BY <2>1, QuietStep
<1>6. CASE Reversal
  BY <1>6, CaptureCells DEF Reversal
<1>7. QED
  BY <1>1, <1>2, <1>3, <1>4, <1>5, <1>6, TakeSyncCells, TakeDataCells DEF Next, Reader

\* While no capture is lost, the captures pending and the cells taken together are what
\* has passed the head, and window and buffer are made of the cells taken.
THEOREM CellsAreKept == Spec => []DiskInv
<1>1. Init => DiskInv
  BY InitCells
<1>2. IInv /\ DiskInv /\ [Next]_vars => DiskInv'
  BY DiskNext
<1>3. QED
  BY <1>1, <1>2, Inductive, PTL DEF Spec

\* A place where the window of the search shows a mark is a place where a mark ends.
LEMMA MarkEndIs ==
  ASSUME WordsInv, NEW i \in Word .. Len(disk)
  PROVE  i \in MarkEnds <=> Recent(disk, i) \in Marks
<1>1. disk \in Seq(Bits)
  BY WordsAre
<1>2. Recent(disk, i) = SubSeq(disk, i - Word + 1, i)
  BY <1>1, RecentIsSub
<1>3. QED
  BY <1>2 DEF MarkEnds

\* The search is over as soon as, and only if, the captures taken contain a mark.
THEOREM SearchEndsAtMark == Spec => []SyncIsOnDisk
<1>1. DiskInv /\ IInv => SyncIsOnDisk
  <2> SUFFICES ASSUME DiskInv, IInv, ~lost, sync # "none", pending = 0
               PROVE  seeking <=> MarkEnds = {}
    BY DEF SyncIsOnDisk
  <2>1. PICK e \in [0 .. pending -> 0 .. Len(disk)] : Cut(e) /\ Decoded(e[0])
    BY DEF DiskInv, CellsInv
  <2>2. e[0] = Len(disk) /\ Decoded(Len(disk)) /\ Len(disk) \in Nat
    BY <2>1, WordsAre DEF Cut, DiskInv
  <2>3. ASSUME seeking
        PROVE  MarkEnds = {}
    <3>1. \A i \in Word .. Len(disk) : Recent(disk, i) \notin Marks
      BY <2>2, <2>3 DEF Decoded
    <3>2. \A i \in Word .. Len(disk) : i \notin MarkEnds
      BY <3>1, MarkEndIs DEF DiskInv
    <3>3. MarkEnds \subseteq Word .. Len(disk)
      BY DEF MarkEnds
    <3>4. QED
      BY <3>2, <3>3
  <2>4. ASSUME ~seeking
        PROVE  MarkEnds # {}
    <3>1. PICK b \in 1 .. Len(disk) + 1 : StartsAt(b, Len(disk))
      BY <2>2, <2>4 DEF Decoded
    <3>2. PICK f \in Word .. Len(disk) : Recent(disk, f) \in Marks
      BY <3>1 DEF StartsAt
    <3>3. QED
      BY <3>2, MarkEndIs DEF DiskInv
  <2>5. QED
    BY <2>3, <2>4 DEF DiskInv, WordsInv
<1>2. QED
  BY <1>1, CellsAreKept, Inductive, PTL

\* Unless a capture was lost, what floppy_read() returns is what has passed the head, from
\* the first sync mark on.
THEOREM ReadsWhatPassed == Spec => []ReadsDisk
<1>1. DiskInv /\ IInv => ReadsDisk
  <2> SUFFICES ASSUME DiskInv, IInv, pc = "done", ~lost
               PROVE  /\ sync # "none" => MarkEnds # {}
                      /\ \A w \in 1 .. NrWords :
                           out[w] = SubSeq(disk, BufferStart + (w - 1) * Word,
                                                 BufferStart + w * Word - 1)
    BY DEF ReadsDisk
  <2>1. PICK e \in [0 .. pending -> 0 .. Len(disk)] : Cut(e) /\ Decoded(e[0])
    BY DEF DiskInv, CellsInv
  <2>2. PICK n \in 0 .. Len(disk) : Decoded(n)
    <3>1. 0 \in 0 .. pending
      BY DEF IInv, TypeOK
    <3>2. e[0] \in 0 .. Len(disk)
      BY <3>1
    <3>3. QED
      BY <2>1, <3>2
  <2>3. /\ ~seeking /\ sync \in {"none", "mfm", "fm"}
        /\ Len(disk) \in Nat /\ disk \in Seq(Bits) /\ Word \in Nat /\ Word >= 2 /\ BcMax \in Nat
        /\ n \in Nat
    BY WordsAre, Widths DEF DiskInv, WordsInv
  <2>4. PICK b \in 1 .. n + 1 :
          /\ StartsAt(b, n) /\ bcprod = Least(n - b + 1, BcMax) /\ n - b + 1 >= BcMax
          /\ \A w \in 1 .. NrWords : w * Word <= bcprod => out[w] = Recent(disk, b + w * Word - 1)
    BY <2>2, <2>3 DEF Decoded
  <2>5. bcprod = BcMax
    BY <2>3, <2>4 DEF Least
  <2>6. (sync # "none" => MarkEnds # {}) /\ BufferStart = b
    <3>1. CASE sync = "none"
      BY <2>4, <3>1 DEF StartsAt, BufferStart
    <3>2. CASE sync # "none"
      <4>1. PICK f \in Word .. n :
              /\ b = f - SyncFound + 1
              /\ Recent(disk, f) \in Marks /\ \A i \in Word .. f - 1 : Recent(disk, i) \notin Marks
        BY <2>4, <3>2 DEF StartsAt
      <4>2. f \in MarkEnds /\ f \in Nat
        <5>1. f \in Word .. Len(disk)
          BY <2>3
        <5>2. QED
          BY <2>3, <4>1, <5>1, MarkEndIs DEF DiskInv
      <4>3. ASSUME NEW i \in MarkEnds
            PROVE  i \in Nat /\ f <= i
        <5>1. i \in Word .. Len(disk)
          BY DEF MarkEnds
        <5>2. Recent(disk, i) \in Marks
          BY <5>1, MarkEndIs DEF DiskInv
        <5>3. i \notin Word .. f - 1
          BY <4>1, <5>2
        <5>4. QED
          BY <2>3, <4>2, <5>1, <5>3
      <4>4. FirstMark = f
        <5>1. \E i \in MarkEnds : \A j \in MarkEnds : i <= j
          BY <4>2, <4>3
        <5>2. FirstMark \in MarkEnds /\ \A j \in MarkEnds : FirstMark <= j
          BY <5>1 DEF FirstMark
        <5>3. FirstMark \in Nat /\ f <= FirstMark /\ FirstMark <= f
          BY <4>2, <4>3, <5>2
        <5>4. QED
          BY <4>2, <5>3
      <4>5. CASE sync = "mfm"
        <5>1. SyncFound = Word
          BY <4>5 DEF SyncFound
        <5>2. b = f - Word + 1
          BY <4>1, <5>1
        <5>3. QED
          BY <4>2, <4>4, <4>5, <5>2 DEF BufferStart
      <4>6. CASE sync = "fm"
        <5>1. SyncFound = Word - 1
          BY <4>6 DEF SyncFound
        <5>2. b = f - Word + 2
          BY <2>3, <4>1, <4>2, <5>1
        <5>3. QED
          BY <4>2, <4>4, <4>6, <5>2 DEF BufferStart
      <4>7. QED
        BY <2>3, <3>2, <4>5, <4>6
    <3>3. QED
      BY <3>1, <3>2
  <2>7. ASSUME NEW w \in 1 .. NrWords
        PROVE  out[w] = SubSeq(disk, b + (w - 1) * Word, b + w * Word - 1)
    <3> DEFINE x == w * Word
    <3>1. x \in Nat /\ x >= Word /\ x <= BcMax /\ (w - 1) * Word = x - Word
      BY WordEnds
    <3>2. out[w] = Recent(disk, b + x - 1)
      BY <2>4, <2>5, <3>1
    <3> HIDE DEF x
    <3>3. b + x - 1 \in Word .. Len(disk) /\ (b + x - 1) - Word + 1 = b + (x - Word)
      BY <2>3, <2>4, <3>1
    <3>4. Recent(disk, b + x - 1) = SubSeq(disk, (b + x - 1) - Word + 1, b + x - 1)
      BY <2>3, <3>3, RecentIsSub
    <3>5. SubSeq(disk, b + (w - 1) * Word, b + x - 1)
            = SubSeq(disk, (b + x - 1) - Word + 1, b + x - 1)
      BY <3>1, <3>3
    <3>6. QED
      BY <3>2, <3>4, <3>5 DEF x
  <2>8. QED
    BY <2>6, <2>7
<1>2. QED
  BY <1>1, CellsAreKept, Inductive, PTL

(***************************************************************************)
(* The read as TrackRead promises it.  A word is delivered when the data   *)
(* loop passes its end; whatever captures were lost, the count of cells    *)
(* grows, and the words below it are not written again.                    *)
(***************************************************************************)
CountInv ==
  /\ prev \in Nat /\ bcprod \in Nat
  /\ ~seeking => bcprod <= BcMax

\* The buffer begins where TrackRead begins it, and the words below the count
\* are cells that have passed.
DeliveredInv ==
  ~lost /\ ~seeking =>
    \E b \in 1 .. Len(disk) + 1 :
      /\ Abs!StartsWith(b) /\ b + bcprod - 1 <= Len(disk)
      /\ \A w \in 1 .. NrWords :
           w * Word <= bcprod =>
             out[w] = SubSeq(disk, b + (w - 1) * Word, b + w * Word - 1)

ReadInv == IInv /\ DiskInv /\ CountInv

\* The data loop takes at least one cell, whatever the interval.
LEMMA DataCellsIs ==
  ASSUME NEW t \in Nat
  PROVE  DataCells(t) \in Nat /\ DataCells(t) >= 1
<1> DEFINE h == Cell \div 2  q == t \div Cell  r == t % Cell
           n == IF r > h THEN q + 1 ELSE IF q = 0 THEN 1 ELSE q
           Fits(m) == /\ t - (m - 1) * Cell <= Cell + Cell \div 2
                      /\ m = 1 \/ t - (m - 2) * Cell > Cell + Cell \div 2
<1>1. Cell \in Nat \ {0} /\ h \in Nat /\ h < Cell
  <2>1. Cell \in Nat /\ Cell >= 2
    BY Widths
  <2>2. QED
    BY <2>1
<1>2. q \in Int /\ r \in 0 .. Cell - 1 /\ r = t - Cell * q
  <2>1. t \in Int /\ Cell \in Nat \ {0}
    BY <1>1
  <2>2. QED
    BY <2>1, DivMod, Zenon
<1> HIDE DEF q, r
<1>3. q >= 0 /\ q <= t
  <2>1. q < 0 => Cell * q <= 0 - Cell
    BY <1>1, <1>2
  <2>2. q > t => Cell * q >= q
    BY <1>1, <1>2
  <2>3. Cell * q \in Int
    BY <1>1, <1>2
  <2>4. QED
    BY <1>1, <1>2, <2>1, <2>2, <2>3
<1>4. /\ Cell * q \in Int /\ (q = 0 => Cell * q = 0)
      /\ \A k \in {-2, -1, 0} : (q + k) * Cell = Cell * q + k * Cell
  BY <1>1, <1>2
<1>5. n \in 1 .. t + 1
  BY <1>2, <1>3
<1>6. Fits(n)
  <2>1. CASE r > h
    <3>1. n = q + 1 /\ (n - 1) * Cell = Cell * q /\ (n - 2) * Cell = Cell * q - Cell
      BY <1>1, <1>2, <1>4, <2>1
    <3> HIDE DEF n
    <3>2. t - (n - 1) * Cell = r /\ t - (n - 2) * Cell = r + Cell
      BY <1>1, <1>2, <1>4, <3>1
    <3>3. QED
      BY <1>1, <1>2, <2>1, <3>2 DEF h
  <2>2. CASE ~(r > h) /\ q = 0
    <3>1. n = 1 /\ (n - 1) * Cell = 0 /\ t = r
      BY <1>1, <1>2, <1>4, <2>2
    <3> HIDE DEF n
    <3>2. QED
      BY <1>1, <1>2, <2>2, <3>1 DEF h
  <2>3. CASE ~(r > h) /\ q # 0
    <3>1. n = q /\ (n - 1) * Cell = Cell * q - Cell /\ (n - 2) * Cell = Cell * q - 2 * Cell
      BY <1>1, <1>2, <1>4, <2>3
    <3> HIDE DEF n
    <3>2. t - (n - 1) * Cell = r + Cell /\ t - (n - 2) * Cell = r + 2 * Cell
      BY <1>1, <1>2, <1>4, <3>1
    <3>3. QED
      BY <1>1, <1>2, <2>3, <3>2 DEF h
  <2>4. QED
    BY <2>1, <2>2, <2>3
<1> HIDE DEF n
<1>7. (CHOOSE m \in 1 .. t + 1 : Fits(m)) \in 1 .. t + 1
  <2> HIDE DEF Fits
  <2>1. QED
    BY <1>5, <1>6
<1>8. QED
  BY <1>7 DEF DataCells

LEMMA SyncCellsIs ==
  ASSUME NEW t \in Nat
  PROVE  SyncCells(t) \in Nat /\ SyncCells(t) >= 1
<1> DEFINE x == t - Cell \div 2  k == x \div Cell
<1>1. Cell \in Nat \ {0} /\ x \in Int
  BY Widths
<1>2. k \in Int /\ x % Cell \in 0 .. Cell - 1 /\ x % Cell = x - Cell * k
  <2> HIDE DEF x
  <2>1. QED
    BY <1>1, DivMod
<1>3. x >= 0 => k >= 0
  <2> HIDE DEF x, k
  <2>1. k < 0 => Cell * k <= 0 - Cell
    BY <1>1, <1>2
  <2>2. Cell * k \in Int
    BY <1>1, <1>2
  <2>3. QED
    BY <1>1, <1>2, <2>1, <2>2
<1>4. SyncCells(t) = IF x < 0 THEN 1 ELSE k + 1
  <2>1. t < Cell \div 2 <=> x < 0
    BY <1>1
  <2>2. QED
    BY <2>1 DEF SyncCells
<1> HIDE DEF x, k
<1>5. QED
  BY <1>1, <1>2, <1>3, <1>4

\* The words that end within the first x cells.
LEMMA FullWords ==
  ASSUME NEW x \in Nat
  PROVE  /\ x \div Word \in Nat
         /\ \A w \in Nat : w <= x \div Word <=> w * Word <= x
         /\ x <= BcMax => x \div Word <= NrWords
<1> DEFINE k == x \div Word
<1>1. Word \in Nat \ {0} /\ NrWords \in Nat
  BY Widths
<1>2. k \in Int /\ x % Word \in 0 .. Word - 1 /\ x % Word = x - Word * k
  BY <1>1, DivMod
<1> HIDE DEF k
<1>3. k * Word \in Int /\ k * Word = Word * k /\ k * Word <= x /\ x < k * Word + Word
  BY <1>1, <1>2
<1>4. \A w \in Int : w <= k => w * Word <= k * Word
  BY <1>1, <1>2
<1>5. \A w \in Int : w > k => w * Word >= k * Word + Word
  BY <1>1, <1>2
<1>6. \A w \in Int : w * Word \in Int
  BY <1>1
<1>7. \A w \in Int : w <= k <=> w * Word <= x
  <2> TAKE w \in Int
  <2> DEFINE y == w * Word  z == k * Word
  <2>1. (w <= k => y <= z) /\ (w > k => y >= z + Word) /\ y \in Int /\ z \in Int /\ z <= x
        /\ x < z + Word
    BY <1>3, <1>4, <1>5, <1>6
  <2> HIDE DEF y, z
  <2>2. w <= k <=> y <= x
    BY <1>1, <1>2, <2>1
  <2>3. QED
    BY <2>2 DEF y
<1>8. k >= 0
  <2>1. 0 * Word <= x
    BY <1>1
  <2>2. QED
    BY <1>7, <2>1
<1>9. x <= BcMax => k <= NrWords
  <2>1. ASSUME k > NrWords
        PROVE  x > BcMax
    <3>1. NrWords + 1 <= k /\ NrWords + 1 \in Int
      BY <1>1, <1>2, <2>1
    <3>2. (NrWords + 1) * Word <= x /\ (NrWords + 1) * Word = NrWords * Word + Word
      BY <1>1, <1>7, <3>1
    <3>3. QED
      BY <1>1, <3>2 DEF BcMax
  <2>2. BcMax \in Nat
    BY Widths
  <2>3. QED
    BY <1>1, <1>2, <2>1, <2>2
<1>10. QED
  BY <1>2, <1>7, <1>8, <1>9 DEF k

LEMMA CountInit == Init => CountInv
<1> SUFFICES ASSUME Init
             PROVE  CountInv
  OBVIOUS
<1>1. BcMax \in Nat
  BY Widths
<1>2. QED
  BY <1>1 DEF Init, CountInv

\* The capture that is taken, and the time since the one before.
LEMMA ElapsedIs ==
  ASSUME IInv, WordsInv, CountInv
  PROVE  buf[cons] \in Nat /\ Elapsed \in Nat
<1>1. buf[cons] \in Nat /\ prev \in Nat /\ CntMod \in Nat \ {0}
  BY Widths DEF IInv, TypeOK, WordsInv, CountInv
<1> DEFINE x == buf[cons] - prev
<1>2. x \in Int
  BY <1>1
<1> HIDE DEF x
<1>3. x % CntMod \in Nat
  BY <1>1, <1>2, DivMod
<1>4. QED
  BY <1>1, <1>3 DEF Elapsed, x

LEMMA CountNext ==
  ASSUME ReadInv, [Next]_vars
  PROVE  CountInv'
<1>1. /\ BcMax \in Nat /\ BcMax >= 2 * Word /\ Word \in Nat /\ Word >= 2 /\ prev \in Nat
      /\ bcprod \in Nat /\ (~seeking => bcprod <= BcMax) /\ seeking \in BOOLEAN
      /\ SyncFound \in Nat /\ SyncFound <= Word /\ cnt \in Nat
  <2>1. SyncFound \in Nat /\ SyncFound <= Word
    BY WordsAre DEF ReadInv, DiskInv
  <2>2. cnt \in Nat
    BY Widths DEF ReadInv, DiskInv, WordsInv
  <2>3. QED
    BY <2>1, <2>2, Widths DEF ReadInv, CountInv, DiskInv, WordsInv
<1>2. buf[cons] \in Nat /\ Elapsed \in Nat
  BY ElapsedIs DEF ReadInv, DiskInv
<1>3. CASE \E s \in {"none", "mfm", "fm"} : Prep(s)
  <2>1. prev' = cnt /\ bcprod' = 0
    BY <1>3 DEF Prep, FreshPrev
  <2>2. QED
    BY <1>1, <2>1 DEF CountInv
<1>4. CASE TakeSync
  <2>1. /\ prev' = buf[cons] /\ seeking
        /\ (~seeking' /\ bcprod' = SyncFound) \/ (seeking' /\ bcprod' = bcprod + SyncCells(Elapsed))
    BY <1>4 DEF TakeSync, Advance
  <2>2. SyncCells(Elapsed) \in Nat
    BY <1>2, SyncCellsIs
  <2>3. QED
    BY <1>1, <1>2, <2>1, <2>2 DEF CountInv
<1>5. CASE TakeData
  <2> DEFINE n == DataCells(Elapsed)
  <2>1. /\ prev' = buf[cons] /\ ~seeking /\ seeking' = seeking
        /\ bcprod' = Least(bcprod + Len(CellBits(n)), BcMax)
    BY <1>5 DEF TakeData, Advance
  <2>2. n \in Nat
    BY <1>2, DataCellsIs
  <2> HIDE DEF n
  <2>3. Len(CellBits(n)) = n
    BY <2>2, CellBitsAre
  <2>4. bcprod' \in Nat /\ bcprod' <= BcMax
    BY <1>1, <2>1, <2>2, <2>3 DEF Least
  <2>5. QED
    BY <1>2, <2>1, <2>4 DEF CountInv
<1>6. CASE StartTimer \/ Poll \/ Stop \/ Reversal \/ UNCHANGED vars
  <2>1. UNCHANGED <<prev, bcprod, seeking>>
    BY <1>6 DEF StartTimer, Poll, Stop, Reversal, Capture, reader, vars
  <2>2. QED
    BY <1>1, <2>1 DEF CountInv
<1>7. QED
  BY <1>3, <1>4, <1>5, <1>6 DEF Next, Reader

LEMMA InductiveRead == Spec => []ReadInv
<1>1. ReadInv /\ [Next]_vars => CountInv'
  BY CountNext
<1>2. QED
  BY CountInit, <1>1, Inductive, CellsAreKept, PTL DEF Spec, ReadInv

\* Where the buffer begins for the search, it begins for TrackRead.
LEMMA StartsWithIs ==
  ASSUME WordsInv, NEW n \in 0 .. Len(disk), NEW b \in 1 .. n + 1, StartsAt(b, n)
  PROVE  Abs!StartsWith(b)
<1>1. /\ Len(disk) \in Nat /\ Word \in Nat /\ Word >= 2 /\ n \in Nat
      /\ sync \in {"none", "mfm", "fm"}
      /\ SyncFound = IF sync = "fm" THEN Word - 1 ELSE Word
  BY WordsAre, Widths DEF WordsInv, SyncFound
<1>2. Abs!Ends = MarkEnds /\ MarkEnds \subseteq Word .. Len(disk)
  BY DEF Abs!Ends, Abs!Marks, MarkEnds, Marks
<1>3. CASE sync = "none"
  BY <1>3 DEF StartsAt, Abs!StartsWith
<1>4. CASE sync # "none"
  <2>1. PICK f \in Word .. n :
          /\ b = f - SyncFound + 1
          /\ Recent(disk, f) \in Marks /\ \A i \in Word .. f - 1 : Recent(disk, i) \notin Marks
    BY <1>4 DEF StartsAt
  <2>2. f \in Word .. Len(disk) /\ f \in Nat
    BY <1>1
  <2>3. f \in MarkEnds
    BY <2>1, <2>2, MarkEndIs
  <2>4. ASSUME NEW i \in MarkEnds
        PROVE  f <= i
    <3>1. i \in Word .. Len(disk)
      BY <1>2
    <3>2. Recent(disk, i) \in Marks
      BY <3>1, MarkEndIs
    <3>3. i \notin Word .. f - 1
      BY <2>1, <3>2
    <3>4. QED
      BY <1>1, <2>2, <3>1, <3>3
  <2>5. b = f - Word + (IF sync = "fm" THEN 2 ELSE 1)
    BY <1>1, <2>1, <2>2
  <2>6. QED
    BY <1>2, <1>4, <2>3, <2>4, <2>5 DEF Abs!StartsWith
<1>5. QED
  BY <1>3, <1>4

LEMMA Delivered ==
  ASSUME ReadInv
  PROVE  DeliveredInv
<1> SUFFICES ASSUME ~lost, ~seeking
             PROVE  \E b \in 1 .. Len(disk) + 1 :
                      /\ Abs!StartsWith(b) /\ b + bcprod - 1 <= Len(disk)
                      /\ \A w \in 1 .. NrWords :
                           w * Word <= bcprod =>
                             out[w] = SubSeq(disk, b + (w - 1) * Word, b + w * Word - 1)
  BY DEF DeliveredInv
<1>1. PICK e \in [0 .. pending -> 0 .. Len(disk)] : Cut(e) /\ Decoded(e[0])
  BY DEF ReadInv, DiskInv, CellsInv
<1>2. PICK n \in 0 .. Len(disk) : Decoded(n)
  <2>1. 0 \in 0 .. pending
    BY DEF ReadInv, IInv, TypeOK
  <2>2. e[0] \in 0 .. Len(disk)
    BY <2>1
  <2>3. QED
    BY <1>1, <2>2
<1>3. /\ WordsInv /\ Len(disk) \in Nat /\ disk \in Seq(Bits) /\ n \in Nat
      /\ Word \in Nat /\ Word >= 2 /\ BcMax \in Nat /\ bcprod \in Nat
  BY WordsAre, Widths DEF ReadInv, DiskInv, WordsInv, CountInv
<1>4. PICK b \in 1 .. n + 1 :
        /\ StartsAt(b, n) /\ bcprod = Least(n - b + 1, BcMax)
        /\ \A w \in 1 .. NrWords : w * Word <= bcprod => out[w] = Recent(disk, b + w * Word - 1)
  BY <1>2 DEF Decoded
<1>5. Abs!StartsWith(b)
  BY <1>3, <1>4, StartsWithIs
<1>6. b \in 1 .. Len(disk) + 1 /\ b + bcprod - 1 <= Len(disk)
  BY <1>3, <1>4 DEF Least
<1>7. ASSUME NEW w \in 1 .. NrWords, w * Word <= bcprod
      PROVE  out[w] = SubSeq(disk, b + (w - 1) * Word, b + w * Word - 1)
  <2> DEFINE x == w * Word
  <2>1. x \in Nat /\ x >= Word /\ (w - 1) * Word = x - Word
    BY WordEnds
  <2>2. out[w] = Recent(disk, b + x - 1) /\ x <= bcprod
    BY <1>4, <1>7
  <2> HIDE DEF x
  <2>3. b + x - 1 \in Word .. Len(disk) /\ (b + x - 1) - Word + 1 = b + (x - Word)
    BY <1>3, <1>6, <2>1, <2>2
  <2>4. Recent(disk, b + x - 1) = SubSeq(disk, (b + x - 1) - Word + 1, b + x - 1)
    BY <1>3, <2>3, RecentIsSub
  <2>5. SubSeq(disk, b + (w - 1) * Word, b + x - 1)
          = SubSeq(disk, (b + x - 1) - Word + 1, b + x - 1)
    BY <2>1, <2>3
  <2>6. QED
    BY <2>2, <2>4, <2>5 DEF x
<1>8. QED
  BY <1>5, <1>6, <1>7

\* How many words TrackRead sees, and where they end.
LEMMA WordCount ==
  ASSUME NEW k, NEW n \in Nat, k = 0 \/ (n <= BcMax /\ k = n \div Word)
  PROVE  /\ k \in 0 .. NrWords
         /\ \A w \in 1 .. k : w \in 1 .. NrWords /\ w * Word <= n
<1>1. NrWords \in Nat
  BY Widths
<1>2. k \in Nat /\ k <= NrWords /\ \A w \in 1 .. k : w * Word <= n
  BY <1>1, FullWords
<1>3. QED
  BY <1>1, <1>2

LEMMA WordsAreSeq ==
  ASSUME NEW k \in 0 .. NrWords, NEW S, NEW o, \A w \in 1 .. NrWords : o[w] \in S
  PROVE  [w \in 1 .. k |-> o[w]] \in Seq(S) /\ Len([w \in 1 .. k |-> o[w]]) = k
<1>1. NrWords \in Nat /\ k \in Nat
  BY Widths
<1>2. [w \in 1 .. k |-> o[w]] \in [1 .. k -> S]
  BY <1>1
<1>3. QED
  BY <1>1, <1>2

LEMMA PrefixIs ==
  ASSUME NEW S, NEW s \in Seq(S), NEW T, NEW t \in Seq(T),
         Len(s) <= Len(t), \A i \in 1 .. Len(s) : t[i] = s[i]
  PROVE  Abs!Extends(s, t)
<1> DEFINE n == Len(s)  u == SubSeq(t, 1, n)
<1>1. n \in Nat /\ Len(t) \in Nat /\ \A i \in 1 .. n : i \in 1 .. Len(t)
  BY LenProperties
<1>2. u \in Seq(T) /\ Len(u) = n /\ \A i \in 1 .. n : u[i] = t[i]
  <2>1. \A i \in 1 .. n : t[i] \in T
    BY <1>1, ElementOfSeq
  <2>2. 1 \in Int /\ n \in Int
    BY <1>1
  <2>3. /\ u \in Seq(T) /\ Len(u) = IF 1 <= n THEN n - 1 + 1 ELSE 0
        /\ \A i \in 1 .. n - 1 + 1 : u[i] = t[1 + i - 1]
    BY <2>1, <2>2, SubSeqProperties
  <2> HIDE DEF u, n
  <2>4. QED
    BY <1>1, <2>3
<1> HIDE DEF u
<1>3. u = s
  BY <1>1, <1>2, SeqEqual
<1>4. QED
  BY <1>3 DEF Abs!Extends, u

\* The step that takes a capture delivers the words that it completes.
LEMMA TakeDelivers ==
  ASSUME ReadInv, ReadInv', DeliveredInv', TakeSync \/ TakeData, Got' # Got
  PROVE  Abs!Deliver
<1> DEFINE k == IF seeking THEN 0 ELSE bcprod \div Word
           m == IF seeking' THEN 0 ELSE bcprod' \div Word
           S == {out[w] : w \in 1 .. NrWords} \cup {out'[w] : w \in 1 .. NrWords}
<1>0. \A w \in 1 .. NrWords : out[w] \in S /\ out'[w] \in S
  OBVIOUS
<1> HIDE DEF S
<1>1. /\ UNCHANGED <<sync, disk, lost>> /\ lost \in BOOLEAN
      /\ bcprod \in Nat /\ (~seeking => bcprod <= BcMax)
      /\ bcprod' \in Nat /\ (~seeking' => bcprod' <= BcMax)
      /\ Word \in Nat /\ NrWords \in Nat /\ Len(disk) \in Nat
  <2>1. UNCHANGED <<sync, disk, lost>>
    BY DEF TakeSync, TakeData, dma
  <2>2. QED
    BY <2>1, Widths, WordsAre DEF ReadInv, DiskInv, WordsInv, CountInv
<1>2. /\ k \in 0 .. NrWords /\ Got \in Seq(S) /\ Len(Got) = k
      /\ \A w \in 1 .. k : Got[w] = out[w] /\ w \in 1 .. NrWords /\ w * Word <= bcprod
  <2>1. Got = [w \in 1 .. k |-> out[w]] /\ (k = 0 \/ (bcprod <= BcMax /\ k = bcprod \div Word))
    BY <1>1 DEF Got
  <2> HIDE DEF k
  <2>2. /\ k \in 0 .. NrWords
        /\ \A w \in 1 .. k : w \in 1 .. NrWords /\ w * Word <= bcprod
    BY <1>1, <2>1, WordCount
  <2>3. Got \in Seq(S) /\ Len(Got) = k
    BY <1>0, <2>1, <2>2, WordsAreSeq
  <2>4. \A w \in 1 .. k : Got[w] = out[w]
    BY <2>1
  <2>5. QED
    BY <2>2, <2>3, <2>4
<1>3. /\ m \in 0 .. NrWords /\ Got' \in Seq(S) /\ Len(Got') = m
      /\ \A w \in 1 .. m : Got'[w] = out'[w] /\ w \in 1 .. NrWords /\ w * Word <= bcprod'
  <2>1. /\ Got' = [w \in 1 .. m |-> out'[w]]
        /\ m = 0 \/ (bcprod' <= BcMax /\ m = bcprod' \div Word)
    BY <1>1 DEF Got
  <2> HIDE DEF m
  <2>2. /\ m \in 0 .. NrWords
        /\ \A w \in 1 .. m : w \in 1 .. NrWords /\ w * Word <= bcprod'
    BY <1>1, <2>1, WordCount
  <2>3. Got' \in Seq(S) /\ Len(Got') = m
    BY <1>0, <2>1, <2>2, WordsAreSeq
  <2>4. \A w \in 1 .. m : Got'[w] = out'[w]
    BY <2>1
  <2>5. QED
    BY <2>2, <2>3, <2>4
<1>4. k <= m /\ \A w \in 1 .. k : out'[w] = out[w]
  <2>1. CASE TakeSync
    <3>1. k = 0
      BY <2>1 DEF TakeSync
    <3> HIDE DEF k, m
    <3>2. QED
      BY <1>3, <3>1
  <2>2. CASE TakeData
    <3> DEFINE bits == CellBits(DataCells(Elapsed))  end == bcprod + Len(bits)
    <3>1. /\ ~seeking /\ ~seeking' /\ bcprod' = Least(end, BcMax)
          /\ \A w \in 1 .. NrWords : w * Word \notin bcprod + 1 .. end => out'[w] = out[w]
      BY <2>2 DEF TakeData
    <3>2. Len(bits) \in Nat
      BY ElapsedIs, DataCellsIs, CellBitsAre DEF ReadInv, DiskInv
    <3> HIDE DEF bits
    <3>3. bcprod <= bcprod'
      BY <1>1, <3>1, <3>2, Widths DEF Least
    <3>4. k <= m
      <4>1. k \in Nat /\ k * Word <= bcprod /\ k * Word \in Nat
        BY <1>1, <3>1, FullWords
      <4> HIDE DEF k
      <4>2. k * Word <= bcprod'
        BY <1>1, <3>3, <4>1
      <4>3. QED
        BY <1>1, <3>1, <4>1, <4>2, FullWords
    <3>5. ASSUME NEW w \in 1 .. k
          PROVE  out'[w] = out[w]
      <4> HIDE DEF k
      <4>1. w \in 1 .. NrWords /\ w * Word <= bcprod /\ w * Word \in Nat
        BY <1>2, WordEnds
      <4>2. QED
        BY <1>1, <3>1, <4>1
    <3>6. QED
      BY <3>4, <3>5
  <2>3. QED
    BY <2>1, <2>2
<1>5. m > 0 => ~seeking'
  OBVIOUS
<1> HIDE DEF k, m
<1>6. ASSUME NEW w \in 1 .. k
      PROVE  Got'[w] = Got[w] /\ w \in 1 .. m
  BY <1>2, <1>3, <1>4
<1>7. m > k
  <2>1. ASSUME m = k
        PROVE  Got' = Got
    BY <1>2, <1>3, <1>6, <2>1, SeqEqual
  <2>2. QED
    BY <1>2, <1>3, <1>4, <2>1
<1>8. Abs!Extends(Got, Got') /\ Len(Got') \in Len(Got) + 1 .. NrWords
  <2>1. Abs!Extends(Got, Got')
    BY <1>2, <1>3, <1>4, <1>6, PrefixIs
  <2>2. QED
    BY <1>2, <1>3, <1>7, <2>1
<1>9. ASSUME ~lost
      PROVE  \E b \in 1 .. Len(disk) :
               /\ Abs!StartsWith(b) /\ b + Len(Got') * Word - 1 <= Len(disk)
               /\ Got' = Abs!WordsFrom(b, Len(Got'))
  <2>0. m > 0
    BY <1>2, <1>3, <1>7
  <2>1. ~seeking' /\ ~lost' /\ disk' = disk /\ sync' = sync
    BY <1>1, <1>5, <1>9, <2>0
  <2>2. PICK b \in 1 .. Len(disk') + 1 :
          /\ Abs!StartsWith(b)' /\ b + bcprod' - 1 <= Len(disk')
          /\ \A w \in 1 .. NrWords :
               w * Word <= bcprod' =>
                 out'[w] = SubSeq(disk', b + (w - 1) * Word, b + w * Word - 1)
    BY <2>1 DEF DeliveredInv
  <2>3. Abs!StartsWith(b)
    BY <2>1, <2>2 DEF Abs!StartsWith, Abs!Ends, Abs!Marks
  <2> DEFINE x == m * Word
  <2>4. m \in 1 .. NrWords /\ x \in Nat /\ x >= Word /\ x <= bcprod'
    BY <1>2, <1>3, <1>7, WordEnds
  <2> HIDE DEF x
  <2>5. b \in 1 .. Len(disk) /\ b + x - 1 <= Len(disk)
    <3>1. /\ b \in Nat /\ b >= 1 /\ b + bcprod' - 1 <= Len(disk)
          /\ bcprod' \in Nat /\ Len(disk) \in Nat
      BY <1>1, <2>1, <2>2
    <3>2. Word >= 2 /\ Word \in Nat
      BY Widths
    <3>3. QED
      BY <2>4, <3>1, <3>2
  <2>6. \A w \in 1 .. m : Got'[w] = SubSeq(disk, b + (w - 1) * Word, b + w * Word - 1)
    BY <1>3, <2>1, <2>2
  <2>7. Got' = [w \in 1 .. m |-> SubSeq(disk, b + (w - 1) * Word, b + w * Word - 1)]
    <3>1. Got' = [w \in 1 .. m |-> Got'[w]]
      BY <1>3, LenProperties
    <3>2. QED
      BY <2>6, <3>1
  <2>8. QED
    BY <1>3, <2>3, <2>5, <2>7 DEF Abs!WordsFrom, x
<1>10. QED
  BY <1>1, <1>8, <1>9 DEF Abs!Deliver

\* The start of a read, and a reversal that passes.
LEMMA PrepBegins ==
  ASSUME NEW s \in {"none", "mfm", "fm"}, Prep(s)
  PROVE  Abs!Begin
<1>1. sync' \in {"none", "mfm", "fm"} /\ disk' = <<>> /\ lost' = FALSE /\ bcprod' = 0
  BY DEF Prep
<1>2. 0 \div Word = 0
  BY Widths
<1>3. Got' = <<>>
  BY <1>1, <1>2 DEF Got
<1>4. QED
  BY <1>1, <1>3 DEF Abs!Begin

LEMMA ReversalPasses ==
  ASSUME ReadInv, Reversal
  PROVE  Abs!Pass
<1>1. PICK t \in Intervals \cup Phases : Capture(t)
  BY DEF Reversal
<1> DEFINE bits == CellBits(Nominal(t))
<1>2. /\ disk' = disk \o bits /\ lost' \in {lost, TRUE}
      /\ UNCHANGED <<sync, seeking, bcprod, out>>
  BY <1>1 DEF Capture, reader, ReadInv, DiskInv, WordsInv
<1>3. t \in Nat
  BY CellAssumption
<1>4. bits \in Seq(Bits) /\ Len(bits) \in Nat /\ Len(bits) >= 1
  BY <1>3, NominalIs, CellBitsAre
<1> HIDE DEF bits
<1>5. disk \in Seq(Bits) /\ Len(disk) \in Nat
  BY WordsAre DEF ReadInv, DiskInv
<1>6. /\ disk' \in Seq(Bits) /\ Len(disk') = Len(disk) + Len(bits)
      /\ \A i \in 1 .. Len(disk) : disk'[i] = disk[i]
  BY <1>2, <1>4, <1>5, ConcatProperties
<1>7. Abs!Extends(disk, disk') /\ Len(disk') > Len(disk)
  BY <1>4, <1>5, <1>6, PrefixIs
<1>8. Got' = Got
  BY <1>2 DEF Got
<1>9. QED
  BY <1>2, <1>7, <1>8 DEF Abs!Pass

\* Every step of the read is a step of TrackRead or is not to be seen from outside: the
\* words of the buffer are the cells from the first mark on, each is delivered once it has
\* passed, in order, and none is ever taken back (the property ReadSpec).
THEOREM ImplementsTrackRead == Spec => ReadSpec
<1>1. Init => Abs!Init
  <2> SUFFICES ASSUME Init
               PROVE  Abs!Init
    OBVIOUS
  <2>1. 0 \div Word = 0
    BY Widths
  <2>2. Got = <<>>
    BY <2>1 DEF Init, Got
  <2>3. QED
    BY <2>2 DEF Init, Abs!Init
<1>2. ReadInv /\ ReadInv' /\ DeliveredInv' /\ [Next]_vars
        => [Abs!Next]_<<sync, disk, lost, Got>>
  <2> SUFFICES ASSUME ReadInv, ReadInv', DeliveredInv', [Next]_vars
               PROVE  [Abs!Next]_<<sync, disk, lost, Got>>
    OBVIOUS
  <2>1. CASE \E s \in {"none", "mfm", "fm"} : Prep(s)
    BY <2>1, PrepBegins DEF Abs!Next
  <2>2. CASE Reversal
    BY <2>2, ReversalPasses DEF Abs!Next
  <2>3. CASE TakeSync \/ TakeData
    <3>1. UNCHANGED <<sync, disk, lost>>
      BY <2>3 DEF TakeSync, TakeData, dma
    <3>2. CASE Got' = Got
      BY <3>1, <3>2
    <3>3. CASE Got' # Got
      BY <2>3, <3>3, TakeDelivers DEF Abs!Next
    <3>4. QED
      BY <3>2, <3>3
  <2>4. CASE StartTimer \/ Poll \/ Stop \/ UNCHANGED vars
    <3>1. UNCHANGED <<sync, disk, lost, seeking, bcprod, out>>
      BY <2>4 DEF StartTimer, Poll, Stop, reader, dma, vars
    <3>2. Got' = Got
      BY <3>1 DEF Got
    <3>3. QED
      BY <3>1, <3>2
  <2>5. QED
    BY <2>1, <2>2, <2>3, <2>4 DEF Next, Reader
<1>3. ReadInv => DeliveredInv
  BY Delivered
<1>4. QED
  BY <1>1, <1>2, <1>3, InductiveRead, PTL DEF Spec, ReadSpec, Abs!Spec

=============================================================================
