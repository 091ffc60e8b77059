------------------------------ MODULE FieldProofs ------------------------------
(***************************************************************************)
(* Proofs about Field and the codes, for buffers and contents of any size. *)
(***************************************************************************)
EXTENDS Field, WellFoundedInduction, TLAPS

(***************************************************************************)
(* The codes.                                                              *)
(***************************************************************************)
\* 0x4489 and the other named bytes are bytes.
LEMMA ByteOfIsByte == \A n \in Nat : ByteOf(n) \in Byte
<1> SUFFICES ASSUME NEW n \in Nat PROVE ByteOf(n) \in Byte  OBVIOUS
<1>1. \A i \in 1 .. 8 : Weight[i] \in Nat /\ Weight[i] > 0
  BY DEF Weight
<1>2. \A i \in 1 .. 8 : (n \div Weight[i]) % 2 \in {0, 1}
  <2> TAKE i \in 1 .. 8
  <2>1. n \div Weight[i] \in Int
    BY <1>1
  <2> QED BY <2>1
<1> QED BY <1>2 DEF ByteOf, Byte, Bit

\* Storing a word as two bytes and loading it again gives the word back.
LEMMA JoinSplit ==
  /\ \A h, l \in Byte : Join(h, l) \in Word
  /\ \A w \in Word : Hi(w) \in Byte /\ Lo(w) \in Byte /\ Join(Hi(w), Lo(w)) = w
BY DEF Join, Hi, Lo, Byte, Word, Bit

LEMMA CellsIsWord ==
  \A c, d \in Byte : Cells(c, d) \in Word /\ mfmtobin(Cells(c, d)) = d
<1> TAKE c, d \in Byte
<1>1. \A j \in 1 .. 16 : /\ j % 2 = 0 => j \div 2 \in 1 .. 8
                         /\ j % 2 # 0 => (j + 1) \div 2 \in 1 .. 8
  OBVIOUS
<1>2. Cells(c, d) \in Word
  BY <1>1 DEF Cells, Word, Byte
<1>3. \A i \in 1 .. 8 : (2 * i) % 2 = 0 /\ (2 * i) \div 2 = i /\ 2 * i \in 1 .. 16
  OBVIOUS
<1>4. mfmtobin(Cells(c, d)) = d
  BY <1>3 DEF mfmtobin, Cells, Byte
<1> QED BY <1>2, <1>4

\* Converting a byte and converting it back gives the byte back, whatever
\* byte came before it, in both codes.
THEOREM DecodeEncode ==
  \A f : \A b \in Byte, last \in Bit :
     Code(f, b, last) \in Word /\ mfmtobin(Code(f, b, last)) = b
<1> TAKE f
<1> TAKE b \in Byte, last \in Bit
<1> DEFINE clk == [i \in 1 .. 8 |-> IF b[i] = 0 /\ (i = 1 \/ b[i - 1] = 0)
                                    THEN 1 ELSE 0]
<1>1. clk \in Byte /\ [i \in 1 .. 8 |-> 1] \in Byte
  BY DEF Byte, Bit
<1>2. mfmtab(b) \in Word /\ mfmtobin(mfmtab(b)) = b
  BY <1>1, CellsIsWord DEF mfmtab
<1>3. Fm(b) \in Word /\ mfmtobin(Fm(b)) = b
  BY <1>1, CellsIsWord DEF Fm
<1>4. Mfm(b, last) \in Word /\ mfmtobin(Mfm(b, last)) = b
  BY <1>2 DEF Mfm, mfmtobin, Word, Bit
<1> QED BY <1>3, <1>4 DEF Code

(***************************************************************************)
(* The sums.  One bit more is a linear map of the register that maps nothing *)
(* but zero to zero; a byte more is eight of them, which is what the table *)
(* holds; the sum runs over the bytes.  With it go the registers that two  *)
(* runs over different bytes are in.                                       *)
(***************************************************************************)
\* Induction over the natural numbers, for a set of them.
LEMMA NatSetInduction ==
  ASSUME NEW S, 0 \in S, \A n \in Nat : n \in S => n + 1 \in S
  PROVE  Nat \subseteq S
<1> DEFINE T == {n \in Nat : n \notin S}
           R == OpToRel(<, Nat)
<1>1. SUFFICES ASSUME T # {} PROVE FALSE
  OBVIOUS
<1>2. \A a, b \in Nat : a < b => <<a, b>> \in R
  BY DEF OpToRel
<1>3. IsWellFoundedOn(R, Nat)
  BY NatLessThanWellFounded
<1> HIDE DEF R
<1>4. PICK z \in T : \A y \in T : ~ (<<y, z>> \in R)
  BY <1>1, <1>3, WFMin
<1>5. z # 0 /\ z \in Nat
  OBVIOUS
<1>6. z - 1 \in Nat /\ z - 1 < z
  BY <1>5
<1>7. <<z - 1, z>> \in R
  BY <1>2, <1>5, <1>6
<1>8. \A y \in T : y # z - 1
  BY <1>4, <1>7
<1>9. z - 1 \in S
  BY <1>6, <1>8
<1> QED
  BY <1>5, <1>6, <1>9

\* A function may be defined by recursion over 0 .. m.
LEMMA Recursion ==
  ASSUME NEW X, NEW a \in X, NEW m \in Nat, NEW h \in [1 .. m -> [X -> X]]
  PROVE  \E f \in [0 .. m -> X] :
           f[0] = a /\ \A n \in 1 .. m : f[n] = h[n][f[n - 1]]
<1> DEFINE Upto(f, n) == f[0] = a /\ \A i \in 1 .. n : f[i] = h[i][f[i - 1]]
           S == {n \in Nat : n <= m => \E f \in [0 .. n -> X] : Upto(f, n)}
<1>1. 0 \in S
  <2> DEFINE f == [i \in 0 .. 0 |-> a]
  <2>1. f \in [0 .. 0 -> X] /\ Upto(f, 0)
    OBVIOUS
  <2> QED
    BY <2>1
<1>2. ASSUME NEW n \in Nat, n \in S PROVE n + 1 \in S
  <2> SUFFICES ASSUME n + 1 <= m PROVE \E f \in [0 .. n + 1 -> X] : Upto(f, n + 1)
    OBVIOUS
  <2>1. PICK f \in [0 .. n -> X] : Upto(f, n)
    BY <1>2
  <2> DEFINE g == [i \in 0 .. n + 1 |-> IF i = n + 1 THEN h[n + 1][f[n]] ELSE f[i]]
  <2>2. g \in [0 .. n + 1 -> X]
    OBVIOUS
  <2>3. \A i \in 1 .. n + 1 : i \in 0 .. n + 1 /\ i - 1 \in 0 .. n /\ (i # n + 1 => i \in 0 .. n)
    OBVIOUS
  <2>4. Upto(g, n + 1)
    BY <2>1, <2>3
  <2> QED
    BY <2>2, <2>4
<1> HIDE DEF S
<1>3. m \in S
  BY <1>1, <1>2, NatSetInduction
<1> QED
  BY <1>3 DEF S

\* what the register can hold: its bits, by their weights
Sums == SUBSET (0 .. 15)

LEMMA ShiftFacts == /\ \A r \in Sums : Shift(r) \in Sums
                    /\ Shift({}) = {}
<1>1. ASSUME NEW r \in Sums PROVE Shift(r) \in Sums
  BY DEF Sums, Shift, Times, Plus
<1>2. Shift({}) = {}
  BY DEF Shift, Times, Plus
<1> QED
  BY <1>1, <1>2

\* Addition is associative and cancels, and shifting respects it.
LEMMA PlusFacts ==
  \A a, b, c : /\ Plus(a, b) = Plus(b, a)
               /\ Plus(a, Plus(b, c)) = Plus(Plus(a, b), c)
               /\ Plus(a, a) = {} /\ Plus(a, {}) = a
               /\ Plus(a, b) = {} => a = b
<1> TAKE a, b, c
<1>1. Plus(a, b) = Plus(b, a) /\ Plus(a, a) = {} /\ Plus(a, {}) = a
  BY DEF Plus
<1>2. Plus(a, Plus(b, c)) = Plus(Plus(a, b), c)
  BY DEF Plus
<1>3. Plus(a, b) = {} => a = b
  BY DEF Plus
<1> QED
  BY <1>1, <1>2, <1>3

LEMMA PlusPairs ==
  \A a, b, c, d : /\ Plus(Plus(a, b), Plus(a, c)) = Plus(b, c)
                  /\ Plus(Plus(b, a), Plus(c, a)) = Plus(b, c)
                  /\ Plus(Plus(a, b), Plus(c, d)) = Plus(Plus(a, c), Plus(b, d))
<1> TAKE a, b, c, d
<1>1. Plus(Plus(a, b), Plus(a, c)) = Plus(b, c)
  BY DEF Plus
<1>2. Plus(Plus(b, a), Plus(c, a)) = Plus(b, c)
  BY DEF Plus
<1>3. Plus(Plus(a, b), Plus(c, d)) = Plus(Plus(a, c), Plus(b, d))
  BY DEF Plus
<1> QED
  BY <1>1, <1>2, <1>3

LEMMA PlusInSums == \A a, b \in Sums : Plus(a, b) \in Sums
BY DEF Plus, Sums

LEMMA TimesMember ==
  \A a \in SUBSET Int, n \in Nat :
    Times(a, n) \in SUBSET Int /\ \A e \in Int : e \in Times(a, n) <=> e - n \in a
BY DEF Times

LEMMA TimesFacts ==
  ASSUME NEW a \in SUBSET Int, NEW b \in SUBSET Int, NEW n \in Nat
  PROVE  /\ Times(Plus(a, b), n) = Plus(Times(a, n), Times(b, n))
         /\ Times(a, n) = {} => a = {}
<1>1. ASSUME NEW c \in SUBSET Int PROVE \A e \in Int : e \in Times(c, n) <=> e - n \in c
  BY DEF Times
<1>2. Times(a, n) \subseteq Int /\ Times(b, n) \subseteq Int
  BY DEF Times
<1>3. Times(Plus(a, b), n) \subseteq Int /\ Plus(a, b) \in SUBSET Int
  BY DEF Times, Plus
<1>4. Times(Plus(a, b), n) = Plus(Times(a, n), Times(b, n))
  <2>1. \A e \in Int : e \in Times(Plus(a, b), n) <=> e \in Plus(Times(a, n), Times(b, n))
    BY <1>1, <1>3 DEF Plus
  <2>2. Plus(Times(a, n), Times(b, n)) \subseteq Int
    BY <1>2 DEF Plus
  <2> QED
    BY <1>3, <2>1, <2>2
<1>5. Times(a, n) = {} => a = {}
  BY DEF Times
<1> QED
  BY <1>4, <1>5

LEMMA TimesTwice ==
  ASSUME NEW a \in SUBSET Int, NEW m \in Nat, NEW n \in Nat
  PROVE  Times(Times(a, m), n) = Times(a, m + n)
<1>1. Times(a, m) \in SUBSET Int /\ \A e \in Int : e \in Times(a, m) <=> e - m \in a
  BY DEF Times
<1>2. \A e \in Int : e \in Times(Times(a, m), n) <=> (e - n) - m \in a
  <2> DEFINE t == Times(a, m)
  <2> HIDE DEF t
  <2>1. \A e \in Int : e \in Times(t, n) <=> e - n \in t
    BY <1>1, TimesMember DEF t
  <2>2. \A e \in Int : e - n \in Int /\ (e - n \in t <=> (e - n) - m \in a)
    BY <1>1 DEF t
  <2> QED
    BY <2>1, <2>2 DEF t
<1>3. \A e \in Int : e \in Times(a, m + n) <=> e - (m + n) \in a
  BY DEF Times
<1>4. \A e \in Int : (e - n) - m = e - (m + n)
  OBVIOUS
<1>5. Times(Times(a, m), n) \subseteq Int /\ Times(a, m + n) \subseteq Int
  BY <1>1 DEF Times
<1>6. \A e \in Int : e \in Times(Times(a, m), n) <=> e \in Times(a, m + n)
  BY <1>2, <1>3, <1>4
<1> QED
  BY <1>5, <1>6

\* A shift bit by bit, and then for sums: it is linear, and loses nothing.
LEMMA ShiftBits ==
  ASSUME NEW r \in Sums
  PROVE  /\ \A e \in 1 .. 15 : e \in Shift(r) <=> ((e - 1 \in r) # (15 \in r /\ e \in {5, 12}))
         /\ 0 \in Shift(r) <=> 15 \in r
<1>1. \A e \in 0 .. 16 : e \in Times(r \ {15}, 1) <=> e - 1 \in r /\ e # 16
  BY DEF Times, Sums
<1>2. 0 \in Times(r \ {15}, 1) <=> FALSE
  BY DEF Times, Sums
<1> QED
  BY <1>1, <1>2 DEF Shift, Plus

LEMMA ShiftLinear ==
  ASSUME NEW a \in Sums, NEW b \in Sums
  PROVE  /\ Shift(Plus(a, b)) = Plus(Shift(a), Shift(b))
         /\ Shift(a) = {} => a = {}
         /\ 15 \notin a => Shift(a) = Times(a, 1)
<1> DEFINE p == Plus(a, b)
<1>1. p \in Sums
  BY PlusInSums
<1>2. \A e \in 0 .. 15 : e \in p <=> ((e \in a) # (e \in b))
  BY DEF Plus
<1> HIDE DEF p
<1>3. Shift(p) = Plus(Shift(a), Shift(b))
  <2>1. \A e \in 0 .. 15 : e \in Plus(Shift(a), Shift(b)) <=> ((e \in Shift(a)) # (e \in Shift(b)))
    BY DEF Plus
  <2>2. ASSUME NEW e \in 1 .. 15 PROVE e \in Shift(p) <=> e \in Plus(Shift(a), Shift(b))
    <3>1. e - 1 \in 0 .. 15 /\ e \in 0 .. 15
      OBVIOUS
    <3> QED
      BY <1>1, <1>2, <2>1, <3>1, ShiftBits
  <2>3. 0 \in Shift(p) <=> 0 \in Plus(Shift(a), Shift(b))
    BY <1>1, <1>2, <2>1, ShiftBits
  <2>4. Shift(p) \subseteq 0 .. 15 /\ Plus(Shift(a), Shift(b)) \subseteq 0 .. 15
    BY <1>1, ShiftFacts, PlusInSums DEF Sums
  <2> QED
    BY <2>2, <2>3, <2>4
<1>4. ASSUME Shift(a) = {} PROVE a = {}
  <2>1. 15 \notin a
    BY <1>4, ShiftBits
  <2>2. \A e \in 1 .. 15 : e - 1 \notin a
    BY <1>4, <2>1, ShiftBits
  <2>3. \A e \in 0 .. 14 : e + 1 \in 1 .. 15 /\ (e + 1) - 1 = e
    OBVIOUS
  <2>4. \A e \in 0 .. 14 : e \notin a
    BY <2>2, <2>3
  <2> QED
    BY <2>1, <2>4 DEF Sums
<1>5. 15 \notin a => Shift(a) = Times(a, 1)
  BY DEF Shift, Plus
<1> QED
  BY <1>3, <1>4, <1>5 DEF p

\* two, four and eight shifts
Two(r) == Shift(Shift(r))
Four(r) == Two(Two(r))
Eight(r) == Four(Four(r))

LEMMA TwoFacts ==
  /\ \A a \in Sums : Two(a) \in Sums /\ (Two(a) = {} => a = {})
  /\ \A a, b \in Sums : Two(Plus(a, b)) = Plus(Two(a), Two(b))
  /\ \A a \in SUBSET (0 .. 13) : Two(a) = Times(a, 2)
<1>1. \A a \in Sums : Two(a) \in Sums /\ (Two(a) = {} => a = {})
  BY ShiftFacts, ShiftLinear DEF Two
<1>2. \A a, b \in Sums : Two(Plus(a, b)) = Plus(Two(a), Two(b))
  BY ShiftFacts, ShiftLinear DEF Two
<1>3. ASSUME NEW a \in SUBSET (0 .. 13) PROVE Two(a) = Times(a, 2)
  <2>1. a \in Sums /\ 15 \notin a /\ a \in SUBSET Int
    BY DEF Sums
  <2>2. Shift(a) = Times(a, 1)
    BY <2>1, ShiftLinear
  <2>3. Shift(a) \in Sums /\ 15 \notin Times(a, 1)
    BY <2>1, ShiftFacts DEF Times
  <2>4. Two(a) = Times(Times(a, 1), 1)
    BY <2>2, <2>3, ShiftLinear DEF Two
  <2>5. Times(Times(a, 1), 1) = Times(a, 1 + 1)
    BY <2>1, TimesTwice
  <2> QED
    BY <2>4, <2>5
<1> QED
  BY <1>1, <1>2, <1>3

LEMMA FourFacts ==
  /\ \A a \in Sums : Four(a) \in Sums /\ (Four(a) = {} => a = {})
  /\ \A a, b \in Sums : Four(Plus(a, b)) = Plus(Four(a), Four(b))
  /\ \A a \in SUBSET (0 .. 11) : Four(a) = Times(a, 4)
<1>1. \A a \in Sums : Four(a) \in Sums /\ (Four(a) = {} => a = {})
  BY TwoFacts DEF Four
<1>2. \A a, b \in Sums : Four(Plus(a, b)) = Plus(Four(a), Four(b))
  BY TwoFacts DEF Four
<1>3. ASSUME NEW a \in SUBSET (0 .. 11) PROVE Four(a) = Times(a, 4)
  <2>1. a \in SUBSET (0 .. 13) /\ a \in SUBSET Int
    OBVIOUS
  <2>2. Times(a, 2) \in SUBSET (0 .. 13)
    BY DEF Times
  <2>3. Times(Times(a, 2), 2) = Times(a, 2 + 2)
    BY <2>1, TimesTwice
  <2>4. Two(a) = Times(a, 2) /\ Two(Times(a, 2)) = Times(Times(a, 2), 2)
    BY <2>1, <2>2, TwoFacts
  <2> QED
    BY <2>3, <2>4 DEF Four
<1> QED
  BY <1>1, <1>2, <1>3

LEMMA EightFacts ==
  /\ \A a \in Sums : Eight(a) \in Sums /\ (Eight(a) = {} => a = {})
  /\ \A a, b \in Sums : Eight(Plus(a, b)) = Plus(Eight(a), Eight(b))
  /\ \A a \in SUBSET (0 .. 7) : Eight(a) = Times(a, 8)
<1>1. \A a \in Sums : Eight(a) \in Sums /\ (Eight(a) = {} => a = {})
  BY FourFacts DEF Eight
<1>2. \A a, b \in Sums : Eight(Plus(a, b)) = Plus(Eight(a), Eight(b))
  BY FourFacts DEF Eight
<1>3. ASSUME NEW a \in SUBSET (0 .. 7) PROVE Eight(a) = Times(a, 8)
  <2>1. a \in SUBSET (0 .. 11) /\ a \in SUBSET Int
    OBVIOUS
  <2>2. Times(a, 4) \in SUBSET (0 .. 11)
    BY DEF Times
  <2>3. Times(Times(a, 4), 4) = Times(a, 4 + 4)
    BY <2>1, TimesTwice
  <2>4. Four(a) = Times(a, 4) /\ Four(Times(a, 4)) = Times(Times(a, 4), 4)
    BY <2>1, <2>2, FourFacts
  <2> QED
    BY <2>3, <2>4 DEF Eight
<1> QED
  BY <1>1, <1>2, <1>3

\* What the table has of a byte comes from eight shifts.
LEMMA TableRun ==
  ASSUME NEW b \in SUBSET (0 .. 7)
  PROVE  \E s : /\ crc16tab[b] = s[8] /\ s[0] = Times(b, 8)
                /\ \A n \in 1 .. 8 : s[n] = Shift(s[n - 1])
<1> DEFINE Def(f) == f = [n \in 0 .. 8 |-> IF n = 0 THEN Times(b, 8) ELSE Shift(f[n - 1])]
           s == CHOOSE f : Def(f)
           a == Times(b, 8)
           h == [n \in 1 .. 8 |-> [r \in Sums |-> Shift(r)]]
<1>1. crc16tab[b] = s[8]
  BY DEF crc16tab
<1>2. a \in Sums
  BY DEF Sums, Times
<1>3. h \in [1 .. 8 -> [Sums -> Sums]]
  BY ShiftFacts
<1> HIDE DEF a
<1>4. \E f \in [0 .. 8 -> Sums] : f[0] = a /\ \A n \in 1 .. 8 : f[n] = h[n][f[n - 1]]
  <2> HIDE DEF h
  <2> DEFINE m == 8
  <2>1. m \in Nat /\ h \in [1 .. m -> [Sums -> Sums]] /\ a \in Sums
    BY <1>2, <1>3
  <2> HIDE DEF m
  <2>2. \E f \in [0 .. m -> Sums] : f[0] = a /\ \A n \in 1 .. m : f[n] = h[n][f[n - 1]]
    BY <2>1, Recursion, SMTT(30)
  <2> QED
    BY <2>2 DEF m
<1>5. PICK f \in [0 .. 8 -> Sums] : f[0] = a /\ \A n \in 1 .. 8 : f[n] = h[n][f[n - 1]]
  BY <1>4
<1>6. \A n \in 1 .. 8 : n - 1 \in 0 .. 8 /\ f[n] = Shift(f[n - 1])
  BY <1>5
<1>7. Def(f)
  BY <1>5, <1>6 DEF a
<1>8. Def(s)
  <2> HIDE DEF Def
  <2> QED
    BY <1>7
<1>9. s[0] = a /\ \A n \in 1 .. 8 : s[n] = Shift(s[n - 1])
  <2> HIDE DEF s
  <2>1. s = [n \in 0 .. 8 |-> IF n = 0 THEN a ELSE Shift(s[n - 1])]
    BY <1>8 DEF a
  <2> QED
    BY <2>1
<1> HIDE DEF s
<1> QED
  BY <1>1, <1>9 DEF a

\* What the table has of a byte is the byte shifted eight times.
LEMMA TableIsShifts == \A b \in SUBSET (0 .. 7) : crc16tab[b] = Eight(Times(b, 8))
<1> SUFFICES ASSUME NEW b \in SUBSET (0 .. 7) PROVE crc16tab[b] = Eight(Times(b, 8))
  OBVIOUS
<1>1. PICK s : /\ crc16tab[b] = s[8] /\ s[0] = Times(b, 8)
               /\ \A n \in 1 .. 8 : s[n] = Shift(s[n - 1])
  BY TableRun
<1>2. s[2] = Two(s[0]) /\ s[4] = Two(s[2]) /\ s[6] = Two(s[4]) /\ s[8] = Two(s[6])
  BY <1>1 DEF Two
<1> QED
  BY <1>1, <1>2 DEF Four, Eight

LEMMA TableFacts ==
  /\ \A b \in SUBSET (0 .. 7) : crc16tab[b] \in Sums
  /\ crc16tab[{}] = {}
<1>1. ASSUME NEW b \in SUBSET (0 .. 7) PROVE crc16tab[b] \in Sums
  <2>1. Times(b, 8) \in Sums
    BY DEF Times, Sums
  <2> QED
    BY <2>1, TableIsShifts, EightFacts
<1>2. crc16tab[{}] = {}
  <2>1. {} \in SUBSET (0 .. 7) /\ Times({}, 8) = {}
    BY DEF Times
  <2>2. crc16tab[{}] = Eight(Times({}, 8))
    BY <2>1, TableIsShifts
  <2>3. Eight({}) = Times({}, 8)
    BY <2>1, EightFacts
  <2> QED
    BY <2>1, <2>2, <2>3
<1> QED
  BY <1>1, <1>2

LEMMA PolyFacts ==
  ASSUME NEW r \in Sums, NEW z \in Byte
  PROVE  /\ Poly(z) \in SUBSET (0 .. 7) /\ Upper(r) \in SUBSET (0 .. 7)
         /\ AddByte(r, z) \in Sums
<1>1. Poly(z) \in SUBSET (0 .. 7) /\ Upper(r) \in SUBSET (0 .. 7)
  BY DEF Poly, Upper, Sums
<1>2. Plus(Upper(r), Poly(z)) \in SUBSET (0 .. 7)
  BY <1>1 DEF Plus
<1>3. Times(r \cap (0 .. 7), 8) \in Sums
  BY DEF Times, Sums
<1>4. AddByte(r, z) \in Sums
  <2>1. crc16tab[Plus(Upper(r), Poly(z))] \in Sums
    BY <1>2, TableFacts
  <2> QED
    BY <1>3, <2>1 DEF AddByte, Plus, Sums
<1> QED
  BY <1>1, <1>4

\* A byte more is the register and the byte in front of it, shifted eight times.
LEMMA AddByteIsShifts ==
  ASSUME NEW r \in Sums, NEW z \in Byte
  PROVE  /\ Plus(r, Times(Poly(z), 8)) \in Sums
         /\ AddByte(r, z) = Eight(Plus(r, Times(Poly(z), 8)))
<1> DEFINE p == Poly(z)
           u == Upper(r)
           l == r \cap (0 .. 7)
<1>1. p \in SUBSET (0 .. 7) /\ u \in SUBSET (0 .. 7) /\ l \in SUBSET (0 .. 7)
  BY PolyFacts
<1>2. r = Plus(l, Times(u, 8))
  <2>1. Times(u, 8) = r \ (0 .. 7)
    <3>1. \A e \in 8 .. 15 : e \in Times(u, 8) <=> e - 8 \in u
      BY <1>1 DEF Times
    <3>2. \A e \in 8 .. 15 : e - 8 \in u <=> e \in r
      BY DEF Upper, Sums
    <3>3. Times(u, 8) \subseteq 8 .. 15 /\ r \ (0 .. 7) \subseteq 8 .. 15
      BY <1>1 DEF Times, Sums
    <3> QED
      BY <3>1, <3>2, <3>3
  <2> QED
    BY <2>1 DEF Plus
<1> HIDE DEF p, u, l
<1>3. Times(u, 8) \in Sums /\ Times(p, 8) \in Sums /\ l \in Sums
  BY <1>1 DEF Times, Sums
<1>4. Plus(Times(u, 8), Times(p, 8)) = Times(Plus(u, p), 8)
  BY <1>1, TimesFacts
<1>5. Plus(r, Times(p, 8)) = Plus(l, Times(Plus(u, p), 8))
  BY <1>2, <1>4, PlusFacts
<1>6. Plus(u, p) \in SUBSET (0 .. 7) /\ Times(Plus(u, p), 8) \in Sums
  <2>1. Plus(u, p) \in SUBSET (0 .. 7)
    BY <1>1 DEF Plus
  <2> QED
    BY <2>1 DEF Times, Sums
<1>7. Eight(Plus(l, Times(Plus(u, p), 8))) = Plus(Times(l, 8), crc16tab[Plus(u, p)])
  <2>1. Eight(Plus(l, Times(Plus(u, p), 8))) = Plus(Eight(l), Eight(Times(Plus(u, p), 8)))
    BY <1>3, <1>6, EightFacts
  <2>2. Eight(l) = Times(l, 8)
    BY <1>1, EightFacts
  <2>3. crc16tab[Plus(u, p)] = Eight(Times(Plus(u, p), 8))
    BY <1>6, TableIsShifts
  <2> QED
    BY <2>1, <2>2, <2>3
<1>8. AddByte(r, z) = Plus(crc16tab[Plus(u, p)], Times(l, 8))
  BY DEF AddByte, u, p, l
<1>9. Plus(r, Times(p, 8)) \in Sums
  BY <1>3, PlusInSums
<1> QED
  BY <1>5, <1>7, <1>8, <1>9, PlusFacts DEF p

\* No two registers become the same.
LEMMA AddByteKeepsApart ==
  ASSUME NEW r \in Sums, NEW q \in Sums, NEW z \in Byte, AddByte(r, z) = AddByte(q, z)
  PROVE  r = q
<1> DEFINE p == Times(Poly(z), 8)
           a == Plus(r, p)
           b == Plus(q, p)
<1>1. a \in Sums /\ b \in Sums /\ Eight(a) = Eight(b)
  BY AddByteIsShifts
<1>2. Plus(a, b) = Plus(r, q)
  BY PlusPairs
<1> HIDE DEF a, b
<1>3. Eight(Plus(a, b)) = {} /\ Plus(a, b) \in Sums
  BY <1>1, EightFacts, PlusFacts, PlusInSums
<1>4. Plus(a, b) = {}
  BY <1>3, EightFacts
<1> QED
  BY <1>2, <1>4, PlusFacts

\* A byte is known by its polynomial.
LEMMA PolyIsOne == \A z, y \in Byte : Poly(z) = Poly(y) => z = y
<1> SUFFICES ASSUME NEW z \in Byte, NEW y \in Byte, Poly(z) = Poly(y) PROVE z = y
  OBVIOUS
<1>1. \A c \in Byte, i \in 1 .. 8 : 8 - i \in Poly(c) <=> c[i] = 1
  BY DEF Poly
<1>2. \A i \in 1 .. 8 : z[i] = y[i]
  BY <1>1 DEF Byte, Bit
<1> QED
  BY <1>2 DEF Byte

\* Two bytes leave 2^16 registers of one.
LEMMA TwoBytesKeepApart ==
  ASSUME NEW r \in Sums, NEW z \in Byte, NEW y \in Byte, NEW v \in Byte, NEW w \in Byte,
         AddByte(AddByte(r, z), y) = AddByte(AddByte(r, v), w)
  PROVE  z = v /\ y = w
<1> DEFINE px == Poly(z)
           py == Poly(y)
           pv == Poly(v)
           pw == Poly(w)
           a == AddByte(r, z)
           b == AddByte(r, v)
           d == Plus(px, pv)
           e == Plus(py, pw)
<1>1. /\ px \in SUBSET (0 .. 7) /\ py \in SUBSET (0 .. 7)
      /\ pv \in SUBSET (0 .. 7) /\ pw \in SUBSET (0 .. 7)
      /\ a \in Sums /\ b \in Sums
  BY PolyFacts
<1>2. /\ Plus(r, Times(px, 8)) \in Sums /\ a = Eight(Plus(r, Times(px, 8)))
      /\ Plus(r, Times(pv, 8)) \in Sums /\ b = Eight(Plus(r, Times(pv, 8)))
  BY AddByteIsShifts
<1>3. /\ Plus(a, Times(py, 8)) \in Sums /\ AddByte(a, y) = Eight(Plus(a, Times(py, 8)))
      /\ Plus(b, Times(pw, 8)) \in Sums /\ AddByte(b, w) = Eight(Plus(b, Times(pw, 8)))
  BY <1>1, AddByteIsShifts
<1>4. AddByte(a, y) = AddByte(b, w)
  OBVIOUS
<1> HIDE DEF px, py, pv, pw, a, b
<1>5. d \in SUBSET (0 .. 7) /\ e \in SUBSET (0 .. 7) /\ d \in SUBSET Int /\ e \in SUBSET Int
  BY <1>1 DEF Plus
<1>6. /\ Plus(Times(px, 8), Times(pv, 8)) = Times(d, 8)
      /\ Plus(Times(py, 8), Times(pw, 8)) = Times(e, 8)
  BY <1>1, TimesFacts
<1>7. Plus(a, b) = Eight(Times(d, 8)) /\ Times(d, 8) \in Sums
  <2>1. Plus(Plus(r, Times(px, 8)), Plus(r, Times(pv, 8))) = Times(d, 8)
    BY <1>6, PlusPairs
  <2> QED
    BY <1>2, <2>1, EightFacts, PlusInSums
<1> HIDE DEF d, e
<1>8. Plus(Plus(a, Times(py, 8)), Plus(b, Times(pw, 8))) = {}
  <2> DEFINE f == Plus(a, Times(py, 8))
             g == Plus(b, Times(pw, 8))
  <2>1. f \in Sums /\ g \in Sums /\ Eight(f) = Eight(g)
    BY <1>3, <1>4
  <2> HIDE DEF f, g
  <2>2. Eight(Plus(f, g)) = {} /\ Plus(f, g) \in Sums
    BY <2>1, EightFacts, PlusFacts, PlusInSums
  <2>3. Plus(f, g) = {}
    BY <2>2, EightFacts
  <2> QED
    BY <2>3 DEF f, g
<1>9. Plus(Plus(a, b), Times(e, 8)) = {}
  BY <1>6, <1>8, PlusPairs
<1>10. Eight(Times(d, 8)) = Eight(e)
  <2>1. Plus(a, b) = Times(e, 8)
    BY <1>9, PlusFacts
  <2>2. Eight(e) = Times(e, 8)
    BY <1>5, EightFacts
  <2> QED
    BY <1>7, <2>1, <2>2
<1>11. e \in Sums
  BY <1>5 DEF Sums
<1>12. Plus(Times(d, 8), e) = {}
  <2> DEFINE g == Times(d, 8)
  <2> HIDE DEF g
  <2>1. g \in Sums /\ Eight(g) = Eight(e)
    BY <1>7, <1>10 DEF g
  <2>2. Plus(g, e) \in Sums /\ Eight(Plus(g, e)) = Plus(Eight(g), Eight(e))
    BY <1>11, <2>1, EightFacts, PlusInSums
  <2>3. Eight(Plus(g, e)) = {}
    BY <2>1, <2>2, PlusFacts
  <2>4. Plus(g, e) = {}
    BY <2>2, <2>3, EightFacts
  <2> QED
    BY <2>4 DEF g
<1>13. Times(d, 8) = e
  BY <1>12, PlusFacts
<1>14. \A i \in Times(d, 8) : i \notin 0 .. 7
  BY <1>5 DEF Times
<1>15. Times(d, 8) = {} /\ e = {}
  BY <1>5, <1>13, <1>14
<1>16. d = {}
  BY <1>5, <1>15, TimesFacts
<1>17. px = pv /\ py = pw
  BY <1>15, <1>16, PlusFacts DEF d, e
<1> QED
  BY <1>17, PolyIsOne DEF px, py, pv, pw

\* The register after each byte.
Registers(s, c) == c[0] = 0 .. 15 /\ \A n \in 1 .. Len(s) : c[n] = AddByte(c[n - 1], s[n])

\* The recursion that the sum is defined by has these registers.
LEMMA CrcFacts ==
  ASSUME NEW s \in Seq(Byte)
  PROVE  \E c \in [0 .. Len(s) -> Sums] : Registers(s, c) /\ crc16_ccitt(s) = c[Len(s)]
<1> DEFINE m == Len(s)
           a == 0 .. 15
           h == [n \in 1 .. m |-> [r \in Sums |-> AddByte(r, s[n])]]
           Def(f) == f = [n \in 0 .. m |-> IF n = 0 THEN 0 .. 15 ELSE AddByte(f[n - 1], s[n])]
           c == CHOOSE f : Def(f)
<1>1. crc16_ccitt(s) = c[m]
  BY DEF crc16_ccitt
<1>2. m \in Nat /\ \A n \in 1 .. m : s[n] \in Byte
  OBVIOUS
<1>3. a \in Sums
  BY DEF Sums
<1> HIDE DEF m
<1>4. h \in [1 .. m -> [Sums -> Sums]]
  BY <1>2, PolyFacts
<1> HIDE DEF a, h, c, Def
<1>5. PICK f \in [0 .. m -> Sums] : f[0] = a /\ \A n \in 1 .. m : f[n] = h[n][f[n - 1]]
  <2>1. m \in Nat
    BY <1>2
  <2>2. \E f \in [0 .. m -> Sums] : f[0] = a /\ \A n \in 1 .. m : f[n] = h[n][f[n - 1]]
    BY <1>3, <1>4, <2>1, Recursion
  <2> QED
    BY <2>2
<1>6. \A n \in 1 .. m : n - 1 \in 0 .. m /\ f[n] = AddByte(f[n - 1], s[n])
  <2> TAKE n \in 1 .. m
  <2>1. n - 1 \in 0 .. m
    BY <1>2
  <2>2. f[n - 1] \in Sums
    BY <1>5, <2>1
  <2>3. h[n][f[n - 1]] = AddByte(f[n - 1], s[n])
    BY <2>2 DEF h
  <2> QED
    BY <1>5, <2>1, <2>3
<1>7. f = [n \in 0 .. m |-> IF n = 0 THEN a ELSE AddByte(f[n - 1], s[n])]
  BY <1>2, <1>5, <1>6
<1>8. Def(f)
  BY <1>7 DEF a, Def
<1>9. Def(c)
  BY <1>8 DEF c
<1>10. c = [n \in 0 .. m |-> IF n = 0 THEN a ELSE AddByte(c[n - 1], s[n])]
  BY <1>9 DEF a, Def
<1>11. c[0] = a /\ \A n \in 1 .. m : c[n] = AddByte(c[n - 1], s[n])
  BY <1>2, <1>10
<1> DEFINE S == {n \in Nat : n <= m => c[n] \in Sums}
<1>12. 0 \in S
  BY <1>3, <1>11
<1>13. ASSUME NEW n \in Nat, n \in S PROVE n + 1 \in S
  <2> SUFFICES ASSUME n + 1 <= m PROVE c[n + 1] \in Sums
    OBVIOUS
  <2>1. n + 1 \in 1 .. m /\ (n + 1) - 1 = n /\ c[n] \in Sums
    BY <1>2, <1>13
  <2>2. c[n + 1] = AddByte(c[n], s[n + 1]) /\ s[n + 1] \in Byte
    BY <1>2, <1>11, <2>1
  <2> QED
    BY <2>1, <2>2, PolyFacts
<1> HIDE DEF S
<1>14. Nat \subseteq S
  BY <1>12, <1>13, NatSetInduction
<1>15. \A n \in 0 .. m : c[n] \in Sums
  BY <1>2, <1>14 DEF S
<1>16. c \in [0 .. m -> Sums]
  BY <1>10, <1>15
<1> QED
  BY <1>1, <1>11, <1>16 DEF m, a, Registers

\* Two bytes more are added to the register.
LEMMA CrcMore ==
  ASSUME NEW s \in Seq(Byte), NEW z \in Byte, NEW y \in Byte
  PROVE  /\ crc16_ccitt(s) \in Sums
         /\ crc16_ccitt(s \o <<z, y>>) = AddByte(AddByte(crc16_ccitt(s), z), y)
<1> DEFINE t == s \o <<z, y>>
           m == Len(s)
<1>1. /\ t \in Seq(Byte) /\ Len(t) = m + 2 /\ m \in Nat
      /\ \A n \in 1 .. m : t[n] = s[n]
      /\ t[m + 1] = z /\ t[m + 2] = y
  OBVIOUS
<1>2. PICK c \in [0 .. m -> Sums] : Registers(s, c) /\ crc16_ccitt(s) = c[m]
  BY CrcFacts
<1> HIDE DEF t
<1>3. PICK d \in [0 .. Len(t) -> Sums] : Registers(t, d) /\ crc16_ccitt(t) = d[Len(t)]
  BY <1>1, CrcFacts
<1> HIDE DEF m
<1> DEFINE S == {n \in Nat : n <= m => c[n] = d[n]}
<1>4. 0 \in S
  BY <1>2, <1>3 DEF Registers
<1>5. ASSUME NEW n \in Nat, n \in S PROVE n + 1 \in S
  <2> SUFFICES ASSUME n + 1 <= m PROVE c[n + 1] = d[n + 1]
    OBVIOUS
  <2>1. c[n + 1] = AddByte(c[n], s[n + 1])
    BY <1>1, <1>2 DEF Registers, m
  <2>2. d[n + 1] = AddByte(d[n], t[n + 1])
    BY <1>1, <1>3 DEF Registers
  <2> QED
    BY <1>1, <1>5, <2>1, <2>2
<1> HIDE DEF S
<1>6. Nat \subseteq S
  BY <1>4, <1>5, NatSetInduction
<1>7. c[m] = d[m]
  BY <1>1, <1>6 DEF S
<1>8. d[m + 1] = AddByte(d[m], z) /\ d[m + 2] = AddByte(d[m + 1], y)
  <2>1. m + 1 \in 1 .. Len(t) /\ m + 2 \in 1 .. Len(t) /\ (m + 1) - 1 = m /\ (m + 2) - 1 = m + 1
    BY <1>1
  <2> QED
    BY <1>1, <1>3, <2>1 DEF Registers
<1>9. crc16_ccitt(s) \in Sums
  BY <1>1, <1>2
<1> QED
  BY <1>1, <1>2, <1>3, <1>7, <1>8, <1>9 DEF t

LEMMA ByteExists == [i \in 1 .. 8 |-> 0] \in Byte
BY DEF Byte, Bit

\* The sum over bytes and their sum is zero, which is what read_sector() takes
\* for a right sum.
THEOREM SumOfSum ==
  \A s \in Seq(Byte) : crc16_ccitt(s \o BytesOf(crc16_ccitt(s))) = {}
<1> SUFFICES ASSUME NEW s \in Seq(Byte)
             PROVE  crc16_ccitt(s \o BytesOf(crc16_ccitt(s))) = {}
  OBVIOUS
<1> DEFINE r == crc16_ccitt(s)
           z == BytesOf(r)[1]
           y == BytesOf(r)[2]
           q == Times(r \cap (0 .. 7), 8)
<1>1. r \in Sums
  BY CrcMore, ByteExists
<1> HIDE DEF r
<1>2. z \in Byte /\ y \in Byte /\ BytesOf(r) = <<z, y>>
  BY DEF BytesOf, Byte, Bit
<1>3. Poly(z) = Upper(r)
  <2>1. \A i \in 1 .. 8 : z[i] = 1 <=> 16 - i \in r
    BY DEF BytesOf
  <2>2. \A p \in 0 .. 7 : p \in Poly(z) <=> 8 + p \in r
    <3> TAKE p \in 0 .. 7
    <3>1. p \in Poly(z) <=> z[8 - p] = 1
      BY DEF Poly
    <3>2. 8 - p \in 1 .. 8 /\ 16 - (8 - p) = 8 + p
      OBVIOUS
    <3> QED
      BY <2>1, <3>1, <3>2
  <2>3. \A p \in 0 .. 7 : p \in Upper(r) <=> 8 + p \in r
    BY <1>1 DEF Upper, Sums
  <2>4. Poly(z) \subseteq 0 .. 7 /\ Upper(r) \subseteq 0 .. 7
    BY <1>1, <1>2, PolyFacts
  <2> QED
    BY <2>2, <2>3, <2>4
<1>4. AddByte(r, z) = q
  <2>1. Plus(Upper(r), Poly(z)) = {}
    BY <1>3 DEF Plus
  <2>2. crc16tab[{}] = {}
    BY TableFacts
  <2> QED
    BY <2>1, <2>2 DEF AddByte, Plus
<1>5. AddByte(q, y) = {}
  <2>1. \A i \in 1 .. 8 : y[i] = 1 <=> 8 - i \in r
    BY DEF BytesOf
  <2>2. Upper(q) = r \cap (0 .. 7)
    <3>1. \A e : e \in q \ (0 .. 7) <=> e \in q
      BY DEF Times
    <3>2. \A e : e \in Upper(q) <=> \E i \in r \cap (0 .. 7) : e = (i + 8) - 8
      BY <3>1 DEF Upper, Times
    <3> DEFINE l == r \cap (0 .. 7)
    <3>3. \A i \in l : (i + 8) - 8 = i
      OBVIOUS
    <3>4. \A e : e \in Upper(q) <=> \E i \in l : e = (i + 8) - 8
      BY <3>2
    <3> HIDE DEF l, q
    <3>5. ASSUME NEW e \in Upper(q) PROVE e \in l
      <4>1. PICK i \in l : e = (i + 8) - 8
        BY <3>4
      <4> QED
        BY <3>3, <4>1
    <3>6. ASSUME NEW e \in l PROVE e \in Upper(q)
      BY <3>3, <3>4
    <3>7. Upper(q) = l
      BY <3>5, <3>6
    <3> QED
      BY <3>7 DEF l
  <2>3. Poly(y) = r \cap (0 .. 7)
    BY <1>1, <2>1 DEF Poly, Sums
  <2>4. Plus(Upper(q), Poly(y)) = {}
    BY <2>2, <2>3 DEF Plus
  <2>5. q \cap (0 .. 7) = {}
    BY DEF Times
  <2>6. Times({}, 8) = {}
    BY DEF Times
  <2>7. crc16tab[{}] = {}
    BY TableFacts
  <2> QED
    BY <2>4, <2>5, <2>6, <2>7 DEF AddByte, Plus
<1>6. crc16_ccitt(s \o <<z, y>>) = AddByte(AddByte(r, z), y)
  BY <1>2, CrcMore DEF r
<1> QED
  BY <1>2, <1>4, <1>5, <1>6 DEF r

\* The sum tells apart what differs in two neighbouring bytes at most.
THEOREM SumTellsBursts ==
  ASSUME NEW s \in Seq(Byte), NEW t \in Seq(Byte), Len(s) = Len(t),
         NEW j \in 1 .. Len(s) - 1,
         \A i \in 1 .. Len(s) : i \notin {j, j + 1} => s[i] = t[i],
         crc16_ccitt(s) = crc16_ccitt(t)
  PROVE  s = t
<1> DEFINE m == Len(s)
<1>1. /\ m \in Nat /\ j \in Nat /\ j >= 1 /\ j + 1 <= m
      /\ \A n \in 1 .. m : s[n] \in Byte /\ t[n] \in Byte
  OBVIOUS
<1>2. PICK c \in [0 .. m -> Sums] : Registers(s, c) /\ crc16_ccitt(s) = c[m]
  BY CrcFacts
<1>3. PICK d \in [0 .. m -> Sums] : Registers(t, d) /\ crc16_ccitt(t) = d[m]
  BY CrcFacts
<1>4. \A n \in 1 .. m : c[n] = AddByte(c[n - 1], s[n]) /\ d[n] = AddByte(d[n - 1], t[n])
  BY <1>2, <1>3 DEF Registers
<1>5. c[0] = d[0] /\ c[m] = d[m]
  BY <1>2, <1>3 DEF Registers
<1> HIDE DEF m
<1> DEFINE S == {n \in Nat : n < j => c[n] = d[n]}
<1>6. 0 \in S
  BY <1>5
<1>7. ASSUME NEW n \in Nat, n \in S PROVE n + 1 \in S
  <2> SUFFICES ASSUME n + 1 < j PROVE c[n + 1] = d[n + 1]
    OBVIOUS
  <2>1. n + 1 \in 1 .. m /\ n + 1 \notin {j, j + 1} /\ (n + 1) - 1 = n /\ c[n] = d[n]
    BY <1>1, <1>7
  <2>2. s[n + 1] = t[n + 1]
    BY <2>1 DEF m
  <2> QED
    BY <1>4, <2>1, <2>2
<1> HIDE DEF S
<1>8. Nat \subseteq S
  BY <1>6, <1>7, NatSetInduction
<1>9. c[j - 1] = d[j - 1]
  BY <1>1, <1>8 DEF S
\* From the burst on, equal registers were equal before.
<1> DEFINE Q == {n \in Nat : n >= j + 1 /\ n <= m /\ c[n] = d[n] => c[j + 1] = d[j + 1]}
<1>10. 0 \in Q
  BY <1>1
<1>11. ASSUME NEW n \in Nat, n \in Q PROVE n + 1 \in Q
  <2> SUFFICES ASSUME n + 1 >= j + 1, n + 1 <= m, c[n + 1] = d[n + 1]
               PROVE  c[j + 1] = d[j + 1]
    OBVIOUS
  <2>1. CASE n = j
    BY <2>1
  <2>2. CASE n # j
    <3>1. n + 1 \in 1 .. m /\ n \in 0 .. m /\ n + 1 \notin {j, j + 1} /\ (n + 1) - 1 = n
          /\ n >= j + 1 /\ n <= m
      BY <1>1, <2>2
    <3>2. s[n + 1] = t[n + 1] /\ s[n + 1] \in Byte /\ c[n] \in Sums /\ d[n] \in Sums
      BY <1>1, <1>2, <1>3, <3>1 DEF m
    <3>3. AddByte(c[n], s[n + 1]) = AddByte(d[n], s[n + 1])
      BY <1>4, <3>1, <3>2
    <3>4. c[n] = d[n]
      BY <3>2, <3>3, AddByteKeepsApart
    <3> QED
      BY <1>11, <3>1, <3>4
  <2> QED
    BY <2>1, <2>2
<1> HIDE DEF Q
<1>12. Nat \subseteq Q
  BY <1>10, <1>11, NatSetInduction
<1>13. c[j + 1] = d[j + 1]
  BY <1>1, <1>5, <1>12 DEF Q
<1>14. s[j] = t[j] /\ s[j + 1] = t[j + 1]
  <2>1. /\ j \in 1 .. m /\ j + 1 \in 1 .. m /\ (j + 1) - 1 = j /\ j - 1 \in 0 .. m
    BY <1>1
  <2>2. /\ c[j] = AddByte(c[j - 1], s[j]) /\ d[j] = AddByte(c[j - 1], t[j])
        /\ c[j + 1] = AddByte(c[j], s[j + 1]) /\ d[j + 1] = AddByte(d[j], t[j + 1])
    BY <1>4, <1>9, <2>1
  <2>3. /\ s[j] \in Byte /\ t[j] \in Byte /\ s[j + 1] \in Byte /\ t[j + 1] \in Byte
        /\ c[j - 1] \in Sums
    BY <1>1, <1>2, <2>1
  <2>4. AddByte(AddByte(c[j - 1], s[j]), s[j + 1]) = AddByte(AddByte(c[j - 1], t[j]), t[j + 1])
    BY <1>13, <2>2
  <2> QED
    BY <2>3, <2>4, TwoBytesKeepApart
<1>15. \A i \in 1 .. m : s[i] = t[i]
  BY <1>14 DEF m
<1> QED
  BY <1>15 DEF m

(***************************************************************************)
(* Layout.                                                                 *)
(***************************************************************************)
LEMMA SizeFacts ==
  \A f : /\ Pad(f) \in Nat /\ Len(Mark(f)) \in Nat
         /\ NrWords(f) \in Nat /\ NrWords(f) > GapSync
         /\ FieldLen(f) \in Nat /\ FieldLen(f) <= NrWords(f)
         /\ f = "mfm" => NrWords(f) > GapSync + 3
<1> TAKE f
<1>1. Len(Mark(f)) = IF f = "mfm" THEN 4 ELSE 1
  BY DEF Mark, Rep
<1> QED BY <1>1, LayoutAssumption DEF Pad, NrWords, FieldLen

LEMMA Concatenation ==
  ASSUME NEW u \in Seq(Byte), NEW v \in Seq(Byte)
  PROVE  /\ u \o v \in Seq(Byte) /\ Len(u \o v) = Len(u) + Len(v)
         /\ \A k \in 1 .. Len(u) : (u \o v)[k] = u[k]
         /\ \A k \in 1 .. Len(v) : (u \o v)[Len(u) + k] = v[k]
OBVIOUS

LEMMA LaidIsBytes ==
  \A f : \A d \in [1 .. DataLen -> Byte] :
    /\ Laid(f, d) \in [1 .. NrWords(f) -> Byte]
    /\ \A k \in 1 .. GapSync : Laid(f, d)[k] = Zero
    /\ \A k \in 1 .. Len(Mark(f)) : Laid(f, d)[GapSync + k] = Mark(f)[k]
<1> TAKE f
<1> TAKE d \in [1 .. DataLen -> Byte]
<1> DEFINE body == Mark(f) \o d
           crc  == BytesOf(crc16_ccitt(body))
           fill == Rep(Gap3 + Pad(f), ByteOf(IF f = "mfm" THEN 78 ELSE 255))
           gap  == Rep(GapSync, Zero)
<1>0. GapSync \in Nat /\ GapSync >= 2 /\ Gap3 \in Nat /\ DataLen \in Nat
  BY LayoutAssumption
<1>1. \A n \in Nat, b \in Byte : Rep(n, b) \in Seq(Byte) /\ Len(Rep(n, b)) = n
  BY DEF Rep
<1>2. Zero \in Byte /\ ByteOf(161) \in Byte /\ ByteOf(251) \in Byte
      /\ ByteOf(78) \in Byte /\ ByteOf(255) \in Byte
  BY ByteOfIsByte DEF Zero
<1>3. Mark(f) \in Seq(Byte) /\ Len(Mark(f)) = IF f = "mfm" THEN 4 ELSE 1
  BY <1>2 DEF Mark, Rep
<1>4. d \in Seq(Byte) /\ Len(d) = DataLen
  BY <1>0
<1>5. crc \in Seq(Byte) /\ Len(crc) = 2
  <2> DEFINE r == crc16_ccitt(body)
  <2> HIDE DEF r
  <2>1. BytesOf(r)[1] \in Byte /\ BytesOf(r)[2] \in Byte
    BY DEF BytesOf, Byte, Bit
  <2>2. BytesOf(r) \in Seq(Byte) /\ Len(BytesOf(r)) = 2
    BY <2>1 DEF BytesOf
  <2> QED BY <2>2 DEF r
<1>6. gap \in Seq(Byte) /\ Len(gap) = GapSync /\ \A k \in 1 .. GapSync : gap[k] = Zero
  BY <1>0, <1>1, <1>2 DEF Rep
<1>7. fill \in Seq(Byte) /\ Len(fill) = Gap3 + Pad(f)
  <2>1. Gap3 + Pad(f) \in Nat
    BY <1>0, SizeFacts
  <2> QED BY <2>1, <1>1, <1>2, ZenonT(60)
<1>8. Laid(f, d) = ((gap \o body) \o crc) \o fill
  BY DEF Laid
<1> HIDE DEF crc, gap, fill
<1>9. /\ body \in Seq(Byte) /\ Len(body) = Len(Mark(f)) + DataLen
      /\ \A k \in 1 .. Len(Mark(f)) : body[k] = Mark(f)[k]
  BY <1>3, <1>4, Concatenation
<1> HIDE DEF body
<1>10. /\ gap \o body \in Seq(Byte) /\ Len(gap \o body) = GapSync + Len(body)
       /\ \A k \in 1 .. GapSync : (gap \o body)[k] = Zero
       /\ \A k \in 1 .. Len(body) : (gap \o body)[GapSync + k] = body[k]
  BY <1>6, <1>9, Concatenation
<1> DEFINE t == gap \o body
<1> HIDE DEF t
<1>11. t \o crc \in Seq(Byte) /\ Len(t \o crc) = Len(t) + 2
       /\ \A k \in 1 .. Len(t) : (t \o crc)[k] = t[k]
  <2>1. t \in Seq(Byte) /\ crc \in Seq(Byte)
    BY <1>5, <1>10 DEF t
  <2>2. Len(t \o crc) = Len(t) + Len(crc) /\ t \o crc \in Seq(Byte)
        /\ \A k \in 1 .. Len(t) : (t \o crc)[k] = t[k]
    BY <2>1, Concatenation
  <2> QED BY <2>2, <1>5
<1> DEFINE r == t \o crc
<1> HIDE DEF r
<1>r. r \in Seq(Byte) /\ Len(r) = Len(t) + 2 /\ \A k \in 1 .. Len(t) : r[k] = t[k]
  BY <1>11 DEF r
<1>t. t \in Seq(Byte) /\ Len(t) = GapSync + Len(body)
  BY <1>10 DEF t
<1>12. r \o fill \in Seq(Byte) /\ Len(r \o fill) = Len(r) + Len(fill)
       /\ \A k \in 1 .. Len(r) : (r \o fill)[k] = r[k]
  <2>1. r \in Seq(Byte) /\ fill \in Seq(Byte)
    BY <1>7, <1>r
  <2> QED BY <2>1, Concatenation
<1>13. Len(t) \in Nat /\ Len(r) \in Nat
       /\ Len(t) = GapSync + (Len(Mark(f)) + DataLen) /\ Len(r) = Len(t) + 2
  BY <1>9, <1>r, <1>t
<1>14. Len(r \o fill) = NrWords(f)
  <2>1. Len(r \o fill) = GapSync + (Len(Mark(f)) + DataLen) + 2 + (Gap3 + Pad(f))
    BY <1>7, <1>12, <1>13
  <2>2. Len(Mark(f)) \in Nat /\ Pad(f) \in Nat
    BY SizeFacts
  <2> QED BY <2>1, <2>2, <1>0 DEF NrWords
<1>15. Laid(f, d) = r \o fill
  BY <1>8 DEF r, t
<1>16. Laid(f, d) \in [1 .. NrWords(f) -> Byte]
  <2>1. Laid(f, d) \in Seq(Byte) /\ Len(Laid(f, d)) = NrWords(f)
    BY <1>12, <1>14, <1>15
  <2> QED BY <2>1
<1>17. ASSUME NEW k \in 1 .. Len(t) PROVE Laid(f, d)[k] = t[k]
  <2>1. k \in 1 .. Len(r)
    BY <1>13
  <2> QED BY <2>1, <1>r, <1>12, <1>15
<1>18. ASSUME NEW k \in 1 .. GapSync PROVE Laid(f, d)[k] = Zero
  <2>1. Len(Mark(f)) \in Nat
    BY SizeFacts
  <2>2. k \in 1 .. Len(t)
    BY <2>1, <1>0, <1>13
  <2>3. Laid(f, d)[k] = t[k]
    BY <2>2, <1>17
  <2>4. t[k] = Zero
    BY <1>10 DEF t
  <2> QED BY <2>3, <2>4
<1>19. ASSUME NEW k \in 1 .. Len(Mark(f)) PROVE Laid(f, d)[GapSync + k] = Mark(f)[k]
  <2>1. GapSync + k \in 1 .. Len(t) /\ k \in 1 .. Len(body)
    BY <1>0, <1>3, <1>9, <1>13
  <2> QED BY <2>1, <1>9, <1>10, <1>17 DEF t
<1> QED BY <1>16, <1>18, <1>19

(***************************************************************************)
(* The invariant.  What InPlace leaves open is where x comes from: it is   *)
(* the byte below the words that are done, read before they grow over it.  *)
(***************************************************************************)
Laying ==
  /\ plain \in [1 .. NrWords(fmt) -> Byte]
  /\ \A k \in 1 .. GapSync : plain[k] = Zero
  /\ \A k \in 1 .. Len(Mark(fmt)) : plain[GapSync + k] = Mark(fmt)[k]

Converted(n) ==
  \A k \in n .. NrWords(fmt) - 1 :
    \E last \in IF k = 0 THEN Bit ELSE {plain[k][8]} :
       WordAt(mem, k) = Code(fmt, plain[k + 1], last)

IInv ==
  /\ fmt \in Formats /\ mem \in [Addr(fmt) -> Byte] /\ nr \in Nat
  /\ pc \in {"idle", "convert", "encode", "patch", "disk", "search", "missed",
             "decode", "done"}
  /\ pc = "convert" =>
       Laying /\ \A k \in 0 .. NrWords(fmt) - 1 : mem[k] = plain[k + 1]
  /\ pc = "encode" => Laying /\ nr <= NrWords(fmt) /\ (nr > 0 => x = plain[nr])
  /\ pc = "patch" => Laying /\ nr = 0 /\ Converted(0)
  /\ pc \in {"disk", "search"} => track \in [1 .. 16 * NrWords(fmt) -> Bit]
  /\ pc = "decode" =>
       nr <= FieldLen(fmt) /\ words \in [0 .. FieldLen(fmt) - 1 -> Word]
  /\ InPlace

LEMMA InitIInv == Init => IInv
<1> SUFFICES ASSUME Init PROVE IInv  OBVIOUS
<1>1. Zero \in Byte
  BY ByteOfIsByte DEF Zero
<1> QED BY <1>1 DEF Init, NoField, IInv, InPlace

\* what the step that continues nothing has to show
LEMMA Quiet ==
  ASSUME IInv, fmt' = fmt, mem' \in [Addr(fmt) -> Byte], nr' \in Nat,
         pc' \in {"idle", "missed", "done"}
  PROVE  IInv'
BY DEF IInv, InPlace, Addr

LEMMA GenerateIInv ==
  ASSUME IInv, NEW d \in Datas, NEW b \in Before, Generate(d, b) PROVE IInv'
<1>1. d \in [1 .. DataLen -> Byte] /\ b \in Byte
  BY LayoutAssumption
<1>2. plain' = Laid(fmt, d) /\ fmt' = fmt /\ pc' = "convert" /\ nr' = nr
  BY DEF Generate
<1>3. Laying'
  BY <1>1, <1>2, LaidIsBytes DEF Laying
<1>4. NrWords(fmt) \in Nat
  BY SizeFacts
<1>5. mem' = [a \in Addr(fmt) |-> IF a = -1 THEN b
                                  ELSE IF a < NrWords(fmt) THEN plain'[a + 1] ELSE mem[a]]
  BY DEF Generate
<1>6. \A a \in Addr(fmt) : a # -1 /\ a < NrWords(fmt) => a + 1 \in 1 .. NrWords(fmt)
  BY <1>4 DEF Addr
<1>7. mem \in [Addr(fmt) -> Byte]
  BY DEF IInv
<1>8. mem' \in [Addr(fmt) -> Byte]
  BY <1>1, <1>2, <1>3, <1>5, <1>6, <1>7 DEF Laying
<1>9. \A k \in 0 .. NrWords(fmt) - 1 : k \in Addr(fmt)
  BY <1>4 DEF Addr
<1>10. \A k \in 0 .. NrWords(fmt) - 1 : mem'[k] = plain'[k + 1]
  BY <1>4, <1>5, <1>9
<1> QED BY <1>2, <1>3, <1>8, <1>10 DEF IInv, InPlace

LEMMA ConvertIInv == ASSUME IInv, Convert PROVE IInv'
<1>1. NrWords(fmt) \in Nat /\ NrWords(fmt) > 0
  BY SizeFacts, LayoutAssumption
<1>2. Laying /\ \A k \in 0 .. NrWords(fmt) - 1 : mem[k] = plain[k + 1]
  BY DEF Convert, IInv
<1>3. /\ pc' = "encode" /\ nr' = NrWords(fmt) /\ x' = mem[NrWords(fmt) - 1]
      /\ UNCHANGED <<fmt, mem, plain>>
  BY DEF Convert
<1>4. Laying'
  BY <1>2, <1>3 DEF Laying
<1>5. x' = plain'[nr']
  BY <1>1, <1>2, <1>3
<1>6. InPlace'
  BY <1>1, <1>2, <1>3 DEF InPlace
<1>7. mem' \in [Addr(fmt') -> Byte] /\ fmt' \in Formats
  BY <1>3 DEF IInv
<1> QED BY <1>1, <1>3, <1>4, <1>5, <1>6, <1>7 DEF IInv

\* An update of the two bytes of word k leaves the other words alone.
Store(m, k, w) == [m EXCEPT ![2 * k] = Hi(w), ![2 * k + 1] = Lo(w)]

LEMMA StoreWord ==
  ASSUME NEW f, NEW m \in [Addr(f) -> Byte], NEW w \in Word,
         NEW k \in 0 .. NrWords(f) - 1, NEW n, n = Store(m, k, w)
  PROVE  /\ n \in [Addr(f) -> Byte]
         /\ WordAt(n, k) = w
         /\ \A j \in 0 .. NrWords(f) - 1 : j # k => WordAt(n, j) = WordAt(m, j)
         /\ \A a \in Addr(f) : a < 2 * k => n[a] = m[a]
<1>1. NrWords(f) \in Nat
  BY SizeFacts
<1>2. Hi(w) \in Byte /\ Lo(w) \in Byte /\ Join(Hi(w), Lo(w)) = w
  BY JoinSplit
<1>3. 2 * k \in Addr(f) /\ 2 * k + 1 \in Addr(f)
  BY <1>1 DEF Addr
<1>4. n \in [Addr(f) -> Byte]
  BY <1>2 DEF Store
<1>5. n[2 * k] = Hi(w) /\ n[2 * k + 1] = Lo(w)
  BY <1>3 DEF Store
<1>6. \A a \in Addr(f) : a # 2 * k /\ a # 2 * k + 1 => n[a] = m[a]
  BY DEF Store
<1>7. ASSUME NEW j \in 0 .. NrWords(f) - 1, j # k PROVE WordAt(n, j) = WordAt(m, j)
  <2>1. /\ 2 * j \in Addr(f) /\ 2 * j + 1 \in Addr(f)
        /\ 2 * j # 2 * k /\ 2 * j # 2 * k + 1 /\ 2 * j + 1 # 2 * k /\ 2 * j + 1 # 2 * k + 1
    BY <1>1, <1>7 DEF Addr
  <2> QED BY <2>1, <1>6 DEF WordAt
<1>8. \A a \in Addr(f) : a < 2 * k => n[a] = m[a]
  BY <1>1, <1>6 DEF Addr
<1> QED BY <1>2, <1>4, <1>5, <1>7, <1>8 DEF WordAt

LEMMA EncodeIInv == ASSUME IInv, Encode PROVE IInv'
<1> DEFINE N == NrWords(fmt)
           w == Code(fmt, x, mem[nr - 2][8])
<1>1. /\ N \in Nat /\ nr \in Nat /\ nr > 0 /\ nr <= N
      /\ Laying /\ x = plain[nr] /\ mem \in [Addr(fmt) -> Byte] /\ InPlace
  BY SizeFacts DEF Encode, IInv
<1>2. /\ pc = "encode" /\ pc' = "encode" /\ nr' = nr - 1 /\ x' = mem[nr - 2]
      /\ UNCHANGED <<fmt, plain>>
  BY DEF Encode
<1>3. mem' = [mem EXCEPT ![2 * nr - 2] = Hi(w), ![2 * nr - 1] = Lo(w)]
  BY <1>2 DEF Encode
<1>4. x \in Byte /\ mem[nr - 2] \in Byte /\ mem[nr - 2][8] \in Bit
  <2>1. nr - 2 \in Addr(fmt)
    BY <1>1 DEF Addr
  <2>2. x \in Byte /\ mem[nr - 2] \in Byte
    BY <1>1, <2>1 DEF Laying
  <2> QED BY <2>2 DEF Byte
<1>5. w \in Word /\ mfmtobin(w) = x
  BY <1>4, DecodeEncode
<1> HIDE DEF w
<1>6. nr - 1 \in 0 .. NrWords(fmt) - 1 /\ 2 * (nr - 1) = 2 * nr - 2
      /\ 2 * (nr - 1) + 1 = 2 * nr - 1
  BY <1>1
<1>7. mem' = Store(mem, nr - 1, w)
  BY <1>3, <1>6 DEF Store
<1>8. /\ mem' \in [Addr(fmt) -> Byte]
      /\ WordAt(mem', nr - 1) = w
      /\ \A j \in 0 .. N - 1 : j # nr - 1 => WordAt(mem', j) = WordAt(mem, j)
      /\ \A a \in Addr(fmt) : a < 2 * (nr - 1) => mem'[a] = mem[a]
  BY <1>1, <1>5, <1>6, <1>7, StoreWord
<1>9. ASSUME NEW k \in 0 .. nr' - 1 PROVE mem'[k] = plain'[k + 1]
  <2>1. k \in Addr(fmt) /\ k < 2 * (nr - 1) /\ k \in 0 .. nr - 1
    BY <1>1, <1>2 DEF Addr
  <2> QED BY <1>1, <1>2, <1>8, <2>1 DEF InPlace
<1>10. ASSUME NEW k \in nr' .. N - 1
       PROVE  \E last \in IF k = 0 THEN Bit ELSE {plain'[k][8]} :
                 WordAt(mem', k) = Code(fmt', plain'[k + 1], last)
  <2>1. CASE k # nr - 1
    <3>1. k \in nr .. N - 1 /\ k \in 0 .. N - 1 /\ k # 0
      BY <1>1, <1>2, <2>1
    <3>2. PICK last \in {plain[k][8]} : WordAt(mem, k) = Code(fmt, plain[k + 1], last)
      BY <1>1, <1>2, <3>1 DEF InPlace
    <3> QED BY <1>1, <1>2, <1>8, <2>1, <3>1, <3>2
  <2>2. CASE k = nr - 1 /\ k = 0
    BY <1>1, <1>2, <1>4, <1>8, <2>2 DEF w
  <2>3. CASE k = nr - 1 /\ k # 0
    <3>1. nr - 2 \in 0 .. nr - 1 /\ nr - 2 + 1 = nr - 1
      BY <1>1, <2>3
    <3>2. mem[nr - 2] = plain[nr - 1]
      BY <1>1, <1>2, <3>1 DEF InPlace
    <3>3. w = Code(fmt, plain[nr], plain[nr - 1][8])
      BY <1>1, <3>2 DEF w
    <3> QED BY <1>1, <1>2, <1>8, <2>3, <3>3
  <2> QED BY <2>1, <2>2, <2>3
<1>11. nr' > 0 => x' = plain'[nr']
  <2> SUFFICES ASSUME nr' > 0 PROVE x' = plain'[nr']  OBVIOUS
  <2>1. nr - 2 \in 0 .. nr - 1 /\ nr - 2 + 1 = nr - 1
    BY <1>1, <1>2
  <2> QED BY <1>1, <1>2, <2>1 DEF InPlace
<1>12. InPlace'
  BY <1>2, <1>9, <1>10 DEF InPlace
<1>13. Laying' /\ fmt' \in Formats
  BY <1>1, <1>2 DEF Laying, IInv
<1> QED BY <1>1, <1>2, <1>8, <1>11, <1>12, <1>13 DEF IInv

LEMMA CheckWrittenIInv == ASSUME IInv, CheckWritten PROVE IInv'
<1>1. /\ pc = "encode" /\ pc' = "patch" /\ nr = 0 /\ UNCHANGED <<fmt, mem, nr, plain>>
  BY DEF CheckWritten
<1>2. Laying /\ mem \in [Addr(fmt) -> Byte] /\ Converted(0)
  BY <1>1 DEF IInv, InPlace, Converted
<1>3. Laying' /\ (mem \in [Addr(fmt) -> Byte])' /\ Converted(0)' /\ fmt' \in Formats
  BY <1>1, <1>2 DEF Laying, Converted, WordAt, IInv
<1> QED BY <1>1, <1>3 DEF IInv, InPlace

LEMMA SyncedIsWord ==
  ASSUME IInv, pc = "patch", NEW k \in 0 .. NrWords(fmt) - 1 PROVE Synced(k) \in Word
<1>1. NrWords(fmt) \in Nat /\ mem \in [Addr(fmt) -> Byte]
  BY SizeFacts DEF IInv
<1>2. 2 * k \in Addr(fmt) /\ 2 * k + 1 \in Addr(fmt)
  BY <1>1 DEF Addr
<1>3. WordAt(mem, k) \in Word
  BY <1>1, <1>2, JoinSplit DEF WordAt
<1>4. MfmSync \in Word
  BY ByteOfIsByte, JoinSplit DEF MfmSync
<1>5. fm_sync(ByteOf(251), FmSyncClk) \in Word
  BY ByteOfIsByte, CellsIsWord DEF fm_sync, FmSyncClk
<1> QED BY <1>3, <1>4, <1>5 DEF Synced

LEMMA PatchIInv == ASSUME IInv, PatchAndWrite PROVE IInv'
<1>1. pc = "patch" /\ pc' = "disk" /\ fmt' = fmt /\ nr' = nr
  BY DEF PatchAndWrite
<1>2. NrWords(fmt) \in Nat
  BY SizeFacts
<1>3. \A c \in 1 .. 16 * NrWords(fmt) :
        (c - 1) \div 16 \in 0 .. NrWords(fmt) - 1 /\ ((c - 1) % 16) + 1 \in 1 .. 16
  BY <1>2
<1>4. \A c \in 1 .. 16 * NrWords(fmt) : Synced((c - 1) \div 16)[((c - 1) % 16) + 1] \in Bit
  BY <1>1, <1>3, SyncedIsWord DEF Word
<1>5. track' \in [1 .. 16 * NrWords(fmt) -> Bit]
  BY <1>4 DEF PatchAndWrite
<1>6. mem' \in [Addr(fmt) -> Byte]
  BY ByteOfIsByte DEF PatchAndWrite, Zero
<1> QED BY <1>1, <1>5, <1>6 DEF IInv, InPlace

LEMMA DamageIInv ==
  ASSUME IInv, NEW p \in Damages, NEW c \in DOMAIN track, Damage(p, c) PROVE IInv'
<1>1. pc = "disk" /\ pc' = "search" /\ fmt' = fmt /\ nr' = nr /\ mem' = mem
  BY DEF Damage
<1>2. track \in [1 .. 16 * NrWords(fmt) -> Bit]
  BY <1>1 DEF IInv
<1>3. p \in Seq(Bit)
  BY DamageAssumption
<1>4. \A i \in 1 .. 16 * NrWords(fmt) :
        (IF i - c + 1 \in DOMAIN p THEN (track[i] + p[i - c + 1]) % 2 ELSE track[i]) \in Bit
  <2> TAKE i \in 1 .. 16 * NrWords(fmt)
  <2>1. track[i] \in {0, 1}
    BY <1>2 DEF Bit
  <2>2. i - c + 1 \in DOMAIN p => p[i - c + 1] \in {0, 1}
    BY <1>3 DEF Bit
  <2> QED BY <2>1, <2>2 DEF Bit
<1>5. track' \in [1 .. 16 * NrWords(fmt) -> Bit]
  BY <1>2, <1>4 DEF Damage
<1> QED BY <1>1, <1>5 DEF IInv, InPlace

LEMMA ReadIInv == ASSUME IInv, Read PROVE IInv'
<1>1. PICK c \in Syncs(track), splice \in BOOLEAN : ReadFrom(c, splice)
  BY DEF Read
<1> DEFINE from == IF fmt = "mfm" THEN c ELSE c + 1
<1>2. /\ pc = "search" /\ pc' = "decode" /\ nr' = 0 /\ fmt' = fmt
      /\ track \in [1 .. 16 * NrWords(fmt) -> Bit] /\ mem \in [Addr(fmt) -> Byte]
      /\ NrWords(fmt) \in Nat /\ FieldLen(fmt) \in Nat /\ FieldLen(fmt) <= NrWords(fmt)
  BY SizeFacts DEF Read, IInv
<1>3. from \in Nat /\ from + 16 * FieldLen(fmt) <= 16 * NrWords(fmt)
  BY <1>1, <1>2 DEF ReadFrom, Syncs
<1>4. /\ words' = [k \in 0 .. FieldLen(fmt) - 1 |->
                     [j \in 1 .. 16 |-> track[from + 16 * k + j]]]
      /\ mem' = [a \in Addr(fmt) |->
                   IF a >= 0 /\ a < 2 * FieldLen(fmt)
                   THEN [i \in 1 .. 8 |-> track[from + 8 * a + i]] ELSE mem[a]]
  BY <1>1 DEF ReadFrom
<1> HIDE DEF from
<1>5. words' \in [0 .. FieldLen(fmt) - 1 -> Word]
  <2>1. \A k \in 0 .. FieldLen(fmt) - 1, j \in 1 .. 16 :
          from + 16 * k + j \in 1 .. 16 * NrWords(fmt)
    BY <1>2, <1>3
  <2> QED BY <1>2, <1>4, <2>1 DEF Word
<1>6. mem' \in [Addr(fmt) -> Byte]
  <2>1. \A a \in Addr(fmt), i \in 1 .. 8 : a >= 0 /\ a < 2 * FieldLen(fmt) =>
          from + 8 * a + i \in 1 .. 16 * NrWords(fmt)
    BY <1>2, <1>3 DEF Addr
  <2>2. \A a \in Addr(fmt) : a >= 0 /\ a < 2 * FieldLen(fmt) =>
          [i \in 1 .. 8 |-> track[from + 8 * a + i]] \in Byte
    BY <1>2, <2>1 DEF Byte
  <2> QED BY <1>2, <1>4, <2>2
<1>7. ASSUME NEW k \in 0 .. FieldLen(fmt) - 1 PROVE WordAt(mem', k) = words'[k]
  <2>1. /\ 2 * k \in Addr(fmt) /\ 2 * k >= 0 /\ 2 * k < 2 * FieldLen(fmt)
        /\ 2 * k + 1 \in Addr(fmt) /\ 2 * k + 1 >= 0 /\ 2 * k + 1 < 2 * FieldLen(fmt)
    BY <1>2 DEF Addr
  <2>2. /\ mem'[2 * k] = [i \in 1 .. 8 |-> track[from + 8 * (2 * k) + i]]
        /\ mem'[2 * k + 1] = [i \in 1 .. 8 |-> track[from + 8 * (2 * k + 1) + i]]
    BY <1>4, <2>1
  <2>3. \A j \in 1 .. 16 : WordAt(mem', k)[j] = track[from + 16 * k + j]
    <3> TAKE j \in 1 .. 16
    <3>1. /\ from + 8 * (2 * k) + j = from + 16 * k + j
          /\ from + 8 * (2 * k + 1) + (j - 8) = from + 16 * k + j
      BY <1>3
    <3>2. CASE j <= 8
      BY <2>2, <3>1, <3>2 DEF WordAt, Join
    <3>3. CASE ~(j <= 8)
      <4>1. j - 8 \in 1 .. 8
        BY <3>3
      <4> QED BY <2>2, <3>1, <3>3, <4>1 DEF WordAt, Join
    <3> QED BY <3>2, <3>3
  <2> QED BY <1>4, <2>3 DEF WordAt, Join
<1>8. InPlace'
  BY <1>2, <1>7 DEF InPlace
<1> QED BY <1>2, <1>5, <1>6, <1>8 DEF IInv

LEMMA DecodeIInv == ASSUME IInv, Decode PROVE IInv'
<1> DEFINE b == mfmtobin(WordAt(mem, nr))
<1>1. /\ pc = "decode" /\ pc' = "decode" /\ nr \in Nat /\ nr < FieldLen(fmt)
      /\ nr' = nr + 1 /\ UNCHANGED <<fmt, words>> /\ mem' = [mem EXCEPT ![nr] = b]
      /\ words \in [0 .. FieldLen(fmt) - 1 -> Word] /\ mem \in [Addr(fmt) -> Byte]
      /\ NrWords(fmt) \in Nat /\ FieldLen(fmt) \in Nat /\ FieldLen(fmt) <= NrWords(fmt)
  BY SizeFacts DEF Decode, IInv
<1>2. nr \in Addr(fmt)
  BY <1>1 DEF Addr
<1>3. WordAt(mem, nr) = words[nr]
  BY <1>1 DEF IInv, InPlace
<1>4. words[nr] \in Word
  BY <1>1
<1>5. b \in Byte
  BY <1>3, <1>4 DEF mfmtobin, Word, Byte
<1> HIDE DEF b
<1>6. mem' \in [Addr(fmt) -> Byte]
  BY <1>1, <1>5
<1>7. ASSUME NEW k \in 0 .. nr' - 1 PROVE mem'[k] = mfmtobin(words'[k])
  <2>1. k \in Addr(fmt) /\ (k = nr \/ k \in 0 .. nr - 1)
    BY <1>1 DEF Addr
  <2>2. CASE k = nr
    BY <1>1, <1>2, <1>3, <2>2 DEF b
  <2>3. CASE k # nr
    BY <1>1, <2>1, <2>3 DEF IInv, InPlace
  <2> QED BY <2>2, <2>3
<1>8. ASSUME NEW k \in nr' .. FieldLen(fmt) - 1 PROVE WordAt(mem', k) = words'[k]
  <2>1. /\ 2 * k \in Addr(fmt) /\ 2 * k + 1 \in Addr(fmt) /\ 2 * k # nr /\ 2 * k + 1 # nr
        /\ k \in nr .. FieldLen(fmt) - 1
    BY <1>1 DEF Addr
  <2>2. WordAt(mem', k) = WordAt(mem, k)
    BY <1>1, <2>1 DEF WordAt
  <2>3. WordAt(mem, k) = words[k]
    BY <1>1, <2>1 DEF IInv, InPlace
  <2> QED BY <1>1, <2>2, <2>3
<1>9. InPlace'
  BY <1>1, <1>7, <1>8 DEF InPlace
<1>10. nr' \in Nat /\ nr' <= FieldLen(fmt)
  BY <1>1
<1> QED BY <1>1, <1>6, <1>9, <1>10 DEF IInv

LEMMA NextIInv == ASSUME IInv, [Next]_vars PROVE IInv'
<1>1. ASSUME NEW d \in Datas, NEW b \in Before, Generate(d, b) PROVE IInv'
  BY <1>1, GenerateIInv
<1>2. ASSUME NEW p \in Damages, NEW c \in DOMAIN track, Damage(p, c) PROVE IInv'
  BY <1>2, DamageIInv
<1>3. ASSUME CheckBytes PROVE IInv'
  <2>1. UNCHANGED <<fmt, mem, nr>> /\ pc' = "done"
    BY <1>3 DEF CheckBytes
  <2>2. mem \in [Addr(fmt) -> Byte] /\ nr \in Nat
    BY DEF IInv
  <2> QED BY <2>1, <2>2, Quiet
<1>4. ASSUME Return PROVE IInv'
  <2>1. fmt' = fmt /\ nr' = 0 /\ pc' = "idle" /\ mem' = [a \in Addr(fmt) |-> Zero]
    BY <1>4 DEF Return
  <2>2. mem' \in [Addr(fmt) -> Byte]
    BY <2>1, ByteOfIsByte DEF Zero
  <2> QED BY <2>1, <2>2, Quiet
<1>5. ASSUME Missed PROVE IInv'
  <2>1. UNCHANGED <<fmt, mem, nr>> /\ pc' = "missed"
    BY <1>5 DEF Missed
  <2>2. mem \in [Addr(fmt) -> Byte] /\ nr \in Nat
    BY DEF IInv
  <2> QED BY <2>1, <2>2, Quiet
<1>6. ASSUME UNCHANGED vars PROVE IInv'
  BY <1>6 DEF vars, IInv, InPlace, Laying, Converted, WordAt, Addr
<1> QED BY <1>1, <1>2, <1>3, <1>4, <1>5, <1>6, ConvertIInv, EncodeIInv, CheckWrittenIInv,
           PatchIInv, ReadIInv, DecodeIInv DEF Next

\* Both conversions work in place, for a sector of any length and content.
THEOREM ConversionsInPlace == Spec => []InPlace
<1>1. IInv => InPlace
  BY DEF IInv
<1> QED BY InitIInv, NextIInv, <1>1, PTL DEF Spec

(***************************************************************************)
(* The sync marks.  A converted word has its clock bits where the code     *)
(* puts them; in both marks some are missing.  A window that looks like a  *)
(* mark has a clock bit missing, so it must lie over one, in the right     *)
(* place.                                                                  *)
(***************************************************************************)
LEMMA Constants ==
  /\ Zero = [i \in 1 .. 8 |-> 0]
  /\ ByteOf(161) = [i \in 1 .. 8 |-> IF i \in {1, 3, 8} THEN 1 ELSE 0]
  /\ ByteOf(251) = [i \in 1 .. 8 |-> IF i = 6 THEN 0 ELSE 1]
  /\ FmSyncClk = [i \in 1 .. 8 |-> IF i \in {3, 4, 5} THEN 0 ELSE 1]
  /\ MfmSync = [j \in 1 .. 16 |-> IF j \in {2, 6, 9, 13, 16} THEN 1 ELSE 0]
<1>1. Zero = [i \in 1 .. 8 |-> 0]
  BY DEF Zero, ByteOf, Weight
<1>2. ByteOf(161) = [i \in 1 .. 8 |-> IF i \in {1, 3, 8} THEN 1 ELSE 0]
  BY DEF ByteOf, Weight
<1>3. ByteOf(251) = [i \in 1 .. 8 |-> IF i = 6 THEN 0 ELSE 1]
  BY DEF ByteOf, Weight
<1>4. FmSyncClk = [i \in 1 .. 8 |-> IF i \in {3, 4, 5} THEN 0 ELSE 1]
  BY DEF FmSyncClk, ByteOf, Weight
<1>5. /\ ByteOf(68) = [i \in 1 .. 8 |-> IF i \in {2, 6} THEN 1 ELSE 0]
      /\ ByteOf(137) = [i \in 1 .. 8 |-> IF i \in {1, 5, 8} THEN 1 ELSE 0]
  BY DEF ByteOf, Weight
<1>6. MfmSync = [j \in 1 .. 16 |-> IF j \in {2, 6, 9, 13, 16} THEN 1 ELSE 0]
  BY <1>5 DEF MfmSync, Join
<1> QED BY <1>1, <1>2, <1>3, <1>4, <1>6

LEMMA CodeCells ==
  \A b \in Byte, l \in Bit :
    /\ \A i \in 1 .. 8 : Mfm(b, l)[2 * i] = b[i] /\ Fm(b)[2 * i] = b[i]
    /\ \A i \in 2 .. 8 : b[i - 1] = 0 /\ b[i] = 0 => Mfm(b, l)[2 * i - 1] = 1
    /\ l = 0 /\ b[1] = 0 => Mfm(b, l)[1] = 1
    /\ \A i \in 1 .. 8 : Fm(b)[2 * i - 1] = 1
<1> TAKE b \in Byte, l \in Bit
<1>1. \A i \in 1 .. 8 : /\ 2 * i \in 1 .. 16 /\ (2 * i) % 2 = 0 /\ (2 * i) \div 2 = i
                        /\ 2 * i - 1 \in 1 .. 16 /\ (2 * i - 1) % 2 # 0
                        /\ (2 * i - 1 + 1) \div 2 = i
  OBVIOUS
<1>2. \A c, d, i : i \in 1 .. 8 => Cells(c, d)[2 * i] = d[i] /\ Cells(c, d)[2 * i - 1] = c[i]
  BY <1>1 DEF Cells
<1>3. \A i \in 1 .. 8 : Fm(b)[2 * i] = b[i] /\ Fm(b)[2 * i - 1] = 1
  BY <1>2 DEF Fm
<1>4. \A i \in 1 .. 8 : /\ mfmtab(b)[2 * i] = b[i]
                        /\ mfmtab(b)[2 * i - 1] =
                             IF b[i] = 0 /\ (i = 1 \/ b[i - 1] = 0) THEN 1 ELSE 0
  <2> DEFINE clk == [i \in 1 .. 8 |-> IF b[i] = 0 /\ (i = 1 \/ b[i - 1] = 0)
                                      THEN 1 ELSE 0]
  <2>1. mfmtab(b) = Cells(clk, b)
    BY DEF mfmtab
  <2>2. \A i \in 1 .. 8 : clk[i] = IF b[i] = 0 /\ (i = 1 \/ b[i - 1] = 0) THEN 1 ELSE 0
    OBVIOUS
  <2> HIDE DEF clk
  <2> QED BY <2>1, <2>2, <1>2
<1>5. \A j \in 1 .. 16 : j # 1 \/ l = 0 => Mfm(b, l)[j] = mfmtab(b)[j]
  BY DEF Mfm, mfmtab, Cells, Bit
<1>6. \A i \in 1 .. 8 : Mfm(b, l)[2 * i] = b[i]
  BY <1>1, <1>4, <1>5
<1>7. ASSUME NEW i \in 2 .. 8, b[i - 1] = 0, b[i] = 0 PROVE Mfm(b, l)[2 * i - 1] = 1
  <2>1. i \in 1 .. 8 /\ 2 * i - 1 \in 1 .. 16 /\ 2 * i - 1 # 1
    OBVIOUS
  <2> QED BY <2>1, <1>4, <1>5, <1>7
<1>8. ASSUME l = 0, b[1] = 0 PROVE Mfm(b, l)[1] = 1
  <2>1. 1 \in 1 .. 8 /\ 1 \in 1 .. 16 /\ 2 * 1 - 1 = 1
    OBVIOUS
  <2>2. mfmtab(b)[1] = 1
    BY <2>1, <1>4, <1>8
  <2> QED BY <2>1, <2>2, <1>5, <1>8
<1> QED BY <1>3, <1>6, <1>7, <1>8

\* cell j of word k of the track
Cell(k, j) == 16 * k + j

LEMMA TrackCells ==
  ASSUME IInv, PatchAndWrite, NEW k \in 0 .. NrWords(fmt) - 1, NEW j \in 1 .. 16
  PROVE  track'[Cell(k, j)] = Synced(k)[j]
<1>1. NrWords(fmt) \in Nat
  BY SizeFacts
<1>2. /\ Cell(k, j) \in 1 .. 16 * NrWords(fmt)
      /\ (Cell(k, j) - 1) \div 16 = k /\ ((Cell(k, j) - 1) % 16) + 1 = j
  BY <1>1 DEF Cell
<1> QED BY <1>2 DEF PatchAndWrite

\* every cell is a cell of a word
LEMMA CellOf ==
  ASSUME NEW n \in Nat, NEW z \in 1 .. 16 * n
  PROVE  \E k \in 0 .. n - 1, j \in 1 .. 16 : z = Cell(k, j)
<1> DEFINE k == (z - 1) \div 16
           j == ((z - 1) % 16) + 1
<1>1. k \in Int /\ j \in 1 .. 16 /\ z = 16 * k + j
  OBVIOUS
<1>2. k \in 0 .. n - 1
  BY <1>1
<1> QED BY <1>1, <1>2 DEF Cell

LEMMA PatchedWords ==
  ASSUME IInv, pc = "patch"
  PROVE  /\ \A k \in 0 .. NrWords(fmt) - 1, i \in 1 .. 8 :
              /\ plain[k + 1] \in Byte
              /\ Synced(k)[2 * i] = plain[k + 1][i]
         /\ \A k \in 1 .. GapSync : plain[k] = Zero
         /\ fmt = "mfm" =>
              /\ \A k \in GapSync .. GapSync + 2 :
                   Synced(k) = MfmSync /\ plain[k + 1] = ByteOf(161)
              /\ plain[GapSync + 4] = ByteOf(251)
              /\ \A k \in 1 .. NrWords(fmt) - 1, i \in 1 .. 8 :
                   \/ k \in GapSync .. GapSync + 2
                   \/ plain[k + 1][i] # 0
                   \/ (IF i = 1 THEN plain[k][8] ELSE plain[k + 1][i - 1]) # 0
                   \/ Synced(k)[2 * i - 1] = 1
         /\ fmt # "mfm" =>
              \A k \in 0 .. NrWords(fmt) - 1, i \in 1 .. 8 :
                Synced(k)[2 * i - 1] = IF k = GapSync /\ fmt = "fm" THEN FmSyncClk[i] ELSE 1
<1> DEFINE N == NrWords(fmt)
<1>1. /\ N \in Nat /\ N > GapSync /\ GapSync \in Nat /\ GapSync >= 2
      /\ fmt = "mfm" => N > GapSync + 3
      /\ fmt \in {"mfm", "fm"}
  BY SizeFacts, LayoutAssumption, FormatAssumption DEF IInv
<1>2. Laying /\ Converted(0)
  BY DEF IInv
<1>3. \A k \in 0 .. N - 1 : plain[k + 1] \in Byte
  BY <1>1, <1>2 DEF Laying
<1>4. ASSUME NEW k \in 0 .. N - 1
      PROVE  \E last \in Bit : /\ WordAt(mem, k) = Code(fmt, plain[k + 1], last)
                               /\ k # 0 => last = plain[k][8]
  <2>1. \E last \in IF k = 0 THEN Bit ELSE {plain[k][8]} :
           WordAt(mem, k) = Code(fmt, plain[k + 1], last)
    BY <1>1, <1>2 DEF Converted
  <2>2. k # 0 => plain[k][8] \in Bit
    <3> SUFFICES ASSUME k # 0 PROVE plain[k][8] \in Bit  OBVIOUS
    <3>1. k \in 1 .. N
      BY <1>1
    <3> QED BY <1>2, <3>1 DEF Laying, Byte
  <2> QED BY <2>1, <2>2
<1>5. /\ \A k \in 1 .. GapSync : plain[k] = Zero
      /\ \A k \in 1 .. Len(Mark(fmt)) : plain[GapSync + k] = Mark(fmt)[k]
  BY <1>2 DEF Laying
<1>6. CASE fmt = "mfm"
  <2>1. /\ Len(Mark(fmt)) = 4 /\ Mark(fmt)[1] = ByteOf(161) /\ Mark(fmt)[2] = ByteOf(161)
        /\ Mark(fmt)[3] = ByteOf(161) /\ Mark(fmt)[4] = ByteOf(251)
    BY <1>6 DEF Mark, Rep
  <2>2. /\ plain[GapSync + 1] = ByteOf(161) /\ plain[GapSync + 2] = ByteOf(161)
        /\ plain[GapSync + 3] = ByteOf(161) /\ plain[GapSync + 4] = ByteOf(251)
    BY <1>5, <2>1
  <2>3. \A k \in GapSync .. GapSync + 2 : Synced(k) = MfmSync /\ plain[k + 1] = ByteOf(161)
    <3> TAKE k \in GapSync .. GapSync + 2
    <3>1. k = GapSync \/ k = GapSync + 1 \/ k = GapSync + 2
      BY <1>1
    <3>2. plain[k + 1] = ByteOf(161)
      BY <1>1, <2>2, <3>1
    <3> QED BY <1>6, <3>2 DEF Synced
  <2>4. ASSUME NEW k \in 0 .. N - 1, k \notin GapSync .. GapSync + 2
        PROVE  Synced(k) = WordAt(mem, k)
    BY <1>6, <2>4 DEF Synced
  <2>5. ASSUME NEW k \in 0 .. N - 1, NEW i \in 1 .. 8
        PROVE  Synced(k)[2 * i] = plain[k + 1][i]
    <3>1. CASE k \in GapSync .. GapSync + 2
      <4>1. \A n \in 1 .. 8 : MfmSync[2 * n] = ByteOf(161)[n]
        BY Constants
      <4> QED BY <2>3, <3>1, <4>1
    <3>2. CASE k \notin GapSync .. GapSync + 2
      <4>1. PICK last \in Bit : WordAt(mem, k) = Code(fmt, plain[k + 1], last)
        BY <1>4
      <4> QED BY <1>3, <1>6, <2>4, <3>2, <4>1, CodeCells DEF Code
    <3> QED BY <3>1, <3>2
  <2>6. ASSUME NEW k \in 1 .. N - 1, NEW i \in 1 .. 8,
               k \notin GapSync .. GapSync + 2, plain[k + 1][i] = 0,
               (IF i = 1 THEN plain[k][8] ELSE plain[k + 1][i - 1]) = 0
        PROVE  Synced(k)[2 * i - 1] = 1
    <3>1. k \in 0 .. N - 1 /\ k # 0
      BY <1>1
    <3>2. PICK last \in Bit : /\ WordAt(mem, k) = Code(fmt, plain[k + 1], last)
                              /\ last = plain[k][8]
      BY <1>4, <3>1
    <3>3. Synced(k) = Mfm(plain[k + 1], last) /\ plain[k + 1] \in Byte
      BY <1>3, <1>6, <2>4, <2>6, <3>1, <3>2 DEF Code
    <3>4. CASE i = 1
      BY <2>6, <3>2, <3>3, <3>4, CodeCells
    <3>5. CASE i # 1
      <4>1. i \in 2 .. 8 /\ plain[k + 1][i - 1] = 0
        BY <2>6, <3>5
      <4> QED BY <2>6, <3>3, <4>1, CodeCells
    <3> QED BY <3>4, <3>5
  <2>7. \A k \in 1 .. N - 1, i \in 1 .. 8 :
          \/ k \in GapSync .. GapSync + 2
          \/ plain[k + 1][i] # 0
          \/ (IF i = 1 THEN plain[k][8] ELSE plain[k + 1][i - 1]) # 0
          \/ Synced(k)[2 * i - 1] = 1
    BY <2>6
  <2>8. \A k \in 0 .. N - 1, i \in 1 .. 8 :
          plain[k + 1] \in Byte /\ Synced(k)[2 * i] = plain[k + 1][i]
    BY <1>3, <2>5
  <2> HIDE DEF N
  <2>9. fmt = "mfm" /\ plain[GapSync + 4] = ByteOf(251)
    BY <1>6, <2>2
  <2> QED BY <1>5, <2>3, <2>7, <2>8, <2>9 DEF N
<1>7. CASE fmt = "fm"
  <2>1. plain[GapSync + 1] = ByteOf(251)
    <3>1. Len(Mark(fmt)) = 1 /\ Mark(fmt)[1] = ByteOf(251)
      BY <1>7 DEF Mark
    <3> QED BY <1>5, <3>1
  <2>2. ASSUME NEW k \in 0 .. N - 1, NEW i \in 1 .. 8
        PROVE  /\ Synced(k)[2 * i] = plain[k + 1][i]
               /\ Synced(k)[2 * i - 1] = IF k = GapSync THEN FmSyncClk[i] ELSE 1
    <3>1. CASE k = GapSync
      <4>1. Synced(k) = Cells(FmSyncClk, ByteOf(251))
        BY <1>7, <3>1 DEF Synced, fm_sync
      <4>2. \A c, d, n : n \in 1 .. 8 =>
              Cells(c, d)[2 * n] = d[n] /\ Cells(c, d)[2 * n - 1] = c[n]
        <5>1. \A n \in 1 .. 8 : /\ 2 * n \in 1 .. 16 /\ (2 * n) % 2 = 0
                                /\ (2 * n) \div 2 = n
                                /\ 2 * n - 1 \in 1 .. 16 /\ (2 * n - 1) % 2 # 0
                                /\ (2 * n - 1 + 1) \div 2 = n
          OBVIOUS
        <5> QED BY <5>1 DEF Cells
      <4>3. Synced(k)[2 * i] = ByteOf(251)[i] /\ Synced(k)[2 * i - 1] = FmSyncClk[i]
        BY <4>1, <4>2
      <4>4. plain[k + 1] = ByteOf(251)
        BY <2>1, <3>1
      <4> QED BY <3>1, <4>3, <4>4
    <3>2. CASE k # GapSync
      <4>1. PICK last \in Bit : WordAt(mem, k) = Code(fmt, plain[k + 1], last)
        BY <1>4
      <4>2. Synced(k) = Fm(plain[k + 1])
        BY <1>7, <3>2, <4>1 DEF Synced, Code
      <4> QED BY <1>3, <3>2, <4>2, CodeCells DEF Bit
    <3> QED BY <3>1, <3>2
  <2> QED BY <1>3, <1>5, <1>7, <2>2
<1> QED BY <1>1, <1>6, <1>7

\* In MFM a clock bit is missing between two data bits that are not set only
\* in the marks, there at cell 11.
LEMMA MfmMissing ==
  ASSUME IInv, PatchAndWrite, fmt = "mfm",
         NEW k \in 1 .. NrWords(fmt) - 1, NEW i \in 1 .. 8,
         track'[Cell(k, 2 * i - 1) - 1] = 0, track'[Cell(k, 2 * i - 1)] = 0,
         track'[Cell(k, 2 * i - 1) + 1] = 0
  PROVE  k \in GapSync .. GapSync + 2 /\ i = 6
<1>1. pc = "patch" /\ NrWords(fmt) \in Nat
  BY SizeFacts DEF PatchAndWrite
<1>2. k \in 0 .. NrWords(fmt) - 1 /\ k - 1 \in 0 .. NrWords(fmt) - 1 /\ k - 1 + 1 = k
  BY <1>1
<1>3. /\ 2 * i - 1 \in 1 .. 16 /\ 2 * i \in 1 .. 16
      /\ Cell(k, 2 * i - 1) + 1 = Cell(k, 2 * i)
  BY <1>2 DEF Cell
<1>4. Synced(k)[2 * i - 1] = 0 /\ Synced(k)[2 * i] = 0
  BY <1>2, <1>3, TrackCells
<1>5. plain[k + 1][i] = 0
  BY <1>1, <1>2, <1>4, PatchedWords
<1>6. CASE i = 1
  <2>1. 16 \in 1 .. 16 /\ Cell(k, 2 * i - 1) - 1 = Cell(k - 1, 16) /\ 8 \in 1 .. 8 /\ 2 * 8 = 16
    BY <1>2, <1>6 DEF Cell
  <2>2. Synced(k - 1)[16] = 0
    BY <1>2, <2>1, TrackCells
  <2>3. plain[k][8] = 0
    BY <1>1, <1>2, <2>1, <2>2, PatchedWords
  <2>4. k \in GapSync .. GapSync + 2
    BY <1>1, <1>4, <1>5, <1>6, <2>3, PatchedWords
  <2>5. Synced(k) = MfmSync
    BY <1>1, <2>4, PatchedWords
  <2> QED BY <1>4, <1>6, <2>5, Constants
<1>7. CASE i # 1
  <2>1. /\ i - 1 \in 1 .. 8 /\ 2 * (i - 1) \in 1 .. 16
        /\ Cell(k, 2 * i - 1) - 1 = Cell(k, 2 * (i - 1))
    BY <1>2, <1>7 DEF Cell
  <2>2. Synced(k)[2 * (i - 1)] = 0
    BY <1>2, <2>1, TrackCells
  <2>3. plain[k + 1][i - 1] = 0
    BY <1>1, <1>2, <2>1, <2>2, PatchedWords
  <2>4. k \in GapSync .. GapSync + 2
    BY <1>1, <1>4, <1>5, <1>7, <2>3, PatchedWords
  <2>5. Synced(k) = MfmSync
    BY <1>1, <2>4, PatchedWords
  <2>6. MfmSync[2 * (i - 1)] = 0 /\ MfmSync[2 * i - 1] = 0 /\ MfmSync[2 * i] = 0
    BY <1>4, <2>2, <2>5
  <2>7. i \in {2, 3, 4, 5, 6, 7, 8}
    BY <1>7
  <2>8. i = 6
    BY <2>6, <2>7, Constants
  <2> QED BY <2>4, <2>8
<1> QED BY <1>6, <1>7

LEMMA MfmSyncs ==
  ASSUME IInv, PatchAndWrite, fmt = "mfm", NEW c \in 0 .. 16 * NrWords(fmt) - 32
  PROVE  IsSync(track', c) <=> c \in {16 * GapSync, 16 * GapSync + 16}
<1> DEFINE N == NrWords(fmt)
<1>1. /\ pc = "patch" /\ N \in Nat /\ N > GapSync + 3 /\ GapSync \in Nat /\ GapSync >= 2
  BY SizeFacts, LayoutAssumption DEF PatchAndWrite
<1>2. ASSUME IsSync(track', c) PROVE c \in {16 * GapSync, 16 * GapSync + 16}
  <2>1. \A j \in 1 .. 32 : track'[c + j] = MfmSync[((j - 1) % 16) + 1]
    BY <1>2 DEF IsSync
  <2>2. CASE c % 2 = 0
    <3>1. track'[c + 26] = 0 /\ track'[c + 27] = 0 /\ track'[c + 28] = 0 /\ track'[c + 2] = 1
      BY <2>1, Constants
    <3>2. c + 27 \in 1 .. 16 * N
      BY <1>1
    <3>3. PICK k \in 0 .. N - 1, j \in 1 .. 16 : c + 27 = Cell(k, j)
      BY <1>1, <3>2, CellOf
    <3>4. k \in 1 .. N - 1 /\ \E i \in 1 .. 8 : j = 2 * i - 1
      <4>1. (16 * k + j) % 2 = 1 /\ 16 * k + j >= 27
        BY <1>1, <2>2, <3>3 DEF Cell
      <4>2. j % 2 = 1
        BY <4>1
      <4>3. (j + 1) \div 2 \in 1 .. 8 /\ j = 2 * ((j + 1) \div 2) - 1
        BY <4>2
      <4> QED BY <1>1, <4>1, <4>3
    <3>5. PICK i \in 1 .. 8 : j = 2 * i - 1
      BY <3>4
    <3>6. k \in GapSync .. GapSync + 2 /\ i = 6
      <4>1. /\ Cell(k, 2 * i - 1) = c + 27 /\ Cell(k, 2 * i - 1) - 1 = c + 26
            /\ Cell(k, 2 * i - 1) + 1 = c + 28
        BY <3>3, <3>5
      <4> QED BY <3>1, <3>4, <4>1, MfmMissing
    <3>7. c = 16 * (k - 1)
      BY <3>3, <3>5, <3>6 DEF Cell
    <3>8. k # GapSync
      <4> SUFFICES ASSUME k = GapSync PROVE FALSE  OBVIOUS
      <4>1. /\ c + 2 = Cell(GapSync - 1, 2) /\ GapSync - 1 \in 0 .. N - 1
            /\ GapSync - 1 + 1 = GapSync /\ GapSync \in 1 .. GapSync
            /\ 2 \in 1 .. 16 /\ 1 \in 1 .. 8 /\ 2 * 1 = 2
        BY <1>1, <3>7 DEF Cell
      <4>2. Synced(GapSync - 1)[2] = 1
        BY <3>1, <4>1, TrackCells
      <4>3. Synced(GapSync - 1)[2] = plain[GapSync][1] /\ plain[GapSync] = Zero
        BY <1>1, <4>1, PatchedWords
      <4> QED BY <4>2, <4>3, Constants
    <3> QED BY <1>1, <3>6, <3>7, <3>8
  <2>3. CASE c % 2 # 0
    <3>1. track'[c + 19] = 0 /\ track'[c + 20] = 0 /\ track'[c + 21] = 0 /\ track'[c + 27] = 0
      BY <2>1, Constants
    <3>2. c + 20 \in 1 .. 16 * N
      BY <1>1
    <3>3. PICK k \in 0 .. N - 1, j \in 1 .. 16 : c + 20 = Cell(k, j)
      BY <1>1, <3>2, CellOf
    <3>4. k \in 1 .. N - 1 /\ \E i \in 1 .. 8 : j = 2 * i - 1
      <4>1. (16 * k + j) % 2 = 1 /\ 16 * k + j >= 20
        BY <1>1, <2>3, <3>3 DEF Cell
      <4>2. j % 2 = 1
        BY <4>1
      <4>3. (j + 1) \div 2 \in 1 .. 8 /\ j = 2 * ((j + 1) \div 2) - 1
        BY <4>2
      <4> QED BY <1>1, <4>1, <4>3
    <3>5. PICK i \in 1 .. 8 : j = 2 * i - 1
      BY <3>4
    <3>6. k \in GapSync .. GapSync + 2 /\ i = 6
      <4>1. /\ Cell(k, 2 * i - 1) = c + 20 /\ Cell(k, 2 * i - 1) - 1 = c + 19
            /\ Cell(k, 2 * i - 1) + 1 = c + 21
        BY <3>3, <3>5
      <4> QED BY <3>1, <3>4, <4>1, MfmMissing
    <3>7. /\ c + 27 = Cell(k + 1, 2) /\ k + 1 \in 0 .. N - 1 /\ 2 \in 1 .. 16
          /\ 1 \in 1 .. 8 /\ 2 * 1 = 2 /\ k + 1 + 1 = k + 2
      BY <1>1, <3>3, <3>5, <3>6 DEF Cell
    <3>8. Synced(k + 1)[2] = 0 /\ Synced(k + 1)[2] = plain[k + 2][1]
      <4>1. Synced(k + 1)[2] = 0
        BY <3>1, <3>7, TrackCells
      <4> QED BY <1>1, <3>7, <4>1, PatchedWords
    <3>9. plain[k + 2] = ByteOf(161) \/ plain[k + 2] = ByteOf(251)
      <4>1. k + 1 \in GapSync .. GapSync + 2 \/ k + 2 = GapSync + 4
        BY <1>1, <3>6
      <4> QED BY <1>1, <3>7, <4>1, PatchedWords
    <3> QED BY <3>8, <3>9, Constants
  <2> QED BY <2>2, <2>3
<1>3. ASSUME NEW k \in GapSync .. GapSync + 1, c = 16 * k PROVE IsSync(track', c)
  <2>1. ASSUME NEW j \in 1 .. 32 PROVE track'[c + j] = MfmSync[((j - 1) % 16) + 1]
    <3>1. CASE j <= 16
      <4>1. c + j = Cell(k, j) /\ j \in 1 .. 16 /\ k \in 0 .. N - 1 /\ ((j - 1) % 16) + 1 = j
            /\ k \in GapSync .. GapSync + 2
        BY <1>1, <1>3, <3>1 DEF Cell
      <4> QED BY <1>1, <4>1, TrackCells, PatchedWords
    <3>2. CASE j > 16
      <4>1. /\ c + j = Cell(k + 1, j - 16) /\ j - 16 \in 1 .. 16 /\ k + 1 \in 0 .. N - 1
            /\ ((j - 1) % 16) + 1 = j - 16 /\ k + 1 \in GapSync .. GapSync + 2
        BY <1>1, <1>3, <3>2 DEF Cell
      <4> QED BY <1>1, <4>1, TrackCells, PatchedWords
    <3> QED BY <3>1, <3>2
  <2> QED BY <2>1 DEF IsSync
<1>4. c = 16 * GapSync => IsSync(track', c)
  BY <1>1, <1>3
<1>5. c = 16 * GapSync + 16 => IsSync(track', c)
  <2>1. GapSync + 1 \in GapSync .. GapSync + 1 /\ 16 * (GapSync + 1) = 16 * GapSync + 16
    BY <1>1
  <2> QED BY <1>3, <2>1
<1> QED BY <1>2, <1>4, <1>5

\* In FM a clock bit is missing at cells 5, 7 and 9 of the mark only.
LEMMA FmMissing ==
  ASSUME IInv, PatchAndWrite, fmt = "fm", NEW z \in 1 .. 16 * NrWords(fmt),
         z % 2 = 1, track'[z] = 0
  PROVE  z \in {16 * GapSync + 5, 16 * GapSync + 7, 16 * GapSync + 9}
<1>1. pc = "patch" /\ NrWords(fmt) \in Nat /\ GapSync \in Nat
  BY SizeFacts, LayoutAssumption DEF PatchAndWrite
<1>2. PICK k \in 0 .. NrWords(fmt) - 1, j \in 1 .. 16 : z = Cell(k, j)
  BY <1>1, CellOf
<1>3. PICK i \in 1 .. 8 : j = 2 * i - 1
  <2>1. (16 * k + j) % 2 = 1
    BY <1>2 DEF Cell
  <2>2. j % 2 = 1
    BY <1>1, <2>1
  <2>3. (j + 1) \div 2 \in 1 .. 8 /\ j = 2 * ((j + 1) \div 2) - 1
    BY <2>2
  <2> QED BY <2>3
<1>4. Synced(k)[2 * i - 1] = 0
  BY <1>2, <1>3, TrackCells
<1>5. k = GapSync /\ FmSyncClk[i] = 0
  BY <1>1, <1>4, PatchedWords
<1>6. i \in {3, 4, 5}
  BY <1>5, Constants
<1> QED BY <1>1, <1>2, <1>3, <1>5, <1>6 DEF Cell

LEMMA FmSyncs ==
  ASSUME IInv, PatchAndWrite, fmt = "fm", NEW c \in 0 .. 16 * NrWords(fmt) - 32
  PROVE  IsSync(track', c) <=> c = 16 * GapSync - 17
<1> DEFINE N == NrWords(fmt)
<1>1. /\ pc = "patch" /\ N \in Nat /\ N > GapSync /\ GapSync \in Nat /\ GapSync >= 2
  BY SizeFacts, LayoutAssumption DEF PatchAndWrite
<1>2. ASSUME IsSync(track', c) PROVE c = 16 * GapSync - 17
  <2>1. /\ \A j \in 1 .. 17 : track'[c + j] = (j - 1) % 2
        /\ \A j \in 1 .. 8 : track'[c + 16 + 2 * j] = FmSyncClk[j]
    BY <1>2 DEF IsSync
  <2>2. CASE c % 2 = 0
    <3>1. track'[c + 1] = 0 /\ track'[c + 17] = 0
      BY <2>1
    <3>2. /\ c + 1 \in 1 .. 16 * N /\ (c + 1) % 2 = 1
          /\ c + 17 \in 1 .. 16 * N /\ (c + 17) % 2 = 1
      BY <1>1, <2>2
    <3>3. /\ c + 1 \in {16 * GapSync + 5, 16 * GapSync + 7, 16 * GapSync + 9}
          /\ c + 17 \in {16 * GapSync + 5, 16 * GapSync + 7, 16 * GapSync + 9}
      BY <3>1, <3>2, FmMissing
    <3> QED BY <1>1, <3>3
  <2>3. CASE c % 2 # 0
    <3>1. track'[c + 22] = 0 /\ track'[c + 26] = 0
      <4>1. /\ c + 16 + 2 * 3 = c + 22 /\ c + 16 + 2 * 5 = c + 26
            /\ FmSyncClk[3] = 0 /\ FmSyncClk[5] = 0
        BY Constants
      <4> QED BY <2>1, <4>1
    <3>2. /\ c + 22 \in 1 .. 16 * N /\ (c + 22) % 2 = 1
          /\ c + 26 \in 1 .. 16 * N /\ (c + 26) % 2 = 1
      BY <1>1, <2>3
    <3>3. /\ c + 22 \in {16 * GapSync + 5, 16 * GapSync + 7, 16 * GapSync + 9}
          /\ c + 26 \in {16 * GapSync + 5, 16 * GapSync + 7, 16 * GapSync + 9}
      BY <3>1, <3>2, FmMissing
    <3> QED BY <1>1, <3>3
  <2> QED BY <2>2, <2>3
<1>3. ASSUME c = 16 * GapSync - 17 PROVE IsSync(track', c)
  <2>1. ASSUME NEW i \in 1 .. 8
        PROVE  /\ track'[Cell(GapSync - 1, 2 * i)] = 0
               /\ track'[Cell(GapSync - 1, 2 * i - 1)] = 1
               /\ track'[Cell(GapSync, 2 * i - 1)] = FmSyncClk[i]
    <3>1. /\ GapSync - 1 \in 0 .. N - 1 /\ GapSync \in 0 .. N - 1
          /\ GapSync - 1 + 1 = GapSync /\ GapSync \in 1 .. GapSync
          /\ 2 * i \in 1 .. 16 /\ 2 * i - 1 \in 1 .. 16
      BY <1>1
    <3>2. plain[GapSync] = Zero /\ Zero[i] = 0
      BY <1>1, <3>1, PatchedWords, Constants
    <3>3. /\ Synced(GapSync - 1)[2 * i] = 0 /\ Synced(GapSync - 1)[2 * i - 1] = 1
          /\ Synced(GapSync)[2 * i - 1] = FmSyncClk[i]
      BY <1>1, <3>1, <3>2, PatchedWords
    <3> QED BY <3>1, <3>3, TrackCells
  <2>2. track'[c + 1] = 0
    <3>1. /\ GapSync - 2 \in 0 .. N - 1 /\ GapSync - 2 + 1 = GapSync - 1
          /\ GapSync - 1 \in 1 .. GapSync /\ c + 1 = Cell(GapSync - 2, 16)
          /\ 16 \in 1 .. 16 /\ 8 \in 1 .. 8 /\ 2 * 8 = 16
      BY <1>1, <1>3 DEF Cell
    <3>2. Synced(GapSync - 2)[16] = plain[GapSync - 1][8] /\ plain[GapSync - 1] = Zero
      BY <1>1, <3>1, PatchedWords
    <3>3. track'[c + 1] = Synced(GapSync - 2)[16]
      BY <3>1, TrackCells
    <3> QED BY <3>2, <3>3, Constants
  <2>3. ASSUME NEW j \in 1 .. 17 PROVE track'[c + j] = (j - 1) % 2
    <3>1. CASE j = 1
      BY <2>2, <3>1
    <3>2. CASE j # 1 /\ j % 2 = 0
      <4>1. /\ j \div 2 \in 1 .. 8 /\ c + j = Cell(GapSync - 1, 2 * (j \div 2) - 1)
            /\ (j - 1) % 2 = 1
        BY <1>1, <1>3, <3>2 DEF Cell
      <4> QED BY <2>1, <4>1
    <3>3. CASE j # 1 /\ j % 2 # 0
      <4>1. /\ (j - 1) \div 2 \in 1 .. 8 /\ c + j = Cell(GapSync - 1, 2 * ((j - 1) \div 2))
            /\ (j - 1) % 2 = 0
        BY <1>1, <1>3, <3>3 DEF Cell
      <4> QED BY <2>1, <4>1
    <3> QED BY <3>1, <3>2, <3>3
  <2>4. ASSUME NEW j \in 1 .. 8 PROVE track'[c + 16 + 2 * j] = FmSyncClk[j]
    <3>1. c + 16 + 2 * j = Cell(GapSync, 2 * j - 1)
      BY <1>1, <1>3 DEF Cell
    <3> QED BY <2>1, <3>1
  <2> QED BY <2>3, <2>4 DEF IsSync
<1> QED BY <1>2, <1>3

\* On an undamaged track the search finds the mark and nothing else, whatever
\* bytes the sector holds and however long it is.
THEOREM SyncOnlyAtMark == Spec => []SyncAtMark
<1>1. Init => SyncAtMark
  BY DEF Init, SyncAtMark
<1>2. ASSUME IInv, PatchAndWrite PROVE SyncAtMark'
  <2> DEFINE N == NrWords(fmt)
  <2>1. /\ N \in Nat /\ N > GapSync /\ GapSync \in Nat /\ GapSync >= 2
        /\ fmt = "mfm" => N > GapSync + 3
        /\ fmt \in {"mfm", "fm"} /\ fmt' = fmt
    BY <1>2, SizeFacts, LayoutAssumption, FormatAssumption DEF IInv, PatchAndWrite
  <2>2. Len(track') = 16 * N
    <3>1. DOMAIN track' = 1 .. 16 * N
      BY <1>2 DEF PatchAndWrite
    <3>2. track' \in [1 .. 16 * N -> Bit]
      BY <1>2, PatchIInv, <2>1 DEF IInv, PatchAndWrite
    <3> QED BY <2>1, <3>1, <3>2
  <2>3. Syncs(track') = {c \in 0 .. 16 * N - 32 : IsSync(track', c)}
    BY <2>2 DEF Syncs
  <2>4. CASE fmt = "mfm"
    <3>1. 16 * GapSync \in 0 .. 16 * N - 32 /\ 16 * GapSync + 16 \in 0 .. 16 * N - 32
      BY <2>1, <2>4
    <3>2. Syncs(track') = {16 * GapSync, 16 * GapSync + 16}
      BY <1>2, <2>3, <2>4, <3>1, MfmSyncs
    <3> QED BY <2>1, <2>4, <3>2 DEF SyncAtMark, Syncs, IsSync
  <2>5. CASE fmt = "fm"
    <3>1. 16 * GapSync - 17 \in 0 .. 16 * N - 32
      BY <2>1, <2>5
    <3>2. Syncs(track') = {16 * GapSync - 17}
      BY <1>2, <2>3, <2>5, <3>1, FmSyncs
    <3> QED BY <2>1, <2>5, <3>2 DEF SyncAtMark, Syncs, IsSync
  <2> QED BY <2>1, <2>4, <2>5
<1>3. ASSUME SyncAtMark, [Next]_vars, ~PatchAndWrite PROVE SyncAtMark'
  <2>1. CASE UNCHANGED vars
    BY <1>3, <2>1 DEF vars, SyncAtMark, Syncs, IsSync
  <2>2. CASE Next
    <3>1. pc' # "disk"
      BY <1>3, <2>2 DEF Next, Generate, Convert, Encode, CheckWritten, Damage, Read,
                        Missed, Decode, CheckBytes, Return
    <3> QED BY <3>1 DEF SyncAtMark
  <2> QED BY <1>3, <2>1, <2>2
<1>4. IInv /\ SyncAtMark /\ [Next]_vars => SyncAtMark'
  BY <1>2, <1>3
<1> QED BY InitIInv, NextIInv, <1>1, <1>4, PTL DEF Spec

(***************************************************************************)
(* Long intervals.  Of six cells with no reversal two in the middle would  *)
(* be clock bits missing, two cells apart.                                 *)
(***************************************************************************)
NoIntervalLong == pc = "disk" => \A i \in DOMAIN track : ~LongFrom(i)

\* the first word, which comes after a byte that is not known
LEMMA FirstCells ==
  ASSUME IInv, PatchAndWrite, fmt = "mfm", NEW i \in 2 .. 8
  PROVE  track'[2 * i - 1] = 1
<1>1. /\ pc = "patch" /\ NrWords(fmt) \in Nat /\ NrWords(fmt) > GapSync
      /\ GapSync \in Nat /\ GapSync >= 2
  BY SizeFacts, LayoutAssumption DEF PatchAndWrite
<1>2. Laying /\ Converted(0)
  BY <1>1 DEF IInv
<1>3. 0 \in 0 .. NrWords(fmt) - 1 /\ 1 \in 1 .. GapSync /\ 0 + 1 = 1
  BY <1>1
<1>4. plain[1] = Zero /\ Zero \in Byte
  BY <1>2, <1>3, ByteOfIsByte DEF Laying, Zero
<1>5. PICK last \in Bit : WordAt(mem, 0) = Mfm(Zero, last)
  BY <1>2, <1>3, <1>4 DEF Converted, Code
<1>6. Synced(0) = WordAt(mem, 0)
  BY <1>1 DEF Synced
<1>7. i - 1 \in 1 .. 8 /\ i \in 1 .. 8
  OBVIOUS
<1>8. Zero[i - 1] = 0 /\ Zero[i] = 0
  BY <1>7, Constants
<1>9. Synced(0)[2 * i - 1] = 1
  BY <1>4, <1>5, <1>6, <1>8, CodeCells
<1>10. Cell(0, 2 * i - 1) = 2 * i - 1 /\ 2 * i - 1 \in 1 .. 16
  BY DEF Cell
<1> QED
  BY <1>3, <1>9, <1>10, TrackCells

\* a clock cell of the track
LEMMA ClockCell ==
  ASSUME NEW n \in Nat, NEW z \in 1 .. 16 * n, z % 2 = 1
  PROVE  \E k \in 0 .. n - 1, i \in 1 .. 8 : z = Cell(k, 2 * i - 1)
<1>1. PICK k \in 0 .. n - 1, j \in 1 .. 16 : z = Cell(k, j)
  BY CellOf
<1>2. (16 * k + j) % 2 = 1
  BY <1>1 DEF Cell
<1>3. j % 2 = 1
  BY <1>2
<1>4. (j + 1) \div 2 \in 1 .. 8 /\ j = 2 * ((j + 1) \div 2) - 1
  BY <1>3
<1> QED
  BY <1>1, <1>4

LEMMA MfmIntervals ==
  ASSUME IInv, PatchAndWrite, fmt = "mfm", NEW z \in Nat, z >= 2, z + 5 <= 16 * NrWords(fmt)
  PROVE  \E j \in z .. z + 5 : track'[j] # 0
<1> DEFINE N == NrWords(fmt)
<1>1. N \in Nat /\ GapSync \in Nat
  BY SizeFacts, LayoutAssumption
<1> SUFFICES ASSUME \A j \in z .. z + 5 : track'[j] = 0 PROVE FALSE
  OBVIOUS
<1>2. ASSUME NEW y \in Nat, y % 2 = 1, y >= 17, y + 1 <= 16 * N,
             track'[y - 1] = 0, track'[y] = 0, track'[y + 1] = 0
      PROVE  y % 16 = 11
  <2>1. PICK k \in 0 .. N - 1, i \in 1 .. 8 : y = Cell(k, 2 * i - 1)
    BY <1>1, <1>2, ClockCell
  <2>2. k \in 1 .. N - 1
    BY <1>1, <1>2, <2>1 DEF Cell
  <2>3. i = 6
    BY <1>2, <2>1, <2>2, MfmMissing
  <2> QED
    BY <2>1, <2>2, <2>3 DEF Cell
<1>3. CASE z <= 15
  <2>1. PICK y \in {z, z + 1} : y % 2 = 1
    OBVIOUS
  <2>2. y \in 3 .. 15 /\ y \in z .. z + 5
    BY <1>3, <2>1
  <2>3. (y + 1) \div 2 \in 2 .. 8 /\ y = 2 * ((y + 1) \div 2) - 1
    BY <2>1, <2>2
  <2>4. track'[y] = 1
    BY <2>3, FirstCells
  <2> QED
    BY <2>2, <2>4
<1>4. CASE z > 15
  <2>1. PICK y \in {z + 1, z + 2} : y % 2 = 1
    OBVIOUS
  <2>2. /\ y \in Nat /\ y >= 17 /\ y + 3 <= 16 * N /\ (y + 2) % 2 = 1
        /\ y - 1 \in z .. z + 5 /\ y \in z .. z + 5 /\ y + 1 \in z .. z + 5
        /\ y + 2 \in z .. z + 5 /\ y + 3 \in z .. z + 5
    BY <1>4, <2>1, <1>1
  <2>3. y % 16 = 11
    <3>1. track'[y - 1] = 0 /\ track'[y] = 0 /\ track'[y + 1] = 0 /\ y + 1 <= 16 * N
      BY <1>1, <2>2
    <3> QED
      BY <1>2, <2>1, <2>2, <3>1
  <2>4. (y + 2) % 16 = 11
    <3>1. /\ y + 2 \in Nat /\ y + 2 >= 17 /\ (y + 2) + 1 <= 16 * N
          /\ (y + 2) - 1 = y + 1 /\ (y + 2) + 1 = y + 3
      BY <2>2
    <3>2. track'[(y + 2) - 1] = 0 /\ track'[y + 2] = 0 /\ track'[(y + 2) + 1] = 0
      BY <2>2, <3>1
    <3> QED
      BY <1>2, <2>2, <3>1, <3>2
  <2> QED
    BY <2>2, <2>3, <2>4
<1> QED
  BY <1>3, <1>4

LEMMA FmIntervals ==
  ASSUME IInv, PatchAndWrite, fmt = "fm", NEW z \in Nat, z >= 2, z + 5 <= 16 * NrWords(fmt)
  PROVE  \E j \in z .. z + 5 : track'[j] # 0
<1> DEFINE N == NrWords(fmt)
<1>1. /\ pc = "patch" /\ N \in Nat /\ GapSync \in Nat /\ N > GapSync
  BY SizeFacts, LayoutAssumption DEF PatchAndWrite
<1> SUFFICES ASSUME \A j \in z .. z + 5 : track'[j] = 0 PROVE FALSE
  OBVIOUS
<1>2. PICK y \in {z, z + 1} : y % 2 = 1
  OBVIOUS
<1>3. /\ y \in 1 .. 16 * N /\ y + 2 \in 1 .. 16 * N /\ (y + 2) % 2 = 1
      /\ y \in z .. z + 5 /\ y + 1 \in z .. z + 5 /\ y + 2 \in z .. z + 5
  BY <1>1, <1>2
<1>4. /\ y \in {16 * GapSync + 5, 16 * GapSync + 7, 16 * GapSync + 9}
      /\ y + 2 \in {16 * GapSync + 5, 16 * GapSync + 7, 16 * GapSync + 9}
  BY <1>2, <1>3, FmMissing
<1>5. PICK i \in {3, 4} : y + 1 = Cell(GapSync, 2 * i)
  <2>1. y + 1 = 16 * GapSync + 2 * 3 \/ y + 1 = 16 * GapSync + 2 * 4
    BY <1>1, <1>3, <1>4
  <2> QED
    BY <2>1 DEF Cell
<1>6. GapSync \in 0 .. N - 1 /\ i \in 1 .. 8 /\ 2 * i \in 1 .. 16
  BY <1>1, <1>5
<1>7. Synced(GapSync)[2 * i] = 0
  BY <1>3, <1>5, <1>6, TrackCells
<1>8. plain[GapSync + 1] = ByteOf(251)
  <2>1. Len(Mark(fmt)) = 1 /\ Mark(fmt)[1] = ByteOf(251)
    BY DEF Mark
  <2>2. Laying
    BY <1>1 DEF IInv
  <2> QED
    BY <2>1, <2>2 DEF Laying
<1>9. plain[GapSync + 1][i] = 0
  BY <1>1, <1>6, <1>7, PatchedWords
<1>10. ByteOf(251)[i] = 1
  BY <1>5, Constants
<1> QED
  BY <1>8, <1>9, <1>10

\* A track that has just been written has no interval of more than six cells,
\* whatever bytes the sector holds and however long it is: an interval that is
\* warned of is damage.
THEOREM NoIntervalIsLong == Spec => []NoIntervalLong
<1>1. Init => NoIntervalLong
  BY DEF Init, NoIntervalLong
<1>2. ASSUME IInv, PatchAndWrite PROVE NoIntervalLong'
  <2>1. DOMAIN track' = 1 .. 16 * NrWords(fmt) /\ NrWords(fmt) \in Nat /\ fmt \in {"mfm", "fm"}
    BY <1>2, SizeFacts, FormatAssumption DEF IInv, PatchAndWrite
  <2> SUFFICES ASSUME NEW i \in DOMAIN track', LongFrom(i)' PROVE FALSE
    BY DEF NoIntervalLong
  <2>2. \A j \in i + 1 .. i + 6 : j \in DOMAIN track' /\ track'[j] = 0
    BY DEF LongFrom
  <2>3. i \in Nat /\ i >= 1 /\ i + 6 \in i + 1 .. i + 6
    BY <2>1
  <2> DEFINE z == i + 1
  <2>4. z \in Nat /\ z >= 2 /\ z + 5 = i + 6 /\ z + 5 <= 16 * NrWords(fmt)
    BY <2>1, <2>2, <2>3
  <2>5. \A j \in z .. z + 5 : track'[j] = 0
    BY <2>2, <2>4
  <2> HIDE DEF z
  <2> QED
    BY <1>2, <2>1, <2>4, <2>5, MfmIntervals, FmIntervals
<1>3. ASSUME NoIntervalLong, [Next]_vars, ~PatchAndWrite PROVE NoIntervalLong'
  <2>1. CASE UNCHANGED vars
    BY <1>3, <2>1 DEF vars, NoIntervalLong, LongFrom
  <2>2. CASE Next
    <3>1. pc' # "disk"
      BY <1>3, <2>2 DEF Next, Generate, Convert, Encode, CheckWritten, Damage, Read,
                        Missed, Decode, CheckBytes, Return
    <3> QED BY <3>1 DEF NoIntervalLong
  <2> QED BY <1>3, <2>1, <2>2
<1>4. IInv /\ NoIntervalLong /\ [Next]_vars => NoIntervalLong'
  BY <1>2, <1>3
<1> QED BY InitIInv, NextIInv, <1>1, <1>4, PTL DEF Spec

(***************************************************************************)
(* The words of a field.  What read_sector() takes is right if and only if its *)
(* bytes are the field that was laid out, and its clock bits are those of  *)
(* these bytes.                                                            *)
(***************************************************************************)
\* the field in the buffer, from the mark to its sum
Summed(f, d) ==
  LET body == Mark(f) \o d IN body \o BytesOf(crc16_ccitt(body))

\* the words in front of the mark that read_sector() takes with it, and those
\* whose clock bits it does not check
Off(f) == IF f = "mfm" THEN 0 ELSE 1
First(f) == IF f = "mfm" THEN 3 ELSE 2

\* three times 0xa1 and 0xfb, or 0xfb
LEMMA MarkFacts ==
  /\ \A f : Mark(f) \in Seq(Byte) /\ Len(Mark(f)) = IF f = "mfm" THEN 4 ELSE 1
  /\ \A k \in 1 .. 3 : Mark("mfm")[k] = ByteOf(161)
  /\ Mark("mfm")[4] = ByteOf(251)
  /\ \A f : f # "mfm" => Mark(f)[1] = ByteOf(251)
<1>1. Zero \in Byte /\ ByteOf(161) \in Byte /\ ByteOf(251) \in Byte
  BY ByteOfIsByte DEF Zero
<1> QED
  BY <1>1 DEF Mark, Rep

\* A sum is laid out as two bytes.
LEMMA BytesOfIsBytes == \A r : BytesOf(r) \in Seq(Byte) /\ Len(BytesOf(r)) = 2
<1> TAKE r
<1>1. BytesOf(r)[1] \in Byte /\ BytesOf(r)[2] \in Byte
  BY DEF BytesOf, Byte, Bit
<1> QED
  BY <1>1 DEF BytesOf

\* The field is the mark, the data and the sum, and all of it is in the buffer.
LEMMA FieldSizes ==
  \A f : /\ FieldLen(f) \in Nat /\ Off(f) \in Nat /\ First(f) \in Nat /\ First(f) > Off(f)
         /\ FieldLen(f) > First(f) /\ First(f) = Off(f) + Len(Mark(f)) - (1 - Off(f))
         /\ FieldLen(f) - Off(f) = Len(Mark(f)) + DataLen + 2
         /\ GapSync + (FieldLen(f) - Off(f)) <= NrWords(f)
<1> TAKE f
<1>1. Len(Mark(f)) = IF f = "mfm" THEN 4 ELSE 1
  BY MarkFacts
<1>2. Pad(f) \in Nat /\ GapSync \in Nat /\ Gap3 \in Nat /\ DataLen \in Nat
  BY SizeFacts, LayoutAssumption
<1>3. GapSync + (Len(Mark(f)) + DataLen + 2) <= NrWords(f)
  BY <1>1, <1>2 DEF NrWords
<1> QED
  BY <1>1, <1>2, <1>3 DEF FieldLen, Off, First

\* The field is in the buffer behind the gap, and its sum with it.
LEMMA LaidField ==
  ASSUME NEW f, NEW d \in [1 .. DataLen -> Byte]
  PROVE  /\ Summed(f, d) \in Seq(Byte) /\ Len(Summed(f, d)) = FieldLen(f) - Off(f)
         /\ \A k \in 1 .. FieldLen(f) - Off(f) : Laid(f, d)[GapSync + k] = Summed(f, d)[k]
         /\ \A k \in 1 .. Len(Mark(f)) : Summed(f, d)[k] = Mark(f)[k]
         /\ \A k \in 1 .. DataLen : Summed(f, d)[Len(Mark(f)) + k] = d[k]
         /\ crc16_ccitt(Summed(f, d)) = {}
<1> DEFINE m    == Mark(f)
           body == m \o d
           crc  == BytesOf(crc16_ccitt(body))
           fill == Rep(Gap3 + Pad(f), ByteOf(IF f = "mfm" THEN 78 ELSE 255))
           gap  == Rep(GapSync, Zero)
<1>1. GapSync \in Nat /\ Gap3 + Pad(f) \in Nat /\ DataLen \in Nat
  BY LayoutAssumption, SizeFacts
<1>2. \A n \in Nat, b \in Byte : Rep(n, b) \in Seq(Byte) /\ Len(Rep(n, b)) = n
  BY DEF Rep
<1>3. gap \in Seq(Byte) /\ Len(gap) = GapSync
  BY <1>1, <1>2, ByteOfIsByte DEF Zero
<1>4. fill \in Seq(Byte)
  <2>1. ByteOf(IF f = "mfm" THEN 78 ELSE 255) \in Byte
    BY ByteOfIsByte
  <2> QED
    BY <1>1, <1>2, <2>1
<1>5. m \in Seq(Byte) /\ Len(m) \in Nat
  BY MarkFacts
<1>6. d \in Seq(Byte) /\ Len(d) = DataLen
  BY <1>1
<1>7. Laid(f, d) = ((gap \o body) \o crc) \o fill /\ Summed(f, d) = body \o crc
  BY DEF Laid, Summed
<1> HIDE DEF gap, fill, m
<1>8. /\ body \in Seq(Byte) /\ Len(body) = Len(m) + DataLen
      /\ \A k \in 1 .. Len(m) : body[k] = m[k]
      /\ \A k \in 1 .. DataLen : body[Len(m) + k] = d[k]
  BY <1>5, <1>6, Concatenation
<1>9. crc16_ccitt(body \o crc) = {}
  BY <1>8, SumOfSum
<1> HIDE DEF body
<1>10. crc \in Seq(Byte) /\ Len(crc) = 2
  BY BytesOfIsBytes
<1> HIDE DEF crc
<1>11. /\ body \o crc \in Seq(Byte) /\ Len(body \o crc) = Len(body) + Len(crc)
       /\ \A k \in 1 .. Len(body) : (body \o crc)[k] = body[k]
  BY <1>8, <1>10, Concatenation
<1>12. \A k \in 1 .. Len(body) + Len(crc) :
          (((gap \o body) \o crc) \o fill)[Len(gap) + k] = (body \o crc)[k]
  <2> TAKE k \in 1 .. Len(body) + Len(crc)
  <2> DEFINE p == gap \o body
             q == p \o crc
  <2>1. /\ p \in Seq(Byte) /\ Len(p) = Len(gap) + Len(body)
        /\ \A i \in 1 .. Len(body) : p[Len(gap) + i] = body[i]
    BY <1>3, <1>8, Concatenation
  <2> HIDE DEF p
  <2>2. /\ q \in Seq(Byte) /\ Len(q) = Len(p) + Len(crc)
        /\ \A i \in 1 .. Len(p) : q[i] = p[i]
        /\ \A i \in 1 .. Len(crc) : q[Len(p) + i] = crc[i]
    BY <1>10, <2>1, Concatenation
  <2> HIDE DEF q
  <2>3. \A i \in 1 .. Len(q) : (q \o fill)[i] = q[i]
    BY <1>4, <2>2, Concatenation
  <2>4. /\ body \o crc \in Seq(Byte) /\ Len(body \o crc) = Len(body) + Len(crc)
        /\ \A i \in 1 .. Len(body) : (body \o crc)[i] = body[i]
        /\ \A i \in 1 .. Len(crc) : (body \o crc)[Len(body) + i] = crc[i]
    BY <1>8, <1>10, Concatenation
  <2>5. Len(gap) \in Nat /\ Len(body) \in Nat /\ Len(crc) \in Nat
    BY <1>3, <1>8, <1>10
  <2>6. CASE k <= Len(body)
    <3>1. k \in 1 .. Len(body) /\ Len(gap) + k \in 1 .. Len(p) /\ Len(gap) + k \in 1 .. Len(q)
      BY <2>1, <2>2, <2>5, <2>6
    <3> QED
      BY <2>1, <2>2, <2>3, <2>4, <3>1
  <2>7. CASE k > Len(body)
    <3>1. PICK i \in 1 .. Len(crc) : k = Len(body) + i
      <4>1. k - Len(body) \in 1 .. Len(crc) /\ k = Len(body) + (k - Len(body))
        BY <2>5, <2>7
      <4> QED
        BY <4>1
    <3>2. Len(gap) + k = Len(p) + i /\ Len(p) + i \in 1 .. Len(q)
      BY <2>1, <2>2, <2>5, <3>1
    <3> QED
      BY <2>2, <2>3, <2>4, <3>1, <3>2
  <2> QED
    BY <2>5, <2>6, <2>7 DEF p, q
<1>13. FieldLen(f) - Off(f) = Len(m) + DataLen + 2
  BY FieldSizes DEF m
<1>14. Len(body) + Len(crc) = FieldLen(f) - Off(f)
  BY <1>1, <1>5, <1>8, <1>10, <1>13
<1>15. \A k \in 1 .. FieldLen(f) - Off(f) : Laid(f, d)[GapSync + k] = Summed(f, d)[k]
  BY <1>3, <1>7, <1>12, <1>14
<1>16. \A k \in 1 .. Len(m) : Summed(f, d)[k] = m[k]
  <2>1. \A k \in 1 .. Len(m) : k \in 1 .. Len(body)
    BY <1>1, <1>5, <1>8
  <2> QED
    BY <1>7, <1>8, <1>11, <2>1
<1>17. \A k \in 1 .. DataLen : Summed(f, d)[Len(m) + k] = d[k]
  <2>1. \A k \in 1 .. DataLen : Len(m) + k \in 1 .. Len(body)
    BY <1>1, <1>5, <1>8
  <2> QED
    BY <1>7, <1>8, <1>11, <2>1
<1> QED
  BY <1>7, <1>9, <1>11, <1>14, <1>15, <1>16, <1>17 DEF m

\* word k of the field as write_sector() leaves it
SentWord(f, d, k) ==
  LET i == GapSync - Off(f) + k
  IN  IF f = "mfm" /\ k <= 3 THEN MfmSync
      ELSE IF f = "fm" /\ k = 2 THEN fm_sync(ByteOf(251), FmSyncClk)
      ELSE Code(f, Laid(f, d)[i], Laid(f, d)[i - 1][8])

\* w: the words that read_sector() takes, f the format, d what was written
Bin(f, w) == [i \in 1 .. FieldLen(f) - Off(f) |-> mfmtobin(w[i - 1 + Off(f)])]

\* no word has a wrong clock bit
Clocked(f, w) ==
  \A k \in First(f) .. FieldLen(f) - 1 :
     w[k] = Code(f, mfmtobin(w[k]), IF k = First(f) THEN w[k - 1][8] ELSE w[k - 1][16])

\* what the search has compared of an FM mark
MarkCells(f, w) == f = "fm" => /\ w[0] = Fm(Zero)
                               /\ \A i \in 1 .. 8 : w[1][2 * i - 1] = FmSyncClk[i]

\* no word but with the data bits, and behind the mark the clock bits, it was
\* written with
AsSent(f, d, w) ==
  \A k \in 1 .. FieldLen(f) :
     IF f = "mfm" /\ k <= 3 THEN mfmtobin(w[k - 1]) = mfmtobin(SentWord(f, d, k))
     ELSE w[k - 1] = SentWord(f, d, k)

\* what is decoded are bytes
LEMMA BinIsBytes ==
  ASSUME NEW f, NEW w \in [0 .. FieldLen(f) - 1 -> Word]
  PROVE  Bin(f, w) \in Seq(Byte) /\ Len(Bin(f, w)) = FieldLen(f) - Off(f)
<1>1. FieldLen(f) \in Nat /\ Off(f) \in Nat /\ FieldLen(f) - Off(f) \in Nat
  BY FieldSizes
<1>2. \A i \in 1 .. FieldLen(f) - Off(f) : mfmtobin(w[i - 1 + Off(f)]) \in Byte
  <2> TAKE i \in 1 .. FieldLen(f) - Off(f)
  <2>1. i - 1 + Off(f) \in 0 .. FieldLen(f) - 1
    BY <1>1
  <2>2. w[i - 1 + Off(f)] \in Word
    BY <2>1
  <2> DEFINE word == w[i - 1 + Off(f)]
  <2> HIDE DEF word
  <2>3. \A j \in 1 .. 8 : 2 * j \in 1 .. 16
    OBVIOUS
  <2>4. word \in [1 .. 16 -> Bit]
    BY <2>2 DEF word, Word
  <2>5. \A j \in 1 .. 8 : word[2 * j] \in Bit
    BY <2>3, <2>4
  <2>6. mfmtobin(word) \in Byte
    BY <2>5 DEF mfmtobin, Byte
  <2> QED
    BY <2>6 DEF word
<1>3. \A n \in Nat : \A s \in [1 .. n -> Byte] : s \in Seq(Byte) /\ Len(s) = n
  OBVIOUS
<1>4. Bin(f, w) \in [1 .. FieldLen(f) - Off(f) -> Byte]
  <2> DEFINE n == FieldLen(f) - Off(f)
             b(i) == mfmtobin(w[i - 1 + Off(f)])
  <2>1. \A i \in 1 .. n : b(i) \in Byte
    BY <1>2
  <2>2. Bin(f, w) = [i \in 1 .. n |-> b(i)]
    BY DEF Bin
  <2> HIDE DEF n, b
  <2>3. Bin(f, w) \in [1 .. n -> Byte]
    BY <2>1, <2>2
  <2> QED
    BY <2>3 DEF n
<1> QED
  BY <1>1, <1>3, <1>4

\* The first data bit of 0xfb is set: the word does not depend on what is before it.
LEMMA MarkAlone == \A l \in Bit : Mfm(ByteOf(251), l) = mfmtab(ByteOf(251))
<1> SUFFICES ASSUME NEW l \in Bit PROVE Mfm(ByteOf(251), l) = mfmtab(ByteOf(251))
  OBVIOUS
<1> DEFINE b == ByteOf(251)
           clk == [i \in 1 .. 8 |-> IF b[i] = 0 /\ (i = 1 \/ b[i - 1] = 0) THEN 1 ELSE 0]
<1>1. b[1] = 1
  BY Constants
<1> HIDE DEF b
<1>2. clk[1] = 0
  BY <1>1
<1>3. mfmtab(b) = Cells(clk, b)
  BY DEF mfmtab
<1> HIDE DEF clk
<1>4. mfmtab(b)[1] = 0
  BY <1>2, <1>3 DEF Cells
<1>5. mfmtab(b) = [j \in 1 .. 16 |-> mfmtab(b)[j]]
  BY <1>3 DEF Cells
<1>6. Mfm(b, l) = mfmtab(b)
  BY <1>4, <1>5 DEF Mfm
<1> QED
  BY <1>6 DEF b

\* SentWord, but for the marks
LEMMA SentWordIs ==
  ASSUME NEW f, NEW d, NEW k \in Int, ~(f = "mfm" /\ k <= 3), ~(f = "fm" /\ k = 2),
         NEW i, i = GapSync - Off(f) + k
  PROVE  SentWord(f, d, k) = Code(f, Laid(f, d)[i], Laid(f, d)[i - 1][8])
BY DEF SentWord

\* The words that are written convert to the field, each after the byte before.
LEMMA SentWords ==
  ASSUME NEW f \in {"mfm", "fm"}, NEW d \in [1 .. DataLen -> Byte]
  PROVE  /\ \A k \in 1 .. FieldLen(f) - Off(f) : Summed(f, d)[k] \in Byte
         /\ \A k \in 1 .. FieldLen(f) - Off(f) :
              mfmtobin(SentWord(f, d, k + Off(f))) = Summed(f, d)[k]
         /\ f = "mfm" => /\ \A k \in 4 .. FieldLen(f) :
                              /\ Summed(f, d)[k - 1][8] \in Bit
                              /\ SentWord(f, d, k) = Mfm(Summed(f, d)[k], Summed(f, d)[k - 1][8])
                         /\ Summed(f, d)[4] = ByteOf(251)
         /\ f = "fm" => /\ SentWord(f, d, 1) = Fm(Zero)
                        /\ SentWord(f, d, 2) = Cells(FmSyncClk, ByteOf(251))
                        /\ Summed(f, d)[1] = ByteOf(251)
                        /\ \A k \in 3 .. FieldLen(f) : SentWord(f, d, k) = Fm(Summed(f, d)[k - 1])
<1> DEFINE L == Laid(f, d)
           s == Summed(f, d)
           n == FieldLen(f)
           o == Off(f)
<1>1. /\ s \in Seq(Byte) /\ Len(s) = n - o
      /\ \A k \in 1 .. n - o : L[GapSync + k] = s[k]
      /\ \A k \in 1 .. Len(Mark(f)) : s[k] = Mark(f)[k]
  BY LaidField
<1>2. L \in [1 .. NrWords(f) -> Byte] /\ \A k \in 1 .. GapSync : L[k] = Zero
  BY LaidIsBytes
<1>3. /\ n \in Nat /\ o = (IF f = "mfm" THEN 0 ELSE 1) /\ GapSync \in Nat /\ GapSync >= 2
      /\ n > (IF f = "mfm" THEN 3 ELSE 2)
  BY FieldSizes, LayoutAssumption DEF Off, First
<1> HIDE DEF L, s, n, o
<1>4. \A k \in 1 .. n - o : s[k] \in Byte
  BY <1>1
<1>5. CASE f = "mfm"
  <2>1. \A k \in 1 .. 3 : s[k] = ByteOf(161)
    BY <1>1, <1>5, MarkFacts
  <2>2. s[4] = ByteOf(251)
    BY <1>1, <1>5, MarkFacts
  <2>3. ASSUME NEW k \in 4 .. n
        PROVE  s[k - 1][8] \in Bit /\ SentWord(f, d, k) = Mfm(s[k], s[k - 1][8])
    <3> DEFINE i == GapSync + k
    <3>1. k \in 1 .. n - o /\ k - 1 \in 1 .. n - o /\ GapSync + (k - 1) = i - 1 /\ ~(k <= 3)
      BY <1>3, <1>5
    <3>2. L[i] = s[k] /\ L[i - 1] = s[k - 1]
      BY <1>1, <3>1
    <3>3. i = GapSync - Off(f) + k /\ k \in Int
      BY <1>3, <1>5 DEF o
    <3> HIDE DEF i
    <3>4. SentWord(f, d, k) = Code(f, L[i], L[i - 1][8])
      BY <1>5, <3>1, <3>3, SentWordIs DEF L
    <3>5. s[k - 1] \in Byte
      BY <1>4, <3>1
    <3> QED
      BY <1>5, <3>2, <3>4, <3>5 DEF Code, Byte
  <2>4. ASSUME NEW k \in 1 .. n - o PROVE mfmtobin(SentWord(f, d, k + o)) = s[k]
    <3>1. CASE k <= 3
      <4>1. SentWord(f, d, k + o) = MfmSync
        BY <1>3, <1>5, <3>1 DEF SentWord
      <4>2. mfmtobin(MfmSync) = ByteOf(161)
        BY Constants DEF mfmtobin
      <4> QED
        BY <2>1, <3>1, <4>1, <4>2
    <3>2. CASE k > 3
      <4>1. k \in 4 .. n /\ k + o = k
        BY <1>3, <1>5, <3>2
      <4>2. SentWord(f, d, k + o) = Code(f, s[k], s[k - 1][8])
        BY <1>5, <2>3, <4>1 DEF Code
      <4> QED
        BY <1>4, <2>3, <4>1, <4>2, DecodeEncode
    <3> QED
      BY <3>1, <3>2
  <2> QED
    BY <1>4, <1>5, <2>2, <2>3, <2>4 DEF s, n, o
<1>6. CASE f = "fm"
  <2>1. s[1] = ByteOf(251)
    BY <1>1, <1>6, MarkFacts
  <2>2. SentWord(f, d, 1) = Fm(Zero)
    <3>1. GapSync - o + 1 = GapSync /\ GapSync \in 1 .. GapSync
      BY <1>3, <1>6
    <3>2. SentWord(f, d, 1) = Code(f, L[GapSync], L[GapSync - 1][8])
      BY <1>6, <3>1, SentWordIs DEF L, o
    <3> QED
      BY <1>2, <1>6, <3>1, <3>2 DEF Code
  <2>3. SentWord(f, d, 2) = Cells(FmSyncClk, ByteOf(251))
    BY <1>6 DEF SentWord, fm_sync
  <2>4. ASSUME NEW k \in 3 .. n PROVE SentWord(f, d, k) = Fm(s[k - 1])
    <3> DEFINE i == GapSync + (k - 1)
    <3>1. k - 1 \in 1 .. n - o /\ i = GapSync - Off(f) + k /\ k \in Int /\ k # 2
      BY <1>3, <1>6 DEF o
    <3>2. L[i] = s[k - 1]
      BY <1>1, <3>1
    <3> HIDE DEF i
    <3>3. SentWord(f, d, k) = Code(f, L[i], L[i - 1][8])
      BY <1>6, <3>1, SentWordIs DEF L
    <3> QED
      BY <1>6, <3>2, <3>3 DEF Code
  <2>5. ASSUME NEW k \in 1 .. n - o PROVE mfmtobin(SentWord(f, d, k + o)) = s[k]
    <3>1. CASE k = 1
      <4>1. SentWord(f, d, k + o) = Cells(FmSyncClk, ByteOf(251))
        BY <1>3, <1>6, <2>3, <3>1
      <4>2. FmSyncClk \in Byte /\ ByteOf(251) \in Byte
        BY ByteOfIsByte DEF FmSyncClk
      <4> QED
        BY <2>1, <3>1, <4>1, <4>2, CellsIsWord
    <3>2. CASE k # 1
      <4>1. k + o \in 3 .. n /\ (k + o) - 1 = k
        BY <1>3, <1>6, <3>2
      <4>2. SentWord(f, d, k + o) = Fm(s[k])
        BY <2>4, <4>1
      <4>3. Fm(s[k]) = Code(f, s[k], 0) /\ s[k] \in Byte /\ 0 \in Bit
        BY <1>4, <1>6 DEF Code, Bit
      <4> QED
        BY <4>2, <4>3, DecodeEncode
    <3> QED
      BY <3>1, <3>2
  <2> QED
    BY <1>4, <1>6, <2>1, <2>2, <2>3, <2>4, <2>5 DEF s, n, o
<1> QED
  BY <1>5, <1>6

\* the byte that word k converts to
LEMMA BinAt ==
  ASSUME NEW f, NEW w, NEW k \in 0 .. FieldLen(f) - 1, k >= Off(f)
  PROVE  /\ k + 1 - Off(f) \in 1 .. FieldLen(f) - Off(f)
         /\ Bin(f, w)[k + 1 - Off(f)] = mfmtobin(w[k])
<1>1. FieldLen(f) \in Nat /\ Off(f) \in Nat
  BY FieldSizes
<1>2. k + 1 - Off(f) \in 1 .. FieldLen(f) - Off(f) /\ (k + 1 - Off(f)) - 1 + Off(f) = k
  BY <1>1
<1> QED
  BY <1>2 DEF Bin

\* the cells of a word, clock and data
LEMMA WordOf ==
  ASSUME NEW w \in Word, NEW c \in Byte, NEW b \in Byte,
         \A i \in 1 .. 8 : w[2 * i - 1] = c[i], mfmtobin(w) = b
  PROVE  w = Cells(c, b)
<1>1. \A i \in 1 .. 8 : w[2 * i] = b[i]
  BY DEF mfmtobin
<1>2. \A j \in 1 .. 16 : w[j] = Cells(c, b)[j]
  <2> TAKE j \in 1 .. 16
  <2>1. CASE j % 2 = 0
    <3>1. j \div 2 \in 1 .. 8 /\ 2 * (j \div 2) = j
      BY <2>1
    <3>2. w[j] = b[j \div 2]
      BY <1>1, <3>1
    <3> QED
      BY <2>1, <3>2 DEF Cells
  <2>2. CASE j % 2 # 0
    <3>1. (j + 1) \div 2 \in 1 .. 8 /\ 2 * ((j + 1) \div 2) - 1 = j
      BY <2>2
    <3>2. w[j] = c[(j + 1) \div 2]
      BY <3>1
    <3> QED
      BY <2>2, <3>2 DEF Cells
  <2> QED
    BY <2>1, <2>2
<1> QED
  BY <1>2 DEF Word, Cells

\* Right bytes and right clock bits are the words that were sent.
LEMMA RightBytesAreSent ==
  ASSUME NEW f \in {"mfm", "fm"}, NEW d \in [1 .. DataLen -> Byte],
         NEW w \in [0 .. FieldLen(f) - 1 -> Word],
         MarkCells(f, w), Clocked(f, w), Bin(f, w) = Summed(f, d)
  PROVE  AsSent(f, d, w)
<1> DEFINE n == FieldLen(f)
           o == Off(f)
           s == Summed(f, d)
<1>1. /\ n \in Nat /\ o = (IF f = "mfm" THEN 0 ELSE 1)
      /\ First(f) = (IF f = "mfm" THEN 3 ELSE 2) /\ n > First(f)
  BY FieldSizes DEF Off, First
<1>2. /\ \A k \in 1 .. n - o : s[k] \in Byte
      /\ \A k \in 1 .. n - o : mfmtobin(SentWord(f, d, k + o)) = s[k]
      /\ f = "mfm" => /\ \A k \in 4 .. n : /\ s[k - 1][8] \in Bit
                                           /\ SentWord(f, d, k) = Mfm(s[k], s[k - 1][8])
                      /\ s[4] = ByteOf(251)
      /\ f = "fm" => /\ SentWord(f, d, 1) = Fm(Zero)
                     /\ SentWord(f, d, 2) = Cells(FmSyncClk, ByteOf(251))
                     /\ s[1] = ByteOf(251)
                     /\ \A k \in 3 .. n : SentWord(f, d, k) = Fm(s[k - 1])
  BY SentWords
<1>3. \A k \in 0 .. n - 1 : k >= o => mfmtobin(w[k]) = s[k + 1 - o] /\ w[k] \in Word
  <2> TAKE k \in 0 .. n - 1
  <2> SUFFICES ASSUME k >= o PROVE mfmtobin(w[k]) = s[k + 1 - o]
    OBVIOUS
  <2> QED
    BY BinAt
<1>4. \A k \in First(f) .. n - 1 :
        w[k] = Code(f, mfmtobin(w[k]), IF k = First(f) THEN w[k - 1][8] ELSE w[k - 1][16])
  BY DEF Clocked
<1> HIDE DEF n, o, s
<1>5. CASE f = "mfm"
  <2>1. ASSUME NEW k \in 1 .. n, k <= 3
        PROVE  mfmtobin(w[k - 1]) = mfmtobin(SentWord(f, d, k))
    <3>1. /\ k - 1 \in 0 .. n - 1 /\ k - 1 >= o /\ (k - 1) + 1 - o = k
          /\ k \in 1 .. n - o /\ k + o = k
      BY <1>1, <1>5
    <3> QED
      BY <1>2, <1>3, <3>1
  <2>2. ASSUME NEW k \in 1 .. n, k > 3 PROVE w[k - 1] = SentWord(f, d, k)
    <3>1. /\ k - 1 \in 0 .. n - 1 /\ k - 1 >= o /\ (k - 1) + 1 - o = k
          /\ k \in 4 .. n /\ k - 1 \in First(f) .. n - 1
      BY <1>1, <1>5, <2>2
    <3>2. mfmtobin(w[k - 1]) = s[k]
      BY <1>3, <3>1
    <3>3. SentWord(f, d, k) = Mfm(s[k], s[k - 1][8]) /\ s[k - 1][8] \in Bit
      BY <1>2, <1>5, <3>1
    <3>4. CASE k = 4
      <4>1. w[3] = Mfm(s[4], w[2][8])
        BY <1>1, <1>4, <1>5, <3>1, <3>2, <3>4 DEF Code
      <4>2. w[2][8] \in Bit
        <5>1. 2 \in 0 .. n - 1
          BY <1>1, <1>5
        <5>2. w[2] \in Word
          BY <5>1 DEF n
        <5> QED
          BY <5>2 DEF Word
      <4> QED
        BY <1>2, <1>5, <3>3, <3>4, <4>1, <4>2, MarkAlone
    <3>5. CASE k # 4
      <4>1. k - 1 # First(f) /\ k - 2 \in 0 .. n - 1 /\ k - 2 >= o /\ (k - 2) + 1 - o = k - 1
            /\ (k - 1) - 1 = k - 2
        BY <1>1, <1>5, <3>1, <3>5
      <4>2. w[k - 1] = Mfm(s[k], w[k - 2][16])
        BY <1>4, <1>5, <3>1, <3>2, <4>1 DEF Code
      <4>3. mfmtobin(w[k - 2]) = s[k - 1]
        BY <1>3, <4>1
      <4>4. mfmtobin(w[k - 2])[8] = w[k - 2][16]
        BY DEF mfmtobin
      <4> QED
        BY <3>3, <4>2, <4>3, <4>4
    <3> QED
      BY <3>4, <3>5
  <2> QED
    BY <1>5, <2>1, <2>2 DEF AsSent, n
<1>6. CASE f = "fm"
  <2>1. ASSUME NEW k \in 1 .. n PROVE w[k - 1] = SentWord(f, d, k)
    <3>1. CASE k = 1
      BY <1>2, <1>6, <3>1 DEF MarkCells
    <3>2. CASE k = 2
      <4>1. 1 \in 0 .. n - 1 /\ 1 >= o /\ 1 + 1 - o = 1
        BY <1>1, <1>6
      <4>2. mfmtobin(w[1]) = ByteOf(251) /\ w[1] \in Word
        BY <1>2, <1>3, <1>6, <4>1
      <4>3. FmSyncClk \in Byte /\ ByteOf(251) \in Byte
        BY ByteOfIsByte DEF FmSyncClk
      <4>4. \A i \in 1 .. 8 : w[1][2 * i - 1] = FmSyncClk[i]
        BY <1>6 DEF MarkCells
      <4>5. w[1] = Cells(FmSyncClk, ByteOf(251))
        BY <4>2, <4>3, <4>4, WordOf
      <4> QED
        BY <1>2, <1>6, <3>2, <4>5
    <3>3. CASE k > 2
      <4>1. /\ k - 1 \in 0 .. n - 1 /\ k - 1 >= o /\ (k - 1) + 1 - o = k - 1
            /\ k \in 3 .. n /\ k - 1 \in First(f) .. n - 1
        BY <1>1, <1>6, <3>3
      <4>2. mfmtobin(w[k - 1]) = s[k - 1]
        BY <1>3, <4>1
      <4>3. w[k - 1] = Fm(mfmtobin(w[k - 1]))
        BY <1>4, <1>6, <4>1 DEF Code
      <4> QED
        BY <1>2, <1>6, <4>1, <4>2, <4>3
    <3> QED
      BY <3>1, <3>2, <3>3
  <2> QED
    BY <1>6, <2>1 DEF AsSent, n
<1> QED
  BY <1>5, <1>6

\* And the words that were sent have right bytes and right clock bits.
LEMMA SentBytesAreRight ==
  ASSUME NEW f \in {"mfm", "fm"}, NEW d \in [1 .. DataLen -> Byte],
         NEW w \in [0 .. FieldLen(f) - 1 -> Word], AsSent(f, d, w)
  PROVE  Clocked(f, w) /\ Bin(f, w) = Summed(f, d)
<1> DEFINE n == FieldLen(f)
           o == Off(f)
           s == Summed(f, d)
<1>1. /\ n \in Nat /\ o = (IF f = "mfm" THEN 0 ELSE 1)
      /\ First(f) = (IF f = "mfm" THEN 3 ELSE 2) /\ n > First(f)
  BY FieldSizes DEF Off, First
<1>2. /\ \A k \in 1 .. n - o : s[k] \in Byte
      /\ \A k \in 1 .. n - o : mfmtobin(SentWord(f, d, k + o)) = s[k]
      /\ f = "mfm" => /\ \A k \in 4 .. n : /\ s[k - 1][8] \in Bit
                                           /\ SentWord(f, d, k) = Mfm(s[k], s[k - 1][8])
                      /\ s[4] = ByteOf(251)
      /\ f = "fm" => \A k \in 3 .. n : SentWord(f, d, k) = Fm(s[k - 1])
  BY SentWords
<1>3. s \in Seq(Byte) /\ Len(s) = n - o
  BY LaidField
<1>4. Bin(f, w) \in Seq(Byte) /\ Len(Bin(f, w)) = n - o
  BY BinIsBytes
<1>5. \A k \in 1 .. n : IF f = "mfm" /\ k <= 3
                        THEN mfmtobin(w[k - 1]) = mfmtobin(SentWord(f, d, k))
                        ELSE w[k - 1] = SentWord(f, d, k)
  BY DEF AsSent
<1> HIDE DEF n, o, s
<1>6. \A k \in 1 .. n : mfmtobin(w[k - 1]) = mfmtobin(SentWord(f, d, k))
  BY <1>5
<1>7. ASSUME NEW k \in 0 .. n - 1, k >= o
      PROVE  mfmtobin(w[k]) = s[k + 1 - o] /\ Bin(f, w)[k + 1 - o] = mfmtobin(w[k])
  <2>1. Bin(f, w)[k + 1 - o] = mfmtobin(w[k])
    BY <1>7, BinAt DEF n, o
  <2>2. k + 1 \in 1 .. n /\ (k + 1) - 1 = k /\ k + 1 - o \in 1 .. n - o /\ (k + 1 - o) + o = k + 1
    BY <1>1, <1>7
  <2> QED
    BY <1>2, <1>6, <2>1, <2>2
<1>8. Bin(f, w) = s
  <2>1. ASSUME NEW k \in 1 .. n - o PROVE Bin(f, w)[k] = s[k]
    <3>1. k - 1 + o \in 0 .. n - 1 /\ k - 1 + o >= o /\ (k - 1 + o) + 1 - o = k
      BY <1>1
    <3> QED
      BY <1>7, <3>1
  <2> QED
    BY <1>3, <1>4, <2>1
<1>9. CASE f = "mfm"
  <2>1. ASSUME NEW k \in First(f) .. n - 1
        PROVE  w[k] = Code(f, mfmtobin(w[k]), IF k = First(f) THEN w[k - 1][8] ELSE w[k - 1][16])
    <3>1. /\ k \in 0 .. n - 1 /\ k >= o /\ k + 1 - o = k + 1 /\ k + 1 \in 4 .. n /\ (k + 1) - 1 = k
          /\ ~(k + 1 <= 3) /\ k + 1 \in 1 .. n /\ k - 1 \in 0 .. n - 1 /\ k - 1 >= o
          /\ (k - 1) + 1 - o = k
      BY <1>1, <1>9
    <3>2. w[k] = Mfm(s[k + 1], s[k][8]) /\ s[k][8] \in Bit
      BY <1>2, <1>5, <1>9, <3>1
    <3>3. mfmtobin(w[k]) = s[k + 1] /\ mfmtobin(w[k - 1]) = s[k]
      BY <1>7, <3>1
    <3>4. mfmtobin(w[k - 1])[8] = w[k - 1][16]
      BY DEF mfmtobin
    <3>5. CASE k = First(f)
      <4>1. s[k + 1] = ByteOf(251)
        BY <1>1, <1>2, <1>9, <3>5
      <4>2. w[k - 1][8] \in Bit
        <5>1. w[k - 1] \in Word
          BY <3>1 DEF n
        <5> QED
          BY <5>1 DEF Word
      <4>3. w[k] = Mfm(s[k + 1], w[k - 1][8])
        BY <3>2, <4>1, <4>2, MarkAlone
      <4> QED
        BY <1>9, <3>3, <3>5, <4>3 DEF Code
    <3>6. CASE k # First(f)
      BY <1>9, <3>2, <3>3, <3>4, <3>6 DEF Code
    <3> QED
      BY <3>5, <3>6
  <2> QED
    BY <1>8, <2>1 DEF Clocked, n, s
<1>10. CASE f = "fm"
  <2>1. ASSUME NEW k \in First(f) .. n - 1
        PROVE  w[k] = Code(f, mfmtobin(w[k]), IF k = First(f) THEN w[k - 1][8] ELSE w[k - 1][16])
    <3>1. k \in 0 .. n - 1 /\ k >= o /\ k + 1 - o = k /\ k + 1 \in 3 .. n /\ (k + 1) - 1 = k
          /\ k + 1 \in 1 .. n
      BY <1>1, <1>10
    <3>2. w[k] = Fm(s[k])
      BY <1>2, <1>5, <1>10, <3>1
    <3>3. mfmtobin(w[k]) = s[k]
      BY <1>7, <3>1
    <3> QED
      BY <1>10, <3>2, <3>3 DEF Code
  <2> QED
    BY <1>8, <2>1 DEF Clocked, n, s
<1> QED
  BY <1>9, <1>10

(***************************************************************************)
(* The second invariant, relative to the first: what is on the disk is the *)
(* field of the data, and whatever is read, warned says whether its        *)
(* intervals, clock bits, mark and sum are right.                          *)
(***************************************************************************)
\* the bytes of the mark are those of a mark
Marked(f, w) == \A k \in 1 .. Len(Mark(f)) : Bin(f, w)[k] = Mark(f)[k]

\* relative to IInv
FieldInv ==
  /\ warned \in BOOLEAN /\ long \in BOOLEAN
  /\ pc \in {"convert", "encode", "patch"} => data \in Datas /\ plain = Laid(fmt, data)
  /\ pc \in {"disk", "search", "decode", "done"} =>
       data \in Datas /\ sent = [k \in 1 .. FieldLen(fmt) |-> SentWord(fmt, data, k)]
  /\ pc \notin {"decode", "done", "missed"} => ~warned
  /\ pc \in {"decode", "done"} =>
       words \in [0 .. FieldLen(fmt) - 1 -> Word] /\ MarkCells(fmt, words)
  /\ pc = "decode" => (warned <=> long \/ ~Clocked(fmt, words))
  /\ pc = "done" =>
       /\ warned <=> long \/
                     ~(/\ Clocked(fmt, words) /\ Marked(fmt, words)
                       /\ crc16_ccitt(Bin(fmt, words)) = {})
       /\ result = [i \in 1 .. DataLen |-> Bin(fmt, words)[Len(Mark(fmt)) + i]]

LEMMA InitField == Init => FieldInv
BY DEF Init, NoField, FieldInv

LEMMA GenerateField ==
  ASSUME FieldInv, NEW d \in Datas, NEW b \in Before, Generate(d, b) PROVE FieldInv'
<1>1. /\ pc = "idle" /\ pc' = "convert" /\ data' = d /\ plain' = Laid(fmt, d)
      /\ fmt' = fmt /\ warned' = warned /\ long' = long
  BY DEF Generate
<1> QED
  BY <1>1 DEF FieldInv

LEMMA EncodeField == ASSUME FieldInv, Convert \/ Encode PROVE FieldInv'
<1>1. /\ pc \in {"convert", "encode"} /\ pc' = "encode"
      /\ data' = data /\ plain' = plain /\ fmt' = fmt
      /\ warned' = warned /\ long' = long
  BY DEF Convert, Encode
<1> QED
  BY <1>1 DEF FieldInv

\* The word in the buffer and the byte before it.
LEMMA WrittenWords ==
  ASSUME IInv, pc \in {"encode", "patch"}, nr = 0, NEW k \in 1 .. NrWords(fmt) - 1
  PROVE  /\ WordAt(mem, k) = Code(fmt, plain[k + 1], plain[k][8])
         /\ plain[k + 1] \in Byte /\ plain[k] \in Byte
         /\ mfmtobin(WordAt(mem, k)) = plain[k + 1]
<1>1. NrWords(fmt) \in Nat
  BY SizeFacts
<1>2. Laying /\ Converted(0)
  BY DEF IInv, InPlace, Converted
<1>3. k \in 0 .. NrWords(fmt) - 1 /\ k # 0 /\ k \in 1 .. NrWords(fmt) /\ k + 1 \in 1 .. NrWords(fmt)
  BY <1>1
<1>4. WordAt(mem, k) = Code(fmt, plain[k + 1], plain[k][8])
  BY <1>2, <1>3 DEF Converted
<1>5. plain[k + 1] \in Byte /\ plain[k] \in Byte
  BY <1>2, <1>3 DEF Laying
<1>6. plain[k][8] \in Bit
  BY <1>5 DEF Byte
<1> QED
  BY <1>4, <1>5, <1>6, DecodeEncode

\* the first word, of which it is not known what it comes after
LEMMA FirstWord ==
  ASSUME IInv, pc = "encode", nr = 0
  PROVE  /\ plain[1] = Zero /\ mfmtobin(WordAt(mem, 0)) = plain[1]
         /\ WordAt(mem, 0) = IF fmt = "mfm" THEN WordAt(mem, 0) ELSE Fm(plain[1])
<1>1. NrWords(fmt) \in Nat /\ NrWords(fmt) > GapSync /\ GapSync \in Nat /\ GapSync >= 2
  BY SizeFacts, LayoutAssumption
<1>2. Laying /\ Converted(0)
  BY DEF IInv, InPlace, Converted
<1>3. 0 \in 0 .. NrWords(fmt) - 1 /\ 1 \in 1 .. GapSync /\ 0 + 1 = 1
  BY <1>1
<1>4. PICK last \in Bit : WordAt(mem, 0) = Code(fmt, plain[1], last)
  BY <1>2, <1>3 DEF Converted
<1>5. plain[1] = Zero /\ Zero \in Byte
  BY <1>2, <1>3, ByteOfIsByte DEF Laying, Zero
<1> QED
  BY <1>4, <1>5, DecodeEncode DEF Code

\* What has been converted is not warned of.
LEMMA WrittenIsGood ==
  ASSUME IInv, CheckWritten
  PROVE  IF fmt = "mfm" THEN BadWords(mem, fmt, 1, NrWords(fmt) - 1) = {}
         ELSE BadWords(mem, fmt, 0, NrWords(fmt)) = {}
<1> DEFINE N == NrWords(fmt)
<1>1. pc = "encode" /\ nr = 0 /\ N \in Nat /\ fmt \in {"mfm", "fm"}
  BY SizeFacts, FormatAssumption DEF CheckWritten, IInv
<1>2. ASSUME fmt = "mfm", NEW k \in 1 .. N - 1
      PROVE  WordAt(mem, k) = Code(fmt, mfmtobin(WordAt(mem, k)),
                                   IF k = 1 THEN mem[2 * k - 2][8] ELSE mem[2 * k - 1][8])
  <2>1. /\ WordAt(mem, k) = Code(fmt, plain[k + 1], plain[k][8])
        /\ mfmtobin(WordAt(mem, k)) = plain[k + 1]
    BY <1>1, WrittenWords
  <2>2. CASE k = 1
    <3>1. plain[1] = Zero /\ mfmtobin(WordAt(mem, 0)) = Zero
      BY <1>1, FirstWord
    <3>2. mfmtobin(WordAt(mem, 0))[4] = WordAt(mem, 0)[8]
      BY DEF mfmtobin
    <3>3. WordAt(mem, 0)[8] = mem[0][8]
      BY DEF WordAt, Join
    <3>4. Zero[4] = 0 /\ Zero[8] = 0
      BY Constants
    <3>5. mem[2 * k - 2][8] = plain[k][8]
      <4>1. 2 * k - 2 = 0
        BY <2>2
      <4> QED
        BY <2>2, <3>1, <3>2, <3>3, <3>4, <4>1
    <3> QED
      BY <2>1, <2>2, <3>5
  <2>3. CASE k # 1
    <3>1. k - 1 \in 1 .. N - 1 /\ (k - 1) + 1 = k
      BY <1>1, <2>3
    <3>2. mfmtobin(WordAt(mem, k - 1)) = plain[k]
      BY <1>1, <3>1, WrittenWords
    <3>3. mfmtobin(WordAt(mem, k - 1))[8] = WordAt(mem, k - 1)[16]
      BY DEF mfmtobin
    <3>4. WordAt(mem, k - 1)[16] = mem[2 * (k - 1) + 1][8] /\ 2 * (k - 1) + 1 = 2 * k - 1
      BY DEF WordAt, Join
    <3> QED
      BY <2>1, <2>3, <3>2, <3>3, <3>4
  <2> QED
    BY <2>2, <2>3
<1>3. ASSUME fmt = "fm", NEW k \in 0 .. N - 1
      PROVE  WordAt(mem, k) = Fm(mfmtobin(WordAt(mem, k)))
  <2>1. CASE k = 0
    BY <1>1, <1>3, <2>1, FirstWord
  <2>2. CASE k # 0
    <3>1. k \in 1 .. N - 1
      BY <1>1, <2>2
    <3> QED
      BY <1>1, <1>3, <3>1, WrittenWords DEF Code
  <2> QED
    BY <2>1, <2>2
<1>4. ASSUME fmt = "mfm" PROVE BadWords(mem, fmt, 1, N - 1) = {}
  <2>1. 1 + (N - 1) - 1 = N - 1
    BY <1>1
  <2> QED
    BY <1>2, <1>4, <2>1 DEF BadWords
<1>5. ASSUME fmt = "fm" PROVE BadWords(mem, fmt, 0, N) = {}
  <2>1. 0 + N - 1 = N - 1
    BY <1>1
  <2>2. \A b, l : Code(fmt, b, l) = Fm(b)
    BY <1>5 DEF Code
  <2> QED
    BY <1>3, <1>5, <2>1, <2>2 DEF BadWords
<1> QED
  BY <1>1, <1>4, <1>5

LEMMA CheckWrittenField == ASSUME IInv, FieldInv, CheckWritten PROVE FieldInv'
<1>1. /\ pc = "encode" /\ pc' = "patch" /\ UNCHANGED <<fmt, data, plain, long>> /\ ~warned
      /\ warned' = (warned \/ IF fmt = "mfm"
                              THEN BadWords(mem, fmt, 1, NrWords(fmt) - 1) # {}
                              ELSE BadWords(mem, fmt, 0, NrWords(fmt)) # {})
  BY DEF CheckWritten, FieldInv
<1>2. warned' = FALSE
  BY <1>1, WrittenIsGood
<1> QED
  BY <1>1, <1>2 DEF FieldInv

LEMMA PatchField == ASSUME IInv, FieldInv, PatchAndWrite PROVE FieldInv'
<1> DEFINE j(k) == GapSync - (IF fmt = "mfm" THEN 1 ELSE 2) + k
<1>1. /\ pc = "patch" /\ pc' = "disk" /\ UNCHANGED <<fmt, data, warned, long>> /\ ~warned
      /\ sent' = [k \in 1 .. FieldLen(fmt) |-> Synced(j(k))]
      /\ data \in Datas /\ plain = Laid(fmt, data) /\ nr = 0 /\ fmt \in {"mfm", "fm"}
  BY FormatAssumption DEF PatchAndWrite, FieldInv, IInv
<1>2. ASSUME NEW k \in 1 .. FieldLen(fmt) PROVE Synced(j(k)) = SentWord(fmt, data, k)
  <2> DEFINE i == j(k) + 1
             z == j(k)
  <2>1. /\ GapSync \in Nat /\ GapSync >= 2 /\ FieldLen(fmt) \in Nat /\ NrWords(fmt) \in Nat
        /\ Off(fmt) = (IF fmt = "mfm" THEN 0 ELSE 1)
        /\ GapSync + (FieldLen(fmt) - Off(fmt)) <= NrWords(fmt)
    BY LayoutAssumption, SizeFacts, FieldSizes DEF Off
  <2>2. /\ z \in 1 .. NrWords(fmt) - 1 /\ i = GapSync - Off(fmt) + k /\ k \in Int /\ i - 1 = z
        /\ fmt = "mfm" => (z \in GapSync .. GapSync + 2 <=> k <= 3)
        /\ fmt = "fm" => (z = GapSync <=> k = 2)
    BY <1>1, <2>1
  <2>3. z + 1 = i
    OBVIOUS
  <2> HIDE DEF i, z
  <2>4. CASE fmt = "mfm" /\ k <= 3
    <3>1. Synced(z) = MfmSync
      BY <2>2, <2>4 DEF Synced
    <3> QED
      BY <2>4, <3>1 DEF SentWord, z
  <2>5. CASE fmt = "fm" /\ k = 2
    <3>1. Synced(z) = fm_sync(ByteOf(251), FmSyncClk)
      BY <2>2, <2>5 DEF Synced
    <3> QED
      BY <2>5, <3>1 DEF SentWord, z
  <2>6. CASE ~(fmt = "mfm" /\ k <= 3) /\ ~(fmt = "fm" /\ k = 2)
    <3>1. Synced(z) = WordAt(mem, z)
      BY <2>2, <2>6 DEF Synced
    <3>2. WordAt(mem, z) = Code(fmt, plain[i], plain[i - 1][8])
      BY <1>1, <2>2, <2>3, WrittenWords
    <3>3. SentWord(fmt, data, k) = Code(fmt, plain[i], plain[i - 1][8])
      BY <1>1, <2>2, <2>6, SentWordIs
    <3> QED
      BY <3>1, <3>2, <3>3 DEF z
  <2> QED
    BY <2>4, <2>5, <2>6
<1> HIDE DEF j
<1>3. sent' = [k \in 1 .. FieldLen(fmt) |-> SentWord(fmt, data, k)]
  BY <1>1, <1>2
<1> QED
  BY <1>1, <1>3 DEF FieldInv

LEMMA DamageField ==
  ASSUME FieldInv, NEW p \in Damages, NEW c \in DOMAIN track, Damage(p, c) PROVE FieldInv'
<1>1. pc = "disk" /\ pc' = "search" /\ UNCHANGED <<fmt, data, sent, warned, long>>
  BY DEF Damage
<1> QED
  BY <1>1 DEF FieldInv

LEMMA ReadField == ASSUME IInv, FieldInv, Read PROVE FieldInv'
<1> DEFINE n == FieldLen(fmt)
           g == First(fmt)
<1>1. PICK c \in Syncs(track), splice \in BOOLEAN : ReadFrom(c, splice)
  BY DEF Read
<1>2. /\ pc = "search" /\ pc' = "decode" /\ nr' = 0 /\ UNCHANGED <<fmt, data, sent>> /\ ~warned
      /\ warned' = (warned \/ long' \/ CheckRead(mem') # {}) /\ fmt \in {"mfm", "fm"}
  BY FormatAssumption DEF Read, FieldInv, IInv
<1>9. long' \in BOOLEAN
  BY <1>1 DEF ReadFrom
<1>3. IInv'
  BY ReadIInv
<1>4. /\ words' \in [0 .. n - 1 -> Word]
      /\ \A k \in 0 .. n - 1 : WordAt(mem', k) = words'[k]
  BY <1>2, <1>3 DEF IInv, InPlace
<1>5. n \in Nat /\ g = (IF fmt = "mfm" THEN 3 ELSE 2) /\ n > g
  BY FieldSizes DEF First
<1>6. MarkCells(fmt, words')
  <2> SUFFICES ASSUME fmt = "fm"
               PROVE  /\ words'[0] = Fm(Zero)
                      /\ \A i \in 1 .. 8 : words'[1][2 * i - 1] = FmSyncClk[i]
    BY DEF MarkCells
  <2>1. /\ \A j \in 1 .. 17 : track[c + j] = (j - 1) % 2
        /\ \A j \in 1 .. 8 : track[c + 16 + 2 * j] = FmSyncClk[j]
        /\ c \in Int
    BY <1>1 DEF Syncs, IsSync
  <2>2. words' = [k \in 0 .. n - 1 |-> [j \in 1 .. 16 |-> track[c + 1 + 16 * k + j]]]
    BY <1>1 DEF ReadFrom
  <2>3. 0 \in 0 .. n - 1 /\ 1 \in 0 .. n - 1
    BY <1>5
  <2>4. words'[0] \in Word /\ words'[1] \in Word
    BY <1>4, <2>3
  <2>5. \A j \in 1 .. 16 : words'[0][j] = j % 2
    <3> TAKE j \in 1 .. 16
    <3>1. words'[0][j] = track[c + 1 + 16 * 0 + j]
      BY <2>2, <2>3
    <3>2. c + 1 + 16 * 0 + j = c + (j + 1) /\ j + 1 \in 1 .. 17 /\ ((j + 1) - 1) % 2 = j % 2
      BY <2>1
    <3> QED
      BY <2>1, <3>1, <3>2
  <2>6. ASSUME NEW i \in 1 .. 8 PROVE words'[1][2 * i - 1] = FmSyncClk[i]
    <3>1. words'[1][2 * i - 1] = track[c + 1 + 16 * 1 + (2 * i - 1)]
      BY <2>2, <2>3
    <3>2. c + 1 + 16 * 1 + (2 * i - 1) = c + 16 + 2 * i
      BY <2>1
    <3> QED
      BY <2>1, <3>1, <3>2
  <2>7. words'[0] = Fm(Zero)
    <3>1. \A j \in 1 .. 16 : Fm(Zero)[j] = j % 2
      <4> TAKE j \in 1 .. 16
      <4>1. j % 2 = 0 => j \div 2 \in 1 .. 8
        OBVIOUS
      <4>2. j % 2 # 0 => (j + 1) \div 2 \in 1 .. 8 /\ j % 2 = 1
        OBVIOUS
      <4> QED
        BY <4>1, <4>2, Constants DEF Fm, Cells
    <3> QED
      BY <2>4, <2>5, <3>1 DEF Word, Fm, Cells
  <2> QED
    BY <2>6, <2>7
<1>7. CheckRead(mem') = {} <=> Clocked(fmt, words')
  <2>1. CheckRead(mem') = BadWords(mem', fmt, g, n - g)
    BY <1>5 DEF CheckRead
  <2>2. g + (n - g) - 1 = n - 1
    BY <1>5
  <2>3. ASSUME NEW k \in g .. n - 1
        PROVE  /\ WordAt(mem', k) = words'[k]
               /\ mem'[2 * k - 2][8] = words'[k - 1][8]
               /\ mem'[2 * k - 1][8] = words'[k - 1][16]
    <3>1. k \in 0 .. n - 1 /\ k - 1 \in 0 .. n - 1 /\ 2 * (k - 1) = 2 * k - 2
          /\ 2 * (k - 1) + 1 = 2 * k - 1
      BY <1>5
    <3>2. WordAt(mem', k - 1) = words'[k - 1]
      BY <1>4, <3>1
    <3>3. /\ WordAt(mem', k - 1)[8] = mem'[2 * (k - 1)][8]
          /\ WordAt(mem', k - 1)[16] = mem'[2 * (k - 1) + 1][8]
      BY DEF WordAt, Join
    <3> QED
      BY <1>4, <3>1, <3>2, <3>3
  <2>4. BadWords(mem', fmt, g, n - g) =
          {k \in g .. n - 1 :
             words'[k] # Code(fmt, mfmtobin(words'[k]),
                              IF k = g THEN words'[k - 1][8] ELSE words'[k - 1][16])}
    BY <2>2, <2>3 DEF BadWords
  <2> QED
    BY <2>1, <2>4 DEF Clocked
<1>8. warned' \in BOOLEAN /\ (warned' <=> long' \/ ~Clocked(fmt, words'))
  BY <1>2, <1>7
<1> QED
  BY <1>2, <1>4, <1>6, <1>8, <1>9 DEF FieldInv

LEMMA DecodeField == ASSUME FieldInv, Decode PROVE FieldInv'
<1>1. pc = "decode" /\ pc' = "decode" /\ UNCHANGED <<fmt, data, sent, warned, words, long>>
  BY DEF Decode
<1> QED
  BY <1>1 DEF FieldInv

LEMMA CheckBytesField == ASSUME IInv, FieldInv, CheckBytes PROVE FieldInv'
<1> DEFINE n == FieldLen(fmt)
           o == Off(fmt)
           s == Bin(fmt, words)
<1>1. /\ pc = "decode" /\ pc' = "done" /\ nr = n
      /\ UNCHANGED <<fmt, data, mem, sent, words, long>> /\ fmt \in {"mfm", "fm"}
      /\ words \in [0 .. n - 1 -> Word] /\ MarkCells(fmt, words)
      /\ warned \in BOOLEAN /\ (warned <=> long \/ ~Clocked(fmt, words)) /\ long \in BOOLEAN
      /\ \A k \in 0 .. n - 1 : mem[k] = mfmtobin(words[k])
  BY FormatAssumption DEF CheckBytes, FieldInv, IInv, InPlace
<1>2. /\ n \in Nat /\ o = (IF fmt = "mfm" THEN 0 ELSE 1) /\ DataLen \in Nat
      /\ Len(Mark(fmt)) = (IF fmt = "mfm" THEN 4 ELSE 1) /\ n - o = Len(Mark(fmt)) + DataLen + 2
  <2>1. n \in Nat /\ DataLen \in Nat /\ n - Off(fmt) = Len(Mark(fmt)) + DataLen + 2
    BY FieldSizes, LayoutAssumption
  <2>2. Len(Mark(fmt)) = (IF fmt = "mfm" THEN 4 ELSE 1)
    BY MarkFacts
  <2>3. o = (IF fmt = "mfm" THEN 0 ELSE 1) /\ Off(fmt) = o
    BY <1>1 DEF Off
  <2> QED
    BY <2>1, <2>2, <2>3
<1>3. s \in Seq(Byte) /\ Len(s) = n - o
  BY <1>1, BinIsBytes
<1>4. \A k \in 1 .. n - o : s[k] = mem[k - 1 + o]
  <2> TAKE k \in 1 .. n - o
  <2>1. k - 1 + o \in 0 .. n - 1
    BY <1>2
  <2> QED
    BY <1>1, <2>1 DEF Bin
<1>5. SumOver(o) = crc16_ccitt(s)
  <2>1. (n - 1) - o + 1 = n - o /\ \A i \in 1 .. n - o : o + i - 1 = i - 1 + o
    BY <1>2
  <2>2. Bytes(o, n - 1) = [i \in 1 .. n - o |-> mem[i - 1 + o]]
    BY <2>1 DEF Bytes
  <2>3. s = [i \in 1 .. n - o |-> mem[i - 1 + o]]
    <3>1. s = [i \in 1 .. n - o |-> s[i]]
      BY DEF Bin
    <3> QED
      BY <1>4, <3>1
  <2> QED
    BY <2>2, <2>3 DEF SumOver
<1>6. Bytes(o, o + Len(Mark(fmt)) - 1) = Mark(fmt) <=> Marked(fmt, words)
  <2> DEFINE m == Len(Mark(fmt))
  <2>1. (o + m - 1) - o + 1 = m /\ \A i \in 1 .. m : o + i - 1 = i - 1 + o /\ i \in 1 .. n - o
    BY <1>2
  <2>2. Bytes(o, o + m - 1) = [i \in 1 .. m |-> mem[i - 1 + o]]
    BY <2>1 DEF Bytes
  <2>3. Mark(fmt) = [i \in 1 .. m |-> Mark(fmt)[i]]
    BY MarkFacts
  <2>4. \A i \in 1 .. m : mem[i - 1 + o] = s[i]
    BY <1>4, <2>1
  <2> HIDE DEF m, s
  <2>5. Bytes(o, o + m - 1) = [i \in 1 .. m |-> s[i]]
    BY <2>2, <2>4
  <2>6. [i \in 1 .. m |-> s[i]] = [i \in 1 .. m |-> Mark(fmt)[i]]
        <=> \A i \in 1 .. m : s[i] = Mark(fmt)[i]
    <3>1. ASSUME [i \in 1 .. m |-> s[i]] = [i \in 1 .. m |-> Mark(fmt)[i]], NEW k \in 1 .. m
          PROVE  s[k] = Mark(fmt)[k]
      <4>1. [i \in 1 .. m |-> s[i]][k] = [i \in 1 .. m |-> Mark(fmt)[i]][k]
        BY <3>1
      <4> QED
        BY <4>1
    <3> QED
      BY <3>1
  <2> QED
    BY <2>3, <2>5, <2>6 DEF Marked, m, s
<1>7. warned' = (warned \/ Bytes(o, o + Len(Mark(fmt)) - 1) # Mark(fmt) \/ SumOver(o) # {})
  <2>1. CASE fmt = "mfm"
    <3>1. o = 0 /\ o + Len(Mark(fmt)) - 1 = 3
      BY <1>2, <2>1
    <3> QED
      BY <2>1, <3>1 DEF CheckBytes
  <2>2. CASE fmt = "fm"
    <3>1. o = 1 /\ o + Len(Mark(fmt)) - 1 = 1
      BY <1>2, <2>2
    <3> QED
      BY <2>2, <3>1 DEF CheckBytes
  <2> QED
    BY <1>1, <2>1, <2>2
<1>8. result' = [i \in 1 .. DataLen |-> s[Len(Mark(fmt)) + i]]
  <2>1. result' = Bytes(n - DataLen - 2, n - 3)
    BY DEF CheckBytes
  <2>2. (n - 3) - (n - DataLen - 2) + 1 = DataLen
    BY <1>2
  <2>3. ASSUME NEW i \in 1 .. DataLen
        PROVE  mem[(n - DataLen - 2) + i - 1] = s[Len(Mark(fmt)) + i]
    <3>1. /\ Len(Mark(fmt)) + i \in 1 .. n - o
          /\ (n - DataLen - 2) + i - 1 = (Len(Mark(fmt)) + i) - 1 + o
      BY <1>2
    <3> QED
      BY <1>4, <3>1
  <2> QED
    BY <2>1, <2>2, <2>3 DEF Bytes
<1>9. warned' \in BOOLEAN /\
      (warned' <=> long \/ ~(Clocked(fmt, words) /\ Marked(fmt, words) /\ crc16_ccitt(s) = {}))
  BY <1>1, <1>5, <1>6, <1>7
<1> HIDE DEF s, o, n
<1>10. data \in Datas /\ sent = [k \in 1 .. FieldLen(fmt) |-> SentWord(fmt, data, k)]
  BY <1>1 DEF FieldInv
<1> QED
  BY <1>1, <1>8, <1>9, <1>10 DEF FieldInv, s, n

LEMMA NextField == ASSUME IInv, FieldInv, [Next]_vars PROVE FieldInv'
<1>1. ASSUME NEW d \in Datas, NEW b \in Before, Generate(d, b) PROVE FieldInv'
  BY <1>1, GenerateField
<1>2. ASSUME NEW p \in Damages, NEW c \in DOMAIN track, Damage(p, c) PROVE FieldInv'
  BY <1>2, DamageField
<1>3. ASSUME Return PROVE FieldInv'
  BY <1>3 DEF Return, FieldInv
<1>4. ASSUME Missed PROVE FieldInv'
  BY <1>4 DEF Missed, FieldInv
<1>5. ASSUME UNCHANGED vars PROVE FieldInv'
  BY <1>5 DEF vars, FieldInv
<1> QED
  BY <1>1, <1>2, <1>3, <1>4, <1>5, EncodeField, CheckWrittenField, PatchField, ReadField,
     DecodeField, CheckBytesField DEF Next

(***************************************************************************)
(* The verdict of the checks.                                              *)
(***************************************************************************)
\* another field was read, with clock bits, mark and sum of its own
Misled ==
  /\ pc = "done" /\ Clocked(fmt, words) /\ Marked(fmt, words)
  /\ crc16_ccitt(Bin(fmt, words)) = {} /\ Bin(fmt, words) # Summed(fmt, data)

\* what came back differs from what was written in two neighbouring words at most
Burst ==
  pc = "done" => \E j \in 1 .. FieldLen(fmt) : \A k \in 1 .. FieldLen(fmt) :
                    k \notin {j, j + 1} => Read1(k) = Sent1(k)

\* WarnsOfDamage compares what came back with what was written.
LEMMA ReadAsSent ==
  ASSUME IInv, FieldInv, pc = "done"
  PROVE  /\ fmt \in {"mfm", "fm"} /\ data \in [1 .. DataLen -> Byte]
         /\ words \in [0 .. FieldLen(fmt) - 1 -> Word] /\ MarkCells(fmt, words)
         /\ \A k \in 1 .. FieldLen(fmt) : Sent1(k) = IF fmt = "mfm" /\ k <= 3
                                                     THEN mfmtobin(SentWord(fmt, data, k))
                                                     ELSE SentWord(fmt, data, k)
         /\ AsSent(fmt, data, words) <=> \A k \in 1 .. FieldLen(fmt) : Read1(k) = Sent1(k)
<1>1. /\ fmt \in {"mfm", "fm"} /\ data \in [1 .. DataLen -> Byte]
      /\ words \in [0 .. FieldLen(fmt) - 1 -> Word] /\ MarkCells(fmt, words)
      /\ sent = [k \in 1 .. FieldLen(fmt) |-> SentWord(fmt, data, k)]
  BY FormatAssumption, LayoutAssumption DEF IInv, FieldInv
<1>2. \A k \in 1 .. FieldLen(fmt) : Sent1(k) = IF fmt = "mfm" /\ k <= 3
                                               THEN mfmtobin(SentWord(fmt, data, k))
                                               ELSE SentWord(fmt, data, k)
  BY <1>1 DEF Sent1
<1>3. \A k \in 1 .. FieldLen(fmt) :
        Read1(k) = Sent1(k) <=> IF fmt = "mfm" /\ k <= 3
                                THEN mfmtobin(words[k - 1]) = mfmtobin(SentWord(fmt, data, k))
                                ELSE words[k - 1] = SentWord(fmt, data, k)
  BY <1>2 DEF Read1
<1> QED
  BY <1>1, <1>2, <1>3 DEF AsSent

\* A field that came back as it was written passes every check but that of
\* the intervals, and is what was to be written.
LEMMA ReturnedAsSent ==
  ASSUME IInv, FieldInv, pc = "done", \A k \in 1 .. FieldLen(fmt) : Read1(k) = Sent1(k)
  PROVE  (warned <=> long) /\ result = data
<1>1. /\ fmt \in {"mfm", "fm"} /\ data \in [1 .. DataLen -> Byte]
      /\ words \in [0 .. FieldLen(fmt) - 1 -> Word] /\ MarkCells(fmt, words)
      /\ AsSent(fmt, data, words)
  BY ReadAsSent
<1>2. Clocked(fmt, words) /\ Bin(fmt, words) = Summed(fmt, data)
  BY <1>1, SentBytesAreRight
<1>3. Marked(fmt, words) /\ crc16_ccitt(Bin(fmt, words)) = {}
  BY <1>1, <1>2, LaidField DEF Marked
<1>4. \A i \in 1 .. DataLen : Bin(fmt, words)[Len(Mark(fmt)) + i] = data[i]
  <2>1. \A i \in 1 .. DataLen : Summed(fmt, data)[Len(Mark(fmt)) + i] = data[i]
    BY <1>1, LaidField, ZenonT(60)
  <2> QED
    BY <1>2, <2>1
<1>5. result = data
  <2>1. result = [i \in 1 .. DataLen |-> Bin(fmt, words)[Len(Mark(fmt)) + i]]
    BY DEF FieldInv
  <2> QED
    BY <1>1, <1>4, <2>1
<1>6. warned <=> long
  <2>1. /\ warned \in BOOLEAN /\ long \in BOOLEAN
        /\ warned <=> long \/
                      ~(/\ Clocked(fmt, words) /\ Marked(fmt, words)
                        /\ crc16_ccitt(Bin(fmt, words)) = {})
    BY DEF FieldInv
  <2> QED
    BY <1>2, <1>3, <2>1
<1> QED
  BY <1>5, <1>6

\* If no other field was read, the checks decide rightly.
LEMMA Verdict == ASSUME IInv, FieldInv, NoIntervalLong, ~Misled PROVE WarnsOfDamage
<1>1. /\ pc \in {"patch", "disk", "search"} => ~warned
      /\ pc = "disk" => \A i \in DOMAIN track : ~LongFrom(i)
  BY DEF FieldInv, NoIntervalLong
<1>2. CASE pc = "done"
  <2> DEFINE All == \A k \in 1 .. FieldLen(fmt) : Read1(k) = Sent1(k)
  <2>1. /\ fmt \in {"mfm", "fm"} /\ data \in [1 .. DataLen -> Byte]
        /\ words \in [0 .. FieldLen(fmt) - 1 -> Word] /\ MarkCells(fmt, words)
        /\ AsSent(fmt, data, words) <=> All
    BY <1>2, ReadAsSent
  <2> HIDE DEF All
  <2>2. /\ warned \in BOOLEAN /\ long \in BOOLEAN
        /\ warned <=> long \/
                      ~(/\ Clocked(fmt, words) /\ Marked(fmt, words)
                        /\ crc16_ccitt(Bin(fmt, words)) = {})
        /\ result = [i \in 1 .. DataLen |-> Bin(fmt, words)[Len(Mark(fmt)) + i]]
    BY <1>2 DEF FieldInv
  <2>3. ASSUME All PROVE warned <=> long
    BY <1>2, <2>3, ReturnedAsSent DEF All
  <2>4. ASSUME ~warned PROVE All /\ ~long /\ result = data
    <3>1. Clocked(fmt, words) /\ Bin(fmt, words) = Summed(fmt, data)
      BY <1>2, <2>2, <2>4 DEF Misled
    <3>2. All
      BY <2>1, <3>1, RightBytesAreSent
    <3>3. \A i \in 1 .. DataLen : Bin(fmt, words)[Len(Mark(fmt)) + i] = data[i]
      <4>1. \A i \in 1 .. DataLen : Summed(fmt, data)[Len(Mark(fmt)) + i] = data[i]
        BY <2>1, LaidField, ZenonT(60)
      <4> QED
        BY <3>1, <4>1
    <3>4. result = data
      BY <2>1, <2>2, <3>3
    <3> QED
      BY <2>2, <2>4, <3>2, <3>4
  <2>5. warned <=> long \/ ~All
    BY <2>2, <2>3, <2>4
  <2>6. warned <=> long \/ \E k \in 1 .. FieldLen(fmt) : Read1(k) # Sent1(k)
    BY <2>5 DEF All
  <2> QED
    BY <1>1, <2>4, <2>6 DEF WarnsOfDamage
<1>3. CASE pc # "done"
  BY <1>1, <1>3 DEF WarnsOfDamage
<1> QED
  BY <1>2, <1>3

\* No field but one with a right mark and a right sum of its own is taken for
\* right, and one that comes back as it was written is warned of for a long
\* interval only, which no track has as it is written: with any data, of any
\* length, whatever the disk inverts.
THEOREM OnlyARightSumMisleads == Spec => [](Misled \/ WarnsOfDamage)
<1>1. IInv /\ FieldInv /\ NoIntervalLong => Misled \/ WarnsOfDamage
  BY Verdict
<1>2. IInv /\ FieldInv /\ [Next]_vars => IInv' /\ FieldInv'
  BY NextIInv, NextField
<1> QED
  BY InitIInv, InitField, NoIntervalIsLong, <1>1, <1>2, PTL DEF Spec

\* Two neighbouring words are two neighbouring bytes of the sum.
LEMMA BurstMisleadsNobody == ASSUME IInv, FieldInv, Burst PROVE ~Misled
<1> SUFFICES ASSUME Misled PROVE FALSE
  OBVIOUS
<1> DEFINE n == FieldLen(fmt)
           o == Off(fmt)
           s == Bin(fmt, words)
           t == Summed(fmt, data)
           m == n - o
<1>1. pc = "done" /\ crc16_ccitt(s) = {} /\ s # t
  BY DEF Misled
<1>2. /\ fmt \in {"mfm", "fm"} /\ data \in [1 .. DataLen -> Byte]
      /\ words \in [0 .. n - 1 -> Word]
      /\ \A k \in 1 .. n : Sent1(k) = IF fmt = "mfm" /\ k <= 3
                                      THEN mfmtobin(SentWord(fmt, data, k))
                                      ELSE SentWord(fmt, data, k)
  BY <1>1, ReadAsSent
<1>3. /\ n \in Nat /\ o = (IF fmt = "mfm" THEN 0 ELSE 1) /\ DataLen \in Nat
      /\ Len(Mark(fmt)) = (IF fmt = "mfm" THEN 4 ELSE 1) /\ n - o = Len(Mark(fmt)) + DataLen + 2
  BY <1>2, FieldSizes, LayoutAssumption, MarkFacts DEF Off
<1>4. s \in Seq(Byte) /\ Len(s) = m /\ t \in Seq(Byte) /\ Len(t) = m /\ crc16_ccitt(t) = {}
  BY <1>2, BinIsBytes, LaidField
<1>5. PICK j \in 1 .. n : \A k \in 1 .. n : k \notin {j, j + 1} => Read1(k) = Sent1(k)
  BY <1>1 DEF Burst
<1>6. ASSUME NEW k \in 1 .. n, k \notin {j, j + 1}
      PROVE  mfmtobin(words[k - 1]) = mfmtobin(SentWord(fmt, data, k))
  <2>1. Read1(k) = Sent1(k)
    BY <1>5, <1>6
  <2>2. Read1(k) = IF fmt = "mfm" /\ k <= 3 THEN mfmtobin(words[k - 1]) ELSE words[k - 1]
    BY DEF Read1
  <2> QED
    BY <1>2, <2>1, <2>2
<1>7. \A i \in 1 .. m : s[i] = mfmtobin(words[i - 1 + o])
                        /\ mfmtobin(SentWord(fmt, data, i + o)) = t[i]
  BY <1>2, SentWords DEF Bin
<1> HIDE DEF n, o, s, t
<1> DEFINE e == IF j - o < 1 THEN 1 ELSE IF j - o > m - 1 THEN m - 1 ELSE j - o
<1>8. e \in 1 .. m - 1 /\ m \in Nat
  BY <1>3
<1>9. ASSUME NEW i \in 1 .. m, i \notin {e, e + 1} PROVE s[i] = t[i]
  <2>1. i + o \in 1 .. n /\ i + o \notin {j, j + 1} /\ (i + o) - 1 = i - 1 + o
    BY <1>3, <1>9
  <2>2. mfmtobin(words[i - 1 + o]) = mfmtobin(SentWord(fmt, data, i + o))
    BY <1>6, <2>1
  <2> QED
    BY <1>7, <2>2
<1> HIDE DEF e, m
<1>10. s = t
  <2>1. e \in 1 .. Len(s) - 1 /\ Len(s) = Len(t) /\ crc16_ccitt(s) = crc16_ccitt(t)
    BY <1>1, <1>4, <1>8
  <2>2. \A i \in 1 .. Len(s) : i \notin {e, e + 1} => s[i] = t[i]
    BY <1>4, <1>9
  <2>3. s \in Seq(Byte) /\ t \in Seq(Byte)
    BY <1>4
  <2> QED
    BY <2>1, <2>2, <2>3, SumTellsBursts
<1> QED
  BY <1>1, <1>10

\* Damage within two neighbouring words is always warned of.
THEOREM BurstsAreWarnedOf == Spec => [](Burst => WarnsOfDamage)
<1>1. IInv /\ FieldInv /\ NoIntervalLong => (Burst => WarnsOfDamage)
  BY BurstMisleadsNobody, Verdict
<1>2. IInv /\ FieldInv /\ [Next]_vars => IInv' /\ FieldInv'
  BY NextIInv, NextField
<1> QED
  BY InitIInv, InitField, NoIntervalIsLong, <1>1, <1>2, PTL DEF Spec

\* What comes back as it was written is returned, without a warning unless an
\* interval was long on the way: damage to the gap in front of the mark may
\* be warned of and does no harm.
THEOREM RightDataIsReturned ==
  Spec => [](pc = "done" /\ (\A k \in 1 .. FieldLen(fmt) : Read1(k) = Sent1(k))
               => (warned <=> long) /\ result = data)
<1>1. IInv /\ FieldInv =>
        (pc = "done" /\ (\A k \in 1 .. FieldLen(fmt) : Read1(k) = Sent1(k))
           => (warned <=> long) /\ result = data)
  <2> SUFFICES ASSUME IInv, FieldInv, pc = "done",
                      \A k \in 1 .. FieldLen(fmt) : Read1(k) = Sent1(k)
               PROVE  (warned <=> long) /\ result = data
    OBVIOUS
  <2> QED
    BY ReturnedAsSent
<1>2. IInv /\ FieldInv /\ [Next]_vars => IInv' /\ FieldInv'
  BY NextIInv, NextField
<1> QED
  BY InitIInv, InitField, <1>1, <1>2, PTL DEF Spec
=============================================================================
