--------------------------------- MODULE Codec ---------------------------------
(***************************************************************************)
(* The codes of mfm.c, fm.c and crc.c, bit by bit.  A byte has 8 bits, a   *)
(* word of bitcells 16: before every data bit a clock bit.  Bit 1 is the   *)
(* first one, the most significant.                                        *)
(***************************************************************************)
EXTENDS Integers, Sequences

Bit  == {0, 1}
Byte == [1 .. 8 -> Bit]
Word == [1 .. 16 -> Bit]

\* a byte by its value
Weight == <<128, 64, 32, 16, 8, 4, 2, 1>>
ByteOf(n) == [i \in 1 .. 8 |-> (n \div Weight[i]) % 2]

\* Words lie in memory as two bytes, the first cells first (htobe16).
Hi(w) == [i \in 1 .. 8 |-> w[i]]
Lo(w) == [i \in 1 .. 8 |-> w[i + 8]]
Join(h, l) == [j \in 1 .. 16 |-> IF j <= 8 THEN h[j] ELSE l[j - 8]]

\* Interleave clock bits and data bits.
Cells(clk, dat) ==
  [j \in 1 .. 16 |-> IF j % 2 = 0 THEN dat[j \div 2] ELSE clk[(j + 1) \div 2]]

\* In MFM a clock bit is set between two data bits that are not.  The table
\* takes the bit before the byte for 0; the callers correct the first clock
\* bit, & ~(y << 15), from the last bit y of the byte before.
mfmtab(x) == Cells([i \in 1 .. 8 |-> IF x[i] = 0 /\ (i = 1 \/ x[i - 1] = 0)
                                     THEN 1 ELSE 0], x)
Mfm(x, y) == IF y = 1 THEN [mfmtab(x) EXCEPT ![1] = 0] ELSE mfmtab(x)

\* In FM every clock bit is set, but in the mark.
Fm(x) == Cells([i \in 1 .. 8 |-> 1], x)
fm_sync(dat, clk) == Cells(clk, dat)

\* the data bits of a word, for both codes
mfmtobin(w) == [i \in 1 .. 8 |-> w[2 * i]]

MfmSync   == Join(ByteOf(68), ByteOf(137))      \* 0x4489
FmSyncClk == ByteOf(199)                        \* FM_SYNC_CLK: 0xc7

\* Sums: polynomials over two elements, as the sets of their exponents.
Poly(x) == {8 - i : i \in {k \in 1 .. 8 : x[k] = 1}}
BytesOf(r) == <<[i \in 1 .. 8 |-> IF 16 - i \in r THEN 1 ELSE 0],
                [i \in 1 .. 8 |-> IF 8 - i \in r THEN 1 ELSE 0]>>
Plus(a, b) == (a \ b) \cup (b \ a)
Times(r, n) == {e + n : e \in r}

\* one more bit, modulo 0x11021
Shift(r) == Plus(Times(r \ {15}, 1), IF 15 \in r THEN {0, 5, 12} ELSE {})

\* what a byte in front of the register leaves of it
crc16tab == [b \in SUBSET (0 .. 7) |->
               LET Shifted[n \in 0 .. 8] ==
                     IF n = 0 THEN Times(b, 8) ELSE Shift(Shifted[n - 1])
               IN  Shifted[8]]

\* one more byte
Upper(r) == {e - 8 : e \in r \ (0 .. 7)}
AddByte(r, byte) == Plus(crc16tab[Plus(Upper(r), Poly(byte))], Times(r \cap (0 .. 7), 8))

\* over a sequence of bytes, from 0xffff on
crc16_ccitt(bytes) ==
  LET Crc[n \in 0 .. Len(bytes)] ==
        IF n = 0 THEN 0 .. 15 ELSE AddByte(Crc[n - 1], bytes[n])
  IN  Crc[Len(bytes)]
=============================================================================
