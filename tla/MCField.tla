------------------------------- MODULE MCField -------------------------------
(***************************************************************************)
(* Small instances of Field for TLC.                                       *)
(***************************************************************************)
EXTENDS Field

MCFormats == {"mfm", "fm"}

\* Data with a run of zeros and of ones, with the bytes of the mark, and with
\* the data bits of the mark across the border of two bytes.
MCDatas == {<<ByteOf(0), ByteOf(255)>>, <<ByteOf(161), ByteOf(251)>>,
            <<ByteOf(148), ByteOf(33)>>, <<ByteOf(194), ByteOf(20)>>}
MCBefore == {ByteOf(0), ByteOf(255)}

\* One cell, two cells up to 31 apart, or a burst of a few.
Two(n) == [i \in 1 .. n |-> IF i \in {1, n} THEN 1 ELSE 0]
MCDamages == {<<0>>, <<1>>, <<1, 1, 1>>, <<1, 0, 1, 0, 1>>, <<1, 1, 0, 1, 1, 0, 1>>}
             \cup {Two(n) : n \in {2, 3, 4, 5, 9, 15, 16, 17, 32}}
=============================================================================
