----------------------------- MODULE MCTm1651 ------------------------------
(***************************************************************************)
(* A small instance of Tm1651 for TLC.                                     *)
(***************************************************************************)
EXTENDS Tm1651

\* "FFT" and, too long and with other characters, "-a1z"
MCStrings == {<<70, 70, 84>>, <<45, 97, 49, 122>>}
MCDecimals == {105}
MCPartials == {<<>>, <<1>>, <<0, 1, 1, 0, 0, 0, 1>>, <<0, 0, 0, 0, 0, 0, 1, 1>>}
============================================================================
