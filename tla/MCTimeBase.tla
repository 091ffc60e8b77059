----------------------------- MODULE MCTimeBase -----------------------------
(***************************************************************************)
(* A small instance of TimeBase for TLC: the counter has 16 values, and    *)
(* delays reach over two of its periods.                                   *)
(***************************************************************************)
EXTENDS TimeBase

MCDelays == {0, 1, 7, 35}
=============================================================================
