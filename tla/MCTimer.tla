------------------------------- MODULE MCTimer -------------------------------
(***************************************************************************)
(* A small instance of Timer for TLC.                                      *)
(***************************************************************************)
EXTENDS Timer

MCSetDeltas == {-1, 2, 7, 24}
MCCbDeltas == {8, 13}
=============================================================================
