---------------------------- MODULE MCHardSector ----------------------------
(***************************************************************************)
(* A small instance of HardSector for TLC.                                 *)
(***************************************************************************)
EXTENDS HardSector

MCDisks == {[nr |-> 3, hole |-> TRUE], [nr |-> 3, hole |-> FALSE],
            [nr |-> 2, hole |-> TRUE], [nr |-> 4, hole |-> TRUE]}
MCSeeks == {5, 7}
MCValues == {20, 21}
=============================================================================
