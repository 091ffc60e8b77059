---------------------------- MODULE MCWriteRing ----------------------------
(***************************************************************************)
(* A small instance of WriteRing for TLC.                                  *)
(***************************************************************************)
EXTENDS WriteRing

MCTerms == {0, 1, 2}
MCFluxCounts == {2, 10}
\* short writes in any interleaving with the DMA, long ones at one and at
\* three CPU steps per transfer
MCPaces(n) == IF n = 2 THEN {0} ELSE {1, 3}
============================================================================
