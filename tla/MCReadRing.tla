----------------------------- MODULE MCReadRing -----------------------------
(***************************************************************************)
(* A small instance of ReadRing for TLC: words of 4 bits, cells of 4 ticks.*)
(***************************************************************************)
EXTENDS ReadRing

\* one, two and three cells, early and late
MCIntervals == {3, 9, 11}
MCPhases == {1, 5}
\* x marks the bit that the FM search does not compare
MCMfmMarks == {<<0, 1, 0, 1>>}
MCFmMarks == {<<0, x, 1, 1>> : x \in {0, 1}}
\* reads in any interleaving with the DMA, and at two steps per capture
MCPaces == {0, 2}
=============================================================================
