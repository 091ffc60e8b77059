------------------------------ MODULE MCTracks ------------------------------
(***************************************************************************)
(* A small instance of TrackTests for TLC.                                 *)
(***************************************************************************)
EXTENDS TrackTests

MCSectors == {1, 2}
MCValues == {"e2", "d1"}
MCFormats == {"mfm", "fm", "amiga"}
=============================================================================
