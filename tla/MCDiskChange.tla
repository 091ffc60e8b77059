---------------------------- MODULE MCDiskChange ----------------------------
(***************************************************************************)
(* A small instance of DiskChange for TLC.                                 *)
(***************************************************************************)
EXTENDS DiskChange

MCCyls == {0, 1}
MCImages == {"a", "b"}
=============================================================================
