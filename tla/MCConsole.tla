------------------------------ MODULE MCConsole ------------------------------
(***************************************************************************)
(* Small instances of Console for TLC.                                     *)
(***************************************************************************)
EXTENDS Console

MCMessages == {<<"a">>, <<"b", "a">>, <<"a", "b", "a", "b", "a">>, <<"b", LF>>, <<CR, "a">>}
MCLfMessages == {<<"a">>, <<"b", LF>>}
MCDump == <<"b", LF>>
=============================================================================
