---------------------------- MODULE MCGameMatch ----------------------------
(***************************************************************************)
(* GameMatch for TLC: players and bounds are given by the .cfg files.      *)
(***************************************************************************)
EXTENDS GameMatch
=============================================================================
