-------------------------- MODULE MCGameInvitation --------------------------
(***************************************************************************)
(* GameInvitation for TLC: users and bounds are given by the .cfg files.   *)
(***************************************************************************)
EXTENDS GameInvitation
=============================================================================
