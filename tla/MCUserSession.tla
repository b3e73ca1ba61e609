--------------------------- MODULE MCUserSession ---------------------------
(***************************************************************************)
(* UserSession for TLC: devices and bounds are given by the .cfg files.    *)
(***************************************************************************)
EXTENDS UserSession
=============================================================================
