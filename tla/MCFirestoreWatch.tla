-------------------------- MODULE MCFirestoreWatch -------------------------
(***************************************************************************)
(* FirestoreWatch for TLC: targets, keys and bounds are given by .cfg files. *)
(***************************************************************************)
EXTENDS FirestoreWatch
=============================================================================
