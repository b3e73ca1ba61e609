------------------------- MODULE MCFirestoreClient -------------------------
(***************************************************************************)
(* Instances of FirestoreClient for TLC: a document with two fields.       *)
(***************************************************************************)
EXTENDS FirestoreClient, TLC

MCPatches == {"moves" :> 1, ("moves" :> 0) @@ ("state" :> 1)}
MCFirstDocuments == {[f \in Fields |-> 0]}
MCForeignPatches == {"state" :> 1, "moves" :> 1}
=============================================================================
