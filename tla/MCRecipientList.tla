--------------------------- MODULE MCRecipientList ---------------------------
(* Values of the constants of RecipientList for TLC. *)
EXTENDS RecipientList

MCFileSizes == {2}
=============================================================================
