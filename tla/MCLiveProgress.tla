--------------------------- MODULE MCLiveProgress ---------------------------
(* Values of the constants of LiveProgress for TLC. *)
EXTENDS LiveProgress

MCOtherOps == {"cancel"}
=============================================================================
