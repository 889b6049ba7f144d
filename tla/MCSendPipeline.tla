--------------------------- MODULE MCSendPipeline ---------------------------
(* Values for model checking SendPipeline. *)
EXTENDS SendPipeline, TLC

SafetyOps == {"pause", "resume", "cancel", "upload", "delete", "deleteAll"}
LiveOps == {"pause", "resume", "cancel", "rate"}

\* A rate limit that POST of a campaign accepts.
NegativeRate == -1

\* Workers are interchangeable, and so are clients.
Symmetry == Permutations(Workers) \cup Permutations(Clients)
=============================================================================
