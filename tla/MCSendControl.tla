---------------------------- MODULE MCSendControl ----------------------------
(* Values for model checking SendControl. *)
EXTENDS SendControl, TLC

UserOps == {"start", "pause", "cancel", "update", "recipients", "reset"}
ScheduleOps == {"schedule", "unschedule", "update", "recipients", "reset", "pause", "resume", "cancel"}

\* Recipients are interchangeable, and so are clients.
Symmetry == Permutations(Ids) \cup Permutations(Clients)
=============================================================================
