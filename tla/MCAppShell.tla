------------------------------ MODULE MCAppShell ------------------------------
(* Values of the constants of AppShell for TLC. *)
EXTENDS AppShell

MCAdmins == {"root", "boss"}
MCShort == {"a"}
MCLong == {"ab", "cd"}

Budget(s, f, a, t) == [session |-> s, fault |-> f, admin |-> a, search |-> t]
MCBudgets == {Budget(1, 0, 2, 0), Budget(4, 0, 1, 1), Budget(3, 2, 1, 0), Budget(0, 0, 0, 5)}
=============================================================================
