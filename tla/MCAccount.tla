----------------------------- MODULE MCAccount -----------------------------
(* Account for TLC: one run command beside the logins and logouts.           *)
EXTENDS Account

CONSTANTS r1, r2

MCRequests == {r1, r2}
MCCallers == {"agent"}
MCProcessOf == [c \in MCCallers |-> "run"]
=============================================================================
