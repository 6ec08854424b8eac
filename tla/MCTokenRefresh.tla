--------------------------- MODULE MCTokenRefresh ---------------------------
(* TokenRefresh for TLC.  The callers are the tunnel agent and the capture   *)
(* uploader of one run command, and a call of another command of the user.   *)
EXTENDS TokenRefresh

MCCallers == {"agent", "uploader", "whoami"}
MCProcessOf == [c \in MCCallers |-> IF c = "whoami" THEN "whoami" ELSE "run"]
=============================================================================
