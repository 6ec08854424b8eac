--------------------------- MODULE MCBodyCapture ---------------------------
(* BodyCapture for TLC: the limit leaves room for a whole character before   *)
(* and after it.                                                             *)
EXTENDS BodyCapture
=============================================================================
