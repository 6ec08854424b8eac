--------------------------- MODULE MCRunLifecycle ---------------------------
(* RunLifecycle for TLC: every combination of the options.                   *)
EXTENDS RunLifecycle
=============================================================================
