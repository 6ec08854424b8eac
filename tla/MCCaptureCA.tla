---------------------------- MODULE MCCaptureCA ----------------------------
(* CaptureCA for TLC: three commands that may be started again.              *)
EXTENDS CaptureCA

MCProcs == {"p1", "p2", "p3"}
=============================================================================
