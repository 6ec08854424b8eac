-------------------------- MODULE MCCaptureUploader --------------------------
(* CaptureUploader for TLC; the constants are given in the configurations.   *)
EXTENDS CaptureUploader

CONSTANTS e1, e2, e3
=============================================================================
