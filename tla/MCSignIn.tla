------------------------------ MODULE MCSignIn ------------------------------
(* SignIn for TLC, without the commands that use the credentials.            *)
EXTENDS SignIn

CONSTANT r1

MCRequests == {r1}
=============================================================================
