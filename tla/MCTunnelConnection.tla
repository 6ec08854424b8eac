------------------------- MODULE MCTunnelConnection -------------------------
(* TunnelConnection for TLC; the constants are in MCTunnelConnection.cfg.    *)
EXTENDS TunnelConnection

CONSTANTS r1, r2
=============================================================================
