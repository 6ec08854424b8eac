---------------------------- MODULE MCTunnelAgent ----------------------------
(* TunnelAgent for TLC: the constants are given in MCTunnelAgent.cfg.        *)
EXTENDS TunnelAgent
=============================================================================
