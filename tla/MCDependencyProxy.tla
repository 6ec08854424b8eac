------------------------- MODULE MCDependencyProxy -------------------------
(* DependencyProxy for TLC: one connection carries requests, in the clear or *)
(* intercepted, beside a passthrough tunnel.  The connections share nothing  *)
(* but the list and the shutdown.                                            *)
EXTENDS DependencyProxy

CONSTANTS c1, c2

MCInit ==
    /\ Init
    /\ kind[c1] \in {"plain", "intercept"}
    /\ kind[c2] = "passthrough"

MCSpec == MCInit /\ [][Next]_vars /\ Fairness
=============================================================================
