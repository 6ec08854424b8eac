---------------------------- MODULE TunnelContract ----------------------------
(***************************************************************************)
(* What the public tunnel promises the rest of the CLI and the user, with  *)
(* no loop, no backoff and no error taxonomy: every connection attempt     *)
(* spends a ticket newer than all the tickets spent before it, "Tunnel     *)
(* connected." is shown for the first connection and "Tunnel reconnected." *)
(* for the later ones, at most one notice is shown between two attempts,   *)
(* an established tunnel of a reconnecting agent is never given up except  *)
(* on cancellation or virtualisation, and the end is final.  TunnelAgent   *)
(* implements this specification.                                          *)
(***************************************************************************)
EXTENDS Naturals

VARIABLES
    reconnectEnabled, \* whether a lost tunnel is to be made again
    phase,     \* "down" (never or no longer connected), "up", "ended"
    everUp,    \* whether a connection was ever established
    attempt,   \* the ticket of the attempt in flight, 0 when there is none
    spent,     \* the newest ticket presented to the gateway
    shown,     \* the last message shown to the user
    noticed,   \* whether a notice was shown since the last attempt
    cancelled, \* the owner cancelled the run
    outcome    \* how the tunnel ended

vars == <<reconnectEnabled, phase, everUp, attempt, spent, shown, noticed, cancelled, outcome>>

Init ==
    /\ reconnectEnabled \in BOOLEAN
    /\ phase = "down"
    /\ everUp = FALSE
    /\ attempt = 0
    /\ spent = 0
    /\ shown = "none"
    /\ noticed = FALSE
    /\ cancelled = FALSE
    /\ outcome = "running"

Cancel ==
    /\ ~cancelled
    /\ cancelled' = TRUE
    /\ UNCHANGED <<reconnectEnabled, phase, everUp, attempt, spent, shown, noticed, outcome>>

\* A connection attempt spends a ticket that was never presented before.
Attempt ==
    /\ phase = "down"
    /\ attempt = 0
    /\ reconnectEnabled \/ ~everUp
    /\ attempt' \in Nat
    /\ attempt' > spent
    /\ spent' = attempt'
    /\ noticed' = FALSE
    /\ UNCHANGED <<reconnectEnabled, phase, everUp, shown, cancelled, outcome>>

AttemptFails ==
    /\ phase = "down"
    /\ attempt # 0
    /\ attempt' = 0
    /\ UNCHANGED <<reconnectEnabled, phase, everUp, spent, shown, noticed, cancelled, outcome>>

Notice(m) ==
    /\ phase = "down"
    /\ attempt = 0
    /\ ~noticed
    /\ m \in {"waiting", "unavailable"}
    /\ shown' = m
    /\ noticed' = TRUE
    /\ UNCHANGED <<reconnectEnabled, phase, everUp, attempt, spent, cancelled, outcome>>

Up ==
    /\ phase = "down"
    /\ attempt # 0
    /\ phase' = "up"
    /\ attempt' = 0
    /\ shown' = IF everUp THEN "reconnected" ELSE "connected"
    /\ everUp' = TRUE
    /\ UNCHANGED <<reconnectEnabled, spent, noticed, cancelled, outcome>>

Lost ==
    /\ phase = "up"
    /\ reconnectEnabled
    /\ phase' = "down"
    /\ shown' = "lost"
    /\ UNCHANGED <<reconnectEnabled, everUp, attempt, spent, noticed, cancelled, outcome>>

End(o) ==
    /\ phase # "ended"
    /\ \/ o = "cancelled" /\ cancelled /\ shown' = shown
       \/ o = "virtualized" /\ phase = "up" /\ shown' = "virtualized"
       \/ o = "error" /\ ~(reconnectEnabled /\ phase = "up") /\ shown' = shown
    /\ phase' = "ended"
    /\ attempt' = 0
    /\ outcome' = o
    /\ UNCHANGED <<reconnectEnabled, everUp, spent, noticed, cancelled>>

Next ==
    \/ Cancel
    \/ Attempt
    \/ AttemptFails
    \/ \E m \in {"waiting", "unavailable"} : Notice(m)
    \/ Up
    \/ Lost
    \/ \E o \in {"cancelled", "virtualized", "error"} : End(o)

Spec == Init /\ [][Next]_vars
=============================================================================
