----------------------------- MODULE EventStream -----------------------------
(***************************************************************************)
(* What dependency capture promises about the events it uploads, with no   *)
(* sessions, dials, pings, backoff or readers: accepted events leave the   *)
(* agent one by one in the order in which they were accepted; each is      *)
(* delivered or lost, and one is lost only together with the connection    *)
(* that is given up; no more than the queue and the event in hand are      *)
(* kept; and nothing leaves after the end, although events may still be    *)
(* accepted.  CaptureUploader implements this specification.               *)
(***************************************************************************)
EXTENDS Integers, Sequences

CONSTANTS
    Events,    \* captured interactions
    QueueSize  \* how many may wait

VARIABLES
    accepted,  \* the events accepted so far, in order
    settled,   \* how many of them have left the agent
    delivered, \* the events handed to a connection, in order
    lost,      \* the events lost with a connection
    givenUp,   \* the number of connections given up
    ended      \* the upload is over

vars == <<accepted, settled, delivered, lost, givenUp, ended>>

Init ==
    /\ accepted = << >>
    /\ settled = 0
    /\ delivered = << >>
    /\ lost = {}
    /\ givenUp = 0
    /\ ended = FALSE

Oldest == accepted[settled + 1]

\* An event is accepted once, and while there is room.
Accept(e) ==
    /\ \A i \in 1..Len(accepted) : accepted[i] # e
    /\ Len(accepted) - settled <= QueueSize
    /\ accepted' = Append(accepted, e)
    /\ UNCHANGED <<settled, delivered, lost, givenUp, ended>>

Deliver ==
    /\ ~ended
    /\ settled < Len(accepted)
    /\ delivered' = Append(delivered, Oldest)
    /\ settled' = settled + 1
    /\ UNCHANGED <<accepted, lost, givenUp, ended>>

\* A connection is given up, to make another one or for good.
GiveUp ==
    /\ ~ended
    /\ givenUp' = givenUp + 1
    /\ ended' \in BOOLEAN
    /\ UNCHANGED <<accepted, settled, delivered, lost>>

\* The event that was being handed over goes with the connection.
Lose ==
    /\ ~ended
    /\ settled < Len(accepted)
    /\ lost' = lost \cup {Oldest}
    /\ settled' = settled + 1
    /\ givenUp' = givenUp + 1
    /\ ended' \in BOOLEAN
    /\ UNCHANGED <<accepted, delivered>>

End ==
    /\ ~ended
    /\ ended' = TRUE
    /\ UNCHANGED <<accepted, settled, delivered, lost, givenUp>>

Next == (\E e \in Events : Accept(e)) \/ Deliver \/ GiveUp \/ Lose \/ End

Spec == Init /\ [][Next]_vars
=============================================================================
