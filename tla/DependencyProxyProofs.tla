----------------------- MODULE DependencyProxyProofs -----------------------
(***************************************************************************)
(* Proofs about DependencyProxy, for any set of connections and any number *)
(* of requests and snapshots: whichever path a handler takes, it leaves no *)
(* socket open and nothing in the list, a hijacked connection that is in   *)
(* use is in the list shutdown reads, and events tell how a request was    *)
(* handled; and about the bodies of these events (BodyCapture), for any    *)
(* limit of the preview, any length and any way of reading them.           *)
(***************************************************************************)
EXTENDS DependencyProxy, WellFoundedInduction, TLAPS

----------------------------------------------------------------------------
(* The inductive invariant.                                                *)

\* Only passthrough tunnels have an upstream side to close.
UpstreamIsPassthrough ==
    \A c \in Conns : <<c, "upstream">> \in toClose => kind[c] = "passthrough"

\* Which use of a connection leads to which place.
PlaceOf(c) ==
    /\ pc[c] \in {"greeted", "tracking", "copy", "copied", "halfClosed", "bothClosed", "refused"}
          => kind[c] = "passthrough"
    /\ pc[c] \in {"hijacked", "handshake", "decrypted"} => kind[c] = "intercept"
    /\ pc[c] \in Serving => kind[c] # "passthrough"
    /\ pc[c] \in {"connect", "hijack", "greet"} => kind[c] # "plain"

\* From where on the proxy has closed which socket itself.
ClosedSides(c) ==
    /\ pc[c] \in {"refused", "bothClosed", "leaving", "ended"} => client[c] = "closed"
    /\ pc[c] \in {"none", "accepted", "connect", "halfClosed", "bothClosed", "leaving", "ended"}
          => upstream[c] \in {"none", "closed"}

\* Where each side is in the list, and where it is not.
TrackedSides(c) ==
    /\ <<c, "client">> \in tracked =>
           \/ pc[c] \in {"handshake", "tracking", "copy", "copied", "halfClosed", "bothClosed",
                         "leaving"}
           \/ pc[c] \in Serving \cup {"greet"} /\ kind[c] = "intercept"
    /\ <<c, "upstream">> \in tracked =>
           pc[c] \in {"copy", "copied", "halfClosed", "bothClosed"}
    /\ pc[c] = "copy" => <<c, "upstream">> \in tracked
    /\ pc[c] \in {"tracking", "copy", "handshake"} => <<c, "client">> \in tracked
    /\ pc[c] \in Serving \cup {"greet"} /\ kind[c] = "intercept" => <<c, "client">> \in tracked

\* Until its round trip begins the dependency was not contacted for the current
\* request; the event is emitted at its end.
EventFollowsOrigin(c) ==
    /\ pc[c] \in {"none", "forward", "replay", "roundTrip"} => origin[c] = "idle"
    /\ pc[c] \in {"forward", "replay", "roundTrip", "stream"} => event[c] = "none"
    /\ origin[c] = "sending" => pc[c] = "stream" \/ client[c] # "open"
    /\ event[c] = "ORIGIN" => origin[c] = "ended"
    /\ event[c] = "REPLAY" => origin[c] = "idle"
    /\ origin[c] = "ended" /\ pc[c] # "stream" /\ client[c] = "open" => event[c] = "ORIGIN"

Local(c) == PlaceOf(c) /\ ClosedSides(c) /\ TrackedSides(c) /\ EventFollowsOrigin(c)

IInv ==
    /\ TypeOK
    /\ UpstreamIsPassthrough
    /\ \A c \in Conns : Local(c)

----------------------------------------------------------------------------
\* The two sides of a connection.
LEMMA BothSides ==
    \A c \in Conns : {c} \X Sides = {<<c, "client">>, <<c, "upstream">>}
BY DEF Sides

\* The initial states satisfy the invariant.
LEMMA InitIInv == Init => IInv
<1> SUFFICES ASSUME Init PROVE IInv
  OBVIOUS
<1>1. TypeOK
  <2>1. 0 \in 0..MaxRequests /\ 0 \in 0..MaxSnapshots
    BY ProxyAssumption
  <2>2. /\ requests \in [Conns -> 0..MaxRequests]
        /\ origin \in [Conns -> {"idle", "sending", "ended", "broken"}]
        /\ event \in [Conns -> {"none", "ORIGIN", "REPLAY"}]
    BY <2>1 DEF Init
  <2>3. /\ pc \in [Conns -> Places]
        /\ client \in [Conns -> {"none", "open", "gone", "closed"}]
        /\ upstream \in [Conns -> {"none", "open", "gone", "closed"}]
        /\ \A c \in Conns : upstream[c] # "none" => kind[c] = "passthrough"
    BY DEF Init, Places
  <2> QED
    BY <2>1, <2>2, <2>3 DEF Init, TypeOK
<1>2. UpstreamIsPassthrough
  BY DEF Init, UpstreamIsPassthrough
<1>3. ASSUME NEW c \in Conns PROVE Local(c)
  BY <1>3 DEF Init, Local, PlaceOf, ClosedSides, TrackedSides, EventFollowsOrigin, Serving
<1> QED
  BY <1>1, <1>2, <1>3 DEF IInv

\* What a step of connection c leaves alone.
Frame(c) ==
    /\ UNCHANGED <<kind, replays, shutdown>>
    /\ tracked' \subseteq tracked \cup ({c} \X Sides)
    /\ tracked \subseteq tracked' \cup ({c} \X Sides)
    /\ \A d \in Conns \ {c} : /\ pc'[d] = pc[d] /\ client'[d] = client[d]
                              /\ upstream'[d] = upstream[d] /\ origin'[d] = origin[d]
                              /\ event'[d] = event[d]

\* A step of one connection that keeps the types and the invariant of this
\* connection keeps the invariant.
LEMMA LocalSuffices ==
    ASSUME IInv, NEW c \in Conns, Frame(c), TypeOK', Local(c)'
    PROVE  IInv'
<1>1. UpstreamIsPassthrough'
  BY DEF Frame, shutdown, IInv, UpstreamIsPassthrough
<1>2. ASSUME NEW d \in Conns \ {c} PROVE Local(d)'
  <2>1. /\ <<d, "client">> \in tracked' <=> <<d, "client">> \in tracked
        /\ <<d, "upstream">> \in tracked' <=> <<d, "upstream">> \in tracked
    BY BothSides DEF Frame
  <2>2. /\ kind'[d] = kind[d] /\ pc'[d] = pc[d] /\ client'[d] = client[d]
        /\ upstream'[d] = upstream[d] /\ origin'[d] = origin[d] /\ event'[d] = event[d]
    BY DEF Frame
  <2>3. Local(d)
    BY DEF IInv
  <2> QED
    BY <2>1, <2>2, <2>3 DEF Local, PlaceOf, ClosedSides, TrackedSides, EventFollowsOrigin
<1> QED
  BY <1>1, <1>2 DEF IInv

\* Every step of a connection keeps its types and leaves the others alone.
StepShape(c) ==
    /\ pc' \in [Conns -> Places]
    /\ client' \in [Conns -> {"none", "open", "gone", "closed"}]
    /\ upstream' \in [Conns -> {"none", "open", "gone", "closed"}]
    /\ upstream'[c] # "none" => upstream[c] # "none" \/ kind[c] = "passthrough"
    /\ requests' \in [Conns -> 0..MaxRequests]
    /\ origin' \in [Conns -> {"idle", "sending", "ended", "broken"}]
    /\ event' \in [Conns -> {"none", "ORIGIN", "REPLAY"}]
    /\ Frame(c)

LEMMA StepHasShape ==
    ASSUME IInv, NEW c \in Conns, Step(c)
    PROVE  StepShape(c)
<1> USE DEF request
<1>t. /\ pc \in [Conns -> Places]
      /\ client \in [Conns -> {"none", "open", "gone", "closed"}]
      /\ upstream \in [Conns -> {"none", "open", "gone", "closed"}]
      /\ requests \in [Conns -> 0..MaxRequests]
      /\ origin \in [Conns -> {"idle", "sending", "ended", "broken"}]
      /\ event \in [Conns -> {"none", "ORIGIN", "REPLAY"}]
      /\ PlaceOf(c)
  BY DEF IInv, TypeOK, Local
<1>1. CASE Connect(c)
  BY <1>t, <1>1 DEF StepShape, Frame, Connect, Goto, Places, Serving
<1>2. CASE ConnectFails(c)
  BY <1>t, <1>2 DEF StepShape, Frame, ConnectFails, Goto, Places, Serving
<1>3. CASE MakeCertificate(c)
  BY <1>t, <1>3 DEF StepShape, Frame, MakeCertificate, Goto, Places, Serving
<1>4. CASE Hijack(c)
  BY <1>t, <1>4 DEF StepShape, Frame, Hijack, Goto, Places, Serving
<1>5. CASE Greet(c)
  BY <1>t, <1>5 DEF StepShape, Frame, Greet, Goto, Places, Serving
<1>6. CASE Handshake(c)
  BY <1>t, <1>6 DEF StepShape, Frame, Handshake, Goto, Places, Serving
<1>7. CASE CopyEnds(c)
  BY <1>t, <1>7 DEF StepShape, Frame, CopyEnds, Goto, Places, Serving
<1>8. CASE BadRequest(c)
  BY <1>t, <1>8 DEF StepShape, Frame, BadRequest, Goto, IdleAt, Places, Serving
<1>9. CASE Match(c)
  BY <1>t, <1>9 DEF StepShape, Frame, Match, Goto, Places, Serving
<1>10. CASE ReplayFails(c)
  BY <1>t, <1>10 DEF StepShape, Frame, ReplayFails, Goto, IdleAt, Places, Serving
<1>11. CASE Accept(c)
  BY <1>t, <1>11 DEF StepShape, Frame, Accept, Goto, Places, Serving
<1>12. CASE AppLeaves(c)
  BY <1>t, <1>12 DEF StepShape, Frame, AppLeaves, Places, Serving
<1>13. CASE GreetFails(c)
  BY <1>t, <1>13 DEF StepShape, Frame, GreetFails, Goto, Close, Places, Serving
<1>14. CASE HandshakeFails(c)
  BY <1>t, <1>14 DEF StepShape, Frame, HandshakeFails, Goto, Close, Places, Serving
<1>15. CASE CloseClient(c)
  BY <1>t, <1>15 DEF StepShape, Frame, CloseClient, Goto, Close, Places, Serving
<1>16. CASE IdleEnds(c)
  BY <1>t, <1>16 DEF StepShape, Frame, IdleEnds, ServerCloses, Close, Places, Serving
<1>17. CASE DependencyLeaves(c)
  BY <1>t, <1>17 DEF StepShape, Frame, DependencyLeaves, Places, Serving
<1>18. CASE DialPassthrough(c)
  BY <1>t, <1>18 DEF StepShape, Frame, DialPassthrough, Goto, Places, Serving
<1>19. CASE HijackFails(c)
  BY <1>t, <1>19 DEF StepShape, Frame, HijackFails, Goto, Close, Places, Serving
<1>20. CASE CloseRefused(c)
  BY <1>t, <1>20 DEF StepShape, Frame, PlaceOf, CloseRefused, Goto, Close, Places, Serving
<1>21. CASE CloseUpstream(c)
  BY <1>t, <1>21 DEF StepShape, Frame, PlaceOf, CloseUpstream, Goto, Close, Places, Serving
<1>22. CASE TrackClient(c)
  BY <1>t, <1>22, BothSides DEF StepShape, Frame, TrackClient, Goto, Places, Serving
<1>23. CASE TrackUpstream(c)
  BY <1>t, <1>23, BothSides DEF StepShape, Frame, TrackUpstream, Goto, Places, Serving
<1>24. CASE UntrackUpstream(c)
  BY <1>t, <1>24, BothSides DEF StepShape, Frame, UntrackUpstream, Goto, Places, Serving
<1>25. CASE UntrackClient(c)
  BY <1>t, <1>25, BothSides DEF StepShape, Frame, UntrackClient, Goto, Places, Serving
<1>26. CASE Request(c)
  BY <1>t, <1>26, ProxyAssumption DEF StepShape, Frame, Request, Goto, IdleAt, Places, Serving
<1>27. CASE Replay(c)
  BY <1>t, <1>27 DEF StepShape, Frame, Replay, Goto, IdleAt, Places, Serving
<1>28. CASE RoundTrip(c)
  BY <1>t, <1>28 DEF StepShape, Frame, RoundTrip, Goto, Places, Serving
<1>29. CASE RoundTripFails(c)
  BY <1>t, <1>29 DEF StepShape, Frame, RoundTripFails, Goto, IdleAt, Places, Serving
<1>30. CASE DependencyEnds(c)
  <2> PICK how \in {"ended", "broken"} : origin' = [origin EXCEPT ![c] = how]
    BY <1>30 DEF DependencyEnds
  <2> QED
    BY <1>t, <1>30 DEF StepShape, Frame, DependencyEnds, conn
<1>31. CASE StreamCompletes(c)
  BY <1>t, <1>31 DEF StepShape, Frame, StreamCompletes, Goto, IdleAt, Places, Serving
<1>32. ASSUME NEW framed \in BOOLEAN, StreamFails(c, framed) PROVE StepShape(c)
  BY <1>t, <1>32 DEF StepShape, Frame, StreamFails, ServerCloses, Close, Goto, IdleAt,
     Places, Serving
<1> QED
  BY <1>1, <1>2, <1>3, <1>4, <1>5, <1>6, <1>7, <1>8, <1>9, <1>10, <1>11, <1>12, <1>13,
     <1>14, <1>15, <1>16, <1>17, <1>18, <1>19, <1>20, <1>21, <1>22, <1>23, <1>24, <1>25, <1>26,
     <1>27, <1>28, <1>29, <1>30, <1>31, <1>32 DEF Step, HandlerStep, UnwindStep, FailStep,
     PeerStep

\* Every step of a connection keeps what the invariant says of it.
LEMMA StepKeepsLocal ==
    ASSUME IInv, NEW c \in Conns, Step(c)
    PROVE  Local(c)'
<1> USE DEF request, Serving
<1>t. /\ pc \in [Conns -> Places]
      /\ client \in [Conns -> {"none", "open", "gone", "closed"}]
      /\ upstream \in [Conns -> {"none", "open", "gone", "closed"}]
      /\ origin \in [Conns -> {"idle", "sending", "ended", "broken"}]
      /\ event \in [Conns -> {"none", "ORIGIN", "REPLAY"}]
      /\ kind \in [Conns -> Kinds]
      /\ upstream[c] # "none" => kind[c] = "passthrough"
  BY DEF IInv, TypeOK
<1>l. PlaceOf(c) /\ ClosedSides(c) /\ TrackedSides(c) /\ EventFollowsOrigin(c)
  BY DEF IInv, Local
<1>1. CASE Connect(c)
  BY <1>t, <1>l, <1>1 DEF Local, PlaceOf, ClosedSides, TrackedSides, EventFollowsOrigin,
     Connect, Goto, Kinds
<1>2. CASE ConnectFails(c)
  BY <1>t, <1>l, <1>2 DEF Local, PlaceOf, ClosedSides, TrackedSides, EventFollowsOrigin,
     ConnectFails, Goto, Kinds
<1>3. CASE MakeCertificate(c)
  BY <1>t, <1>l, <1>3 DEF Local, PlaceOf, ClosedSides, TrackedSides, EventFollowsOrigin,
     MakeCertificate, Goto, Kinds
<1>4. CASE Hijack(c)
  BY <1>t, <1>l, <1>4 DEF Local, PlaceOf, ClosedSides, TrackedSides, EventFollowsOrigin, Hijack,
     Goto, Kinds
<1>5. CASE Greet(c)
  BY <1>t, <1>l, <1>5 DEF Local, PlaceOf, ClosedSides, TrackedSides, EventFollowsOrigin, Greet,
     Goto, Kinds
<1>6. CASE Handshake(c)
  BY <1>t, <1>l, <1>6 DEF Local, PlaceOf, ClosedSides, TrackedSides, EventFollowsOrigin,
     Handshake, Goto, Kinds
<1>7. CASE CopyEnds(c)
  BY <1>t, <1>l, <1>7 DEF Local, PlaceOf, ClosedSides, TrackedSides, EventFollowsOrigin,
     CopyEnds, Goto, Kinds
<1>8. CASE BadRequest(c)
  BY <1>t, <1>l, <1>8 DEF Local, PlaceOf, ClosedSides, TrackedSides, EventFollowsOrigin,
     BadRequest, Goto, IdleAt, Kinds
<1>9. CASE Match(c)
  BY <1>t, <1>l, <1>9 DEF Local, PlaceOf, ClosedSides, TrackedSides, EventFollowsOrigin, Match,
     Goto, Kinds
<1>10. CASE ReplayFails(c)
  BY <1>t, <1>l, <1>10 DEF Local, PlaceOf, ClosedSides, TrackedSides, EventFollowsOrigin,
     ReplayFails, Goto, IdleAt, Kinds
<1>11. CASE Accept(c)
  BY <1>t, <1>l, <1>11 DEF Local, PlaceOf, ClosedSides, TrackedSides, EventFollowsOrigin,
     Accept, Goto, Kinds
<1>12. CASE AppLeaves(c)
  BY <1>t, <1>l, <1>12 DEF Local, PlaceOf, ClosedSides, TrackedSides, EventFollowsOrigin,
     AppLeaves, Kinds
<1>13. CASE GreetFails(c)
  BY <1>t, <1>l, <1>13 DEF Local, PlaceOf, ClosedSides, TrackedSides, EventFollowsOrigin,
     GreetFails, Goto, Close, Kinds
<1>14. CASE HandshakeFails(c)
  BY <1>t, <1>l, <1>14 DEF Local, PlaceOf, ClosedSides, TrackedSides, EventFollowsOrigin,
     HandshakeFails, Goto, Close, Kinds
<1>15. CASE CloseClient(c)
  BY <1>t, <1>l, <1>15 DEF Local, PlaceOf, ClosedSides, TrackedSides, EventFollowsOrigin,
     CloseClient, Goto, Close, Kinds
<1>16. CASE IdleEnds(c)
  BY <1>t, <1>l, <1>16 DEF Local, PlaceOf, ClosedSides, TrackedSides, EventFollowsOrigin,
     IdleEnds, ServerCloses, Close, Kinds
<1>17. CASE DependencyLeaves(c)
  BY <1>t, <1>l, <1>17 DEF Local, PlaceOf, ClosedSides, TrackedSides, EventFollowsOrigin,
     DependencyLeaves, Kinds
<1>18. CASE DialPassthrough(c)
  BY <1>t, <1>l, <1>18 DEF Local, PlaceOf, ClosedSides, TrackedSides, EventFollowsOrigin,
     DialPassthrough, Goto, Kinds
<1>19. CASE HijackFails(c)
  BY <1>t, <1>l, <1>19 DEF Local, PlaceOf, ClosedSides, TrackedSides, EventFollowsOrigin,
     HijackFails, Goto, Close, Kinds
<1>20. CASE CloseRefused(c)
  BY <1>t, <1>l, <1>20 DEF Local, PlaceOf, ClosedSides, TrackedSides, EventFollowsOrigin,
     CloseRefused, Goto, Close, Kinds
<1>21. CASE CloseUpstream(c)
  BY <1>t, <1>l, <1>21 DEF Local, PlaceOf, ClosedSides, TrackedSides, EventFollowsOrigin,
     CloseUpstream, Goto, Close, Kinds
<1>22. CASE TrackClient(c)
  BY <1>t, <1>l, <1>22 DEF Local, PlaceOf, ClosedSides, TrackedSides, EventFollowsOrigin,
     TrackClient, Goto, Kinds
<1>23. CASE TrackUpstream(c)
  BY <1>t, <1>l, <1>23 DEF Local, PlaceOf, ClosedSides, TrackedSides, EventFollowsOrigin,
     TrackUpstream, Goto, Kinds
<1>24. CASE UntrackUpstream(c)
  BY <1>t, <1>l, <1>24 DEF Local, PlaceOf, ClosedSides, TrackedSides, EventFollowsOrigin,
     UntrackUpstream, Goto, Kinds
<1>25. CASE UntrackClient(c)
  BY <1>t, <1>l, <1>25 DEF Local, PlaceOf, ClosedSides, TrackedSides, EventFollowsOrigin,
     UntrackClient, Goto, Kinds
<1>26. CASE Request(c)
  BY <1>t, <1>l, <1>26 DEF Local, PlaceOf, ClosedSides, TrackedSides, EventFollowsOrigin,
     Request, Goto, IdleAt, Kinds
<1>27. CASE Replay(c)
  BY <1>t, <1>l, <1>27 DEF Local, PlaceOf, ClosedSides, TrackedSides, EventFollowsOrigin,
     Replay, Goto, IdleAt, Kinds
<1>28. CASE RoundTrip(c)
  BY <1>t, <1>l, <1>28 DEF Local, PlaceOf, ClosedSides, TrackedSides, EventFollowsOrigin,
     RoundTrip, Goto, Kinds
<1>29. CASE RoundTripFails(c)
  BY <1>t, <1>l, <1>29 DEF Local, PlaceOf, ClosedSides, TrackedSides, EventFollowsOrigin,
     RoundTripFails, Goto, IdleAt, Kinds
<1>30. CASE DependencyEnds(c)
  <2> PICK how \in {"ended", "broken"} : origin' = [origin EXCEPT ![c] = how]
    BY <1>30 DEF DependencyEnds
  <2>1. origin[c] = "sending"
    BY <1>30 DEF DependencyEnds
  <2>2. EventFollowsOrigin(c)'
    BY <1>t, <1>l, <1>30, <2>1 DEF EventFollowsOrigin, DependencyEnds, conn
  <2>3. PlaceOf(c)' /\ ClosedSides(c)' /\ TrackedSides(c)'
    BY <1>l, <1>30 DEF PlaceOf, ClosedSides, TrackedSides, DependencyEnds, conn
  <2> QED
    BY <2>2, <2>3 DEF Local
<1>31. CASE StreamCompletes(c)
  BY <1>t, <1>l, <1>31 DEF Local, PlaceOf, ClosedSides, TrackedSides, EventFollowsOrigin,
     StreamCompletes, Goto, IdleAt, Kinds
<1>32. ASSUME NEW framed \in BOOLEAN, StreamFails(c, framed) PROVE Local(c)'
  BY <1>t, <1>l, <1>32 DEF Local, PlaceOf, ClosedSides, TrackedSides, EventFollowsOrigin,
     StreamFails, ServerCloses, Close, Goto, IdleAt, Kinds
<1> QED
  BY <1>1, <1>2, <1>3, <1>4, <1>5, <1>6, <1>7, <1>8, <1>9, <1>10, <1>11, <1>12, <1>13,
     <1>14, <1>15, <1>16, <1>17, <1>18, <1>19, <1>20, <1>21, <1>22, <1>23, <1>24, <1>25, <1>26,
     <1>27, <1>28, <1>29, <1>30, <1>31, <1>32 DEF Step, HandlerStep, UnwindStep, FailStep,
     PeerStep

\* Every step preserves the invariant.
LEMMA NextIInv == IInv /\ [Next]_vars => IInv'
<1> SUFFICES ASSUME IInv, [Next]_vars PROVE IInv'
  OBVIOUS
<1> USE DEF conn, request, replays, shutdown
<1>1. ASSUME NEW c \in Conns, Step(c) PROVE IInv'
  <2>1. StepShape(c)
    BY <1>1, StepHasShape
  <2>2. \A d \in Conns : upstream'[d] # "none" => kind'[d] = "passthrough"
    BY <2>1 DEF StepShape, Frame, IInv, TypeOK
  <2>3. tracked' \subseteq Conns \X Sides
    BY <2>1 DEF StepShape, Frame, IInv, TypeOK
  <2>4. TypeOK'
    BY <2>1, <2>2, <2>3 DEF StepShape, Frame, IInv, TypeOK
  <2>5. Local(c)'
    BY <1>1, StepKeepsLocal
  <2> QED
    BY <2>1, <2>4, <2>5, LocalSuffices DEF StepShape
<1>2. ASSUME UNCHANGED <<conn, request>>, toClose' \subseteq tracked \cup toClose,
             behaviors' \subseteq Conns, snapshots' \in 0..MaxSnapshots, ctxDone' \in BOOLEAN,
             shut' \in {"no", "closing", "closed", "done", "skipped"},
             serve' \in {"serving", "returned"}
      PROVE  IInv'
  <2>1. TypeOK'
    BY <1>2 DEF IInv, TypeOK
  <2>2. UpstreamIsPassthrough'
    <3>1. \A c \in Conns : <<c, "upstream">> \in tracked => kind[c] = "passthrough"
      BY DEF IInv, Local, TrackedSides, PlaceOf
    <3> QED
      BY <1>2, <3>1 DEF IInv, UpstreamIsPassthrough
  <2>3. ASSUME NEW c \in Conns PROVE Local(c)'
    BY <1>2 DEF IInv, Local, PlaceOf, ClosedSides, TrackedSides, EventFollowsOrigin
  <2> QED
    BY <2>1, <2>2, <2>3 DEF IInv
<1>3. ASSUME NEW b \in SUBSET Conns, Replace(b) PROVE IInv'
  BY <1>2, <1>3, ProxyAssumption DEF Replace, IInv, TypeOK
<1>4. CASE Cancel \/ Snapshot \/ ServerShutdown \/ ShutdownSkipped \/ ServeFails \/ UNCHANGED vars
  BY <1>2, <1>4 DEF Cancel, Snapshot, ServerShutdown, ShutdownSkipped, ServeFails, vars, IInv,
     TypeOK
<1>5. CASE CloseHijacked
  <2>1. /\ client' \in [Conns -> {"none", "open", "gone", "closed"}]
        /\ upstream' \in [Conns -> {"none", "open", "gone", "closed"}]
        /\ \A c \in Conns :
               /\ client'[c] = client[c] \/ client'[c] = "closed"
               /\ upstream'[c] = upstream[c]
                  \/ (<<c, "upstream">> \in toClose /\ upstream'[c] = "closed")
    BY <1>5 DEF CloseHijacked, IInv, TypeOK
  <2>2. /\ UNCHANGED <<kind, pc, tracked, request, replays, ctxDone, toClose, serve>>
        /\ shut' = "closed"
    BY <1>5 DEF CloseHijacked
  <2>3. TypeOK'
    <3>1. \A c \in Conns : upstream'[c] # "none" => kind'[c] = "passthrough"
      BY <2>1, <2>2 DEF IInv, TypeOK, UpstreamIsPassthrough
    <3> QED
      BY <2>1, <2>2, <3>1 DEF IInv, TypeOK
  <2>4. UpstreamIsPassthrough'
    BY <2>2 DEF IInv, UpstreamIsPassthrough
  <2>5. ASSUME NEW c \in Conns PROVE Local(c)'
    BY <2>1, <2>2 DEF IInv, Local, PlaceOf, ClosedSides, TrackedSides, EventFollowsOrigin
  <2> QED
    BY <2>3, <2>4, <2>5 DEF IInv
<1> QED
  BY <1>1, <1>3, <1>4, <1>5 DEF Next, ShutdownStep

----------------------------------------------------------------------------
(* The theorems.                                                           *)

\* The inductive invariant, and with it the type invariant, holds throughout.
THEOREM ProxyInvariant == Spec => []IInv
BY InitIInv, NextIInv, PTL DEF Spec

\* No connection leaks, on any path of handleConnect: a handler that is over has
\* closed both sockets and removed them from Proxy.connections, and a connection
\* that the server still serves has no socket of a dependency.
THEOREM ProxyEndedIsReleased == Spec => []EndedIsReleased
<1>1. IInv => EndedIsReleased
  <2> SUFFICES ASSUME IInv, NEW c \in Conns
               PROVE  /\ pc[c] = "ended" => client[c] = "closed" /\ Released(c)
                      /\ pc[c] \in {"none", "accepted"} => Released(c)
    BY DEF EndedIsReleased
  <2>1. pc[c] \in {"none", "accepted", "ended"} =>
            <<c, "client">> \notin tracked /\ <<c, "upstream">> \notin tracked
    BY DEF IInv, Local, TrackedSides, Serving
  <2>2. pc[c] \in {"none", "accepted", "ended"} => {c} \X Sides \cap tracked = {}
    BY <2>1, BothSides
  <2> QED
    BY <2>2 DEF IInv, Local, ClosedSides, Released
<1> QED
  BY <1>1, ProxyInvariant, PTL

\* A hijacked connection that is in use is in Proxy.connections, where
\* closeHijackedConnections finds it.
THEOREM ProxyHijackedIsTracked == Spec => []HijackedIsTracked
<1>1. IInv => HijackedIsTracked
  <2> SUFFICES ASSUME IInv, NEW c \in Conns
               PROVE  /\ pc[c] = "copy" => {c} \X Sides \subseteq tracked
                      /\ kind[c] = "intercept" /\ pc[c] \in Serving => <<c, "client">> \in tracked
    BY DEF HijackedIsTracked
  <2>1. pc[c] = "copy" => <<c, "client">> \in tracked /\ <<c, "upstream">> \in tracked
    BY DEF IInv, Local, TrackedSides
  <2>2. pc[c] = "copy" => {c} \X Sides \subseteq tracked
    BY <2>1, BothSides
  <2> QED
    BY <2>2 DEF IInv, Local, TrackedSides
<1> QED
  BY <1>1, ProxyInvariant, PTL

\* forward emits ORIGIN only for a response that the dependency completed, replay
\* emits REPLAY only if the dependency was not contacted for the request, and a
\* completed exchange stays without an event only if the application has left.
THEOREM ProxyEventIsTruthful == Spec => []EventIsTruthful
<1>1. IInv => EventIsTruthful
  BY DEF IInv, Local, EventFollowsOrigin, EventIsTruthful
<1> QED
  BY <1>1, ProxyInvariant, PTL

----------------------------------------------------------------------------
(* The bodies of the proxy's events.  BodyCapture is about one body, of a   *)
(* request or of a response; the hypotheses on its two constants are its    *)
(* assumption.                                                              *)

CONSTANTS Limit, MaxBody

VARIABLES full, concurrent, chunked, textual, longType, encoding, decoded, enough, bounds,
          total, preview, stage, size, raced, body

Body == INSTANCE BodyCapture WITH pc <- stage

\* What is given of a body does not change; its text ends where it is decoded
\* to.
GivenBody ==
    /\ full \in Nat
    /\ textual \in BOOLEAN
    /\ decoded \in Nat
    /\ encoding = "none" => decoded = full
    /\ bounds \in Body!Boundaries(decoded)

\* The preview is what was read of a textual body, up to the limit.
PreviewIsPrefix ==
    preview = IF textual THEN Body!Min({total, Limit}) ELSE 0

\* The size is that of the complete body, or of what was read when it was taken;
\* only the transport reads on.
SizeTaken ==
    /\ stage # "streaming" =>
           /\ size = full \/ (chunked /\ size <= total)
           /\ size # total => concurrent /\ (raced \/ ~chunked)
           /\ ~concurrent => total = full

\* The event holds what capturedBody made of preview and size.
BodyComposed == stage = "done" => body = Body!capturedBody(preview, size)

\* What capturedBody may return.
CapturedBodies ==
    [captured : BOOLEAN, size : Nat, bytes : Nat, truncated : BOOLEAN,
     reason : {"", "binary_content", "encoded_content", "invalid_text"}]

\* The inductive invariant of the capture of one body.
BodyInv == Body!TypeOK /\ GivenBody /\ PreviewIsPrefix /\ SizeTaken /\ BodyComposed

\* Every non-empty set of natural numbers has a least element.
LEMMA LeastNatural ==
    ASSUME NEW T \in SUBSET Nat, T # {}
    PROVE  \E x \in T : \A y \in T : x <= y
<1>1. PICK x \in T : \A y \in T : ~(<<y, x>> \in OpToRel(<, Nat))
  BY WFMin, NatLessThanWellFounded, Zenon
<1>2. \A y \in T : ~(y < x)
  BY <1>1 DEF OpToRel
<1> QED
  BY <1>2

\* The smaller of two numbers.
LEMMA MinOfTwo ==
    ASSUME NEW a \in Int, NEW b \in Int
    PROVE  Body!Min({a, b}) = IF a <= b THEN a ELSE b
<1>1. \E x \in {a, b} : \A y \in {a, b} : x <= y
  OBVIOUS
<1>2. /\ Body!Min({a, b}) \in {a, b}
      /\ \A y \in {a, b} : Body!Min({a, b}) <= y
  BY <1>1 DEF Body!Min
<1> HIDE DEF Body!Min
<1> QED
  BY <1>2

\* Where an incomplete character can be cut off, the last such place is one.
LEMMA LastCut ==
    ASSUME NEW p \in Int, NEW S \in SUBSET ((p - 3)..(p - 1)), S # {}
    PROVE  Body!Max(S) \in S
<1>1. \E x \in S : \A y \in S : x >= y
  <2>1. \A x \in S : x \in {p - 3, p - 2, p - 1}
    OBVIOUS
  <2>2. CASE p - 1 \in S
    BY <2>1, <2>2
  <2>3. CASE p - 1 \notin S /\ p - 2 \in S
    BY <2>1, <2>3
  <2>4. CASE p - 1 \notin S /\ p - 2 \notin S
    <3>1. PICK x \in S : TRUE
      OBVIOUS
    <3>2. \A y \in S : y = p - 3
      BY <2>1, <2>4
    <3> QED
      BY <3>1, <3>2
  <2> QED
    BY <2>2, <2>3, <2>4
<1> QED
  BY <1>1 DEF Body!Max

\* The same for the places where Text may cut.
LEMMA CutIsOne ==
    ASSUME NEW p \in Nat, NEW s \in Nat
    PROVE  LET cut == {k \in (p - 3)..(p - 1) : k >= 0 /\ s > p /\ Body!Valid(k)}
           IN  cut # {} => Body!Max(cut) \in cut
<1> DEFINE cut == {k \in (p - 3)..(p - 1) : k >= 0 /\ s > p /\ Body!Valid(k)}
<1>1. cut \in SUBSET ((p - 3)..(p - 1)) /\ p \in Int
  OBVIOUS
<1>2. ASSUME cut # {} PROVE Body!Max(cut) \in cut
  <2> HIDE DEF cut
  <2> QED
    BY <1>1, <1>2, LastCut, Zenon
<1> QED
  BY <1>2

\* The fields of a captured body, and when the protocol accepts it.
LEMMA BodyFields ==
    ASSUME NEW c \in BOOLEAN, NEW s \in Nat, NEW n \in Nat, NEW t \in BOOLEAN,
           NEW w \in {"", "binary_content", "encoded_content", "invalid_text"}
    PROVE  LET r == [captured |-> c, size |-> s, bytes |-> n, truncated |-> t, reason |-> w] IN
           /\ r \in CapturedBodies
           /\ r.captured = c /\ r.size = s /\ r.bytes = n /\ r.truncated = t
BY Zenon DEF CapturedBodies

\* A body that is not captured is accepted, like every one its Content-Type
\* allows.
LEMMA NotCapturedAccepted ==
    ASSUME NEW s \in Nat, Limit \in Nat,
           NEW w \in {"binary_content", "encoded_content", "invalid_text"}
    PROVE  /\ Body!NotCaptured(s, w) \in CapturedBodies
           /\ ~longType => Body!validateCapturedBody(Body!NotCaptured(s, w))
<1> DEFINE r == Body!NotCaptured(s, w)
<1>1. /\ r \in CapturedBodies
      /\ r.captured = FALSE /\ r.size = s /\ r.bytes = 0 /\ r.truncated = FALSE
  <2>1. 0 \in Nat /\ FALSE \in BOOLEAN
    OBVIOUS
  <2> QED
    BY <2>1, BodyFields, Zenon DEF Body!NotCaptured
<1> HIDE DEF r
<1>2. ~longType => Body!validateCapturedBody(r)
  BY <1>1 DEF Body!validateCapturedBody
<1> QED
  BY <1>1, <1>2 DEF r

\* What Text makes of a prefix within the limit: a body that the protocol
\* accepts, captured or not, if the prefix is not longer than the size.
LEMMA TextAccepted ==
    ASSUME NEW p \in Nat, NEW s \in Nat, p <= Limit, Limit \in Nat
    PROVE  /\ Body!Text(p, s) \in CapturedBodies
           /\ ~longType /\ p <= s => Body!validateCapturedBody(Body!Text(p, s))
<1> DEFINE cut == {k \in (p - 3)..(p - 1) : k >= 0 /\ s > p /\ Body!Valid(k)}
           n == IF Body!Valid(p) THEN p ELSE Body!Max(cut)
<1>1. Body!Text(p, s) =
        IF Body!Valid(p) \/ cut # {}
        THEN [captured |-> TRUE, size |-> s, bytes |-> n, truncated |-> s > n, reason |-> ""]
        ELSE Body!NotCaptured(s, "invalid_text")
  BY DEF Body!Text, Body!MaxRemoved, Body!MaxWidth
<1>2. cut # {} => Body!Max(cut) \in cut
  BY CutIsOne
<1>3. Body!Valid(p) \/ cut # {} => n \in Nat /\ n <= p /\ Body!Valid(n)
  BY <1>2
<1> HIDE DEF cut, n
<1>4. CASE Body!Valid(p) \/ cut # {}
  <2> DEFINE r == Body!Text(p, s)
  <2>1. r = [captured |-> TRUE, size |-> s, bytes |-> n, truncated |-> s > n, reason |-> ""]
    BY <1>1, <1>4
  <2>2. n \in Nat /\ n <= p /\ Body!Valid(n) /\ (s > n) \in BOOLEAN
    BY <1>3, <1>4
  <2>3. /\ r \in CapturedBodies
        /\ r.captured = TRUE /\ r.size = s /\ r.bytes = n /\ r.truncated = (s > n)
    <3>1. TRUE \in BOOLEAN /\ "" \in {"", "binary_content", "encoded_content", "invalid_text"}
      OBVIOUS
    <3> HIDE DEF r
    <3> QED
      BY <2>1, <2>2, <3>1, BodyFields, Zenon
  <2> HIDE DEF r
  <2>5. ~longType /\ p <= s => Body!validateCapturedBody(r)
    BY <2>2, <2>3 DEF Body!validateCapturedBody
  <2> QED
    BY <2>3, <2>5 DEF r
<1>5. CASE ~(Body!Valid(p) \/ cut # {})
  BY <1>1, <1>5, NotCapturedAccepted
<1> QED
  BY <1>4, <1>5
\* Every body that is composed from the preview and the size of one moment, or
\* from the size of the complete body, is one that the protocol accepts.
LEMMA ComposedAccepted ==
    ASSUME Limit \in Nat \ {0}, GivenBody, size \in Nat, total \in 0..full, PreviewIsPrefix
    PROVE  /\ Body!capturedBody(preview, size) \in CapturedBodies
           /\ ~longType /\ total <= size => Body!validateCapturedBody(Body!capturedBody(preview, size))
<1> DEFINE r == Body!capturedBody(preview, size)
<1>0. decoded \in Nat /\ full \in Nat /\ total \in Nat /\ textual \in BOOLEAN
  BY DEF GivenBody
<1>2. CASE ~textual
  <2>1. r = Body!NotCaptured(size, "binary_content")
    BY <1>2 DEF Body!capturedBody
  <2> QED
    BY <2>1, NotCapturedAccepted
<1>3. CASE textual /\ encoding = "none"
  <2>1. r = Body!Text(Body!Min({preview, Limit}), size)
    BY <1>3 DEF Body!capturedBody
  <2>2. preview \in Nat /\ preview <= Limit /\ preview <= total
    BY <1>0, <1>3, MinOfTwo DEF PreviewIsPrefix
  <2>3. Body!Min({preview, Limit}) = preview
    BY <2>2, MinOfTwo
  <2> QED
    BY <1>0, <2>1, <2>2, <2>3, TextAccepted
<1>4. CASE textual /\ encoding # "none" /\ size <= preview /\ Body!Decodable(preview)
  <2>1. r = Body!Text(Body!Min({decoded, Limit}), Body!DecodedSize(size))
    BY <1>4 DEF Body!capturedBody
  <2>2. /\ Body!Min({decoded, Limit}) \in Nat
        /\ Body!Min({decoded, Limit}) <= Limit
        /\ Body!DecodedSize(size) \in Nat
        /\ Body!Min({decoded, Limit}) <= Body!DecodedSize(size)
    BY <1>0, MinOfTwo DEF Body!DecodedSize
  <2> QED
    BY <2>1, <2>2, TextAccepted
<1>5. CASE textual /\ encoding # "none" /\ ~(size <= preview /\ Body!Decodable(preview))
  <2>1. r = Body!NotCaptured(size, "encoded_content")
    BY <1>5 DEF Body!capturedBody
  <2> QED
    BY <2>1, NotCapturedAccepted
<1> QED
  BY <1>0, <1>2, <1>3, <1>4, <1>5

\* A character is at most four bytes long, so a valid text has a boundary within
\* three bytes before any place that is not one.
LEMMA BoundaryNearby ==
    ASSUME NEW m \in Nat, NEW b \in Body!Boundaries(m), m \in b,
           NEW p \in Nat, p < m, p \notin b
    PROVE  \E k \in b : k \in (p - 3)..(p - 1) /\ k >= 0
<1>1. /\ b \in SUBSET Nat
      /\ \A k \in b \ {0} : \E j \in b : j < k /\ k - j <= 4
  BY DEF Body!Boundaries, Body!MaxWidth
<1> DEFINE T == {k \in b : k > p}
<1>2. PICK k \in T : \A y \in T : k <= y
  <2>1. T \in SUBSET Nat /\ T # {}
    BY <1>1
  <2> HIDE DEF T
  <2> QED
    BY <2>1, LeastNatural
<1>3. PICK j \in b : j < k /\ k - j <= 4
  BY <1>1, <1>2
<1>4. j \in Nat /\ k \in Nat /\ k > p /\ ~(j > p) /\ j # p
  BY <1>1, <1>2, <1>3
<1>5. j \in (p - 3)..(p - 1)
  BY <1>3, <1>4
<1> QED
  BY <1>4, <1>5

\* The captured part of a valid text that was read in full.
LEMMA TextCaptured ==
    ASSUME Limit \in Nat \ {0}, NEW m \in Nat, bounds \in Body!Boundaries(m), m \in bounds,
           NEW p \in Nat, p = IF m <= Limit THEN m ELSE Limit
    PROVE  LET r == Body!Text(p, m) IN
           /\ r.captured
           /\ r.bytes >= p - 3
           /\ r.truncated = (r.bytes < m)
<1> DEFINE cut == {k \in (p - 3)..(p - 1) : k >= 0 /\ m > p /\ Body!Valid(k)}
           n == IF Body!Valid(p) THEN p ELSE Body!Max(cut)
           r == Body!Text(p, m)
<1>1. r = IF Body!Valid(p) \/ cut # {}
          THEN [captured |-> TRUE, size |-> m, bytes |-> n, truncated |-> m > n, reason |-> ""]
          ELSE Body!NotCaptured(m, "invalid_text")
  BY DEF Body!Text, Body!MaxRemoved, Body!MaxWidth
<1>2. Body!Valid(p) \/ cut # {}
  <2> SUFFICES ASSUME ~Body!Valid(p) PROVE cut # {}
    OBVIOUS
  <2>1. p < m /\ p \notin bounds
    BY DEF Body!Valid
  <2>2. PICK k \in bounds : k \in (p - 3)..(p - 1) /\ k >= 0
    BY <2>1, BoundaryNearby
  <2> QED
    BY <2>1, <2>2 DEF Body!Valid
<1>3. n \in Nat /\ n >= p - 3
  <2>1. cut # {} => Body!Max(cut) \in cut
    BY CutIsOne
  <2> QED
    BY <1>2, <2>1
<1> HIDE DEF cut, n
<1>4. r.captured = TRUE /\ r.bytes = n /\ r.truncated = (m > n)
  <2>1. /\ TRUE \in BOOLEAN /\ "" \in {"", "binary_content", "encoded_content", "invalid_text"}
        /\ (m > n) \in BOOLEAN
    OBVIOUS
  <2>2. r = [captured |-> TRUE, size |-> m, bytes |-> n, truncated |-> m > n, reason |-> ""]
    BY <1>1, <1>2
  <2> HIDE DEF r
  <2> QED
    BY <1>3, <2>1, <2>2, BodyFields, Zenon
<1> HIDE DEF r
<1>5. r.captured /\ r.bytes >= p - 3 /\ r.truncated = (r.bytes < m)
  BY <1>3, <1>4
<1> QED
  BY <1>5 DEF r

\* A body starts unread.
LEMMA InitBody ==
    ASSUME Limit \in Nat \ {0}, MaxBody \in Nat, Body!Init
    PROVE  BodyInv
<1>1. GivenBody
  <2>1. full \in Nat
    <3>1. full \in 0..MaxBody
      BY Zenon DEF Body!Init
    <3> QED
      BY <3>1
  <2>2. decoded \in Nat /\ (encoding = "none" => decoded = full)
    <3>1. decoded \in IF encoding = "none" THEN {full} ELSE 0..MaxBody
      BY Zenon DEF Body!Init
    <3> QED
      BY <2>1, <3>1
  <2> QED
    BY <2>1, <2>2, Zenon DEF Body!Init, GivenBody
<1>2. Body!Min({Limit, 0}) = 0 /\ Body!Min({0, Limit}) = 0
  BY MinOfTwo
<1>3. body \in CapturedBodies
  <2>1. 0 \in Nat /\ FALSE \in BOOLEAN /\ "" \in {"", "binary_content", "encoded_content", "invalid_text"}
    OBVIOUS
  <2> QED
    BY <2>1, BodyFields, Zenon DEF Body!Init, Body!NotCaptured
<1>4. Body!TypeOK
  <2>1. 0 \in 0..full /\ 0 \in 0..Body!Min({Limit, 0})
    BY <1>1, <1>2 DEF GivenBody
  <2>2. FALSE \in BOOLEAN /\ "streaming" \in {"streaming", "sized", "done"}
    OBVIOUS
  <2> QED
    BY <1>3, <2>1, <2>2, Zenon DEF Body!Init, Body!TypeOK, CapturedBodies
<1>5. PreviewIsPrefix /\ SizeTaken /\ BodyComposed
  BY <1>2 DEF Body!Init, PreviewIsPrefix, SizeTaken, BodyComposed
<1> QED
  BY <1>1, <1>4, <1>5 DEF BodyInv

\* The preview stays the prefix of what was read.
LEMMA ReadBody ==
    ASSUME Limit \in Nat \ {0}, MaxBody \in Nat, BodyInv, NEW n \in 1..MaxBody, Body!Read(n)
    PROVE  BodyInv'
<1> USE DEF Body!given
<1>1. /\ total \in Nat /\ full \in Nat /\ total + n <= full /\ total' = total + n
      /\ total' \in 0..full /\ n \in Nat /\ full' = full /\ size \in 0..full
  <2>1. /\ total \in 0..full /\ size \in 0..full /\ full \in Nat
        /\ total + n <= full /\ total' = total + n /\ full' = full
    BY Zenon DEF BodyInv, Body!TypeOK, GivenBody, Body!Read
  <2> QED
    BY <2>1
<1>2. GivenBody'
  BY DEF BodyInv, GivenBody, Body!Read, Body!Boundaries
<1>3. preview' = IF textual THEN Body!Min({total', Limit}) ELSE 0
  <2>1. CASE textual
    <3>1. preview = IF total <= Limit THEN total ELSE Limit
      BY <1>1, <2>1, MinOfTwo DEF BodyInv, PreviewIsPrefix
    <3>2. preview' = preview + Body!Min({n, Limit - preview})
      BY <2>1 DEF Body!Read, Body!Observed
    <3>3. Body!Min({n, Limit - preview}) = IF n <= Limit - preview THEN n ELSE Limit - preview
      BY <1>1, <3>1, MinOfTwo
    <3>4. preview' = IF total' <= Limit THEN total' ELSE Limit
      BY <1>1, <3>1, <3>2, <3>3
    <3> QED
      BY <1>1, <2>1, <3>4, MinOfTwo
  <2>2. CASE ~textual
    BY <2>2 DEF BodyInv, PreviewIsPrefix, Body!Read, Body!Observed
  <2> QED
    BY <2>1, <2>2
<1>4. PreviewIsPrefix'
  BY <1>3 DEF PreviewIsPrefix, Body!Read
<1>5. Body!TypeOK'
  <2>1. preview' \in 0..Body!Min({Limit, total'})
    BY <1>1, <1>3, MinOfTwo
  <2> QED
    BY <1>1, <2>1 DEF BodyInv, Body!TypeOK, Body!Read
<1>6. SizeTaken'
  <2>1. CASE stage = "streaming"
    BY <2>1 DEF Body!Read, SizeTaken
  <2>2. CASE stage # "streaming"
    <3>1. stage = "sized" /\ concurrent /\ UNCHANGED <<stage, size, chunked, concurrent>>
      BY <2>2 DEF Body!Read
    <3>2. raced'
      BY <3>1 DEF Body!Read
    <3>3. size = full \/ (chunked /\ size <= total)
      BY <2>2 DEF BodyInv, SizeTaken
    <3> QED
      BY <1>1, <3>1, <3>2, <3>3 DEF SizeTaken
  <2> QED
    BY <2>1, <2>2
<1>7. BodyComposed'
  BY DEF BodyInv, BodyComposed, Body!Read
<1> QED
  BY <1>2, <1>4, <1>5, <1>6, <1>7 DEF BodyInv

\* Every step of reading and composing keeps the invariant.
LEMMA NextBody ==
    ASSUME Limit \in Nat \ {0}, MaxBody \in Nat, BodyInv, [Body!Next]_(Body!vars)
    PROVE  BodyInv'
<1> USE DEF Body!given
<1>1. CASE Body!TakeSize
  <2>1. GivenBody' /\ PreviewIsPrefix' /\ BodyComposed'
    BY <1>1 DEF BodyInv, GivenBody, PreviewIsPrefix, BodyComposed, Body!TakeSize, Body!Boundaries
  <2>2. /\ total \in 0..full /\ full \in Nat /\ total' = total /\ full' = full
        /\ size' = IF chunked THEN total ELSE full
        /\ UNCHANGED <<preview, raced, body, chunked, concurrent>>
        /\ stage' = "sized" /\ (concurrent \/ total = full)
    BY <1>1, Zenon DEF BodyInv, GivenBody, Body!TypeOK, Body!TakeSize
  <2>4. size' \in 0..full'
    BY <2>2
  <2>5. stage' \in {"streaming", "sized", "done"}
    BY <2>2
  <2>6. Body!TypeOK'
    BY <2>2, <2>4, <2>5, Zenon DEF BodyInv, Body!TypeOK
  <2>7. SizeTaken'
    BY <2>2 DEF SizeTaken
  <2> QED
    BY <2>1, <2>6, <2>7 DEF BodyInv
<1>2. CASE Body!Compose
  <2>1. GivenBody' /\ PreviewIsPrefix' /\ SizeTaken'
    BY <1>2 DEF BodyInv, GivenBody, PreviewIsPrefix, SizeTaken, Body!Compose, Body!Boundaries
  <2>2. body' = Body!capturedBody(preview, size)
    BY <1>2 DEF Body!Compose
  <2>3. body' \in CapturedBodies
    <3>1. /\ size \in 0..full /\ full \in Nat /\ total \in 0..full
          /\ GivenBody /\ PreviewIsPrefix
      BY Zenon DEF BodyInv, Body!TypeOK, GivenBody
    <3>2. size \in Nat
      BY <3>1
    <3> QED
      BY <2>2, <3>1, <3>2, ComposedAccepted
  <2>4. Body!TypeOK'
    BY <1>2, <2>3 DEF BodyInv, Body!TypeOK, Body!Compose, CapturedBodies
  <2>5. BodyComposed'
    BY <1>2, <2>2 DEF BodyComposed, Body!Compose, Body!capturedBody, Body!Text, Body!Valid,
       Body!Decodable, Body!DecodedSize
  <2> QED
    BY <2>1, <2>4, <2>5 DEF BodyInv
<1>3. CASE UNCHANGED Body!vars
  <2>1. GivenBody' /\ PreviewIsPrefix' /\ SizeTaken'
    BY <1>3 DEF BodyInv, GivenBody, PreviewIsPrefix, SizeTaken, Body!vars, Body!Boundaries
  <2>3. Body!TypeOK'
    BY <1>3, Zenon DEF BodyInv, Body!TypeOK, Body!vars
  <2>2. BodyComposed'
    BY <1>3 DEF BodyInv, BodyComposed, Body!vars, Body!capturedBody, Body!Text, Body!Valid,
       Body!Decodable, Body!DecodedSize
  <2> QED
    BY <2>1, <2>2, <2>3 DEF BodyInv
<1> QED
  BY <1>1, <1>2, <1>3, ReadBody DEF Body!Next, Body!Done

\* The inductive invariant of one body, with its type invariant.
THEOREM BodyInvariant ==
    ASSUME Limit \in Nat \ {0}, MaxBody \in Nat
    PROVE  Body!Spec => []BodyInv
<1>1. Body!Init => BodyInv
  BY InitBody
<1>2. BodyInv /\ [Body!Next]_(Body!vars) => BodyInv'
  BY NextBody
<1> QED
  BY <1>1, <1>2, PTL DEF Body!Spec

\* Every body that forward and replay compose passes validateCapturedBody, but
\* for one with a long Content-Type or of an upload still being read.
THEOREM BodyIsAccepted ==
    ASSUME Limit \in Nat \ {0}, MaxBody \in Nat
    PROVE  Body!Spec => []Body!BodyAccepted
<1>1. BodyInv => Body!BodyAccepted
  <2> SUFFICES ASSUME BodyInv, stage = "done", ~longType, ~(chunked /\ raced)
               PROVE  Body!validateCapturedBody(body)
    BY DEF Body!BodyAccepted
  <2>1. size \in 0..full /\ total \in 0..full /\ full \in Nat
    BY Zenon DEF BodyInv, Body!TypeOK, GivenBody
  <2>2. size \in Nat /\ total <= size
    BY <2>1 DEF BodyInv, SizeTaken
  <2> QED
    BY <2>1, <2>2, ComposedAccepted DEF BodyInv, BodyComposed
<1> QED
  BY <1>1, BodyInvariant, PTL

\* Valid text that was read in full is captured but for at most three bytes.
THEOREM BodyTextIsCaptured ==
    ASSUME Limit \in Nat \ {0}, MaxBody \in Nat
    PROVE  Body!Spec => []Body!ValidTextIsCaptured
<1>1. BodyInv => Body!ValidTextIsCaptured
  <2> SUFFICES ASSUME BodyInv, stage = "done", textual, encoding = "none", full \in bounds,
                      total = full, ~raced
               PROVE  /\ body.captured
                      /\ body.bytes >= Body!Min({full, Limit}) - Body!MaxWidth + 1
                      /\ body.truncated = (body.bytes < full)
    BY DEF Body!ValidTextIsCaptured
  <2>1. full \in Nat /\ bounds \in Body!Boundaries(full) /\ size = full
    BY DEF BodyInv, Body!TypeOK, GivenBody, SizeTaken
  <2>2. /\ preview \in Nat /\ preview = IF full <= Limit THEN full ELSE Limit
        /\ preview = Body!Min({full, Limit}) /\ preview = Body!Min({preview, Limit})
    BY <2>1, MinOfTwo DEF BodyInv, PreviewIsPrefix
  <2>3. body = Body!Text(preview, full)
    <3>1. body = Body!capturedBody(preview, size)
      BY DEF BodyInv, BodyComposed
    <3> QED
      BY <2>1, <2>2, <3>1 DEF Body!capturedBody
  <2>4. /\ body.captured
        /\ body.bytes >= preview - 3
        /\ body.truncated = (body.bytes < full)
    BY <2>1, <2>2, <2>3, TextCaptured
  <2> QED
    BY <2>2, <2>4 DEF Body!MaxWidth
<1> QED
  BY <1>1, BodyInvariant, PTL
=============================================================================
