-------------------------- MODULE DependencyProxy --------------------------
(***************************************************************************)
(* The dependency proxy of src/internal/dependencycapture/proxy.go: the    *)
(* connections of the local application, plain HTTP requests, intercepted  *)
(* and passed-through CONNECT tunnels, replay of saved behaviours, the     *)
(* events handed to the uploader, and shutdown with its list of hijacked   *)
(* connections, which http.Server.Shutdown does not know.                  *)
(***************************************************************************)
EXTENDS Naturals

CONSTANTS
    Conns,         \* connections of the application
    MaxRequests,   \* bound: requests forwarded on one connection
    MaxSnapshots   \* bound: behaviour snapshots that arrive

ASSUME ProxyAssumption ==
    /\ MaxRequests \in Nat
    /\ MaxSnapshots \in Nat

Kinds == {"plain", "intercept", "passthrough"}

VARIABLES
    kind,       \* what the application uses the connection for
    pc,         \* where the handler of each connection is
    client,     \* the socket of the application: "none", "open", "gone" when
                \* its peer has left, "closed" when the proxy has closed it
    upstream,   \* the socket of the dependency of a passthrough tunnel
    tracked,    \* Proxy.connections, as <<connection, side>>
    requests,   \* requests forwarded so far on each connection
    origin,     \* what the dependency did with the current request
    event,      \* HandledBy of the event of the current request, or "none"
    behaviors,  \* connections whose target the current snapshot matches
    snapshots,  \* snapshots applied so far
    ctxDone,    \* the context of Serve is done
    shut,       \* progress of the shutdown goroutine
    toClose,    \* its list of hijacked connections
    serve       \* p.server.Serve: "serving" or "returned"

conn == <<kind, pc, client, upstream, tracked>>
request == <<requests, origin, event>>
replays == <<behaviors, snapshots>>
shutdown == <<ctxDone, shut, toClose, serve>>
vars == <<conn, request, replays, shutdown>>

Init ==
    /\ kind \in [Conns -> Kinds]
    /\ pc = [c \in Conns |-> "none"]
    /\ client = [c \in Conns |-> "none"]
    /\ upstream = [c \in Conns |-> "none"]
    /\ tracked = {}
    /\ requests = [c \in Conns |-> 0]
    /\ origin = [c \in Conns |-> "idle"]
    /\ event = [c \in Conns |-> "none"]
    /\ behaviors = {} /\ snapshots = 0
    /\ ctxDone = FALSE /\ shut = "no" /\ toClose = {} /\ serve = "serving"

Sides == {"client", "upstream"}

Goto(c, from, to) == pc[c] = from /\ pc' = [pc EXCEPT ![c] = to]

\* Where a connection waits for its next request: at the proxy's server, or
\* once decrypted at the server interceptTLS runs for it.
IdleAt(c) == IF kind[c] = "plain" THEN "accepted" ELSE "decrypted"

Close(side, c) == side' = [side EXCEPT ![c] = "closed"]

\* net/http closes a connection that it serves: the proxy's own server one it
\* was not taken from, the one of interceptTLS its decrypted connection, whose
\* end ends the single-connection listener and with it interceptTLS.
ServerCloses(c) ==
    /\ pc' = [pc EXCEPT ![c] = IF kind[c] = "intercept" /\ @ # "accepted"
                               THEN "leaving" ELSE "ended"]
    /\ Close(client, c)

----------------------------------------------------------------------------
(* Connections.                                                            *)

Accept(c) ==
    /\ serve = "serving"
    /\ Goto(c, "none", "accepted")
    /\ client' = [client EXCEPT ![c] = "open"]
    /\ UNCHANGED <<kind, upstream, tracked, request, replays, shutdown>>

\* The application or the dependency of a passthrough tunnel leaves.
AppLeaves(c) ==
    /\ client[c] = "open"
    /\ client' = [client EXCEPT ![c] = "gone"]
    /\ UNCHANGED <<kind, pc, upstream, tracked, request, replays, shutdown>>

DependencyLeaves(c) ==
    /\ upstream[c] = "open"
    /\ upstream' = [upstream EXCEPT ![c] = "gone"]
    /\ UNCHANGED <<kind, pc, client, tracked, request, replays, shutdown>>

Connect(c) ==
    /\ kind[c] # "plain"
    /\ client[c] = "open"
    /\ Goto(c, "accepted", "connect")
    /\ UNCHANGED <<kind, client, upstream, tracked, request, replays, shutdown>>

\* The target is malformed, the dependency of a passthrough tunnel cannot be
\* reached, or no certificate can be made: an error response, no hijack.
ConnectFails(c) ==
    /\ Goto(c, "connect", "accepted")
    /\ UNCHANGED <<kind, client, upstream, tracked, request, replays, shutdown>>

\* A passthrough host is dialled before the connection is hijacked.
DialPassthrough(c) ==
    /\ kind[c] = "passthrough"
    /\ Goto(c, "connect", "hijack")
    /\ upstream' = [upstream EXCEPT ![c] = "open"]
    /\ UNCHANGED <<kind, client, tracked, request, replays, shutdown>>

\* A certificate is made for the host of an intercepted tunnel.
MakeCertificate(c) ==
    /\ kind[c] = "intercept"
    /\ Goto(c, "connect", "hijack")
    /\ UNCHANGED <<kind, client, upstream, tracked, request, replays, shutdown>>

\* An intercepted connection is tracked before its 200 response is written, a
\* passthrough tunnel after it.
Hijack(c) ==
    /\ Goto(c, "hijack", IF kind[c] = "intercept" THEN "hijacked" ELSE "greet")
    /\ UNCHANGED <<kind, client, upstream, tracked, request, replays, shutdown>>

Mut_HijackFails(c) ==
    /\ Goto(c, "hijack", "accepted")
    /\ UNCHANGED <<kind, client, upstream, tracked, request, replays, shutdown>>

\* The server keeps the application's connection; tunnelPassthrough closes the
\* dependency's, interceptTLS has none.
HijackFails(c) ==
    /\ Goto(c, "hijack", "accepted")
    /\ IF kind[c] = "passthrough" THEN Close(upstream, c) ELSE UNCHANGED upstream
    /\ UNCHANGED <<kind, client, tracked, request, replays, shutdown>>

\* trackConnection(client), for either use.
TrackClient(c) ==
    /\ \/ Goto(c, "hijacked", "greet")
       \/ Goto(c, "greeted", "tracking")
    /\ tracked' = tracked \cup {<<c, "client">>}
    /\ UNCHANGED <<kind, client, upstream, request, replays, shutdown>>

\* The 200 response is flushed; a peer that has left may not be noticed yet.
Greet(c) ==
    /\ client[c] # "closed"
    /\ Goto(c, "greet", IF kind[c] = "intercept" THEN "handshake" ELSE "greeted")
    /\ UNCHANGED <<kind, client, upstream, tracked, request, replays, shutdown>>

\* Writing or flushing the 200 response fails: the client is closed, and a
\* passthrough tunnel then closes its upstream side.
GreetFails(c) ==
    /\ client[c] # "open"
    /\ Goto(c, "greet", IF kind[c] = "intercept" THEN "leaving" ELSE "refused")
    /\ Close(client, c)
    /\ UNCHANGED <<kind, upstream, tracked, request, replays, shutdown>>

CloseRefused(c) ==
    /\ Goto(c, "refused", "ended")
    /\ Close(upstream, c)
    /\ UNCHANGED <<kind, client, tracked, request, replays, shutdown>>

\* The TLS handshake with the application succeeds: an HTTP server of its own
\* serves the decrypted connection.
Handshake(c) ==
    /\ client[c] = "open"
    /\ Goto(c, "handshake", "decrypted")
    /\ UNCHANGED <<kind, client, upstream, tracked, request, replays, shutdown>>

HandshakeFails(c) ==
    /\ Goto(c, "handshake", "leaving")
    /\ Close(client, c)
    /\ UNCHANGED <<kind, upstream, tracked, request, replays, shutdown>>

Mut_TrackUpstream(c) ==
    /\ Goto(c, "tracking", "copy")
    /\ UNCHANGED <<kind, client, upstream, tracked, request, replays, shutdown>>

\* trackConnection(upstream) takes the lock a second time; then copying starts.
TrackUpstream(c) ==
    /\ Goto(c, "tracking", "copy")
    /\ tracked' = tracked \cup {<<c, "upstream">>}
    /\ UNCHANGED <<kind, client, upstream, request, replays, shutdown>>

\* One of the two copies ends, because a peer left or shutdown closed a side.
CopyEnds(c) ==
    /\ client[c] # "open" \/ upstream[c] # "open"
    /\ Goto(c, "copy", "copied")
    /\ UNCHANGED <<kind, client, upstream, tracked, request, replays, shutdown>>

\* The deferred calls of copyTunnel and tunnelPassthrough, in their order.
CloseUpstream(c) ==
    /\ Goto(c, "copied", "halfClosed")
    /\ Close(upstream, c)
    /\ UNCHANGED <<kind, client, tracked, request, replays, shutdown>>

CloseClient(c) ==
    /\ Goto(c, "halfClosed", "bothClosed")
    /\ Close(client, c)
    /\ UNCHANGED <<kind, upstream, tracked, request, replays, shutdown>>

UntrackUpstream(c) ==
    /\ Goto(c, "bothClosed", "leaving")
    /\ tracked' = tracked \ {<<c, "upstream">>}
    /\ UNCHANGED <<kind, client, upstream, request, replays, shutdown>>

\* untrackConnection(client), the last deferred call of either use.
UntrackClient(c) ==
    /\ Goto(c, "leaving", "ended")
    /\ tracked' = tracked \ {<<c, "client">>}
    /\ UNCHANGED <<kind, client, upstream, request, replays, shutdown>>

\* The server gives up an idle connection: the application left, shutdown
\* closed it, or its idle timeout elapsed.
IdleEnds(c) ==
    /\ pc[c] \in {"accepted", "decrypted"}
    /\ ServerCloses(c)
    /\ UNCHANGED <<kind, upstream, tracked, request, replays, shutdown>>

----------------------------------------------------------------------------
(* Requests: forward and replay.                                           *)

Request(c) ==
    /\ client[c] = "open"
    /\ requests[c] < MaxRequests
    /\ Goto(c, IdleAt(c), "forward")
    /\ requests' = [requests EXCEPT ![c] = @ + 1]
    /\ origin' = [origin EXCEPT ![c] = "idle"]
    /\ event' = [event EXCEPT ![c] = "none"]
    /\ UNCHANGED <<kind, client, upstream, tracked, replays, shutdown>>

\* No URL, another scheme, an invalid target: 400.
BadRequest(c) ==
    /\ Goto(c, "forward", IdleAt(c))
    /\ UNCHANGED <<kind, client, upstream, tracked, request, replays, shutdown>>

\* The snapshot of this moment decides between replay and origin.
Match(c) ==
    /\ Goto(c, "forward", IF c \in behaviors THEN "replay" ELSE "roundTrip")
    /\ UNCHANGED <<kind, client, upstream, tracked, request, replays, shutdown>>

\* The request body is consumed, the saved response written (errors of the
\* write are ignored), and the event emitted.
Replay(c) ==
    /\ Goto(c, "replay", IdleAt(c))
    /\ event' = [event EXCEPT ![c] = "REPLAY"]
    /\ UNCHANGED <<kind, client, upstream, tracked, requests, origin, replays, shutdown>>

ReplayFails(c) ==
    /\ Goto(c, "replay", IdleAt(c))
    /\ UNCHANGED <<kind, client, upstream, tracked, request, replays, shutdown>>

\* The head of the response arrives, its body follows.
RoundTrip(c) ==
    /\ Goto(c, "roundTrip", "stream")
    /\ origin' = [origin EXCEPT ![c] = "sending"]
    /\ UNCHANGED <<kind, client, upstream, tracked, requests, event, replays, shutdown>>

\* 502 without an event; also when the application went away meanwhile, which
\* cancels the request.
RoundTripFails(c) ==
    /\ Goto(c, "roundTrip", IdleAt(c))
    /\ origin' = [origin EXCEPT ![c] = "broken"]
    /\ UNCHANGED <<kind, client, upstream, tracked, requests, event, replays, shutdown>>

\* The dependency completes its response or breaks off.
DependencyEnds(c) ==
    /\ origin[c] = "sending"
    /\ \E how \in {"ended", "broken"} : origin' = [origin EXCEPT ![c] = how]
    /\ UNCHANGED <<conn, requests, event, replays, shutdown>>

\* The body was read up to its end and written into the server's buffer, from
\* where it may never reach an application that has left; the event is emitted.
StreamCompletes(c) ==
    /\ origin[c] = "ended"
    /\ Goto(c, "stream", IdleAt(c))
    /\ event' = [event EXCEPT ![c] = "ORIGIN"]
    /\ UNCHANGED <<kind, client, upstream, tracked, requests, origin, replays, shutdown>>

Mut_StreamFails(c, framed) ==
    /\ pc[c] = "stream"
    /\ origin[c] = "broken" \/ client[c] # "open"
    /\ event' = [event EXCEPT ![c] = "ORIGIN"]
    /\ IF framed THEN ServerCloses(c)
                 ELSE Goto(c, "stream", IdleAt(c)) /\ UNCHANGED client
    /\ UNCHANGED <<kind, upstream, tracked, requests, origin, replays, shutdown>>

\* Reading from the dependency fails (it broke off, or the request was cancelled
\* with its connection) or writing to the application does: forward returns
\* without an event.  If the response announced its length, the server misses
\* the rest and closes the connection; otherwise it ends it like a complete one.
StreamFails(c, framed) ==
    /\ pc[c] = "stream"
    /\ origin[c] = "broken" \/ client[c] # "open"
    /\ IF framed THEN ServerCloses(c)
                 ELSE Goto(c, "stream", IdleAt(c)) /\ UNCHANGED client
    /\ UNCHANGED <<kind, upstream, tracked, request, replays, shutdown>>

\* The uploader applies a new snapshot.
Replace(b) ==
    /\ snapshots < MaxSnapshots
    /\ behaviors' = b
    /\ snapshots' = snapshots + 1
    /\ UNCHANGED <<conn, request, shutdown>>

----------------------------------------------------------------------------
(* Serve and its shutdown goroutine.                                       *)

Cancel ==
    /\ ~ctxDone
    /\ ctxDone' = TRUE
    /\ UNCHANGED <<conn, request, replays, shut, toClose, serve>>

\* closeHijackedConnections copies the list under its lock ...
Snapshot ==
    /\ ctxDone
    /\ shut = "no"
    /\ shut' = "closing"
    /\ toClose' = tracked
    /\ UNCHANGED <<conn, request, replays, ctxDone, serve>>

Mut_CloseHijacked ==
    /\ shut = "closing"
    /\ shut' = "closed"
    /\ UNCHANGED <<conn, request, replays, ctxDone, toClose, serve>>

\* ... and closes its members without the lock.
CloseHijacked ==
    /\ shut = "closing"
    /\ shut' = "closed"
    /\ client' = [c \in Conns |-> IF <<c, "client">> \in toClose THEN "closed"
                                  ELSE client[c]]
    /\ upstream' = [c \in Conns |-> IF <<c, "upstream">> \in toClose THEN "closed"
                                    ELSE upstream[c]]
    /\ UNCHANGED <<kind, pc, tracked, request, replays, ctxDone, toClose, serve>>

\* Shutdown closes the listener, which makes Serve return at once; running
\* handlers go on.
ServerShutdown ==
    /\ shut = "closed"
    /\ shut' = "done"
    /\ serve' = "returned"
    /\ UNCHANGED <<conn, request, replays, ctxDone, toClose>>

\* The server ended by itself: the select may find done before the context.
ShutdownSkipped ==
    /\ serve = "returned"
    /\ shut = "no"
    /\ shut' = "skipped"
    /\ UNCHANGED <<conn, request, replays, ctxDone, toClose, serve>>

\* The listener fails.
ServeFails ==
    /\ serve = "serving"
    /\ serve' = "returned"
    /\ UNCHANGED <<conn, request, replays, ctxDone, shut, toClose>>

----------------------------------------------------------------------------
\* What a handler does by itself, and what it does to unwind.
HandlerStep(c) ==
    \/ ConnectFails(c)
    \/ DialPassthrough(c)
    \/ MakeCertificate(c)
    \/ Hijack(c)
    \/ HijackFails(c)
    \/ TrackClient(c)
    \/ Greet(c)
    \/ TrackUpstream(c)
    \/ BadRequest(c)
    \/ Match(c)

UnwindStep(c) ==
    \/ CloseRefused(c)
    \/ CopyEnds(c)
    \/ CloseUpstream(c)
    \/ CloseClient(c)
    \/ UntrackUpstream(c)
    \/ UntrackClient(c)

\* What the end of the application's connection makes happen.
FailStep(c) ==
    \/ GreetFails(c)
    \/ HandshakeFails(c)
    \/ ReplayFails(c)
    \/ RoundTripFails(c)
    \/ \E framed \in BOOLEAN : StreamFails(c, framed)
    \/ IdleEnds(c)

\* What the peers do, and what waits for them.
PeerStep(c) ==
    \/ Accept(c)
    \/ AppLeaves(c)
    \/ DependencyLeaves(c)
    \/ Connect(c)
    \/ Handshake(c)
    \/ Request(c)
    \/ Replay(c)
    \/ RoundTrip(c)
    \/ DependencyEnds(c)
    \/ StreamCompletes(c)

Step(c) == HandlerStep(c) \/ UnwindStep(c) \/ FailStep(c) \/ PeerStep(c)

ShutdownStep == Snapshot \/ CloseHijacked \/ ServerShutdown \/ ShutdownSkipped

Next ==
    \/ \E c \in Conns : Step(c)
    \/ \E b \in SUBSET Conns : Replace(b)
    \/ Cancel
    \/ ShutdownStep
    \/ ServeFails

Spec == Init /\ [][Next]_vars

\* Handlers and the shutdown goroutine run, and a handler whose copy has ended
\* unwinds.  The end of the application's connection ends a handshake, an idle
\* connection and the request that was waiting; peers that stay and are silent
\* may be so for ever.
Fairness ==
    /\ WF_vars(ShutdownStep)
    /\ \A c \in Conns :
          /\ WF_vars(HandlerStep(c))
          /\ WF_vars(UnwindStep(c))
          /\ WF_vars(client[c] # "open" /\ FailStep(c))

FairSpec == Spec /\ Fairness

----------------------------------------------------------------------------
(* Properties.                                                             *)

\* The places of a handler; Serving are those of a decrypted connection.
Serving == {"decrypted", "forward", "replay", "roundTrip", "stream"}
Places == Serving \cup
    {"none", "accepted", "connect", "hijack", "hijacked", "greet", "greeted", "tracking",
     "copy", "copied", "halfClosed", "bothClosed", "refused", "handshake", "leaving", "ended"}

\* Type invariant of the proxy; only passthrough tunnels own an upstream
\* connection, the others leave it to the transport.
TypeOK ==
    /\ kind \in [Conns -> Kinds]
    /\ pc \in [Conns -> Places]
    /\ client \in [Conns -> {"none", "open", "gone", "closed"}]
    /\ upstream \in [Conns -> {"none", "open", "gone", "closed"}]
    /\ \A c \in Conns : upstream[c] # "none" => kind[c] = "passthrough"
    /\ tracked \subseteq Conns \X Sides
    /\ requests \in [Conns -> 0..MaxRequests]
    /\ origin \in [Conns -> {"idle", "sending", "ended", "broken"}]
    /\ event \in [Conns -> {"none", "ORIGIN", "REPLAY"}]
    /\ behaviors \subseteq Conns
    /\ snapshots \in 0..MaxSnapshots
    /\ ctxDone \in BOOLEAN
    /\ shut \in {"no", "closing", "closed", "done", "skipped"}
    /\ toClose \subseteq Conns \X Sides
    /\ serve \in {"serving", "returned"}

\* Nothing of a passthrough tunnel or of the list is left over.
Released(c) == upstream[c] \in {"none", "closed"} /\ {c} \X Sides \cap tracked = {}

\* No connection leaks, on whichever of the paths through handleConnect: when a
\* handler is over, the proxy has closed both sockets itself (that the peers
\* left is not enough) and removed them from the list; and while the server
\* still has or has got back the connection, as after a failed dial or hijack,
\* no socket of the dependency is left from the attempt.
EndedIsReleased ==
    \A c \in Conns :
        /\ pc[c] = "ended" => client[c] = "closed" /\ Released(c)
        /\ pc[c] \in {"none", "accepted"} => Released(c)

\* Telemetry tells how the current request was handled, although snapshots and
\* peers change while it is under way: ORIGIN only after the dependency has
\* completed its response, REPLAY only if it was never contacted; and an
\* exchange the dependency completed is missing from the telemetry only if the
\* application has left.  It does not tell that the application received the
\* response.
EventIsTruthful ==
    \A c \in Conns :
        /\ event[c] = "ORIGIN" => origin[c] = "ended"
        /\ event[c] = "REPLAY" => origin[c] = "idle"
        /\ origin[c] = "ended" /\ pc[c] # "stream" /\ client[c] = "open"
              => event[c] = "ORIGIN"

\* A tunnel that copies bytes is in the list with both sides, and a decrypted
\* connection with its client side: shutdown can find them.
HijackedIsTracked ==
    \A c \in Conns :
        /\ pc[c] = "copy" => {c} \X Sides \subseteq tracked
        /\ kind[c] = "intercept" /\ pc[c] \in Serving => <<c, "client">> \in tracked

\* Once the context is done, every hijacked connection that is in the list
\* when it is read ends, even if its peers stay silent.
ShutdownEndsTracked ==
    \A c \in Conns : (<<c, "client">> \in toClose) ~> (pc[c] = "ended")
=============================================================================
