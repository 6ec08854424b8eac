--------------------------- MODULE CaptureUploader ---------------------------
(***************************************************************************)
(* The telemetry uploader of dependency capture and the replay snapshot it *)
(* receives: Uploader.Enqueue, Run and serveConnection with its reader     *)
(* goroutine (src/internal/dependencycapture/uploader.go), installing      *)
(* snapshots through OnConfig in BehaviorStore.Replace (behaviors.go).     *)
(* The proxy's request goroutines enqueue events; the control plane, the   *)
(* gateway and the owner of the context are the environment.  How long a   *)
(* backoff lasts is left out: it is the same schedule as in TunnelAgent.   *)
(***************************************************************************)
EXTENDS Integers, Sequences, FiniteSets, SequencesExt, SessionErrors

CONSTANTS
    Events,        \* captured interactions, each emitted once by the proxy
    QueueSize,     \* UploaderConfig.QueueSize
    MaxFaults,     \* bound: failures the environment may inject
    MaxSnapshots   \* bound: snapshots the gateway sends

ASSUME QueueAssumption == QueueSize \in Nat \ {0}
ASSUME BoundAssumption == MaxFaults \in Nat /\ MaxSnapshots \in Nat
ASSUME EventsAssumption == IsFiniteSet(Events)

\* Connections are numbered in the order in which they are made; every
\* connection but the last ends with a fault.
Conns == 1..(MaxFaults + 1)

\* What the gateway writes to the agent: a full snapshot for the session's
\* endpoint (v is its number), one for another endpoint, a message Validate
\* refuses, or a message of another type.
Snapshot(v) == [kind |-> "config", version |-> v]
Foreign == [kind |-> "foreign", version |-> 0]
Invalid == [kind |-> "invalid", version |-> 0]
Other == [kind |-> "other", version |-> 0]
NoMessage == [kind |-> "none", version |-> 0]

NoEvent == "noevent"
Ping == "ping"
ASSUME EventNames == NoEvent \notin Events /\ Ping \notin Events

VARIABLES
    pc,         \* where Run and the select loop of serveConnection are
    cancelled,  \* ctx.Err() # nil
    next,       \* next # nil: an initial session is in hand
    conn,       \* the number of the last connection made
    inflight,   \* the message WriteJSON is writing
    queue,      \* u.queue
    closed,     \* connections whose socket the uploader closed
    broken,     \* connections the network or the gateway broke
    inbox,      \* connection -> messages read or to be read by its reader
    reader,     \* connection -> "none", "reading", "holding", "done"
    held,       \* connection -> message its reader returned from ReadJSON
    readErrors, \* connection -> number of errors in the buffered channel
    store,      \* BehaviorStore.current: the number of the installed snapshot
    snapshots,  \* gateway: number of the newest snapshot
    accepted,   \* history: events in the order Enqueue accepted them
    refused,    \* history: events Enqueue dropped
    sent,       \* history: events written, in order
    lost,       \* history: events whose write failed
    faults      \* failures injected so far

loopVars == <<pc, next, conn, inflight>>
readerVars == <<inbox, reader, held, readErrors>>
netVars == <<closed, broken, snapshots>>
eventVars == <<queue, accepted, refused, sent, lost>>
vars == <<loopVars, cancelled, readerVars, netVars, eventVars, store, faults>>

Init ==
    /\ pc = "loop"
    /\ cancelled = FALSE
    /\ next \in BOOLEAN
    /\ conn = 0
    /\ inflight = NoEvent
    /\ queue = << >>
    /\ closed = {}
    /\ broken = {}
    /\ inbox = [c \in Conns |-> << >>]
    /\ reader = [c \in Conns |-> "none"]
    /\ held = [c \in Conns |-> NoMessage]
    /\ readErrors = [c \in Conns |-> 0]
    /\ store = 0
    /\ snapshots = 0
    /\ accepted = << >>
    /\ refused = {}
    /\ sent = << >>
    /\ lost = {}
    /\ faults = 0

----------------------------------------------------------------------------
(* The proxy's side: any request goroutine, at any time.                   *)

\* Enqueue never waits: it drops an event that Validate refuses or that does
\* not fit.
Enqueue(e, valid) ==
    /\ e \notin refused \cup ToSet(accepted)
    /\ IF valid /\ Len(queue) < QueueSize
       THEN /\ queue' = Append(queue, e)
            /\ accepted' = Append(accepted, e)
            /\ UNCHANGED refused
       ELSE /\ refused' = refused \cup {e}
            /\ UNCHANGED <<queue, accepted>>
    /\ UNCHANGED <<loopVars, cancelled, readerVars, netVars, sent, lost, store, faults>>

----------------------------------------------------------------------------
(* Run: acquire a session, dial, serve, back off.                          *)

Cancel ==
    /\ ~cancelled
    /\ pc # "stopped"
    /\ cancelled' = TRUE
    /\ UNCHANGED <<loopVars, readerVars, netVars, eventVars, store, faults>>

Fault ==
    /\ cancelled \/ faults < MaxFaults
    /\ faults' = IF cancelled THEN faults ELSE faults + 1

LoopTop ==
    /\ pc = "loop"
    /\ pc' = IF cancelled THEN "stopped" ELSE IF next THEN "dialing" ELSE "acquiring"
    /\ next' = FALSE
    /\ UNCHANGED <<cancelled, conn, inflight, readerVars, netVars, eventVars, store, faults>>

AcquireSucceeds ==
    /\ pc = "acquiring"
    /\ pc' = "dialing"
    /\ UNCHANGED <<next, conn, inflight, cancelled, readerVars, netVars, eventVars,
                   store, faults>>

\* The session request fails.
AcquireFails(e) ==
    /\ pc = "acquiring"
    /\ Fault
    /\ pc' = IF cancelled \/ ~IsRetryable(mapCaptureSessionError(e)) THEN "stopped"
             ELSE "backoff"
    /\ UNCHANGED <<next, conn, inflight, cancelled, readerVars, netVars, eventVars,
                   store>>

\* The dial fails: without an answer (status 0), or with one.
DialFails(status) ==
    /\ pc = "dialing"
    /\ Fault
    /\ pc' = IF cancelled \/ status \in (400..499) \ {401, 409} THEN "stopped"
             ELSE "backoff"
    /\ UNCHANGED <<next, conn, inflight, cancelled, readerVars, netVars, eventVars,
                   store>>

\* The connection is made and serveConnection starts its reader goroutine.
DialSucceeds ==
    /\ pc = "dialing"
    /\ conn + 1 \in Conns
    /\ pc' = "serving"
    /\ conn' = conn + 1
    /\ reader' = [reader EXCEPT ![conn + 1] = "reading"]
    /\ UNCHANGED <<next, inflight, cancelled, inbox, held, readErrors, netVars,
                   eventVars, store, faults>>

\* serveConnection returns: its deferred Close closes the socket, the reader
\* goroutine is not waited for.  Run returns when the context is done and
\* backs off otherwise.
ServeReturns ==
    /\ closed' = closed \cup {conn}
    /\ pc' = IF cancelled THEN "stopped" ELSE "backoff"
    /\ inflight' = NoEvent

Mut_ServeCancelled ==
    /\ pc = "serving"
    /\ cancelled
    /\ queue = << >>
    /\ conn \in broken
    /\ ServeReturns
    /\ UNCHANGED <<next, conn, cancelled, readerVars, broken, snapshots, eventVars,
                   store, faults>>

ServeCancelled ==
    /\ pc = "serving"
    /\ cancelled
    /\ ServeReturns
    /\ UNCHANGED <<next, conn, cancelled, readerVars, broken, snapshots, eventVars,
                   store, faults>>

ServeReadError ==
    /\ pc = "serving"
    /\ readErrors[conn] > 0
    /\ readErrors' = [readErrors EXCEPT ![conn] = @ - 1]
    /\ ServeReturns
    /\ UNCHANGED <<next, conn, cancelled, inbox, reader, held, broken, snapshots,
                   eventVars, store, faults>>

Mut_TakeEvent ==
    /\ pc = "serving"
    /\ queue # << >>
    /\ inflight' = Last(queue)
    /\ queue' = Front(queue)
    /\ pc' = "writing"
    /\ UNCHANGED <<next, conn, cancelled, readerVars, netVars, accepted, refused,
                   sent, lost, store, faults>>

TakeEvent ==
    /\ pc = "serving"
    /\ queue # << >>
    /\ inflight' = Head(queue)
    /\ queue' = Tail(queue)
    /\ pc' = "writing"
    /\ UNCHANGED <<next, conn, cancelled, readerVars, netVars, accepted, refused,
                   sent, lost, store, faults>>

TickPing ==
    /\ pc = "serving"
    /\ inflight' = Ping
    /\ pc' = "writing"
    /\ UNCHANGED <<next, conn, cancelled, readerVars, netVars, eventVars, store, faults>>

\* WriteJSON succeeds: the frame is in the socket's buffer, which it may be
\* even when the peer is already gone.
WriteSucceeds ==
    /\ pc = "writing"
    /\ pc' = "serving"
    /\ sent' = IF inflight = Ping THEN sent ELSE Append(sent, inflight)
    /\ inflight' = NoEvent
    /\ UNCHANGED <<next, conn, cancelled, readerVars, netVars, queue, accepted,
                   refused, lost, store, faults>>

\* WriteJSON fails or runs into its 10 s deadline because the connection is
\* broken: the event being written is dropped, never requeued.
WriteFails ==
    /\ pc = "writing"
    /\ conn \in broken
    /\ lost' = IF inflight = Ping THEN lost ELSE lost \cup {inflight}
    /\ ServeReturns
    /\ UNCHANGED <<next, conn, cancelled, readerVars, broken, snapshots, queue,
                   accepted, refused, sent, store, faults>>

Mut_BackoffElapses ==
    /\ pc = "backoff"
    /\ pc' = IF queue = << >> THEN "loop" ELSE "backoff"
    /\ UNCHANGED <<next, conn, inflight, cancelled, readerVars, netVars, eventVars,
                   store, faults>>

BackoffElapses ==
    /\ pc = "backoff"
    /\ pc' = "loop"
    /\ UNCHANGED <<next, conn, inflight, cancelled, readerVars, netVars, eventVars,
                   store, faults>>

BackoffCancelled ==
    /\ pc = "backoff"
    /\ cancelled
    /\ pc' = "stopped"
    /\ UNCHANGED <<next, conn, inflight, cancelled, readerVars, netVars, eventVars,
                   store, faults>>

----------------------------------------------------------------------------
(* The reader goroutine of connection c.  It may outlive serveConnection.  *)

Mut_CanReport(c) == readErrors[c] = 0 /\ pc = "serving" /\ conn = c

\* readErrors has room for one error, so the send never waits for the loop.
CanReport(c) == readErrors[c] = 0

\* The reader puts its error into the channel and ends.
Report(c) ==
    /\ CanReport(c)
    /\ readErrors' = [readErrors EXCEPT ![c] = @ + 1]
    /\ reader' = [reader EXCEPT ![c] = "done"]

\* ReadJSON returns the next message; data that is already buffered can be
\* read even after the socket was closed.
Read(c) ==
    /\ reader[c] = "reading"
    /\ inbox[c] # << >>
    /\ held' = [held EXCEPT ![c] = Head(inbox[c])]
    /\ inbox' = [inbox EXCEPT ![c] = Tail(@)]
    /\ reader' = [reader EXCEPT ![c] = "holding"]
    /\ UNCHANGED <<loopVars, cancelled, readErrors, netVars, eventVars, store, faults>>

\* ReadJSON fails because the socket was closed or the connection broke.
ReadFails(c) ==
    /\ reader[c] = "reading"
    /\ c \in closed \cup broken
    /\ Report(c)
    /\ UNCHANGED <<loopVars, cancelled, inbox, held, netVars, eventVars, store, faults>>

\* Validate refuses the message, or it configures another endpoint.
Refuse(c) ==
    /\ reader[c] = "holding"
    /\ held[c] \in {Invalid, Foreign}
    /\ Report(c)
    /\ held' = [held EXCEPT ![c] = NoMessage]
    /\ UNCHANGED <<loopVars, cancelled, inbox, netVars, eventVars, store, faults>>

\* OnConfig installs the snapshot with one atomic pointer store; a message of
\* another type is ignored.
Apply(c) ==
    /\ reader[c] = "holding"
    /\ held[c] \notin {Invalid, Foreign}
    /\ store' = IF held[c] = Other THEN store ELSE held[c].version
    /\ held' = [held EXCEPT ![c] = NoMessage]
    /\ reader' = [reader EXCEPT ![c] = "reading"]
    /\ UNCHANGED <<loopVars, cancelled, inbox, readErrors, netVars, eventVars, faults>>

----------------------------------------------------------------------------
(* The gateway and the network.                                            *)

\* Whether the gateway can still write to the current connection.
Attached == conn > 0 /\ conn \notin closed \cup broken

\* The gateway sends the newest configuration of the endpoint.
SendSnapshot ==
    /\ Attached
    /\ snapshots < MaxSnapshots
    /\ snapshots' = snapshots + 1
    /\ inbox' = [inbox EXCEPT ![conn] = Append(@, Snapshot(snapshots + 1))]
    /\ UNCHANGED <<loopVars, cancelled, reader, held, readErrors, closed, broken,
                   eventVars, store, faults>>

\* The gateway sends a message that ends the connection, or an ignored one.
SendUnexpected(m) ==
    /\ Attached
    /\ Len(inbox[conn]) < 2
    /\ faults < MaxFaults
    /\ faults' = faults + 1
    /\ inbox' = [inbox EXCEPT ![conn] = Append(@, m)]
    /\ UNCHANGED <<loopVars, cancelled, reader, held, readErrors, netVars, eventVars,
                   store>>

\* The connection breaks: reads fail, writes may.
Break ==
    /\ Attached
    /\ faults < MaxFaults
    /\ faults' = faults + 1
    /\ broken' = broken \cup {conn}
    /\ UNCHANGED <<loopVars, cancelled, readerVars, closed, snapshots, eventVars,
                   store>>

----------------------------------------------------------------------------
\* Run has returned; the proxy may go on enqueueing.
Stopped == pc = "stopped" /\ UNCHANGED vars

RunStep ==
    \/ LoopTop \/ AcquireSucceeds
    \/ \E e \in SessionErrors : AcquireFails(e)
    \/ \E status \in {0, 401, 403, 409, 503} : DialFails(status)
    \/ DialSucceeds \/ BackoffElapses \/ BackoffCancelled

SelectStep ==
    \/ ServeCancelled \/ ServeReadError \/ TakeEvent \/ TickPing

WriteStep == WriteSucceeds \/ WriteFails

ReaderStep(c) == Read(c) \/ ReadFails(c) \/ Refuse(c) \/ Apply(c)

Next ==
    \/ \E e \in Events, valid \in BOOLEAN : Enqueue(e, valid)
    \/ Cancel
    \/ RunStep
    \/ SelectStep
    \/ WriteStep
    \/ \E c \in Conns : ReaderStep(c)
    \/ SendSnapshot
    \/ \E m \in {Foreign, Invalid, Other} : SendUnexpected(m)
    \/ Break
    \/ Stopped

Spec == Init /\ [][Next]_vars

\* Goroutines are scheduled, requests, dials and writes return (they have
\* deadlines), timers fire, and a reader of a closed or broken socket gets its
\* error.  Go's select picks uniformly among the ready cases, so a case that
\* is ready again and again is taken: strong fairness for the cases of the
\* select loop.  Nothing makes the environment fail, cancel or send.
Fairness ==
    /\ WF_vars(RunStep)
    /\ WF_vars(WriteStep)
    /\ SF_vars(ServeCancelled)
    /\ SF_vars(ServeReadError)
    /\ SF_vars(TakeEvent)
    /\ \A c \in Conns : WF_vars(ReaderStep(c))

FairSpec == Spec /\ Fairness

----------------------------------------------------------------------------
(* Properties.                                                             *)

\* Type invariant of the uploader.
TypeOK ==
    /\ pc \in {"loop", "acquiring", "dialing", "serving", "writing", "backoff", "stopped"}
    /\ cancelled \in BOOLEAN
    /\ next \in BOOLEAN
    /\ conn \in 0..(MaxFaults + 1)
    /\ inflight \in Events \cup {NoEvent, Ping}
    /\ queue \in Seq(Events)
    /\ closed \subseteq Conns
    /\ broken \subseteq Conns
    /\ reader \in [Conns -> {"none", "reading", "holding", "done"}]
    /\ readErrors \in [Conns -> 0..1]
    /\ store \in 0..MaxSnapshots
    /\ snapshots \in 0..MaxSnapshots
    /\ accepted \in Seq(Events)
    /\ refused \subseteq Events
    /\ sent \in Seq(Events)
    /\ lost \subseteq Events

\* The event being written, as a sequence of at most one.
Writing == IF inflight \in Events THEN <<inflight>> ELSE << >>

\* What was uploaded, is being written or still waits, in this order.
Outgoing == sent \o Writing \o queue

\* Conservation and order: what was uploaded, is being written or still waits
\* is exactly what Enqueue accepted, in that order and without duplicates,
\* minus the events whose write failed, at most one per lost connection.
UploadInOrder ==
    /\ ToSet(Outgoing) = ToSet(accepted) \ lost
    /\ lost \subseteq ToSet(accepted)
    /\ \A i, j \in DOMAIN Outgoing, m, n \in DOMAIN accepted :
          i < j /\ Outgoing[i] = accepted[m] /\ Outgoing[j] = accepted[n] => m < n
    /\ Cardinality(lost) <= Cardinality(closed)

\* The number of accepted events that are neither waiting nor being written.
Settled == Len(accepted) - Len(queue) - Len(Writing)

\* EventStream with the loop, the readers and the snapshots abstracted away.
Stream == INSTANCE EventStream WITH
    settled <- Settled,
    delivered <- sent,
    givenUp <- Cardinality(closed),
    ended <- pc = "stopped"

\* The uploader implements the contract of the event stream: step by step, also
\* while connections are lost and events arrive from any goroutine.
ImplementsStream == Stream!Spec

\* Cancelling the context ends Run, whatever it is waiting for.
CancelStops == cancelled ~> (pc = "stopped")

\* No reader goroutine is left behind: after its socket was closed it ends,
\* although nobody may receive its error.
ReadersEnd == \A c \in Conns : (c \in closed) ~> (reader[c] = "done")

\* An accepted event is eventually written, or lost with its connection,
\* unless Run ends.
EventsLeave ==
    \A e \in Events :
        (e \in ToSet(queue)) ~> (e \in ToSet(sent) \cup lost \/ pc = "stopped")

\* "The latest full snapshot is held atomically in memory"
\* (docs/v7-dependency-replay.md): when the readers have nothing left to do,
\* the installed snapshot is the newest one that reached the agent.
LatestSnapshotHeld ==
    (\A c \in Conns : reader[c] # "holding" /\ inbox[c] = << >>)
        => store = snapshots
=============================================================================
