-------------------------- MODULE TunnelConnection --------------------------
(***************************************************************************)
(* One connection of the public tunnel: Agent.serveConnection with its     *)
(* watcher goroutine, one handleRequest goroutine per forwarded request    *)
(* and the mutex of socketWriter (src/internal/agent/agent.go).  The       *)
(* gateway, the network, the local application and the owner of the        *)
(* context are the environment.                                            *)
(***************************************************************************)
EXTENDS Integers, FiniteSets

CONSTANTS
    Requests,  \* the request messages the gateway may send
    MaxPings   \* bound: pings and ignored messages the gateway sends

ASSUME RequestsAssumption == IsFiniteSet(Requests)
ASSUME PingsAssumption == MaxPings \in Nat

VARIABLES
    parentDone, \* the parent context is done
    cancelled,  \* cancel() of the connection's own context was called
    wsClosed,   \* ws.Close was called
    broken,     \* the network or the gateway ended the connection
    stalled,    \* the gateway does not read: a write blocks
    reader,     \* the read loop of serveConnection
    watcher,    \* the goroutine that closes the socket with the context
    handler,    \* request -> where its handleRequest goroutine is
    answer,     \* request -> type or error code of the message it writes
    mu,         \* socketWriter.mu is held
    requests,   \* the counter of the wait group
    answered,   \* history: request -> answers written to the socket
    pings       \* pings and ignored messages received so far

goVars == <<reader, watcher, handler, answer, mu, requests, answered>>
envVars == <<parentDone, broken, stalled>>
vars == <<goVars, envVars, cancelled, wsClosed, pings>>

\* ctx.Done() of the connection's context is closed.
ctxDone == parentDone \/ cancelled

ErrorCodes ==
    {"invalid_request", "timeout", "local_unreachable", "response_too_large",
     "local_response_error"}

Init ==
    /\ parentDone = FALSE
    /\ cancelled = FALSE
    /\ wsClosed = FALSE
    /\ broken = FALSE
    /\ stalled = FALSE
    /\ reader = "reading"
    /\ watcher = "watching"
    /\ handler = [r \in Requests |-> "none"]
    /\ answer = [r \in Requests |-> "none"]
    /\ mu = FALSE
    /\ requests = 0
    /\ answered = [r \in Requests |-> 0]
    /\ pings = 0

----------------------------------------------------------------------------
(* The read loop.  Frames that are already buffered are read even after    *)
(* the socket was closed.                                                  *)

ReadRequest(r) ==
    /\ reader = "reading"
    /\ handler[r] = "none"
    /\ requests' = requests + 1
    /\ handler' = [handler EXCEPT ![r] = "started"]
    /\ UNCHANGED <<reader, watcher, answer, mu, answered, envVars, cancelled,
                   wsClosed, pings>>

ReadPing ==
    /\ reader = "reading"
    /\ pings < MaxPings
    /\ pings' = pings + 1
    /\ reader' = "pong"
    /\ UNCHANGED <<watcher, handler, answer, mu, requests, answered, envVars,
                   cancelled, wsClosed>>

\* A message of another protocol version or of another type.
ReadIgnored ==
    /\ reader = "reading"
    /\ pings < MaxPings
    /\ pings' = pings + 1
    /\ UNCHANGED <<goVars, envVars, cancelled, wsClosed>>

\* ReadJSON fails: the socket is closed, the connection is broken, or the
\* gateway sent a message that is too large or not JSON.
ReadFails ==
    /\ reader = "reading"
    /\ cancelled' = TRUE
    /\ reader' = "waiting"
    /\ UNCHANGED <<watcher, handler, answer, mu, requests, answered, envVars,
                   wsClosed, pings>>

\* requests.Wait() has let the read loop through; the deferred calls close
\* the channel closed and the socket.
Return ==
    /\ wsClosed' = TRUE
    /\ reader' = "returned"

Mut_Wait ==
    /\ reader = "waiting"
    /\ Return
    /\ UNCHANGED <<watcher, handler, answer, mu, requests, answered, envVars,
                   cancelled, pings>>

Wait ==
    /\ reader = "waiting"
    /\ requests = 0
    /\ Return
    /\ UNCHANGED <<watcher, handler, answer, mu, requests, answered, envVars,
                   cancelled, pings>>

Mut_Watch ==
    /\ watcher = "watching"
    /\ reader = "returned"
    /\ watcher' = "ended"
    /\ UNCHANGED <<reader, handler, answer, mu, requests, answered, envVars,
                   cancelled, wsClosed, pings>>

\* The watcher closes the socket with the context, which fails every blocked
\* read and write, or ends with the connection (the socket is closed then).
Watch ==
    /\ watcher = "watching"
    /\ ctxDone \/ reader = "returned"
    /\ watcher' = "ended"
    /\ wsClosed' = TRUE
    /\ UNCHANGED <<reader, handler, answer, mu, requests, answered, envVars,
                   cancelled, pings>>

----------------------------------------------------------------------------
(* socketWriter.write: a write holds the mutex for as long as it takes.    *)

\* A blocked write ends with success when the gateway reads, and with an
\* error when the socket is closed or broken.
CanWrite == ~stalled /\ ~wsClosed
CanFail == wsClosed \/ broken

Mut_LockPong ==
    /\ reader = "pong"
    /\ mu' = TRUE
    /\ reader' = "writing"
    /\ UNCHANGED <<watcher, handler, answer, requests, answered, envVars, cancelled,
                   wsClosed, pings>>

LockPong ==
    /\ reader = "pong"
    /\ ~mu
    /\ mu' = TRUE
    /\ reader' = "writing"
    /\ UNCHANGED <<watcher, handler, answer, requests, answered, envVars, cancelled,
                   wsClosed, pings>>

WritePong ==
    /\ reader = "writing"
    /\ CanWrite \/ CanFail
    /\ mu' = FALSE
    /\ reader' = "reading"
    /\ UNCHANGED <<watcher, handler, answer, requests, answered, envVars, cancelled,
                   wsClosed, pings>>

LockAnswer(r) ==
    /\ handler[r] = "answering"
    /\ ~mu
    /\ mu' = TRUE
    /\ handler' = [handler EXCEPT ![r] = "writing"]
    /\ UNCHANGED <<reader, watcher, answer, requests, answered, envVars, cancelled,
                   wsClosed, pings>>

Mut_WriteAnswer(r, ok) ==
    /\ handler[r] = "writing"
    /\ IF ok THEN CanWrite ELSE CanFail
    /\ answered' = IF ok THEN [answered EXCEPT ![r] = @ + 1] ELSE answered
    /\ mu' = FALSE
    /\ IF answer[r] = "response"
       THEN handler' = [handler EXCEPT ![r] = "done"] /\ requests' = requests - 1
       ELSE handler' = [handler EXCEPT ![r] = "body"] /\ UNCHANGED requests
    /\ UNCHANGED <<reader, watcher, answer, envVars, cancelled, wsClosed, pings>>

\* The answer is written or its write fails; either way the handler ends and
\* its deferred Done is called.
WriteAnswer(r, ok) ==
    /\ handler[r] = "writing"
    /\ IF ok THEN CanWrite ELSE CanFail
    /\ answered' = IF ok THEN [answered EXCEPT ![r] = @ + 1] ELSE answered
    /\ mu' = FALSE
    /\ handler' = [handler EXCEPT ![r] = "done"]
    /\ requests' = requests - 1
    /\ UNCHANGED <<reader, watcher, answer, envVars, cancelled, wsClosed, pings>>

----------------------------------------------------------------------------
(* handleRequest: decode, forward to the local port, read the body.        *)

\* Every path ends in exactly one write.
Answer(r, a) ==
    /\ answer' = [answer EXCEPT ![r] = a]
    /\ handler' = [handler EXCEPT ![r] = "answering"]
    /\ UNCHANGED <<reader, watcher, mu, requests, answered, envVars, cancelled,
                   wsClosed, pings>>

Move(r, from, to) ==
    /\ handler[r] = from
    /\ handler' = [handler EXCEPT ![r] = to]
    /\ UNCHANGED <<reader, watcher, answer, mu, requests, answered, envVars,
                   cancelled, wsClosed, pings>>

\* The body is not base64 or too large, the path is not an absolute local
\* path, or the method is malformed.
RejectInvalid(r) == handler[r] = "started" /\ Answer(r, "invalid_request")

\* client.Do starts, bound to the connection's context and the timeout.
Forward(r) == Move(r, "started", "forwarding")

\* The application answers with a status and headers.
LocalResponds(r) == Move(r, "forwarding", "body")

\* The application cannot be reached, or the context ended the request.
LocalUnreachable(r) == handler[r] = "forwarding" /\ Answer(r, "local_unreachable")

Mut_LocalTimeout(r) ==
    /\ handler[r] = "forwarding"
    /\ handler' = [handler EXCEPT ![r] = "done"]
    /\ requests' = requests - 1
    /\ UNCHANGED <<reader, watcher, answer, mu, answered, envVars, cancelled,
                   wsClosed, pings>>

\* RequestTimeout elapses before the application answers.
LocalTimeout(r) == handler[r] = "forwarding" /\ Answer(r, "timeout")

\* ReadBody gets the whole body, more than MaxBodySize, or fails.
ReadBody(r, a) ==
    /\ handler[r] = "body"
    /\ a \in {"response", "response_too_large", "local_response_error"}
    /\ Answer(r, a)

----------------------------------------------------------------------------
(* The environment.                                                        *)

ParentCancels ==
    /\ ~parentDone
    /\ reader # "returned"
    /\ parentDone' = TRUE
    /\ UNCHANGED <<goVars, broken, stalled, cancelled, wsClosed, pings>>

Break ==
    /\ ~broken
    /\ reader # "returned"
    /\ broken' = TRUE
    /\ UNCHANGED <<goVars, parentDone, stalled, cancelled, wsClosed, pings>>

Stall ==
    /\ ~stalled
    /\ reader # "returned"
    /\ stalled' = TRUE
    /\ UNCHANGED <<goVars, parentDone, broken, cancelled, wsClosed, pings>>

Resume ==
    /\ stalled
    /\ reader # "returned"
    /\ stalled' = FALSE
    /\ UNCHANGED <<goVars, parentDone, broken, cancelled, wsClosed, pings>>

Returned == reader = "returned" /\ watcher = "ended" /\ UNCHANGED vars

----------------------------------------------------------------------------
HandlerStep(r) ==
    \/ RejectInvalid(r)
    \/ Forward(r)
    \/ LocalResponds(r)
    \/ LocalUnreachable(r)
    \/ LocalTimeout(r)
    \/ \E a \in ErrorCodes \cup {"response"} : ReadBody(r, a)

WriteStep(r) == \E ok \in BOOLEAN : WriteAnswer(r, ok)

Next ==
    \/ \E r \in Requests : ReadRequest(r)
    \/ ReadPing
    \/ ReadIgnored
    \/ ReadFails
    \/ Wait
    \/ Watch
    \/ LockPong
    \/ WritePong
    \/ \E r \in Requests : LockAnswer(r)
    \/ \E r \in Requests : WriteStep(r)
    \/ \E r \in Requests : HandlerStep(r)
    \/ ParentCancels
    \/ Break
    \/ Stall
    \/ Resume
    \/ Returned

Spec == Init /\ [][Next]_vars

\* Goroutines are scheduled; a request to the application ends (its context
\* carries RequestTimeout); a read of a closed or broken socket and a write
\* that can end do end; a waiting goroutine gets the mutex, which in Go hands
\* itself over to a starving waiter.  The gateway owes nothing.
Fairness ==
    /\ WF_vars(Wait)
    /\ WF_vars(Watch)
    /\ WF_vars(ReadFails /\ (wsClosed \/ broken))
    /\ SF_vars(LockPong)
    /\ WF_vars(WritePong)
    /\ \A r \in Requests :
           /\ SF_vars(LockAnswer(r))
           /\ WF_vars(WriteStep(r))
           /\ WF_vars(HandlerStep(r))

FairSpec == Spec /\ Fairness

----------------------------------------------------------------------------
(* Properties.                                                             *)

\* Type invariant of the connection.
TypeOK ==
    /\ parentDone \in BOOLEAN
    /\ cancelled \in BOOLEAN
    /\ wsClosed \in BOOLEAN
    /\ broken \in BOOLEAN
    /\ stalled \in BOOLEAN
    /\ mu \in BOOLEAN
    /\ reader \in {"reading", "pong", "writing", "waiting", "returned"}
    /\ watcher \in {"watching", "ended"}
    /\ handler \in [Requests -> {"none", "started", "forwarding", "body", "answering",
                                 "writing", "done"}]
    /\ answer \in [Requests -> ErrorCodes \cup {"none", "response"}]
    /\ requests \in Nat
    /\ answered \in [Requests -> Nat]
    /\ pings \in Nat

\* The goroutines that are inside WriteJSON, which must not be entered twice.
Writers == {r \in Requests : handler[r] = "writing"}

\* The websocket has at most one writer at a time: no frame of an answer is
\* interleaved with another answer or with the pong of the read loop.
ExclusiveWrite ==
    /\ reader = "writing" => Writers = {}
    /\ \A r, s \in Writers : r = s

\* The handlers that the wait group counts.
Active == {r \in Requests : handler[r] \notin {"none", "done"}}

\* No goroutine of the connection outlives serveConnection: once it has
\* returned, no handler forwards, waits for the mutex or writes, so nothing
\* of the old connection runs beside the next one.
NoHandlerAfterReturn == reader = "returned" => Active = {} /\ ~mu

\* A request is answered at most once, and only a finished handler answered.
AnsweredAtMostOnce ==
    \A r \in Requests : answered[r] <= 1 /\ (answered[r] = 1 => handler[r] = "done")

\* Cancelling the parent context ends serveConnection, also while handlers
\* are blocked writing to a gateway that does not read.
CancelReturns == parentDone ~> (reader = "returned")

\* Every request that was read gets its answer written, unless the connection
\* ends or the gateway stops reading.
RequestsAnswered ==
    \A r \in Requests :
        (handler[r] = "started")
            ~> (answered[r] = 1 \/ wsClosed \/ broken \/ stalled)
=============================================================================
