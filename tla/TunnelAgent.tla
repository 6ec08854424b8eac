----------------------------- MODULE TunnelAgent -----------------------------
(***************************************************************************)
(* The connection state machine of the public tunnel: Agent.runTicket with *)
(* dialWebSocket, waitBackoff, nextDelayMax and retryableGatewayError      *)
(* (src/internal/agent/agent.go), with the session requests of run         *)
(* (SessionErrors).  The control plane that issues tickets, the gateway    *)
(* that answers dials and the owner that cancels the context are the       *)
(* environment.  Tickets are numbered in the order in which the control    *)
(* plane issues them; a duration is a number of clock units, Second of     *)
(* them to the second (the code's clock has 10^9).                         *)
(***************************************************************************)
EXTENDS Integers, Sequences, SessionErrors

CONSTANTS
    Second,              \* time.Second, in clock units
    ConfigInitialDelay,  \* Config.ReconnectInitialDelay
    ConfigMaxDelay,      \* Config.ReconnectMaxDelay
    MaxFaults            \* bound: failures the environment may inject

ASSUME DelayAssumption ==
    ConfigInitialDelay \in Int /\ ConfigMaxDelay \in Int
ASSUME SecondAssumption == Second \in Nat \ {0}
ASSUME FaultsAssumption == MaxFaults \in Nat

VARIABLES
    pc,                  \* where runTicket is
    cancelled,           \* ctx.Err() # nil
    reconnectEnabled,    \* reconnectEnabled, from Config.ReconnectEnabled
    delay,               \* delay
    wait,                \* duration of the timer of waitBackoff, 0 outside it
    connectedOnce,       \* connectedOnce
    first,               \* first
    pendingMessageShown, \* pendingMessageShown
    callerTicket,        \* a.config.InitialSession.Ticket, 0 when empty or nil
    next,                \* next.Ticket, 0 when next is nil
    refusal,             \* error of the last session request or dial that failed
    result,              \* what runTicket returned, with its reason
    shown,               \* the last message given to OnState
    issued,              \* control plane: number of tickets issued so far
    dials,               \* history: the tickets presented to the gateway, in order
    failures,            \* history: completed backoffs since the last connection
    faults               \* failures injected so far

loopVars == <<reconnectEnabled, delay, connectedOnce, first, pendingMessageShown>>
runVars == <<loopVars, wait>>
ticketVars == <<callerTicket, next, issued, dials>>
vars == <<pc, cancelled, runVars, ticketVars, refusal, result, shown, failures, faults>>

NoTicket == 0

----------------------------------------------------------------------------
(* Delays, and which gateway answers are worth another attempt.            *)

Mut_initialDelay == ConfigInitialDelay

initialDelay == IF ConfigInitialDelay <= 0 THEN Second ELSE ConfigInitialDelay

maxDelay == IF ConfigMaxDelay < initialDelay THEN 30 * Second ELSE ConfigMaxDelay

Mut_nextDelayMax(current, maximum) == current * 2

nextDelayMax(current, maximum) ==
    IF current * 2 > maximum THEN maximum ELSE current * 2

\* What a failed dial left behind: no HTTP response at all (NoResponse), or an
\* answer with a status and a machine-readable code.
GatewayErrors ==
    {[status |-> 401, code |-> ""],
     [status |-> 403, code |-> "forbidden"],
     [status |-> 409, code |-> "endpoint_already_connected"],
     [status |-> 409, code |-> "tunnel_session_replayed"],
     [status |-> 409, code |-> "endpoint_virtual"],
     [status |-> 503, code |-> ""]}

Mut_retryableGatewayError(e) ==
    \/ e = NoResponse
    \/ e.status >= 500
    \/ e.status = 401
    \/ e.status = 409

retryableGatewayError(e) ==
    \/ e = NoResponse
    \/ e.status >= 500
    \/ e.status = 401
    \/ /\ e.status = 409
       /\ e.code \in {"endpoint_already_connected", "tunnel_session_replayed"}

----------------------------------------------------------------------------
\* The caller gives an initial session, whose ticket is the first one issued
\* (as run does), or none (issued = 0).
Init ==
    /\ pc = "start"
    /\ cancelled = FALSE
    /\ reconnectEnabled \in BOOLEAN
    /\ delay = initialDelay
    /\ wait = 0
    /\ connectedOnce = FALSE
    /\ first = TRUE
    /\ pendingMessageShown = FALSE
    /\ issued \in {0, 1}
    /\ callerTicket = issued
    /\ next = NoTicket
    /\ refusal = NoResponse
    /\ result = "running"
    /\ shown = "none"
    /\ dials = << >>
    /\ failures = 0
    /\ faults = 0

\* The owner of the context (run) cancels it, at any moment.
Cancel ==
    /\ ~cancelled
    /\ pc # "stopped"
    /\ cancelled' = TRUE
    /\ UNCHANGED <<pc, runVars, ticketVars, refusal, result, shown, failures, faults>>

\* runTicket returns; the context is checked before every other reason.
Return(why) ==
    /\ pc' = "stopped"
    /\ result' = IF cancelled THEN "cancelled" ELSE why

\* The environment may fail only a bounded number of times, except that
\* whatever it does to a cancelled agent is not counted.
Fault ==
    /\ cancelled \/ faults < MaxFaults
    /\ faults' = IF cancelled THEN faults ELSE faults + 1

----------------------------------------------------------------------------
\* The caller's copy of the initial ticket is emptied and ours kept in next.
Start ==
    /\ pc = "start"
    /\ next' = callerTicket
    /\ callerTicket' = NoTicket
    /\ pc' = "loop"
    /\ UNCHANGED <<cancelled, runVars, issued, dials, refusal, result, shown,
                   failures, faults>>

\* A session in hand goes straight into the Authorization header of one dial.
Dial(t) ==
    /\ first' = FALSE
    /\ pendingMessageShown' = FALSE
    /\ refusal' = NoResponse
    /\ dials' = Append(dials, t)
    /\ pc' = "dialing"

LoopCancelled ==
    /\ pc = "loop"
    /\ cancelled
    /\ Return("cancelled")
    /\ UNCHANGED <<cancelled, runVars, ticketVars, refusal, shown, failures, faults>>

TakeInitialSession ==
    /\ pc = "loop"
    /\ ~cancelled
    /\ next # NoTicket
    /\ Dial(next)
    /\ next' = NoTicket
    /\ UNCHANGED <<cancelled, reconnectEnabled, delay, wait, connectedOnce, callerTicket,
                   issued, result, shown, failures, faults>>

\* AcquireSession is called; the context may be cancelled while it runs.
BeginAcquire ==
    /\ pc = "loop"
    /\ ~cancelled
    /\ next = NoTicket
    /\ pc' = "acquiring"
    /\ UNCHANGED <<cancelled, runVars, ticketVars, refusal, result, shown, failures, faults>>

Mut_AcquireSucceeds ==
    /\ pc = "acquiring"
    /\ issued' = issued
    /\ Dial(issued)
    /\ UNCHANGED <<cancelled, reconnectEnabled, delay, wait, connectedOnce, callerTicket,
                   next, result, shown, failures, faults>>

\* A session comes with a ticket of its own.
AcquireSucceeds ==
    /\ pc = "acquiring"
    /\ issued' = issued + 1
    /\ Dial(issued + 1)
    /\ UNCHANGED <<cancelled, reconnectEnabled, delay, wait, connectedOnce, callerTicket,
                   next, result, shown, failures, faults>>

\* waitBackoff starts its timer: up to half of the delay comes on top.
BeginBackoff ==
    /\ pc' = "backoff"
    /\ \E jitter \in 0..(delay \div 2) : wait' = delay + jitter

\* AcquireSession fails.  The control plane may have issued a ticket that is
\* lost with the response, and has when the response is refused.
AcquireFails(e, lost) ==
    LET err == mapTunnelSessionError(e) IN
    /\ pc = "acquiring"
    /\ Fault
    /\ lost => e \in {NoResponse, InvalidSession}
    /\ e = InvalidSession => lost
    /\ issued' = IF lost THEN issued + 1 ELSE issued
    /\ refusal' = e
    /\ IF cancelled \/ ~IsRetryable(err) \/ (~reconnectEnabled /\ ~first)
       THEN /\ Return("error")
            /\ UNCHANGED <<pendingMessageShown, shown, wait>>
       ELSE /\ BeginBackoff
            /\ pendingMessageShown' = TRUE
            /\ shown' = IF pendingMessageShown THEN shown
                        ELSE IF IsTemporarySessionConflict(err) THEN "waiting"
                        ELSE "unavailable"
            /\ UNCHANGED result
    /\ UNCHANGED <<cancelled, reconnectEnabled, delay, connectedOnce, first, callerTicket,
                   next, dials, failures>>

Mut_DialFails(e) ==
    /\ pc = "dialing"
    /\ Fault
    /\ refusal' = e
    /\ IF cancelled \/ ~retryableGatewayError(e)
       THEN Return("error") /\ UNCHANGED wait
       ELSE BeginBackoff /\ UNCHANGED result
    /\ UNCHANGED <<cancelled, loopVars, ticketVars, shown, failures>>

\* The dial fails, with or without an answer of the gateway.
DialFails(e) ==
    /\ pc = "dialing"
    /\ Fault
    /\ refusal' = e
    /\ IF cancelled \/ ~retryableGatewayError(e) \/ ~reconnectEnabled
       THEN Return("error") /\ UNCHANGED wait
       ELSE BeginBackoff /\ UNCHANGED result
    /\ UNCHANGED <<cancelled, loopVars, ticketVars, shown, failures>>

Mut_DialSucceeds ==
    /\ pc = "dialing"
    /\ pc' = "serving"
    /\ delay' = initialDelay
    /\ shown' = IF connectedOnce THEN "reconnected" ELSE "connected"
    /\ failures' = 0
    /\ UNCHANGED <<cancelled, reconnectEnabled, wait, connectedOnce, first, pendingMessageShown,
                   ticketVars, refusal, result, faults>>

DialSucceeds ==
    /\ pc = "dialing"
    /\ pc' = "serving"
    /\ delay' = initialDelay
    /\ shown' = IF connectedOnce THEN "reconnected" ELSE "connected"
    /\ connectedOnce' = TRUE
    /\ failures' = 0
    /\ UNCHANGED <<cancelled, reconnectEnabled, wait, first, pendingMessageShown, ticketVars,
                   refusal, result, faults>>

\* serveConnection returns because the gateway closed the tunnel with the
\* reason endpoint_virtualized.
ServeVirtualized ==
    /\ pc = "serving"
    /\ Return("virtualized")
    /\ shown' = IF cancelled THEN shown ELSE "virtualized"
    /\ UNCHANGED <<cancelled, runVars, ticketVars, refusal, failures, faults>>

Mut_ServeEnds ==
    /\ pc = "serving"
    /\ ~cancelled
    /\ Fault
    /\ IF ~reconnectEnabled
       THEN Return("error") /\ UNCHANGED <<shown, wait>>
       ELSE BeginBackoff /\ shown' = "lost" /\ UNCHANGED result
    /\ UNCHANGED <<cancelled, loopVars, ticketVars, refusal, failures>>

\* serveConnection returns with any other error; a cancelled context makes
\* it return too, because its watcher closes the socket.
ServeEnds ==
    /\ pc = "serving"
    /\ Fault
    /\ IF cancelled \/ ~reconnectEnabled
       THEN Return("error") /\ UNCHANGED <<shown, wait>>
       ELSE BeginBackoff /\ shown' = "lost" /\ UNCHANGED result
    /\ UNCHANGED <<cancelled, loopVars, ticketVars, refusal, failures>>

\* The backoff timer fires: the next wait is twice as long.  After a failed
\* acquisition first is cleared here; before a dial it already was.
BackoffElapses ==
    /\ pc = "backoff"
    /\ delay' = nextDelayMax(delay, maxDelay)
    /\ failures' = failures + 1
    /\ first' = FALSE
    /\ wait' = 0
    /\ pc' = "loop"
    /\ UNCHANGED <<cancelled, reconnectEnabled, connectedOnce, pendingMessageShown, ticketVars,
                   refusal, result, shown, faults>>

BackoffCancelled ==
    /\ pc = "backoff"
    /\ cancelled
    /\ Return("cancelled")
    /\ wait' = 0
    /\ UNCHANGED <<cancelled, loopVars, ticketVars, refusal, shown, failures, faults>>

Stopped == pc = "stopped" /\ UNCHANGED vars

AcquireReturns ==
    \/ AcquireSucceeds
    \/ \E e \in SessionErrors, lost \in BOOLEAN : AcquireFails(e, lost)

DialReturns ==
    \/ \E e \in GatewayErrors \cup {NoResponse} : DialFails(e)
    \/ DialSucceeds

Next ==
    \/ Cancel
    \/ Start
    \/ LoopCancelled
    \/ TakeInitialSession
    \/ BeginAcquire
    \/ AcquireReturns
    \/ DialReturns
    \/ ServeVirtualized
    \/ ServeEnds
    \/ BackoffElapses
    \/ BackoffCancelled
    \/ Stopped

Spec == Init /\ [][Next]_vars

\* The goroutine is scheduled, the session request and the dial return (the
\* HTTP client has a 30 s timeout, the dialer a handshake timeout, and both
\* are bound to the context), timers fire, and the watcher of a cancelled
\* connection ends serveConnection.  Nothing makes the environment cancel,
\* fail or close.
Fairness ==
    /\ WF_vars(Start \/ LoopCancelled \/ TakeInitialSession \/ BeginAcquire)
    /\ WF_vars(AcquireReturns)
    /\ WF_vars(DialReturns)
    /\ WF_vars(BackoffElapses)
    /\ WF_vars(cancelled /\ ServeEnds)

FairSpec == Spec /\ Fairness

----------------------------------------------------------------------------
(* Properties.                                                             *)

\* The delays, tickets and counters of runTicket are natural numbers.
TypeNumbers ==
    /\ delay \in Nat
    /\ wait \in Nat
    /\ callerTicket \in Nat
    /\ next \in Nat
    /\ issued \in Nat
    /\ dials \in Seq(Nat)
    /\ failures \in Nat
    /\ faults \in Nat

\* The flags, the position and the messages of runTicket have their types.
TypeControl ==
    /\ pc \in {"start", "loop", "acquiring", "dialing", "serving", "backoff", "stopped"}
    /\ cancelled \in BOOLEAN
    /\ reconnectEnabled \in BOOLEAN
    /\ connectedOnce \in BOOLEAN
    /\ first \in BOOLEAN
    /\ pendingMessageShown \in BOOLEAN
    /\ refusal \in GatewayErrors \cup SessionErrors
    /\ result \in {"running", "cancelled", "virtualized", "error"}
    /\ shown \in {"none", "connected", "reconnected", "lost", "virtualized",
                  "waiting", "unavailable"}

\* Type invariant of the connection loop.
TypeOK == TypeNumbers /\ TypeControl

\* "Ticket is consumed by exactly one DialContext call" and "a fresh backend
\* session before every reconnect attempt" (the comments on Session and Run):
\* whatever fails and in whatever order, no ticket reaches the gateway twice,
\* and each dial presents a ticket issued after all those presented before.
TicketSingleUse ==
    \A i, j \in 1..Len(dials) : i < j => dials[i] < dials[j]

\* A ticket that is still held (in the caller's Config or in next) has never
\* been presented, only one of the two places holds it, the caller's struct
\* is empty from the moment runTicket has taken its copy, and next is either
\* presented by the very next step of the loop or dropped by its end.
TicketHeldOnce ==
    /\ callerTicket # NoTicket => pc = "start" /\ next = NoTicket
    /\ next # NoTicket => pc \in {"loop", "stopped"} /\ dials = << >>

\* With --reconnect=false at most one connection is ever attempted: neither a
\* rejected dial nor a lost tunnel nor a retried first acquisition leads to a
\* second one.
SingleAttemptWithoutReconnect == ~reconnectEnabled => Len(dials) <= 1

\* The powers of two.
TwoTo[n \in Nat] == IF n = 0 THEN 1 ELSE 2 * TwoTo[n - 1]

\* The base of the wait (without its jitter) doubles with every consecutive
\* failure, of whatever kind, is capped by the maximum, and starts over only
\* when a connection was made.
BackoffSchedule ==
    delay = IF failures > 0 /\ initialDelay * TwoTo[failures] > maxDelay
            THEN maxDelay ELSE initialDelay * TwoTo[failures]

\* The shorter and the longer of the two effective delays: with an initial
\* delay above 30 seconds the default maximum is the shorter one.
shortestDelay == IF maxDelay < initialDelay THEN maxDelay ELSE initialDelay
longestDelay == IF maxDelay < initialDelay THEN initialDelay ELSE maxDelay

\* The loop never spins and never sleeps for long, whatever the configured
\* delays are (zero, negative, less than a second, in the wrong order): the
\* timer of every wait, its jitter included, runs at least for the shorter of
\* the two effective delays and at most for one and a half times the longer.
WaitInRange ==
    pc = "backoff" =>
        /\ wait >= 1
        /\ wait >= shortestDelay
        /\ 2 * wait <= 3 * longestDelay

\* Errors that another attempt cannot mend: the gateway forbids the tunnel,
\* the endpoint is virtual (whichever of the two servers says so), the user
\* is signed out, or the session is not usable.  A credential store that fails
\* to be read is none of them: the code keeps asking.
TerminalErrors ==
    {[status |-> 403, code |-> "forbidden"], [status |-> 409, code |-> "endpoint_virtual"],
     SignedOut, InvalidSession}

\* After such an error of either server no session is requested and no
\* connection attempted any more.
TerminalAnswerIsFinal == refusal \in TerminalErrors => pc = "stopped"

\* Cancelling the context ends runTicket wherever it is: in a request, a
\* dial, a backoff or a connection.
CancelStops == cancelled ~> (pc = "stopped")

\* A lost tunnel is announced as reconnected (and is being served again)
\* once the environment stops failing, unless the run ends first.
Recovers == (shown = "lost") ~> ((shown = "reconnected" /\ pc = "serving") \/ pc = "stopped")

\* TunnelContract with the loop abstracted away: the attempt in flight is
\* the last ticket presented while runTicket is dialing.
LastDial == IF dials = << >> THEN 0 ELSE dials[Len(dials)]

Contract == INSTANCE TunnelContract WITH
    phase <- IF pc = "serving" THEN "up" ELSE IF pc = "stopped" THEN "ended" ELSE "down",
    everUp <- connectedOnce,
    attempt <- IF pc = "dialing" THEN LastDial ELSE 0,
    spent <- LastDial,
    noticed <- pendingMessageShown,
    outcome <- result

\* runTicket implements the contract of the tunnel.
ImplementsContract == Contract!Spec
=============================================================================
