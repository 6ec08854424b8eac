-------------------------- MODULE TunnelAgentProofs --------------------------
(***************************************************************************)
(* Proofs about TunnelAgent: types, the single use of tickets, the range   *)
(* and the schedule of the backoff delay, the single attempt of an agent   *)
(* that must not reconnect, and the implementation of TunnelContract.      *)
(***************************************************************************)
EXTENDS TunnelAgent, SequenceTheorems, WellFoundedInduction, TLAPS

----------------------------------------------------------------------------
(* The inductive invariant.                                                *)

\* Every ticket that is held or was presented has been issued.
TicketsIssued ==
    /\ callerTicket <= issued
    /\ next <= issued
    /\ \A i \in 1..Len(dials) : 1 <= dials[i] /\ dials[i] <= issued

\* A dial in flight has presented a ticket.
DialPresented == pc = "dialing" => dials # << >>

\* An agent that must not reconnect has dialed at most once, and only when it
\* is dialing, serving or stopped.
OnceBeforeStop ==
    /\ pc = "start" => dials = << >>
    /\ ~reconnectEnabled =>
           /\ Len(dials) <= 1
           /\ pc \notin {"dialing", "serving", "stopped"} => dials = << >>
           /\ pc \notin {"serving", "stopped"} => ~connectedOnce

\* Only a stopped agent has a result, and a terminal answer of the gateway
\* stops it.
ResultAtStop == pc # "stopped" => result = "running"

\* The base of the next wait lies between the two effective delays.
DelayBounded ==
    /\ delay >= 1
    /\ delay >= shortestDelay
    /\ delay <= longestDelay

Timing == DelayBounded /\ WaitInRange

IInv ==
    /\ TypeOK
    /\ TicketSingleUse
    /\ TicketHeldOnce
    /\ TicketsIssued
    /\ DialPresented
    /\ OnceBeforeStop
    /\ ResultAtStop
    /\ Timing
    /\ TerminalAnswerIsFinal

----------------------------------------------------------------------------
(* Facts about delays.                                                     *)

\* The effective delays are positive whatever the configuration says.
LEMMA DelaysPositive ==
    /\ initialDelay \in Nat /\ initialDelay >= 1
    /\ maxDelay \in Nat /\ maxDelay >= 1
BY DelayAssumption, SecondAssumption DEF initialDelay, maxDelay

\* The shorter and the longer of the effective delays enclose both of them.
LEMMA DelayLimits ==
    /\ shortestDelay \in Nat /\ shortestDelay >= 1
    /\ longestDelay \in Nat
    /\ shortestDelay <= initialDelay /\ initialDelay <= longestDelay
    /\ shortestDelay <= maxDelay /\ maxDelay <= longestDelay
BY DelaysPositive DEF shortestDelay, longestDelay

\* Doubling a delay between the limits gives a delay between the limits.
LEMMA NextDelayRange ==
    ASSUME NEW d \in Nat, d >= 1, d >= shortestDelay
    PROVE  /\ nextDelayMax(d, maxDelay) \in Nat
           /\ nextDelayMax(d, maxDelay) >= 1
           /\ nextDelayMax(d, maxDelay) >= shortestDelay
           /\ nextDelayMax(d, maxDelay) <= longestDelay
BY DelaysPositive, DelayLimits DEF nextDelayMax

\* The timer of a backoff is within its range, whatever jitter is drawn.
LEMMA BackoffWait ==
    ASSUME IInv, BeginBackoff, UNCHANGED delay
    PROVE  wait' \in Nat /\ Timing'
<1>1. PICK jitter \in 0..(delay \div 2) : wait' = delay + jitter
  BY DEF BeginBackoff
<1>2. delay \in Nat /\ DelayBounded
  BY DEF IInv, TypeOK, TypeNumbers, Timing
<1>3. jitter \in Nat /\ 2 * jitter <= delay
  BY <1>1, <1>2
<1> QED
  BY <1>1, <1>2, <1>3, DelayLimits DEF Timing, DelayBounded, WaitInRange

\* Appending a ticket newer than all the presented ones keeps the sequence of
\* presented tickets strictly increasing.
LEMMA AppendFresh ==
    ASSUME NEW s \in Seq(Nat), NEW t \in Nat, NEW n \in Nat,
           \A i, j \in 1..Len(s) : i < j => s[i] < s[j],
           \A i \in 1..Len(s) : 1 <= s[i] /\ s[i] < t,
           1 <= t, t <= n
    PROVE  /\ Append(s, t) \in Seq(Nat)
           /\ Append(s, t) # << >>
           /\ Len(Append(s, t)) = Len(s) + 1
           /\ Append(s, t)[Len(s) + 1] = t
           /\ \A i, j \in 1..Len(Append(s, t)) :
                  i < j => Append(s, t)[i] < Append(s, t)[j]
           /\ \A i \in 1..Len(Append(s, t)) :
                  1 <= Append(s, t)[i] /\ Append(s, t)[i] <= n
<1> DEFINE a == Append(s, t)
<1>1. /\ a \in Seq(Nat)
      /\ Len(a) = Len(s) + 1
      /\ \A i \in 1..Len(s) : a[i] = s[i]
      /\ a[Len(s) + 1] = t
  BY AppendProperties
<1>2. Len(s) \in Nat
  BY LenProperties
<1>3. a # << >>
  BY <1>1, <1>2, EmptySeq
<1>4. \A i \in 1..Len(s) : s[i] \in Nat
  BY ElementOfSeq
<1> HIDE DEF a
<1>5. ASSUME NEW i \in 1..Len(a), NEW j \in 1..Len(a), i < j
      PROVE  a[i] < a[j]
  <2>1. i \in 1..Len(s)
    BY <1>1, <1>2, <1>5
  <2>2. CASE j \in 1..Len(s)
    BY <1>1, <1>5, <2>1, <2>2
  <2>3. CASE j = Len(s) + 1
    BY <1>1, <2>1, <2>3
  <2> QED
    BY <1>1, <1>2, <2>2, <2>3
<1>6. ASSUME NEW i \in 1..Len(a)
      PROVE  1 <= a[i] /\ a[i] <= n
  <2>1. CASE i \in 1..Len(s)
    <3>1. a[i] = s[i] /\ s[i] \in Nat /\ 1 <= s[i] /\ s[i] < t
      BY <1>1, <1>4, <2>1
    <3> QED
      BY <3>1
  <2>2. CASE i = Len(s) + 1
    BY <1>1, <2>2
  <2> QED
    BY <1>1, <1>2, <2>1, <2>2
<1> QED
  BY <1>1, <1>3, <1>5, <1>6 DEF a

\* A failure without an answer is an error of either kind, and no terminal one.
LEMMA NoResponseFacts == NoResponse \in SessionErrors /\ NoResponse \notin TerminalErrors
<1> DEFINE f == [status |-> 403, code |-> "forbidden"]
           v == [status |-> 409, code |-> "endpoint_virtual"]
<1>1. /\ f.status = 403 /\ v.status = 409 /\ SignedOut.status = 401
      /\ InvalidSession.status = 201 /\ NoResponse.status = 0
  BY DEF SignedOut, InvalidSession, NoResponse
<1>2. NoResponse \in SessionErrors
  BY Zenon DEF SessionErrors
<1> HIDE DEF f, v
<1>3. NoResponse \notin {f, v, SignedOut, InvalidSession}
  BY <1>1
<1> QED
  BY <1>2, <1>3, Zenon DEF f, v, TerminalErrors

\* Neither the session request nor the dial is repeated after a terminal error.
LEMMA TerminalNotRetried ==
    ASSUME NEW e \in TerminalErrors
    PROVE  /\ ~IsRetryable(mapTunnelSessionError(e))
           /\ e \in GatewayErrors \cup {NoResponse} => ~retryableGatewayError(e)
<1> DEFINE f == [status |-> 403, code |-> "forbidden"]
           v == [status |-> 409, code |-> "endpoint_virtual"]
<1>1. /\ f.status = 403 /\ f.code = "forbidden"
      /\ v.status = 409 /\ v.code = "endpoint_virtual"
      /\ SignedOut.status = 401 /\ SignedOut.code = "signed_out"
      /\ InvalidSession.status = 201 /\ InvalidSession.code = "invalid"
      /\ PlainError.status = 1 /\ NoResponse.status = 0 /\ StoreFault.status = 2
  BY DEF SignedOut, InvalidSession, PlainError, NoResponse, StoreFault
<1>2. ASSUME NEW g \in GatewayErrors \cup {NoResponse}
      PROVE  g.code # "signed_out"
  <2>1. CASE g = [status |-> 401, code |-> ""]
    BY <2>1
  <2>2. CASE g = [status |-> 403, code |-> "forbidden"]
    BY <2>2
  <2>3. CASE g = [status |-> 409, code |-> "endpoint_already_connected"]
    BY <2>3
  <2>4. CASE g = [status |-> 409, code |-> "tunnel_session_replayed"]
    BY <2>4
  <2>5. CASE g = [status |-> 409, code |-> "endpoint_virtual"]
    BY <2>5
  <2>6. CASE g = [status |-> 503, code |-> ""]
    BY <2>6
  <2>7. CASE g = NoResponse
    BY <2>7 DEF NoResponse
  <2> QED
    BY <2>1, <2>2, <2>3, <2>4, <2>5, <2>6, <2>7, ZenonT(60) DEF GatewayErrors
<1> HIDE DEF f, v
<1>3. e \in {f, v, SignedOut, InvalidSession}
  BY Zenon DEF TerminalErrors, f, v
<1>4. ~IsRetryable(mapTunnelSessionError(e))
  BY <1>1, <1>3 DEF IsRetryable, IsTemporarySessionConflict, mapTunnelSessionError
<1>5. e \in GatewayErrors \cup {NoResponse} => e # SignedOut
  BY <1>1, <1>2
<1>6. e # SignedOut => ~retryableGatewayError(e)
  BY <1>1, <1>3 DEF retryableGatewayError
<1> QED
  BY <1>4, <1>5, <1>6

----------------------------------------------------------------------------
(* The invariant is inductive.                                             *)

\* The initial states satisfy the inductive invariant.
LEMMA InitIInv == Init => IInv
<1> SUFFICES ASSUME Init PROVE IInv
  OBVIOUS
<1>1. dials = << >> /\ dials \in Seq(Nat) /\ Len(dials) = 0
  BY EmptySeq DEF Init
<1>2. TypeNumbers
  BY <1>1, DelaysPositive DEF Init, TypeNumbers, NoTicket
<1>3. TypeControl
  BY NoResponseFacts, Zenon DEF Init, TypeControl
<1>4. TicketSingleUse /\ TicketsIssued
  BY <1>1 DEF Init, TicketSingleUse, TicketsIssued, NoTicket
<1>5. TicketHeldOnce /\ DialPresented /\ OnceBeforeStop /\ ResultAtStop
  BY <1>1 DEF Init, TicketHeldOnce, DialPresented, OnceBeforeStop, ResultAtStop, NoTicket
<1>6. Timing
  BY DelaysPositive, DelayLimits DEF Init, Timing, DelayBounded, WaitInRange
<1>7. TerminalAnswerIsFinal
  BY NoResponseFacts DEF Init, TerminalAnswerIsFinal
<1> QED
  BY <1>2, <1>3, <1>4, <1>5, <1>6, <1>7 DEF IInv, TypeOK

\* A dial with a ticket that is newer than every presented one keeps the
\* invariant's conjuncts about tickets.
LEMMA DialFresh ==
    ASSUME IInv, NEW t \in Nat, t >= 1, t <= issued', issued' \in Nat, Dial(t),
           \A i \in 1..Len(dials) : dials[i] < t
    PROVE  /\ dials' \in Seq(Nat)
           /\ dials' # << >>
           /\ Len(dials') = Len(dials) + 1
           /\ TicketSingleUse'
           /\ \A i \in 1..Len(dials') : 1 <= dials'[i] /\ dials'[i] <= issued'
<1>1. dials \in Seq(Nat) /\ \A i \in 1..Len(dials) : 1 <= dials[i] /\ dials[i] < t
  BY DEF IInv, TypeOK, TypeNumbers, TicketsIssued
<1>2. \A i, j \in 1..Len(dials) : i < j => dials[i] < dials[j]
  BY DEF IInv, TicketSingleUse
<1>3. dials' = Append(dials, t)
  BY DEF Dial
<1> QED
  BY <1>1, <1>2, <1>3, AppendFresh DEF TicketSingleUse

\* A step that neither issues, moves nor presents a ticket keeps what the
\* invariant says of tickets.
LEMMA TicketsUntouched ==
    ASSUME IInv, UNCHANGED dials, issued' \in Nat, issued' >= issued,
           UNCHANGED <<callerTicket, next>>
    PROVE  TicketSingleUse' /\ TicketsIssued'
<1>1. TicketSingleUse'
  BY DEF IInv, TicketSingleUse
<1>2. /\ callerTicket' = callerTicket /\ next' = next /\ dials' = dials
      /\ callerTicket \in Nat /\ next \in Nat /\ issued \in Nat
      /\ \A i \in 1..Len(dials) : dials[i] \in Nat
  BY ElementOfSeq DEF IInv, TypeOK, TypeNumbers
<1>3. TicketsIssued'
  BY <1>2 DEF IInv, TicketsIssued
<1> QED
  BY <1>1, <1>3

\* Returning from runTicket keeps everything the invariant says of control.
LEMMA ReturnControl ==
    ASSUME IInv, NEW why \in {"cancelled", "virtualized", "error"}, Return(why),
           UNCHANGED <<reconnectEnabled, callerTicket, next, dials, connectedOnce, delay>>,
           pc # "start"
    PROVE  /\ result' \in {"running", "cancelled", "virtualized", "error"}
           /\ TicketHeldOnce' /\ DialPresented' /\ OnceBeforeStop' /\ ResultAtStop'
           /\ Timing' /\ TerminalAnswerIsFinal'
<1>1. result' \in {"running", "cancelled", "virtualized", "error"}
  BY DEF Return
<1>2. TicketHeldOnce' /\ DialPresented' /\ OnceBeforeStop' /\ ResultAtStop'
  BY DEF Return, IInv, TicketHeldOnce, DialPresented, OnceBeforeStop, ResultAtStop
<1>3. Timing' /\ TerminalAnswerIsFinal'
  BY DEF Return, IInv, Timing, DelayBounded, WaitInRange, TerminalAnswerIsFinal, initialDelay, maxDelay
<1> QED
  BY <1>1, <1>2, <1>3

\* Every step of the agent or its environment preserves the invariant.
LEMMA NextIInv == IInv /\ [Next]_vars => IInv'
<1> SUFFICES ASSUME IInv, [Next]_vars PROVE IInv'
  OBVIOUS
<1> USE DEF loopVars, runVars, ticketVars
<1>1. CASE Cancel
  <2>1. TicketSingleUse' /\ TicketsIssued'
    BY <1>1, TicketsUntouched DEF Cancel, IInv, TypeOK, TypeNumbers
  <2>2. TypeNumbers'
    BY <1>1 DEF Cancel, IInv, TypeOK, TypeNumbers
  <2>3. TypeControl'
    BY <1>1, ZenonT(30) DEF Cancel, IInv, TypeOK, TypeControl
  <2>4. TicketHeldOnce' /\ DialPresented' /\ OnceBeforeStop' /\ ResultAtStop'
    BY <1>1 DEF Cancel, IInv, TicketHeldOnce, DialPresented, OnceBeforeStop, ResultAtStop
  <2>5. Timing' /\ TerminalAnswerIsFinal'
    BY <1>1 DEF Cancel, IInv, Timing, DelayBounded, WaitInRange, TerminalAnswerIsFinal
  <2> QED
    BY <2>1, <2>2, <2>3, <2>4, <2>5 DEF IInv, TypeOK
<1>2. CASE Start
  <2>1. TypeNumbers'
    BY <1>2 DEF Start, IInv, TypeOK, TypeNumbers, NoTicket
  <2>2. TypeControl'
    BY <1>2, Zenon DEF Start, IInv, TypeOK, TypeControl
  <2>3. TicketSingleUse' /\ TicketsIssued' /\ TicketHeldOnce'
    BY <1>2, EmptySeq DEF Start, IInv, TypeOK, TypeNumbers, TicketSingleUse,
       TicketsIssued, TicketHeldOnce, OnceBeforeStop, NoTicket
  <2>4. DialPresented' /\ OnceBeforeStop' /\ ResultAtStop'
    BY <1>2 DEF Start, IInv, DialPresented, OnceBeforeStop, ResultAtStop
  <2>5. Timing' /\ TerminalAnswerIsFinal'
    BY <1>2 DEF Start, IInv, Timing, DelayBounded, WaitInRange, TerminalAnswerIsFinal
  <2> QED
    BY <2>1, <2>2, <2>3, <2>4, <2>5 DEF IInv, TypeOK
<1>3. CASE LoopCancelled
  <2>1. TicketSingleUse' /\ TicketsIssued'
    BY <1>3, TicketsUntouched DEF LoopCancelled, IInv, TypeOK, TypeNumbers
  <2>2. TypeNumbers'
    BY <1>3 DEF LoopCancelled, IInv, TypeOK, TypeNumbers
  <2>3. /\ result' \in {"running", "cancelled", "virtualized", "error"}
        /\ TicketHeldOnce' /\ DialPresented' /\ OnceBeforeStop' /\ ResultAtStop'
        /\ Timing' /\ TerminalAnswerIsFinal'
    BY <1>3, ReturnControl DEF LoopCancelled
  <2>4. TypeControl'
    BY <1>3, <2>3, Zenon DEF LoopCancelled, Return, IInv, TypeOK, TypeControl
  <2> QED
    BY <2>1, <2>2, <2>3, <2>4 DEF IInv, TypeOK
<1>4. CASE TakeInitialSession
  <2>1. /\ next \in Nat /\ next >= 1 /\ issued' = issued /\ next <= issued'
        /\ issued' \in Nat /\ dials = << >> /\ Dial(next)
    BY <1>4 DEF TakeInitialSession, IInv, TypeOK, TypeNumbers, TicketHeldOnce,
       TicketsIssued, NoTicket
  <2>2. Len(dials) = 0
    BY <2>1, EmptySeq
  <2>3. \A i \in 1..Len(dials) : dials[i] < next
    BY <2>2
  <2>4. /\ dials' \in Seq(Nat) /\ dials' # << >> /\ Len(dials') = 1
        /\ TicketSingleUse'
        /\ \A i \in 1..Len(dials') : 1 <= dials'[i] /\ dials'[i] <= issued'
    BY <2>1, <2>2, <2>3, DialFresh
  <2>5. TypeNumbers' /\ TicketsIssued' /\ TicketHeldOnce'
    BY <1>4, <2>1, <2>4 DEF TakeInitialSession, Dial, IInv, TypeOK, TypeNumbers,
       TicketHeldOnce, TicketsIssued, NoTicket
  <2>6. TypeControl'
    BY <1>4, NoResponseFacts, Zenon DEF TakeInitialSession, Dial, IInv, TypeOK, TypeControl
  <2>7. DialPresented' /\ OnceBeforeStop' /\ ResultAtStop'
    BY <1>4, <2>4 DEF TakeInitialSession, Dial, IInv, DialPresented, OnceBeforeStop,
       ResultAtStop
  <2>8. Timing' /\ TerminalAnswerIsFinal'
    BY <1>4, NoResponseFacts DEF TakeInitialSession, Dial, IInv, Timing, DelayBounded, WaitInRange,
       TerminalAnswerIsFinal
  <2> QED
    BY <2>4, <2>5, <2>6, <2>7, <2>8 DEF IInv, TypeOK
<1>5. CASE BeginAcquire
  <2>1. TicketSingleUse' /\ TicketsIssued'
    BY <1>5, TicketsUntouched DEF BeginAcquire, IInv, TypeOK, TypeNumbers
  <2>2. TypeNumbers'
    BY <1>5 DEF BeginAcquire, IInv, TypeOK, TypeNumbers
  <2>3. TypeControl'
    BY <1>5, Zenon DEF BeginAcquire, IInv, TypeOK, TypeControl
  <2>4. TicketHeldOnce' /\ DialPresented' /\ OnceBeforeStop' /\ ResultAtStop'
    BY <1>5 DEF BeginAcquire, IInv, TicketHeldOnce, NoTicket, DialPresented, OnceBeforeStop, ResultAtStop
  <2>5. Timing' /\ TerminalAnswerIsFinal'
    BY <1>5 DEF BeginAcquire, IInv, Timing, DelayBounded, WaitInRange, TerminalAnswerIsFinal
  <2> QED
    BY <2>1, <2>2, <2>3, <2>4, <2>5 DEF IInv, TypeOK
<1>6. CASE AcquireSucceeds
  <2>1. /\ issued + 1 \in Nat /\ issued + 1 >= 1 /\ issued' = issued + 1
        /\ Dial(issued + 1) /\ pc = "acquiring" /\ issued \in Nat
    BY <1>6 DEF AcquireSucceeds, IInv, TypeOK, TypeNumbers
  <2>2. \A i \in 1..Len(dials) : dials[i] < issued + 1
    BY <2>1, ElementOfSeq DEF IInv, TypeOK, TypeNumbers, TicketsIssued
  <2>3. /\ dials' \in Seq(Nat) /\ dials' # << >> /\ Len(dials') = Len(dials) + 1
        /\ TicketSingleUse'
        /\ \A i \in 1..Len(dials') : 1 <= dials'[i] /\ dials'[i] <= issued'
    BY <2>1, <2>2, DialFresh
  <2>4. ~reconnectEnabled => Len(dials') = 1
    BY <2>1, <2>3, EmptySeq DEF IInv, OnceBeforeStop
  <2>5. TypeNumbers' /\ TicketsIssued' /\ TicketHeldOnce'
    BY <1>6, <2>1, <2>3 DEF AcquireSucceeds, Dial, IInv, TypeOK, TypeNumbers,
       TicketHeldOnce, TicketsIssued, NoTicket
  <2>6. TypeControl'
    BY <1>6, NoResponseFacts, Zenon DEF AcquireSucceeds, Dial, IInv, TypeOK, TypeControl
  <2>7. DialPresented' /\ OnceBeforeStop' /\ ResultAtStop'
    BY <1>6, <2>3, <2>4 DEF AcquireSucceeds, Dial, IInv, DialPresented, OnceBeforeStop,
       ResultAtStop
  <2>8. Timing' /\ TerminalAnswerIsFinal'
    BY <1>6, NoResponseFacts DEF AcquireSucceeds, Dial, IInv, Timing, DelayBounded, WaitInRange,
       TerminalAnswerIsFinal
  <2> QED
    BY <2>3, <2>5, <2>6, <2>7, <2>8 DEF IInv, TypeOK
<1>7. CASE \E e \in SessionErrors, lost \in BOOLEAN : AcquireFails(e, lost)
  <2> PICK e \in SessionErrors, lost \in BOOLEAN : AcquireFails(e, lost)
    BY <1>7
  <2>0. wait' \in Nat /\ Timing'
    <3>1. CASE BeginBackoff
      BY <3>1, BackoffWait DEF AcquireFails
    <3>2. CASE pc' = "stopped" /\ UNCHANGED wait
      BY <3>2 DEF AcquireFails, IInv, TypeOK, TypeNumbers, Timing, DelayBounded, WaitInRange
    <3> QED
      BY <3>1, <3>2 DEF AcquireFails, Return
  <2>1. issued' \in Nat /\ issued' >= issued /\ faults' \in Nat
    BY DEF AcquireFails, Fault, IInv, TypeOK, TypeNumbers
  <2>2. TicketSingleUse' /\ TicketsIssued'
    BY <2>1, TicketsUntouched DEF AcquireFails
  <2>3. TypeNumbers'
    BY <2>0, <2>1 DEF AcquireFails, IInv, TypeOK, TypeNumbers
  <2>4. TypeControl'
    BY Zenon DEF AcquireFails, Return, BeginBackoff, IInv, TypeOK, TypeControl
  <2>5. TicketHeldOnce' /\ DialPresented' /\ OnceBeforeStop' /\ ResultAtStop'
    BY DEF AcquireFails, Return, BeginBackoff, IInv, TicketHeldOnce, DialPresented, OnceBeforeStop,
       ResultAtStop
  <2>6. TerminalAnswerIsFinal'
    <3>1. refusal' = e /\ (~IsRetryable(mapTunnelSessionError(e)) => pc' = "stopped")
      BY DEF AcquireFails, Return
    <3> QED
      BY <3>1, TerminalNotRetried DEF TerminalAnswerIsFinal
  <2> QED
    BY <2>0, <2>2, <2>3, <2>4, <2>5, <2>6 DEF IInv, TypeOK
<1>8. CASE \E e \in GatewayErrors \cup {NoResponse} : DialFails(e)
  <2> PICK e \in GatewayErrors \cup {NoResponse} : DialFails(e)
    BY <1>8
  <2>0. wait' \in Nat /\ Timing'
    <3>1. CASE BeginBackoff
      BY <3>1, BackoffWait DEF DialFails
    <3>2. CASE pc' = "stopped" /\ UNCHANGED wait
      BY <3>2 DEF DialFails, IInv, TypeOK, TypeNumbers, Timing, DelayBounded, WaitInRange
    <3> QED
      BY <3>1, <3>2 DEF DialFails, Return
  <2>1. TicketSingleUse' /\ TicketsIssued'
    BY TicketsUntouched DEF DialFails, IInv, TypeOK, TypeNumbers
  <2>2. TypeNumbers'
    BY <2>0 DEF DialFails, Fault, IInv, TypeOK, TypeNumbers
  <2>3. TypeControl'
    BY NoResponseFacts, Zenon DEF DialFails, Return, BeginBackoff, IInv, TypeOK, TypeControl
  <2>4. TicketHeldOnce' /\ DialPresented' /\ OnceBeforeStop' /\ ResultAtStop'
    BY DEF DialFails, Return, BeginBackoff, IInv, TicketHeldOnce, DialPresented, OnceBeforeStop,
       ResultAtStop
  <2>5. TerminalAnswerIsFinal'
    <3>1. refusal' = e /\ (~retryableGatewayError(e) => pc' = "stopped")
      BY DEF DialFails, Return
    <3> QED
      BY <3>1, TerminalNotRetried DEF TerminalAnswerIsFinal
  <2> QED
    BY <2>0, <2>1, <2>2, <2>3, <2>4, <2>5 DEF IInv, TypeOK
<1>9. CASE DialSucceeds
  <2>1. TicketSingleUse' /\ TicketsIssued'
    BY <1>9, TicketsUntouched DEF DialSucceeds, IInv, TypeOK, TypeNumbers
  <2>2. TypeNumbers' /\ Timing'
    BY <1>9, DelaysPositive, DelayLimits DEF DialSucceeds, IInv, TypeOK, TypeNumbers, Timing, DelayBounded, WaitInRange
  <2>3. TypeControl'
    BY <1>9, Zenon DEF DialSucceeds, IInv, TypeOK, TypeControl
  <2>4. TicketHeldOnce' /\ DialPresented' /\ OnceBeforeStop' /\ ResultAtStop'
    BY <1>9 DEF DialSucceeds, IInv, TicketHeldOnce, DialPresented, OnceBeforeStop,
       ResultAtStop
  <2>5. TerminalAnswerIsFinal'
    BY <1>9 DEF DialSucceeds, IInv, TerminalAnswerIsFinal
  <2> QED
    BY <2>1, <2>2, <2>3, <2>4, <2>5 DEF IInv, TypeOK
<1>10. CASE ServeVirtualized
  <2>1. TicketSingleUse' /\ TicketsIssued'
    BY <1>10, TicketsUntouched DEF ServeVirtualized, IInv, TypeOK, TypeNumbers
  <2>2. TypeNumbers'
    BY <1>10 DEF ServeVirtualized, IInv, TypeOK, TypeNumbers
  <2>3. /\ result' \in {"running", "cancelled", "virtualized", "error"}
        /\ TicketHeldOnce' /\ DialPresented' /\ OnceBeforeStop' /\ ResultAtStop'
        /\ Timing' /\ TerminalAnswerIsFinal'
    BY <1>10, ReturnControl DEF ServeVirtualized
  <2>4. TypeControl'
    BY <1>10, <2>3, Zenon DEF ServeVirtualized, Return, IInv, TypeOK, TypeControl
  <2> QED
    BY <2>1, <2>2, <2>3, <2>4 DEF IInv, TypeOK
<1>11. CASE ServeEnds
  <2>0. wait' \in Nat /\ Timing'
    <3>1. CASE BeginBackoff
      BY <1>11, <3>1, BackoffWait DEF ServeEnds
    <3>2. CASE pc' = "stopped" /\ UNCHANGED wait
      BY <1>11, <3>2 DEF ServeEnds, IInv, TypeOK, TypeNumbers, Timing, DelayBounded, WaitInRange
    <3> QED
      BY <1>11, <3>1, <3>2 DEF ServeEnds, Return
  <2>1. TicketSingleUse' /\ TicketsIssued'
    BY <1>11, TicketsUntouched DEF ServeEnds, IInv, TypeOK, TypeNumbers
  <2>2. TypeNumbers'
    BY <1>11, <2>0 DEF ServeEnds, Fault, IInv, TypeOK, TypeNumbers
  <2>3. TypeControl'
    BY <1>11, Zenon DEF ServeEnds, Return, BeginBackoff, IInv, TypeOK, TypeControl
  <2>4. TicketHeldOnce' /\ DialPresented' /\ OnceBeforeStop' /\ ResultAtStop'
    BY <1>11 DEF ServeEnds, Return, BeginBackoff, IInv, TicketHeldOnce, DialPresented, OnceBeforeStop,
       ResultAtStop
  <2>5. TerminalAnswerIsFinal'
    BY <1>11 DEF ServeEnds, IInv, TerminalAnswerIsFinal
  <2> QED
    BY <2>0, <2>1, <2>2, <2>3, <2>4, <2>5 DEF IInv, TypeOK
<1>12. CASE BackoffElapses
  <2>1. TicketSingleUse' /\ TicketsIssued'
    BY <1>12, TicketsUntouched DEF BackoffElapses, IInv, TypeOK, TypeNumbers
  <2>2. delay \in Nat /\ delay >= 1 /\ delay >= shortestDelay
    BY DEF IInv, TypeOK, TypeNumbers, Timing, DelayBounded, WaitInRange
  <2>3. /\ nextDelayMax(delay, maxDelay) \in Nat
        /\ nextDelayMax(delay, maxDelay) >= 1
        /\ nextDelayMax(delay, maxDelay) >= shortestDelay
        /\ nextDelayMax(delay, maxDelay) <= longestDelay
    BY <2>2, NextDelayRange
  <2>4. TypeNumbers' /\ Timing'
    BY <1>12, <2>3, DelayLimits DEF BackoffElapses, IInv, TypeOK, TypeNumbers, Timing, DelayBounded, WaitInRange
  <2>5. TypeControl'
    BY <1>12, Zenon DEF BackoffElapses, IInv, TypeOK, TypeControl
  <2>6. TicketHeldOnce' /\ DialPresented' /\ OnceBeforeStop' /\ ResultAtStop'
    BY <1>12 DEF BackoffElapses, IInv, TicketHeldOnce, DialPresented, OnceBeforeStop,
       ResultAtStop
  <2>7. TerminalAnswerIsFinal'
    BY <1>12 DEF BackoffElapses, IInv, TerminalAnswerIsFinal
  <2> QED
    BY <2>1, <2>4, <2>5, <2>6, <2>7 DEF IInv, TypeOK
<1>13. CASE BackoffCancelled
  <2>1. TicketSingleUse' /\ TicketsIssued'
    BY <1>13, TicketsUntouched DEF BackoffCancelled, IInv, TypeOK, TypeNumbers
  <2>2. TypeNumbers'
    BY <1>13 DEF BackoffCancelled, IInv, TypeOK, TypeNumbers
  <2>3. /\ result' \in {"running", "cancelled", "virtualized", "error"}
        /\ TicketHeldOnce' /\ DialPresented' /\ OnceBeforeStop' /\ ResultAtStop'
        /\ Timing' /\ TerminalAnswerIsFinal'
    BY <1>13, ReturnControl DEF BackoffCancelled
  <2>4. TypeControl'
    BY <1>13, <2>3, Zenon DEF BackoffCancelled, Return, IInv, TypeOK, TypeControl
  <2> QED
    BY <2>1, <2>2, <2>3, <2>4 DEF IInv, TypeOK
<1>14. CASE UNCHANGED vars
  BY <1>14 DEF vars, IInv, TypeOK, TypeNumbers, TypeControl, TicketSingleUse,
     TicketHeldOnce, TicketsIssued, DialPresented, OnceBeforeStop, ResultAtStop,
     Timing, DelayBounded, WaitInRange, TerminalAnswerIsFinal
<1> QED
  BY <1>1, <1>2, <1>3, <1>4, <1>5, <1>6, <1>7, <1>8, <1>9, <1>10, <1>11,
     <1>12, <1>13, <1>14, Zenon DEF Next, AcquireReturns, DialReturns, Stopped

\* The inductive invariant holds in every reachable state, whatever the
\* configuration and however often the environment fails.
THEOREM AgentInvariant == Spec => []IInv
<1> QED
  BY InitIInv, NextIInv, PTL DEF Spec

\* Type correctness of the connection loop.
THEOREM AgentTypes == Spec => []TypeOK
<1>1. IInv => TypeOK
  BY DEF IInv
<1> QED
  BY <1>1, AgentInvariant, PTL

\* No ticket reaches the gateway twice, and each reconnect uses a newer one.
THEOREM AgentTicketSingleUse == Spec => []TicketSingleUse
<1>1. IInv => TicketSingleUse
  BY DEF IInv
<1> QED
  BY <1>1, AgentInvariant, PTL

\* A ticket that is still held was never presented and is held in one place.
THEOREM AgentTicketHeldOnce == Spec => []TicketHeldOnce
<1>1. IInv => TicketHeldOnce
  BY DEF IInv
<1> QED
  BY <1>1, AgentInvariant, PTL

\* With --reconnect=false at most one connection is attempted.
THEOREM AgentSingleAttempt == Spec => []SingleAttemptWithoutReconnect
<1>1. IInv => SingleAttemptWithoutReconnect
  BY DEF IInv, OnceBeforeStop, SingleAttemptWithoutReconnect
<1> QED
  BY <1>1, AgentInvariant, PTL

\* Every wait, jitter included, lies between the shorter of the effective delays
\* and one and a half times the longer, for any configuration and any clock.
THEOREM AgentWaitInRange == Spec => []WaitInRange
<1>1. IInv => WaitInRange
  BY DEF IInv, Timing
<1> QED
  BY <1>1, AgentInvariant, PTL

\* A terminal answer of the gateway ends the loop.
THEOREM AgentTerminalAnswer == Spec => []TerminalAnswerIsFinal
<1>1. IInv => TerminalAnswerIsFinal
  BY DEF IInv
<1> QED
  BY <1>1, AgentInvariant, PTL

----------------------------------------------------------------------------
(* The schedule of the waits.  TwoTo is a recursive function; that it has  *)
(* the values its definition says is proved from the least element of sets *)
(* of natural numbers.                                                     *)

\* Every non-empty set of natural numbers has a least element.
LEMMA LeastNatural ==
    ASSUME NEW T \in SUBSET Nat, T # {}
    PROVE  \E x \in T : \A y \in T : x <= y
<1>1. \E x \in T : \A y \in T : ~(<<y, x>> \in OpToRel(<, Nat))
  BY WFMin, NatLessThanWellFounded, Zenon
<1>2. PICK x \in T : \A y \in T : ~(<<y, x>> \in OpToRel(<, Nat))
  BY <1>1
<1>3. \A y \in T : ~(y < x)
  BY <1>2 DEF OpToRel
<1> QED
  BY <1>3

\* A table of the powers of two up to n.
Table(n) == {t \in [0..n -> Nat \ {0}] :
               t[0] = 1 /\ \A k \in 1..n : t[k] = 2 * t[k - 1]}

\* There is a table of any length: the shortest missing one extends a shorter one.
LEMMA TablesExist == \A n \in Nat : Table(n) # {}
<1> DEFINE T == {n \in Nat : Table(n) = {}}
<1> SUFFICES ASSUME T # {} PROVE FALSE
  OBVIOUS
<1>1. PICK n \in T : \A m \in T : n <= m
  BY LeastNatural
<1>2. CASE n = 0
  <2>1. [k \in 0..0 |-> 1] \in Table(0)
    BY DEF Table
  <2> QED
    BY <1>2, <2>1
<1>3. CASE n # 0
  <2>1. n - 1 \in Nat /\ n - 1 \notin T
    BY <1>1, <1>3
  <2>2. PICK t : t \in Table(n - 1)
    BY <2>1
  <2> DEFINE u == [k \in 0..n |-> IF k = n THEN 2 * t[n - 1] ELSE t[k]]
  <2>3. n \in Nat /\ t \in [0..(n - 1) -> Nat \ {0}]
    BY <2>2 DEF Table
  <2>4. u \in [0..n -> Nat \ {0}]
    BY <1>3, <2>3
  <2>5. u[0] = 1 /\ \A k \in 1..n : u[k] = 2 * u[k - 1]
    BY <1>3, <2>2, <2>3 DEF Table
  <2>6. u \in Table(n)
    BY <2>4, <2>5 DEF Table
  <2> QED
    BY <2>6
<1> QED
  BY <1>2, <1>3

\* Two tables agree where both are defined.
LEMMA TablesAgree ==
    \A m, n \in Nat : \A s \in Table(m), t \in Table(n) :
        \A k \in (0..m) \cap (0..n) : s[k] = t[k]
<1> SUFFICES ASSUME NEW m \in Nat, NEW n \in Nat, NEW s \in Table(m), NEW t \in Table(n)
             PROVE  \A k \in (0..m) \cap (0..n) : s[k] = t[k]
  OBVIOUS
<1> DEFINE T == {k \in (0..m) \cap (0..n) : s[k] # t[k]}
<1> SUFFICES ASSUME T # {} PROVE FALSE
  OBVIOUS
<1>1. T \in SUBSET Nat
  OBVIOUS
<1>2. PICK k \in T : \A j \in T : k <= j
  BY <1>1, LeastNatural
<1>3. k # 0
  BY DEF Table
<1>4. k - 1 \in (0..m) \cap (0..n) /\ k - 1 \notin T /\ k \in 1..m /\ k \in 1..n
  BY <1>2, <1>3
<1>5. s[k - 1] = t[k - 1]
  BY <1>4
<1> QED
  BY <1>4, <1>5 DEF Table

\* TwoTo is the function that its recursive definition describes, and its values
\* are positive: the last entries of the tables form such a function.
LEMMA TwoToUnfolds ==
    /\ TwoTo[0] = 1
    /\ \A n \in Nat : TwoTo[n] \in Nat \ {0} /\ TwoTo[n + 1] = 2 * TwoTo[n]
<1> DEFINE f == [n \in Nat |-> (CHOOSE t : t \in Table(n))[n]]
<1>1. ASSUME NEW n \in Nat
      PROVE  (CHOOSE t : t \in Table(n)) \in Table(n)
  BY <1>1, TablesExist
<1>2. ASSUME NEW n \in Nat
      PROVE  f[n] \in Nat \ {0} /\ f[n] = IF n = 0 THEN 1 ELSE 2 * f[n - 1]
  <2> DEFINE t == CHOOSE t : t \in Table(n)
             s == CHOOSE s : s \in Table(n - 1)
  <2>1. t \in Table(n) /\ f[n] = t[n]
    BY <1>1
  <2>2. n # 0 => s \in Table(n - 1) /\ f[n - 1] = s[n - 1]
    BY <1>1
  <2> HIDE DEF t, s, f
  <2>3. n # 0 => s[n - 1] = t[n - 1]
    BY <2>1, <2>2, TablesAgree
  <2> QED
    BY <2>1, <2>2, <2>3 DEF Table
<1>3. f = [n \in Nat |-> IF n = 0 THEN 1 ELSE 2 * f[n - 1]]
  <2> HIDE DEF f
  <2>1. f = [n \in Nat |-> f[n]]
    BY DEF f
  <2> QED
    BY <1>2, <2>1
<1> HIDE DEF f
<1>4. TwoTo = [n \in Nat |-> IF n = 0 THEN 1 ELSE 2 * TwoTo[n - 1]]
  <2>1. \E g : g = [n \in Nat |-> IF n = 0 THEN 1 ELSE 2 * g[n - 1]]
    BY <1>3
  <2> QED
    BY <2>1, Zenon DEF TwoTo
<1>5. TwoTo[0] = 1 /\ \A n \in Nat : TwoTo[n + 1] = 2 * TwoTo[n]
  BY <1>4
<1> DEFINE T == {n \in Nat : TwoTo[n] \notin Nat \ {0}}
<1>6. T = {}
  <2> SUFFICES ASSUME T # {} PROVE FALSE
    OBVIOUS
  <2>1. PICK n \in T : \A m \in T : n <= m
    BY LeastNatural
  <2>2. n # 0
    BY <1>5
  <2>3. n - 1 \in Nat /\ n - 1 \notin T
    BY <2>1, <2>2
  <2>4. TwoTo[(n - 1) + 1] = 2 * TwoTo[n - 1]
    BY <1>5, <2>3
  <2> QED
    BY <2>3, <2>4
<1> QED
  BY <1>5, <1>6

\* The schedule starts with the configured delay.
LEMMA InitSchedule == Init => BackoffSchedule
BY DelaysPositive, TwoToUnfolds DEF Init, BackoffSchedule

\* The wait after one more failure is twice as long or the maximum, also when
\* the initial delay is larger than the maximum.
LEMMA NextScheduled ==
    ASSUME NEW n \in Nat,
           delay = IF n > 0 /\ initialDelay * TwoTo[n] > maxDelay
                   THEN maxDelay ELSE initialDelay * TwoTo[n]
    PROVE  nextDelayMax(delay, maxDelay) =
               IF initialDelay * TwoTo[n + 1] > maxDelay
               THEN maxDelay ELSE initialDelay * TwoTo[n + 1]
<1> DEFINE p == initialDelay * TwoTo[n]
           q == initialDelay * TwoTo[n + 1]
<1>1. TwoTo[n] \in Nat \ {0} /\ TwoTo[n + 1] = 2 * TwoTo[n]
  BY TwoToUnfolds
<1>2. \A a, b \in Nat \ {0} : a * b \in Nat \ {0} /\ a * (2 * b) = 2 * (a * b)
  OBVIOUS
<1>3. p \in Nat \ {0} /\ q = 2 * p
  BY <1>1, <1>2, DelaysPositive
<1>4. maxDelay \in Nat \ {0}
  BY DelaysPositive
<1> HIDE DEF p, q
<1>5. delay = IF n > 0 /\ p > maxDelay THEN maxDelay ELSE p
  BY DEF p
<1>6. nextDelayMax(delay, maxDelay) = IF q > maxDelay THEN maxDelay ELSE q
  BY <1>3, <1>4, <1>5 DEF nextDelayMax
<1> QED
  BY <1>6 DEF q

\* Only a connection and an elapsed wait change the delay.
LEMMA NextSchedule == IInv /\ BackoffSchedule /\ [Next]_vars => BackoffSchedule'
<1> SUFFICES ASSUME IInv, BackoffSchedule, [Next]_vars PROVE BackoffSchedule'
  OBVIOUS
<1> USE DEF loopVars, runVars, ticketVars
<1>1. failures \in Nat
  BY DEF IInv, TypeOK, TypeNumbers
<1>2. CASE DialSucceeds
  BY <1>2, DelaysPositive, TwoToUnfolds DEF DialSucceeds, BackoffSchedule
<1>3. CASE BackoffElapses
  <2>1. /\ delay' = nextDelayMax(delay, maxDelay) /\ failures' = failures + 1
        /\ failures + 1 > 0
    BY <1>1, <1>3 DEF BackoffElapses
  <2>2. delay' = IF initialDelay * TwoTo[failures + 1] > maxDelay
                 THEN maxDelay ELSE initialDelay * TwoTo[failures + 1]
    BY <1>1, <2>1, NextScheduled DEF BackoffSchedule
  <2> QED
    BY <2>1, <2>2 DEF BackoffSchedule
<1>4. CASE UNCHANGED <<delay, failures>>
  BY <1>4 DEF BackoffSchedule
<1>5. DialSucceeds \/ BackoffElapses \/ UNCHANGED <<delay, failures>>
  <2>1. ASSUME NEW e, NEW l, AcquireFails(e, l)
        PROVE  UNCHANGED <<delay, failures>>
    BY <2>1 DEF AcquireFails
  <2>2. ASSUME NEW e, DialFails(e)
        PROVE  UNCHANGED <<delay, failures>>
    BY <2>2 DEF DialFails
  <2>3. CASE \/ Cancel \/ Start \/ LoopCancelled \/ TakeInitialSession \/ BeginAcquire
            \/ AcquireSucceeds \/ ServeVirtualized \/ ServeEnds \/ BackoffCancelled
            \/ Stopped \/ UNCHANGED vars
    BY <2>3 DEF Cancel, Start, LoopCancelled, TakeInitialSession, BeginAcquire,
       AcquireSucceeds, ServeVirtualized, ServeEnds, BackoffCancelled, Stopped, vars
  <2> QED
    BY <2>1, <2>2, <2>3 DEF Next, AcquireReturns, DialReturns
<1> QED
  BY <1>2, <1>3, <1>4, <1>5

\* The wait is the initial delay doubled with every consecutive failure and
\* capped by the maximum, for every configuration and any number of failures.
THEOREM AgentBackoffSchedule == Spec => []BackoffSchedule
<1> QED
  BY AgentInvariant, InitSchedule, NextSchedule, PTL DEF Spec

----------------------------------------------------------------------------
(* The loop implements the contract.                                       *)

\* The last presented ticket, and what one more presentation makes of it.
LEMMA LastDialFacts ==
    ASSUME IInv
    PROVE  /\ LastDial \in Nat
           /\ LastDial <= issued
           /\ dials # << >> => LastDial >= 1
<1>1. dials \in Seq(Nat) /\ issued \in Nat /\ Len(dials) \in Nat
  BY LenProperties DEF IInv, TypeOK, TypeNumbers
<1>2. CASE dials = << >>
  BY <1>1, <1>2 DEF LastDial
<1>3. CASE dials # << >>
  <2>1. Len(dials) \in 1..Len(dials)
    BY <1>1, <1>3, EmptySeq
  <2>2. dials[Len(dials)] \in Nat
    BY <1>1, <2>1, ElementOfSeq
  <2>3. 1 <= dials[Len(dials)] /\ dials[Len(dials)] <= issued
    BY <2>1 DEF IInv, TicketsIssued
  <2> QED
    BY <1>3, <2>2, <2>3 DEF LastDial
<1> QED
  BY <1>2, <1>3

\* A dial makes its ticket the last presented one.
LEMMA LastDialAfter ==
    ASSUME IInv, NEW t \in Nat, Dial(t)
    PROVE  LastDial' = t
<1>1. dials \in Seq(Nat) /\ Len(dials) \in Nat
  BY LenProperties DEF IInv, TypeOK, TypeNumbers
<1>2. /\ dials' = Append(dials, t) /\ Len(dials') = Len(dials) + 1
      /\ dials'[Len(dials) + 1] = t /\ dials' \in Seq(Nat)
  BY <1>1, AppendProperties DEF Dial
<1>3. dials' # << >>
  BY <1>1, <1>2, EmptySeq
<1> QED
  BY <1>2, <1>3 DEF LastDial

\* Presenting a newer ticket from the loop is an attempt of the contract.
LEMMA DialIsAttempt ==
    ASSUME IInv, NEW t \in Nat, t > LastDial, Dial(t), pc \in {"loop", "acquiring"},
           reconnectEnabled \/ ~connectedOnce,
           UNCHANGED <<reconnectEnabled, connectedOnce, shown, cancelled, result>>
    PROVE  Contract!Attempt
<1>1. LastDial' = t /\ pc' = "dialing" /\ pendingMessageShown' = FALSE
  BY LastDialAfter DEF Dial
<1> QED
  BY <1>1 DEF Contract!Attempt

\* Returning is an end of the contract for the same reason.
LEMMA ReturnIsEnd ==
    ASSUME IInv, NEW why \in {"cancelled", "virtualized", "error"}, Return(why),
           pc # "stopped",
           \/ why = "cancelled" /\ cancelled
           \/ why = "virtualized" /\ pc = "serving"
           \/ why = "error" /\ (cancelled \/ ~(reconnectEnabled /\ pc = "serving")),
           shown' = IF why = "virtualized" /\ ~cancelled THEN "virtualized" ELSE shown,
           UNCHANGED <<reconnectEnabled, connectedOnce, dials, pendingMessageShown, cancelled>>
    PROVE  \E o \in {"cancelled", "virtualized", "error"} : Contract!End(o)
<1>1. pc' = "stopped" /\ LastDial' = LastDial
  BY DEF Return, LastDial
<1>2. CASE cancelled
  <2>1. Contract!End("cancelled")
    BY <1>1, <1>2 DEF Return, Contract!End
  <2> QED
    BY <2>1
<1>3. CASE ~cancelled
  <2>1. Contract!End(why)
    BY <1>1, <1>3 DEF Return, Contract!End
  <2> QED
    BY <2>1
<1> QED
  BY <1>2, <1>3

\* The initial states of the loop are initial states of the contract.
LEMMA InitContract == Init => Contract!Init
BY DEF Init, Contract!Init, LastDial

\* Every step of the loop is a step of the contract or leaves it unchanged.
LEMMA NextContract ==
    IInv /\ [Next]_vars => [Contract!Next]_(Contract!vars)
<1> SUFFICES ASSUME IInv, [Next]_vars
             PROVE  Contract!Next \/ UNCHANGED Contract!vars
  OBVIOUS
<1> USE DEF loopVars, runVars, ticketVars
<1>1. CASE Cancel
  <2>1. Contract!Cancel
    BY <1>1 DEF Cancel, Contract!Cancel, LastDial
  <2> QED
    BY <2>1 DEF Contract!Next
<1>2. CASE Start
  BY <1>2 DEF Start, Contract!vars, LastDial
<1>3. CASE LoopCancelled
  <2>1. \E o \in {"cancelled", "virtualized", "error"} : Contract!End(o)
    BY <1>3, ReturnIsEnd DEF LoopCancelled
  <2> QED
    BY <2>1 DEF Contract!Next
<1>4. CASE TakeInitialSession
  <2>1. /\ next \in Nat /\ next >= 1 /\ dials = << >> /\ pc = "loop" /\ Dial(next)
        /\ UNCHANGED <<reconnectEnabled, connectedOnce, shown, cancelled, result>>
    BY <1>4 DEF TakeInitialSession, IInv, TypeOK, TypeNumbers, TicketHeldOnce, NoTicket
  <2>2. next > LastDial
    BY <2>1 DEF LastDial
  <2>3. reconnectEnabled \/ ~connectedOnce
    BY <2>1 DEF IInv, OnceBeforeStop
  <2>4. Contract!Attempt
    BY <2>1, <2>2, <2>3, DialIsAttempt
  <2> QED
    BY <2>4 DEF Contract!Next
<1>5. CASE BeginAcquire
  BY <1>5 DEF BeginAcquire, Contract!vars, LastDial
<1>6. CASE AcquireSucceeds
  <2>1. /\ issued + 1 \in Nat /\ issued \in Nat /\ pc = "acquiring" /\ Dial(issued + 1)
        /\ UNCHANGED <<reconnectEnabled, connectedOnce, shown, cancelled, result>>
    BY <1>6 DEF AcquireSucceeds, IInv, TypeOK, TypeNumbers
  <2>2. issued + 1 > LastDial
    BY <2>1, LastDialFacts
  <2>3. reconnectEnabled \/ ~connectedOnce
    BY <2>1 DEF IInv, OnceBeforeStop
  <2>4. Contract!Attempt
    BY <2>1, <2>2, <2>3, DialIsAttempt
  <2> QED
    BY <2>4 DEF Contract!Next
<1>7. CASE \E e \in SessionErrors, lost \in BOOLEAN : AcquireFails(e, lost)
  <2> PICK e \in SessionErrors, lost \in BOOLEAN : AcquireFails(e, lost)
    BY <1>7
  <2> DEFINE gives == \/ cancelled
                      \/ ~IsRetryable(mapTunnelSessionError(e))
                      \/ ~reconnectEnabled /\ ~first
  <2>1. CASE gives
    <3>1. \E o \in {"cancelled", "virtualized", "error"} : Contract!End(o)
      BY <2>1, ReturnIsEnd DEF AcquireFails
    <3> QED
      BY <3>1 DEF Contract!Next
  <2>2. CASE ~gives /\ pendingMessageShown
    <3>1. pendingMessageShown' = TRUE /\ shown' = shown
      BY <2>2 DEF AcquireFails
    <3>2. pendingMessageShown' = pendingMessageShown
      BY <2>2, <3>1, Zenon DEF IInv, TypeOK, TypeControl
    <3> QED
      BY <2>2, <3>1, <3>2 DEF AcquireFails, BeginBackoff, Contract!vars, LastDial
  <2>3. CASE ~gives /\ ~pendingMessageShown
    <3>1. shown' \in {"waiting", "unavailable"}
      BY <2>3 DEF AcquireFails
    <3>2. Contract!Notice(shown')
      BY <2>3, <3>1 DEF AcquireFails, BeginBackoff, Contract!Notice, LastDial
    <3> QED
      BY <3>1, <3>2 DEF Contract!Next
  <2> QED
    BY <2>1, <2>2, <2>3
<1>8. CASE \E e \in GatewayErrors \cup {NoResponse} : DialFails(e)
  <2> PICK e \in GatewayErrors \cup {NoResponse} : DialFails(e)
    BY <1>8
  <2>1. CASE cancelled \/ ~retryableGatewayError(e) \/ ~reconnectEnabled
    <3>1. \E o \in {"cancelled", "virtualized", "error"} : Contract!End(o)
      BY <2>1, ReturnIsEnd DEF DialFails
    <3> QED
      BY <3>1 DEF Contract!Next
  <2>2. CASE ~(cancelled \/ ~retryableGatewayError(e) \/ ~reconnectEnabled)
    <3>1. LastDial >= 1 /\ LastDial \in Nat
      BY LastDialFacts DEF DialFails, IInv, DialPresented
    <3>2. Contract!AttemptFails
      BY <2>2, <3>1 DEF DialFails, BeginBackoff, Contract!AttemptFails, LastDial
    <3> QED
      BY <3>2 DEF Contract!Next
  <2> QED
    BY <2>1, <2>2
<1>9. CASE DialSucceeds
  <2>1. LastDial >= 1 /\ LastDial \in Nat
    BY <1>9, LastDialFacts DEF DialSucceeds, IInv, DialPresented
  <2>2. Contract!Up
    BY <1>9, <2>1 DEF DialSucceeds, Contract!Up, LastDial
  <2> QED
    BY <2>2 DEF Contract!Next
<1>10. CASE ServeVirtualized
  <2>1. \E o \in {"cancelled", "virtualized", "error"} : Contract!End(o)
    BY <1>10, ReturnIsEnd DEF ServeVirtualized
  <2> QED
    BY <2>1 DEF Contract!Next
<1>11. CASE ServeEnds
  <2>1. CASE cancelled \/ ~reconnectEnabled
    <3>1. \E o \in {"cancelled", "virtualized", "error"} : Contract!End(o)
      BY <1>11, <2>1, ReturnIsEnd DEF ServeEnds
    <3> QED
      BY <3>1 DEF Contract!Next
  <2>2. CASE ~(cancelled \/ ~reconnectEnabled)
    <3>1. Contract!Lost
      BY <1>11, <2>2 DEF ServeEnds, BeginBackoff, Contract!Lost, LastDial
    <3> QED
      BY <3>1 DEF Contract!Next
  <2> QED
    BY <2>1, <2>2
<1>12. CASE BackoffElapses
  BY <1>12 DEF BackoffElapses, Contract!vars, LastDial
<1>13. CASE BackoffCancelled
  <2>1. \E o \in {"cancelled", "virtualized", "error"} : Contract!End(o)
    BY <1>13, ReturnIsEnd DEF BackoffCancelled
  <2> QED
    BY <2>1 DEF Contract!Next
<1>14. CASE UNCHANGED vars
  BY <1>14 DEF vars, Contract!vars, LastDial
<1> QED
  BY <1>1, <1>2, <1>3, <1>4, <1>5, <1>6, <1>7, <1>8, <1>9, <1>10, <1>11,
     <1>12, <1>13, <1>14, Zenon DEF Next, AcquireReturns, DialReturns, Stopped

\* runTicket implements the contract of the tunnel.
THEOREM AgentImplementsContract == Spec => ImplementsContract
<1>1. Spec => Contract!Spec
  BY InitContract, NextContract, AgentInvariant, PTL DEF Spec, Contract!Spec
<1> QED
  BY <1>1 DEF ImplementsContract
=============================================================================
