----------------------- MODULE CaptureUploaderProofs -----------------------
(***************************************************************************)
(* Proofs about CaptureUploader, for any finite set of events, any size of *)
(* the queue and any number of failures: captured events are uploaded in   *)
(* the order in which Enqueue accepted them, none twice, and at most one   *)
(* is lost with each connection; the uploader implements EventStream; and  *)
(* no reader is left waiting behind.                                       *)
(***************************************************************************)
EXTENDS CaptureUploader, FiniteSetTheorems, SequenceTheorems, TLAPS

----------------------------------------------------------------------------
(* The inductive invariant.                                                *)

Messages == [kind : {"config", "foreign", "invalid", "other", "none"}, version : 0..MaxSnapshots]

\* The types of what the readers handle, which TypeOK leaves out.
MessagesOK ==
    /\ inbox \in [Conns -> Seq(Messages)]
    /\ held \in [Conns -> Messages]

\* A message is in flight exactly while it is written.
InflightWhileWriting ==
    /\ pc = "writing" <=> inflight # NoEvent
    /\ inflight \in Events \cup {NoEvent, Ping}

\* The connection in use has a number that was not closed yet.
ConnIsOpen ==
    /\ closed \subseteq 1..conn
    /\ pc \in {"serving", "writing"} => conn \in Conns \ closed

\* Enqueue sees every event once.
AcceptedOnce ==
    \A m, n \in 1..Len(accepted) : accepted[m] = accepted[n] => m = n

\* The queue holds the last accepted events, and the one that is written is
\* the one before them.
QueueIsSuffix ==
    /\ Settled \in Nat
    /\ \A i \in 1..Len(queue) : queue[i] = accepted[Len(accepted) - Len(queue) + i]
    /\ inflight \in Events => accepted[Settled + 1] = inflight

\* Every earlier event was either sent or lost.
SentOrLost ==
    /\ \A i \in 1..Len(sent) : sent[i] \notin lost /\ \E m \in 1..Settled : accepted[m] = sent[i]
    /\ \A e \in lost : \E m \in 1..Settled : accepted[m] = e
    /\ \A m \in 1..Settled : accepted[m] \in lost \/ \E i \in 1..Len(sent) : sent[i] = accepted[m]

SentInOrder ==
    \A i, j \in 1..Len(sent), m, n \in 1..Len(accepted) :
        i < j /\ sent[i] = accepted[m] /\ sent[j] = accepted[n] => m < n

\* Every lost event has cost a connection.
OneLostPerConn ==
    /\ IsFiniteSet(lost) /\ IsFiniteSet(closed)
    /\ Cardinality(lost) <= Cardinality(closed)

EventOrder == AcceptedOnce /\ QueueIsSuffix /\ SentOrLost /\ SentInOrder

IInv ==
    /\ TypeOK
    /\ MessagesOK
    /\ InflightWhileWriting
    /\ ConnIsOpen
    /\ EventOrder
    /\ OneLostPerConn

----------------------------------------------------------------------------
(* The invariant implies the property.                                     *)

\* The length of the part that is being written.
LEMMA WritingLength ==
    /\ inflight \in Events => Writing = <<inflight>> /\ Len(Writing) = 1
    /\ inflight \notin Events => Writing = << >> /\ Len(Writing) = 0
BY DEF Writing

\* Where the outgoing events come from.
LEMMA OutgoingAt ==
    ASSUME TypeOK
    PROVE  /\ Outgoing \in Seq(Events)
           /\ Len(Outgoing) = Len(sent) + Len(Writing) + Len(queue)
           /\ \A i \in 1..Len(sent) : Outgoing[i] = sent[i]
           /\ inflight \in Events => Outgoing[Len(sent) + 1] = inflight
           /\ \A i \in 1..Len(queue) : Outgoing[Len(sent) + Len(Writing) + i] = queue[i]
<1>1. sent \in Seq(Events) /\ queue \in Seq(Events)
  BY DEF TypeOK
<1>2. Writing \in Seq(Events) /\ Len(Writing) \in 0..1
  BY DEF Writing
<1>3. inflight \in Events => Writing[1] = inflight /\ Len(Writing) = 1
  BY DEF Writing
<1> DEFINE s == sent \o Writing
           S == Len(sent)
           W == Len(Writing)
           Q == Len(queue)
<1>4. S \in Nat /\ Q \in Nat /\ W \in 0..1 /\ (inflight \in Events => W = 1)
  BY <1>1, <1>2, <1>3
<1>5. /\ s \in Seq(Events) /\ Len(s) = S + W
      /\ \A i \in 1..(S + W) : s[i] = IF i <= S THEN sent[i] ELSE Writing[i - S]
  BY <1>1, <1>2, ConcatProperties
<1>6. /\ Outgoing \in Seq(Events) /\ Len(Outgoing) = Len(s) + Q
      /\ \A i \in 1..(Len(s) + Q) :
             Outgoing[i] = IF i <= Len(s) THEN s[i] ELSE queue[i - Len(s)]
  BY <1>1, <1>5, ConcatProperties DEF Outgoing
<1>7. Len(Outgoing) = S + W + Q
  BY <1>4, <1>5, <1>6
<1> HIDE DEF s, S, W, Q
<1>8. ASSUME NEW i \in 1..S PROVE Outgoing[i] = sent[i]
  <2>1. i \in 1..(S + W) /\ i \in 1..(S + W + Q) /\ i <= S + W /\ i <= S
    BY <1>4
  <2> QED
    BY <1>5, <1>6, <2>1
<1>9. ASSUME inflight \in Events PROVE Outgoing[S + 1] = inflight
  <2>1. /\ S + 1 \in 1..(S + W) /\ S + 1 \in 1..(S + W + Q) /\ S + 1 <= S + W /\ ~(S + 1 <= S)
        /\ (S + 1) - S = 1
    BY <1>4, <1>9
  <2> QED
    BY <1>3, <1>5, <1>6, <1>9, <2>1
<1>10. ASSUME NEW i \in 1..Q PROVE Outgoing[S + W + i] = queue[i]
  <2>1. S + W + i \in 1..(S + W + Q) /\ ~(S + W + i <= S + W) /\ (S + W + i) - (S + W) = i
    BY <1>4
  <2> QED
    BY <1>5, <1>6, <2>1
<1> QED
  BY <1>6, <1>7, <1>8, <1>9, <1>10 DEF S, W, Q

\* The inductive invariant implies the property.
LEMMA ImpliesUploadInOrder == IInv => UploadInOrder
<1> SUFFICES ASSUME IInv PROVE UploadInOrder
  OBVIOUS
<1> DEFINE S == Len(sent)
           W == Len(Writing)
           Q == Len(queue)
           L == Len(accepted)
           O == Outgoing
<1>0. /\ S \in Nat /\ Q \in Nat /\ L \in Nat /\ W \in 0..1 /\ Settled = L - Q - W /\ Settled \in Nat
      /\ W = 1 <=> inflight \in Events
  <2>1. sent \in Seq(Events) /\ queue \in Seq(Events) /\ accepted \in Seq(Events)
    BY DEF IInv, TypeOK
  <2>2. Settled \in Nat /\ Settled = L - Q - W
    BY DEF IInv, EventOrder, QueueIsSuffix, Settled
  <2>3. S \in Nat /\ Q \in Nat /\ L \in Nat
    BY <2>1
  <2>4. W \in 0..1 /\ (W = 1 <=> inflight \in Events)
    BY WritingLength
  <2> QED
    BY <2>2, <2>3, <2>4
<1>1. /\ Len(O) = S + W + Q /\ DOMAIN O = 1..Len(O) /\ DOMAIN accepted = 1..L
      /\ \A i \in 1..S : O[i] = sent[i]
      /\ W = 1 => O[S + 1] = inflight
      /\ \A i \in 1..Q : O[S + W + i] = queue[i]
  BY <1>0, OutgoingAt DEF IInv, TypeOK
\* The place of every outgoing event among the accepted ones.
<1>2. /\ \A i \in 1..S : \E m \in 1..Settled : O[i] = accepted[m]
      /\ W = 1 => O[S + 1] = accepted[Settled + 1]
      /\ \A i \in 1..Q : O[S + W + i] = accepted[Settled + W + i]
  <2>1. \A i \in 1..S : \E m \in 1..Settled : O[i] = accepted[m]
    BY <1>1 DEF IInv, EventOrder, SentOrLost
  <2>2. W = 1 => O[S + 1] = accepted[Settled + 1]
    BY <1>0, <1>1 DEF IInv, EventOrder, QueueIsSuffix
  <2>3. ASSUME NEW i \in 1..Q PROVE O[S + W + i] = accepted[Settled + W + i]
    <3>1. queue[i] = accepted[L - Q + i]
      BY DEF IInv, EventOrder, QueueIsSuffix
    <3>2. L - Q + i = Settled + W + i
      BY <1>0
    <3> QED
      BY <1>1, <3>1, <3>2
  <2> QED
    BY <2>1, <2>2, <2>3
<1>h. /\ \A i \in 1..S : sent[i] \notin lost
      /\ \A e \in lost : \E m \in 1..Settled : accepted[m] = e
      /\ \A m \in 1..Settled : accepted[m] \in lost \/ \E i \in 1..S : sent[i] = accepted[m]
      /\ \A i, j \in 1..S, m, n \in 1..L :
             i < j /\ sent[i] = accepted[m] /\ sent[j] = accepted[n] => m < n
      /\ \A x, y \in 1..L : accepted[x] = accepted[y] => x = y
  BY DEF IInv, EventOrder, SentOrLost, SentInOrder, AcceptedOnce
<1> HIDE DEF S, W, Q, L, O
<1>l. /\ Len(O) = S + W + Q /\ DOMAIN O = 1..(S + W + Q) /\ DOMAIN accepted = 1..L
  BY <1>1
<1>3. ASSUME NEW i \in 1..(S + W + Q), NEW m \in 1..L, O[i] = accepted[m]
      PROVE  /\ i <= S => m <= Settled
             /\ i > S => m = Settled + (i - S)
  <2>1. CASE i <= S
    <3>1. i \in 1..S /\ \A x \in 1..Settled : x \in 1..L
      BY <1>0, <2>1
    <3>2. PICK x \in 1..Settled : O[i] = accepted[x]
      BY <1>2, <3>1
    <3>3. m = x
      BY <1>3, <1>h, <3>1, <3>2
    <3> QED
      BY <1>0, <2>1, <3>3
  <2>2. CASE i > S /\ i <= S + W
    <3>1. i = S + 1 /\ W = 1 /\ Settled + 1 \in 1..L /\ Settled + 1 = Settled + (i - S)
      BY <1>0, <2>2
    <3>2. m = Settled + 1
      BY <1>2, <1>3, <1>h, <3>1
    <3> QED
      BY <1>0, <2>2, <3>1, <3>2
  <2>3. CASE i > S + W
    <3>1. PICK k \in 1..Q : i = S + W + k
      <4>1. i - S - W \in 1..Q /\ i = S + W + (i - S - W)
        BY <1>0, <2>3
      <4> QED
        BY <4>1
    <3>2. Settled + W + k \in 1..L /\ Settled + W + k = Settled + (i - S) /\ ~(i <= S)
      BY <1>0, <3>1
    <3>3. m = Settled + W + k
      BY <1>2, <1>3, <1>h, <3>1, <3>2
    <3> QED
      BY <3>2, <3>3
  <2> QED
    BY <1>0, <2>1, <2>2, <2>3
<1>4. ASSUME NEW i \in DOMAIN O, NEW j \in DOMAIN O, NEW m \in DOMAIN accepted,
             NEW n \in DOMAIN accepted, i < j, O[i] = accepted[m], O[j] = accepted[n]
      PROVE  m < n
  <2>0. i \in 1..(S + W + Q) /\ j \in 1..(S + W + Q) /\ m \in 1..L /\ n \in 1..L
    BY <1>l
  <2>1. /\ i <= S => m <= Settled
        /\ i > S => m = Settled + (i - S)
        /\ j > S => n = Settled + (j - S)
    BY <1>3, <1>4, <2>0
  <2>2. CASE j <= S
    <3>1. i \in 1..S /\ j \in 1..S
      BY <1>0, <1>4, <2>0, <2>2
    <3>2. sent[i] = accepted[m] /\ sent[j] = accepted[n]
      BY <1>1, <1>4, <3>1
    <3> QED
      BY <1>4, <1>h, <2>0, <3>1, <3>2
  <2>3. CASE j > S
    BY <1>0, <1>4, <2>0, <2>1, <2>3
  <2> QED
    BY <1>0, <2>0, <2>2, <2>3
<1>5. lost \subseteq ToSet(accepted)
  <2>1. \A m \in 1..Settled : m \in DOMAIN accepted
    BY <1>0, <1>l
  <2> QED
    BY <1>h, <2>1 DEF ToSet
<1>6. ASSUME NEW i \in DOMAIN O PROVE O[i] \in ToSet(accepted) \ lost
  <2>0. i \in 1..(S + W + Q)
    BY <1>l
  <2>1. PICK m \in 1..L : O[i] = accepted[m]
    <3>1. CASE i <= S
      <4>1. i \in 1..S /\ \A x \in 1..Settled : x \in 1..L
        BY <1>0, <2>0, <3>1
      <4> QED
        BY <1>2, <4>1
    <3>2. CASE i > S /\ i <= S + W
      <4>1. i = S + 1 /\ W = 1 /\ Settled + 1 \in 1..L
        BY <1>0, <2>0, <3>2
      <4> QED
        BY <1>2, <4>1
    <3>3. CASE i > S + W
      <4>1. i - S - W \in 1..Q /\ i = S + W + (i - S - W) /\ Settled + W + (i - S - W) \in 1..L
        BY <1>0, <2>0, <3>3
      <4> QED
        BY <1>2, <4>1
    <3> QED
      BY <1>0, <2>0, <3>1, <3>2, <3>3
  <2>2. O[i] \notin lost
    <3>1. CASE i <= S
      <4>1. i \in 1..S
        BY <1>0, <2>0, <3>1
      <4> QED
        BY <1>1, <1>h, <4>1
    <3>2. CASE i > S
      <4>1. SUFFICES ASSUME O[i] \in lost PROVE FALSE
        OBVIOUS
      <4>2. PICK x \in 1..Settled : accepted[x] = O[i]
        BY <1>h, <4>1
      <4>3. x \in 1..L
        BY <1>0
      <4>4. x = Settled + (i - S)
        BY <1>3, <2>0, <3>2, <4>2, <4>3
      <4> QED
        BY <1>0, <2>0, <3>2, <4>4
    <3> QED
      BY <1>0, <2>0, <3>1, <3>2
  <2>3. m \in DOMAIN accepted
    BY <1>l
  <2> QED
    BY <2>1, <2>2, <2>3 DEF ToSet
<1>7. ASSUME NEW m \in 1..L, accepted[m] \notin lost PROVE \E i \in DOMAIN O : O[i] = accepted[m]
  <2>1. CASE m <= Settled
    <3>1. m \in 1..Settled
      BY <1>0, <2>1
    <3>2. PICK i \in 1..S : sent[i] = accepted[m]
      BY <1>7, <1>h, <3>1
    <3>3. i \in DOMAIN O
      BY <1>0, <1>l
    <3> QED
      BY <1>1, <3>2, <3>3
  <2>2. CASE m > Settled /\ m <= Settled + W
    <3>1. m = Settled + 1 /\ W = 1 /\ S + 1 \in 1..(S + W + Q)
      BY <1>0, <2>2
    <3>2. S + 1 \in DOMAIN O
      BY <1>l, <3>1
    <3> QED
      BY <1>2, <3>1, <3>2
  <2>3. CASE m > Settled + W
    <3>1. PICK k \in 1..Q : m = Settled + W + k
      <4>1. m - Settled - W \in 1..Q /\ m = Settled + W + (m - Settled - W)
        BY <1>0, <2>3
      <4> QED
        BY <4>1
    <3>2. S + W + k \in 1..(S + W + Q)
      BY <1>0
    <3>3. S + W + k \in DOMAIN O
      BY <1>l, <3>2
    <3> QED
      BY <1>2, <3>1, <3>3
  <2> QED
    BY <1>0, <2>1, <2>2, <2>3
<1>8. ToSet(O) = ToSet(accepted) \ lost
  <2>1. ToSet(O) = {O[i] : i \in DOMAIN O} /\ ToSet(accepted) = {accepted[m] : m \in 1..L}
    BY <1>l DEF ToSet
  <2> QED
    BY <1>6, <1>7, <2>1
<1> QED
  BY <1>4, <1>5, <1>8 DEF IInv, OneLostPerConn, UploadInOrder, O

----------------------------------------------------------------------------
(* Types.                                                                  *)

\* The initial states satisfy the inductive invariant.
LEMMA InitIInv == Init => IInv
<1> SUFFICES ASSUME Init PROVE IInv
  OBVIOUS
<1>1. TypeOK
  <2>1. /\ 0 \in 0..MaxSnapshots /\ 0 \in 0..(MaxFaults + 1) /\ 0 \in 0..1
        /\ << >> \in Seq(Events)
    BY BoundAssumption, EmptySeq
  <2>2. /\ reader \in [Conns -> {"none", "reading", "holding", "done"}]
        /\ readErrors \in [Conns -> 0..1]
    BY <2>1 DEF Init
  <2> QED
    BY <2>1, <2>2 DEF Init, TypeOK
<1>2. MessagesOK
  <2>1. NoMessage \in Messages
    BY BoundAssumption DEF NoMessage, Messages
  <2> QED
    BY <2>1, EmptySeq DEF Init, MessagesOK
<1>3. InflightWhileWriting /\ ConnIsOpen
  BY DEF Init, InflightWhileWriting, ConnIsOpen
<1>4. /\ Len(queue) = 0 /\ Len(accepted) = 0 /\ Len(sent) = 0 /\ Settled = 0
      /\ inflight \notin Events
  <2>1. inflight \notin Events
    BY EventNames DEF Init
  <2>2. Len(queue) = 0 /\ Len(accepted) = 0 /\ Len(sent) = 0 /\ Len(Writing) = 0
    BY <2>1, EmptySeq DEF Init, Writing
  <2> QED
    BY <2>1, <2>2 DEF Settled
<1>5. AcceptedOnce /\ QueueIsSuffix /\ SentInOrder
  BY <1>4 DEF AcceptedOnce, QueueIsSuffix, SentInOrder
<1>6. SentOrLost
  BY <1>4 DEF Init, SentOrLost
<1>7. OneLostPerConn
  BY FS_EmptySet DEF Init, OneLostPerConn
<1> QED
  BY <1>1, <1>2, <1>3, <1>5, <1>6, <1>7 DEF IInv, EventOrder

LoopTypes ==
    /\ pc \in {"loop", "acquiring", "dialing", "serving", "writing", "backoff", "stopped"}
    /\ cancelled \in BOOLEAN
    /\ next \in BOOLEAN
    /\ conn \in 0..(MaxFaults + 1)
    /\ inflight \in Events \cup {NoEvent, Ping}
    /\ closed \subseteq Conns
    /\ broken \subseteq Conns

EventTypes ==
    /\ queue \in Seq(Events)
    /\ accepted \in Seq(Events)
    /\ refused \subseteq Events
    /\ sent \in Seq(Events)
    /\ lost \subseteq Events

ReaderTypes ==
    /\ reader \in [Conns -> {"none", "reading", "holding", "done"}]
    /\ readErrors \in [Conns -> 0..1]
    /\ inbox \in [Conns -> Seq(Messages)]
    /\ held \in [Conns -> Messages]
    /\ store \in 0..MaxSnapshots
    /\ snapshots \in 0..MaxSnapshots

LEMMA TypeParts == TypeOK /\ MessagesOK <=> LoopTypes /\ EventTypes /\ ReaderTypes
BY Zenon DEF TypeOK, MessagesOK, LoopTypes, EventTypes, ReaderTypes

LEMMA MessageTypes ==
    /\ NoMessage \in Messages /\ Foreign \in Messages /\ Invalid \in Messages /\ Other \in Messages
    /\ \A v \in 0..MaxSnapshots : Snapshot(v) \in Messages
    /\ \A x \in Messages : x.version \in 0..MaxSnapshots
BY BoundAssumption DEF NoMessage, Foreign, Invalid, Other, Snapshot, Messages

\* A failed request for a session or a failed dial stops the loop or backs off.
LEMMA FailedAttempt ==
    ASSUME \/ \E e \in SessionErrors : AcquireFails(e)
           \/ \E status \in {0, 401, 403, 409, 503} : DialFails(status)
    PROVE  /\ pc \in {"acquiring", "dialing"} /\ pc' \in {"stopped", "backoff"}
           /\ UNCHANGED <<next, conn, inflight, cancelled, readerVars, netVars, eventVars, store>>
<1>1. ASSUME NEW e \in SessionErrors, AcquireFails(e)
      PROVE  /\ pc = "acquiring" /\ pc' \in {"stopped", "backoff"}
             /\ UNCHANGED <<next, conn, inflight, cancelled, readerVars, netVars, eventVars, store>>
  <2> DEFINE final == cancelled \/ ~IsRetryable(mapCaptureSessionError(e))
  <2>1. /\ pc' = IF final THEN "stopped" ELSE "backoff"
        /\ pc = "acquiring"
        /\ UNCHANGED <<next, conn, inflight, cancelled, readerVars, netVars, eventVars, store>>
    BY <1>1 DEF AcquireFails
  <2> HIDE DEF final
  <2> QED
    BY <2>1
<1>2. ASSUME NEW status \in {0, 401, 403, 409, 503}, DialFails(status)
      PROVE  /\ pc = "dialing" /\ pc' \in {"stopped", "backoff"}
             /\ UNCHANGED <<next, conn, inflight, cancelled, readerVars, netVars, eventVars, store>>
  <2> DEFINE final == cancelled \/ status \in (400..499) \ {401, 409}
  <2>1. /\ pc' = IF final THEN "stopped" ELSE "backoff"
        /\ pc = "dialing"
        /\ UNCHANGED <<next, conn, inflight, cancelled, readerVars, netVars, eventVars, store>>
    BY <1>2 DEF DialFails
  <2> HIDE DEF final
  <2> QED
    BY <2>1
<1> QED
  BY <1>1, <1>2

\* Every step keeps the types.
LEMMA NextTypes == IInv /\ [Next]_vars => TypeOK' /\ MessagesOK'
<1> SUFFICES ASSUME IInv, [Next]_vars PROVE LoopTypes' /\ EventTypes' /\ ReaderTypes'
  BY TypeParts, PTL DEF TypeOK, MessagesOK, LoopTypes, EventTypes, ReaderTypes
<1>0. LoopTypes /\ EventTypes /\ ReaderTypes
  BY TypeParts DEF IInv
<1>i. InflightWhileWriting /\ ConnIsOpen
  BY DEF IInv
<1> USE DEF vars, loopVars, readerVars, netVars, eventVars
<1>e. ASSUME UNCHANGED eventVars PROVE EventTypes'
  BY <1>0, <1>e DEF EventTypes
<1>r. ASSUME UNCHANGED <<readerVars, store, snapshots>> PROVE ReaderTypes'
  BY <1>0, <1>r DEF ReaderTypes
<1>l. ASSUME UNCHANGED <<loopVars, cancelled, closed, broken>> PROVE LoopTypes'
  BY <1>0, <1>l DEF LoopTypes
<1>1. ASSUME NEW e \in Events, NEW valid \in BOOLEAN, Enqueue(e, valid)
      PROVE  LoopTypes' /\ EventTypes' /\ ReaderTypes'
  <2>0. Append(queue, e) \in Seq(Events) /\ Append(accepted, e) \in Seq(Events)
    BY <1>0, AppendProperties DEF EventTypes
  <2>a. UNCHANGED <<sent, lost>>
    BY <1>1 DEF Enqueue
  <2>1. EventTypes'
    <3>1. CASE valid /\ Len(queue) < QueueSize
      <4>1. queue' = Append(queue, e) /\ accepted' = Append(accepted, e) /\ refused' = refused
        BY <1>1, <3>1 DEF Enqueue
      <4> QED
        BY <1>0, <2>0, <2>a, <4>1 DEF EventTypes
    <3>2. CASE ~(valid /\ Len(queue) < QueueSize)
      <4>1. queue' = queue /\ accepted' = accepted /\ refused' = refused \cup {e}
        BY <1>1, <3>2 DEF Enqueue
      <4> QED
        BY <1>0, <2>a, <4>1 DEF EventTypes
    <3> QED
      BY <3>1, <3>2
  <2> QED
    BY <1>1, <1>r, <1>l, <2>1 DEF Enqueue
<1>2. CASE Cancel \/ Stopped \/ UNCHANGED vars
  <2>1. LoopTypes'
    BY <1>0, <1>2 DEF Cancel, Stopped, LoopTypes
  <2> QED
    BY <1>2, <1>e, <1>r, <2>1 DEF Cancel, Stopped
<1>3. CASE \/ LoopTop \/ AcquireSucceeds \/ BackoffElapses \/ BackoffCancelled
           \/ \E e \in SessionErrors : AcquireFails(e)
           \/ \E status \in {0, 401, 403, 409, 503} : DialFails(status)
  <2>1. /\ pc' \in {"loop", "acquiring", "dialing", "serving", "writing", "backoff", "stopped"}
        /\ next' \in BOOLEAN
        /\ UNCHANGED <<conn, inflight, cancelled, readerVars, netVars, eventVars, store>>
    <3>1. CASE LoopTop
      BY <1>0, <3>1 DEF LoopTop, LoopTypes
    <3>2. CASE AcquireSucceeds \/ BackoffElapses \/ BackoffCancelled
      BY <1>0, <3>2 DEF AcquireSucceeds, BackoffElapses, BackoffCancelled, LoopTypes
    <3>3. CASE \/ \E e \in SessionErrors : AcquireFails(e)
               \/ \E status \in {0, 401, 403, 409, 503} : DialFails(status)
      BY <1>0, <3>3, FailedAttempt DEF LoopTypes
    <3> QED
      BY <1>3, <3>1, <3>2, <3>3
  <2>2. LoopTypes'
    BY <1>0, <2>1 DEF LoopTypes
  <2> QED
    BY <1>e, <1>r, <2>1, <2>2
<1>4. CASE DialSucceeds
  <2>1. LoopTypes'
    BY <1>0, <1>4, BoundAssumption DEF DialSucceeds, LoopTypes, Conns
  <2>2. ReaderTypes'
    BY <1>0, <1>4 DEF DialSucceeds, ReaderTypes
  <2> QED
    BY <1>4, <1>e, <2>1, <2>2 DEF DialSucceeds
<1>5. ASSUME ServeReturns, pc \in {"serving", "writing"}, UNCHANGED <<next, conn, cancelled, broken>>
      PROVE  LoopTypes'
  <2>1. conn \in Conns
    BY <1>5, <1>i DEF ConnIsOpen
  <2> QED
    BY <1>0, <1>5, <2>1 DEF ServeReturns, LoopTypes
<1>6. CASE ServeCancelled
  BY <1>5, <1>6, <1>e, <1>r DEF ServeCancelled
<1>7. CASE ServeReadError
  <2>1. ReaderTypes'
    <3>1. conn \in Conns
      BY <1>7, <1>i DEF ServeReadError, ConnIsOpen
    <3>2. readErrors' \in [Conns -> 0..1]
      BY <1>0, <1>7, <3>1 DEF ServeReadError, ReaderTypes
    <3> QED
      BY <1>0, <1>7, <3>2 DEF ServeReadError, ReaderTypes
  <2> QED
    BY <1>5, <1>7, <1>e, <2>1 DEF ServeReadError
<1>8. CASE TakeEvent
  <2>1. Head(queue) \in Events /\ Tail(queue) \in Seq(Events)
    BY <1>0, <1>8, HeadTailProperties DEF TakeEvent, EventTypes
  <2>2. LoopTypes' /\ EventTypes'
    BY <1>0, <1>8, <2>1 DEF TakeEvent, LoopTypes, EventTypes
  <2> QED
    BY <1>8, <1>r, <2>2 DEF TakeEvent
<1>9. CASE TickPing
  <2>1. LoopTypes'
    BY <1>0, <1>9 DEF TickPing, LoopTypes
  <2> QED
    BY <1>9, <1>e, <1>r, <2>1 DEF TickPing
<1>10. CASE WriteSucceeds
  <2>1. inflight # NoEvent /\ inflight \in Events \cup {NoEvent, Ping}
    BY <1>10, <1>i DEF WriteSucceeds, InflightWhileWriting
  <2>2. EventTypes'
    BY <1>0, <1>10, <2>1, AppendProperties DEF WriteSucceeds, EventTypes
  <2>3. LoopTypes'
    BY <1>0, <1>10 DEF WriteSucceeds, LoopTypes
  <2> QED
    BY <1>10, <1>r, <2>2, <2>3 DEF WriteSucceeds
<1>11. CASE WriteFails
  <2>1. inflight # NoEvent /\ inflight \in Events \cup {NoEvent, Ping}
    BY <1>11, <1>i DEF WriteFails, InflightWhileWriting
  <2>2. EventTypes'
    BY <1>0, <1>11, <2>1 DEF WriteFails, EventTypes
  <2> QED
    BY <1>5, <1>11, <1>r, <2>2 DEF WriteFails
<1>12. ASSUME NEW c \in Conns, ReaderStep(c) PROVE LoopTypes' /\ EventTypes' /\ ReaderTypes'
  <2>1. UNCHANGED <<loopVars, cancelled, netVars, eventVars>>
    BY <1>12 DEF ReaderStep, Read, ReadFails, Refuse, Apply
  <2>2. CASE Read(c)
    <3>1. Head(inbox[c]) \in Messages /\ Tail(inbox[c]) \in Seq(Messages)
      BY <1>0, <2>2, HeadTailProperties DEF Read, ReaderTypes
    <3> QED
      BY <1>0, <1>e, <1>l, <2>1, <2>2, <3>1 DEF Read, ReaderTypes
  <2>3. CASE ReadFails(c) \/ Refuse(c)
    <3>1. readErrors' \in [Conns -> 0..1]
      <4>1. readErrors[c] = 0 /\ readErrors' = [readErrors EXCEPT ![c] = readErrors[c] + 1]
        BY <2>3, Zenon DEF ReadFails, Refuse, Report, CanReport
      <4>2. readErrors[c] + 1 \in 0..1
        BY <4>1
      <4> QED
        BY <1>0, <4>1, <4>2 DEF ReaderTypes
    <3>2. /\ reader' \in [Conns -> {"none", "reading", "holding", "done"}]
          /\ UNCHANGED <<inbox, store, snapshots>>
      BY <1>0, <2>3 DEF ReadFails, Refuse, Report, ReaderTypes
    <3>3. held' \in [Conns -> Messages]
      BY <1>0, <2>3, MessageTypes DEF ReadFails, Refuse, ReaderTypes
    <3> QED
      BY <1>0, <1>e, <1>l, <2>1, <3>1, <3>2, <3>3 DEF ReaderTypes
  <2>4. CASE Apply(c)
    <3>1. held[c].version \in 0..MaxSnapshots
      BY <1>0, MessageTypes DEF ReaderTypes
    <3>2. held' \in [Conns -> Messages]
      BY <1>0, <2>4, MessageTypes DEF Apply, ReaderTypes
    <3> QED
      BY <1>0, <1>e, <1>l, <2>1, <2>4, <3>1, <3>2 DEF Apply, ReaderTypes
  <2> QED
    BY <1>12, <2>2, <2>3, <2>4 DEF ReaderStep
<1>13. ASSUME NEW m \in {Foreign, Invalid, Other}, SendUnexpected(m)
       PROVE  LoopTypes' /\ EventTypes' /\ ReaderTypes'
  <2>1. m \in Messages
    BY MessageTypes
  <2>2. conn \in Conns
    BY <1>0, <1>13 DEF SendUnexpected, Attached, LoopTypes, Conns
  <2>3. inbox' \in [Conns -> Seq(Messages)]
    <3>1. Append(inbox[conn], m) \in Seq(Messages)
      BY <1>0, <2>1, <2>2, AppendProperties DEF ReaderTypes
    <3> QED
      BY <1>0, <1>13, <2>2, <3>1 DEF SendUnexpected, ReaderTypes
  <2> QED
    BY <1>0, <1>13, <1>e, <1>l, <2>3 DEF SendUnexpected, ReaderTypes
<1>14. CASE SendSnapshot
  <2>1. snapshots + 1 \in 0..MaxSnapshots
    BY <1>0, <1>14, BoundAssumption DEF SendSnapshot, ReaderTypes
  <2>2. conn \in Conns
    BY <1>0, <1>14 DEF SendSnapshot, Attached, LoopTypes, Conns
  <2>3. inbox' \in [Conns -> Seq(Messages)]
    <3>1. Append(inbox[conn], Snapshot(snapshots + 1)) \in Seq(Messages)
      BY <1>0, <2>1, <2>2, MessageTypes, AppendProperties DEF ReaderTypes
    <3> QED
      BY <1>0, <1>14, <2>2, <3>1 DEF SendSnapshot, ReaderTypes
  <2> QED
    BY <1>0, <1>14, <1>e, <1>l, <2>1, <2>3 DEF SendSnapshot, ReaderTypes
<1>15. CASE Break
  <2>1. conn \in Conns
    BY <1>0, <1>15 DEF Break, Attached, LoopTypes, Conns
  <2>2. LoopTypes'
    BY <1>0, <1>15, <2>1 DEF Break, LoopTypes
  <2> QED
    BY <1>15, <1>e, <1>r, <2>2 DEF Break
<1> QED
  BY <1>1, <1>2, <1>3, <1>4, <1>6, <1>7, <1>8, <1>9, <1>10, <1>11, <1>12, <1>13, <1>14, <1>15
     DEF Next, RunStep, SelectStep, WriteStep

----------------------------------------------------------------------------
(* The order of the events.                                                *)

\* The number of events that have left the queue and the write.
LEMMA Lengths ==
    ASSUME TypeOK
    PROVE  /\ Len(sent) \in Nat /\ Len(queue) \in Nat /\ Len(accepted) \in Nat
           /\ inflight \in Events => Settled = Len(accepted) - Len(queue) - 1
           /\ inflight \notin Events => Settled = Len(accepted) - Len(queue)
<1>1. Len(sent) \in Nat /\ Len(queue) \in Nat /\ Len(accepted) \in Nat
  BY LenProperties DEF TypeOK
<1>2. CASE inflight \in Events
  <2>1. Len(Writing) = 1
    BY <1>2, WritingLength
  <2> QED
    BY <1>1, <1>2, <2>1 DEF Settled
<1>3. CASE inflight \notin Events
  <2>1. Len(Writing) = 0
    BY <1>3, WritingLength
  <2> QED
    BY <1>1, <1>3, <2>1 DEF Settled
<1> QED
  BY <1>2, <1>3

\* A step that touches no event keeps their order.
LEMMA OrderIdle ==
    ASSUME TypeOK, TypeOK', EventOrder, UNCHANGED <<queue, accepted, sent, lost>>,
           inflight' = inflight \/ (inflight \notin Events /\ inflight' \notin Events)
    PROVE  EventOrder'
<1>1. Settled' = Settled
  <2>1. Writing' = Writing
    BY DEF Writing
  <2> QED
    BY <2>1 DEF Settled
<1>2. QueueIsSuffix'
  BY <1>1 DEF EventOrder, QueueIsSuffix
<1>3. AcceptedOnce' /\ SentOrLost' /\ SentInOrder'
  BY <1>1 DEF EventOrder, AcceptedOnce, SentOrLost, SentInOrder
<1> QED
  BY <1>2, <1>3 DEF EventOrder

\* Enqueue puts a new event at the end of both sequences.
LEMMA OrderEnqueue ==
    ASSUME TypeOK, TypeOK', EventOrder, NEW e \in Events, e \notin ToSet(accepted),
           queue' = Append(queue, e), accepted' = Append(accepted, e),
           UNCHANGED <<sent, lost, inflight>>
    PROVE  EventOrder'
<1> DEFINE L == Len(accepted)
           Q == Len(queue)
           S == Len(sent)
<1>0. accepted \in Seq(Events) /\ queue \in Seq(Events)
  BY DEF TypeOK
<1>1. /\ Len(accepted') = L + 1 /\ Len(queue') = Q + 1 /\ L \in Nat /\ Q \in Nat /\ S \in Nat
      /\ Len(sent') = S
      /\ \A i \in 1..L : accepted'[i] = accepted[i]
      /\ accepted'[L + 1] = e
      /\ \A i \in 1..Q : queue'[i] = queue[i]
      /\ queue'[Q + 1] = e
  BY <1>0, AppendProperties, Lengths
<1>2. Writing' = Writing
  BY DEF Writing
<1>3. Settled' = Settled /\ Settled \in Nat /\ Settled <= L - Q /\ (inflight \in Events => Settled + 1 <= L - Q)
  <2>1. Len(Writing) \in Nat /\ Settled = L - Q - Len(Writing) /\ Settled' = (L + 1) - (Q + 1) - Len(Writing)
    BY <1>1, <1>2, WritingLength DEF Settled
  <2>2. Settled \in Nat
    BY DEF EventOrder, QueueIsSuffix
  <2> QED
    BY <1>1, <2>1, <2>2, Lengths
<1>4. \A m \in 1..L : accepted[m] # e
  BY <1>0, <1>1 DEF ToSet
<1>5. /\ \A m, n \in 1..L : accepted[m] = accepted[n] => m = n
      /\ \A i \in 1..Q : queue[i] = accepted[L - Q + i]
      /\ inflight \in Events => accepted[Settled + 1] = inflight
      /\ \A i \in 1..S : sent[i] \notin lost /\ \E m \in 1..Settled : accepted[m] = sent[i]
      /\ \A x \in lost : \E m \in 1..Settled : accepted[m] = x
      /\ \A m \in 1..Settled : accepted[m] \in lost \/ \E i \in 1..S : sent[i] = accepted[m]
      /\ \A i, j \in 1..S, m, n \in 1..L :
             i < j /\ sent[i] = accepted[m] /\ sent[j] = accepted[n] => m < n
  BY DEF EventOrder, AcceptedOnce, QueueIsSuffix, SentOrLost, SentInOrder
<1> HIDE DEF L, Q, S
<1>6. /\ \A m \in 1..Settled : m \in 1..L /\ accepted'[m] = accepted[m]
      /\ \A m \in 1..(L + 1) : m = L + 1 \/ m \in 1..L
      /\ L + 1 \notin 1..L
  BY <1>1, <1>3
<1>7. AcceptedOnce'
  BY <1>1, <1>4, <1>5, <1>6 DEF AcceptedOnce
<1>8. QueueIsSuffix'
  <2>1. ASSUME NEW i \in 1..(Q + 1) PROVE queue'[i] = accepted'[(L + 1) - (Q + 1) + i]
    <3>1. CASE i \in 1..Q
      <4>1. (L + 1) - (Q + 1) + i = L - Q + i /\ L - Q + i \in 1..L
        <5>1. L \in Nat /\ Q \in Nat /\ L - Q >= 0
          BY <1>1, <1>3
        <5> QED
          BY <3>1, <5>1
      <4> QED
        BY <1>1, <1>5, <3>1, <4>1
    <3>2. CASE i = Q + 1
      <4>1. (L + 1) - (Q + 1) + i = L + 1
        BY <1>1, <3>2
      <4> QED
        BY <1>1, <3>2, <4>1
    <3>3. i \in 1..Q \/ i = Q + 1
      <4>1. Q \in Nat
        BY <1>1
      <4> QED
        BY <4>1
    <3> QED
      BY <3>1, <3>2, <3>3
  <2>2. ASSUME inflight \in Events PROVE accepted'[Settled + 1] = inflight
    <3>1. Settled + 1 \in 1..L
      BY <1>1, <1>3, <2>2
    <3> QED
      BY <1>1, <1>5, <2>2, <3>1
  <2> QED
    BY <1>1, <1>3, <2>1, <2>2 DEF QueueIsSuffix
<1>9. SentOrLost'
  <2>0. 1..Settled' = 1..Settled /\ 1..Len(sent') = 1..S /\ sent' = sent /\ lost' = lost
    BY <1>1, <1>3
  <2>1. ASSUME NEW i \in 1..Len(sent')
        PROVE  sent'[i] \notin lost' /\ \E m \in 1..Settled' : accepted'[m] = sent'[i]
    <3>1. i \in 1..S /\ sent'[i] = sent[i]
      BY <2>0
    <3>2. PICK m \in 1..Settled : accepted[m] = sent[i]
      BY <1>5, <3>1
    <3>3. m \in 1..Settled' /\ accepted'[m] = sent'[i]
      BY <1>6, <2>0, <3>1, <3>2
    <3> QED
      BY <1>5, <2>0, <3>1, <3>3
  <2>2. ASSUME NEW x \in lost' PROVE \E m \in 1..Settled' : accepted'[m] = x
    <3>1. PICK m \in 1..Settled : accepted[m] = x
      BY <1>5, <2>0
    <3>2. m \in 1..Settled' /\ accepted'[m] = x
      BY <1>6, <2>0, <3>1
    <3> QED
      BY <3>2
  <2>3. ASSUME NEW m \in 1..Settled'
        PROVE  accepted'[m] \in lost' \/ \E i \in 1..Len(sent') : sent'[i] = accepted'[m]
    <3>1. m \in 1..Settled /\ accepted'[m] = accepted[m]
      BY <1>6, <2>0
    <3>2. CASE accepted[m] \in lost
      BY <2>0, <3>1, <3>2
    <3>3. CASE accepted[m] \notin lost
      <4>1. PICK i \in 1..S : sent[i] = accepted[m]
        BY <1>5, <3>1, <3>3
      <4>2. i \in 1..Len(sent') /\ sent'[i] = accepted'[m]
        BY <2>0, <3>1, <4>1
      <4> QED
        BY <4>2
    <3> QED
      BY <3>2, <3>3
  <2> QED
    BY <2>1, <2>2, <2>3, Zenon DEF SentOrLost
<1>10. SentInOrder'
  <2>1. ASSUME NEW i \in 1..S, NEW m \in 1..(L + 1), sent[i] = accepted'[m]
        PROVE  m \in 1..L /\ accepted'[m] = accepted[m]
    <3>1. PICK k \in 1..Settled : accepted[k] = sent[i]
      BY <1>5
    <3>2. m # L + 1
      <4>1. sent[i] # e
        BY <1>4, <1>6, <3>1
      <4> QED
        BY <1>1, <2>1, <4>1
    <3> QED
      BY <1>1, <1>6, <3>2
  <2>0. Len(accepted') = L + 1 /\ Len(sent') = S /\ sent' = sent
    BY <1>1
  <2>2. SUFFICES ASSUME NEW i \in 1..Len(sent'), NEW j \in 1..Len(sent'),
                        NEW m \in 1..Len(accepted'), NEW n \in 1..Len(accepted'),
                        i < j, sent'[i] = accepted'[m], sent'[j] = accepted'[n]
                 PROVE  m < n
    BY DEF SentInOrder
  <2>4. /\ i \in 1..S /\ j \in 1..S /\ m \in 1..(L + 1) /\ n \in 1..(L + 1)
        /\ sent[i] = accepted'[m] /\ sent[j] = accepted'[n]
    BY <2>0, <2>2
  <2>3. /\ m \in 1..L /\ accepted'[m] = accepted[m]
        /\ n \in 1..L /\ accepted'[n] = accepted[n]
    BY <2>1, <2>4
  <2> QED
    BY <1>5, <2>2, <2>3, <2>4
<1> QED
  BY <1>7, <1>8, <1>9, <1>10 DEF EventOrder

\* The select loop takes the first event of the queue.
LEMMA OrderTake ==
    ASSUME TypeOK, TypeOK', EventOrder, inflight \notin Events, queue # << >>,
           inflight' = Head(queue), queue' = Tail(queue), UNCHANGED <<accepted, sent, lost>>
    PROVE  EventOrder'
<1> DEFINE L == Len(accepted)
           Q == Len(queue)
<1>1. /\ Q \in Nat \ {0} /\ L \in Nat /\ Len(queue') = Q - 1 /\ inflight' \in Events
      /\ inflight' = queue[1] /\ \A i \in 1..(Q - 1) : queue'[i] = queue[i + 1]
  BY HeadTailProperties, EmptySeq, Lengths DEF TypeOK
<1>2. /\ Settled = L - Q /\ Settled \in Nat /\ Settled' = Settled
  <2>1. Settled = L - Q /\ Settled \in Nat
    BY Lengths DEF EventOrder, QueueIsSuffix
  <2>2. Len(Writing') = 1
    BY <1>1 DEF Writing
  <2> QED
    BY <1>1, <2>1, <2>2 DEF Settled
<1>3. \A i \in 1..Q : queue[i] = accepted[L - Q + i]
  BY DEF EventOrder, QueueIsSuffix
<1> HIDE DEF L, Q
<1>4. accepted[Settled + 1] = inflight'
  <2>1. 1 \in 1..Q /\ L - Q + 1 = Settled + 1
    BY <1>1, <1>2
  <2> QED
    BY <1>1, <1>3, <2>1
<1>5. ASSUME NEW i \in 1..(Q - 1) PROVE queue'[i] = accepted[L - (Q - 1) + i]
  <2>1. i + 1 \in 1..Q /\ L - Q + (i + 1) = L - (Q - 1) + i
    BY <1>1
  <2> QED
    BY <1>1, <1>3, <2>1
<1>6. QueueIsSuffix'
  BY <1>1, <1>2, <1>4, <1>5 DEF QueueIsSuffix, L
<1>7. AcceptedOnce' /\ SentOrLost' /\ SentInOrder'
  BY <1>2 DEF EventOrder, AcceptedOnce, SentOrLost, SentInOrder
<1> QED
  BY <1>6, <1>7 DEF EventOrder

\* What both outcomes of writing an event have in common: the event is the
\* next of the accepted ones and was neither sent nor lost before.
LEMMA WrittenIsNext ==
    ASSUME TypeOK, TypeOK', EventOrder, inflight \in Events, inflight' \notin Events,
           UNCHANGED <<queue, accepted>>
    PROVE  /\ Settled' = Settled + 1 /\ Settled \in Nat /\ Settled + 1 \in 1..Len(accepted)
           /\ accepted[Settled + 1] = inflight
           /\ inflight \notin lost
           /\ \A i \in 1..Len(sent) : sent[i] # inflight
           /\ AcceptedOnce' /\ QueueIsSuffix'
<1>1. /\ Len(queue) \in Nat /\ Len(accepted) \in Nat /\ Settled = Len(accepted) - Len(queue) - 1
      /\ Settled \in Nat /\ accepted[Settled + 1] = inflight
  BY Lengths DEF EventOrder, QueueIsSuffix
<1>2. Settled' = Settled + 1
  <2>1. Len(Writing') = 0
    BY EmptySeq DEF Writing
  <2> QED
    BY <1>1, <2>1 DEF Settled
<1>3. Settled + 1 \in 1..Len(accepted)
  BY <1>1
<1>4. \A m \in 1..Settled : accepted[m] # inflight
  <2>1. \A m \in 1..Settled : m \in 1..Len(accepted) /\ m # Settled + 1
    BY <1>1
  <2> QED
    BY <1>1, <1>3, <2>1 DEF EventOrder, AcceptedOnce
<1>5. inflight \notin lost /\ \A i \in 1..Len(sent) : sent[i] # inflight
  BY <1>4 DEF EventOrder, SentOrLost
<1>6. AcceptedOnce' /\ QueueIsSuffix'
  BY <1>1, <1>2 DEF EventOrder, AcceptedOnce, QueueIsSuffix
<1> QED
  BY <1>1, <1>2, <1>3, <1>5, <1>6

\* WriteJSON succeeds with an event.
LEMMA OrderSent ==
    ASSUME TypeOK, TypeOK', EventOrder, inflight \in Events, inflight' \notin Events,
           UNCHANGED <<queue, accepted, lost>>, sent' = Append(sent, inflight)
    PROVE  EventOrder'
<1> DEFINE L == Len(accepted)
           S == Len(sent)
<1>1. /\ Settled' = Settled + 1 /\ Settled \in Nat /\ Settled + 1 \in 1..L
      /\ accepted[Settled + 1] = inflight
      /\ inflight \notin lost
      /\ \A i \in 1..S : sent[i] # inflight
      /\ AcceptedOnce' /\ QueueIsSuffix'
  BY WrittenIsNext
<1>2. /\ Len(sent') = S + 1 /\ S \in Nat /\ L \in Nat
      /\ \A i \in 1..S : sent'[i] = sent[i]
      /\ sent'[S + 1] = inflight
  BY AppendProperties, Lengths DEF TypeOK
<1>3. /\ \A m, n \in 1..L : accepted[m] = accepted[n] => m = n
      /\ \A i \in 1..S : sent[i] \notin lost /\ \E m \in 1..Settled : accepted[m] = sent[i]
      /\ \A x \in lost : \E m \in 1..Settled : accepted[m] = x
      /\ \A m \in 1..Settled : accepted[m] \in lost \/ \E i \in 1..S : sent[i] = accepted[m]
      /\ \A i, j \in 1..S, m, n \in 1..L :
             i < j /\ sent[i] = accepted[m] /\ sent[j] = accepted[n] => m < n
  BY DEF EventOrder, AcceptedOnce, SentOrLost, SentInOrder
<1> HIDE DEF L, S
<1>4. /\ \A i \in 1..(S + 1) : i = S + 1 \/ i \in 1..S
      /\ \A i \in 1..S : i \in 1..(S + 1) /\ i < S + 1
      /\ S + 1 \in 1..(S + 1)
      /\ \A m \in 1..Settled : m \in 1..(Settled + 1) /\ m \in 1..L /\ m < Settled + 1
      /\ \A m \in 1..(Settled + 1) : m = Settled + 1 \/ m \in 1..Settled
      /\ Settled + 1 \in 1..(Settled + 1)
  BY <1>1, <1>2
<1>5. SentOrLost'
  <2>1. ASSUME NEW i \in 1..(S + 1)
        PROVE  sent'[i] \notin lost /\ \E m \in 1..(Settled + 1) : accepted[m] = sent'[i]
    BY <1>1, <1>2, <1>3, <1>4
  <2>2. \A x \in lost : \E m \in 1..(Settled + 1) : accepted[m] = x
    BY <1>3, <1>4
  <2>3. ASSUME NEW m \in 1..(Settled + 1)
        PROVE  accepted[m] \in lost \/ \E i \in 1..(S + 1) : sent'[i] = accepted[m]
    <3>1. CASE m = Settled + 1
      BY <1>1, <1>2, <1>4, <3>1
    <3>2. CASE m \in 1..Settled
      BY <1>2, <1>3, <1>4, <3>2
    <3> QED
      BY <1>4, <3>1, <3>2
  <2> QED
    BY <1>1, <1>2, <2>1, <2>2, <2>3 DEF SentOrLost
<1>6. SentInOrder'
  <2>1. SUFFICES ASSUME NEW i \in 1..(S + 1), NEW j \in 1..(S + 1), NEW m \in 1..L, NEW n \in 1..L,
                        i < j, sent'[i] = accepted[m], sent'[j] = accepted[n]
                 PROVE  m < n
    BY <1>2 DEF SentInOrder, L
  <2>2. i \in 1..S
    BY <1>2, <2>1
  <2>3. CASE j \in 1..S
    BY <1>2, <1>3, <2>1, <2>2, <2>3
  <2>4. CASE j = S + 1
    <3>1. n = Settled + 1
      BY <1>1, <1>2, <1>3, <2>1, <2>4
    <3>2. PICK k \in 1..Settled : accepted[k] = sent[i]
      BY <1>3, <2>2
    <3>3. m = k
      BY <1>2, <1>3, <1>4, <2>1, <2>2, <3>2
    <3> QED
      BY <1>4, <3>1, <3>2, <3>3
  <2> QED
    BY <1>4, <2>3, <2>4
<1> QED
  BY <1>1, <1>5, <1>6 DEF EventOrder

\* WriteJSON fails with an event.
LEMMA OrderLost ==
    ASSUME TypeOK, TypeOK', EventOrder, inflight \in Events, inflight' \notin Events,
           UNCHANGED <<queue, accepted, sent>>, lost' = lost \cup {inflight}
    PROVE  EventOrder'
<1>1. /\ Settled' = Settled + 1 /\ Settled \in Nat
      /\ accepted[Settled + 1] = inflight
      /\ \A i \in 1..Len(sent) : sent[i] # inflight
      /\ AcceptedOnce' /\ QueueIsSuffix'
  BY WrittenIsNext
<1>2. /\ \A m \in 1..Settled : m \in 1..(Settled + 1)
      /\ \A m \in 1..(Settled + 1) : m = Settled + 1 \/ m \in 1..Settled
      /\ Settled + 1 \in 1..(Settled + 1)
  BY <1>1
<1>3. SentOrLost'
  BY <1>1, <1>2 DEF EventOrder, SentOrLost
<1>4. SentInOrder'
  BY DEF EventOrder, SentInOrder
<1> QED
  BY <1>1, <1>3, <1>4 DEF EventOrder

----------------------------------------------------------------------------
(* Every step keeps the inductive invariant.                               *)

\* Writing starts with a message in hand and ends without one.
LEMMA NextInflight == IInv /\ [Next]_vars => InflightWhileWriting'
<1> SUFFICES ASSUME IInv, [Next]_vars PROVE InflightWhileWriting'
  OBVIOUS
<1>0. InflightWhileWriting /\ (TypeOK /\ MessagesOK)'
  BY NextTypes DEF IInv
<1>1. inflight' \in Events \cup {NoEvent, Ping}
  BY <1>0 DEF TypeOK
<1> USE DEF vars, loopVars, readerVars, netVars, eventVars
<1>2. ASSUME UNCHANGED <<pc, inflight>> PROVE InflightWhileWriting'
  BY <1>0, <1>2 DEF InflightWhileWriting
<1>3. ASSUME pc # "writing", pc' # "writing", UNCHANGED inflight PROVE InflightWhileWriting'
  BY <1>0, <1>1, <1>3 DEF InflightWhileWriting
<1>4. ASSUME ServeReturns PROVE InflightWhileWriting'
  BY <1>1, <1>4 DEF ServeReturns, InflightWhileWriting
<1>5. CASE RunStep
  <2>1. pc # "writing" /\ pc' # "writing" /\ UNCHANGED inflight
    <3>1. CASE \/ \E e \in SessionErrors : AcquireFails(e)
               \/ \E status \in {0, 401, 403, 409, 503} : DialFails(status)
      BY <3>1, FailedAttempt
    <3>2. CASE LoopTop \/ AcquireSucceeds \/ DialSucceeds
      BY <3>2 DEF LoopTop, AcquireSucceeds, DialSucceeds
    <3>3. CASE BackoffElapses \/ BackoffCancelled
      BY <3>3 DEF BackoffElapses, BackoffCancelled
    <3> QED
      BY <1>5, <3>1, <3>2, <3>3 DEF RunStep
  <2> QED
    BY <1>3, <2>1
<1>6. CASE ServeCancelled \/ ServeReadError \/ WriteFails
  BY <1>4, <1>6 DEF ServeCancelled, ServeReadError, WriteFails
<1>7. CASE TakeEvent
  <2>1. Head(queue) \in Events
    BY <1>7, HeadTailProperties DEF TakeEvent, IInv, TypeOK
  <2> QED
    BY <1>1, <1>7, <2>1, EventNames DEF TakeEvent, InflightWhileWriting
<1>8. CASE TickPing
  BY <1>1, <1>8 DEF TickPing, InflightWhileWriting, Ping, NoEvent
<1>9. CASE WriteSucceeds
  BY <1>1, <1>9 DEF WriteSucceeds, InflightWhileWriting
<1>10. CASE \/ \E e \in Events, valid \in BOOLEAN : Enqueue(e, valid)
            \/ Cancel \/ SendSnapshot \/ Break \/ Stopped \/ UNCHANGED vars
            \/ \E m \in {Foreign, Invalid, Other} : SendUnexpected(m)
            \/ \E c \in Conns : ReaderStep(c)
  <2>1. UNCHANGED <<pc, inflight>>
    BY <1>10 DEF Enqueue, Cancel, SendSnapshot, Break, Stopped, SendUnexpected, ReaderStep, Read,
       ReadFails, Refuse, Apply
  <2> QED
    BY <1>2, <2>1
<1> QED
  BY <1>5, <1>6, <1>7, <1>8, <1>9, <1>10 DEF Next, SelectStep, WriteStep

\* A connection gets a new number, and only the last one can be closed.
LEMMA NextConn == IInv /\ [Next]_vars => ConnIsOpen'
<1> SUFFICES ASSUME IInv, [Next]_vars PROVE ConnIsOpen'
  OBVIOUS
<1>0. /\ closed \subseteq 1..conn
      /\ pc \in {"serving", "writing"} => conn \in Conns \ closed
      /\ conn \in 0..(MaxFaults + 1)
  BY DEF IInv, ConnIsOpen, TypeOK
<1> USE DEF vars, loopVars, readerVars, netVars, eventVars
<1>1. ASSUME UNCHANGED <<conn, closed>>,
             pc' \in {"serving", "writing"} => pc \in {"serving", "writing"}
      PROVE  ConnIsOpen'
  BY <1>0, <1>1 DEF ConnIsOpen
<1>2. ASSUME pc \in {"serving", "writing"}, ServeReturns, UNCHANGED conn PROVE ConnIsOpen'
  <2>1. conn \in 1..conn
    BY <1>0, <1>2 DEF Conns
  <2>2. pc' \notin {"serving", "writing"} /\ closed' = closed \cup {conn}
    BY <1>2 DEF ServeReturns
  <2> QED
    BY <1>0, <1>2, <2>1, <2>2 DEF ConnIsOpen
<1>3. CASE DialSucceeds
  <2>1. /\ conn' = conn + 1 /\ closed' = closed /\ conn + 1 \in Conns
    BY <1>3 DEF DialSucceeds
  <2>2. conn + 1 \notin 1..conn /\ 1..conn \subseteq 1..(conn + 1)
    BY <1>0
  <2> QED
    BY <1>0, <2>1, <2>2 DEF ConnIsOpen
<1>4. CASE ServeCancelled \/ ServeReadError \/ WriteFails
  BY <1>2, <1>4 DEF ServeCancelled, ServeReadError, WriteFails
<1>5. CASE \/ LoopTop \/ AcquireSucceeds \/ BackoffElapses \/ BackoffCancelled
           \/ \E e \in SessionErrors : AcquireFails(e)
           \/ \E status \in {0, 401, 403, 409, 503} : DialFails(status)
  <2>1. pc' \notin {"serving", "writing"} /\ UNCHANGED <<conn, closed>>
    <3>1. CASE \/ \E e \in SessionErrors : AcquireFails(e)
               \/ \E status \in {0, 401, 403, 409, 503} : DialFails(status)
      BY <3>1, FailedAttempt
    <3>2. CASE \/ LoopTop \/ AcquireSucceeds \/ BackoffElapses \/ BackoffCancelled
      BY <3>2 DEF LoopTop, AcquireSucceeds, BackoffElapses, BackoffCancelled
    <3> QED
      BY <1>5, <3>1, <3>2
  <2> QED
    BY <1>1, <2>1
<1>6. CASE TakeEvent \/ TickPing \/ WriteSucceeds
  BY <1>1, <1>6 DEF TakeEvent, TickPing, WriteSucceeds
<1>7. CASE \/ \E e \in Events, valid \in BOOLEAN : Enqueue(e, valid)
           \/ Cancel \/ SendSnapshot \/ Break \/ Stopped \/ UNCHANGED vars
           \/ \E m \in {Foreign, Invalid, Other} : SendUnexpected(m)
           \/ \E c \in Conns : ReaderStep(c)
  <2>1. UNCHANGED <<pc, conn, closed>>
    BY <1>7 DEF Enqueue, Cancel, SendSnapshot, Break, Stopped, SendUnexpected, ReaderStep, Read,
       ReadFails, Refuse, Apply
  <2> QED
    BY <1>1, <2>1
<1> QED
  BY <1>3, <1>4, <1>5, <1>6, <1>7 DEF Next, RunStep, SelectStep, WriteStep

\* Events stay in order and are neither duplicated nor silently dropped; a
\* lost one costs a connection that was open.
LEMMA NextOrder == IInv /\ [Next]_vars => EventOrder' /\ OneLostPerConn'
<1> SUFFICES ASSUME IInv, [Next]_vars PROVE EventOrder' /\ OneLostPerConn'
  OBVIOUS
<1>0. TypeOK /\ TypeOK' /\ EventOrder /\ InflightWhileWriting /\ ConnIsOpen /\ OneLostPerConn
  BY NextTypes DEF IInv
<1>n. NoEvent \notin Events /\ Ping \notin Events
  BY EventNames
<1> USE DEF vars, loopVars, readerVars, netVars, eventVars
<1>1. ASSUME UNCHANGED <<queue, accepted, sent>>, inflight' = inflight, UNCHANGED <<lost, closed>>
      PROVE  EventOrder' /\ OneLostPerConn'
  <2>1. EventOrder'
    BY <1>0, <1>1, OrderIdle
  <2> QED
    BY <1>0, <1>1, <2>1 DEF OneLostPerConn
\* Closing one more connection leaves room for the lost events.
<1>2. ASSUME closed' = closed \cup {conn}, UNCHANGED lost PROVE OneLostPerConn'
  <2>1. IsFiniteSet(closed') /\ closed \subseteq closed'
    BY <1>0, <1>2, FS_AddElement DEF OneLostPerConn
  <2>2. /\ Cardinality(closed) <= Cardinality(closed')
        /\ Cardinality(closed) \in Nat /\ Cardinality(closed') \in Nat /\ Cardinality(lost) \in Nat
    BY <1>0, <2>1, FS_Subset, FS_CardinalityType DEF OneLostPerConn
  <2> QED
    BY <1>0, <1>2, <2>1, <2>2 DEF OneLostPerConn
<1>3. CASE \/ LoopTop \/ AcquireSucceeds \/ BackoffElapses \/ BackoffCancelled \/ DialSucceeds
           \/ \E e \in SessionErrors : AcquireFails(e)
           \/ \E status \in {0, 401, 403, 409, 503} : DialFails(status)
           \/ Cancel \/ SendSnapshot \/ Break \/ Stopped \/ UNCHANGED vars
           \/ \E m \in {Foreign, Invalid, Other} : SendUnexpected(m)
           \/ \E c \in Conns : ReaderStep(c)
  <2>1. UNCHANGED <<queue, accepted, sent, inflight, lost, closed>>
    <3>1. CASE LoopTop \/ AcquireSucceeds \/ BackoffElapses \/ BackoffCancelled \/ DialSucceeds
      BY <3>1 DEF LoopTop, AcquireSucceeds, BackoffElapses, BackoffCancelled, DialSucceeds
    <3>4. CASE \/ \E e \in SessionErrors : AcquireFails(e)
               \/ \E status \in {0, 401, 403, 409, 503} : DialFails(status)
      BY <3>4, FailedAttempt
    <3>2. CASE \/ Cancel \/ SendSnapshot \/ Break \/ Stopped \/ UNCHANGED vars
               \/ \E m \in {Foreign, Invalid, Other} : SendUnexpected(m)
      BY <3>2 DEF Cancel, SendSnapshot, Break, Stopped, SendUnexpected
    <3>3. CASE \E c \in Conns : ReaderStep(c)
      BY <3>3 DEF ReaderStep, Read, ReadFails, Refuse, Apply
    <3> QED
      BY <1>3, <3>1, <3>2, <3>3, <3>4
  <2> QED
    BY <1>1, <2>1
<1>4. ASSUME NEW e \in Events, NEW valid \in BOOLEAN, Enqueue(e, valid)
      PROVE  EventOrder' /\ OneLostPerConn'
  <2>0. UNCHANGED <<sent, lost, inflight, closed>> /\ e \notin ToSet(accepted)
    BY <1>4 DEF Enqueue
  <2>1. CASE valid /\ Len(queue) < QueueSize
    <3>1. queue' = Append(queue, e) /\ accepted' = Append(accepted, e)
      BY <1>4, <2>1 DEF Enqueue
    <3>2. EventOrder'
      BY <1>0, <2>0, <3>1, OrderEnqueue
    <3> QED
      BY <1>0, <2>0, <3>2 DEF OneLostPerConn
  <2>2. CASE ~(valid /\ Len(queue) < QueueSize)
    <3>1. UNCHANGED <<queue, accepted>>
      BY <1>4, <2>2 DEF Enqueue
    <3> QED
      BY <1>1, <2>0, <3>1
  <2> QED
    BY <2>1, <2>2
<1>5. ASSUME pc = "serving" PROVE inflight \notin Events
  BY <1>0, <1>5, <1>n DEF InflightWhileWriting
<1>6. CASE ServeCancelled \/ ServeReadError
  <2>1. /\ pc = "serving" /\ inflight' = NoEvent /\ closed' = closed \cup {conn}
        /\ UNCHANGED <<queue, accepted, sent, lost>>
    BY <1>6 DEF ServeCancelled, ServeReadError, ServeReturns
  <2>2. EventOrder'
    BY <1>0, <1>5, <1>n, <2>1, OrderIdle
  <2> QED
    BY <1>2, <2>1, <2>2
<1>7. CASE TakeEvent
  <2>1. /\ pc = "serving" /\ queue # << >> /\ inflight' = Head(queue) /\ queue' = Tail(queue)
        /\ UNCHANGED <<accepted, sent, lost, closed>>
    BY <1>7 DEF TakeEvent
  <2>2. EventOrder'
    BY <1>0, <1>5, <2>1, OrderTake
  <2> QED
    BY <1>0, <2>1, <2>2 DEF OneLostPerConn
<1>8. CASE TickPing
  <2>1. /\ pc = "serving" /\ inflight' = Ping
        /\ UNCHANGED <<queue, accepted, sent, lost, closed>>
    BY <1>8 DEF TickPing
  <2>2. EventOrder'
    BY <1>0, <1>5, <1>n, <2>1, OrderIdle
  <2> QED
    BY <1>0, <2>1, <2>2 DEF OneLostPerConn
<1>9. ASSUME pc = "writing", inflight # Ping PROVE inflight \in Events
  BY <1>0, <1>9 DEF InflightWhileWriting
<1>10. CASE WriteSucceeds
  <2>1. /\ pc = "writing" /\ inflight' = NoEvent
        /\ UNCHANGED <<queue, accepted, lost, closed>>
    BY <1>10 DEF WriteSucceeds
  <2>2. EventOrder'
    <3>1. CASE inflight = Ping
      <4>1. sent' = sent
        BY <1>10, <3>1 DEF WriteSucceeds
      <4> QED
        BY <1>0, <1>n, <2>1, <3>1, <4>1, OrderIdle
    <3>2. CASE inflight # Ping
      <4>1. sent' = Append(sent, inflight)
        BY <1>10, <3>2 DEF WriteSucceeds
      <4> QED
        BY <1>0, <1>9, <1>n, <2>1, <3>2, <4>1, OrderSent
    <3> QED
      BY <3>1, <3>2
  <2> QED
    BY <1>0, <2>1, <2>2 DEF OneLostPerConn
<1>11. CASE WriteFails
  <2>1. /\ pc = "writing" /\ inflight' = NoEvent /\ closed' = closed \cup {conn}
        /\ UNCHANGED <<queue, accepted, sent>>
    BY <1>11 DEF WriteFails, ServeReturns
  <2>2. CASE inflight = Ping
    <3>1. lost' = lost
      BY <1>11, <2>2 DEF WriteFails
    <3>2. EventOrder'
      BY <1>0, <1>n, <2>1, <2>2, <3>1, OrderIdle
    <3> QED
      BY <1>2, <2>1, <3>1, <3>2
  <2>3. CASE inflight # Ping
    <3>1. lost' = lost \cup {inflight}
      BY <1>11, <2>3 DEF WriteFails
    <3>2. EventOrder'
      BY <1>0, <1>9, <1>n, <2>1, <2>3, <3>1, OrderLost
    <3>3. conn \notin closed
      BY <1>0, <2>1 DEF ConnIsOpen
    <3>4. inflight \notin lost
      BY <1>0, <1>9, <1>n, <2>1, <2>3, WrittenIsNext
    <3>5. /\ IsFiniteSet(lost') /\ Cardinality(lost') = Cardinality(lost) + 1
      BY <1>0, <3>1, <3>4, FS_AddElement DEF OneLostPerConn
    <3>6. /\ IsFiniteSet(closed') /\ Cardinality(closed') = Cardinality(closed) + 1
      BY <1>0, <2>1, <3>3, FS_AddElement DEF OneLostPerConn
    <3>7. Cardinality(closed) \in Nat /\ Cardinality(lost) \in Nat
      BY <1>0, FS_CardinalityType DEF OneLostPerConn
    <3>8. OneLostPerConn'
      BY <1>0, <3>5, <3>6, <3>7 DEF OneLostPerConn
    <3> QED
      BY <3>2, <3>8
  <2> QED
    BY <2>2, <2>3
<1> QED
  BY <1>3, <1>4, <1>6, <1>7, <1>8, <1>10, <1>11 DEF Next, RunStep, SelectStep, WriteStep

----------------------------------------------------------------------------
(* The theorems.                                                           *)

\* The inductive invariant holds in every reachable state: the queue is the
\* tail of what Enqueue accepted, the event in WriteJSON is the one before it,
\* and every earlier one was either written once, in order, or lost with a
\* connection of its own (Uploader.Enqueue, Run and serveConnection).
THEOREM UploaderInvariant == Spec => []IInv
<1>1. Init => IInv
  BY InitIInv
<1>2. IInv /\ [Next]_vars => IInv'
  BY NextTypes, NextInflight, NextConn, NextOrder DEF IInv
<1> QED
  BY <1>1, <1>2, PTL DEF Spec

\* What serveConnection wrote, is writing or has still to write is what
\* Enqueue accepted, in that order and without duplicates, minus at most one
\* event for each connection that was closed.
THEOREM UploaderInOrder == Spec => []UploadInOrder
BY UploaderInvariant, ImpliesUploadInOrder, PTL

----------------------------------------------------------------------------
(* The uploader implements EventStream.  Taking an event out of the queue  *)
(* is a stutter: the event has not left the agent yet.                     *)

\* The initial states are initial states of the stream.
LEMMA InitStream == Init => Stream!Init
<1> SUFFICES ASSUME Init PROVE Stream!Init
  OBVIOUS
<1>1. Settled = 0
  <2>1. Len(accepted) = 0 /\ Len(queue) = 0 /\ Len(Writing) = 0
    BY EventNames DEF Init, Writing
  <2> QED
    BY <2>1 DEF Settled
<1>2. Cardinality(closed) = 0
  BY FS_EmptySet DEF Init
<1>3. (pc = "stopped") = FALSE
  BY DEF Init
<1> QED
  BY <1>1, <1>2, <1>3 DEF Init, Stream!Init

\* A step that touches no event and no connection is the end or a stutter.
LEMMA StreamIdle ==
    ASSUME UNCHANGED <<queue, accepted, sent, lost, closed>>,
           inflight' = inflight \/ (inflight \notin Events /\ inflight' \notin Events),
           pc = "stopped" => pc' = "stopped"
    PROVE  [Stream!Next]_(Stream!vars)
<1>1. Settled' = Settled
  <2>1. Writing' = Writing
    BY DEF Writing
  <2> QED
    BY <2>1 DEF Settled
<1>2. CASE pc # "stopped" /\ pc' = "stopped"
  <2>1. Stream!End
    BY <1>1, <1>2 DEF Stream!End
  <2> QED
    BY <2>1 DEF Stream!Next
<1>3. CASE ~(pc # "stopped" /\ pc' = "stopped")
  <2>1. (pc' = "stopped") = (pc = "stopped")
    BY <1>3
  <2> QED
    BY <1>1, <2>1, Zenon DEF Stream!vars
<1> QED
  BY <1>2, <1>3

\* serveConnection returns without an event in hand: a connection is given up.
LEMMA StreamGiveUp ==
    ASSUME IInv, pc \in {"serving", "writing"}, inflight \notin Events, ServeReturns,
           UNCHANGED <<queue, accepted, sent, lost>>
    PROVE  Stream!Next
<1>1. Settled' = Settled
  <2>1. Writing' = Writing
    BY EventNames DEF Writing, ServeReturns
  <2> QED
    BY <2>1 DEF Settled
<1>2. Cardinality(closed') = Cardinality(closed) + 1
  BY FS_AddElement DEF IInv, ConnIsOpen, OneLostPerConn, ServeReturns
<1>3. (pc = "stopped") = FALSE /\ (pc' = "stopped") \in BOOLEAN
  OBVIOUS
<1>4. Stream!GiveUp
  BY <1>1, <1>2, <1>3 DEF Stream!GiveUp
<1> QED
  BY <1>4 DEF Stream!Next

\* Every step is a step of the stream or a stutter.
LEMMA NextStream == IInv /\ IInv' /\ [Next]_vars => [Stream!Next]_(Stream!vars)
<1> SUFFICES ASSUME IInv, IInv', [Next]_vars PROVE [Stream!Next]_(Stream!vars)
  OBVIOUS
<1>0. TypeOK /\ TypeOK' /\ EventOrder /\ InflightWhileWriting /\ ConnIsOpen /\ OneLostPerConn
  BY DEF IInv
<1>n. NoEvent \notin Events /\ Ping \notin Events
  BY EventNames
<1> USE DEF vars, loopVars, readerVars, netVars, eventVars
<1>3. CASE \/ LoopTop \/ AcquireSucceeds \/ BackoffElapses \/ BackoffCancelled \/ DialSucceeds
           \/ \E e \in SessionErrors : AcquireFails(e)
           \/ \E status \in {0, 401, 403, 409, 503} : DialFails(status)
           \/ Cancel \/ SendSnapshot \/ Break \/ Stopped \/ UNCHANGED vars
           \/ \E m \in {Foreign, Invalid, Other} : SendUnexpected(m)
           \/ \E c \in Conns : ReaderStep(c)
  <2>1. /\ UNCHANGED <<queue, accepted, sent, inflight, lost, closed>>
        /\ pc = "stopped" => pc' = "stopped"
    <3>1. CASE LoopTop \/ AcquireSucceeds \/ BackoffElapses \/ BackoffCancelled \/ DialSucceeds
      BY <3>1 DEF LoopTop, AcquireSucceeds, BackoffElapses, BackoffCancelled, DialSucceeds
    <3>2. ASSUME NEW e, AcquireFails(e)
          PROVE  UNCHANGED <<queue, accepted, sent, inflight, lost, closed>> /\ pc # "stopped"
      BY <3>2 DEF AcquireFails
    <3>3. ASSUME NEW status, DialFails(status)
          PROVE  UNCHANGED <<queue, accepted, sent, inflight, lost, closed>> /\ pc # "stopped"
      BY <3>3 DEF DialFails
    <3>4. CASE \/ Cancel \/ SendSnapshot \/ Break \/ Stopped \/ UNCHANGED vars
               \/ \E m \in {Foreign, Invalid, Other} : SendUnexpected(m)
      BY <3>4 DEF Cancel, SendSnapshot, Break, Stopped, SendUnexpected
    <3>5. CASE \E c \in Conns : ReaderStep(c)
      BY <3>5 DEF ReaderStep, Read, ReadFails, Refuse, Apply
    <3> QED
      BY <1>3, <3>1, <3>2, <3>3, <3>4, <3>5
  <2> QED
    BY <2>1, StreamIdle
<1>4. ASSUME NEW e \in Events, NEW valid \in BOOLEAN, Enqueue(e, valid)
      PROVE  [Stream!Next]_(Stream!vars)
  <2>0. UNCHANGED <<sent, lost, inflight, closed, pc>> /\ e \notin ToSet(accepted)
    BY <1>4 DEF Enqueue
  <2>1. CASE valid /\ Len(queue) < QueueSize
    <3>1. queue' = Append(queue, e) /\ accepted' = Append(accepted, e)
      BY <1>4, <2>1 DEF Enqueue
    <3>2. /\ Len(queue') = Len(queue) + 1 /\ Len(accepted') = Len(accepted) + 1
          /\ Len(queue) \in Nat /\ Len(accepted) \in Nat
      BY <1>0, <3>1, AppendProperties, Lengths DEF TypeOK
    <3>3. Len(Writing) \in 0..1 /\ Len(Writing') = Len(Writing)
      BY <2>0, WritingLength DEF Writing
    <3>4. Settled' = Settled
      BY <3>2, <3>3 DEF Settled
    <3>5. Len(accepted) - Settled <= QueueSize
      <4>1. Len(queue) < QueueSize /\ Len(Writing) \in 0..1
        BY <2>1, <3>3
      <4>2. Len(accepted) - Settled = Len(queue) + Len(Writing)
        BY <3>2, <4>1 DEF Settled
      <4>3. Len(queue) \in Nat /\ QueueSize \in Nat
        BY <3>2, QueueAssumption
      <4>4. ASSUME NEW q \in Nat, NEW w \in 0..1, NEW n \in Nat, q < n PROVE q + w <= n
        BY <4>4
      <4> QED
        BY <4>1, <4>2, <4>3, <4>4
    <3>6. \A i \in 1..Len(accepted) : accepted[i] # e
      BY <1>0, <2>0, Lengths DEF ToSet, TypeOK
    <3>7. (pc' = "stopped") = (pc = "stopped")
      BY <2>0
    <3>8. Stream!Accept(e)
      BY <2>0, <3>1, <3>4, <3>5, <3>6, <3>7 DEF Stream!Accept
    <3> QED
      BY <3>8 DEF Stream!Next
  <2>2. CASE ~(valid /\ Len(queue) < QueueSize)
    <3>1. UNCHANGED <<queue, accepted>>
      BY <1>4, <2>2 DEF Enqueue
    <3> QED
      BY <2>0, <3>1, StreamIdle
  <2> QED
    BY <2>1, <2>2
<1>5. ASSUME pc = "serving" PROVE inflight \notin Events
  BY <1>0, <1>5, <1>n DEF InflightWhileWriting
<1>6. CASE ServeCancelled \/ ServeReadError
  <2>1. pc = "serving" /\ ServeReturns /\ UNCHANGED <<queue, accepted, sent, lost>>
    BY <1>6 DEF ServeCancelled, ServeReadError
  <2> QED
    BY <1>5, <2>1, StreamGiveUp
<1>7. CASE TakeEvent
  <2>1. /\ pc = "serving" /\ queue # << >> /\ inflight' = Head(queue) /\ queue' = Tail(queue)
        /\ pc' = "writing" /\ UNCHANGED <<accepted, sent, lost, closed>>
    BY <1>7 DEF TakeEvent
  <2>2. /\ Len(queue') = Len(queue) - 1 /\ inflight' \in Events /\ inflight \notin Events
        /\ Len(queue) \in Nat /\ Len(accepted) \in Nat
    BY <1>0, <1>5, <2>1, HeadTailProperties, Lengths DEF TypeOK
  <2>3. Len(Writing) = 0 /\ Len(Writing') = 1
    BY <2>2, WritingLength DEF Writing
  <2>4. Settled' = Settled
    BY <2>1, <2>2, <2>3 DEF Settled
  <2>5. (pc' = "stopped") = (pc = "stopped")
    BY <2>1
  <2> QED
    BY <2>1, <2>4, <2>5, Zenon DEF Stream!vars
<1>8. CASE TickPing
  <2>1. /\ pc = "serving" /\ inflight' = Ping
        /\ UNCHANGED <<queue, accepted, sent, lost, closed>>
    BY <1>8 DEF TickPing
  <2> QED
    BY <1>5, <1>n, <2>1, StreamIdle
<1>9. ASSUME pc = "writing", inflight # Ping PROVE inflight \in Events
  BY <1>0, <1>9 DEF InflightWhileWriting
<1>10. CASE WriteSucceeds
  <2>1. /\ pc = "writing" /\ pc' = "serving" /\ inflight' = NoEvent
        /\ UNCHANGED <<queue, accepted, lost, closed>>
    BY <1>10 DEF WriteSucceeds
  <2>2. CASE inflight = Ping
    <3>1. sent' = sent
      BY <1>10, <2>2 DEF WriteSucceeds
    <3> QED
      BY <1>n, <2>1, <2>2, <3>1, StreamIdle
  <2>3. CASE inflight # Ping
    <3>1. sent' = Append(sent, inflight)
      BY <1>10, <2>3 DEF WriteSucceeds
    <3>2. /\ Settled' = Settled + 1 /\ Settled \in Nat /\ Settled + 1 \in 1..Len(accepted)
          /\ accepted[Settled + 1] = inflight
      BY <1>0, <1>9, <1>n, <2>1, <2>3, WrittenIsNext
    <3>3. Settled < Len(accepted)
      BY <1>0, <3>2, Lengths
    <3>4. (pc = "stopped") = FALSE /\ (pc' = "stopped") = (pc = "stopped")
      BY <2>1
    <3>5. Stream!Deliver
      BY <2>1, <3>1, <3>2, <3>3, <3>4 DEF Stream!Deliver, Stream!Oldest
    <3> QED
      BY <3>5 DEF Stream!Next
  <2> QED
    BY <2>2, <2>3
<1>11. CASE WriteFails
  <2>1. /\ pc = "writing" /\ ServeReturns /\ inflight' = NoEvent /\ closed' = closed \cup {conn}
        /\ UNCHANGED <<queue, accepted, sent>>
    BY <1>11 DEF WriteFails, ServeReturns
  <2>2. CASE inflight = Ping
    <3>1. lost' = lost
      BY <1>11, <2>2 DEF WriteFails
    <3> QED
      BY <1>n, <2>1, <2>2, <3>1, StreamGiveUp
  <2>3. CASE inflight # Ping
    <3>1. lost' = lost \cup {inflight}
      BY <1>11, <2>3 DEF WriteFails
    <3>2. /\ Settled' = Settled + 1 /\ Settled \in Nat /\ Settled + 1 \in 1..Len(accepted)
          /\ accepted[Settled + 1] = inflight
      BY <1>0, <1>9, <1>n, <2>1, <2>3, WrittenIsNext
    <3>3. Settled < Len(accepted)
      BY <1>0, <3>2, Lengths
    <3>4. Cardinality(closed') = Cardinality(closed) + 1
      BY <1>0, <2>1, FS_AddElement DEF ConnIsOpen, OneLostPerConn
    <3>5. (pc = "stopped") = FALSE /\ (pc' = "stopped") \in BOOLEAN
      BY <2>1
    <3>6. Stream!Lose
      BY <2>1, <3>1, <3>2, <3>3, <3>4, <3>5 DEF Stream!Lose, Stream!Oldest
    <3> QED
      BY <3>6 DEF Stream!Next
  <2> QED
    BY <2>2, <2>3
<1> QED
  BY <1>3, <1>4, <1>6, <1>7, <1>8, <1>10, <1>11 DEF Next, RunStep, SelectStep, WriteStep

\* Run, serveConnection and Enqueue together implement the contract of the
\* event stream, for any events, any size of the queue and any failures.
THEOREM UploaderImplementsStream == Spec => ImplementsStream
<1>1. Spec => Stream!Spec
  BY InitStream, NextStream, UploaderInvariant, PTL DEF Spec, Stream!Spec
<1> QED
  BY <1>1 DEF ImplementsStream

----------------------------------------------------------------------------
(* The readers, which serveConnection does not wait for.                   *)

\* Every connection made so far has got one reader, and a reader that has
\* not ended has put nothing into its channel.
OneReaderPerConn ==
    \A c \in Conns :
        /\ reader[c] = "none" <=> c > conn
        /\ reader[c] # "done" => readErrors[c] = 0

\* The reader of a closed connection has been started, and when it has not
\* ended yet there is room for its error.
ReadersMayEnd ==
    \A c \in closed : reader[c] # "none" /\ (reader[c] # "done" => CanReport(c))

\* Every step keeps one reader for each connection, with room for its error.
LEMMA NextReaders == IInv /\ OneReaderPerConn /\ [Next]_vars => OneReaderPerConn'
<1> SUFFICES ASSUME IInv, OneReaderPerConn, [Next]_vars PROVE OneReaderPerConn'
  OBVIOUS
<1>0. /\ reader \in [Conns -> {"none", "reading", "holding", "done"}]
      /\ readErrors \in [Conns -> 0..1]
      /\ conn \in 0..(MaxFaults + 1)
      /\ pc \in {"serving", "writing"} => conn \in Conns
  BY DEF IInv, TypeOK, ConnIsOpen
<1> USE DEF vars, loopVars, readerVars, netVars, eventVars
<1>1. ASSUME UNCHANGED <<conn, reader, readErrors>> PROVE OneReaderPerConn'
  BY <1>1 DEF OneReaderPerConn
<1>2. CASE DialSucceeds
  <2>1. /\ conn' = conn + 1 /\ conn + 1 \in Conns /\ readErrors' = readErrors
        /\ reader' = [reader EXCEPT ![conn + 1] = "reading"]
    BY <1>2 DEF DialSucceeds
  <2>2. ASSUME NEW c \in Conns
        PROVE  (reader'[c] = "none" <=> c > conn') /\ (reader'[c] # "done" => readErrors'[c] = 0)
    <3>1. c \in Int /\ conn \in Int /\ (c > conn + 1 <=> c > conn /\ c # conn + 1)
      BY <1>0 DEF Conns
    <3>2. CASE c = conn + 1
      BY <1>0, <2>1, <3>1, <3>2 DEF OneReaderPerConn
    <3>3. CASE c # conn + 1
      BY <1>0, <2>1, <3>1, <3>3 DEF OneReaderPerConn
    <3> QED
      BY <3>2, <3>3
  <2> QED
    BY <2>2 DEF OneReaderPerConn
\* The loop receives the one error that a reader has left.
<1>3. CASE ServeReadError
  <2>1. /\ conn \in Conns /\ readErrors[conn] > 0 /\ UNCHANGED <<conn, reader>>
        /\ readErrors' = [readErrors EXCEPT ![conn] = @ - 1]
    BY <1>0, <1>3 DEF ServeReadError
  <2>2. readErrors[conn] = 1 /\ readErrors'[conn] = 0
    BY <1>0, <2>1
  <2> QED
    BY <1>0, <2>1, <2>2 DEF OneReaderPerConn
<1>4. ASSUME NEW c \in Conns, ReaderStep(c) PROVE OneReaderPerConn'
  <2>1. /\ reader[c] \in {"reading", "holding"} /\ UNCHANGED conn
        /\ \/ reader' = [reader EXCEPT ![c] = "holding"] /\ readErrors' = readErrors
           \/ reader' = [reader EXCEPT ![c] = "reading"] /\ readErrors' = readErrors
           \/ /\ reader' = [reader EXCEPT ![c] = "done"]
              /\ readErrors' = [readErrors EXCEPT ![c] = @ + 1]
    BY <1>4 DEF ReaderStep, Read, ReadFails, Refuse, Apply, Report
  <2> QED
    BY <1>0, <2>1 DEF OneReaderPerConn
<1>5. CASE \/ LoopTop \/ AcquireSucceeds \/ BackoffElapses \/ BackoffCancelled
           \/ \E e \in SessionErrors : AcquireFails(e)
           \/ \E status \in {0, 401, 403, 409, 503} : DialFails(status)
  <2>1. UNCHANGED <<conn, reader, readErrors>>
    BY <1>5 DEF LoopTop, AcquireSucceeds, BackoffElapses, BackoffCancelled, AcquireFails, DialFails
  <2> QED
    BY <1>1, <2>1
<1>6. CASE ServeCancelled \/ TakeEvent \/ TickPing \/ WriteStep
  BY <1>1, <1>6 DEF ServeCancelled, TakeEvent, TickPing, WriteStep, WriteSucceeds, WriteFails
<1>7. CASE \/ \E e \in Events, valid \in BOOLEAN : Enqueue(e, valid)
           \/ Cancel \/ SendSnapshot \/ Break \/ Stopped \/ UNCHANGED vars
           \/ \E m \in {Foreign, Invalid, Other} : SendUnexpected(m)
  <2>1. UNCHANGED <<conn, reader, readErrors>>
    BY <1>7 DEF Enqueue, Cancel, SendSnapshot, Break, Stopped, SendUnexpected
  <2> QED
    BY <1>1, <2>1
<1> QED
  BY <1>2, <1>3, <1>4, <1>5, <1>6, <1>7 DEF Next, RunStep, SelectStep

\* The channel of one error that serveConnection makes is large enough: a
\* reader that outlives its connection never waits for somebody to receive
\* its error, which is what ReadersEnd needs besides fairness.
THEOREM UploaderReadersMayEnd == Spec => []ReadersMayEnd
<1>1. Init => OneReaderPerConn
  BY BoundAssumption DEF Init, OneReaderPerConn, Conns
<1>2. OneReaderPerConn /\ [Next]_vars /\ IInv => OneReaderPerConn'
  BY NextReaders
<1>3. IInv /\ OneReaderPerConn => ReadersMayEnd
  <2> SUFFICES ASSUME IInv, OneReaderPerConn, NEW c \in closed
               PROVE  reader[c] # "none" /\ (reader[c] # "done" => CanReport(c))
    BY DEF ReadersMayEnd
  <2>1. c \in Conns /\ ~(c > conn)
    BY DEF IInv, ConnIsOpen, TypeOK, Conns
  <2> QED
    BY <2>1 DEF OneReaderPerConn, CanReport
<1> QED
  BY <1>1, <1>2, <1>3, UploaderInvariant, PTL DEF Spec
=============================================================================
