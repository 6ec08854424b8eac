----------------------- MODULE TunnelConnectionProofs -----------------------
(***************************************************************************)
(* Proofs about TunnelConnection, for any finite set of requests: the      *)
(* websocket has one writer at a time, no handler outlives serveConnection *)
(* and no request is answered twice.                                       *)
(***************************************************************************)
EXTENDS TunnelConnection, FiniteSetTheorems, TLAPS

----------------------------------------------------------------------------
(* The inductive invariant.                                                *)

\* The mutex is held exactly while somebody writes.
MutexHeldByWriter == mu <=> (reader = "writing" \/ Writers # {})

\* The wait group counts the handlers that have started and not ended.
WaitGroupCounts == requests = Cardinality(Active)

IInv ==
    /\ TypeOK
    /\ MutexHeldByWriter
    /\ ExclusiveWrite
    /\ WaitGroupCounts
    /\ NoHandlerAfterReturn
    /\ AnsweredAtMostOnce

HandlerStates == {"none", "started", "forwarding", "body", "answering", "writing", "done"}

----------------------------------------------------------------------------
(* Facts about the handlers that one step of one handler changes.          *)

\* The handlers the wait group counts are finitely many.
LEMMA ActiveFinite ==
    /\ IsFiniteSet(Active)
    /\ Cardinality(Active) \in Nat
    /\ Cardinality(Active) = 0 <=> Active = {}
<1>1. IsFiniteSet(Active)
  BY RequestsAssumption, FS_Subset DEF Active
<1> QED
  BY <1>1, FS_CardinalityType, FS_EmptySet

\* A handler that starts is counted once more.
LEMMA ActiveGrows ==
    ASSUME TypeOK, NEW r \in Requests, handler[r] = "none",
           handler' = [handler EXCEPT ![r] = "started"]
    PROVE  Cardinality(Active)' = Cardinality(Active) + 1
<1>1. Active' = Active \cup {r} /\ r \notin Active
  BY DEF TypeOK, Active
<1> QED
  BY <1>1, ActiveFinite, FS_AddElement

\* A handler that ends is counted once less.
LEMMA ActiveShrinks ==
    ASSUME TypeOK, NEW r \in Requests, handler[r] = "writing",
           handler' = [handler EXCEPT ![r] = "done"]
    PROVE  Cardinality(Active)' = Cardinality(Active) - 1
<1>1. Active' = Active \ {r} /\ r \in Active
  BY DEF TypeOK, Active
<1> QED
  BY <1>1, ActiveFinite, FS_RemoveElement

\* The steps in between change neither.
LEMMA ActiveStays ==
    ASSUME TypeOK, NEW r \in Requests, r \in Active,
           NEW to \in HandlerStates \ {"none", "done"},
           handler' = [handler EXCEPT ![r] = to]
    PROVE  Active' = Active
BY DEF TypeOK, Active, HandlerStates

----------------------------------------------------------------------------
(* The invariant is inductive.                                             *)

\* The initial states satisfy the inductive invariant.
LEMMA InitIInv == Init => IInv
<1> SUFFICES ASSUME Init PROVE IInv
  OBVIOUS
<1>1. Active = {} /\ Writers = {}
  BY DEF Init, Active, Writers
<1>2. TypeOK
  BY DEF Init, TypeOK
<1>3. MutexHeldByWriter /\ ExclusiveWrite
  BY <1>1 DEF Init, MutexHeldByWriter, ExclusiveWrite
<1>4. WaitGroupCounts
  BY <1>1, FS_EmptySet DEF Init, WaitGroupCounts
<1>5. NoHandlerAfterReturn /\ AnsweredAtMostOnce
  BY DEF Init, NoHandlerAfterReturn, AnsweredAtMostOnce
<1> QED
  BY <1>2, <1>3, <1>4, <1>5 DEF IInv

\* Every step keeps the types.
LEMMA NextTypeOK == TypeOK /\ WaitGroupCounts /\ [Next]_vars => TypeOK'
<1> SUFFICES ASSUME TypeOK, WaitGroupCounts, [Next]_vars PROVE TypeOK'
  OBVIOUS
<1> USE DEF TypeOK, goVars, envVars
<1>1. ASSUME NEW r \in Requests, ReadRequest(r) PROVE TypeOK'
  BY <1>1 DEF ReadRequest
<1>2. CASE ReadPing \/ ReadIgnored
  BY <1>2, PingsAssumption DEF ReadPing, ReadIgnored
<1>3. CASE ReadFails \/ Wait \/ Watch
  BY <1>3 DEF ReadFails, Wait, Return, Watch
<1>4. CASE LockPong \/ WritePong
  BY <1>4 DEF LockPong, WritePong
<1>5. ASSUME NEW r \in Requests, LockAnswer(r) PROVE TypeOK'
  BY <1>5 DEF LockAnswer
<1>6. ASSUME NEW r \in Requests, NEW ok \in BOOLEAN, WriteAnswer(r, ok) PROVE TypeOK'
  <2>1. requests - 1 \in Nat
    <3>1. Active # {}
      BY <1>6 DEF WriteAnswer, Active
    <3> QED
      BY <3>1, ActiveFinite DEF WaitGroupCounts
  <2>2. answered' \in [Requests -> Nat]
    BY <1>6 DEF WriteAnswer
  <2> QED
    BY <1>6, <2>1, <2>2 DEF WriteAnswer
<1>7. ASSUME NEW r \in Requests, HandlerStep(r) PROVE TypeOK'
  BY <1>7 DEF HandlerStep, RejectInvalid, Forward, LocalResponds, LocalUnreachable,
     LocalTimeout, ReadBody, Move, Answer, ErrorCodes
<1>8. CASE ParentCancels \/ Break \/ Stall \/ Resume
  BY <1>8 DEF ParentCancels, Break, Stall, Resume
<1>9. CASE UNCHANGED vars
  BY <1>9 DEF vars
<1> QED
  BY <1>1, <1>2, <1>3, <1>4, <1>5, <1>6, <1>7, <1>8, <1>9 DEF Next, WriteStep, Returned

\* Every step preserves the invariant.
LEMMA NextIInv == IInv /\ [Next]_vars => IInv'
<1> SUFFICES ASSUME IInv, [Next]_vars PROVE IInv'
  OBVIOUS
<1>0. TypeOK /\ TypeOK' /\ WaitGroupCounts
  BY NextTypeOK DEF IInv
<1> USE DEF goVars, envVars
<1>1. ASSUME NEW r \in Requests, ReadRequest(r) PROVE IInv'
  <2>1. WaitGroupCounts'
    BY <1>0, <1>1, ActiveGrows DEF WaitGroupCounts, ReadRequest
  <2>2. Writers' = Writers
    BY <1>0, <1>1 DEF Writers, ReadRequest, TypeOK
  <2>3. MutexHeldByWriter' /\ ExclusiveWrite'
    BY <1>1, <2>2 DEF IInv, MutexHeldByWriter, ExclusiveWrite, ReadRequest
  <2>4. NoHandlerAfterReturn'
    BY <1>1 DEF NoHandlerAfterReturn, ReadRequest
  <2>5. AnsweredAtMostOnce'
    BY <1>0, <1>1 DEF IInv, AnsweredAtMostOnce, ReadRequest, TypeOK
  <2> QED
    BY <1>0, <2>1, <2>3, <2>4, <2>5 DEF IInv
<1>2. ASSUME UNCHANGED <<handler, mu, requests, answered>>,
             reader' # "returned",
             reader # "writing" /\ reader' # "writing"
      PROVE  IInv'
  <2>1. Active' = Active /\ Writers' = Writers
    BY <1>2 DEF Active, Writers
  <2> QED
    BY <1>0, <1>2, <2>1 DEF IInv, MutexHeldByWriter, ExclusiveWrite, WaitGroupCounts,
       NoHandlerAfterReturn, AnsweredAtMostOnce
<1>3. CASE ReadPing \/ ReadFails
  BY <1>2, <1>3 DEF ReadPing, ReadFails
<1>4. CASE Wait
  <2>1. Active = {} /\ Active' = {} /\ Writers = {} /\ Writers' = {}
    BY <1>0, <1>4, ActiveFinite DEF Wait, WaitGroupCounts, Active, Writers
  <2> QED
    BY <1>0, <1>4, <2>1 DEF Wait, Return, IInv, MutexHeldByWriter, ExclusiveWrite,
       WaitGroupCounts, NoHandlerAfterReturn, AnsweredAtMostOnce
<1>5. CASE LockPong
  <2>1. Active' = Active /\ Writers' = Writers /\ Writers = {}
    BY <1>5 DEF LockPong, Active, Writers, IInv, MutexHeldByWriter
  <2> QED
    BY <1>0, <1>5, <2>1 DEF LockPong, IInv, MutexHeldByWriter, ExclusiveWrite,
       WaitGroupCounts, NoHandlerAfterReturn, AnsweredAtMostOnce
<1>6. CASE WritePong
  <2>1. Active' = Active /\ Writers' = Writers /\ Writers = {}
    BY <1>6 DEF WritePong, Active, Writers, IInv, ExclusiveWrite
  <2> QED
    BY <1>0, <1>6, <2>1 DEF WritePong, IInv, MutexHeldByWriter, ExclusiveWrite,
       WaitGroupCounts, NoHandlerAfterReturn, AnsweredAtMostOnce
<1>7. ASSUME NEW r \in Requests, LockAnswer(r) PROVE IInv'
  <2>1. Active' = Active
    BY <1>0, <1>7, ActiveStays DEF LockAnswer, Active, HandlerStates
  <2>2. Writers = {} /\ Writers' = {r} /\ reader # "writing"
    BY <1>0, <1>7 DEF LockAnswer, IInv, MutexHeldByWriter, Writers, TypeOK
  <2>3. MutexHeldByWriter' /\ ExclusiveWrite'
    BY <1>7, <2>2 DEF LockAnswer, MutexHeldByWriter, ExclusiveWrite
  <2>4. WaitGroupCounts' /\ NoHandlerAfterReturn'
    BY <1>7, <2>1 DEF LockAnswer, IInv, WaitGroupCounts, NoHandlerAfterReturn, Active
  <2>5. AnsweredAtMostOnce'
    BY <1>0, <1>7 DEF LockAnswer, IInv, AnsweredAtMostOnce, TypeOK
  <2> QED
    BY <1>0, <2>3, <2>4, <2>5 DEF IInv
<1>8. ASSUME NEW r \in Requests, NEW ok \in BOOLEAN, WriteAnswer(r, ok) PROVE IInv'
  <2>1. r \in Writers /\ r \in Active /\ reader # "writing" /\ reader # "returned"
    BY <1>8 DEF WriteAnswer, Writers, Active, IInv, ExclusiveWrite, NoHandlerAfterReturn
  <2>2. Writers = {r}
    BY <2>1 DEF IInv, ExclusiveWrite
  <2>3. Writers' = {}
    BY <1>0, <1>8, <2>2 DEF WriteAnswer, Writers, TypeOK
  <2>4. MutexHeldByWriter' /\ ExclusiveWrite' /\ NoHandlerAfterReturn'
    BY <1>8, <2>1, <2>3 DEF WriteAnswer, MutexHeldByWriter, ExclusiveWrite,
       NoHandlerAfterReturn
  <2>5. WaitGroupCounts'
    BY <1>0, <1>8, ActiveShrinks DEF WriteAnswer, WaitGroupCounts
  <2>6. answered[r] = 0
    BY <1>0, <1>8 DEF WriteAnswer, IInv, AnsweredAtMostOnce, TypeOK
  <2>7. \A s \in Requests : answered'[s] = answered[s] \/ (s = r /\ answered'[s] = 1)
    BY <1>0, <1>8, <2>6 DEF WriteAnswer, TypeOK
  <2>8. AnsweredAtMostOnce'
    BY <1>0, <1>8, <2>7 DEF WriteAnswer, IInv, AnsweredAtMostOnce, TypeOK
  <2> QED
    BY <1>0, <2>4, <2>5, <2>8 DEF IInv
<1>9. ASSUME NEW r \in Requests, HandlerStep(r) PROVE IInv'
  <2>1. PICK to \in {"answering", "forwarding", "body"} :
            handler' = [handler EXCEPT ![r] = to]
    BY <1>9 DEF HandlerStep, RejectInvalid, Forward, LocalResponds, LocalUnreachable,
       LocalTimeout, ReadBody, Move, Answer
  <2>2. /\ handler[r] \in {"started", "forwarding", "body"}
        /\ UNCHANGED <<reader, mu, requests, answered>>
    BY <1>9 DEF HandlerStep, RejectInvalid, Forward, LocalResponds, LocalUnreachable,
       LocalTimeout, ReadBody, Move, Answer
  <2>3. Active' = Active
    BY <1>0, <2>1, <2>2, ActiveStays DEF Active, HandlerStates
  <2>4. Writers' = Writers
    BY <1>0, <2>1, <2>2 DEF Writers, TypeOK
  <2>5. AnsweredAtMostOnce'
    BY <1>0, <2>1, <2>2 DEF IInv, AnsweredAtMostOnce, TypeOK
  <2> QED
    BY <1>0, <2>2, <2>3, <2>4, <2>5 DEF IInv, MutexHeldByWriter, ExclusiveWrite,
       WaitGroupCounts, NoHandlerAfterReturn
<1>10. ASSUME UNCHANGED <<reader, handler, mu, requests, answered>> PROVE IInv'
  <2>1. Active' = Active /\ Writers' = Writers
    BY <1>10 DEF Active, Writers
  <2> QED
    BY <1>0, <1>10, <2>1 DEF IInv, MutexHeldByWriter, ExclusiveWrite, WaitGroupCounts,
       NoHandlerAfterReturn, AnsweredAtMostOnce
<1>11. CASE ReadIgnored \/ Watch \/ ParentCancels \/ Break \/ Stall \/ Resume
  BY <1>10, <1>11 DEF ReadIgnored, Watch, ParentCancels, Break, Stall, Resume
<1>12. CASE UNCHANGED vars
  BY <1>10, <1>12 DEF vars
<1> QED
  BY <1>1, <1>3, <1>4, <1>5, <1>6, <1>7, <1>8, <1>9, <1>11, <1>12
     DEF Next, WriteStep, Returned

\* The inductive invariant holds for any finite set of requests.
THEOREM ConnectionInvariant == Spec => []IInv
<1> QED
  BY InitIInv, NextIInv, PTL DEF Spec

\* However many handlers answer at once, and however long the gateway blocks
\* one of them, the websocket of a connection has at most one writer.
THEOREM ConnectionExclusiveWrite == Spec => []ExclusiveWrite
<1>1. IInv => ExclusiveWrite
  BY DEF IInv
<1> QED
  BY <1>1, ConnectionInvariant, PTL

\* When serveConnection has returned, none of its handlers is left, and the
\* mutex is free.
THEOREM ConnectionNoHandlerAfterReturn == Spec => []NoHandlerAfterReturn
<1>1. IInv => NoHandlerAfterReturn
  BY DEF IInv
<1> QED
  BY <1>1, ConnectionInvariant, PTL

\* No request is answered twice, whichever of its errors occurs.
THEOREM ConnectionAnsweredAtMostOnce == Spec => []AnsweredAtMostOnce
<1>1. IInv => AnsweredAtMostOnce
  BY DEF IInv
<1> QED
  BY <1>1, ConnectionInvariant, PTL
=============================================================================
