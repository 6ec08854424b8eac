------------------------- MODULE RunLifecycleProofs -------------------------
(***************************************************************************)
(* Proofs about RunLifecycle: the tunnel opens only when everything it     *)
(* needs is there, run leaves nothing behind, exit code 0 means an orderly *)
(* end, and the child keeps its dependency proxy.  The model has finitely  *)
(* many states, which TLC visits; the proofs say why the properties hold.  *)
(***************************************************************************)
EXTENDS RunLifecycle, TLAPS

----------------------------------------------------------------------------
(* The inductive invariant.                                                *)

\* run has not decided on its exit code yet.
Undecided == Selecting \cup {"setup", "startProxy", "startChild", "createSession"}

\* The deferred calls begin with the exit code, and nothing that run starts is
\* cancelled before.
CancelledAfterwards == pc \in Undecided => code = NotYet /\ ~runCancel /\ ~depCancel

\* How far run has got before each of its parts can be there.
StartsInOrder ==
    /\ pc = "setup" => proxy = "none"
    /\ pc \in {"setup", "startProxy", "startChild"} =>
          child = "none" /\ ready = "none" /\ agent = "none"
    /\ pc \in {"startProxy", "startChild"} => ParseRun
    /\ pc = "startProxy" => hasProxy
    /\ pc \in Selecting \cup {"startChild", "createSession"} => (hasProxy => proxy # "none")
    /\ pc \in Selecting \cup {"createSession"} => (hasChild => child # "none")
    /\ pc \in {"createSession", "waitConnected", "steady"} => ready = "open"

\* The proxy never listens on the application's port, so it cannot answer the
\* probe.
ProxyHasItsPort ==
    /\ proxy # "none" => hasProxy /\ ~samePort
    /\ ready # "self"

\* Serve ends in order only after one of the contexts above it.
ClosedByContext == proxy = "closed" => DepDone

\* run cancels its contexts only when the child is over, or was given up.
ChildStoppedFirst ==
    runCancel \/ depCancel \/ pc \in {"closeDeps", "depsWait", "returned"} =>
        child # "running" \/ gaveUp

\* Close waits for Serve and the uploader.
DepsWaited == pc = "returned" => proxy # "serving" /\ uploader # "running"

IInv ==
    /\ TypeOK
    /\ CancelledAfterwards
    /\ StartsInOrder
    /\ ProxyHasItsPort
    /\ ClosedByContext
    /\ ChildStoppedFirst
    /\ DepsWaited
    /\ TunnelNeedsEverything
    /\ ZeroIsOrderly

----------------------------------------------------------------------------
(* The invariant is inductive.                                             *)

\* The initial states satisfy the inductive invariant.
LEMMA InitIInv == Init => IInv
<1> SUFFICES ASSUME Init PROVE IInv
  OBVIOUS
<1>1. TypeOK
  BY Zenon DEF Init, TypeOK
<1>2. CancelledAfterwards /\ StartsInOrder /\ ProxyHasItsPort /\ DepsWaited
  BY DEF Init, CancelledAfterwards, StartsInOrder, ProxyHasItsPort, DepsWaited, Selecting
<1>3. ClosedByContext /\ ChildStoppedFirst /\ TunnelNeedsEverything
  BY DEF Init, ClosedByContext, ChildStoppedFirst, TunnelNeedsEverything
<1>4. ZeroIsOrderly
  BY DEF Init, ZeroIsOrderly, NotYet
<1> QED
  BY <1>1, <1>2, <1>3, <1>4 DEF IInv

\* Steps that end startup or a select with an exit code: only the code, the
\* place and, for a child that ended, runCancel change.
LEMMA ExitKeeps ==
    ASSUME IInv, pc \in Undecided, NEW c \in {0, 1, 2, 3}, Exit(c),
           runCancel' = runCancel \/ (runCancel' = TRUE /\ child # "running"),
           c = 0 => \/ ctxDone
                    \/ agent = "nil"
                    \/ child = "exited" /\ status = 0 /\ ready = "open",
           UNCHANGED <<options, ctxDone, depCancel, childVars, goroutines>>
    PROVE  IInv'
<1> USE DEF options, childVars, goroutines
<1>1. TypeOK'
  <2>1. runCancel' \in BOOLEAN
    BY DEF IInv, TypeOK
  <2>2. /\ code' \in {NotYet, 0, 1, 2, 3}
        /\ pc' \in Selecting \cup {"setup", "startProxy", "startChild", "createSession",
                  "stopChild", "termWait", "killWait", "closeDeps", "depsWait", "returned"}
    BY DEF Exit
  <2> QED
    BY <2>1, <2>2 DEF IInv, TypeOK
<1>2. CancelledAfterwards' /\ StartsInOrder' /\ ProxyHasItsPort' /\ DepsWaited'
  BY DEF IInv, CancelledAfterwards, StartsInOrder, ProxyHasItsPort, DepsWaited, Exit, Undecided,
     Selecting
<1>3. ClosedByContext' /\ ChildStoppedFirst'
  BY DEF IInv, ClosedByContext, ChildStoppedFirst, DepDone, RunDone, Exit, CancelledAfterwards, TypeOK
<1>4. TunnelNeedsEverything' /\ ZeroIsOrderly'
  BY DEF IInv, TunnelNeedsEverything, ZeroIsOrderly, Exit
<1> QED
  BY <1>1, <1>2, <1>3, <1>4 DEF IInv

\* Steps of run that go on without an exit code.
LEMMA GoOnKeeps ==
    ASSUME IInv, \/ SetupSucceeds \/ ProxyStarts \/ ChildStarts \/ SelectReady
                 \/ SessionCreated \/ SelectConnected
    PROVE  IInv'
<1> USE DEF options, contexts, childVars, goroutines, Goto
<1>0. /\ pc \in Undecided /\ pc' \in Undecided
      /\ UNCHANGED <<options, code, contexts, status, signal, gaveUp>>
  BY DEF SetupSucceeds, ProxyStarts, ChildStarts, SelectReady, SessionCreated, SelectConnected,
     Undecided, Selecting
<1>t. /\ child' \in {"none", "running", "exited"}
      /\ ready' \in {"none", "probing", "open", "self", "timeout", "cancelled"}
      /\ agent' \in {"none", "connecting", "up", "nil", "error"}
      /\ proxy' \in {"none", "serving", "failed", "closed"}
      /\ uploader' \in {"none", "running", "ended"}
      /\ connected' \in BOOLEAN
  BY DEF IInv, TypeOK, SetupSucceeds, ProxyStarts, ChildStarts, SelectReady, SessionCreated,
     SelectConnected
<1>1. TypeOK'
  BY <1>0, <1>t DEF IInv, TypeOK, Undecided
<1>2. CancelledAfterwards'
  BY <1>0 DEF IInv, CancelledAfterwards
<1>3. StartsInOrder'
  <2>0. ParseRun' <=> ParseRun
    BY <1>0 DEF ParseRun
  <2>1. CASE SetupSucceeds
    BY <2>0, <2>1 DEF IInv, StartsInOrder, Selecting, SetupSucceeds
  <2>2. CASE ProxyStarts
    BY <2>0, <2>2 DEF IInv, StartsInOrder, Selecting, ProxyStarts
  <2>3. CASE ChildStarts
    BY <2>3 DEF IInv, StartsInOrder, Selecting, ChildStarts
  <2>4. CASE SelectReady
    BY <2>4 DEF IInv, StartsInOrder, ProxyHasItsPort, Selecting, SelectReady
  <2>5. CASE SessionCreated
    BY <2>5 DEF IInv, StartsInOrder, Selecting, SessionCreated
  <2>6. CASE SelectConnected
    BY <2>6 DEF IInv, StartsInOrder, Selecting, SelectConnected
  <2> QED
    BY <2>1, <2>2, <2>3, <2>4, <2>5, <2>6
<1>4. ProxyHasItsPort'
  <2>1. CASE ProxyStarts
    <3>1. ~(hasProxy /\ samePort) /\ ready = "none"
      BY <2>1 DEF IInv, StartsInOrder, ProxyStarts, ParseRun
    <3>2. hasProxy
      BY <2>1 DEF IInv, StartsInOrder, ProxyStarts
    <3> QED
      BY <2>1, <3>1, <3>2 DEF ProxyHasItsPort, ProxyStarts
  <2>2. CASE ~ProxyStarts
    <3>1. UNCHANGED proxy /\ ready' \in {ready, "probing"}
      BY <2>2 DEF SetupSucceeds, ChildStarts, SelectReady, SessionCreated, SelectConnected
    <3> QED
      BY <1>0, <3>1 DEF IInv, ProxyHasItsPort
  <2> QED
    BY <2>1, <2>2
<1>5. ClosedByContext'
  BY DEF IInv, ClosedByContext, DepDone, RunDone, SetupSucceeds, ProxyStarts, ChildStarts,
     SelectReady, SessionCreated, SelectConnected
<1>6. ChildStoppedFirst' /\ DepsWaited'
  BY <1>0 DEF IInv, CancelledAfterwards, ChildStoppedFirst, DepsWaited, Undecided, Selecting
<1>7. TunnelNeedsEverything'
  BY DEF IInv, TunnelNeedsEverything, StartsInOrder, Selecting, SetupSucceeds, ProxyStarts,
     ChildStarts, SelectReady, SessionCreated, SelectConnected
<1>8. ZeroIsOrderly'
  BY <1>0 DEF IInv, CancelledAfterwards, ZeroIsOrderly, NotYet
<1> QED
  BY <1>1, <1>2, <1>3, <1>4, <1>5, <1>6, <1>7, <1>8 DEF IInv

\* The deferred calls.
LEMMA DeferredKeeps ==
    ASSUME IInv, StopChild \/ TermTimeout \/ ChildReaped \/ KillTimeout \/ CloseDeps \/ DepsClosed
    PROVE  IInv'
<1> USE DEF options, contexts, childVars, goroutines, Goto
<1> DEFINE Deferred == {"stopChild", "termWait", "killWait", "closeDeps", "depsWait", "returned"}
<1>0. /\ pc' \in Deferred
      /\ UNCHANGED <<options, code, ctxDone, child, status, goroutines>>
  BY DEF StopChild, TermTimeout, ChildReaped, KillTimeout, CloseDeps, DepsClosed
<1>d. pc' \notin Undecided
  BY <1>0 DEF Undecided, Selecting
<1>t. /\ signal' \in {"none", "term", "kill"} /\ gaveUp' \in BOOLEAN
      /\ runCancel' \in BOOLEAN /\ depCancel' \in BOOLEAN
  BY DEF IInv, TypeOK, StopChild, TermTimeout, ChildReaped, KillTimeout, CloseDeps, DepsClosed
<1>1. TypeOK'
  BY <1>0, <1>t DEF IInv, TypeOK
<1>2. CancelledAfterwards' /\ StartsInOrder' /\ ProxyHasItsPort'
  BY <1>0, <1>d DEF IInv, CancelledAfterwards, StartsInOrder, ProxyHasItsPort, Undecided, Selecting
<1>3. ClosedByContext'
  BY <1>0 DEF IInv, TypeOK, ClosedByContext, DepDone, RunDone, StopChild, TermTimeout, ChildReaped,
     KillTimeout, CloseDeps, DepsClosed
<1>4. ChildStoppedFirst'
  BY DEF IInv, TypeOK, ChildStoppedFirst, StopChild, TermTimeout, ChildReaped, KillTimeout,
     CloseDeps, DepsClosed
<1>5. DepsWaited'
  BY DEF IInv, TypeOK, DepsWaited, StopChild, TermTimeout, ChildReaped, KillTimeout, CloseDeps,
     DepsClosed
<1>6. TunnelNeedsEverything' /\ ZeroIsOrderly'
  BY <1>0 DEF IInv, TunnelNeedsEverything, ZeroIsOrderly
<1> QED
  BY <1>1, <1>2, <1>3, <1>4, <1>5, <1>6 DEF IInv

\* The goroutines, the child and the user.
LEMMA OthersKeep ==
    ASSUME IInv, \/ Signal \/ AgentConnects \/ ProxyEnds \/ UploaderEnds \/ UNCHANGED vars
                 \/ \E r \in {"open", "timeout", "cancelled"} : Probe(r)
                 \/ \E s \in {0, 3, -1} : ChildExits(s)
                 \/ \E r \in {"nil", "error"} : AgentEnds(r)
    PROVE  IInv'
<1> USE DEF vars, options, contexts, childVars, goroutines
<1>0. UNCHANGED <<options, pc, code, runCancel, depCancel, signal, gaveUp>>
  BY DEF Signal, AgentConnects, ProxyEnds, UploaderEnds, Probe, ChildExits, AgentEnds
<1>p. /\ ready' = ready \/ (ready = "probing" /\ ready' \in {"open", "timeout", "cancelled"})
  BY DEF IInv, ProxyHasItsPort, Listeners, Signal, AgentConnects, ProxyEnds, UploaderEnds, Probe, ChildExits,
     AgentEnds
<1>c. \/ UNCHANGED <<child, status>>
      \/ child = "running" /\ child' = "exited" /\ status' \in {0, 3, -1}
  BY DEF Signal, AgentConnects, ProxyEnds, UploaderEnds, Probe, ChildExits, AgentEnds
<1>a. \/ UNCHANGED agent
      \/ agent \in {"connecting", "up"} /\ agent' \in {"up", "nil", "error"}
  BY DEF Signal, AgentConnects, ProxyEnds, UploaderEnds, Probe, ChildExits, AgentEnds
<1>x. \/ UNCHANGED <<proxy, ctxDone>>
      \/ ctxDone' = TRUE /\ UNCHANGED proxy
      \/ /\ proxy = "serving" /\ UNCHANGED ctxDone
         /\ proxy' = "failed" \/ (proxy' = "closed" /\ DepDone)
  BY DEF Signal, AgentConnects, ProxyEnds, UploaderEnds, Probe, ChildExits, AgentEnds
<1>u. \/ UNCHANGED uploader
      \/ uploader' = "ended"
  BY DEF Signal, AgentConnects, ProxyEnds, UploaderEnds, Probe, ChildExits, AgentEnds
<1>n. connected' = connected \/ connected' = TRUE
  BY DEF Signal, AgentConnects, ProxyEnds, UploaderEnds, Probe, ChildExits, AgentEnds
<1>t. /\ ready' \in {"none", "probing", "open", "self", "timeout", "cancelled"}
      /\ child' \in {"none", "running", "exited"} /\ status' \in {-1, 0, 3}
      /\ agent' \in {"none", "connecting", "up", "nil", "error"}
      /\ proxy' \in {"none", "serving", "failed", "closed"}
      /\ uploader' \in {"none", "running", "ended"}
  BY <1>p, <1>c, <1>a, <1>x, <1>u DEF IInv, TypeOK
<1>1. TypeOK'
  <2>1. ctxDone' \in BOOLEAN /\ connected' \in BOOLEAN
    BY <1>x, <1>n DEF IInv, TypeOK
  <2> QED
    BY <1>0, <1>t, <2>1 DEF IInv, TypeOK
<1>2. CancelledAfterwards' /\ DepsWaited'
  BY <1>0, <1>x, <1>u DEF IInv, CancelledAfterwards, DepsWaited
<1>3. StartsInOrder'
  BY <1>0, <1>p, <1>c, <1>a, <1>x DEF IInv, StartsInOrder, ParseRun
<1>4. ProxyHasItsPort'
  BY <1>0, <1>p, <1>x DEF IInv, ProxyHasItsPort
<1>5. ClosedByContext' /\ ChildStoppedFirst'
  BY <1>0, <1>c, <1>x DEF IInv, TypeOK, ClosedByContext, ChildStoppedFirst, DepDone, RunDone
<1>6. TunnelNeedsEverything'
  BY <1>0, <1>p, <1>c, <1>a, <1>x DEF IInv, TunnelNeedsEverything
<1>7. ZeroIsOrderly'
  BY <1>0, <1>p, <1>c, <1>a, <1>x DEF IInv, TypeOK, ZeroIsOrderly
<1> QED
  BY <1>1, <1>2, <1>3, <1>4, <1>5, <1>6, <1>7 DEF IInv

\* Every step preserves the invariant.
LEMMA NextIInv == IInv /\ [Next]_vars => IInv'
<1> SUFFICES ASSUME IInv, [Next]_vars PROVE IInv'
  OBVIOUS
<1> USE DEF options, contexts, childVars, goroutines
<1>1. CASE ArgumentsRejected
  BY <1>1, ExitKeeps DEF ArgumentsRejected, Undecided
<1>2. ASSUME NEW c \in {1, 2}, SetupFails(c) PROVE IInv'
  <2>1. /\ c \in {0, 1, 2, 3} /\ c # 0 /\ pc \in Undecided /\ Exit(c)
        /\ UNCHANGED <<options, contexts, childVars, goroutines>>
    BY <1>2 DEF SetupFails, Undecided
  <2> QED
    BY <2>1, ExitKeeps
<1>3. CASE ProxyStartFails \/ ChildStartFails \/ SessionFails
  <2>1. /\ pc \in Undecided /\ Exit(1)
        /\ UNCHANGED <<options, contexts, childVars, goroutines>>
    BY <1>3 DEF ProxyStartFails, ChildStartFails, SessionFails, Undecided
  <2> QED
    BY <2>1, ExitKeeps
<1>4. CASE SelectNotReady
  <2>1. PICK c \in {0, 1} : Exit(c) /\ (c = 0 => ctxDone)
    BY <1>4 DEF SelectNotReady
  <2> QED
    BY <1>4, <2>1, ExitKeeps DEF SelectNotReady, Undecided, Selecting
<1>5. CASE SelectCancelled
  <2>1. pc \in Undecided /\ ctxDone
    BY <1>5 DEF SelectCancelled, Undecided, RunDone, IInv, CancelledAfterwards
  <2> QED
    BY <1>5, <2>1, ExitKeeps DEF SelectCancelled
<1>6. CASE SelectProxyDone
  <2>1. pc \in Undecided /\ (RunDone => ctxDone)
    BY <1>6 DEF SelectProxyDone, Undecided, RunDone, IInv, CancelledAfterwards
  <2>2. PICK c \in {0, 1} : Exit(c) /\ (c = 0 => ctxDone)
    BY <1>6, <2>1 DEF SelectProxyDone
  <2> QED
    BY <1>6, <2>1, <2>2, ExitKeeps DEF SelectProxyDone
<1>7. CASE SelectChildDone
  <2>1. pc \in Undecided /\ child = "exited"
    BY <1>7 DEF SelectChildDone, Undecided
  <2>2. pc # "waitReady" => ready = "open"
    BY <1>7 DEF SelectChildDone, Selecting, IInv, StartsInOrder
  <2>3. PICK c \in {0, 1, 2, 3} : Exit(c) /\ (c = 0 => status = 0 /\ pc # "waitReady")
    BY <1>7 DEF SelectChildDone, exitCode, IInv, TypeOK
  <2>4. runCancel' = runCancel \/ (runCancel' = TRUE /\ child # "running")
    BY <1>7, <2>1 DEF SelectChildDone, IInv, TypeOK
  <2> QED
    BY <1>7, <2>1, <2>2, <2>3, <2>4, ExitKeeps DEF SelectChildDone
<1>8. CASE SelectAgentDone
  <2>1. PICK c \in {0, 1} : Exit(c) /\ (c = 0 => agent = "nil")
    BY <1>8 DEF SelectAgentDone
  <2> QED
    BY <1>8, <2>1, ExitKeeps DEF SelectAgentDone, Undecided, Selecting
<1> QED
  BY <1>1, <1>2, <1>3, <1>4, <1>5, <1>6, <1>7, <1>8, GoOnKeeps, DeferredKeeps, OthersKeep
     DEF Next, RunStep, Returned

----------------------------------------------------------------------------
(* The theorems.                                                           *)

\* The inductive invariant, and with it the type invariant, holds throughout.
THEOREM RunInvariant == Spec => []IInv
BY InitIInv, NextIInv, PTL DEF Spec

\* App.run starts the agent only after readiness.Wait has reached the
\* application itself and everything else it was asked to start is there.
THEOREM RunTunnelNeedsEverything == Spec => []TunnelNeedsEverything
<1>1. IInv => TunnelNeedsEverything
  BY DEF IInv
<1> QED
  BY <1>1, RunInvariant, PTL

\* The deferred Stop and Close of App.run leave no child, no proxy and no
\* uploader behind when it returns.
THEOREM RunNothingLeftBehind == Spec => []NothingLeftBehind
<1>1. IInv => NothingLeftBehind
  BY DEF IInv, ChildStoppedFirst, DepsWaited, NothingLeftBehind
<1> QED
  BY <1>1, RunInvariant, PTL

\* Exit code 0 is returned only for an interrupt, an orderly end of the
\* tunnel, or an application that ended well after it had been ready.
THEOREM RunZeroIsOrderly == Spec => []ZeroIsOrderly
<1>1. IInv => ZeroIsOrderly
  BY DEF IInv
<1> QED
  BY <1>1, RunInvariant, PTL

\* Because Stop is deferred after Close, a child that has not been given up
\* loses its proxy only to an interrupt of the user.
THEOREM RunProxyOutlivesChild == Spec => []ProxyOutlivesChild
<1>1. IInv => ProxyOutlivesChild
  BY DEF IInv, ClosedByContext, ChildStoppedFirst, DepDone, RunDone, ProxyOutlivesChild
<1> QED
  BY <1>1, RunInvariant, PTL
=============================================================================
