---------------------------- MODULE RunLifecycle ----------------------------
(***************************************************************************)
(* The run command from its start to its exit code: App.run                *)
(* (src/internal/cli/run.go), the dependency runtime it owns               *)
(* (dependency_runtime.go), the child process (src/internal/process) and   *)
(* the readiness probe (src/internal/readiness).  The tunnel agent, the    *)
(* uploader and the proxy run as goroutines and appear here only by how    *)
(* they start, report and end; TunnelAgent, TunnelConnection and           *)
(* CaptureUploader model their insides.                                    *)
(***************************************************************************)
EXTENDS Integers

VARIABLES
    hasChild,    \* options.Command is not empty
    hasProxy,    \* options.DependencyProxy
    samePort,    \* options.ProxyPort = options.HTTPPort
    wellFormed,  \* every other option passes its own check
    pc,          \* where run is, its deferred calls included
    code,        \* the exit code run returns
    ctxDone,     \* the command's context is done: a signal arrived
    runCancel,   \* cancel() of runCtx was called
    depCancel,   \* cancel() of the dependency runtime was called
    child,       \* "none", "running", "exited"
    status,      \* exit status of the child, -1 when a signal killed it
    signal,      \* strongest signal sent to the child's process group
    gaveUp,      \* Stop returned because its timer fired after SIGKILL
    ready,       \* the readiness goroutine: "none", "probing" or its result,
                 \* "self" when it was run's own proxy that answered
    agent,       \* the agent goroutine: "none", "connecting", "up", "nil", "error"
    connected,   \* initialConnected holds a token
    proxy,       \* proxy.Serve: "none", "serving", "failed", "closed"
    uploader     \* uploader.Run: "none", "running", "ended"

options == <<hasChild, hasProxy, samePort, wellFormed>>
contexts == <<ctxDone, runCancel, depCancel>>
childVars == <<child, status, signal, gaveUp>>
goroutines == <<ready, agent, connected, proxy, uploader>>
vars == <<options, pc, code, contexts, childVars, goroutines>>

\* No exit code yet: exit codes are at most 255.
NotYet == 256

RunDone == ctxDone \/ runCancel
DepDone == RunDone \/ depCancel

Init ==
    /\ hasChild \in BOOLEAN
    /\ hasProxy \in BOOLEAN
    /\ samePort \in BOOLEAN
    /\ wellFormed \in BOOLEAN
    /\ pc = "setup"
    /\ code = NotYet
    /\ ctxDone = FALSE /\ runCancel = FALSE /\ depCancel = FALSE
    /\ child = "none" /\ status = 0 /\ signal = "none" /\ gaveUp = FALSE
    /\ ready = "none" /\ agent = "none" /\ connected = FALSE
    /\ proxy = "none" /\ uploader = "none"

----------------------------------------------------------------------------
(* Startup.                                                                *)

Goto(from, to) == pc = from /\ pc' = to

\* Returning runs the deferred calls: stop the child, close the dependency
\* runtime, cancel runCtx, each only if run got far enough to defer it.
Exit(c) == code' = c /\ pc' = "stopChild"

Mut_ParseRun == wellFormed

\* ParseRun accepts the options: each passes its own check, and the proxy's
\* port, when there is to be a proxy, is not the application's.
ParseRun == wellFormed /\ ~(hasProxy /\ samePort)

\* --help, which only prints the usage, is left out.
ArgumentsRejected ==
    /\ pc = "setup"
    /\ ~ParseRun
    /\ Exit(2)
    /\ UNCHANGED <<options, contexts, childVars, goroutines>>

\* Configuration, discovery and identity are all in order.
SetupSucceeds ==
    /\ ParseRun
    /\ Goto("setup", IF hasProxy THEN "startProxy" ELSE "startChild")
    /\ UNCHANGED <<options, code, contexts, childVars, goroutines>>

\* No sign-in, a failed discovery or identity call (1), or an --api-url that
\* is only now looked at (2).
SetupFails(c) ==
    /\ pc = "setup"
    /\ ParseRun
    /\ c \in {1, 2}
    /\ Exit(c)
    /\ UNCHANGED <<options, contexts, childVars, goroutines>>

\* The CA is loaded, the listener bound, and Serve and Run are started.
ProxyStarts ==
    /\ Goto("startProxy", "startChild")
    /\ proxy' = "serving"
    /\ uploader' = "running"
    /\ UNCHANGED <<options, code, contexts, childVars, ready, agent, connected>>

ProxyStartFails ==
    /\ pc = "startProxy"
    /\ Exit(1)
    /\ UNCHANGED <<options, contexts, childVars, goroutines>>

\* The child, if any, is started, and then the readiness probe.
ChildStarts ==
    /\ Goto("startChild", "waitReady")
    /\ child' = IF hasChild THEN "running" ELSE "none"
    /\ ready' = "probing"
    /\ UNCHANGED <<options, code, contexts, status, signal, gaveUp, agent, connected,
                   proxy, uploader>>

ChildStartFails ==
    /\ pc = "startChild"
    /\ hasChild
    /\ Exit(1)
    /\ UNCHANGED <<options, contexts, childVars, goroutines>>

----------------------------------------------------------------------------
(* The select statements.  Each of them picks any case that is ready.      *)

Selecting == {"waitReady", "waitConnected", "steady"}

exitCode(s) == IF s > 0 THEN s ELSE 1

\* The local port answers: the startup context is cancelled, and the first
\* session is requested.
SelectReady ==
    /\ ready \in {"open", "self"}
    /\ Goto("waitReady", "createSession")
    /\ UNCHANGED <<options, code, contexts, childVars, goroutines>>

\* The probe gave up: startup timeout, or the cancelled context.
SelectNotReady ==
    /\ pc = "waitReady"
    /\ ready \in {"timeout", "cancelled"}
    /\ Exit(IF ready = "cancelled" /\ ctxDone THEN 0 ELSE 1)
    /\ UNCHANGED <<options, contexts, childVars, goroutines>>

SelectCancelled ==
    /\ pc \in Selecting
    /\ RunDone
    /\ Exit(0)
    /\ UNCHANGED <<options, contexts, childVars, goroutines>>

Mut_SelectProxyDone ==
    /\ pc \in Selecting
    /\ RunDone
    /\ proxy \in {"failed", "closed"}
    /\ Exit(0)
    /\ UNCHANGED <<options, contexts, childVars, goroutines>>

\* proxyDone is closed: by the context, or because Serve failed.
SelectProxyDone ==
    /\ pc \in Selecting
    /\ proxy \in {"failed", "closed"}
    /\ Exit(IF RunDone THEN 0 ELSE 1)
    /\ UNCHANGED <<options, contexts, childVars, goroutines>>

Mut_SelectChildDone ==
    /\ pc \in Selecting
    /\ child = "exited"
    /\ Exit(IF status = 0 THEN 0 ELSE exitCode(status))
    /\ runCancel' = (runCancel \/ pc # "waitReady")
    /\ UNCHANGED <<options, ctxDone, depCancel, childVars, goroutines>>

\* The child ended: always a failure before readiness, its own status after.
SelectChildDone ==
    /\ pc \in Selecting
    /\ child = "exited"
    /\ Exit(IF status = 0 /\ pc # "waitReady" THEN 0 ELSE exitCode(status))
    /\ runCancel' = (runCancel \/ pc # "waitReady")
    /\ UNCHANGED <<options, ctxDone, depCancel, childVars, goroutines>>

\* The first session is requested before the agent starts, and not retried.
SessionCreated ==
    /\ Goto("createSession", "waitConnected")
    /\ agent' = "connecting"
    /\ UNCHANGED <<options, code, contexts, childVars, ready, connected, proxy, uploader>>

SessionFails ==
    /\ pc = "createSession"
    /\ Exit(1)
    /\ UNCHANGED <<options, contexts, childVars, goroutines>>

SelectConnected ==
    /\ connected
    /\ Goto("waitConnected", "steady")
    /\ connected' = FALSE
    /\ UNCHANGED <<options, code, contexts, childVars, ready, agent, proxy, uploader>>

SelectAgentDone ==
    /\ pc \in {"waitConnected", "steady"}
    /\ agent \in {"nil", "error"}
    /\ Exit(IF agent = "nil" THEN 0 ELSE 1)
    /\ UNCHANGED <<options, contexts, childVars, goroutines>>

----------------------------------------------------------------------------
(* The deferred calls, last deferred first.                                *)

Mut_StopChild ==
    /\ Goto("stopChild", IF child = "none" THEN "closeDeps" ELSE "termWait")
    /\ signal' = IF child = "none" THEN "none" ELSE "term"
    /\ depCancel' = TRUE
    /\ UNCHANGED <<options, code, ctxDone, runCancel, child, status, gaveUp, goroutines>>

\* Stop sends SIGTERM to the group (to no one when there is no child) and
\* waits for the child or for five seconds.
StopChild ==
    /\ Goto("stopChild", IF child = "none" THEN "closeDeps" ELSE "termWait")
    /\ signal' = IF child = "none" THEN "none" ELSE "term"
    /\ UNCHANGED <<options, code, contexts, child, status, gaveUp, goroutines>>

Mut_TermTimeout ==
    /\ Goto("termWait", "termWait")
    /\ signal' = "term"
    /\ UNCHANGED <<options, code, contexts, child, status, gaveUp, goroutines>>

\* The timer may win its select even when the child has just ended.
TermTimeout ==
    /\ Goto("termWait", "killWait")
    /\ signal' = "kill"
    /\ UNCHANGED <<options, code, contexts, child, status, gaveUp, goroutines>>

ChildReaped ==
    /\ pc \in {"termWait", "killWait"}
    /\ child = "exited"
    /\ pc' = "closeDeps"
    /\ UNCHANGED <<options, code, contexts, childVars, goroutines>>

\* Two seconds after SIGKILL Stop returns anyway.
KillTimeout ==
    /\ Goto("killWait", "closeDeps")
    /\ gaveUp' = TRUE
    /\ UNCHANGED <<options, code, contexts, child, status, signal, goroutines>>

\* Close cancels the runtime's context and waits for both goroutines.
CloseDeps ==
    /\ Goto("closeDeps", "depsWait")
    /\ depCancel' = TRUE
    /\ UNCHANGED <<options, code, ctxDone, runCancel, childVars, goroutines>>

Mut_DepsClosed ==
    /\ Goto("depsWait", "returned")
    /\ runCancel' = TRUE
    /\ UNCHANGED <<options, code, ctxDone, depCancel, childVars, goroutines>>

DepsClosed ==
    /\ Goto("depsWait", "returned")
    /\ proxy # "serving"
    /\ uploader # "running"
    /\ runCancel' = TRUE
    /\ UNCHANGED <<options, code, ctxDone, depCancel, childVars, goroutines>>

----------------------------------------------------------------------------
(* The goroutines, the child and the user.                                 *)

Signal ==
    /\ ~ctxDone
    /\ pc # "returned"
    /\ ctxDone' = TRUE
    /\ UNCHANGED <<options, pc, code, runCancel, depCancel, childVars, goroutines>>

\* Who accepts a connection on the application's port: readiness.Wait cannot
\* tell run's own proxy from the application.
Listeners == {"open"} \cup (IF samePort /\ proxy = "serving" THEN {"self"} ELSE {})

\* readiness.Wait: the port accepts a connection, the startup timeout elapses,
\* or the context ends.
Probe(r) ==
    /\ ready = "probing"
    /\ \/ r \in {"open", "timeout"}
       \/ r = "cancelled" /\ (RunDone \/ code # NotYet)
    /\ ready' \in IF r = "open" THEN Listeners ELSE {r}
    /\ UNCHANGED <<options, pc, code, contexts, childVars, agent, connected, proxy,
                   uploader>>

\* The child ends by itself, or by a signal of anyone (status -1).
ChildExits(s) ==
    /\ child = "running"
    /\ child' = "exited"
    /\ status' = s
    /\ UNCHANGED <<options, pc, code, contexts, signal, gaveUp, goroutines>>

AgentConnects ==
    /\ agent = "connecting"
    /\ agent' = "up"
    /\ connected' = TRUE
    /\ UNCHANGED <<options, pc, code, contexts, childVars, ready, proxy, uploader>>

\* The agent returns nil when the context is done or the endpoint became
\* virtual, and an error when it must not or cannot go on.
AgentEnds(r) ==
    /\ agent \in {"connecting", "up"}
    /\ r = "nil" => RunDone \/ agent = "up"
    /\ agent' = r
    /\ UNCHANGED <<options, pc, code, contexts, childVars, ready, connected, proxy,
                   uploader>>

\* Serve returns when the runtime's context is done, or because it failed.
ProxyEnds ==
    /\ proxy = "serving"
    /\ proxy' = IF DepDone THEN "closed" ELSE "failed"
    /\ UNCHANGED <<options, pc, code, contexts, childVars, ready, agent, connected,
                   uploader>>

\* The uploader may end at any time; that only prints a warning.
UploaderEnds ==
    /\ uploader = "running"
    /\ uploader' = "ended"
    /\ UNCHANGED <<options, pc, code, contexts, childVars, ready, agent, connected,
                   proxy>>

Returned == pc = "returned" /\ UNCHANGED vars

----------------------------------------------------------------------------
RunStep ==
    \/ ArgumentsRejected
    \/ SetupSucceeds
    \/ \E c \in {1, 2} : SetupFails(c)
    \/ ProxyStarts
    \/ ProxyStartFails
    \/ ChildStarts
    \/ ChildStartFails
    \/ SelectReady
    \/ SelectNotReady
    \/ SelectCancelled
    \/ SelectProxyDone
    \/ SelectChildDone
    \/ SessionCreated
    \/ SessionFails
    \/ SelectConnected
    \/ SelectAgentDone
    \/ StopChild
    \/ TermTimeout
    \/ ChildReaped
    \/ KillTimeout
    \/ CloseDeps
    \/ DepsClosed

Next ==
    \/ RunStep
    \/ Signal
    \/ \E r \in {"open", "timeout", "cancelled"} : Probe(r)
    \/ \E s \in {0, 3, -1} : ChildExits(s)
    \/ AgentConnects
    \/ \E r \in {"nil", "error"} : AgentEnds(r)
    \/ ProxyEnds
    \/ UploaderEnds
    \/ Returned

Spec == Init /\ [][Next]_vars

\* run is scheduled, its requests return, its timers fire; the probe has a
\* timeout; the goroutines end once their context is done.  Nothing makes the
\* child exit, the proxy fail or the agent end while the context lives.
Fairness ==
    /\ WF_vars(RunStep)
    /\ WF_vars(\E r \in {"open", "timeout", "cancelled"} : Probe(r))
    /\ WF_vars(RunDone /\ AgentEnds("nil"))
    /\ WF_vars(DepDone /\ ProxyEnds)
    /\ WF_vars(DepDone /\ UploaderEnds)

FairSpec == Spec /\ Fairness

----------------------------------------------------------------------------
(* Properties.                                                             *)

\* Type invariant of the run command.
TypeOK ==
    /\ hasChild \in BOOLEAN /\ hasProxy \in BOOLEAN
    /\ samePort \in BOOLEAN /\ wellFormed \in BOOLEAN
    /\ pc \in Selecting \cup {"setup", "startProxy", "startChild", "createSession",
              "stopChild", "termWait", "killWait", "closeDeps", "depsWait", "returned"}
    /\ code \in {NotYet, 0, 1, 2, 3}
    /\ ctxDone \in BOOLEAN /\ runCancel \in BOOLEAN /\ depCancel \in BOOLEAN
    /\ child \in {"none", "running", "exited"}
    /\ status \in {-1, 0, 3}
    /\ signal \in {"none", "term", "kill"}
    /\ gaveUp \in BOOLEAN
    /\ ready \in {"none", "probing", "open", "self", "timeout", "cancelled"}
    /\ agent \in {"none", "connecting", "up", "nil", "error"}
    /\ connected \in BOOLEAN
    /\ proxy \in {"none", "serving", "failed", "closed"}
    /\ uploader \in {"none", "running", "ended"}

\* The public tunnel is opened only when the application has answered on the
\* local port (run's own dependency proxy never passes for it, which would
\* expose an open proxy to the public URL) and, with the dependency proxy
\* enabled, only after its listener was bound: run "never continues in an
\* ambiguous tunnel-only state" (docs/v6-dependency-capture.md).
TunnelNeedsEverything ==
    agent # "none" => /\ ready = "open"
                      /\ hasProxy => proxy # "none"
                      /\ hasChild => child # "none"

\* When run returns, nothing it started is left: the child has ended unless
\* it survived SIGKILL for two seconds, and Serve and the uploader are over.
NothingLeftBehind ==
    pc = "returned" =>
        /\ child # "running" \/ gaveUp
        /\ proxy # "serving"
        /\ uploader # "running"

\* Exit code 0 means the user stopped the run, the tunnel was ended in order,
\* or the application itself ended well after it had become ready.  A child
\* that fails, a dead proxy, a timeout and a broken tunnel are never 0.
ZeroIsOrderly ==
    code = 0 => \/ ctxDone
                \/ agent = "nil"
                \/ child = "exited" /\ status = 0 /\ ready = "open"

\* Unless the user interrupts, the application keeps its dependency proxy
\* until it has ended: run never takes the proxy away from a running child.
ProxyOutlivesChild ==
    child = "running" /\ ~gaveUp /\ ~ctxDone => proxy # "closed"

\* An interrupt ends run, whatever it is waiting for and whatever the child
\* does with its signals.
SignalReturns == ctxDone ~> (pc = "returned")

\* The end of any part run depends on ends run.
PartEndReturns ==
    (child = "exited" \/ proxy = "failed" \/ agent \in {"nil", "error"})
        ~> (pc = "returned")
=============================================================================
