# TLA+ verification of mockingo-agent

`mockingo` exposes a local application through a public tunnel and can run a
local proxy that captures, and replays, the application's calls to its
dependencies. This directory models the program's own logic in TLA+, checks it
with TLC on small instances, and proves with TLAPS every invariant that a
passing run checks.

Every definition that models code is listed in `PROJECT.json` under `map` with
the lines it stands for. Definitions named `Mut_...` are deliberately wrong
variants of the definition after them; each property is shown to fail when one
of them replaces the original.

## The system: inventory

| Component | State it keeps | Operations | Hard part | Module |
|---|---|---|---|---|
| Tunnel connection loop (`internal/agent`, `runTicket`) | ticket in hand, delay, first/connected flags | acquire a session, dial, serve, back off, give up | single-use tickets, four failure kinds, cancellation anywhere | `TunnelAgent` |
| Tunnel connection (`serveConnection`, `handleRequest`) | websocket, write mutex, wait group, request goroutines | read, ping/pong, forward, answer, close | one writer, blocked writers, nobody outlives the connection | `TunnelConnection` |
| Capture uploader (`dependencycapture/uploader.go`) | bounded event queue, session, connection, reader goroutine | enqueue, connect, upload, ping, install snapshot | full queue, failed write, readers of old connections | `CaptureUploader`, `EventStream` |
| Replay snapshot (`behaviors.go`) | current snapshot | replace, match | stale readers | `CaptureUploader`, `DependencyProxy` |
| Dependency proxy (`proxy.go`) | client and upstream connections, tracked hijacked connections | accept, CONNECT, intercept, pass through, forward, replay, shut down | failure between any two steps, shutdown with silent peers | `DependencyProxy` |
| Body capture (`capture.go`) | bounded preview and byte count | read, compose, validate | character cut at the limit, decoding, early response | `BodyCapture` |
| Capture CA (`ca.go`) | `ca.crt` and `ca.key` | load, check, generate, write, reload | two processes, crash between two files | `CaptureCA` |
| Run command (`cli/run.go`, `cli/args.go`, `dependency_runtime.go`, `process`, `readiness`) | options, child, proxy, uploader, agent, three contexts | accept the options, start in order, wait in its selects, stop in reverse | any part may end at any moment; the probe may meet the wrong listener | `RunLifecycle` |
| Session creation (`apiclient/tunnel_session.go`, `capture_session.go`) | none | request a session, classify its error | errors wrapped, renamed and classified far from the loop that acts on them | `SessionErrors` |
| Control-plane client (`apiclient/client.go`) | per-account lock of the process, stored tokens | read tokens, refresh, retry after 401 | reads before the lock, rotation, lost answers, other processes | `TokenRefresh` |
| Credential store (`oauth/credentials.go`) | keyring and file entry | get, set, delete with fallback | keyring outages, incomplete entries | `CredentialStore` |
| Sign-in and sign-out (`cli/auth_commands.go`, `oauth/callback.go`, `config`) | callback channel, store, configuration | login steps, callbacks, logout with revocation | two places written one after the other, crash, timeout | `SignIn` |
| All commands of one user | the same store, configuration and authorization server | login and logout beside calls of the control plane | a refresh in flight across processes | `Account` |

Interaction: `run` owns everything else. It starts the dependency runtime
(proxy and uploader), the child and the readiness probe, creates a session
through the control-plane client and starts the tunnel agent with the first
ticket. The proxy's request goroutines enqueue events for the uploader; the
uploader's reader installs snapshots the proxy matches against. Agent and
uploader ask the control-plane client for a new session before each attempt,
so both may refresh the tokens at the same time. `login` and `logout` are other
processes that share the credential store and the configuration with it.

Not modelled: the checks of single options and of the fields of a session
answer, endpoint names, header filters, redaction, OAuth metadata, PKCE and URL
building, browser launch, version output and the platform system calls. They
are pure functions of strings or pure I/O; the models see their outcome
(success, retryable error, final error). The cache of leaf certificates depends
on the wall clock over months and is left out too. The reason for each part is
in `PROJECT.json` under `components`.

## Modules and how they correspond to the code

**TunnelContract / TunnelAgent.** `TunnelContract` says what the tunnel promises
its user: every attempt spends a newer ticket, "connected" first and
"reconnected" later, an established tunnel of a reconnecting agent is not given
up, and the end is final. `TunnelAgent` is the loop of `runTicket`, with its local
variables as state. One action stands for what happens between two points at
which the context can be cancelled (acquire, dial, serve, backoff). Whether it
reconnects is chosen in `Init`, and `refusal` is the error of the last session
request or dial that failed. Tickets are
numbered as the control plane issues them. A duration is a number of clock
units, `Second` of them to the second: configured delays may be shorter than a
second, and the jitter of `waitBackoff` makes a wait up to half as long again as
the delay (`wait`, which may exceed the maximum). The history
variables `dials` and `failures` exist for the properties only. The contract is instantiated in `TunnelAgent` with `phase`, `attempt` and `spent`
computed from the loop.

**SessionErrors.** How a session request ends without a session, what `run` makes
of the error (`mapTunnelSessionError`, `mapCaptureSessionError`) and which
errors are retried. An unreadable credential file is one of the retried errors,
since its `Errno` is a `net.Error` (`StoreFault`); credentials that cannot be
decoded are final. `TunnelAgent` and `CaptureUploader` both use it, as both
loops do in the code; the request itself is the loop of `TokenRefresh`.

**TunnelConnection.** One process for the read loop, one for the watcher
goroutine, one per request. Taking the mutex and writing are two actions, so a
writer blocked by a gateway that does not read holds the mutex. The network may
break, stall and resume at any moment.

**EventStream / CaptureUploader.** `Run` and the select loop are one process, each connection
has a reader process that can outlive it. An event is in the queue, being
written, sent or lost; `Enqueue` refuses on a full queue. Snapshots have versions.
`EventStream` says what the uploader promises about events, without sessions,
dials, pings and readers: accepted events leave in order, each is delivered or
lost, one is lost only with a connection given up, no more than the queue and the
event in hand are kept, nothing leaves after the end. `CaptureUploader`
instantiates it (`Stream`): `settled` is what is neither queued nor being
written, `givenUp` the number of closed sockets, `ended` that `Run` has returned.

**DependencyProxy.** Each connection is plain, intercepted or passthrough and
walks through `handleConnect`, `hijack`, the handshake and keep-alive requests;
every step can fail. Closing a socket, adding it to the list and removing it are
steps of their own, on each path the ones the code makes: a failed hijack closes
only the dependency's side, a failed answer closes the client and then the
dependency, the end of a copy runs the deferred calls one by one. A response
that was written completely may never reach an application that has left; one
that breaks off ends the connection only if its length was announced. `tracked`
is the map of hijacked connections, `toClose` the copy that the shutdown walks
over.

**BodyCapture.** A body is its length and the set of offsets at which its text may
be cut. The transport may go on reading the body of a forwarded request after
an early response; a response, and the request of a replay, are read by the
handler itself (`concurrent`). A decoded body is captured when the whole stream
decodes, or as soon as a part of it yields more than the limit (`enough`); the
Content-Type may be longer than the protocol allows (`longType`).

**CaptureCA.** Commands of one user on one directory. Each read, existence
check, creation, write and sync is a step: a file is readable once it is written,
and removed when its write, sync or close fails after that. A crash leaves what
was written. `used` remembers the authorities that were loaded.

**RunLifecycle.** `App.run` with its deferred calls in order, for every
combination of options: with or without a child and a proxy, with one port for
both or not, with an option that is refused. The goroutines it starts appear by
how they start, report and end; the readiness probe is answered by whatever
listens on the port, which may be run's own proxy (`ready = "self"`).

**CredentialStore / TokenRefresh.** The store is a set of operators over a keyring
that may be unavailable and a file; an entry without a refresh token is refused
when it is read. A call that changes the file is done, has failed, or fails late,
after it has replaced the file (`FileResults`); which of these errors is reported
is `SetSucceeds` and `DeleteSucceeds`. `TokenRefresh` models `Client.do` and
`Client.credentials` per caller, for callers of one and of several processes, a lock per process, a
server that may rotate refresh tokens, and answers that are lost on either side.
The histories `exchanged`, `again`, `raced` and `spoiled` record who sent which
refresh token after it was exchanged, and whose replacement was never recorded.

**SignIn.** `login` step by step, with its two discoveries, the callback server's
`once` and buffered channel, the exchange, the verification and the two writes,
and `logout` with the revocation. A command may crash between any two steps.

**Account.** `SignIn` composed with `TokenRefresh` (`INSTANCE ... WITH pc <- step`)
over one store and one authorization server. A client starts when it finds a
configuration and goes on whatever login and logout do later; their steps
interleave with every step of a refresh. `loose` records what the code leaves
unsettled: the last write of login or logout happened while a refresh held the
credentials it had read, or an unavailable keyring or a file that could not be
removed kept another entry (`Misses`), or a login ended between its two writes
(`EndsBetweenWrites`). The next write that misses nothing resets it, so crashes
and outages before and after are all covered.

## Runs

Deadlock is checked except in the proxy and the CA, which may really stop.

| Run | Checks | Shows |
|---|---|---|
| `tunnel_agent` | `TicketSingleUse`, `SingleAttemptWithoutReconnect`, `BackoffSchedule`, `WaitInRange`, `TerminalAnswerIsFinal`, `CancelStops`, `Recovers`, `ImplementsContract` | with and without reconnect: no ticket is presented twice, the delay doubles and starts over only on a connection, every wait lies between the shorter of the two effective delays and one and a half times the longer, final answers of gateway and control plane end the loop, a lost tunnel comes back |
| `tunnel_connection` | `ExclusiveWrite`, `NoHandlerAfterReturn`, `AnsweredAtMostOnce`, `CancelReturns`, `RequestsAnswered` | one writer, no goroutine left, one answer per request, no deadlock on a gateway that does not read |
| `capture_uploader` | `UploadInOrder`, `CancelStops`, `ReadersEnd`, `EventsLeave` | order and conservation of events, at most one lost per connection, termination |
| `capture_latest` (violation) | `LatestSnapshotHeld` | an old reader overwrites a newer snapshot |
| `run_lifecycle` | `TunnelNeedsEverything`, `NothingLeftBehind`, `ZeroIsOrderly`, `ProxyOutlivesChild`, `SignalReturns`, `PartEndReturns` | the tunnel opens only onto the application's port, order of start and stop, exit code, termination |
| `token_refresh` | `RefreshTokenUsedOnce`, `SignedOutOnlyByAuthority`, `RetryUsesNewToken`, `CallsEnd` | no process sends a token again that it exchanged, a session is lost only to the authority, a lost answer or a race of two processes, useful retries, the lock is given back |
| `dependency_proxy` | `EndedIsReleased`, `HijackedIsTracked`, `EventIsTruthful`, `ShutdownEndsTracked` | no leaked connection on any path, ORIGIN only for what the dependency completed and REPLAY only without it, shutdown with silent peers |
| `body_capture` | `BodyAccepted`, `ValidTextIsCaptured` | every composed body, of a request or a response, is valid but for a long Content-Type or an upload still being read, and valid text is captured |
| `capture_ca` | `AllUseTheSameCA`, `MismatchNeedsRace` | all commands ever load one authority, the one whose key is on disk; no mismatched pair without a race, whatever fails or crashes |
| `capture_ca_race` (violation) | `PersistedCAIsUsable` | two first commands leave an unusable pair |
| `account` | `StoredIsVerified`, `FirstOutcomeDecides`, `ConfigAgrees`, `LogoutIsFinal`, `LoginEnds` | beside clients that refresh: only confirmed credentials, the first callback decides, store and configuration agree and a logout stays one, with the exceptions that `loose` records, logins end |
| `login_already` (violation) | `LoginSignsIn` | a login after one that died says there is nothing to do, and the user stays signed out |

The violation runs state a sentence of the repository's documentation or of the
program's own messages; `PROJECT.json` quotes it under `findings` and says what
the code does.

### Bounds

- `TunnelAgent`: up to six failures with the delays a `run` uses (none
  configured, hence 1 second and at most 30), so that the delay doubles, reaches
  its maximum, stays there and starts over; the clock counts half seconds, which
  leaves room for jitter. Other delays, and finer clocks, are left to the proofs.
- `TunnelConnection`: two requests and two pings: one writer can block the other
  and the read loop.
- `CaptureUploader`: three events for a queue of two, one failure, hence two
  connections, so the reader of the first meets the second.
- `DependencyProxy`: a plain or intercepted connection with two keep-alive
  requests beside a passthrough tunnel, and one change of the snapshot. The
  connections share the list and the shutdown only; the proofs take any number.
- `BodyCapture`: limit four and bodies of up to six bytes; a character has up to
  four bytes, so it can cover the whole preview or be cut anywhere.
- `CaptureCA`: three commands and four starts in all: two race while a third has
  read a file that is removed again, and one crashes and starts again.
- `TokenRefresh`: three callers, two of one process and one of another; one
  expiry or rejection, which all of them meet; two faults (a lost request or
  answer, a save or deletion that fails, a keyring outage, a revocation).
- `Account`: two logins with two callback requests each, so that a second
  callback meets a refusal, a timeout and the end of the login; one client that
  refreshes, one expiry or rejection, one fault: a refresh meets a logout, and a
  login of another user. The file writes of login and logout may fail at any
  time and do not count as faults. `AccountProofs` takes any number of logins,
  clients and faults.
- `login_already`: two logins, the first of which crashes, one callback request.
- `RunLifecycle` is finite as it is.

### Observations without a run

Modelling the code showed behaviours that no property states, because the code
does not prevent them:

- A `logout` while a `run` refreshes: the refresh stores new credentials after
  logout removed them, although the comment at `auth_commands.go:387` calls the
  local logout complete. `LogoutIsFinal` excludes it (`Refreshing` in `Misses`);
  waiting for the lock with older credentials is harmless.
- In the same way a refresh in flight stores its tokens over those of a newer
  login, or deletes them on `invalid_grant`: `ConfigAgrees` excludes it.
- A call answered 401 after another call has already refreshed compares the
  re-read token with one it read itself (`client.go:91`), and refreshes the
  fresh token again; the comment at `client.go:80` expects a reuse.
- `logout` and the undo of a login ignore errors. With the file fallback `Delete`
  drops that of an unavailable keyring (`credentials.go:196`): a logout during an
  outage prints that the user is signed out while the keyring keeps the tokens
  for its return. The undo ignores every error (`auth_commands.go:284`), and a
  write to the keyring that of removing the obsolete file (`credentials.go:182`).
  What stays behind is the second exception of `ConfigAgrees` and `LogoutIsFinal`.
- `FileStore.Set` can fail at its last `Chmod` (`credentials.go:146`), after it has
  replaced the file: the login then reports an error and has stored its tokens.
- An unreadable credential file is asked for again for ever: its error wraps an
  `Errno` (`credentials.go:108`), which `IsRetryable` takes for a network error
  (`tunnel_session.go:117`).
- The refresh lock is per process. With rotating refresh tokens, two `run`
  commands that refresh at once make one of them delete the session:
  `SignedOutOnlyByAuthority` names the race (`raced`) among the causes.
- `logout` without a configuration cannot tell the account and leaves the
  credentials where they are; those of another deployment stay in any case.
- A login without `offline_access` stores credentials that
  `decodeCredentials` refuses at the next read.
- A status 500 of the control plane ends the agent and the uploader, while any
  5xx of the gateway is retried. The first session of `run` is not retried at all.
- A leaf certificate stays in the cache of the proxy beyond its month.
- `SizeBytes` of a decoded body is the size of the decoded copy
  (`capture.go:97`), where `message.go:49` promises that of the complete body.
- A response that breaks off and has no Content-Length reaches the application
  as a complete chunked response, since `forward` only returns
  (`proxy.go:187`); there is no event for it.
- An ORIGIN event says that the dependency completed its response, not that the
  application received it: the last write goes into the buffer of `net/http`.
- A Content-Type of more than 255 bytes, which `normalizedContentType` does not
  cut (`capture.go:191`), makes validation refuse the event (`validation.go:162`).
- When `Sync` or `Close` of the certificate fails, the file is removed although
  another command may have loaded it (`ca.go:79`); that command serves a
  certificate that is not on disk any more. Later commands find the key alone
  and end with an error.
- A chunked upload that is still read while its event is composed can make the
  preview longer than the recorded size; the event is then refused and dropped.
- A connection hijacked after the shutdown copied its list is not closed by it.

### Fairness

Runs that check no liveness use `Spec`, without fairness. Liveness is checked under `FairSpec`: weak fairness of the steps of goroutines (the Go scheduler runs
them), of calls with a timeout (HTTP requests, dials, timers fire), and of reads
that fail once the socket is closed. Strong fairness is used where several
parties compete: the write mutex (`sync.Mutex` hands over to a starving waiter)
and the cases of a Go select, which picks among the ready ones at random. The
environment is never obliged to fail, to answer a ping, to cancel or to read.
A connection that is being served ends only by the environment, or when the
context is cancelled. In `Account` only the timer of a login and the calls of
login and logout are fair: nobody has to call the control plane.

## Proofs

Eight modules hold theorems, each about one component and its specification
(`DependencyProxyProofs` about two: the proxy, and the bodies of its events), for
every value of the constants that the assumptions allow. Every module states an
inductive invariant `IInv` as a conjunction of named parts, proves
`Init => IInv` and `IInv /\ [Next]_vars => IInv'` (one step per action, split
into lemmas per part where the parts are large), and derives the properties of
the runs from it. TLC evaluates every assumption in a run of the same module.

| Module | Theorems | For any |
|---|---|---|
| `TunnelAgentProofs` | `AgentTicketSingleUse`, `AgentSingleAttempt`, `AgentWaitInRange`, `AgentTerminalAnswer`, `AgentBackoffSchedule`, `AgentTypes`, `AgentTicketHeldOnce`, `AgentImplementsContract` (a refinement) | delays (integers, also negative ones: `DelayAssumption`), clock units (`SecondAssumption`), reconnect or not, number of failures |
| `TunnelConnectionProofs` | `ConnectionExclusiveWrite`, `ConnectionNoHandlerAfterReturn`, `ConnectionAnsweredAtMostOnce` | finite set of requests, number of pings |
| `CaptureUploaderProofs` | `UploaderInOrder`, `UploaderImplementsStream` (a refinement), `UploaderReadersMayEnd` | finite set of events, size of the queue, number of failures and snapshots |
| `DependencyProxyProofs` | `ProxyEndedIsReleased`, `ProxyHijackedIsTracked`, `ProxyEventIsTruthful` | set of connections, number of requests and snapshots |
| `DependencyProxyProofs`, last section | `BodyIsAccepted`, `BodyTextIsCaptured` of `BodyCapture` | limit, length of the body, encoding, places where its text may be cut |
| `CaptureCAProofs` | `CAAllUseTheSame`, `CAMismatchNeedsRace` | set of commands, number of starts |
| `RunLifecycleProofs` | `RunTunnelNeedsEverything`, `RunNothingLeftBehind`, `RunZeroIsOrderly`, `RunProxyOutlivesChild` | (finite as it is) |
| `TokenRefreshProofs` | `RefreshUsedOnce`, `RefreshSignsOutForReason`, `RefreshRetryUsesNewToken`, `RefreshIsExclusive` (an action property) | callers in any processes, rotation or not, fallback file or not |
| `AccountProofs` | `AccountStoredIsVerified`, `AccountFirstOutcome`, `AccountConfigAgrees`, `AccountLogoutIsFinal` | logins, callback requests, client processes |

Each of them also lists its invariant (`ConnectionInvariant`, `UploaderInvariant`
and so on), which includes the type invariant of the component (for `Account`, the
types the argument needs). The assumptions say that bounds are natural numbers,
options Booleans, and that `Nobody`, `NoEvent` and `Ping` name no caller and no
event; `Requests` and `Events` are finite because a wait group and a set of lost
events are counted.

Why the invariants are what they are:

- **TunnelAgent.** A new ticket is fresh only because every ticket presented or
  held was issued before (`TicketsIssued`), and the initial one is unused because
  it is held in one place until the first dial (`TicketHeldOnce`).
  `OnceBeforeStop` says where an agent without reconnect may have dialed;
  `DialPresented` and `ResultAtStop` serve the refinement, in which a dial in
  flight maps to an attempt and a result to the end. A terminal error is never
  followed by an attempt because no error the property calls terminal is
  retryable (`TerminalNotRetried`). `NextContract` maps every action to a step of
  the contract or a stutter.
  `AgentBackoffSchedule` needs more than the invariant of the step: the wait after
  `k` failures is compared with a power of two, the recursive function `TwoTo`.
  That `TwoTo` satisfies its equation is proved by induction over the naturals,
  written as an argument about the least counterexample (`LeastNatural`, from
  `WFMin` and `NatLessThanWellFounded`): finite tables of the powers exist
  (`TablesExist`) and agree where they overlap (`TablesAgree`), so the function is
  what they say (`TwoToUnfolds`). `NextScheduled` is then one doubling cut at the
  maximum, also for the delays a configuration may turn around.
- **TunnelConnection.** The mutex is a Boolean, so exclusive writing needs
  `MutexHeldByWriter`; that no handler is left when `Wait` returns needs
  `WaitGroupCounts`, the counter as the cardinality of the running handlers.
- **CaptureUploader.** `QueueIsSuffix` says that the queue is the end of the
  sequence of accepted events and the event in `WriteJSON` the one before it;
  `SentOrLost` and `SentInOrder` divide what came earlier. `ConnIsOpen` makes a
  failed write close a connection that was not closed before, so that every lost
  event has one of its own. `ImpliesUploadInOrder` puts the parts together again
  as one sequence. The refinement (`NextStream`) rests on the same invariant: a
  write that ends, well or not, settles exactly the oldest event
  (`WrittenIsNext`), and a connection that returns adds one to the closed ones.
  Taking an event out of the queue, pings, dials, backoff and readers are
  stutters. `OneReaderPerConn` says that a connection has one reader, which has
  reported nothing before it ends; with `ConnIsOpen` it gives
  `ReadersMayEnd`, the part of `ReadersEnd` that is not fairness.
- **DependencyProxy.** Each part says of one connection what its place in the
  handler fixes (`Local`): which use it has (`PlaceOf`), which socket the proxy
  has closed itself by then (`ClosedSides`), which side is in the list
  (`TrackedSides`), and how far the dependency and the event of the current
  request are (`EventFollowsOrigin`, which keeps REPLAY truthful when the snapshot
  changes between the choice and the answer). `LocalSuffices` reduces a step to
  the connection that makes it; the steps of the shutdown only close sockets.
  `UpstreamIsPassthrough` tells which connections have a second side to release.
- **BodyCapture.** `PreviewIsPrefix` ties the preview to what was read up to the
  limit, `SizeTaken` says of which moment the size is and who may read on
  afterwards, `BodyComposed` that the event was made of these two. Trimming
  stops at a boundary of a character, and valid text has one within three bytes
  before any place that is none (`BoundaryNearby`, from the least boundary after
  that place), hence at most three bytes are lost. The
  theorems stand in `DependencyProxyProofs` with the capture as an instance of
  its own constants and variables, because the bodies belong to the events of
  the proxy; their hypotheses are `BodyCapture`'s own assumption.
- **CaptureCA.** A certificate that was read, or loaded, may be removed again, so
  the argument goes by the key: each file has one writer (`OneWriter`), a start
  writes only the pair it has generated (`OwnPairs`), and nobody has seen its
  certificate before its key was written, synced and closed (`KeyFirst`), after
  which nobody removes the key. Without a race
  one command is inside `LoadOrCreateCA` (`OneBusy`) and finds the files as its
  own steps left them (`OwnFiles`).
- **RunLifecycle.** `StartsInOrder` says how far `run` must have got before a part
  can exist, `CancelledAfterwards` and `ChildStoppedFirst` order the deferred
  calls, `ClosedByContext` excludes that the proxy closes by itself, and
  `ProxyHasItsPort` that it answers the readiness probe.
- **TokenRefresh.** `RefreshTokenUsedOnce` alone says nothing of the tokens that
  are still around. A stored token that was exchanged is about to be replaced by
  the holder of the lock or is spoiled (`StoredIsUnsent`), one about to be sent
  was not exchanged by its process (`SentIsUnsent`), and tokens not saved yet are
  known to their caller alone (`NewTokensPrivate`, `LockHeld`). Every known token
  is accepted or there is a reason why not (`KnownAreAccepted`,
  `DeniedForReason`). `RejectedIsGone` carries a rejected access token over the
  first read and the wait for the lock. `RefreshIsExclusive` is about steps: while
  a call is between its second read and its save, `LockHeld` leaves nobody of its
  process who could write the store, so read, exchange and write are one change.
- **Account.** Between `SetStore` and the end of a login the store belongs to the
  new login although the configuration may name the old one: `Owner`.
  `OwnerAgrees` says that both backends and every refresh in flight belong to the
  owner unless `loose`; `OutIsEmpty` that after the deletion by logout, and while
  nobody is signed in, nothing is stored and no refresh is left to store it again.
  `WriteSteps` finds the steps that write the store for a command, and
  `WriteKeeps` shows that they settle it unless they count as `Misses`. The
  lemma `ClientEffect` reduces the actions of `TokenRefresh` to the five ways in
  which they can touch the store, so the two components are proved together
  without repeating the proof of either.

The proof of `AccountLogoutIsFinal` corrected the model: a write of login or logout
used to count as missing a refresh only when it changed the store. With two
client processes a logout that deletes an already empty store during the refresh
of another process also loses the race; now every write counts (`WritesStore`).

Only model-checked: liveness (`CancelStops`, `Recovers`, `CancelReturns`,
`RequestsAnswered`, `ReadersEnd`, `EventsLeave`, `SignalReturns`, `PartEndReturns`,
`CallsEnd`, `ShutdownEndsTracked`, `LoginEnds`), since the prover reasons about
neither fairness nor ENABLED. The three violated properties are refuted by TLC.
`ImplementsStream` is the other way round: it was model-checked on the instance
of `capture_uploader` before it was proved, and is part of no run, as the theorem
says it for every instance.

## Plan

1. Model more: the cache of leaf certificates (`CertificateFor`), and a
   composition of `RunLifecycle` with the contract of the tunnel in place of its
   `agent` variable.
2. An abstract specification of a refresh (one exchange per token) for
   `TokenRefresh`, from `RefreshInvariant` and `RefreshIsExclusive`; the proxy
   composed with `EventStream` in place of its emitted events.
3. An action property of the store across commands: in `Account` it is written
   only by the holder of the lock of its process, a login or a logout.
