------------------------------- MODULE SignIn -------------------------------
(***************************************************************************)
(* The login and logout commands of src/internal/cli/auth_commands.go with *)
(* the callback server of src/internal/oauth/callback.go.  The commands of *)
(* one user run one after the other and share two places that are not      *)
(* written together: the credential store and the configuration file.      *)
(* Every command may crash between two steps, the keyring may come and go, *)
(* and several requests may reach the callback.  Tokens are numbered as    *)
(* the server issues them; the user and the configuration are numbered by  *)
(* the login that made them.  Account composes this module with the        *)
(* commands that use the credentials meanwhile.                            *)
(***************************************************************************)
EXTENDS CredentialStore

CONSTANTS
    Requests,        \* requests that reach the callback of one login
    MaxLogins,       \* bound: logins that start
    AllowFile,       \* the user allowed the fallback credential file
    OptionalOffline  \* a login may ask for scopes without offline_access

ASSUME SignInAssumption ==
    MaxLogins \in Nat /\ AllowFile \in BOOLEAN /\ OptionalOffline \in BOOLEAN

NoConfig == 0
NoOutcome == "none"

\* What one callback request makes of its login.
Outcomes == {"code", "denied", "invalid"}

VARIABLES
    pc,        \* step of the running command, "idle" between commands
    command,   \* the last command: "none", "login" or "logout"
    answer,    \* what it reported: "none", "ok" or "error"
    store,     \* keyring and file (CredentialStore)
    up,        \* the keyring is available
    config,    \* login whose OAuth settings the configuration file holds
    login,     \* number of the current login
    tokens,    \* what the login obtained, or what the logout read
    live,      \* refresh tokens the authorization server accepts
    issued,    \* number of the last access token issued
    stale,     \* access tokens that expire within the minute
    deadline,  \* the login context has expired or was cancelled
    handler,   \* request -> "new", "open" or "done"
    result,    \* the buffered channel of the callback server
    once,      \* the first outcome the once of the callback server saw
    verified   \* history: logins whose token the API confirmed

cmd == <<pc, command, answer>>
local == <<config, login, tokens>>
server == <<live, issued, stale>>
callback == <<handler, result, once>>
vars == <<cmd, store, up, local, server, deadline, callback, verified>>

Init ==
    /\ pc = "idle" /\ command = "none" /\ answer = "none"
    /\ store = [keyring |-> NoCredentials, file |-> NoCredentials]
    /\ up = TRUE
    /\ config = NoConfig /\ login = 0 /\ tokens = NoCredentials
    /\ live = {} /\ issued = 0 /\ stale = {}
    /\ deadline = FALSE
    /\ handler = [r \in Requests |-> "new"]
    /\ result = NoOutcome /\ once = NoOutcome
    /\ verified = {}

Return(a, to) == answer' = a /\ pc' = to /\ UNCHANGED command

\* login reads the configuration file and its options, and ends when they are
\* not valid.
Login ==
    /\ pc = "idle"
    /\ login < MaxLogins
    /\ login' = login + 1
    /\ tokens' = NoCredentials
    /\ deadline' = FALSE
    /\ handler' = [r \in Requests |-> "new"]
    /\ result' = NoOutcome
    /\ once' = NoOutcome
    /\ command' = "login"
    /\ \/ answer' = "error" /\ pc' = "idle"
       \/ answer' = "none" /\ pc' = "configure"
    /\ UNCHANGED <<store, up, config, server, verified>>

\* The control plane advertises the settings that were not given, or the login
\* fails.  Unless --force was given, the store is then asked whether there is
\* anything to do.
DiscoverLoginConfiguration(force) ==
    LET current == Get(store, up, AllowFile)
        valid == Found(current) /\ current.at \notin stale
    IN
    /\ pc = "configure"
    /\ \/ Return("error", "idle")
       \/ ~force /\ valid /\ Return("ok", "idle")
       \/ (force \/ ~valid) /\ Return("none", "discover")
    /\ UNCHANGED <<store, up, local, server, deadline, callback, verified>>

\* The metadata is fetched and accepted, and the callback listens, or the
\* login fails.
Discover ==
    /\ pc = "discover"
    /\ \/ ~deadline /\ Return("none", "wait")
       \/ Return("error", "idle")
    /\ UNCHANGED <<store, up, local, server, deadline, callback, verified>>

Listening == pc \in {"wait", "exchange", "verify", "setStore", "saveConfig", "undo"}

\* A request reaches the callback path while the server accepts connections.
Request(r) ==
    /\ Listening
    /\ handler[r] = "new"
    /\ handler' = [handler EXCEPT ![r] = "open"]
    /\ UNCHANGED <<cmd, store, up, local, server, deadline, result, once, verified>>

Mut_complete(outcome) ==
    once' = (IF once = NoOutcome THEN outcome ELSE once) /\ result' = outcome

\* CallbackServer.complete: only the first outcome enters the channel.
complete(outcome) ==
    IF once = NoOutcome THEN once' = outcome /\ result' = outcome
    ELSE UNCHANGED <<once, result>>

\* The handler answers the browser and completes; a request with another
\* method than GET is answered only.
Handle(r) ==
    /\ handler[r] = "open"
    /\ handler' = [handler EXCEPT ![r] = "done"]
    /\ \/ \E outcome \in Outcomes : complete(outcome)
       \/ UNCHANGED <<once, result>>
    /\ UNCHANGED <<cmd, store, up, local, server, deadline, verified>>

\* The listener fails: the callback server completes with that error.
ListenerFails ==
    /\ Listening
    /\ complete("invalid")
    /\ UNCHANGED <<cmd, store, up, local, server, deadline, handler, verified>>

\* The login timeout, or a signal that cancels the command.
Timeout ==
    /\ pc \in {"discover", "wait", "exchange", "verify"}
    /\ ~deadline
    /\ deadline' = TRUE
    /\ UNCHANGED <<cmd, store, up, local, server, callback, verified>>

Mut_Wait ==
    /\ pc = "wait"
    /\ result # NoOutcome
    /\ result' = NoOutcome
    /\ IF result = "code" THEN Return("none", "exchange") ELSE Return("error", "close")
    /\ UNCHANGED <<store, up, local, server, deadline, handler, once, verified>>

\* CallbackServer.Wait: the select takes an outcome or the end of the context,
\* either one when both are ready.
Wait ==
    /\ pc = "wait"
    /\ \/ /\ result # NoOutcome
          /\ result' = NoOutcome
          /\ IF result = "code" THEN Return("none", "exchange") ELSE Return("error", "close")
       \/ deadline /\ Return("error", "close") /\ UNCHANGED result
    /\ UNCHANGED <<store, up, local, server, deadline, handler, once, verified>>

\* ParseTokenResponse accepts an answer without a refresh token unless
\* offline_access was asked for.
RefreshTokens == {issued + 1} \cup (IF OptionalOffline THEN {0} ELSE {})

\* oauth.ExchangeCode within the login context.
Exchange ==
    /\ pc = "exchange"
    /\ \/ /\ ~deadline
          /\ issued' = issued + 1
          /\ \E rt \in RefreshTokens :
                /\ tokens' = [at |-> issued + 1, rt |-> rt, user |-> 0]
                /\ live' = live \cup ({rt} \ {0})
          /\ Return("none", "verify")
       \/ Return("error", "close") /\ UNCHANGED <<issued, tokens, live>>
    /\ UNCHANGED <<store, up, config, login, stale, deadline, callback, verified>>

Mut_VerifyLogin ==
    /\ pc = "verify"
    /\ \/ ~deadline /\ verified' = verified \cup {login}
       \/ UNCHANGED verified
    /\ tokens' = [tokens EXCEPT !.user = login]
    /\ Return("none", "setStore")
    /\ UNCHANGED <<store, up, config, login, server, deadline, callback>>

\* VerifyLogin: the API names the user of the fresh token before anything is
\* stored.
VerifyLogin ==
    /\ pc = "verify"
    /\ \/ /\ ~deadline
          /\ tokens' = [at |-> tokens.at, rt |-> tokens.rt, user |-> login]
          /\ verified' = verified \cup {login}
          /\ Return("none", "setStore")
       \/ Return("error", "close") /\ UNCHANGED <<tokens, verified>>
    /\ UNCHANGED <<store, up, config, login, server, deadline, callback>>

\* The credentials are stored before the configuration that names them.
SetStore(file) ==
    /\ pc = "setStore"
    /\ store' = Set(store, up, AllowFile, file, tokens)
    /\ IF SetSucceeds(up, AllowFile, file) THEN Return("none", "saveConfig")
       ELSE Return("error", "close")
    /\ UNCHANGED <<up, local, server, deadline, callback, verified>>

\* config.Save replaces the file in one step; it may fail before or after.
SaveConfig ==
    /\ pc = "saveConfig"
    /\ \/ Return("ok", "close") /\ config' = login
       \/ Return("none", "undo") /\ config' \in {config, login}
    /\ UNCHANGED <<store, up, login, tokens, server, deadline, callback, verified>>

Mut_Undo(file) ==
    /\ pc = "undo"
    /\ Return("error", "close")
    /\ UNCHANGED <<store, up, local, server, deadline, callback, verified>>

\* Without a configuration the credentials are removed; an error is ignored.
Undo(file) ==
    /\ pc = "undo"
    /\ store' = Delete(store, up, file)
    /\ Return("error", "close")
    /\ UNCHANGED <<up, local, server, deadline, callback, verified>>

\* The deferred CallbackServer.Close waits for open handlers, but at most two
\* seconds; the command ends either way and its handlers with it.
Close ==
    /\ pc = "close"
    /\ pc' = "idle"
    /\ handler' = [r \in Requests |-> "done"]
    /\ UNCHANGED <<command, answer, store, up, local, server, deadline, result, once,
                   verified>>

\* logout without OAuth settings rewrites the configuration file at most;
\* otherwise it reads the credentials and removes them first.
Logout(file) ==
    /\ pc = "idle"
    /\ command' = "logout"
    /\ \/ /\ config = NoConfig
          /\ answer' \in {"ok", "error"}
          /\ pc' = "idle"
          /\ UNCHANGED <<store, tokens>>
       \/ /\ config # NoConfig
          /\ tokens' = Get(store, up, AllowFile)
          /\ store' = Delete(store, up, file)
          /\ IF DeleteSucceeds(up, AllowFile, file) THEN answer' = "none" /\ pc' = "clear"
             ELSE answer' = "error" /\ pc' = "idle"
    /\ UNCHANGED <<up, config, login, server, deadline, callback, verified>>

\* It then clears the OAuth settings, which may fail before or after the
\* file was replaced.
ClearConfig ==
    /\ pc = "clear"
    /\ \/ Return("none", "revoke") /\ config' = NoConfig
       \/ Return("error", "idle") /\ config' \in {config, NoConfig}
    /\ UNCHANGED <<store, up, login, tokens, server, deadline, callback, verified>>

\* Revoking the refresh token is best effort: it may not be offered, or fail.
RevokeToken ==
    /\ pc = "revoke"
    /\ \/ Found(tokens) /\ live' = live \ {tokens.rt}
       \/ UNCHANGED live
    /\ Return("ok", "idle")
    /\ UNCHANGED <<store, up, local, issued, stale, deadline, callback, verified>>

\* The command dies between two steps.
Crash ==
    /\ pc # "idle"
    /\ Return("none", "idle")
    /\ handler' = [r \in Requests |-> "done"]
    /\ UNCHANGED <<store, up, local, server, deadline, result, once, verified>>

\* Time passes for an access token.
Expire(t) ==
    /\ t \notin stale
    /\ stale' = stale \cup {t}
    /\ UNCHANGED <<cmd, store, up, local, live, issued, deadline, callback, verified>>

\* The keyring becomes unavailable, or available again.
KeyringFlips ==
    /\ up' = ~up
    /\ UNCHANGED <<cmd, store, local, server, deadline, callback, verified>>

LoginStep ==
    \/ \E force \in BOOLEAN : DiscoverLoginConfiguration(force)
    \/ Discover
    \/ Wait
    \/ Exchange
    \/ VerifyLogin
    \/ \E file \in FileResults : SetStore(file) \/ Undo(file)
    \/ SaveConfig
    \/ Close

LogoutStep == ClearConfig \/ RevokeToken

\* What the two commands and the browser do.
CommandStep ==
    \/ Login
    \/ LoginStep
    \/ \E r \in Requests : Request(r) \/ Handle(r)
    \/ ListenerFails
    \/ Timeout
    \/ \E file \in FileResults : Logout(file)
    \/ LogoutStep
    \/ Crash

Next ==
    \/ CommandStep
    \/ \E t \in 1..issued : Expire(t)
    \/ KeyringFlips

Spec == Init /\ [][Next]_vars

----------------------------------------------------------------------------
(* Properties.                                                             *)

\* Type invariant of the sign-in commands.
TypeOK ==
    /\ pc \in {"idle", "configure", "discover", "wait", "exchange", "verify", "setStore", "saveConfig",
               "undo", "close", "clear", "revoke"}
    /\ command \in {"none", "login", "logout"}
    /\ answer \in {"none", "ok", "error"}
    /\ issued \in Nat
    /\ store \in [keyring : [at : 0..issued, rt : 0..issued, user : 0..login],
                 file : [at : 0..issued, rt : 0..issued, user : 0..login]]
    /\ up \in BOOLEAN /\ deadline \in BOOLEAN
    /\ config \in 0..login /\ login \in 0..MaxLogins
    /\ tokens \in [at : Nat, rt : Nat, user : 0..login]
    /\ live \subseteq 1..issued /\ stale \subseteq 1..issued
    /\ handler \in [Requests -> {"new", "open", "done"}]
    /\ {result, once} \subseteq Outcomes \cup {NoOutcome}
    /\ verified \subseteq 1..login

\* VerifyLogin's "a backend rejection cannot leave partial credentials behind":
\* neither backend nor the configuration ever holds what the API has not
\* confirmed, whatever fails, times out or crashes, and whatever a refresh of
\* another command stores meanwhile.
StoredIsVerified ==
    {store.keyring.user, store.file.user, config} \subseteq verified \cup {0}

\* A login goes on to the token exchange only when the first outcome of the
\* callback server was a code: later requests cannot replace a refusal.
FirstOutcomeDecides == pc \in {"exchange", "verify", "setStore", "saveConfig"} => once = "code"

\* Every login and logout ends, also when the browser never calls back.
LoginEnds == (pc # "idle") ~> (pc = "idle")

\* The advice of the other commands, "Run: mockingo login": when login has
\* answered without an error, they find a configuration and credentials.
LoginSignsIn ==
    pc = "idle" /\ command = "login" /\ answer = "ok" =>
        config # NoConfig /\ Found(Get(store, TRUE, AllowFile))
=============================================================================
