------------------------------ MODULE Account ------------------------------
(***************************************************************************)
(* The commands of one user together: login and logout (SignIn) beside the *)
(* commands that call the control plane and refresh the shared credentials *)
(* (TokenRefresh).  Each runs in a process of its own, so the refresh lock *)
(* of a client keeps neither login nor logout out: they share the keyring, *)
(* the credential file and the authorization server.                       *)
(***************************************************************************)
EXTENDS SignIn

CONSTANTS
    Callers,    \* goroutines that call the control plane
    ProcessOf,  \* the process each caller runs in
    Rotates,    \* whether the authorization server rotates refresh tokens
    MaxAging,   \* bound: how often an access token ages or is rejected
    MaxFaults   \* bound: lost calls, failing writes, keyring outages, revocation

VARIABLES
    running,    \* callers whose command has found a configuration
    step,       \* where each caller is in Client.do
    lock, force, seen, cred, tried, dead, exchanged, again, raced, spoiled,
    revoked, aging, faults,
    loose       \* history: what the last write of login or logout has not settled

Client == INSTANCE TokenRefresh WITH pc <- step

client == <<step, lock, force, seen, cred, tried, dead, exchanged, again, raced, spoiled,
            revoked, aging, faults>>
signIn == <<cmd, local, deadline, callback, verified>>
accountVars == <<vars, running, client, loose>>

AccountInit ==
    /\ Init
    /\ running = {}
    /\ step = [c \in Callers |-> "idle"]
    /\ lock = [p \in Client!Processes |-> Client!Nobody]
    /\ force = [c \in Callers |-> FALSE]
    /\ seen = [c \in Callers |-> NoCredentials]
    /\ cred = [c \in Callers |-> NoCredentials]
    /\ tried = [c \in Callers |-> 0]
    /\ dead = {} /\ revoked = FALSE
    /\ exchanged = [p \in Client!Processes |-> {}]
    /\ again = {} /\ raced = {} /\ spoiled = {}
    /\ aging = 0 /\ faults = 0
    /\ loose = FALSE

\* A refresh has read the credentials it will replace or delete.
Refreshing == \E c \in Callers : step[c] \in {"refresh", "save", "denied"}

\* The step has stored the credentials of a login, or removed those of a login
\* that is undone or of a logout, as far as the command knows.
WritesStore ==
    \/ pc = "setStore" /\ pc' = "saveConfig"
    \/ pc = "undo" /\ pc' = "close"
    \/ pc = "idle" /\ pc' = "clear"

\* An entry that is there after such a write and should not be.
Wrong(k) == k # NoCredentials /\ (pc' = "saveConfig" => k # tokens)

\* Such a write does not reach the tokens of a refresh in flight, which are
\* stored after it, nor an entry of an unavailable keyring or of a file that
\* cannot be removed: FallbackStore and the commands ignore these errors.
Misses ==
    \/ Refreshing
    \/ ~up /\ Wrong(store'.keyring)
    \/ store'.file = store.file /\ Wrong(store'.file)

\* A login that ends after it has stored its credentials, because it dies or
\* because the file store fails late, leaves a configuration that does not
\* name them.
EndsBetweenWrites ==
    \/ pc \in {"saveConfig", "undo"} /\ pc' = "idle"
    \/ pc = "setStore" /\ pc' = "close" /\ store' # store

\* A step of login or logout, beside the clients.
Beside(A) ==
    /\ A
    /\ loose' = IF WritesStore THEN Misses ELSE loose \/ EndsBetweenWrites
    /\ UNCHANGED <<running, client>>

\* run and whoami build their client from the configuration file.  The file
\* is read once: a later logout does not stop the client.
StartClient(c) ==
    /\ c \notin running
    /\ config # NoConfig
    /\ running' = running \cup {c}
    /\ UNCHANGED <<vars, client, loose>>

\* The client calls the control plane, or goes on with its call.
ClientStep(c) ==
    /\ c \in running
    /\ Client!Call(c) \/ Client!CredentialsStep(c)
    /\ UNCHANGED <<signIn, running, loose>>

AgeTokens ==
    /\ Client!Age
    /\ UNCHANGED <<signIn, running, loose>>

ServerRevokes ==
    /\ Client!Revoke
    /\ UNCHANGED <<signIn, running, loose>>

KeyringChanges ==
    /\ Client!KeyringFlips
    /\ UNCHANGED <<signIn, running, loose>>

AccountNext ==
    \/ Beside(CommandStep)
    \/ \E c \in Callers : StartClient(c) \/ ClientStep(c)
    \/ AgeTokens
    \/ ServerRevokes
    \/ KeyringChanges

\* The timer of the login fires, and every HTTP, keyring and file call of a
\* command returns.  Nobody has to call the control plane.
AccountFairness ==
    /\ WF_accountVars(Beside(Timeout))
    /\ WF_accountVars(Beside(LoginStep \/ LogoutStep))

AccountSpec == AccountInit /\ [][AccountNext]_accountVars

FairAccountSpec == AccountSpec /\ AccountFairness

----------------------------------------------------------------------------
(* Properties.                                                             *)

\* Between commands the configuration never names one user while the store
\* holds the credentials of another, whether or not the keyring answers:
\* the two are written one after the other, either write may fail, clients
\* refresh meanwhile and wait for the lock with credentials read earlier.
\* There are three exceptions, until a later login or logout writes the store
\* without one of them: it was written while a refresh was in flight
\* (client.go:97), while the unavailable keyring, or a file that cannot be
\* removed, kept another entry (credentials.go:182, 190 and 196,
\* auth_commands.go:284), or a login ended between its two writes.
ConfigAgrees ==
    pc = "idle" /\ ~loose /\ config # NoConfig =>
        \A available \in BOOLEAN : Get(store, available, AllowFile).user \in {0, config}

\* After logout has answered "Signed out" neither backend holds or gets
\* credentials again, however long a run command that started before it goes
\* on calling the control plane, with the same three exceptions: its refresh
\* was in flight when logout deleted, the keyring was unavailable and kept its
\* entry although logout answers that the user is signed out, or logout found
\* no configuration since a login had ended before it saved one.
LogoutIsFinal ==
    pc = "idle" /\ command = "logout" /\ answer = "ok" /\ ~loose => Empty(store)
=============================================================================
