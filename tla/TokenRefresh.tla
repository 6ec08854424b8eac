---------------------------- MODULE TokenRefresh ----------------------------
(***************************************************************************)
(* Control-plane calls and the shared OAuth session they keep alive:       *)
(* Client.credentials and Client.do of src/internal/apiclient/client.go on *)
(* top of CredentialStore.  doWithHeaders (tunnel_session.go) is the same  *)
(* loop as do.  The authorization server is external.  What login and      *)
(* logout of the same user do meanwhile is added by Account.               *)
(*                                                                         *)
(* The callers are the goroutines that call Client.do: in one run command  *)
(* the tunnel agent and the capture uploader ask for sessions at the same  *)
(* time.  The refresh lock is a variable of the process, the credential    *)
(* store is shared by all processes of the user.                           *)
(***************************************************************************)
EXTENDS CredentialStore

CONSTANTS
    Callers,    \* goroutines that call the control plane
    ProcessOf,  \* the process each caller runs in
    AllowFile,  \* FallbackStore.AllowFile
    Rotates,    \* whether the authorization server rotates refresh tokens
    MaxAging,   \* bound: how often an access token ages or is rejected
    MaxFaults   \* bound: lost calls, failing writes, keyring outages, revocation

Nobody == "nobody"

ASSUME TokenRefreshAssumption ==
    /\ DOMAIN ProcessOf = Callers
    /\ Nobody \notin Callers
    /\ AllowFile \in BOOLEAN
    /\ Rotates \in BOOLEAN
    /\ MaxAging \in Nat
    /\ MaxFaults \in Nat

Processes == {ProcessOf[c] : c \in Callers}

VARIABLES
    store,      \* what keyring and file hold
    up,         \* the keyring is available
    lock,       \* holder of each process's refresh lock
    pc,         \* where each caller is
    force,      \* forceRefresh of its current credentials call
    seen,       \* credentials it read before taking the lock, later replaces
    cred,       \* credentials it refreshes with, or calls the API with
    tried,      \* access token the API rejected in its first attempt, or 0
    live,       \* refresh tokens the authorization server accepts
    issued,     \* number of the last access token issued
    stale,      \* access tokens within ExpirySkew of their expiry, or past it
    dead,       \* access tokens the API rejects
    exchanged,  \* history: refresh tokens each process exchanged for new tokens
    again,      \* history: those it sent again afterwards
    raced,      \* history: those another process sent afterwards
    spoiled,    \* history: refresh tokens whose replacement was not recorded
    revoked,    \* history: the authorization server revoked the session
    aging, faults

caller == <<pc, force, seen, cred, tried>>
server == <<live, issued, revoked>>
clock == <<stale, dead, aging>>
history == <<exchanged, again, raced, spoiled>>
vars == <<store, up, lock, caller, server, clock, history, faults>>

First == [at |-> 1, rt |-> 1, user |-> 1]

\* A signed-in user, as login leaves the store.
Init ==
    /\ store = [keyring |-> First, file |-> NoCredentials]
    /\ up = TRUE
    /\ lock = [p \in Processes |-> Nobody]
    /\ pc = [c \in Callers |-> "idle"]
    /\ force = [c \in Callers |-> FALSE]
    /\ seen = [c \in Callers |-> NoCredentials]
    /\ cred = [c \in Callers |-> NoCredentials]
    /\ tried = [c \in Callers |-> 0]
    /\ live = {1} /\ issued = 1 /\ revoked = FALSE
    /\ stale = {} /\ dead = {} /\ aging = 0
    /\ exchanged = [p \in Processes |-> {}]
    /\ again = {} /\ raced = {} /\ spoiled = {}
    /\ faults = 0

----------------------------------------------------------------------------
(* Client.credentials.                                                     *)

Fresh(k) == k.at \notin stale

Unlock(c) == lock' = [lock EXCEPT ![ProcessOf[c]] = Nobody]

\* do returns; its local variables are gone.
Return(c) ==
    /\ pc' = [pc EXCEPT ![c] = "idle"]
    /\ force' = [force EXCEPT ![c] = FALSE]
    /\ seen' = [seen EXCEPT ![c] = NoCredentials]
    /\ cred' = [cred EXCEPT ![c] = NoCredentials]
    /\ tried' = [tried EXCEPT ![c] = 0]

\* do begins with the credentials of an unforced call.
Call(c) ==
    /\ pc[c] = "idle"
    /\ pc' = [pc EXCEPT ![c] = "get"]
    /\ UNCHANGED <<store, up, lock, force, seen, cred, tried, server, clock,
                   history, faults>>

\* The first read, without the lock.
GetFirst(c) ==
    LET k == Get(store, up, AllowFile) IN
    /\ pc[c] = "get"
    /\ \/ /\ ~Found(k)
          /\ Return(c)
       \/ /\ Found(k)
          /\ pc' = [pc EXCEPT ![c] = IF ~force[c] /\ Fresh(k) THEN "send" ELSE "lock"]
          /\ seen' = [seen EXCEPT ![c] = k]
          /\ cred' = [cred EXCEPT ![c] = k]
          /\ UNCHANGED <<force, tried>>
    /\ UNCHANGED <<store, up, lock, server, clock, history, faults>>

Lock(c) ==
    /\ pc[c] = "lock"
    /\ lock[ProcessOf[c]] = Nobody
    /\ lock' = [lock EXCEPT ![ProcessOf[c]] = c]
    /\ pc' = [pc EXCEPT ![c] = "reread"]
    /\ UNCHANGED <<store, up, force, seen, cred, tried, server, clock, history,
                   faults>>

Mut_Reusable(f, old, latest) == Fresh(latest)

\* Whether the credentials found under the lock make a refresh unnecessary.
Reusable(f, old, latest) == Fresh(latest) /\ (f => latest.at # old.at)

\* Under the lock, either the call ends (nothing stored), or the stored
\* credentials are used, or the stored refresh token is sent to the server.
Decide(c, k) ==
    /\ pc[c] = "reread"
    /\ \/ /\ ~Found(k)
          /\ Return(c)
          /\ Unlock(c)
       \/ /\ Found(k)
          /\ cred' = [cred EXCEPT ![c] = k]
          /\ \/ /\ Reusable(force[c], seen[c], k)
                /\ pc' = [pc EXCEPT ![c] = "send"]
                /\ Unlock(c)
             \/ /\ ~Reusable(force[c], seen[c], k)
                /\ pc' = [pc EXCEPT ![c] = "refresh"]
                /\ UNCHANGED lock
          /\ UNCHANGED <<force, seen, tried>>
    /\ UNCHANGED <<store, up, server, clock, history, faults>>

Mut_GetAgain(c) == Decide(c, seen[c])

GetAgain(c) == Decide(c, Get(store, up, AllowFile))

\* The server handles a refresh token a process sent.
Handled(c, r) ==
    /\ exchanged' = [exchanged EXCEPT ![ProcessOf[c]] = @ \cup ({r} \cap live)]
    /\ again' = again \cup ({r} \cap exchanged[ProcessOf[c]])
    /\ raced' = raced \cup
          ({r} \cap UNION {exchanged[p] : p \in Processes \ {ProcessOf[c]}})

\* It answers a valid refresh token with new tokens, and with invalid_grant
\* otherwise.  Without rotation the refresh token stays.
ServerAnswers(c) ==
    LET r == cred[c].rt IN
    /\ pc[c] = "refresh"
    /\ Handled(c, r)
    /\ IF r \in live
       THEN /\ issued' = issued + 1
            /\ live' = IF Rotates THEN (live \ {r}) \cup {issued + 1} ELSE live
            /\ seen' = [seen EXCEPT ![c] = cred[c]]
            /\ cred' = [cred EXCEPT ![c] = [at |-> issued + 1,
                                            rt |-> IF Rotates THEN issued + 1 ELSE r,
                                            user |-> cred[c].user]]
            /\ pc' = [pc EXCEPT ![c] = "save"]
       ELSE /\ pc' = [pc EXCEPT ![c] = "denied"]
            /\ UNCHANGED <<issued, live, seen, cred>>
    /\ UNCHANGED <<store, up, lock, force, tried, revoked, clock, spoiled, faults>>

Mut_RefreshFails(c, reached) ==
    /\ pc[c] = "refresh"
    /\ faults < MaxFaults
    /\ faults' = faults + 1
    /\ reached = FALSE
    /\ store' = Delete(store, up, "done")
    /\ Return(c)
    /\ Unlock(c)
    /\ UNCHANGED <<up, server, clock, history>>

\* The token request fails without an answer, before or after the server
\* handled it (reached): the caller cannot tell, and keeps what is stored.
RefreshFails(c, reached) ==
    LET r == cred[c].rt IN
    /\ pc[c] = "refresh"
    /\ faults < MaxFaults
    /\ faults' = faults + 1
    /\ IF reached
       THEN /\ Handled(c, r)
            /\ live' = IF Rotates THEN live \ {r} ELSE live
            /\ spoiled' = spoiled \cup {r}
       ELSE UNCHANGED <<live, history>>
    /\ Return(c)
    /\ Unlock(c)
    /\ UNCHANGED <<store, up, issued, revoked, clock>>

\* A write that fails is one of the bounded faults.
Fault(happens) ==
    IF happens THEN faults < MaxFaults /\ faults' = faults + 1 ELSE UNCHANGED faults

\* Store.Set.  Older entries remain beside the new one when it goes to the
\* file and the unavailable keyring holds one, or when it goes to the keyring
\* and the file cannot be removed.
Save(c, result) ==
    /\ pc[c] = "save"
    /\ SetSucceeds(up, AllowFile, result)
    /\ Fault(result # "done")
    /\ store' = Set(store, up, AllowFile, result, cred[c])
    /\ spoiled' = spoiled \cup ({k.rt : k \in {store'.keyring, store'.file} \ {cred[c]}} \ {0})
    /\ pc' = [pc EXCEPT ![c] = "send"]
    /\ Unlock(c)
    /\ UNCHANGED <<up, force, seen, cred, tried, server, clock, exchanged, again, raced>>

\* Store.Set fails, since the keyring does not take the new tokens (also one
\* that answers otherwise) and the file is not allowed or fails: they are lost,
\* or stored although the call fails.
SaveFails(c, result) ==
    /\ pc[c] = "save"
    /\ ~SetSucceeds(FALSE, AllowFile, result)
    /\ Fault(up \/ result # "done")
    /\ store' = Set(store, FALSE, AllowFile, result, cred[c])
    /\ spoiled' = spoiled \cup {seen[c].rt}
    /\ Return(c)
    /\ Unlock(c)
    /\ UNCHANGED <<up, server, clock, exchanged, again, raced>>

Mut_Denied(c, result) ==
    /\ pc[c] = "denied"
    /\ Fault(result # "done")
    /\ store' = Delete(store, up, result)
    /\ Return(c)
    /\ UNCHANGED <<up, lock, server, clock, history>>

\* invalid_grant deletes the stored credentials, whatever they are by now; an
\* error of that is ignored.
Denied(c, result) ==
    /\ pc[c] = "denied"
    /\ Fault(result # "done")
    /\ store' = Delete(store, up, result)
    /\ Return(c)
    /\ Unlock(c)
    /\ UNCHANGED <<up, server, clock, history>>

----------------------------------------------------------------------------
(* Client.do.                                                              *)

\* A first 401 leads to a forced refresh and a second attempt.
Unauthorized(c) ==
    /\ pc[c] = "send"
    /\ cred[c].at \in dead
    /\ tried[c] = 0
    /\ tried' = [tried EXCEPT ![c] = cred[c].at]
    /\ force' = [force EXCEPT ![c] = TRUE]
    /\ pc' = [pc EXCEPT ![c] = "get"]
    /\ UNCHANGED <<store, up, lock, seen, cred, server, clock, history, faults>>

\* Any other answer, a second 401 and a failed request end the call.
Responds(c) ==
    /\ pc[c] = "send"
    /\ cred[c].at \in dead => tried[c] # 0
    /\ Return(c)
    /\ UNCHANGED <<store, up, lock, server, clock, history, faults>>

----------------------------------------------------------------------------
(* Time, the authorization server and the keyring.                         *)

\* An access token nears its expiry, or the API stops accepting it.
Age ==
    /\ aging < MaxAging
    /\ aging' = aging + 1
    /\ \E t \in 1..issued :
          \/ stale' = stale \cup {t} /\ UNCHANGED dead
          \/ dead' = dead \cup {t} /\ UNCHANGED stale
    /\ UNCHANGED <<store, up, lock, caller, server, history, faults>>

Revoke ==
    /\ faults < MaxFaults
    /\ faults' = faults + 1
    /\ live' = {}
    /\ revoked' = TRUE
    /\ UNCHANGED <<store, up, lock, caller, issued, clock, history>>

KeyringFlips ==
    /\ faults < MaxFaults
    /\ faults' = faults + 1
    /\ up' = ~up
    /\ UNCHANGED <<store, lock, caller, server, clock, history>>

----------------------------------------------------------------------------
CredentialsStep(c) ==
    \/ GetFirst(c)
    \/ Lock(c)
    \/ GetAgain(c)
    \/ ServerAnswers(c)
    \/ \E reached \in BOOLEAN : RefreshFails(c, reached)
    \/ \E result \in FileResults : Save(c, result) \/ SaveFails(c, result) \/ Denied(c, result)
    \/ Unauthorized(c)
    \/ Responds(c)

Next ==
    \/ \E c \in Callers : Call(c) \/ CredentialsStep(c)
    \/ Age
    \/ Revoke
    \/ KeyringFlips

Spec == Init /\ [][Next]_vars

\* Goroutines are scheduled, the lock is granted, and requests have a timeout.
Fairness == \A c \in Callers : WF_vars(CredentialsStep(c))

FairSpec == Spec /\ Fairness

----------------------------------------------------------------------------
(* Properties.                                                             *)

Credentials == [at : 0..issued, rt : 0..issued, user : 0..issued]

\* Type invariant; credentials that are used or refreshed were issued once.
TypeOK ==
    /\ issued \in Nat \ {0}
    /\ store \in [keyring : Credentials, file : Credentials]
    /\ up \in BOOLEAN /\ revoked \in BOOLEAN
    /\ lock \in [Processes -> Callers \cup {Nobody}]
    /\ pc \in [Callers -> {"idle", "get", "lock", "reread", "refresh", "save", "denied",
                            "send"}]
    /\ force \in [Callers -> BOOLEAN]
    /\ seen \in [Callers -> Credentials \cup {Unavailable}]
    /\ cred \in [Callers -> Credentials \cup {Unavailable}]
    /\ \A c \in Callers :
          pc[c] \in {"refresh", "save", "denied", "send"} => cred[c].at # 0
    /\ tried \in [Callers -> 0..issued]
    /\ live \subseteq 1..issued /\ stale \subseteq 1..issued /\ dead \subseteq 1..issued
    /\ exchanged \in [Processes -> SUBSET (1..issued)]
    /\ again \subseteq 1..issued /\ raced \subseteq 1..issued /\ spoiled \subseteq 1..issued
    /\ aging \in 0..MaxAging /\ faults \in 0..MaxFaults

\* Concurrent calls of one process never send a refresh token again that was
\* exchanged for a rotated one, unless the new tokens could not be recorded:
\* the server would answer invalid_grant, and the session would be deleted.
RefreshTokenUsedOnce == Rotates => again \subseteq spoiled

\* The agent forgets a session only when the server revoked it, the
\* replacement of a rotated token was lost, or another process of the user
\* had exchanged the same rotated token: the lock is one per process.  A
\* request that merely failed, or calls of one process refreshing at once,
\* never sign out.
SignedOutOnlyByAuthority ==
    Empty(store) => revoked \/ spoiled # {} \/ (Rotates /\ raced # {})

\* The attempt after a 401 carries another access token than the rejected
\* one, although credentials compares with a token it has read again, not
\* with the rejected one.
RetryUsesNewToken ==
    \A c \in Callers :
        pc[c] = "send" /\ tried[c] # 0 /\ spoiled = {} => cred[c].at # tried[c]

\* Every control-plane call ends, so the refresh lock is always given back.
CallsEnd == \A c \in Callers : pc[c] # "idle" ~> pc[c] = "idle"
=============================================================================
