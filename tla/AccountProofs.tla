--------------------------- MODULE AccountProofs ---------------------------
(***************************************************************************)
(* Proofs about Account, and with it about SignIn and TokenRefresh running *)
(* side by side, for any number of logins, of callback requests and of     *)
(* client processes: nothing is stored that the API has not confirmed, the *)
(* first outcome of the callback decides, and unless the last write of     *)
(* login or logout missed something, configuration and store name the same *)
(* user and a logout is final.                                             *)
(***************************************************************************)
EXTENDS Account, TLAPS

----------------------------------------------------------------------------
(* The inductive invariant.                                                *)

Entry == [at : Nat, rt : Nat, user : Nat]

Steps == {"idle", "get", "lock", "reread", "refresh", "save", "denied", "send"}

InRefresh == {"refresh", "save", "denied"}

\* The types the argument needs.
AccountTypes ==
    /\ issued \in Nat /\ login \in Nat /\ config \in Nat
    /\ store \in [keyring : Entry, file : Entry]
    /\ tokens \in Entry
    /\ step \in [Callers -> Steps]
    /\ cred \in [Callers -> Entry]
    /\ up \in BOOLEAN /\ loose \in BOOLEAN

\* What a client holds was read from the store, so the API confirmed its user.
ClientsVerified == \A c \in Callers : cred[c].user \in verified \cup {0}

\* A login stores what it has verified itself.
LoginVerified ==
    /\ pc \in {"setStore", "saveConfig", "undo"} => login \in verified /\ login # 0
    /\ pc = "setStore" => tokens.user = login
    /\ pc \in {"configure", "discover", "wait", "exchange", "verify"} => login # 0

\* The channel of the callback server holds the first outcome or nothing.
ResultIsFirst == result \in {NoOutcome, once}

\* The login whose credentials the store may hold: between SetStore and the
\* end of the login it is the new one, although the configuration may still
\* name the old one.
Owner == IF pc \in {"saveConfig", "undo"} THEN login ELSE config

\* Both backends and every refresh in flight belong to the owner.
OwnerAgrees ==
    ~loose =>
        /\ store.keyring.user \in {0, Owner}
        /\ store.file.user \in {0, Owner}
        /\ \A c \in Callers : step[c] \in InRefresh => cred[c].user \in {0, Owner}

\* logout has removed the credentials, or nobody is signed in.
Out == pc = "clear" \/ (config = NoConfig /\ pc \notin {"saveConfig", "undo"})

\* Then nothing is stored, and no refresh is left that would store it again.
OutIsEmpty == ~loose /\ Out => Empty(store) /\ ~Refreshing

\* After ClearConfig no configuration is left; a login answers for itself.
LogoutCleared ==
    /\ pc \in {"configure", "discover", "wait", "exchange", "verify", "setStore", "saveConfig",
              "undo", "close"} => command = "login"
    /\ pc = "revoke" => config = NoConfig
    /\ pc = "idle" /\ command = "logout" /\ answer = "ok" => config = NoConfig

IInv ==
    /\ AccountTypes
    /\ StoredIsVerified
    /\ ClientsVerified
    /\ LoginVerified
    /\ FirstOutcomeDecides
    /\ ResultIsFirst
    /\ OwnerAgrees
    /\ OutIsEmpty
    /\ LogoutCleared

----------------------------------------------------------------------------
(* The credential store.                                                   *)

\* What Get returns belongs to one of the backends, or to nobody.
LEMMA GetUser ==
    ASSUME NEW s \in [keyring : Entry, file : Entry], NEW u \in BOOLEAN
    PROVE  /\ Get(s, u, AllowFile) \in Entry
           /\ Get(s, u, AllowFile).user \in {0, s.keyring.user, s.file.user}
<1>1. /\ NoCredentials \in Entry /\ Unavailable \in Entry
      /\ NoCredentials.user = 0 /\ Unavailable.user = 0
  BY DEF NoCredentials, Unavailable, Entry
<1>2. s.keyring \in Entry /\ s.file \in Entry
  OBVIOUS
<1>3. Get(s, u, AllowFile) \in {s.keyring, s.file, Unavailable}
  BY Zenon DEF Get, decodeCredentials
<1> HIDE DEF Get
<1> QED
  BY <1>1, <1>2, <1>3

\* Nothing is found in an empty store, with or without the keyring.
LEMMA EmptyHasNothing ==
    ASSUME NEW s, Empty(s), NEW u \in BOOLEAN
    PROVE  ~Found(Get(s, u, AllowFile))
<1>1. decodeCredentials(NoCredentials) = NoCredentials
  BY DEF decodeCredentials, NoCredentials
<1>2. Get(s, u, AllowFile) \in {Unavailable, NoCredentials}
  BY <1>1, Zenon DEF Get, Empty
<1> QED
  BY <1>2 DEF Found

\* What Set and Delete leave in the two backends, however the file call ends.
LEMMA WriteEffect ==
    ASSUME NEW s, NEW u, NEW f, NEW k
    PROVE  /\ Set(s, u, AllowFile, f, k).keyring \in {s.keyring, k}
           /\ Set(s, u, AllowFile, f, k).file \in {s.file, NoCredentials, k}
           /\ Set(s, u, AllowFile, f, k) = [keyring |-> Set(s, u, AllowFile, f, k).keyring,
                                            file |-> Set(s, u, AllowFile, f, k).file]
           /\ Delete(s, u, f).keyring \in {s.keyring, NoCredentials}
           /\ Delete(s, u, f).file \in {s.file, NoCredentials}
           /\ Delete(s, u, f) = [keyring |-> Delete(s, u, f).keyring, file |-> Delete(s, u, f).file]
           /\ u => /\ Set(s, u, AllowFile, f, k).keyring = k
                   /\ Delete(s, u, f).keyring = NoCredentials
BY DEF Set, Delete

----------------------------------------------------------------------------
(* What a step of a client does to the state the invariant speaks of.      *)

\* The clients use the same credential store.
LEMMA SameStore ==
    /\ Client!NoCredentials = NoCredentials
    /\ \A s, u, a : Client!Get(s, u, a) = Get(s, u, a)
    /\ \A k : Client!Found(k) <=> Found(k)
    /\ \A s, u, a, f, k : Client!Set(s, u, a, f, k) = Set(s, u, a, f, k)
    /\ \A s, u, f : Client!Delete(s, u, f) = Delete(s, u, f)
BY Zenon DEF NoCredentials, Unavailable, decodeCredentials, Get, Found, Set, Delete,
   Client!NoCredentials, Client!Unavailable, Client!decodeCredentials, Client!Get, Client!Found,
   Client!Set, Client!Delete

\* What one action of Client.do writes: nothing but the caller's own state,
\* unless it saves or deletes under the lock.
LEMMA ClientEffect ==
    ASSUME AccountTypes, NEW c \in Callers, Client!Call(c) \/ Client!CredentialsStep(c)
    PROVE  /\ up' = up /\ issued' \in Nat
           /\ step' \in [Callers -> Steps] /\ cred' \in [Callers -> Entry]
           /\ \A d \in Callers \ {c} : step'[d] = step[d] /\ cred'[d] = cred[d]
           /\ \/ /\ store' = store /\ step'[c] \notin InRefresh
                 /\ cred'[c].user \in {0, store.keyring.user, store.file.user, cred[c].user}
              \/ /\ store' = store /\ step[c] = "reread" /\ step'[c] = "refresh"
                 /\ cred'[c] = Get(store, up, AllowFile)
                 /\ Found(Get(store, up, AllowFile))
              \/ /\ store' = store /\ step[c] \in InRefresh /\ step'[c] \in InRefresh
                 /\ cred'[c].user = cred[c].user
              \/ /\ \E u, f : store' = Set(store, u, AllowFile, f, cred[c])
                 /\ step[c] = "save" /\ step'[c] \in {"send", "idle"}
                 /\ cred'[c] \in {cred[c], NoCredentials}
              \/ /\ \E f : store' = Delete(store, up, f) /\ step[c] = "denied"
                 /\ step'[c] = "idle" /\ cred'[c] = NoCredentials
<1> DEFINE got == Get(store, up, AllowFile)
<1>0. /\ step \in [Callers -> Steps] /\ cred \in [Callers -> Entry] /\ issued \in Nat
      /\ store \in [keyring : Entry, file : Entry] /\ up \in BOOLEAN
  BY DEF AccountTypes
<1>1. got \in Entry /\ got.user \in {0, store.keyring.user, store.file.user}
  BY <1>0, GetUser
<1>2. NoCredentials \in Entry /\ NoCredentials.user = 0
  BY DEF NoCredentials, Entry
<1>u. ASSUME NEW t \in Steps, NEW k \in Entry,
             step' = [step EXCEPT ![c] = t], cred' = [cred EXCEPT ![c] = k]
      PROVE  /\ step' \in [Callers -> Steps] /\ cred' \in [Callers -> Entry]
             /\ \A d \in Callers \ {c} : step'[d] = step[d] /\ cred'[d] = cred[d]
             /\ step'[c] = t /\ cred'[c] = k
  BY <1>0, <1>u
<1>v. ASSUME NEW t \in Steps, step' = [step EXCEPT ![c] = t], cred' = cred
      PROVE  /\ step' \in [Callers -> Steps] /\ cred' \in [Callers -> Entry]
             /\ \A d \in Callers \ {c} : step'[d] = step[d] /\ cred'[d] = cred[d]
             /\ step'[c] = t /\ cred'[c] = cred[c]
  BY <1>0, <1>v
<1>r. ASSUME Client!Return(c)
      PROVE  step' = [step EXCEPT ![c] = "idle"] /\ cred' = [cred EXCEPT ![c] = NoCredentials]
  BY <1>r, SameStore DEF Client!Return
<1>s. {"idle", "get", "lock", "reread", "refresh", "save", "denied", "send"} = Steps
  BY DEF Steps
<1> USE DEF Client!server, Client!clock, Client!history
\* The call ends without a write.
<1>3. ASSUME UNCHANGED <<store, up, issued>>, Client!Return(c)
      PROVE  /\ up' = up /\ issued' \in Nat /\ store' = store
             /\ step' \in [Callers -> Steps] /\ cred' \in [Callers -> Entry]
             /\ \A d \in Callers \ {c} : step'[d] = step[d] /\ cred'[d] = cred[d]
             /\ step'[c] = "idle" /\ cred'[c].user = 0
  BY <1>0, <1>2, <1>3, <1>r, <1>s, <1>u
<1>i. \A t \in {"idle", "get", "lock", "reread", "send"} : t \notin InRefresh
  BY DEF InRefresh
<1>4. CASE Client!Call(c)
  <2>1. UNCHANGED <<store, up, issued, cred>> /\ step' = [step EXCEPT ![c] = "get"]
    BY <1>4 DEF Client!Call
  <2> QED
    BY <1>0, <1>i, <1>s, <1>v, <2>1
<1>5. CASE Client!GetFirst(c)
  <2>0. UNCHANGED <<store, up, issued>>
    BY <1>5 DEF Client!GetFirst
  <2>1. CASE Client!Return(c)
    BY <1>3, <1>i, <2>0, <2>1
  <2>2. CASE ~Client!Return(c)
    <3>0. Client!Get(store, up, AllowFile) = got
      BY SameStore
    <3>1. /\ step' = [step EXCEPT ![c] = IF ~force[c] /\ Client!Fresh(got) THEN "send" ELSE "lock"]
          /\ cred' = [cred EXCEPT ![c] = got]
      BY <1>5, <2>2, <3>0 DEF Client!GetFirst
    <3>2. PICK t \in {"send", "lock"} : step' = [step EXCEPT ![c] = t]
      BY <3>1
    <3> QED
      BY <1>0, <1>1, <1>i, <1>s, <1>u, <2>0, <3>1, <3>2
  <2> QED
    BY <2>1, <2>2
<1>6. CASE Client!Lock(c)
  <2>1. UNCHANGED <<store, up, issued, cred>> /\ step' = [step EXCEPT ![c] = "reread"]
    BY <1>6 DEF Client!Lock
  <2> QED
    BY <1>0, <1>i, <1>s, <1>v, <2>1
<1>7. CASE Client!GetAgain(c)
  <2>0. UNCHANGED <<store, up, issued>>
    BY <1>7 DEF Client!GetAgain, Client!Decide
  <2>1. CASE Client!Return(c)
    BY <1>3, <1>i, <2>0, <2>1
  <2>2. CASE ~Client!Return(c)
    <3>0. Client!Get(store, up, AllowFile) = got /\ (Client!Found(got) <=> Found(got))
      BY SameStore
    <3>1. /\ step' = [step EXCEPT ![c] = "send"] \/ step' = [step EXCEPT ![c] = "refresh"]
          /\ cred' = [cred EXCEPT ![c] = got]
          /\ Found(got) /\ step[c] = "reread"
      BY <1>7, <2>2, <3>0 DEF Client!GetAgain, Client!Decide
    <3> QED
      BY <1>0, <1>1, <1>i, <1>s, <1>u, <2>0, <3>1
  <2> QED
    BY <2>1, <2>2
<1>8. CASE Client!ServerAnswers(c)
  <2>0. UNCHANGED <<store, up>> /\ step[c] = "refresh"
    BY <1>8 DEF Client!ServerAnswers
  <2>i. "refresh" \in InRefresh /\ "save" \in InRefresh /\ "denied" \in InRefresh
    BY DEF InRefresh
  <2>1. CASE cred[c].rt \in live
    <3>1. /\ issued' = issued + 1 /\ step' = [step EXCEPT ![c] = "save"]
          /\ cred' = [cred EXCEPT ![c] = [at |-> issued + 1,
                                          rt |-> IF Rotates THEN issued + 1 ELSE cred[c].rt,
                                          user |-> cred[c].user]]
      BY <1>8, <2>1 DEF Client!ServerAnswers
    <3> DEFINE k == [at |-> issued + 1, rt |-> IF Rotates THEN issued + 1 ELSE cred[c].rt,
                     user |-> cred[c].user]
    <3>2. k \in Entry /\ k.user = cred[c].user
      BY <1>0 DEF Entry
    <3>3. cred' = [cred EXCEPT ![c] = k]
      BY <3>1
    <3> HIDE DEF k
    <3> QED
      BY <1>0, <1>s, <1>u, <2>0, <2>i, <3>1, <3>2, <3>3
  <2>2. CASE cred[c].rt \notin live
    <3>1. UNCHANGED <<issued, cred>> /\ step' = [step EXCEPT ![c] = "denied"]
      BY <1>8, <2>2 DEF Client!ServerAnswers
    <3> QED
      BY <1>0, <1>s, <1>v, <2>0, <2>i, <3>1
  <2> QED
    BY <2>1, <2>2
<1>9. CASE \E reached \in BOOLEAN : Client!RefreshFails(c, reached)
  <2>1. UNCHANGED <<store, up, issued>> /\ Client!Return(c)
    BY <1>9 DEF Client!RefreshFails
  <2> QED
    BY <1>3, <1>i, <2>1
<1>10. CASE \E f \in Client!FileResults : Client!Save(c, f)
  <2>1. /\ UNCHANGED <<up, issued, cred>> /\ step' = [step EXCEPT ![c] = "send"]
        /\ step[c] = "save"
        /\ \E f : store' = Set(store, up, AllowFile, f, cred[c])
    BY <1>10, SameStore, Zenon DEF Client!Save
  <2> QED
    BY <1>0, <1>s, <1>v, <2>1
<1>11. CASE \E f \in Client!FileResults : Client!SaveFails(c, f)
  <2>1. /\ UNCHANGED <<up, issued>> /\ Client!Return(c) /\ step[c] = "save"
        /\ \E f : store' = Set(store, FALSE, AllowFile, f, cred[c])
    BY <1>11, SameStore, Zenon DEF Client!SaveFails
  <2> QED
    BY <1>0, <1>2, <1>r, <1>s, <1>u, <2>1
<1>12. CASE \E f \in Client!FileResults : Client!Denied(c, f)
  <2>1. /\ UNCHANGED <<up, issued>> /\ Client!Return(c) /\ step[c] = "denied"
        /\ \E f : store' = Delete(store, up, f)
    BY <1>12, SameStore, Zenon DEF Client!Denied
  <2> QED
    BY <1>0, <1>2, <1>r, <1>s, <1>u, <2>1
<1>13. CASE Client!Unauthorized(c)
  <2>1. UNCHANGED <<store, up, issued, cred>> /\ step' = [step EXCEPT ![c] = "get"]
    BY <1>13 DEF Client!Unauthorized
  <2> QED
    BY <1>0, <1>i, <1>s, <1>v, <2>1
<1>14. CASE Client!Responds(c)
  <2>1. UNCHANGED <<store, up, issued>> /\ Client!Return(c)
    BY <1>14 DEF Client!Responds
  <2> QED
    BY <1>3, <1>i, <2>1
<1> QED
  BY <1>4, <1>5, <1>6, <1>7, <1>8, <1>9, <1>10, <1>11, <1>12, <1>13, <1>14 DEF Client!CredentialsStep

----------------------------------------------------------------------------
(* Every step keeps the inductive invariant.                               *)

\* The initial states satisfy it.
LEMMA InitIInv == AccountInit => IInv
<1> SUFFICES ASSUME AccountInit PROVE IInv
  OBVIOUS
<1>0. NoCredentials \in Entry /\ NoCredentials.user = 0
  BY DEF NoCredentials, Entry
<1>1. /\ pc = "idle" /\ command = "none" /\ config = 0 /\ login = 0 /\ issued = 0
      /\ store = [keyring |-> NoCredentials, file |-> NoCredentials]
      /\ tokens = NoCredentials /\ up = TRUE /\ loose = FALSE
      /\ verified = {} /\ result = NoOutcome /\ once = NoOutcome
      /\ step = [c \in Callers |-> "idle"] /\ cred = [c \in Callers |-> NoCredentials]
  BY DEF AccountInit, Init, NoConfig
<1>2. store.keyring = NoCredentials /\ store.file = NoCredentials
  BY <1>1
<1>3. AccountTypes
  <2>1. store \in [keyring : Entry, file : Entry] /\ tokens \in Entry
    BY <1>0, <1>1
  <2>2. step \in [Callers -> Steps] /\ cred \in [Callers -> Entry]
    BY <1>0, <1>1 DEF Steps
  <2> QED
    BY <1>1, <2>1, <2>2 DEF AccountTypes
<1>4. StoredIsVerified /\ ClientsVerified
  BY <1>0, <1>1, <1>2 DEF StoredIsVerified, ClientsVerified
<1>5. LoginVerified /\ FirstOutcomeDecides /\ ResultIsFirst /\ LogoutCleared
  BY <1>1 DEF LoginVerified, FirstOutcomeDecides, ResultIsFirst, LogoutCleared
<1>6. \A c \in Callers : step[c] \notin {"refresh", "save", "denied"}
  BY <1>1
<1>7. OwnerAgrees
  BY <1>0, <1>1, <1>2, <1>6 DEF OwnerAgrees, InRefresh
<1>8. OutIsEmpty
  BY <1>2, <1>6 DEF OutIsEmpty, Empty, Refreshing
<1> QED
  BY <1>3, <1>4, <1>5, <1>7, <1>8 DEF IInv

\* Whether login, logout and the callback change is all that matters for four
\* parts of the invariant.
LEMMA CommandsIdle ==
    ASSUME IInv, UNCHANGED <<pc, command, answer, login, config, tokens, verified, once, result>>
    PROVE  LoginVerified' /\ FirstOutcomeDecides' /\ ResultIsFirst' /\ LogoutCleared'
BY DEF IInv, LoginVerified, FirstOutcomeDecides, ResultIsFirst, LogoutCleared

\* Refreshing, in terms of InRefresh.
LEMMA RefreshingMeans == Refreshing <=> \E c \in Callers : step[c] \in InRefresh
BY DEF Refreshing, InRefresh

\* A step of a client.
LEMMA ClientKeeps ==
    ASSUME IInv, NEW c \in Callers, ClientStep(c)
    PROVE  IInv'
<1>0. /\ UNCHANGED <<pc, command, answer, config, login, tokens, verified, once, result>>
      /\ UNCHANGED loose
  BY DEF ClientStep, signIn, cmd, local, callback
<1>t. /\ AccountTypes /\ StoredIsVerified /\ ClientsVerified /\ OwnerAgrees /\ OutIsEmpty
  BY DEF IInv
<1> DEFINE got == Get(store, up, AllowFile)
           k == store.keyring
           f == store.file
<1>e. /\ up' = up /\ issued' \in Nat
      /\ step' \in [Callers -> Steps] /\ cred' \in [Callers -> Entry]
      /\ \A d \in Callers \ {c} : step'[d] = step[d] /\ cred'[d] = cred[d]
      /\ \/ /\ store' = store /\ step'[c] \notin InRefresh
            /\ cred'[c].user \in {0, k.user, f.user, cred[c].user}
         \/ /\ store' = store /\ step[c] = "reread" /\ step'[c] = "refresh"
            /\ cred'[c] = got /\ Found(got)
         \/ /\ store' = store /\ step[c] \in InRefresh /\ step'[c] \in InRefresh
            /\ cred'[c].user = cred[c].user
         \/ /\ \E u, v : store' = Set(store, u, AllowFile, v, cred[c])
            /\ step[c] = "save" /\ step'[c] \in {"send", "idle"}
            /\ cred'[c] \in {cred[c], NoCredentials}
         \/ /\ \E v : store' = Delete(store, up, v) /\ step[c] = "denied"
            /\ step'[c] = "idle" /\ cred'[c] = NoCredentials
  BY <1>t, ClientEffect DEF ClientStep
<1>n. NoCredentials \in Entry /\ NoCredentials.user = 0
  BY DEF NoCredentials, Entry
<1>g. /\ k \in Entry /\ f \in Entry /\ cred[c] \in Entry
      /\ got \in Entry /\ got.user \in {0, k.user, f.user}
  BY <1>t, GetUser DEF AccountTypes
\* A write leaves what was there, what the caller saves, or nothing.
<1>w. /\ \/ store' = store
         \/ /\ store'.keyring \in {k, NoCredentials} /\ store'.file \in {f, NoCredentials}
            /\ step[c] \in InRefresh
         \/ /\ store'.keyring \in {k, cred[c]} /\ store'.file \in {f, NoCredentials, cred[c]}
            /\ step[c] \in InRefresh
      /\ store' \in [keyring : Entry, file : Entry]
  <2>1. CASE store' = store
    BY <1>t, <2>1 DEF AccountTypes
  <2>2. ASSUME NEW u, NEW v, store' = Set(store, u, AllowFile, v, cred[c])
        PROVE  /\ store'.keyring \in {k, cred[c]} /\ store'.file \in {f, NoCredentials, cred[c]}
               /\ store' = [keyring |-> store'.keyring, file |-> store'.file]
    BY <2>2, WriteEffect
  <2>3. ASSUME NEW v, store' = Delete(store, up, v)
        PROVE  /\ store'.keyring \in {k, NoCredentials} /\ store'.file \in {f, NoCredentials}
               /\ store' = [keyring |-> store'.keyring, file |-> store'.file]
    BY <2>3, WriteEffect
  <2>4. ASSUME /\ store'.keyring \in {k, cred[c], NoCredentials}
               /\ store'.file \in {f, cred[c], NoCredentials}
               /\ store' = [keyring |-> store'.keyring, file |-> store'.file]
        PROVE  store' \in [keyring : Entry, file : Entry]
    BY <1>g, <1>n, <2>4
  <2>5. CASE (\E u, v : store' = Set(store, u, AllowFile, v, cred[c])) /\ step[c] = "save"
    <3>1. /\ store'.keyring \in {k, cred[c]} /\ store'.file \in {f, NoCredentials, cred[c]}
          /\ store' = [keyring |-> store'.keyring, file |-> store'.file]
      BY <2>2, <2>5
    <3> QED
      BY <2>4, <2>5, <3>1 DEF InRefresh
  <2>6. CASE (\E v : store' = Delete(store, up, v)) /\ step[c] = "denied"
    <3>1. /\ store'.keyring \in {k, NoCredentials} /\ store'.file \in {f, NoCredentials}
          /\ store' = [keyring |-> store'.keyring, file |-> store'.file]
      BY <2>3, <2>6
    <3> QED
      BY <2>4, <2>6, <3>1 DEF InRefresh
  <2> QED
    BY <1>e, <2>1, <2>5, <2>6
<1>1. AccountTypes'
  BY <1>0, <1>e, <1>t, <1>w DEF AccountTypes
<1>2. StoredIsVerified'
  <2>1. /\ k.user \in verified \cup {0} /\ f.user \in verified \cup {0}
        /\ config \in verified \cup {0} /\ cred[c].user \in verified \cup {0}
    BY <1>t DEF StoredIsVerified, ClientsVerified
  <2>2. store'.keyring.user \in verified \cup {0} /\ store'.file.user \in verified \cup {0}
    BY <1>n, <1>w, <2>1
  <2> QED
    BY <1>0, <2>1, <2>2 DEF StoredIsVerified
<1>3. ClientsVerified'
  <2>1. cred'[c].user \in verified \cup {0}
    BY <1>e, <1>g, <1>n, <1>t DEF StoredIsVerified, ClientsVerified
  <2>2. \A d \in Callers \ {c} : cred'[d].user \in verified \cup {0}
    BY <1>e, <1>t DEF ClientsVerified
  <2> QED
    BY <1>0, <2>1, <2>2 DEF ClientsVerified
<1>4. LoginVerified' /\ FirstOutcomeDecides' /\ ResultIsFirst' /\ LogoutCleared'
  BY <1>0, CommandsIdle
<1>o. Owner' = Owner /\ loose' = loose /\ Out' = Out
  BY <1>0 DEF Owner, Out
\* A refresh that begins has found what is stored.
<1>b. ASSUME step'[c] \in InRefresh, step[c] \notin InRefresh
      PROVE  cred'[c].user \in {0, k.user, f.user} /\ ~Empty(store)
  <2>1. cred'[c] = got /\ Found(got)
    BY <1>b, <1>e DEF InRefresh
  <2>2. up \in BOOLEAN
    BY <1>t DEF AccountTypes
  <2> QED
    BY <1>g, <2>1, <2>2, EmptyHasNothing
<1>c. ASSUME step'[c] \in InRefresh, step[c] \in InRefresh
      PROVE  cred'[c].user = cred[c].user
  <2>1. step[c] # "reread"
    BY <1>c DEF InRefresh
  <2> QED
    BY <1>e, <1>c, <2>1 DEF InRefresh
<1>5. OwnerAgrees'
  <2> SUFFICES ASSUME ~loose
               PROVE  /\ store'.keyring.user \in {0, Owner} /\ store'.file.user \in {0, Owner}
                      /\ \A d \in Callers : step'[d] \in InRefresh => cred'[d].user \in {0, Owner}
    BY <1>o DEF OwnerAgrees
  <2>1. /\ k.user \in {0, Owner} /\ f.user \in {0, Owner}
        /\ \A d \in Callers : step[d] \in InRefresh => cred[d].user \in {0, Owner}
    BY <1>t DEF OwnerAgrees
  <2>2. store'.keyring.user \in {0, Owner} /\ store'.file.user \in {0, Owner}
    BY <1>n, <1>w, <2>1
  <2>3. ASSUME NEW d \in Callers, step'[d] \in InRefresh PROVE cred'[d].user \in {0, Owner}
    <3>1. CASE d # c
      BY <1>e, <2>1, <2>3, <3>1
    <3>2. CASE d = c /\ step[c] \in InRefresh
      BY <1>c, <2>1, <2>3, <3>2
    <3>3. CASE d = c /\ step[c] \notin InRefresh
      BY <1>b, <2>1, <2>3, <3>3
    <3> QED
      BY <3>1, <3>2, <3>3
  <2> QED
    BY <2>2, <2>3
<1>6. OutIsEmpty'
  <2> SUFFICES ASSUME ~loose, Out PROVE Empty(store') /\ ~Refreshing'
    BY <1>o DEF OutIsEmpty, Empty
  <2>1. Empty(store) /\ \A d \in Callers : step[d] \notin InRefresh
    BY <1>t, RefreshingMeans DEF OutIsEmpty
  <2>2. store' = store
    BY <1>w, <2>1
  <2>3. \A d \in Callers : step'[d] \notin InRefresh
    BY <1>b, <1>e, <2>1
  <2>4. ~Refreshing'
    BY <2>3 DEF Refreshing, InRefresh
  <2> QED
    BY <2>1, <2>2, <2>4
<1> QED
  BY <1>1, <1>2, <1>3, <1>4, <1>5, <1>6 DEF IInv

\* Time, the authorization server, the keyring, a new client and stuttering.
LEMMA OthersKeep ==
    ASSUME IInv,
           \/ \E c \in Callers : StartClient(c)
           \/ AgeTokens \/ ServerRevokes \/ KeyringChanges \/ UNCHANGED accountVars
    PROVE  IInv'
<1>0. /\ UNCHANGED <<pc, command, answer, config, login, tokens, verified, once, result>>
      /\ UNCHANGED <<store, step, cred, loose, issued>>
      /\ up' = up \/ up' = ~up
  <2> USE DEF vars, cmd, local, server, callback, signIn, client, accountVars,
              Client!caller, Client!server, Client!clock, Client!history
  <2>1. ASSUME NEW c \in Callers, StartClient(c)
        PROVE  /\ UNCHANGED <<pc, command, answer, config, login, tokens, verified, once, result>>
               /\ UNCHANGED <<store, step, cred, loose, issued, up>>
    BY <2>1 DEF StartClient
  <2>2. CASE AgeTokens
    BY <2>2 DEF AgeTokens, Client!Age
  <2>3. CASE ServerRevokes
    BY <2>3 DEF ServerRevokes, Client!Revoke
  <2>4. CASE KeyringChanges
    BY <2>4 DEF KeyringChanges, Client!KeyringFlips
  <2>5. CASE UNCHANGED accountVars
    BY <2>5
  <2> QED
    BY <2>1, <2>2, <2>3, <2>4, <2>5
<1>1. AccountTypes'
  BY <1>0 DEF IInv, AccountTypes
<1>2. StoredIsVerified' /\ ClientsVerified'
  BY <1>0 DEF IInv, StoredIsVerified, ClientsVerified
<1>3. LoginVerified' /\ FirstOutcomeDecides' /\ ResultIsFirst' /\ LogoutCleared'
  BY <1>0, CommandsIdle
<1>5. OwnerAgrees'
  <2>1. Owner' = Owner
    BY <1>0 DEF Owner
  <2> QED
    BY <1>0, <2>1 DEF IInv, OwnerAgrees
<1>6. OutIsEmpty'
  <2>1. Out' = Out /\ Refreshing' = Refreshing
    BY <1>0 DEF Out, Refreshing
  <2> QED
    BY <1>0, <2>1 DEF IInv, OutIsEmpty, Empty
<1> QED
  BY <1>1, <1>2, <1>3, <1>5, <1>6 DEF IInv

\* complete records the first outcome and keeps it afterwards.
LEMMA CompleteKeepsFirst ==
    ASSUME ResultIsFirst, FirstOutcomeDecides, NEW o, complete(o)
    PROVE  /\ result' \in {NoOutcome, once'}
           /\ pc \in {"exchange", "verify", "setStore", "saveConfig"} => once' = "code"
<1>1. CASE once = NoOutcome
  BY <1>1 DEF complete, FirstOutcomeDecides, NoOutcome
<1>2. CASE once # NoOutcome
  BY <1>2 DEF complete, FirstOutcomeDecides, ResultIsFirst
<1> QED
  BY <1>1, <1>2

\* Types after a step of login or logout.
LEMMA CommandTypes ==
    ASSUME IInv, CommandStep
    PROVE  /\ issued' \in Nat /\ login' \in Nat /\ config' \in Nat
           /\ store' \in [keyring : Entry, file : Entry]
           /\ tokens' \in Entry
           /\ up' = up
<1>0. /\ issued \in Nat /\ login \in Nat /\ config \in Nat
      /\ store \in [keyring : Entry, file : Entry]
      /\ tokens \in Entry /\ up \in BOOLEAN
  BY DEF IInv, AccountTypes
<1>n. NoCredentials \in Entry
  BY DEF NoCredentials, Entry
<1> USE DEF cmd, local, server, callback
<1>1. CASE Login
  <2>1. /\ login' = login + 1 /\ tokens' = NoCredentials
        /\ UNCHANGED <<store, up, config, issued>>
    BY <1>1 DEF Login
  <2> QED
    BY <1>0, <1>n, <2>1
<1>2. CASE \/ \E f \in BOOLEAN : DiscoverLoginConfiguration(f)
           \/ Discover \/ ListenerFails \/ Timeout \/ Wait \/ Close \/ RevokeToken
           \/ \E r \in Requests : Request(r) \/ Handle(r)
  <2>1. UNCHANGED <<store, up, config, login, tokens, issued>>
    BY <1>2, Zenon DEF DiscoverLoginConfiguration, Discover, ListenerFails, Timeout, Wait, Close,
       RevokeToken, Request, Handle
  <2> QED
    BY <1>0, <2>1
<1>3. CASE Exchange
  <2>0. UNCHANGED <<store, up, config, login>>
    BY <1>3 DEF Exchange
  <2>1. CASE UNCHANGED <<issued, tokens>>
    BY <1>0, <2>0, <2>1
  <2>2. CASE ~UNCHANGED <<issued, tokens>>
    <3>1. issued' = issued + 1 /\ \E rt \in RefreshTokens : tokens' = [at |-> issued + 1, rt |-> rt, user |-> 0]
      BY <1>3, <2>2 DEF Exchange
    <3>2. RefreshTokens \subseteq Nat
      BY <1>0 DEF RefreshTokens
    <3> QED
      BY <1>0, <2>0, <3>1, <3>2 DEF Entry
  <2> QED
    BY <2>1, <2>2
<1>4. CASE VerifyLogin
  <2>0. UNCHANGED <<store, up, config, login, issued>>
    BY <1>4 DEF VerifyLogin
  <2>1. tokens' = tokens \/ tokens' = [at |-> tokens.at, rt |-> tokens.rt, user |-> login]
    BY <1>4 DEF VerifyLogin
  <2>2. tokens' \in Entry
    BY <1>0, <2>1 DEF Entry
  <2> QED
    BY <1>0, <2>0, <2>2
<1>w. ASSUME NEW v, NEW k \in Entry,
             store' = Set(store, up, AllowFile, v, k) \/ store' = Delete(store, up, v)
      PROVE  store' \in [keyring : Entry, file : Entry]
  <2>1. store.keyring \in Entry /\ store.file \in Entry
    BY <1>0
  <2>2. /\ store'.keyring \in {store.keyring, NoCredentials, k}
        /\ store'.file \in {store.file, NoCredentials, k}
        /\ store' = [keyring |-> store'.keyring, file |-> store'.file]
    BY <1>w, WriteEffect
  <2> QED
    BY <1>n, <2>1, <2>2
<1>5. CASE \E v \in FileResults : SetStore(v) \/ Undo(v)
  <2>1. /\ UNCHANGED <<up, config, login, tokens, issued>>
        /\ \E v : store' = Set(store, up, AllowFile, v, tokens) \/ store' = Delete(store, up, v)
    BY <1>5, Zenon DEF SetStore, Undo
  <2> QED
    BY <1>0, <1>w, <2>1
<1>6. CASE SaveConfig \/ ClearConfig
  <2>1. /\ UNCHANGED <<store, up, login, tokens, issued>>
        /\ config' \in {config, login, NoConfig}
    BY <1>6 DEF SaveConfig, ClearConfig
  <2> QED
    BY <1>0, <2>1 DEF NoConfig
<1>7. ASSUME NEW v \in FileResults, Logout(v)
      PROVE  /\ issued' \in Nat /\ login' \in Nat /\ config' \in Nat
             /\ store' \in [keyring : Entry, file : Entry]
             /\ tokens' \in Entry
             /\ up' = up
  <2>0. UNCHANGED <<up, config, login, issued>>
    BY <1>7 DEF Logout
  <2>1. CASE config = NoConfig
    <3>1. UNCHANGED <<store, tokens>>
      BY <1>7, <2>1 DEF Logout
    <3> QED
      BY <1>0, <2>0, <3>1
  <2>2. CASE config # NoConfig
    <3>1. tokens' = Get(store, up, AllowFile) /\ store' = Delete(store, up, v)
      BY <1>7, <2>2 DEF Logout
    <3>2. tokens' \in Entry
      BY <1>0, <3>1, GetUser
    <3> QED
      BY <1>0, <1>w, <2>0, <3>1, <3>2
  <2> QED
    BY <2>1, <2>2
<1>8. CASE Crash
  <2>1. UNCHANGED <<store, up, config, login, tokens, issued>>
    BY <1>8 DEF Crash
  <2> QED
    BY <1>0, <2>1
<1> QED
  BY <1>1, <1>2, <1>3, <1>4, <1>5, <1>6, <1>7, <1>8 DEF CommandStep, LoginStep, LogoutStep

\* What login verified, the outcome it acts on and what logout cleared.
LEMMA CommandOutcome ==
    ASSUME IInv, CommandStep
    PROVE  LoginVerified' /\ FirstOutcomeDecides' /\ ResultIsFirst' /\ LogoutCleared'
<1>0. /\ LoginVerified /\ FirstOutcomeDecides /\ ResultIsFirst /\ LogoutCleared
      /\ login \in Nat
  BY DEF IInv, AccountTypes
<1>i. ASSUME UNCHANGED <<login, once, result, verified, config>>,
             pc' \in {"idle", "close", "clear"}
      PROVE  LoginVerified' /\ FirstOutcomeDecides' /\ ResultIsFirst'
  BY <1>0, <1>i DEF LoginVerified, FirstOutcomeDecides, ResultIsFirst
<1> USE DEF cmd, local, server, callback
<1>1. CASE Login
  <2>1. /\ login' = login + 1 /\ login + 1 # 0 /\ result' = NoOutcome
        /\ command' = "login" /\ pc' \in {"idle", "configure"}
    BY <1>0, <1>1 DEF Login
  <2> QED
    BY <2>1 DEF LoginVerified, FirstOutcomeDecides, ResultIsFirst, LogoutCleared
<1>2. CASE (\E f \in BOOLEAN : DiscoverLoginConfiguration(f)) \/ Discover
  <2>1. /\ pc \in {"configure", "discover"} /\ pc' \in {"idle", "discover", "wait"}
        /\ UNCHANGED <<command, config, login, tokens, verified, once, result>>
    <3>1. ASSUME NEW f \in BOOLEAN, DiscoverLoginConfiguration(f)
          PROVE  /\ pc = "configure" /\ pc' \in {"idle", "discover"}
                 /\ UNCHANGED <<command, config, login, tokens, verified, once, result>>
      BY <3>1 DEF DiscoverLoginConfiguration, Return
    <3>2. ASSUME Discover
          PROVE  /\ pc = "discover" /\ pc' \in {"idle", "wait"}
                 /\ UNCHANGED <<command, config, login, tokens, verified, once, result>>
      BY <3>2 DEF Discover, Return
    <3> QED
      BY <1>2, <3>1, <3>2
  <2> QED
    BY <1>0, <2>1 DEF LoginVerified, FirstOutcomeDecides, ResultIsFirst, LogoutCleared
\* What happens at the callback server.
<1>3. ASSUME UNCHANGED <<cmd, local, verified>>,
             (\E o \in Outcomes : complete(o)) \/ UNCHANGED <<once, result>>
      PROVE  LoginVerified' /\ FirstOutcomeDecides' /\ ResultIsFirst' /\ LogoutCleared'
  <2>1. FirstOutcomeDecides' /\ ResultIsFirst'
    BY <1>0, <1>3, CompleteKeepsFirst DEF FirstOutcomeDecides, ResultIsFirst
  <2> QED
    BY <1>0, <1>3, <2>1 DEF LoginVerified, LogoutCleared
<1>4. CASE (\E r \in Requests : Request(r) \/ Handle(r)) \/ ListenerFails \/ Timeout
  <2>1. UNCHANGED <<cmd, local, verified>>
    BY <1>4 DEF Request, Handle, ListenerFails, Timeout
  <2>2. (\E o \in Outcomes : complete(o)) \/ UNCHANGED <<once, result>>
    BY <1>4, Zenon DEF Request, Handle, ListenerFails, Timeout, Outcomes
  <2> QED
    BY <1>3, <2>1, <2>2
<1>5. CASE Wait
  <2>0. pc = "wait" /\ UNCHANGED <<command, config, login, tokens, verified, once>>
    BY <1>5 DEF Wait, Return
  <2>1. /\ result' \in {NoOutcome, result}
        /\ pc' = "close" \/ (pc' = "exchange" /\ result = "code")
    BY <1>5 DEF Wait, Return
  <2>2. result = "code" => once = "code"
    BY <1>0 DEF ResultIsFirst, NoOutcome
  <2> QED
    BY <1>0, <2>0, <2>1, <2>2 DEF LoginVerified, FirstOutcomeDecides, ResultIsFirst, LogoutCleared
<1>6. CASE Exchange
  <2>1. /\ pc = "exchange" /\ pc' \in {"verify", "close"}
        /\ UNCHANGED <<command, config, login, verified, once, result>>
    BY <1>6 DEF Exchange, Return
  <2> QED
    BY <1>0, <2>1 DEF LoginVerified, FirstOutcomeDecides, ResultIsFirst, LogoutCleared
<1>7. CASE VerifyLogin
  <2>1. /\ pc = "verify" /\ UNCHANGED <<command, config, login, once, result>>
        /\ \/ pc' = "close"
           \/ /\ pc' = "setStore" /\ verified' = verified \cup {login}
              /\ tokens' = [at |-> tokens.at, rt |-> tokens.rt, user |-> login]
    BY <1>7 DEF VerifyLogin, Return
  <2>2. pc' = "setStore" => tokens'.user = login /\ login \in verified'
    BY <2>1
  <2> QED
    BY <1>0, <2>1, <2>2 DEF LoginVerified, FirstOutcomeDecides, ResultIsFirst, LogoutCleared
<1>8. CASE \E v \in FileResults : SetStore(v)
  <2>1. /\ pc = "setStore" /\ pc' \in {"saveConfig", "close"}
        /\ UNCHANGED <<command, config, login, tokens, verified, once, result>>
    BY <1>8, Zenon DEF SetStore, Return
  <2> QED
    BY <1>0, <2>1 DEF LoginVerified, FirstOutcomeDecides, ResultIsFirst, LogoutCleared
<1>9. CASE SaveConfig
  <2>1. /\ pc = "saveConfig" /\ pc' \in {"undo", "close"}
        /\ UNCHANGED <<command, login, tokens, verified, once, result>>
    BY <1>9 DEF SaveConfig, Return
  <2> QED
    BY <1>0, <2>1 DEF LoginVerified, FirstOutcomeDecides, ResultIsFirst, LogoutCleared
<1>10. CASE (\E v \in FileResults : Undo(v)) \/ Close
  <2>1. /\ pc \in {"undo", "close"} /\ pc' \in {"close", "idle"}
        /\ UNCHANGED <<command, config, login, tokens, verified, once, result>>
    BY <1>10, Zenon DEF Undo, Close, Return
  <2> QED
    BY <1>0, <1>i, <2>1 DEF LogoutCleared
<1>11. ASSUME NEW v \in FileResults, Logout(v)
       PROVE  LoginVerified' /\ FirstOutcomeDecides' /\ ResultIsFirst' /\ LogoutCleared'
  <2>1. /\ pc' \in {"idle", "clear"} /\ UNCHANGED <<config, login, verified, once, result>>
        /\ pc' = "idle" /\ answer' = "ok" => config = NoConfig
    <3>1. CASE config = NoConfig
      <4>1. pc' = "idle" /\ UNCHANGED <<config, login, verified, once, result>>
        BY <1>11, <3>1 DEF Logout
      <4> QED
        BY <3>1, <4>1
    <3>2. CASE config # NoConfig
      <4>1. \/ pc' = "clear" /\ answer' = "none"
            \/ pc' = "idle" /\ answer' = "error"
        BY <1>11, <3>2, Zenon DEF Logout
      <4>2. UNCHANGED <<config, login, verified, once, result>>
        BY <1>11 DEF Logout
      <4> QED
        BY <4>1, <4>2
    <3> QED
      BY <3>1, <3>2
  <2> QED
    BY <1>i, <2>1 DEF LogoutCleared
<1>12. CASE ClearConfig
  <2>1. /\ UNCHANGED <<login, tokens, verified, once, result>>
        /\ \/ pc' = "revoke" /\ config' = NoConfig
           \/ pc' = "idle" /\ answer' = "error"
    BY <1>12 DEF ClearConfig, Return
  <2> QED
    BY <1>0, <2>1 DEF LoginVerified, FirstOutcomeDecides, ResultIsFirst, LogoutCleared
<1>13. CASE RevokeToken
  <2>1. /\ pc = "revoke" /\ pc' = "idle" /\ UNCHANGED <<config, login, verified, once, result>>
    BY <1>13 DEF RevokeToken, Return
  <2> QED
    BY <1>0, <1>i, <2>1 DEF LogoutCleared
<1>14. CASE Crash
  <2>1. pc' = "idle" /\ answer' = "none" /\ UNCHANGED <<config, login, verified, once, result>>
    BY <1>14 DEF Crash, Return
  <2> QED
    BY <1>i, <2>1 DEF LogoutCleared
<1> QED
  BY <1>1, <1>2, <1>4, <1>5, <1>6, <1>7, <1>8, <1>9, <1>10, <1>11, <1>12, <1>13, <1>14
     DEF CommandStep, LoginStep, LogoutStep

\* The steps that write the store for the command: SetStore that succeeds,
\* Undo, and a Logout that deletes.
LEMMA WriteSteps ==
    ASSUME IInv, CommandStep, WritesStore
    PROVE  /\ UNCHANGED <<config, login, tokens, verified>> \/ pc' = "clear"
           /\ UNCHANGED <<config, verified>>
           /\ \/ /\ pc = "setStore" /\ pc' = "saveConfig"
                 /\ \E v : store' = Set(store, up, AllowFile, v, tokens)
              \/ /\ pc' # "saveConfig"
                 /\ \E v : store' = Delete(store, up, v)
<1> USE DEF cmd, local, server, callback
<1>1. ASSUME NEW v \in FileResults, SetStore(v)
      PROVE  /\ UNCHANGED <<config, login, tokens, verified>> /\ pc = "setStore"
             /\ store' = Set(store, up, AllowFile, v, tokens)
  BY <1>1 DEF SetStore
<1>2. ASSUME NEW v \in FileResults, Undo(v)
      PROVE  /\ UNCHANGED <<config, login, tokens, verified>> /\ pc' = "close"
             /\ store' = Delete(store, up, v)
  BY <1>2 DEF Undo, Return
<1>3. ASSUME NEW v \in FileResults, Logout(v)
      PROVE  /\ UNCHANGED <<config, verified>> /\ pc' = "clear"
             /\ store' = Delete(store, up, v)
  <2>1. pc = "idle" /\ UNCHANGED <<config, verified>>
    BY <1>3 DEF Logout
  <2>2. pc' = "clear"
    BY <2>1 DEF WritesStore
  <2>3. config # NoConfig
    BY <1>3, <2>2 DEF Logout
  <2> QED
    BY <1>3, <2>1, <2>2, <2>3 DEF Logout
<1>4. CASE Login \/ Discover \/ Wait \/ Close
  BY <1>4 DEF Login, Discover, Wait, Close, Return, WritesStore
<1>5. CASE \E f \in BOOLEAN : DiscoverLoginConfiguration(f)
  <2>1. pc = "configure"
    BY <1>5 DEF DiscoverLoginConfiguration
  <2> QED
    BY <2>1 DEF WritesStore
<1>6. CASE Exchange \/ VerifyLogin \/ SaveConfig \/ ClearConfig \/ RevokeToken
  BY <1>6 DEF Exchange, VerifyLogin, SaveConfig, ClearConfig, RevokeToken, WritesStore
<1>7. CASE (\E r \in Requests : Request(r) \/ Handle(r)) \/ ListenerFails \/ Timeout
  <2>1. pc' = pc
    BY <1>7 DEF Request, Handle, ListenerFails, Timeout
  <2> QED
    BY <2>1 DEF WritesStore
<1>8. CASE Crash
  BY <1>8 DEF Crash, Return, WritesStore
<1> QED
  BY <1>1, <1>2, <1>3, <1>4, <1>5, <1>6, <1>7, <1>8 DEF CommandStep, LoginStep, LogoutStep, WritesStore

\* They settle the store, or count as having missed something.
LEMMA WriteKeeps ==
    ASSUME IInv, Beside(CommandStep), WritesStore
    PROVE  StoredIsVerified' /\ ClientsVerified' /\ OwnerAgrees' /\ OutIsEmpty'
<1>0. /\ AccountTypes /\ StoredIsVerified /\ ClientsVerified /\ LoginVerified
  BY DEF IInv
<1>c. CommandStep /\ UNCHANGED <<step, cred>> /\ loose' = Misses
  BY Zenon DEF Beside, client
<1>r. Refreshing' = Refreshing
  BY <1>c DEF Refreshing
<1>n. NoCredentials \in Entry /\ NoCredentials.user = 0
  BY DEF NoCredentials, Entry
<1>q. ASSUME ~loose'
      PROVE  /\ ~Refreshing
             /\ up \/ ~Wrong(store'.keyring)
             /\ store'.file # store.file \/ ~Wrong(store'.file)
  <2>1. ~Misses
    BY <1>c, <1>q, Zenon
  <2> QED
    BY <2>1, Zenon DEF Misses
<1>w. UNCHANGED <<config, verified>>
  BY <1>c, WriteSteps
\* The login becomes the owner of the store; no refresh is in flight.
<1>1. CASE /\ pc = "setStore" /\ pc' = "saveConfig"
           /\ \E v : store' = Set(store, up, AllowFile, v, tokens)
  <2>0. UNCHANGED login /\ tokens.user = login /\ login \in verified
    BY <1>0, <1>1, <1>c, WriteSteps DEF LoginVerified
  <2>1. StoredIsVerified' /\ ClientsVerified'
    <3>1. /\ store'.keyring \in {store.keyring, tokens}
          /\ store'.file \in {store.file, NoCredentials, tokens}
      BY <1>1, WriteEffect
    <3> QED
      BY <1>0, <1>c, <1>n, <1>w, <2>0, <3>1 DEF StoredIsVerified, ClientsVerified
  <2>2. Owner' = login
    BY <1>1, <2>0 DEF Owner
  <2>3. ASSUME ~loose'
        PROVE  /\ store'.keyring \in {NoCredentials, tokens}
               /\ store'.file \in {NoCredentials, tokens}
               /\ ~Refreshing
    <3>1. /\ up => store'.keyring = tokens
          /\ store'.file \in {store.file, NoCredentials, tokens}
      BY <1>1, WriteEffect
    <3> QED
      BY <1>1, <1>q, <2>3, <3>1 DEF Wrong
  <2>4. OwnerAgrees'
    BY <1>c, <1>n, <2>0, <2>2, <2>3, RefreshingMeans DEF OwnerAgrees
  <2>5. OutIsEmpty'
    BY <1>1 DEF OutIsEmpty, Out
  <2> QED
    BY <2>1, <2>4, <2>5
\* A deletion leaves nothing behind, neither in the store nor in flight.
<1>2. CASE pc' # "saveConfig" /\ \E v : store' = Delete(store, up, v)
  <2>1. StoredIsVerified' /\ ClientsVerified'
    <3>1. /\ store'.keyring \in {store.keyring, NoCredentials}
          /\ store'.file \in {store.file, NoCredentials}
      BY <1>2, WriteEffect
    <3> QED
      BY <1>0, <1>c, <1>n, <1>w, <3>1 DEF StoredIsVerified, ClientsVerified
  <2>2. ASSUME ~loose'
        PROVE  store'.keyring = NoCredentials /\ store'.file = NoCredentials /\ ~Refreshing
    <3>1. /\ up => store'.keyring = NoCredentials
          /\ store'.file \in {store.file, NoCredentials}
      BY <1>2, WriteEffect
    <3> QED
      BY <1>2, <1>q, <2>2, <3>1 DEF Wrong
  <2>3. OwnerAgrees'
    BY <1>c, <1>n, <2>2, RefreshingMeans DEF OwnerAgrees
  <2>4. OutIsEmpty'
    BY <1>r, <2>2 DEF OutIsEmpty, Empty
  <2> QED
    BY <2>1, <2>3, <2>4
<1> QED
  BY <1>1, <1>2, <1>c, WriteSteps

\* The other steps change no owner without need, and a login that ends
\* between its two writes counts.
LEMMA CommandStore ==
    ASSUME IInv, Beside(CommandStep), ~WritesStore
    PROVE  StoredIsVerified' /\ ClientsVerified' /\ OwnerAgrees' /\ OutIsEmpty'
<1>0. /\ AccountTypes /\ StoredIsVerified /\ ClientsVerified /\ LoginVerified /\ OwnerAgrees
      /\ OutIsEmpty
  BY DEF IInv
<1>c. /\ CommandStep /\ UNCHANGED <<step, cred>>
      /\ loose' = (loose \/ EndsBetweenWrites)
  BY Zenon DEF Beside, client
<1>r. Refreshing' = Refreshing
  BY <1>c DEF Refreshing
<1>n. NoCredentials \in Entry /\ NoCredentials.user = 0
  BY DEF NoCredentials, Entry
<1>q. ASSUME ~loose' PROVE ~loose /\ ~EndsBetweenWrites
  BY <1>c, <1>q, Zenon
<1> USE DEF cmd, local, server, callback
\* A step that writes neither the store nor the configuration, and neither
\* enters nor leaves the critical part of a login or a logout.
<1>1. ASSUME UNCHANGED <<store, config>>, verified \subseteq verified',
             \/ pc' = pc /\ login' = login
             \/ {pc, pc'} \cap {"saveConfig", "undo", "clear"} = {}
      PROVE  StoredIsVerified' /\ ClientsVerified' /\ OwnerAgrees' /\ OutIsEmpty'
  <2>1. StoredIsVerified' /\ ClientsVerified'
    BY <1>0, <1>1, <1>c DEF StoredIsVerified, ClientsVerified
  <2>2. Owner' = Owner /\ Out' = Out
    BY <1>1 DEF Owner, Out
  <2>3. OwnerAgrees'
    BY <1>0, <1>1, <1>c, <1>q, <2>2 DEF OwnerAgrees
  <2>4. OutIsEmpty'
    BY <1>0, <1>1, <1>q, <1>r, <2>2 DEF OutIsEmpty, Empty
  <2> QED
    BY <2>1, <2>3, <2>4
<1>2. CASE \/ Login \/ (\E f \in BOOLEAN : DiscoverLoginConfiguration(f)) \/ Discover
           \/ Wait \/ Exchange \/ VerifyLogin \/ Close \/ RevokeToken
  <2>1. UNCHANGED <<store, config>> /\ verified \subseteq verified'
    <3>1. CASE Login \/ Discover \/ Wait
      BY <3>1 DEF Login, Discover, Wait
    <3>2. CASE \E f \in BOOLEAN : DiscoverLoginConfiguration(f)
      BY <3>2 DEF DiscoverLoginConfiguration
    <3>3. CASE Exchange \/ VerifyLogin \/ Close \/ RevokeToken
      BY <3>3 DEF Exchange, VerifyLogin, Close, RevokeToken
    <3> QED
      BY <1>2, <3>1, <3>2, <3>3
  <2>2. {pc, pc'} \cap {"saveConfig", "undo", "clear"} = {}
    <3>1. CASE Login \/ Discover \/ Close
      BY <3>1 DEF Login, Discover, Close, Return
    <3>2. ASSUME NEW f \in BOOLEAN, DiscoverLoginConfiguration(f)
          PROVE  pc = "configure" /\ pc' \in {"idle", "discover"}
      BY <3>2 DEF DiscoverLoginConfiguration, Return
    <3>3. CASE Wait \/ Exchange
      BY <3>3 DEF Wait, Exchange, Return
    <3>4. CASE VerifyLogin \/ RevokeToken
      BY <3>4 DEF VerifyLogin, RevokeToken, Return
    <3> QED
      BY <1>2, <3>1, <3>2, <3>3, <3>4
  <2> QED
    BY <1>1, <2>1, <2>2
<1>3. CASE (\E r \in Requests : Request(r) \/ Handle(r)) \/ ListenerFails \/ Timeout
  <2>1. UNCHANGED <<store, config, verified, pc, login>>
    BY <1>3 DEF Request, Handle, ListenerFails, Timeout
  <2> QED
    BY <1>1, <2>1
\* The store does not take the credentials, or takes them although the call
\* fails.
<1>4. CASE \E v \in FileResults : SetStore(v)
  <2>0. /\ pc = "setStore" /\ pc' = "close" /\ UNCHANGED <<config, login, tokens, verified>>
        /\ \E v : store' = Set(store, up, AllowFile, v, tokens)
    BY <1>4, Zenon DEF SetStore, Return, WritesStore
  <2>1. StoredIsVerified' /\ ClientsVerified'
    <3>1. /\ store'.keyring \in {store.keyring, tokens}
          /\ store'.file \in {store.file, NoCredentials, tokens}
      BY <2>0, WriteEffect
    <3> QED
      BY <1>0, <1>c, <1>n, <2>0, <3>1 DEF StoredIsVerified, ClientsVerified, LoginVerified
  <2>2. ~loose' => store' = store
    BY <1>q, <2>0 DEF EndsBetweenWrites
  <2>3. CASE loose'
    BY <2>1, <2>3 DEF OwnerAgrees, OutIsEmpty
  <2>4. CASE ~loose'
    BY <1>1, <2>0, <2>2, <2>4
  <2> QED
    BY <2>3, <2>4
\* The configuration follows the store.
<1>5. CASE SaveConfig
  <2>0. /\ pc = "saveConfig" /\ UNCHANGED <<store, login, verified>>
        /\ login \in verified /\ login # 0
    BY <1>0, <1>5 DEF SaveConfig, LoginVerified
  <2>1. \/ pc' = "close" /\ config' = login
        \/ pc' = "undo" /\ config' \in {config, login}
    BY <1>5 DEF SaveConfig, Return
  <2>2. StoredIsVerified' /\ ClientsVerified'
    BY <1>0, <1>c, <2>0, <2>1 DEF StoredIsVerified, ClientsVerified
  <2>3. Owner' = Owner
    BY <2>0, <2>1 DEF Owner
  <2>4. OwnerAgrees'
    BY <1>0, <1>c, <1>q, <2>0, <2>3 DEF OwnerAgrees
  <2>5. OutIsEmpty'
    BY <2>0, <2>1 DEF OutIsEmpty, Out, NoConfig
  <2> QED
    BY <2>2, <2>4, <2>5
<1>6. ~\E v \in FileResults : Undo(v)
  BY Zenon DEF WritesStore, Undo, Return
\* A logout that cannot delete leaves the credentials to their owner.
<1>7. ASSUME NEW v \in FileResults, Logout(v)
      PROVE  StoredIsVerified' /\ ClientsVerified' /\ OwnerAgrees' /\ OutIsEmpty'
  <2>0. pc = "idle" /\ UNCHANGED <<config, login, verified>>
    BY <1>7 DEF Logout
  <2>1. CASE config = NoConfig
    <3>1. pc' = "idle" /\ UNCHANGED store
      BY <1>7, <2>1 DEF Logout
    <3> QED
      BY <1>1, <2>0, <3>1
  <2>2. CASE config # NoConfig
    <3>2. store' = Delete(store, up, v) /\ pc' = "idle"
      BY <1>7, <2>2, Zenon DEF Logout, WritesStore
    <3>3. /\ store'.keyring \in {store.keyring, NoCredentials}
          /\ store'.file \in {store.file, NoCredentials}
      BY <3>2, WriteEffect
    <3>4. StoredIsVerified' /\ ClientsVerified'
      BY <1>0, <1>c, <1>n, <2>0, <3>3 DEF StoredIsVerified, ClientsVerified
    <3>5. Owner' = Owner
      BY <2>0, <3>2 DEF Owner
    <3>6. OwnerAgrees'
      BY <1>0, <1>c, <1>n, <1>q, <3>3, <3>5 DEF OwnerAgrees
    <3>7. OutIsEmpty'
      BY <2>0, <2>2, <3>2 DEF OutIsEmpty, Out
    <3> QED
      BY <3>4, <3>6, <3>7
  <2> QED
    BY <2>1, <2>2
<1>8. CASE ClearConfig
  <2>0. /\ pc = "clear" /\ pc' \in {"revoke", "idle"} /\ config' \in {config, NoConfig}
        /\ UNCHANGED <<store, verified>>
    BY <1>8 DEF ClearConfig, Return
  <2>1. StoredIsVerified' /\ ClientsVerified'
    BY <1>0, <1>c, <2>0 DEF StoredIsVerified, ClientsVerified, NoConfig
  <2>2. ASSUME ~loose'
        PROVE  /\ store.keyring = NoCredentials /\ store.file = NoCredentials
               /\ ~Refreshing
    <3>1. ~loose /\ Out
      BY <1>q, <2>0, <2>2 DEF Out
    <3> QED
      BY <1>0, <3>1 DEF OutIsEmpty, Empty
  <2>3. OwnerAgrees'
    BY <1>c, <1>n, <2>0, <2>2, RefreshingMeans DEF OwnerAgrees
  <2>4. OutIsEmpty'
    BY <1>r, <2>0, <2>2 DEF OutIsEmpty, Empty
  <2> QED
    BY <2>1, <2>3, <2>4
\* Outside its two writes a command that dies changes no owner.
<1>9. CASE Crash
  <2>0. pc' = "idle" /\ UNCHANGED <<store, config, login, verified>>
    BY <1>9 DEF Crash, Return
  <2>1. StoredIsVerified' /\ ClientsVerified'
    BY <1>0, <1>c, <2>0 DEF StoredIsVerified, ClientsVerified
  <2>2. ~loose' => ~loose /\ pc \notin {"saveConfig", "undo"}
    BY <1>q, <2>0, Zenon DEF EndsBetweenWrites
  <2>3. OwnerAgrees'
    <3>1. ~loose' => Owner' = Owner
      BY <2>0, <2>2 DEF Owner
    <3> QED
      BY <1>0, <1>c, <2>0, <2>2, <3>1 DEF OwnerAgrees
  <2>4. OutIsEmpty'
    <3>1. ~loose' /\ Out' => Out
      BY <2>0, <2>2 DEF Out
    <3> QED
      BY <1>0, <1>r, <2>0, <2>2, <3>1 DEF OutIsEmpty, Empty
  <2> QED
    BY <2>1, <2>3, <2>4
<1> QED
  BY <1>2, <1>3, <1>4, <1>5, <1>6, <1>7, <1>8, <1>9, <1>c DEF CommandStep, LoginStep, LogoutStep

\* A step of login, logout or the browser.
LEMMA CommandKeeps ==
    ASSUME IInv, Beside(CommandStep)
    PROVE  IInv'
<1>1. /\ CommandStep /\ UNCHANGED <<step, cred>>
      /\ loose' = IF WritesStore THEN Misses ELSE loose \/ EndsBetweenWrites
  BY DEF Beside, client
<1>2. loose' \in BOOLEAN
  <2>1. Misses \in BOOLEAN /\ (loose \/ EndsBetweenWrites) \in BOOLEAN
    BY Zenon DEF Misses, EndsBetweenWrites
  <2> QED
    BY <1>1, <2>1, Zenon
<1>3. AccountTypes'
  BY <1>1, <1>2, CommandTypes DEF IInv, AccountTypes
<1> QED
  BY <1>1, <1>3, CommandOutcome, CommandStore, WriteKeeps DEF IInv

----------------------------------------------------------------------------
(* The theorems.                                                           *)

\* The inductive invariant: what is stored, or about to be stored by a
\* refresh, belongs to a user the API confirmed, and unless the last write of
\* login or logout missed something, to the login the configuration names
\* (runLogin, runLogout, Client.credentials).
THEOREM AccountInvariant == AccountSpec => []IInv
<1>1. AccountInit => IInv
  BY InitIInv
<1>2. IInv /\ [AccountNext]_accountVars => IInv'
  BY ClientKeeps, OthersKeep, CommandKeeps DEF AccountNext
<1> QED
  BY <1>1, <1>2, PTL DEF AccountSpec

\* Neither a backend nor the configuration ever holds what VerifyLogin has not
\* confirmed, whatever crashes, times out or is refreshed meanwhile.
THEOREM AccountStoredIsVerified == AccountSpec => []StoredIsVerified
<1>1. IInv => StoredIsVerified
  BY DEF IInv
<1> QED
  BY <1>1, AccountInvariant, PTL

\* A login exchanges a code only when the first outcome of the callback
\* server was that code (CallbackServer.complete and Wait).
THEOREM AccountFirstOutcome == AccountSpec => []FirstOutcomeDecides
<1>1. IInv => FirstOutcomeDecides
  BY DEF IInv
<1> QED
  BY <1>1, AccountInvariant, PTL

\* Between commands the store holds nothing but credentials of the user the
\* configuration names, with or without the keyring, unless the last write of
\* login or logout met a refresh in flight, or an entry that an unavailable
\* keyring or a file that cannot be removed keeps, or a login ended between
\* its two writes.
THEOREM AccountConfigAgrees == AccountSpec => []ConfigAgrees
<1>1. IInv => ConfigAgrees
  <2> SUFFICES ASSUME IInv, pc = "idle", ~loose, NEW u \in BOOLEAN
               PROVE  Get(store, u, AllowFile).user \in {0, config}
    BY DEF ConfigAgrees
  <2>1. /\ store.file.user \in {0, config} /\ store.keyring.user \in {0, config}
        /\ store \in [keyring : Entry, file : Entry]
    BY DEF IInv, OwnerAgrees, Owner, AccountTypes
  <2> QED
    BY <2>1, GetUser
<1> QED
  BY <1>1, AccountInvariant, PTL

\* After logout has answered "Signed out" nothing is stored and no client
\* brings credentials back, with the same exceptions: a refresh in flight when
\* logout deleted them, an entry that an unavailable keyring or a file that
\* cannot be removed kept, and credentials of a login that ended before it
\* saved its configuration.
THEOREM AccountLogoutIsFinal == AccountSpec => []LogoutIsFinal
<1>1. IInv => LogoutIsFinal
  <2> SUFFICES ASSUME IInv, pc = "idle", command = "logout", answer = "ok", ~loose
               PROVE  Empty(store)
    BY DEF LogoutIsFinal
  <2>1. Out
    BY DEF IInv, LogoutCleared, Out
  <2> QED
    BY <2>1 DEF IInv, OutIsEmpty
<1> QED
  BY <1>1, AccountInvariant, PTL
=============================================================================
