------------------------- MODULE TokenRefreshProofs -------------------------
(***************************************************************************)
(* Proofs about TokenRefresh, for any set of callers in any number of      *)
(* processes, with and without rotation of refresh tokens and with and     *)
(* without the fallback file: a process sends no refresh token again whose *)
(* replacement it has recorded, a session is only lost for a reason, and   *)
(* the attempt after a 401 carries another access token.                   *)
(***************************************************************************)
EXTENDS TokenRefresh, TLAPS

----------------------------------------------------------------------------
(* The inductive invariant.                                                *)

\* What the two backends hold.
Entries == {store.keyring, store.file}

\* A backend holds complete credentials or none.
EntriesComplete == \A k \in Entries : k = NoCredentials \/ (k.at >= 1 /\ k.rt >= 1)

\* Credentials that are used were complete when they were read or issued.
UsedAreComplete ==
    \A c \in Callers :
        /\ pc[c] \in {"refresh", "save", "denied", "send"} => cred[c].at >= 1
        /\ pc[c] \in {"refresh", "save"} => cred[c].rt >= 1
        /\ pc[c] = "save" => seen[c].rt >= 1

\* From the second read to the end of the refresh a caller holds the lock.
LockHeld ==
    \A c \in Callers :
        pc[c] \in {"reread", "refresh", "save", "denied"} => lock[ProcessOf[c]] = c

\* Tokens that are not saved yet are known to their caller only.
NewTokensPrivate ==
    \A c \in Callers :
        pc[c] = "save" =>
            /\ \A k \in Entries : k.at # cred[c].at /\ (Rotates => k.rt # cred[c].rt)
            /\ \A d \in Callers \ {c} :
                   cred[d].at # cred[c].at /\ (Rotates => cred[d].rt # cred[c].rt)
            /\ \A d \in Callers : tried[d] # cred[c].at
            /\ Rotates => \A p \in Processes : cred[c].rt \notin exchanged[p]

\* A stored refresh token that a process has exchanged is about to be
\* replaced by it, or its replacement was lost.
StoredIsUnsent ==
    Rotates =>
        \A k \in Entries, p \in Processes :
            k.rt \in exchanged[p] =>
                \/ k.rt \in spoiled
                \/ \E c \in Callers :
                       ProcessOf[c] = p /\ pc[c] = "save" /\ seen[c].rt = k.rt

\* So is one that a caller is about to send.
SentIsUnsent ==
    Rotates =>
        \A c \in Callers :
            pc[c] = "refresh" /\ cred[c].rt \in exchanged[ProcessOf[c]] => cred[c].rt \in spoiled

\* The server accepts r, unless the session was revoked, a replacement was
\* lost, or a process has exchanged r.
Accepted(r) ==
    r \in live \/ revoked \/ spoiled # {} \/ (Rotates /\ \E p \in Processes : r \in exchanged[p])

KnownAreAccepted ==
    /\ \A k \in Entries : k # NoCredentials => Accepted(k.rt)
    /\ \A c \in Callers : pc[c] \in {"refresh", "save"} => Accepted(cred[c].rt)

\* The reasons for which a session may be lost.
Reason == revoked \/ spoiled # {} \/ (Rotates /\ raced # {})

DeniedForReason == \A c \in Callers : pc[c] = "denied" => Reason

\* Only an outage of the keyring, or a file that cannot be removed, leaves
\* credentials in both backends.
OneBackend == spoiled = {} => store.keyring = NoCredentials \/ store.file = NoCredentials

\* A caller that was rejected compares with the rejected token, or the store
\* holds another one by now and for ever.
RejectedIsGone ==
    \A c \in Callers :
        /\ pc[c] = "idle" => tried[c] = 0
        /\ tried[c] # 0 /\ pc[c] \in {"get", "lock", "reread"} => force[c]
        /\ tried[c] # 0 /\ pc[c] \in {"lock", "reread"} /\ spoiled = {} =>
               seen[c].at = tried[c] \/ \A k \in Entries : k.at # tried[c]

IInv ==
    /\ TypeOK
    /\ EntriesComplete
    /\ UsedAreComplete
    /\ LockHeld
    /\ NewTokensPrivate
    /\ StoredIsUnsent
    /\ SentIsUnsent
    /\ KnownAreAccepted
    /\ DeniedForReason
    /\ OneBackend
    /\ RejectedIsGone
    /\ RefreshTokenUsedOnce
    /\ SignedOutOnlyByAuthority
    /\ RetryUsesNewToken

----------------------------------------------------------------------------
(* Facts about the credential store.                                       *)

\* Credentials issued so far are still credentials later.
LEMMA CredentialsGrow ==
    ASSUME issued \in Nat \ {0}, issued' \in Nat, issued' >= issued
    PROVE  Credentials \subseteq Credentials'
BY DEF Credentials

LEMMA EmptyIsCredentials ==
    ASSUME issued \in Nat \ {0}
    PROVE  NoCredentials \in Credentials /\ Unavailable \in Credentials
BY DEF Credentials, NoCredentials, Unavailable

\* What Get finds is the complete entry of a backend.
LEMMA GetFinds ==
    ASSUME TypeOK, EntriesComplete, Found(Get(store, up, AllowFile))
    PROVE  /\ Get(store, up, AllowFile) \in Entries
           /\ Get(store, up, AllowFile) \in Credentials
           /\ Get(store, up, AllowFile) # NoCredentials
           /\ Get(store, up, AllowFile).at >= 1
           /\ Get(store, up, AllowFile).rt >= 1
<1>1. /\ store.keyring \in Credentials /\ store.file \in Credentials
  BY DEF TypeOK
<1>2. \A k \in Entries : decodeCredentials(k) = k
  BY DEF EntriesComplete, decodeCredentials, NoCredentials
<1>3. Get(store, up, AllowFile) \in {store.keyring, store.file}
  BY <1>2 DEF Get, Found, Entries
<1>4. Get(store, up, AllowFile) # NoCredentials
  BY Zenon DEF Found
<1> HIDE DEF Get
<1> QED
  BY <1>1, <1>3, <1>4 DEF Entries, EntriesComplete

\* The entries after Set and Delete.
LEMMA SetEntries ==
    ASSUME NEW k, NEW u \in BOOLEAN, NEW result,
           store' = Set(store, u, AllowFile, result, k)
    PROVE  /\ store' = [keyring |-> store'.keyring, file |-> store'.file]
           /\ store'.keyring = IF u THEN k ELSE store.keyring
           /\ store'.file \in {store.file, NoCredentials, k}
           /\ u => store'.file \in {store.file, NoCredentials}
           /\ SetSucceeds(u, AllowFile, result) /\ ~u => store'.file = k
BY DEF Set, SetSucceeds

LEMMA DeleteEntries ==
    ASSUME NEW result, store' = Delete(store, up, result)
    PROVE  /\ store' = [keyring |-> store'.keyring, file |-> store'.file]
           /\ store'.keyring \in {store.keyring, NoCredentials}
           /\ store'.file \in {store.file, NoCredentials}
BY DEF Delete

\* The process of a caller.
LEMMA ProcessType == \A c \in Callers : ProcessOf[c] \in Processes
BY DEF Processes

----------------------------------------------------------------------------
(* Types.                                                                  *)

\* Everything the type invariant says of the callers, and of the rest.
TypeCallers ==
    /\ lock \in [Processes -> Callers \cup {Nobody}]
    /\ pc \in [Callers -> {"idle", "get", "lock", "reread", "refresh", "save", "denied",
                            "send"}]
    /\ force \in [Callers -> BOOLEAN]
    /\ seen \in [Callers -> Credentials]
    /\ cred \in [Callers -> Credentials]
    /\ \A c \in Callers :
          pc[c] \in {"refresh", "save", "denied", "send"} => cred[c].at # 0
    /\ tried \in [Callers -> 0..issued]

TypeStore ==
    /\ issued \in Nat \ {0}
    /\ store \in [keyring : Credentials, file : Credentials]
    /\ live \subseteq 1..issued /\ stale \subseteq 1..issued /\ dead \subseteq 1..issued
    /\ exchanged \in [Processes -> SUBSET (1..issued)]
    /\ again \subseteq 1..issued /\ raced \subseteq 1..issued /\ spoiled \subseteq 1..issued
    /\ aging \in 0..MaxAging /\ faults \in 0..MaxFaults

TypeFlags == up \in BOOLEAN /\ revoked \in BOOLEAN

LEMMA TypeParts == TypeOK <=> TypeCallers /\ TypeStore /\ TypeFlags
<1>1. issued \in Nat \ {0} => Credentials \cup {Unavailable} = Credentials
  BY EmptyIsCredentials
<1> QED
  BY <1>1, Zenon DEF TypeOK, TypeCallers, TypeStore, TypeFlags

\* A call that ends keeps the types of its caller's variables.
LEMMA ReturnTypes ==
    ASSUME TypeCallers, TypeStore, NEW c \in Callers, Return(c), UNCHANGED issued,
           lock' \in [Processes -> Callers \cup {Nobody}]
    PROVE  TypeCallers'
<1>1. NoCredentials \in Credentials /\ Credentials' = Credentials /\ 0 \in 0..issued
  BY EmptyIsCredentials DEF TypeStore, Credentials
<1> QED
  BY <1>1 DEF Return, TypeCallers

LEMMA UnlockType ==
    ASSUME TypeCallers, NEW c \in Callers, Unlock(c)
    PROVE  lock' \in [Processes -> Callers \cup {Nobody}]
BY DEF TypeCallers, Unlock

\* Every step keeps the types.
LEMMA NextTypeOK ==
    TypeOK /\ EntriesComplete /\ UsedAreComplete /\ [Next]_vars => TypeOK'
<1> SUFFICES ASSUME TypeOK, EntriesComplete, UsedAreComplete, [Next]_vars PROVE TypeOK'
  OBVIOUS
<1>0. TypeCallers /\ TypeStore /\ TypeFlags
  BY TypeParts
<1> SUFFICES TypeCallers' /\ TypeStore' /\ TypeFlags'
  BY TypeParts DEF TypeOK, TypeCallers, TypeStore, TypeFlags
<1>i. UNCHANGED issued => Credentials' = Credentials
  BY DEF Credentials
<1> USE DEF caller, server, clock, history
<1>1. ASSUME UNCHANGED <<store, server, clock, history, faults>> PROVE TypeStore'
  BY <1>0, <1>1, <1>i DEF TypeStore
<1>2. ASSUME NEW c \in Callers, Call(c) PROVE TypeCallers' /\ TypeStore' /\ TypeFlags'
  <2>1. TypeCallers'
    BY <1>0, <1>2, <1>i DEF Call, TypeCallers
  <2> QED
    BY <1>0, <1>1, <1>2, <2>1 DEF Call, TypeFlags
<1>3. ASSUME NEW c \in Callers, GetFirst(c) PROVE TypeCallers' /\ TypeStore' /\ TypeFlags'
  <2> DEFINE k == Get(store, up, AllowFile)
  <2>1. UNCHANGED <<store, up, lock, server, clock, history, faults>>
    BY <1>3 DEF GetFirst
  <2>2. ASSUME Return(c) PROVE TypeCallers'
    BY <1>0, <2>1, <2>2, ReturnTypes DEF TypeCallers
  <2>3. ASSUME ~Return(c) PROVE TypeCallers'
    <3>1. /\ Found(k)
          /\ pc' = [pc EXCEPT ![c] = IF ~force[c] /\ Fresh(k) THEN "send" ELSE "lock"]
          /\ seen' = [seen EXCEPT ![c] = k]
          /\ cred' = [cred EXCEPT ![c] = k]
          /\ UNCHANGED <<force, tried>>
      BY <1>3, <2>3, Zenon DEF GetFirst
    <3>2. k \in Credentials /\ k.at >= 1
      BY <3>1, GetFinds
    <3> HIDE DEF k
    <3> QED
      BY <1>0, <1>i, <2>1, <3>1, <3>2 DEF TypeCallers
  <2> QED
    BY <1>0, <1>1, <2>1, <2>2, <2>3 DEF TypeFlags
<1>4. ASSUME NEW c \in Callers, Lock(c) PROVE TypeCallers' /\ TypeStore' /\ TypeFlags'
  <2>1. TypeCallers'
    BY <1>0, <1>4, <1>i DEF Lock, TypeCallers
  <2> QED
    BY <1>0, <1>1, <1>4, <2>1 DEF Lock, TypeFlags
<1>5. ASSUME NEW c \in Callers, GetAgain(c) PROVE TypeCallers' /\ TypeStore' /\ TypeFlags'
  <2> DEFINE k == Get(store, up, AllowFile)
  <2>1. UNCHANGED <<store, up, server, clock, history, faults>>
    BY <1>5 DEF GetAgain, Decide
  <2>2. ASSUME Return(c), Unlock(c) PROVE TypeCallers'
    BY <1>0, <2>1, <2>2, ReturnTypes, UnlockType
  <2>3. ASSUME ~(Return(c) /\ Unlock(c)) PROVE TypeCallers'
    <3>1. /\ Found(k)
          /\ cred' = [cred EXCEPT ![c] = k]
          /\ \/ pc' = [pc EXCEPT ![c] = "send"] /\ Unlock(c)
             \/ pc' = [pc EXCEPT ![c] = "refresh"] /\ UNCHANGED lock
          /\ UNCHANGED <<force, seen, tried>>
      BY <1>5, <2>3, Zenon DEF GetAgain, Decide
    <3>2. k \in Credentials /\ k.at >= 1
      BY <3>1, GetFinds
    <3>3. lock' \in [Processes -> Callers \cup {Nobody}]
      BY <1>0, <3>1, UnlockType DEF TypeCallers
    <3> HIDE DEF k
    <3> QED
      BY <1>0, <1>i, <2>1, <3>1, <3>2, <3>3 DEF TypeCallers
  <2> QED
    BY <1>0, <1>1, <2>1, <2>2, <2>3 DEF TypeFlags
<1>6. ASSUME NEW c \in Callers, ServerAnswers(c)
      PROVE  TypeCallers' /\ TypeStore' /\ TypeFlags'
  <2>1. ProcessOf[c] \in Processes /\ cred[c] \in Credentials /\ cred[c].rt \in 1..issued
    BY <1>0, <1>6, ProcessType DEF ServerAnswers, UsedAreComplete, TypeCallers, TypeStore,
       Credentials
  <2>2. CASE cred[c].rt \in live
    <3>1. /\ issued' = issued + 1 /\ issued' \in Nat \ {0}
          /\ live' = IF Rotates THEN (live \ {cred[c].rt}) \cup {issued + 1} ELSE live
          /\ seen' = [seen EXCEPT ![c] = cred[c]]
          /\ pc' = [pc EXCEPT ![c] = "save"]
          /\ UNCHANGED <<store, up, lock, force, tried, revoked, clock, spoiled, faults>>
      BY <1>0, <1>6, <2>2 DEF ServerAnswers, TypeStore
    <3> DEFINE new == [at |-> issued + 1, rt |-> IF Rotates THEN issued + 1 ELSE cred[c].rt,
                       user |-> cred[c].user]
    <3>2. cred' = [cred EXCEPT ![c] = new]
      BY <1>6, <2>2 DEF ServerAnswers
    <3>3. new \in Credentials' /\ new.at # 0
      BY <1>0, <2>1, <3>1 DEF Credentials, TypeStore
    <3>4. Credentials \subseteq Credentials' /\ 1..issued \subseteq 1..issued'
      BY <1>0, <3>1, CredentialsGrow DEF TypeStore
    <3> HIDE DEF new
    <3>5. TypeCallers'
      <4>1. seen' \in [Callers -> Credentials'] /\ cred' \in [Callers -> Credentials']
        BY <1>0, <2>1, <3>1, <3>2, <3>3, <3>4 DEF TypeCallers
      <4>2. tried' \in [Callers -> 0..issued']
        BY <1>0, <3>1 DEF TypeCallers, TypeStore
      <4> QED
        BY <1>0, <3>1, <3>2, <3>3, <4>1, <4>2 DEF TypeCallers
    <3>6. TypeStore'
      <4>1. store' \in [keyring : Credentials', file : Credentials']
        BY <1>0, <3>1, <3>4 DEF TypeStore
      <4>2. /\ live' \subseteq 1..issued' /\ stale' \subseteq 1..issued'
            /\ dead' \subseteq 1..issued' /\ spoiled' \subseteq 1..issued'
        <5>1. issued + 1 \in 1..issued'
          BY <1>0, <3>1 DEF TypeStore
        <5>2. /\ live \subseteq 1..issued' /\ stale \subseteq 1..issued'
              /\ dead \subseteq 1..issued' /\ spoiled \subseteq 1..issued'
          BY <1>0, <3>4, Zenon DEF TypeStore
        <5>3. live' \subseteq live \cup {issued + 1}
          BY <3>1
        <5> QED
          BY <3>1, <5>1, <5>2, <5>3, Zenon
      <4>h. Handled(c, cred[c].rt)
        BY <1>6 DEF ServerAnswers
      <4>x. /\ exchanged \in [Processes -> SUBSET (1..issued)]
            /\ again \subseteq 1..issued /\ raced \subseteq 1..issued
        BY <1>0 DEF TypeStore
      <4>3. exchanged' \in [Processes -> SUBSET (1..issued')]
        <5>1. exchanged' \in [Processes -> SUBSET (1..issued)]
          BY <2>1, <4>h, <4>x DEF Handled
        <5> QED
          BY <3>4, <5>1
      <4>4. again' \subseteq 1..issued' /\ raced' \subseteq 1..issued'
        <5>1. again' \subseteq 1..issued /\ raced' \subseteq 1..issued
          BY <2>1, <4>h, <4>x DEF Handled
        <5> QED
          BY <3>4, <5>1
      <4> QED
        BY <1>0, <3>1, <4>1, <4>2, <4>3, <4>4 DEF TypeStore
    <3> QED
      BY <1>0, <3>1, <3>5, <3>6 DEF TypeFlags
  <2>3. CASE cred[c].rt \notin live
    <3>1. /\ pc' = [pc EXCEPT ![c] = "denied"]
          /\ UNCHANGED <<issued, live, seen, cred, store, up, lock, force, tried, revoked,
                         clock, spoiled, faults>>
      BY <1>6, <2>3 DEF ServerAnswers
    <3>2. TypeCallers'
      BY <1>0, <1>6, <1>i, <3>1 DEF TypeCallers, UsedAreComplete, ServerAnswers
    <3>3. exchanged' \in [Processes -> SUBSET (1..issued)]
      BY <1>0, <1>6, <2>1 DEF TypeStore, ServerAnswers, Handled
    <3>4. again' \subseteq 1..issued /\ raced' \subseteq 1..issued
      BY <1>0, <1>6, <2>1 DEF TypeStore, ServerAnswers, Handled
    <3>5. TypeStore'
      BY <1>0, <1>i, <3>1, <3>3, <3>4 DEF TypeStore
    <3> QED
      BY <1>0, <3>1, <3>2, <3>5 DEF TypeFlags
  <2> QED
    BY <2>2, <2>3
<1>7. ASSUME NEW c \in Callers, NEW reached \in BOOLEAN, RefreshFails(c, reached)
      PROVE  TypeCallers' /\ TypeStore' /\ TypeFlags'
  <2>1. ProcessOf[c] \in Processes /\ cred[c].rt \in 1..issued
    BY <1>0, <1>7, ProcessType DEF RefreshFails, UsedAreComplete, TypeCallers, TypeStore,
       Credentials
  <2>2. /\ Return(c) /\ Unlock(c) /\ faults' \in 0..MaxFaults
        /\ UNCHANGED <<store, up, issued, revoked, clock>>
    BY <1>0, <1>7, TokenRefreshAssumption DEF RefreshFails, TypeStore
  <2>3. TypeCallers'
    BY <1>0, <2>2, ReturnTypes, UnlockType
  <2>4. live' \subseteq 1..issued /\ spoiled' \subseteq 1..issued
    BY <1>0, <1>7, <2>1 DEF RefreshFails, TypeStore
  <2>5. exchanged' \in [Processes -> SUBSET (1..issued)]
    BY <1>0, <1>7, <2>1 DEF TypeStore, RefreshFails, Handled
  <2>6. again' \subseteq 1..issued /\ raced' \subseteq 1..issued
    BY <1>0, <1>7, <2>1 DEF TypeStore, RefreshFails, Handled
  <2>7. TypeStore'
    BY <1>0, <1>i, <2>2, <2>4, <2>5, <2>6 DEF TypeStore
  <2> QED
    BY <1>0, <2>2, <2>3, <2>7 DEF TypeFlags
<1>f. ASSUME NEW happens \in BOOLEAN, Fault(happens) PROVE faults' \in 0..MaxFaults
  BY <1>0, <1>f, TokenRefreshAssumption DEF Fault, TypeStore
<1>8. ASSUME NEW c \in Callers, NEW result \in FileResults, Save(c, result)
      PROVE  TypeCallers' /\ TypeStore' /\ TypeFlags'
  <2>1. TypeCallers'
    <3>1. lock' \in [Processes -> Callers \cup {Nobody}]
      BY <1>0, <1>8, UnlockType DEF Save
    <3> QED
      BY <1>0, <1>8, <1>i, <3>1 DEF Save, TypeCallers
  <2>2. store' \in [keyring : Credentials, file : Credentials]
    <3>1. /\ cred[c] \in Credentials /\ NoCredentials \in Credentials
          /\ store.keyring \in Credentials /\ store.file \in Credentials /\ up \in BOOLEAN
      BY <1>0, EmptyIsCredentials DEF TypeCallers, TypeStore, TypeFlags
    <3>2. /\ store'.keyring \in Credentials /\ store'.file \in Credentials
          /\ store' = [keyring |-> store'.keyring, file |-> store'.file]
      BY <1>8, <3>1, SetEntries DEF Save
    <3> QED
      BY <3>2
  <2>3. spoiled' \subseteq 1..issued
    <3>1. {k.rt : k \in {store'.keyring, store'.file} \ {cred[c]}} \ {0} \subseteq 1..issued
      BY <1>0, <2>2 DEF TypeStore, Credentials
    <3> QED
      BY <1>0, <1>8, <3>1 DEF Save, TypeStore
  <2>f. faults' \in 0..MaxFaults
    BY <1>8, <1>f DEF Save
  <2>4. TypeStore'
    BY <1>0, <1>8, <1>i, <2>2, <2>3, <2>f DEF Save, TypeStore
  <2> QED
    BY <1>0, <1>8, <2>1, <2>4 DEF Save, TypeFlags
<1>9. ASSUME NEW c \in Callers, NEW result \in FileResults, SaveFails(c, result)
      PROVE  TypeCallers' /\ TypeStore' /\ TypeFlags'
  <2>1. TypeCallers'
    BY <1>0, <1>9, ReturnTypes, UnlockType DEF SaveFails
  <2>2. seen[c].rt \in 1..issued
    BY <1>0, <1>9 DEF SaveFails, UsedAreComplete, TypeCallers, TypeStore, Credentials
  <2>3. faults' \in 0..MaxFaults
    BY <1>0, <1>9, <1>f DEF SaveFails, TypeFlags
  <2>5. store' \in [keyring : Credentials, file : Credentials]
    <3>1. /\ cred[c] \in Credentials \cup {Unavailable} /\ NoCredentials \in Credentials
          /\ Unavailable \in Credentials
          /\ store.keyring \in Credentials /\ store.file \in Credentials
      BY <1>0, EmptyIsCredentials DEF TypeCallers, TypeStore
    <3>2. /\ store'.keyring \in Credentials /\ store'.file \in Credentials
          /\ store' = [keyring |-> store'.keyring, file |-> store'.file]
      BY <1>9, <3>1, SetEntries DEF SaveFails
    <3> QED
      BY <3>2
  <2>4. TypeStore'
    BY <1>0, <1>9, <1>i, <2>2, <2>3, <2>5 DEF SaveFails, TypeStore
  <2> QED
    BY <1>0, <1>9, <2>1, <2>4 DEF SaveFails, TypeFlags
<1>10. ASSUME NEW c \in Callers, NEW result \in FileResults, Denied(c, result)
       PROVE  TypeCallers' /\ TypeStore' /\ TypeFlags'
  <2>1. TypeCallers'
    BY <1>0, <1>10, ReturnTypes, UnlockType DEF Denied
  <2>2. store' \in [keyring : Credentials, file : Credentials]
    <3>1. /\ store.keyring \in Credentials /\ store.file \in Credentials
          /\ NoCredentials \in Credentials
      BY <1>0, EmptyIsCredentials DEF TypeStore
    <3>2. store'.keyring \in Credentials /\ store'.file \in Credentials
      BY <1>10, <3>1, DeleteEntries DEF Denied
    <3>3. store' = [keyring |-> store'.keyring, file |-> store'.file]
      BY <1>10, DeleteEntries DEF Denied
    <3> QED
      BY <3>2, <3>3
  <2>f. faults' \in 0..MaxFaults
    BY <1>10, <1>f DEF Denied
  <2>3. TypeStore'
    BY <1>0, <1>10, <1>i, <2>2, <2>f DEF Denied, TypeStore
  <2> QED
    BY <1>0, <1>10, <2>1, <2>3 DEF Denied, TypeFlags
<1>11. ASSUME NEW c \in Callers, Unauthorized(c)
       PROVE  TypeCallers' /\ TypeStore' /\ TypeFlags'
  <2>1. cred[c].at \in 0..issued
    BY <1>0 DEF TypeCallers, Credentials
  <2>2. TypeCallers'
    BY <1>0, <1>11, <1>i, <2>1 DEF Unauthorized, TypeCallers
  <2> QED
    BY <1>0, <1>1, <1>11, <2>2 DEF Unauthorized, TypeFlags
<1>12. ASSUME NEW c \in Callers, Responds(c) PROVE TypeCallers' /\ TypeStore' /\ TypeFlags'
  <2>1. TypeCallers'
    BY <1>0, <1>12, ReturnTypes DEF Responds, TypeCallers
  <2> QED
    BY <1>0, <1>1, <1>12, <2>1 DEF Responds, TypeFlags
<1>13. CASE Age \/ Revoke \/ KeyringFlips
  <2>1. UNCHANGED <<store, lock, caller, issued, history>>
    BY <1>13 DEF Age, Revoke, KeyringFlips
  <2>2. TypeCallers'
    BY <1>0, <1>i, <2>1 DEF TypeCallers
  <2>3. aging' \in 0..MaxAging /\ faults' \in 0..MaxFaults
    BY <1>0, <1>13, TokenRefreshAssumption DEF Age, Revoke, KeyringFlips, TypeStore
  <2>4. live' \subseteq 1..issued /\ stale' \subseteq 1..issued /\ dead' \subseteq 1..issued
    <3>1. live' \subseteq live
      BY <1>13 DEF Age, Revoke, KeyringFlips
    <3>2. stale' \subseteq stale \cup (1..issued) /\ dead' \subseteq dead \cup (1..issued)
      BY <1>13, Zenon DEF Age, Revoke, KeyringFlips
    <3> QED
      BY <1>0, <3>1, <3>2, Zenon DEF TypeStore
  <2>5. TypeStore'
    BY <1>0, <1>i, <2>1, <2>3, <2>4 DEF TypeStore
  <2>6. TypeFlags'
    BY <1>0, <1>13 DEF Age, Revoke, KeyringFlips, TypeFlags
  <2> QED
    BY <2>2, <2>5, <2>6
<1>14. CASE UNCHANGED vars
  BY <1>0, <1>i, <1>14 DEF vars, TypeCallers, TypeStore, TypeFlags
<1> QED
  BY <1>2, <1>3, <1>4, <1>5, <1>6, <1>7, <1>8, <1>9, <1>10, <1>11, <1>12, <1>13, <1>14
     DEF Next, CredentialsStep

----------------------------------------------------------------------------
(* The invariant is inductive.                                             *)

\* The initial states satisfy the inductive invariant.
LEMMA InitIInv == Init => IInv
<1> SUFFICES ASSUME Init PROVE IInv
  OBVIOUS
<1>1. Entries = {First, NoCredentials} /\ First.at = 1 /\ First.rt = 1
  BY DEF Init, Entries, First
<1>2. TypeOK
  <2>1. issued = 1 /\ First \in Credentials /\ NoCredentials \in Credentials
    BY DEF Init, First, NoCredentials, Credentials
  <2>2. TypeStore
    BY <2>1, TokenRefreshAssumption DEF Init, TypeStore
  <2>3. TypeCallers
    BY <2>1 DEF Init, TypeCallers
  <2>4. TypeFlags
    BY DEF Init, TypeFlags
  <2> QED
    BY <2>2, <2>3, <2>4, TypeParts
<1>3. EntriesComplete /\ UsedAreComplete /\ LockHeld /\ NewTokensPrivate
  BY <1>1 DEF Init, EntriesComplete, UsedAreComplete, LockHeld, NewTokensPrivate
<1>4. StoredIsUnsent /\ SentIsUnsent /\ DeniedForReason
  BY DEF Init, StoredIsUnsent, SentIsUnsent, DeniedForReason
<1>5. KnownAreAccepted
  BY <1>1 DEF Init, KnownAreAccepted, Accepted
<1>6. OneBackend /\ RejectedIsGone /\ RefreshTokenUsedOnce /\ RetryUsesNewToken
  BY DEF Init, OneBackend, RejectedIsGone, RefreshTokenUsedOnce, RetryUsesNewToken
<1>7. SignedOutOnlyByAuthority
  BY DEF Init, SignedOutOnlyByAuthority, Empty, First, NoCredentials
<1> QED
  BY <1>2, <1>3, <1>4, <1>5, <1>6, <1>7 DEF IInv

\* What a step that leaves the store, the server and the histories alone
\* keeps.
LEMMA SharedUntouched ==
    ASSUME IInv, UNCHANGED <<store, live, revoked, exchanged, again, raced, spoiled>>
    PROVE  /\ Entries' = Entries
           /\ EntriesComplete' /\ OneBackend'
           /\ RefreshTokenUsedOnce' /\ SignedOutOnlyByAuthority'
           /\ \A r : Accepted(r) => Accepted(r)'
           /\ Reason' = Reason
BY DEF IInv, Entries, EntriesComplete, OneBackend, RefreshTokenUsedOnce,
   SignedOutOnlyByAuthority, Empty, Accepted, Reason

\* A step of one caller that neither begins nor ends with unsaved tokens, and
\* copies credentials and rejected tokens only from where they were.
LEMMA CallerMoves ==
    ASSUME IInv, NEW c \in Callers,
           UNCHANGED <<store, live, revoked, exchanged, again, raced, spoiled>>,
           NEW to, to # "save", pc[c] # "save", pc' = [pc EXCEPT ![c] = to],
           NEW s, seen' = [seen EXCEPT ![c] = s],
           NEW k \in Entries \cup {NoCredentials, cred[c]}, cred' = [cred EXCEPT ![c] = k],
           NEW t \in {0, tried[c], cred[c].at}, tried' = [tried EXCEPT ![c] = t]
    PROVE  NewTokensPrivate' /\ StoredIsUnsent'
<1>1. Entries' = Entries
  BY SharedUntouched
<1>2. \A d \in Callers : pc'[d] = "save" => /\ pc[d] = "save" /\ d # c
                                            /\ cred'[d] = cred[d] /\ seen'[d] = seen[d]
  BY DEF IInv, TypeOK
<1>3. \A d \in Callers : pc[d] = "save" => pc'[d] = "save" /\ seen'[d] = seen[d]
  BY DEF IInv, TypeOK
<1>4. \A d \in Callers : pc[d] = "save" => cred[d].at >= 1 /\ cred[d].rt >= 1
  BY DEF IInv, UsedAreComplete
<1>5. ASSUME NEW d \in Callers, pc'[d] = "save"
      PROVE  /\ k.at # cred[d].at /\ (Rotates => k.rt # cred[d].rt)
             /\ t # cred[d].at
  BY <1>2, <1>4, <1>5 DEF IInv, TypeOK, NewTokensPrivate, NoCredentials
<1>6. NewTokensPrivate'
  <2> SUFFICES ASSUME NEW d \in Callers, pc'[d] = "save"
               PROVE  /\ \A e \in Entries : e.at # cred[d].at /\ (Rotates => e.rt # cred[d].rt)
                      /\ \A e \in Callers \ {d} :
                             cred'[e].at # cred[d].at /\ (Rotates => cred'[e].rt # cred[d].rt)
                      /\ \A e \in Callers : tried'[e] # cred[d].at
                      /\ Rotates => \A p \in Processes : cred[d].rt \notin exchanged[p]
    BY <1>1, <1>2 DEF NewTokensPrivate
  <2>1. pc[d] = "save" /\ d # c
    BY <1>2
  <2>2. \A e \in Callers : cred'[e] = cred[e] \/ (e = c /\ cred'[e] = k)
    BY DEF IInv, TypeOK
  <2>3. \A e \in Callers : tried'[e] = tried[e] \/ tried'[e] = t
    BY DEF IInv, TypeOK
  <2> QED
    BY <1>5, <2>1, <2>2, <2>3 DEF IInv, NewTokensPrivate
<1>7. StoredIsUnsent'
  BY <1>1, <1>3 DEF IInv, StoredIsUnsent
<1> QED
  BY <1>6, <1>7

\* Giving the lock back leaves the callers of other processes and those that
\* wait alone.
LEMMA UnlockKeeps ==
    ASSUME IInv, NEW c \in Callers, lock' = [lock EXCEPT ![ProcessOf[c]] = Nobody],
           pc[c] \in {"reread", "refresh", "save", "denied"},
           NEW to \in {"idle", "send"}, pc' = [pc EXCEPT ![c] = to]
    PROVE  LockHeld'
BY ProcessType, TokenRefreshAssumption DEF IInv, TypeOK, LockHeld

\* Tokens that another caller has not saved stay private when a step of c
\* only spreads what c, the store or the server knew before.
LEMMA OthersPrivate ==
    ASSUME IInv, NEW c \in Callers,
           Entries' \subseteq Entries \cup {NoCredentials, cred[c]},
           pc'[c] # "save",
           \A d \in Callers \ {c} :
               pc'[d] = pc[d] /\ cred'[d] = cred[d] /\ tried'[d] = tried[d],
           cred'[c] \in Entries \cup {NoCredentials, cred[c]},
           tried'[c] \in {0, tried[c], cred[c].at},
           \A p \in Processes : exchanged'[p] \subseteq exchanged[p] \cup {cred[c].rt}
    PROVE  NewTokensPrivate'
<1> SUFFICES ASSUME NEW d \in Callers, pc'[d] = "save"
             PROVE  /\ \A k \in Entries' : k.at # cred'[d].at /\ (Rotates => k.rt # cred'[d].rt)
                    /\ \A e \in Callers \ {d} :
                           cred'[e].at # cred'[d].at /\ (Rotates => cred'[e].rt # cred'[d].rt)
                    /\ \A e \in Callers : tried'[e] # cred'[d].at
                    /\ Rotates => \A p \in Processes : cred'[d].rt \notin exchanged'[p]
  BY DEF NewTokensPrivate
<1>1. d # c /\ pc[d] = "save" /\ cred'[d] = cred[d] /\ cred[d].at >= 1 /\ cred[d].rt >= 1
  BY DEF IInv, UsedAreComplete
<1>2. /\ \A k \in Entries : k.at # cred[d].at /\ (Rotates => k.rt # cred[d].rt)
      /\ \A e \in Callers \ {d} :
             cred[e].at # cred[d].at /\ (Rotates => cred[e].rt # cred[d].rt)
      /\ \A e \in Callers : tried[e] # cred[d].at
      /\ Rotates => \A p \in Processes : cred[d].rt \notin exchanged[p]
  BY <1>1 DEF IInv, NewTokensPrivate
<1>3. \A k \in Entries \cup {NoCredentials, cred[c]} :
          k.at # cred[d].at /\ (Rotates => k.rt # cred[d].rt)
  BY <1>1, <1>2 DEF NoCredentials
<1>4. \A e \in Callers \ {d} :
          cred'[e].at # cred[d].at /\ (Rotates => cred'[e].rt # cred[d].rt)
  BY <1>1, <1>2, <1>3
<1>5. \A e \in Callers : tried'[e] # cred[d].at
  BY <1>1, <1>2
<1>6. Rotates => \A p \in Processes : cred[d].rt \notin exchanged'[p]
  BY <1>1, <1>2
<1> QED
  BY <1>1, <1>3, <1>4, <1>5, <1>6

\* What a caller knows and what its return leaves of it.
LEMMA ReturnForgets ==
    ASSUME IInv, NEW c \in Callers, Return(c)
    PROVE  /\ pc'[c] = "idle" /\ cred'[c] = NoCredentials /\ tried'[c] = 0
           /\ \A d \in Callers \ {c} :
                  /\ pc'[d] = pc[d] /\ cred'[d] = cred[d] /\ tried'[d] = tried[d]
                  /\ seen'[d] = seen[d] /\ force'[d] = force[d]
BY DEF IInv, TypeOK, Return

\* Every step preserves the invariant.
LEMMA NextIInv == IInv /\ [Next]_vars => IInv'
<1> SUFFICES ASSUME IInv, [Next]_vars PROVE IInv'
  OBVIOUS
<1>0. TypeOK /\ TypeOK'
  BY NextTypeOK DEF IInv
<1> USE DEF caller, server, clock, history
<1>1. ASSUME NEW c \in Callers, Call(c) PROVE IInv'
  <2>1. /\ UNCHANGED <<store, live, revoked, exchanged, again, raced, spoiled>>
        /\ pc[c] = "idle" /\ pc' = [pc EXCEPT ![c] = "get"]
        /\ UNCHANGED <<lock, force, seen, cred, tried>>
        /\ seen' = [seen EXCEPT ![c] = seen[c]] /\ cred' = [cred EXCEPT ![c] = cred[c]]
        /\ tried' = [tried EXCEPT ![c] = tried[c]]
    BY <1>0, <1>1 DEF Call, TypeOK
  <2>2. NewTokensPrivate' /\ StoredIsUnsent'
    BY <2>1, CallerMoves
  <2>3. UsedAreComplete' /\ LockHeld'
    BY <1>0, <2>1 DEF IInv, TypeOK, UsedAreComplete, LockHeld
  <2>4. SentIsUnsent' /\ KnownAreAccepted' /\ DeniedForReason'
    BY <1>0, <2>1, SharedUntouched DEF IInv, TypeOK, SentIsUnsent, KnownAreAccepted,
       DeniedForReason
  <2>5. RejectedIsGone' /\ RetryUsesNewToken'
    BY <1>0, <2>1, SharedUntouched DEF IInv, TypeOK, RejectedIsGone, RetryUsesNewToken
  <2> QED
    BY <1>0, <2>1, <2>2, <2>3, <2>4, <2>5, SharedUntouched DEF IInv
<1>r. ASSUME NEW c \in Callers, Return(c), pc[c] # "save", LockHeld',
             UNCHANGED <<store, live, revoked, exchanged, again, raced, spoiled>>
      PROVE  IInv'
  <2>1. /\ pc[c] # "save" /\ pc' = [pc EXCEPT ![c] = "idle"]
        /\ force' = [force EXCEPT ![c] = FALSE]
        /\ seen' = [seen EXCEPT ![c] = NoCredentials]
        /\ cred' = [cred EXCEPT ![c] = NoCredentials]
        /\ tried' = [tried EXCEPT ![c] = 0]
    BY <1>r DEF Return
  <2>2. NewTokensPrivate' /\ StoredIsUnsent'
    BY <1>r, <2>1, CallerMoves
  <2>3. UsedAreComplete'
    BY <1>0, <2>1 DEF IInv, TypeOK, UsedAreComplete
  <2>4. SentIsUnsent' /\ KnownAreAccepted' /\ DeniedForReason'
    BY <1>0, <1>r, <2>1, SharedUntouched DEF IInv, TypeOK, SentIsUnsent, KnownAreAccepted,
       DeniedForReason
  <2>5. RejectedIsGone' /\ RetryUsesNewToken'
    BY <1>0, <1>r, <2>1, SharedUntouched DEF IInv, TypeOK, RejectedIsGone, RetryUsesNewToken
  <2> QED
    BY <1>0, <1>r, <2>2, <2>3, <2>4, <2>5, SharedUntouched DEF IInv
<1>2. ASSUME NEW c \in Callers, GetFirst(c) PROVE IInv'
  <2> DEFINE k == Get(store, up, AllowFile)
  <2>1. UNCHANGED <<store, lock, live, revoked, exchanged, again, raced, spoiled>> /\ pc[c] = "get"
    BY <1>2 DEF GetFirst
  <2>2. CASE Return(c)
    <3>1. LockHeld'
      BY <1>0, <2>1, <2>2 DEF Return, IInv, TypeOK, LockHeld
    <3> QED
      BY <1>r, <2>1, <2>2, <3>1
  <2>3. CASE ~Return(c)
    <3>1. /\ Found(k)
          /\ pc' = [pc EXCEPT ![c] = IF ~force[c] /\ Fresh(k) THEN "send" ELSE "lock"]
          /\ seen' = [seen EXCEPT ![c] = k]
          /\ cred' = [cred EXCEPT ![c] = k]
          /\ UNCHANGED <<force, tried>>
      BY <1>2, <2>3, Zenon DEF GetFirst
    <3>2. k \in Entries /\ k.at >= 1 /\ k.rt >= 1 /\ k # NoCredentials
      BY <3>1, GetFinds DEF IInv
    <3>3. PICK to \in {"send", "lock"} :
              pc' = [pc EXCEPT ![c] = to] /\ (to = "send" => ~force[c])
      BY <3>1
    <3>4. tried' = [tried EXCEPT ![c] = tried[c]]
      BY <1>0, <3>1 DEF TypeOK
    <3> HIDE DEF k
    <3>5. NewTokensPrivate' /\ StoredIsUnsent'
      BY <2>1, <3>1, <3>2, <3>3, <3>4, CallerMoves
    <3>6. UsedAreComplete' /\ LockHeld'
      BY <1>0, <2>1, <3>1, <3>2, <3>3 DEF IInv, TypeOK, UsedAreComplete, LockHeld
    <3>7. SentIsUnsent' /\ KnownAreAccepted' /\ DeniedForReason'
      BY <1>0, <2>1, <3>1, <3>3, SharedUntouched DEF IInv, TypeOK, SentIsUnsent,
         KnownAreAccepted, DeniedForReason
    <3>8. spoiled = {} => \A e \in Entries : e = k \/ e = NoCredentials
      BY <3>2, Zenon DEF IInv, OneBackend, Entries
    <3>9. RejectedIsGone'
      BY <1>0, <2>1, <3>1, <3>3, <3>8, SharedUntouched DEF IInv, TypeOK, RejectedIsGone,
         NoCredentials
    <3>10. RetryUsesNewToken'
      BY <1>0, <2>1, <3>1, <3>3 DEF IInv, TypeOK, RejectedIsGone, RetryUsesNewToken
    <3> QED
      BY <1>0, <2>1, <3>5, <3>6, <3>7, <3>9, <3>10, SharedUntouched DEF IInv
  <2> QED
    BY <2>2, <2>3
<1>3. ASSUME NEW c \in Callers, Lock(c) PROVE IInv'
  <2>1. /\ UNCHANGED <<store, live, revoked, exchanged, again, raced, spoiled>>
        /\ pc[c] = "lock" /\ pc' = [pc EXCEPT ![c] = "reread"]
        /\ lock[ProcessOf[c]] = Nobody /\ lock' = [lock EXCEPT ![ProcessOf[c]] = c]
        /\ UNCHANGED <<force, seen, cred, tried>>
        /\ seen' = [seen EXCEPT ![c] = seen[c]] /\ cred' = [cred EXCEPT ![c] = cred[c]]
        /\ tried' = [tried EXCEPT ![c] = tried[c]]
    BY <1>0, <1>3 DEF Lock, TypeOK
  <2>2. NewTokensPrivate' /\ StoredIsUnsent'
    BY <2>1, CallerMoves
  <2>3. LockHeld'
    BY <1>0, <2>1, ProcessType, TokenRefreshAssumption DEF IInv, TypeOK, LockHeld
  <2>4. UsedAreComplete'
    BY <1>0, <2>1 DEF IInv, TypeOK, UsedAreComplete
  <2>5. SentIsUnsent' /\ KnownAreAccepted' /\ DeniedForReason'
    BY <1>0, <2>1, SharedUntouched DEF IInv, TypeOK, SentIsUnsent, KnownAreAccepted,
       DeniedForReason
  <2>6. RejectedIsGone' /\ RetryUsesNewToken'
    BY <1>0, <2>1, SharedUntouched DEF IInv, TypeOK, RejectedIsGone, RetryUsesNewToken
  <2> QED
    BY <1>0, <2>1, <2>2, <2>3, <2>4, <2>5, <2>6, SharedUntouched DEF IInv
<1>4. ASSUME NEW c \in Callers, GetAgain(c) PROVE IInv'
  <2> DEFINE k == Get(store, up, AllowFile)
  <2>1. UNCHANGED <<store, live, revoked, exchanged, again, raced, spoiled>> /\ pc[c] = "reread"
    BY <1>4 DEF GetAgain, Decide
  <2>2. CASE Return(c) /\ Unlock(c)
    <3>1. LockHeld'
      BY <2>1, <2>2, UnlockKeeps DEF Return, Unlock
    <3> QED
      BY <1>r, <2>1, <2>2, <3>1
  <2>3. CASE ~(Return(c) /\ Unlock(c))
    <3>1. /\ Found(k)
          /\ cred' = [cred EXCEPT ![c] = k]
          /\ \/ /\ pc' = [pc EXCEPT ![c] = "send"] /\ Unlock(c)
                /\ Reusable(force[c], seen[c], k)
             \/ pc' = [pc EXCEPT ![c] = "refresh"] /\ UNCHANGED lock
          /\ UNCHANGED <<force, seen, tried>>
      BY <1>4, <2>3, Zenon DEF GetAgain, Decide
    <3>2. k \in Entries /\ k.at >= 1 /\ k.rt >= 1 /\ k # NoCredentials
      BY <3>1, GetFinds DEF IInv
    <3>3. PICK to \in {"send", "refresh"} :
              /\ pc' = [pc EXCEPT ![c] = to]
              /\ to = "send" => Unlock(c) /\ (force[c] => k.at # seen[c].at)
              /\ to = "refresh" => UNCHANGED lock
      BY <3>1 DEF Reusable
    <3>4. /\ tried' = [tried EXCEPT ![c] = tried[c]]
          /\ seen' = [seen EXCEPT ![c] = seen[c]]
      BY <1>0, <3>1 DEF TypeOK
    <3> HIDE DEF k
    <3>5. NewTokensPrivate' /\ StoredIsUnsent'
      BY <2>1, <3>1, <3>2, <3>3, <3>4, CallerMoves
    <3>6. LockHeld'
      <4>1. CASE to = "send"
        BY <2>1, <3>3, <4>1, UnlockKeeps DEF Unlock
      <4>2. CASE to = "refresh"
        BY <1>0, <2>1, <3>3, <4>2 DEF IInv, TypeOK, LockHeld
      <4> QED
        BY <4>1, <4>2
    <3>7. UsedAreComplete'
      BY <1>0, <2>1, <3>1, <3>2, <3>3 DEF IInv, TypeOK, UsedAreComplete
    <3>8. SentIsUnsent'
      <4>1. Rotates /\ k.rt \in exchanged[ProcessOf[c]] => k.rt \in spoiled
        BY <2>1, <3>2, ProcessType DEF IInv, StoredIsUnsent, LockHeld
      <4> QED
        BY <1>0, <2>1, <3>1, <3>3, <4>1 DEF IInv, TypeOK, SentIsUnsent
    <3>9. KnownAreAccepted' /\ DeniedForReason'
      BY <1>0, <2>1, <3>1, <3>2, <3>3, SharedUntouched DEF IInv, TypeOK, KnownAreAccepted,
         DeniedForReason
    <3>10. RejectedIsGone'
      BY <1>0, <2>1, <3>1, <3>3, SharedUntouched DEF IInv, TypeOK, RejectedIsGone
    <3>11. RetryUsesNewToken'
      <4>1. to = "send" /\ tried[c] # 0 /\ spoiled = {} => k.at # tried[c]
        BY <2>1, <3>2, <3>3 DEF IInv, RejectedIsGone
      <4> QED
        BY <1>0, <2>1, <3>1, <3>3, <4>1 DEF IInv, TypeOK, RetryUsesNewToken
    <3> QED
      BY <1>0, <2>1, <3>5, <3>6, <3>7, <3>8, <3>9, <3>10, <3>11, SharedUntouched DEF IInv
  <2> QED
    BY <2>2, <2>3
<1>5. ASSUME NEW c \in Callers, ServerAnswers(c) PROVE IInv'
  <2> DEFINE r == cred[c].rt
             p == ProcessOf[c]
  <2>1. /\ pc[c] = "refresh" /\ p \in Processes /\ r >= 1
        /\ UNCHANGED <<store, lock, force, tried, revoked, spoiled>>
        /\ Entries' = Entries
    BY <1>5, ProcessType DEF ServerAnswers, IInv, UsedAreComplete, Entries
  <2>2. /\ \A q \in Processes : exchanged[q] \subseteq exchanged'[q]
        /\ \A q \in Processes \ {p} : exchanged'[q] = exchanged[q]
        /\ exchanged'[p] = exchanged[p] \cup ({r} \cap live)
    BY <1>0, <1>5, <2>1 DEF ServerAnswers, Handled, TypeOK
  <2>3. /\ again' = again \cup ({r} \cap exchanged[p])
        /\ raced' = raced \cup ({r} \cap UNION {exchanged[q] : q \in Processes \ {p}})
    BY <1>5 DEF ServerAnswers, Handled
  <2>4. EntriesComplete' /\ OneBackend'
    BY <2>1 DEF IInv, EntriesComplete, OneBackend
  <2>5. RefreshTokenUsedOnce'
    BY <2>1, <2>3 DEF IInv, SentIsUnsent, RefreshTokenUsedOnce
  <2>6. (Reason => Reason') /\ SignedOutOnlyByAuthority'
    BY <2>1, <2>3 DEF IInv, Reason, SignedOutOnlyByAuthority, Empty
  <2>7. CASE r \in live
    <3>1. /\ issued' = issued + 1
          /\ live' = IF Rotates THEN (live \ {r}) \cup {issued + 1} ELSE live
          /\ seen' = [seen EXCEPT ![c] = cred[c]]
          /\ cred' = [cred EXCEPT ![c] = [at |-> issued + 1,
                                          rt |-> IF Rotates THEN issued + 1 ELSE r,
                                          user |-> cred[c].user]]
          /\ pc' = [pc EXCEPT ![c] = "save"]
      BY <1>5, <2>7 DEF ServerAnswers
    <3>2. /\ pc'[c] = "save" /\ seen'[c] = cred[c] /\ cred'[c].at = issued + 1
          /\ cred'[c].rt = IF Rotates THEN issued + 1 ELSE r
          /\ \A d \in Callers \ {c} :
                 pc'[d] = pc[d] /\ seen'[d] = seen[d] /\ cred'[d] = cred[d]
      BY <1>0, <3>1 DEF TypeOK
    <3>3. /\ issued \in Nat
          /\ \A k \in Entries : k.at <= issued /\ k.rt <= issued
          /\ \A d \in Callers : cred[d].at <= issued /\ cred[d].rt <= issued
          /\ \A d \in Callers : tried[d] <= issued
          /\ \A q \in Processes : \A x \in exchanged[q] : x <= issued
      <4>1. issued \in Nat /\ issued >= 1 /\ Unavailable.at = 0 /\ Unavailable.rt = 1
        BY <1>0 DEF TypeOK, Unavailable
      <4>2. \A k \in Entries : k.at <= issued /\ k.rt <= issued
        BY <1>0 DEF TypeOK, Entries, Credentials
      <4>3. \A d \in Callers : cred[d].at <= issued /\ cred[d].rt <= issued
        BY <1>0, <4>1 DEF TypeOK, Credentials
      <4>4. \A d \in Callers : tried[d] <= issued
        BY <1>0, <4>1 DEF TypeOK
      <4>5. \A q \in Processes : \A x \in exchanged[q] : x <= issued
        BY <1>0, <4>1 DEF TypeOK
      <4> QED
        BY <4>1, <4>2, <4>3, <4>4, <4>5
    <3>4. UsedAreComplete'
      BY <2>1, <3>2, <3>3 DEF IInv, UsedAreComplete
    <3>5. LockHeld'
      BY <2>1, <3>2 DEF IInv, LockHeld
    <3>6. NewTokensPrivate'
      <4> SUFFICES ASSUME NEW d \in Callers, pc'[d] = "save"
                   PROVE  /\ \A k \in Entries :
                                 k.at # cred'[d].at /\ (Rotates => k.rt # cred'[d].rt)
                          /\ \A e \in Callers \ {d} :
                                 /\ cred'[e].at # cred'[d].at
                                 /\ Rotates => cred'[e].rt # cred'[d].rt
                          /\ \A e \in Callers : tried[e] # cred'[d].at
                          /\ Rotates => \A q \in Processes : cred'[d].rt \notin exchanged'[q]
        BY <2>1 DEF NewTokensPrivate
      <4>1. CASE d = c
        BY <2>1, <2>2, <3>2, <3>3, <4>1
      <4>2. CASE d # c
        <5>1. pc[d] = "save" /\ cred'[d] = cred[d] /\ cred[d].at # issued + 1
              /\ cred[d].rt # issued + 1
          BY <3>2, <3>3, <4>2
        <5>2. Rotates => cred[d].rt # r
          BY <4>2, <5>1 DEF IInv, NewTokensPrivate
        <5>3. Rotates => \A q \in Processes : cred[d].rt \notin exchanged'[q]
          BY <2>2, <5>1, <5>2 DEF IInv, NewTokensPrivate
        <5> HIDE DEF r, p
        <5>4. \A e \in Callers \ {d} :
                  cred'[e].at # cred[d].at /\ (Rotates => cred'[e].rt # cred[d].rt)
          BY <3>2, <5>1 DEF IInv, NewTokensPrivate
        <5> QED
          BY <5>1, <5>3, <5>4 DEF IInv, NewTokensPrivate
      <4> QED
        BY <4>1, <4>2
    <3>7. StoredIsUnsent'
      BY <2>1, <2>2, <3>2 DEF IInv, StoredIsUnsent
    <3>8. SentIsUnsent'
      <4>1. \A d \in Callers : pc'[d] = "refresh" =>
                pc[d] = "refresh" /\ ProcessOf[d] \in Processes \ {p} /\ cred'[d] = cred[d]
        BY <2>1, <3>2, ProcessType DEF IInv, LockHeld
      <4> QED
        BY <2>1, <2>2, <4>1 DEF IInv, SentIsUnsent
    <3>9. KnownAreAccepted'
      <4>1. \A x : Accepted(x) => Accepted(x)'
        BY <2>1, <2>2, <2>7, <3>1 DEF Accepted
      <4>2. Accepted(cred[c].rt)'
        BY <2>1, <2>7, <3>1, <3>2 DEF Accepted
      <4>3. ASSUME NEW d \in Callers \ {c}, pc'[d] \in {"refresh", "save"}
            PROVE  Accepted(cred[d].rt)'
        <5>1. Accepted(cred[d].rt) /\ cred'[d].rt = cred[d].rt
          BY <3>2, <4>3 DEF IInv, KnownAreAccepted
        <5> QED
          BY <4>1, <5>1 DEF Accepted
      <4>4. \A k \in Entries' : k # NoCredentials => Accepted(k.rt)'
        BY <2>1, <4>1 DEF IInv, KnownAreAccepted
      <4> QED
        BY <4>2, <4>3, <4>4 DEF KnownAreAccepted
    <3>10. DeniedForReason' /\ RejectedIsGone' /\ RetryUsesNewToken'
      BY <2>1, <2>6, <3>2 DEF IInv, DeniedForReason, RejectedIsGone, RetryUsesNewToken
    <3> QED
      BY <1>0, <2>4, <2>5, <2>6, <3>4, <3>5, <3>6, <3>7, <3>8, <3>9, <3>10 DEF IInv
  <2>8. CASE r \notin live
    <3>1. /\ pc' = [pc EXCEPT ![c] = "denied"]
          /\ UNCHANGED <<live, seen, cred>>
      BY <1>5, <2>8 DEF ServerAnswers
    <3>2. pc'[c] = "denied" /\ \A d \in Callers \ {c} : pc'[d] = pc[d]
      BY <1>0, <3>1 DEF TypeOK
    <3>3. \A q \in Processes : exchanged'[q] = exchanged[q]
      BY <2>2, <2>8
    <3>4. UsedAreComplete' /\ LockHeld'
      BY <2>1, <3>1, <3>2 DEF IInv, UsedAreComplete, LockHeld
    <3>5. NewTokensPrivate'
      BY <2>1, <3>1, <3>2, <3>3, OthersPrivate
    <3>6. StoredIsUnsent'
      BY <2>1, <3>1, <3>2, <3>3 DEF IInv, StoredIsUnsent
    <3>7. SentIsUnsent'
      BY <2>1, <3>1, <3>2, <3>3, ProcessType DEF IInv, SentIsUnsent
    <3>8. KnownAreAccepted'
      BY <2>1, <3>1, <3>2, <3>3 DEF IInv, KnownAreAccepted, Accepted
    <3>9. Reason'
      <4>1. revoked \/ spoiled # {} \/ (Rotates /\ \E q \in Processes : r \in exchanged[q])
        BY <2>1, <2>8 DEF IInv, KnownAreAccepted, Accepted
      <4>2. Rotates /\ r \in exchanged[p] => spoiled # {}
        BY <2>1 DEF IInv, SentIsUnsent
      <4>3. (\E q \in Processes \ {p} : r \in exchanged[q]) => raced' # {}
        BY <2>3
      <4> HIDE DEF r, p
      <4> QED
        BY <2>1, <4>1, <4>2, <4>3 DEF Reason
    <3>10. DeniedForReason' /\ RejectedIsGone' /\ RetryUsesNewToken'
      BY <2>1, <3>1, <3>2, <3>9 DEF IInv, DeniedForReason, RejectedIsGone, RetryUsesNewToken
    <3> QED
      BY <1>0, <2>4, <2>5, <2>6, <3>4, <3>5, <3>6, <3>7, <3>8, <3>10 DEF IInv
  <2> QED
    BY <2>7, <2>8
<1>6. ASSUME NEW c \in Callers, NEW reached \in BOOLEAN, RefreshFails(c, reached) PROVE IInv'
  <2> DEFINE r == cred[c].rt
             p == ProcessOf[c]
  <2>1. /\ pc[c] = "refresh" /\ p \in Processes /\ r >= 1
        /\ Return(c) /\ Unlock(c)
        /\ UNCHANGED <<store, revoked>>
        /\ Entries' = Entries
    BY <1>6, ProcessType DEF RefreshFails, IInv, UsedAreComplete, Entries
  <2>2. LockHeld'
    BY <2>1, UnlockKeeps DEF Return, Unlock
  <2>3. CASE ~reached
    <3>1. UNCHANGED <<store, live, revoked, exchanged, again, raced, spoiled>>
      BY <1>6, <2>3 DEF RefreshFails
    <3> QED
      BY <1>r, <2>1, <2>2, <3>1
  <2>4. CASE reached
    <3>1. spoiled' = spoiled \cup {r} /\ Handled(c, r)
      BY <1>6, <2>4 DEF RefreshFails
    <3>2. /\ \A q \in Processes : exchanged[q] \subseteq exchanged'[q]
          /\ \A q \in Processes : exchanged'[q] \subseteq exchanged[q] \cup {r}
          /\ again' \subseteq again \cup {r}
      BY <1>0, <2>1, <3>1 DEF Handled, TypeOK
    <3>3. /\ pc'[c] = "idle" /\ cred'[c] = NoCredentials /\ tried'[c] = 0
          /\ \A d \in Callers \ {c} :
                 /\ pc'[d] = pc[d] /\ cred'[d] = cred[d] /\ tried'[d] = tried[d]
                 /\ seen'[d] = seen[d] /\ force'[d] = force[d]
      BY <2>1, ReturnForgets
    <3>4. NewTokensPrivate'
      BY <2>1, <3>2, <3>3, OthersPrivate
    <3>5. spoiled' # {}
      BY <3>1
    <3>6. EntriesComplete' /\ OneBackend' /\ SignedOutOnlyByAuthority' /\ DeniedForReason'
      BY <2>1, <3>5 DEF IInv, EntriesComplete, OneBackend, SignedOutOnlyByAuthority,
         DeniedForReason, Reason
    <3>7. UsedAreComplete' /\ RejectedIsGone' /\ RetryUsesNewToken' /\ KnownAreAccepted'
      BY <3>3, <3>5 DEF IInv, UsedAreComplete, RejectedIsGone, RetryUsesNewToken,
         KnownAreAccepted, Accepted
    <3>8. StoredIsUnsent'
      <4> HIDE DEF r, p
      <4>1. \A d \in Callers : pc[d] = "save" => pc'[d] = "save" /\ seen'[d] = seen[d]
        BY <2>1, <3>3
      <4> QED
        BY <2>1, <3>1, <3>2, <4>1 DEF IInv, StoredIsUnsent
    <3>9. SentIsUnsent'
      <4> HIDE DEF r, p
      <4>1. \A d \in Callers : pc'[d] = "refresh" => pc[d] = "refresh" /\ cred'[d] = cred[d]
        BY <3>3
      <4> QED
        BY <3>1, <3>2, <4>1, ProcessType DEF IInv, SentIsUnsent
    <3>10. RefreshTokenUsedOnce'
      BY <3>1, <3>2 DEF IInv, RefreshTokenUsedOnce
    <3> QED
      BY <1>0, <2>2, <3>4, <3>6, <3>7, <3>8, <3>9, <3>10 DEF IInv
  <2> QED
    BY <2>3, <2>4
<1>7. ASSUME NEW c \in Callers, NEW result \in FileResults, Save(c, result) PROVE IInv'
  <2>1. /\ pc[c] = "save" /\ pc' = [pc EXCEPT ![c] = "send"] /\ Unlock(c)
        /\ UNCHANGED <<force, seen, cred, tried, live, revoked, exchanged, again, raced>>
        /\ store' = Set(store, up, AllowFile, result, cred[c])
        /\ SetSucceeds(up, AllowFile, result)
        /\ spoiled' = spoiled \cup
               ({k.rt : k \in {store'.keyring, store'.file} \ {cred[c]}} \ {0})
    BY <1>7 DEF Save
  <2>2. pc'[c] = "send" /\ \A d \in Callers \ {c} : pc'[d] = pc[d]
    BY <1>0, <2>1 DEF TypeOK
  <2>3. cred[c].at >= 1 /\ cred[c].rt >= 1 /\ cred[c] # NoCredentials
    BY <2>1 DEF IInv, UsedAreComplete, NoCredentials
  <2>4. /\ store'.keyring = IF up THEN cred[c] ELSE store.keyring
        /\ up => store'.file \in {store.file, NoCredentials}
        /\ ~up => store'.file = cred[c]
    <3>1. up \in BOOLEAN
      BY <1>0 DEF TypeOK
    <3> QED
      BY <2>1, <3>1, SetEntries
  <2>5. Entries' \subseteq Entries \cup {NoCredentials, cred[c]} /\ cred[c] \in Entries'
    BY <2>4 DEF Entries
  <2>6. \A k \in Entries' : k \in {NoCredentials, cred[c]} \/ k.rt = 0 \/ k.rt \in spoiled'
    BY <2>1 DEF Entries
  <2>7. /\ \A k \in Entries : k.at # cred[c].at
        /\ \A d \in Callers : tried[d] # cred[c].at
        /\ Rotates => \A q \in Processes : cred[c].rt \notin exchanged[q]
    BY <2>1 DEF IInv, NewTokensPrivate
  <2>8. spoiled \subseteq spoiled'
    BY <2>1
  <2>9. EntriesComplete'
    BY <2>3, <2>5 DEF IInv, EntriesComplete
  <2>10. UsedAreComplete'
    BY <2>1, <2>2, <2>3 DEF IInv, UsedAreComplete
  <2>11. LockHeld'
    BY <2>1, UnlockKeeps DEF Unlock
  <2>12. NewTokensPrivate'
    BY <2>1, <2>2, <2>5, OthersPrivate
  <2>13. StoredIsUnsent'
    <3>1. \A q \in Processes : 0 \notin exchanged[q]
      BY <1>0 DEF TypeOK
    <3>2. NoCredentials.rt = 0
      BY DEF NoCredentials
    <3> QED
      BY <2>1, <2>6, <2>7, <3>1, <3>2 DEF StoredIsUnsent
  <2>14. SentIsUnsent'
    BY <2>1, <2>2, <2>8 DEF IInv, SentIsUnsent
  <2>15. KnownAreAccepted'
    <3>1. \A x : Accepted(x) => Accepted(x)'
      BY <2>1, <2>8 DEF Accepted
    <3>2. Accepted(cred[c].rt)
      BY <2>1 DEF IInv, KnownAreAccepted
    <3>3. \A k \in Entries' : k # NoCredentials => Accepted(k.rt)'
      BY <2>5, <3>1, <3>2 DEF IInv, KnownAreAccepted
    <3>4. \A d \in Callers : pc'[d] \in {"refresh", "save"} => Accepted(cred[d].rt)'
      <4> SUFFICES ASSUME NEW d \in Callers, pc'[d] \in {"refresh", "save"}
                   PROVE  Accepted(cred[d].rt)'
        OBVIOUS
      <4>1. Accepted(cred[d].rt) /\ cred'[d].rt = cred[d].rt
        BY <2>1, <2>2 DEF IInv, KnownAreAccepted
      <4> QED
        BY <3>1, <4>1 DEF Accepted
    <3> QED
      BY <3>3, <3>4 DEF KnownAreAccepted
  <2>16. DeniedForReason'
    BY <2>1, <2>2, <2>8 DEF IInv, DeniedForReason, Reason
  <2>17. OneBackend'
    <3>1. \A k \in Entries' : spoiled' = {} => k \in {NoCredentials, cred[c]} \/ k.rt = 0
      BY <2>6
    <3>2. \A k \in Entries' : k.rt = 0 => k = NoCredentials
      BY <2>9 DEF EntriesComplete
    <3>3. cred[c] \notin Entries
      BY <2>7
    <3>4. IF up THEN store'.file # cred[c] ELSE store'.keyring # cred[c]
      BY <2>3, <2>4, <3>3 DEF Entries
    <3> QED
      BY <3>1, <3>2, <3>4 DEF OneBackend, Entries
  <2>18. RejectedIsGone'
    <3>1. NoCredentials.at = 0
      BY DEF NoCredentials
    <3> QED
      BY <2>1, <2>2, <2>5, <2>7, <2>8, <3>1 DEF IInv, RejectedIsGone
  <2>19. RefreshTokenUsedOnce'
    BY <2>1, <2>8 DEF IInv, RefreshTokenUsedOnce
  <2>20. SignedOutOnlyByAuthority'
    BY <2>3, <2>5 DEF SignedOutOnlyByAuthority, Empty, Entries
  <2>21. RetryUsesNewToken'
    BY <2>1, <2>2, <2>7, <2>8 DEF IInv, RetryUsesNewToken
  <2> QED
    BY <1>0, <2>9, <2>10, <2>11, <2>12, <2>13, <2>14, <2>15, <2>16, <2>17, <2>18, <2>19,
       <2>20, <2>21 DEF IInv
<1>8. ASSUME NEW c \in Callers, NEW result \in FileResults, SaveFails(c, result) PROVE IInv'
  <2>1. /\ pc[c] = "save" /\ Return(c) /\ Unlock(c)
        /\ UNCHANGED <<live, revoked, exchanged, again, raced>>
        /\ spoiled' = spoiled \cup {seen[c].rt}
        /\ Entries' \subseteq Entries \cup {NoCredentials, cred[c]}
    BY <1>8, SetEntries DEF SaveFails, Entries
  <2>k. /\ cred[c].at >= 1 /\ cred[c].rt >= 1
        /\ Rotates => \A q \in Processes : cred[c].rt \notin exchanged[q]
    BY <2>1 DEF IInv, UsedAreComplete, NewTokensPrivate
  <2>z. \A q \in Processes : NoCredentials.rt \notin exchanged[q]
    BY <1>0 DEF TypeOK, NoCredentials
  <2>2. LockHeld'
    BY <2>1, UnlockKeeps DEF Return, Unlock
  <2>3. /\ pc'[c] = "idle" /\ cred'[c] = NoCredentials /\ tried'[c] = 0
        /\ \A d \in Callers \ {c} :
               /\ pc'[d] = pc[d] /\ cred'[d] = cred[d] /\ tried'[d] = tried[d]
               /\ seen'[d] = seen[d] /\ force'[d] = force[d]
    BY <2>1, ReturnForgets
  <2>4. NewTokensPrivate'
    BY <2>1, <2>3, OthersPrivate
  <2>5. spoiled' # {} /\ spoiled \subseteq spoiled' /\ seen[c].rt \in spoiled'
    BY <2>1
  <2>6. EntriesComplete' /\ OneBackend' /\ SignedOutOnlyByAuthority' /\ DeniedForReason'
    BY <2>1, <2>5, <2>k DEF IInv, EntriesComplete, OneBackend, SignedOutOnlyByAuthority,
       DeniedForReason, Reason
  <2>7. UsedAreComplete' /\ RejectedIsGone' /\ RetryUsesNewToken' /\ KnownAreAccepted'
    BY <2>3, <2>5 DEF IInv, UsedAreComplete, RejectedIsGone, RetryUsesNewToken,
       KnownAreAccepted, Accepted
  <2>8. StoredIsUnsent'
    BY <2>1, <2>3, <2>5, <2>k, <2>z DEF IInv, StoredIsUnsent
  <2>9. SentIsUnsent' /\ RefreshTokenUsedOnce'
    BY <2>1, <2>3, <2>5 DEF IInv, SentIsUnsent, RefreshTokenUsedOnce
  <2> QED
    BY <1>0, <2>2, <2>4, <2>6, <2>7, <2>8, <2>9 DEF IInv
<1>9. ASSUME NEW c \in Callers, NEW result \in FileResults, Denied(c, result) PROVE IInv'
  <2>1. /\ pc[c] = "denied" /\ Return(c) /\ Unlock(c)
        /\ UNCHANGED <<live, revoked, exchanged, again, raced, spoiled>>
        /\ store' = Delete(store, up, result)
    BY <1>9 DEF Denied
  <2>2. /\ Entries' \subseteq Entries \cup {NoCredentials}
        /\ store'.keyring \in {store.keyring, NoCredentials}
        /\ store'.file \in {store.file, NoCredentials}
    BY <2>1, DeleteEntries DEF Entries
  <2>3. LockHeld'
    BY <2>1, UnlockKeeps DEF Return, Unlock
  <2>4. /\ pc'[c] = "idle" /\ cred'[c] = NoCredentials /\ tried'[c] = 0
        /\ \A d \in Callers \ {c} :
               /\ pc'[d] = pc[d] /\ cred'[d] = cred[d] /\ tried'[d] = tried[d]
               /\ seen'[d] = seen[d] /\ force'[d] = force[d]
    BY <2>1, ReturnForgets
  <2>5. NewTokensPrivate'
    BY <2>1, <2>2, <2>4, OthersPrivate
  <2>6. Reason /\ Reason'
    BY <2>1 DEF IInv, DeniedForReason, Reason
  <2>7. DeniedForReason' /\ SignedOutOnlyByAuthority' /\ OneBackend' /\ RefreshTokenUsedOnce'
    BY <2>1, <2>2, <2>6 DEF IInv, DeniedForReason, Reason, SignedOutOnlyByAuthority, OneBackend,
       RefreshTokenUsedOnce
  <2>8. UsedAreComplete' /\ EntriesComplete' /\ RetryUsesNewToken'
    BY <2>1, <2>2, <2>4 DEF IInv, UsedAreComplete, EntriesComplete, RetryUsesNewToken
  <2>9. StoredIsUnsent'
    <3>1. \A q \in Processes : NoCredentials.rt \notin exchanged[q]
      BY <1>0 DEF TypeOK, NoCredentials
    <3>2. \A d \in Callers : pc[d] = "save" => pc'[d] = "save" /\ seen'[d] = seen[d]
      BY <2>1, <2>4
    <3> QED
      BY <2>1, <2>2, <3>1, <3>2 DEF IInv, StoredIsUnsent
  <2>10. SentIsUnsent'
    BY <2>1, <2>4 DEF IInv, SentIsUnsent
  <2>11. KnownAreAccepted'
    BY <2>1, <2>2, <2>4 DEF IInv, KnownAreAccepted, Accepted
  <2>12. RejectedIsGone'
    <3>1. NoCredentials.at = 0
      BY DEF NoCredentials
    <3> QED
      BY <2>1, <2>2, <2>4, <3>1 DEF IInv, RejectedIsGone
  <2> QED
    BY <1>0, <2>3, <2>5, <2>7, <2>8, <2>9, <2>10, <2>11, <2>12 DEF IInv
<1>10. ASSUME NEW c \in Callers, Unauthorized(c) PROVE IInv'
  <2>1. /\ UNCHANGED <<store, live, revoked, exchanged, again, raced, spoiled>>
        /\ pc[c] = "send" /\ pc' = [pc EXCEPT ![c] = "get"]
        /\ force' = [force EXCEPT ![c] = TRUE]
        /\ tried' = [tried EXCEPT ![c] = cred[c].at]
        /\ UNCHANGED <<lock, seen, cred>>
        /\ seen' = [seen EXCEPT ![c] = seen[c]] /\ cred' = [cred EXCEPT ![c] = cred[c]]
    BY <1>0, <1>10 DEF Unauthorized, TypeOK
  <2>2. NewTokensPrivate' /\ StoredIsUnsent'
    BY <2>1, CallerMoves
  <2>3. UsedAreComplete' /\ LockHeld'
    BY <1>0, <2>1 DEF IInv, TypeOK, UsedAreComplete, LockHeld
  <2>4. SentIsUnsent' /\ KnownAreAccepted' /\ DeniedForReason'
    BY <1>0, <2>1, SharedUntouched DEF IInv, TypeOK, SentIsUnsent, KnownAreAccepted,
       DeniedForReason
  <2>5. RejectedIsGone' /\ RetryUsesNewToken'
    BY <1>0, <2>1, SharedUntouched DEF IInv, TypeOK, RejectedIsGone, RetryUsesNewToken
  <2> QED
    BY <1>0, <2>1, <2>2, <2>3, <2>4, <2>5, SharedUntouched DEF IInv
<1>11. ASSUME NEW c \in Callers, Responds(c) PROVE IInv'
  <2>1. /\ UNCHANGED <<store, lock, live, revoked, exchanged, again, raced, spoiled>>
        /\ pc[c] = "send" /\ Return(c)
    BY <1>11 DEF Responds
  <2>2. LockHeld'
    BY <1>0, <2>1 DEF Return, IInv, TypeOK, LockHeld
  <2> QED
    BY <1>r, <2>1, <2>2
<1>12. CASE Revoke
  <2>1. /\ revoked' = TRUE /\ Entries' = Entries
        /\ UNCHANGED <<store, lock, pc, force, seen, cred, tried, exchanged, again, raced, spoiled>>
    BY <1>12 DEF Revoke, Entries
  <2>2. EntriesComplete' /\ UsedAreComplete' /\ LockHeld' /\ NewTokensPrivate'
    BY <2>1 DEF IInv, EntriesComplete, UsedAreComplete, LockHeld, NewTokensPrivate
  <2>3. StoredIsUnsent' /\ SentIsUnsent' /\ OneBackend' /\ RejectedIsGone'
    BY <2>1 DEF IInv, StoredIsUnsent, SentIsUnsent, OneBackend, RejectedIsGone
  <2>4. KnownAreAccepted' /\ DeniedForReason' /\ SignedOutOnlyByAuthority'
    BY <2>1 DEF IInv, KnownAreAccepted, Accepted, DeniedForReason, Reason, SignedOutOnlyByAuthority
  <2>5. RefreshTokenUsedOnce' /\ RetryUsesNewToken'
    BY <2>1 DEF IInv, RefreshTokenUsedOnce, RetryUsesNewToken
  <2> QED
    BY <1>0, <2>2, <2>3, <2>4, <2>5 DEF IInv
<1>13. CASE Age \/ KeyringFlips \/ UNCHANGED vars
  <2>1. UNCHANGED <<store, lock, pc, force, seen, cred, tried, live, revoked, exchanged, again,
                    raced, spoiled>>
    BY <1>13 DEF Age, KeyringFlips, vars
  <2>2. UsedAreComplete' /\ LockHeld' /\ NewTokensPrivate'
    BY <2>1, SharedUntouched DEF IInv, UsedAreComplete, LockHeld, NewTokensPrivate
  <2>3. StoredIsUnsent' /\ SentIsUnsent' /\ RejectedIsGone' /\ RetryUsesNewToken'
    BY <2>1, SharedUntouched DEF IInv, StoredIsUnsent, SentIsUnsent, RejectedIsGone,
       RetryUsesNewToken
  <2>4. KnownAreAccepted' /\ DeniedForReason'
    BY <2>1, SharedUntouched DEF IInv, KnownAreAccepted, DeniedForReason
  <2> QED
    BY <1>0, <2>1, <2>2, <2>3, <2>4, SharedUntouched DEF IInv
<1> QED
  BY <1>1, <1>2, <1>3, <1>4, <1>5, <1>6, <1>7, <1>8, <1>9, <1>10, <1>11, <1>12, <1>13
     DEF Next, CredentialsStep

----------------------------------------------------------------------------
(* The theorems.                                                           *)

\* The inductive invariant, and with it the type invariant, holds throughout.
THEOREM RefreshInvariant == Spec => []IInv
BY InitIInv, NextIInv, PTL DEF Spec

\* Concurrent calls of one process never send a refresh token again that was
\* exchanged for a rotated one, unless the new tokens could not be recorded
\* (Client.credentials reads the store again under accountLock).
THEOREM RefreshUsedOnce == Spec => []RefreshTokenUsedOnce
<1>1. IInv => RefreshTokenUsedOnce
  BY DEF IInv
<1> QED
  BY <1>1, RefreshInvariant, PTL

\* A session is deleted only when the server revoked it, the replacement of a
\* rotated token was lost, or another process exchanged the same token:
\* Client.credentials deletes on invalid_grant only.
THEOREM RefreshSignsOutForReason == Spec => []SignedOutOnlyByAuthority
<1>1. IInv => SignedOutOnlyByAuthority
  BY DEF IInv
<1> QED
  BY <1>1, RefreshInvariant, PTL

\* The second attempt of Client.do carries another access token than the one
\* the API rejected, whichever callers refreshed in between.
THEOREM RefreshRetryUsesNewToken == Spec => []RetryUsesNewToken
<1>1. IInv => RetryUsesNewToken
  BY DEF IInv
<1> QED
  BY <1>1, RefreshInvariant, PTL

\* Where a caller has read the credentials it replaces or deletes.
Refreshing == {"refresh", "save", "denied"}

\* While a caller refreshes, the stored credentials change only by a refresh
\* of another process that holds the lock of that process.
OthersWrite ==
    \A c \in Callers :
        pc[c] \in Refreshing /\ pc'[c] \in Refreshing /\ store' # store =>
            \E d \in Callers :
                /\ ProcessOf[d] # ProcessOf[c]
                /\ lock[ProcessOf[d]] = d
                /\ pc[d] \in {"save", "denied"}

\* Reading the stored credentials again, exchanging their refresh token and
\* saving or deleting is one atomic change for the calls of one process
\* (Client.credentials under accountLock), whatever requests fail.
THEOREM RefreshIsExclusive == Spec => [][OthersWrite]_vars
<1>1. IInv /\ [Next]_vars => [OthersWrite]_vars
  <2> SUFFICES ASSUME IInv, Next, NEW c \in Callers,
                      pc[c] \in Refreshing, pc'[c] \in Refreshing, store' # store
               PROVE  \E d \in Callers : /\ ProcessOf[d] # ProcessOf[c]
                                         /\ lock[ProcessOf[d]] = d
                                         /\ pc[d] \in {"save", "denied"}
    BY Zenon DEF OthersWrite
  <2>1. /\ \A d \in Callers :
              pc[d] \in {"reread", "refresh", "save", "denied"} => lock[ProcessOf[d]] = d
        /\ pc \in [Callers -> {"idle", "get", "lock", "reread", "refresh", "save", "denied", "send"}]
    BY DEF IInv, LockHeld, TypeOK
  <2>2. PICK d \in Callers, result \in FileResults :
            Save(d, result) \/ SaveFails(d, result) \/ Denied(d, result)
    <3>1. ASSUME NEW d \in Callers, Call(d) \/ CredentialsStep(d)
          PROVE  \E result \in FileResults :
                     Save(d, result) \/ SaveFails(d, result) \/ Denied(d, result)
      BY <3>1 DEF Call, CredentialsStep, GetFirst, Lock, GetAgain, Decide, ServerAnswers,
         RefreshFails, Unauthorized, Responds
    <3>2. ~Age /\ ~Revoke /\ ~KeyringFlips
      BY DEF Age, Revoke, KeyringFlips
    <3> QED
      BY <3>1, <3>2 DEF Next
  <2>3. pc[d] \in {"save", "denied"} /\ pc'[d] \notin Refreshing
    BY <2>1, <2>2 DEF Save, SaveFails, Denied, Return, Refreshing
  <2>4. d # c /\ lock[ProcessOf[d]] = d /\ lock[ProcessOf[c]] = c
    BY <2>1, <2>3 DEF Refreshing
  <2> QED
    BY <2>3, <2>4
<1> QED
  BY <1>1, RefreshInvariant, PTL DEF Spec
=============================================================================
