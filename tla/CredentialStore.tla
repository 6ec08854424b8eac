-------------------------- MODULE CredentialStore --------------------------
(***************************************************************************)
(* The credential stores of src/internal/oauth/credentials.go as operators *)
(* on one account: the operating-system keyring, the owner-only fallback   *)
(* file and the FallbackStore in front of both.  A store is a record of    *)
(* what each backend holds.  The keyring may be unavailable (up is FALSE), *)
(* a call that changes the file may fail, and the file is used only when   *)
(* the user allowed it.                                                    *)
(***************************************************************************)
EXTENDS Naturals

\* Credentials are an access and a refresh token, numbered as issued (0 when
\* the server sent none), and the user, numbered by the login.
NoCredentials == [at |-> 0, rt |-> 0, user |-> 0]

\* What Get returns for an unavailable backend or an incomplete entry.
Unavailable == [at |-> 0, rt |-> 1, user |-> 0]

\* decodeCredentials refuses an entry without a refresh token.
decodeCredentials(c) == IF c.at # 0 /\ c.rt = 0 THEN Unavailable ELSE c

\* FallbackStore.Get: the file answers for an empty or failing keyring.
Get(s, up, allowFile) ==
    LET primary == IF up THEN decodeCredentials(s.keyring) ELSE Unavailable
    IN  IF allowFile /\ primary \in {NoCredentials, Unavailable}
        THEN decodeCredentials(s.file) ELSE primary

\* Whether Get returned credentials.
Found(c) == c \notin {NoCredentials, Unavailable}

\* How a change of the file ends.  FileStore.Set fails before it has replaced
\* the file (directory, temporary file, mode, Write, Sync, Close, Replace) or,
\* at its last Chmod, late: after that.  FileStore.Delete removes the file or
\* fails.
FileResults == {"done", "failed", "late"}

\* FallbackStore.Set: a keyring that takes the value makes the file obsolete,
\* and an error of removing that is ignored; otherwise the file, if allowed,
\* takes the value, and the unavailable keyring keeps what it held.
Set(s, up, allowFile, result, c) ==
    [keyring |-> IF up THEN c ELSE s.keyring,
     file |-> CASE up /\ result = "done" -> NoCredentials
                [] ~up /\ allowFile /\ result # "failed" -> c
                [] OTHER -> s.file]

\* Set succeeds when the keyring takes the value, or the file without an error.
SetSucceeds(up, allowFile, result) == up \/ (allowFile /\ result = "done")

\* FallbackStore.Delete tries both backends.
Delete(s, up, result) ==
    [keyring |-> IF up THEN NoCredentials ELSE s.keyring,
     file |-> IF result = "done" THEN NoCredentials ELSE s.file]

\* With the file fallback an error of the keyring is not reported.
DeleteSucceeds(up, allowFile, result) == result = "done" /\ (up \/ allowFile)

\* Neither backend holds anything.
Empty(s) == s.keyring = NoCredentials /\ s.file = NoCredentials

=============================================================================
