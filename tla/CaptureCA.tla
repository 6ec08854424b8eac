----------------------------- MODULE CaptureCA -----------------------------
(***************************************************************************)
(* The persistent certificate authority of the dependency proxy:           *)
(* LoadOrCreateCA, writeNewFile and loadCA of                              *)
(* src/internal/dependencycapture/ca.go, run by several run commands of    *)
(* one user that share the directory.  Writing, syncing and closing a file *)
(* may fail, and a command may crash between any two steps; what it wrote  *)
(* stays then (a crash of the machine is not modelled).                    *)
(***************************************************************************)
EXTENDS Naturals

CONSTANTS
    Procs,      \* run commands of the user
    MaxStarts   \* bound: starts of all commands together

ASSUME CaptureCAAssumption == MaxStarts \in Nat

Files == {"crt", "key"}

\* A pair is numbered by the start that generated it.
NoFile == 0          \* the file does not exist
Partial == MaxStarts + 1   \* it exists, but is not written completely

VARIABLES
    file,      \* content of ca.crt and ca.key: the number of the pair
    pc,        \* where each command is
    pair,      \* number of the pair it has generated
    read,      \* certificate it has read, while it loads the pair
    used,      \* history: the pairs that commands have loaded
    starts,    \* starts so far
    raced      \* history: two commands were in LoadOrCreateCA at once

vars == <<file, pc, pair, read, used, starts, raced>>

Init ==
    /\ file = [f \in Files |-> NoFile]
    /\ pc = [p \in Procs |-> "off"]
    /\ pair = [p \in Procs |-> 0]
    /\ read = [p \in Procs |-> NoFile]
    /\ used = {}
    /\ starts = 0
    /\ raced = FALSE

Goto(p, to) == pc' = [pc EXCEPT ![p] = to]

\* A run command of the user calls LoadOrCreateCA.
Start(p) ==
    /\ pc[p] = "off"
    /\ starts < MaxStarts
    /\ starts' = starts + 1
    /\ Goto(p, "load")
    /\ pair' = [pair EXCEPT ![p] = starts + 1]
    /\ raced' = (raced \/ \E q \in Procs : pc[q] \notin {"off", "loaded"})
    /\ UNCHANGED <<file, read, used>>

\* loadCA is called twice: first, and again after the files were written.
KeyOf == [load |-> "loadKey", reload |-> "reloadKey"]
Missing == [load |-> "statCrt", reload |-> "off"]

\* loadCA reads ca.crt.  Only the first call goes on when it is missing.
ReadCrt(p, call) ==
    /\ pc[p] = call
    /\ read' = [read EXCEPT ![p] = file["crt"]]
    /\ Goto(p, IF file["crt"] = NoFile THEN Missing[call] ELSE KeyOf[call])
    /\ UNCHANGED <<file, pair, used, starts, raced>>

Complete(content) == content \notin {NoFile, Partial}

Mut_Matches(crt, key) == Complete(crt) /\ Complete(key)

\* loadCA accepts a readable certificate and the private key that belongs to it.
Matches(crt, key) == Complete(crt) /\ Complete(key) /\ crt = key

\* loadCA reads ca.key: the pair is loaded, the key is missing, or an error.
ReadKey(p, call) ==
    /\ pc[p] = KeyOf[call]
    /\ LET key == file["key"]
       IN  \/ /\ Matches(read[p], key)
              /\ Goto(p, "loaded")
              /\ used' = used \cup {read[p]}
           \/ /\ ~Matches(read[p], key)
              /\ Goto(p, IF key = NoFile THEN Missing[call] ELSE "off")
              /\ UNCHANGED used
    /\ UNCHANGED <<file, pair, read, starts, raced>>

Mut_Check(p) ==
    /\ pc[p] = "statCrt"
    /\ Goto(p, "generate")
    /\ UNCHANGED <<file, pair, read, used, starts, raced>>

\* A file that is missing alone is an error, not a reason to write a new pair.
Check(p) ==
    /\ \/ pc[p] = "statCrt" /\ Goto(p, IF file["crt"] = NoFile THEN "statKey" ELSE "off")
       \/ pc[p] = "statKey" /\ Goto(p, IF file["key"] = NoFile THEN "generate" ELSE "off")
    /\ UNCHANGED <<file, pair, read, used, starts, raced>>

\* generateCA takes its time; other commands may pass the same checks.
Generate(p) ==
    /\ pc[p] = "generate"
    /\ Goto(p, "openKey")
    /\ UNCHANGED <<file, pair, read, used, starts, raced>>

\* The states in which writeNewFile creates, writes and syncs each file.
Opening == [crt |-> "openCrt", key |-> "openKey"]
Writing == [crt |-> "writeCrt", key |-> "writeKey"]
Syncing == [crt |-> "syncCrt", key |-> "syncKey"]
After == [crt |-> "reload", key |-> "openCrt"]

\* writeNewFile creates a file only if it does not exist; a file that another
\* command has created is left alone.
Open(p, f) ==
    /\ pc[p] = Opening[f]
    /\ IF file[f] = NoFile
       THEN /\ file' = [file EXCEPT ![f] = Partial]
            /\ pc' = [pc EXCEPT ![p] = Writing[f]]
       ELSE /\ pc' = [pc EXCEPT ![p] = After[f]]
            /\ UNCHANGED file
    /\ UNCHANGED <<pair, read, used, starts, raced>>

\* The content is complete; every command can read it from now on.
Write(p, f) ==
    /\ pc[p] = Writing[f]
    /\ file' = [file EXCEPT ![f] = pair[p]]
    /\ pc' = [pc EXCEPT ![p] = Syncing[f]]
    /\ UNCHANGED <<pair, read, used, starts, raced>>

\* Sync and Close succeed.
Sync(p, f) ==
    /\ pc[p] = Syncing[f]
    /\ pc' = [pc EXCEPT ![p] = After[f]]
    /\ UNCHANGED <<file, pair, read, used, starts, raced>>

\* Write, Sync or Close fails: the file is removed, also when its content was
\* complete and others may have read it, and the command ends.
WriteFails(p, f) ==
    /\ pc[p] \in {Writing[f], Syncing[f]}
    /\ file' = [file EXCEPT ![f] = NoFile]
    /\ pc' = [pc EXCEPT ![p] = "off"]
    /\ UNCHANGED <<pair, read, used, starts, raced>>

\* The command ends or crashes; a crash leaves its file behind, half written,
\* or complete but not synced.
Stop(p) ==
    /\ pc[p] # "off"
    /\ pc' = [pc EXCEPT ![p] = "off"]
    /\ UNCHANGED <<file, pair, read, used, starts, raced>>

Next ==
    \E p \in Procs :
        \/ Start(p)
        \/ \E call \in {"load", "reload"} : ReadCrt(p, call) \/ ReadKey(p, call)
        \/ Check(p)
        \/ Generate(p)
        \/ \E f \in Files : Open(p, f) \/ Write(p, f) \/ Sync(p, f) \/ WriteFails(p, f)
        \/ Stop(p)

Spec == Init /\ [][Next]_vars

----------------------------------------------------------------------------
(* Properties.                                                             *)

\* Type invariant of the CA directory and its users.
TypeOK ==
    /\ file \in [Files -> 0..Partial]
    /\ pc \in [Procs -> {"off", "load", "loadKey", "statCrt", "statKey", "generate",
                        "openKey", "writeKey", "syncKey", "openCrt", "writeCrt", "syncCrt",
                        "reload", "reloadKey", "loaded"}]
    /\ pair \in [Procs -> 0..MaxStarts]
    /\ read \in [Procs -> 0..Partial]
    /\ used \in SUBSET (1..MaxStarts)
    /\ starts \in 0..MaxStarts
    /\ raced \in BOOLEAN

BothComplete == \A f \in Files : Complete(file[f])

\* All commands that ever serve HTTPS from this directory serve the authority
\* of one pair, the one whose key is on disk: what the user has trusted once
\* works for all of them, whatever LoadOrCreateCA of another command does in
\* between, fails to write or leaves behind.  The certificate need not be on
\* disk any more: one whose Sync or Close failed is removed although another
\* command may have loaded it; but no command loads another one after that.
AllUseTheSameCA == \A n \in used : file["key"] = n

\* Commands that run LoadOrCreateCA one after the other never leave a
\* certificate and a key that do not belong together, whatever fails and
\* wherever they crash.
MismatchNeedsRace == BothComplete /\ file["crt"] # file["key"] => raced

\* "The CA persists under the OS user configuration directory so it need not
\* be trusted again for every session." (docs/v6-dependency-capture.md): two
\* complete files are an authority the next session can load.
PersistedCAIsUsable == BothComplete => Matches(file["crt"], file["key"])
=============================================================================
