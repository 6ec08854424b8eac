-------------------------- MODULE CaptureCAProofs --------------------------
(***************************************************************************)
(* Proofs about CaptureCA, for any set of run commands and any number of   *)
(* starts: all commands ever load the authority of one pair, whatever      *)
(* fails, and a certificate and a key that do not belong together need two *)
(* overlapping commands.                                                   *)
(***************************************************************************)
EXTENDS CaptureCA, TLAPS

----------------------------------------------------------------------------
(* The inductive invariant.                                                *)

\* The commands that are inside LoadOrCreateCA.
Busy(p) == pc[p] \notin {"off", "loaded"}

\* A file that is being written is incomplete, one that is being synced holds
\* the pair of the one command that has created it.
OneWriter ==
    \A p \in Procs :
        /\ pc[p] = "writeCrt" => file["crt"] = Partial
        /\ pc[p] = "writeKey" => file["key"] = Partial
        /\ pc[p] = "syncCrt" => file["crt"] = pair[p]
        /\ pc[p] = "syncKey" => file["key"] = pair[p]
        /\ \A q \in Procs :
               \/ pc[p] \in {"writeCrt", "syncCrt"} /\ pc[q] \in {"writeCrt", "syncCrt"}
               \/ pc[p] \in {"writeKey", "syncKey"} /\ pc[q] \in {"writeKey", "syncKey"}
               => p = q

\* Every start generates a pair of its own, and only what was generated is
\* found in files, read or loaded.
OwnPairs ==
    /\ \A p \in Procs : pair[p] <= starts /\ (pc[p] # "off" => pair[p] # 0)
    /\ \A p, q \in Procs : pair[p] = pair[q] /\ pair[p] # 0 => p = q
    /\ \A f \in Files : file[f] <= starts \/ file[f] = Partial
    /\ \A p \in Procs : read[p] <= starts \/ read[p] = Partial
    /\ \A n \in used : n <= starts

\* Until a command has written its key, or left that of another in place ...
BeforeCrt == {"load", "loadKey", "statCrt", "statKey", "generate", "openKey", "writeKey",
              "syncKey"}

\* ... nobody has seen the certificate of its pair.
KeyFirst ==
    \A p \in Procs : pc[p] \in BeforeCrt =>
        /\ file["crt"] # pair[p]
        /\ \A q \in Procs : read[q] # pair[p]
        /\ pair[p] \notin used

\* Without a race one command at a time is inside LoadOrCreateCA ...
OneBusy == ~raced => \A p, q \in Procs : Busy(p) /\ Busy(q) => p = q

\* ... and it finds the files as its own steps have left them.
OwnFiles ==
    ~raced =>
        \A p \in Procs :
            /\ pc[p] \in {"statKey", "generate", "openKey", "writeKey", "syncKey", "openCrt"}
                   => file["crt"] = NoFile
            /\ pc[p] \in {"generate", "openKey"} => file["key"] = NoFile
            /\ pc[p] \in {"openCrt", "writeCrt", "syncCrt"} => file["key"] = pair[p]

IInv ==
    /\ TypeOK
    /\ OneWriter
    /\ OwnPairs
    /\ KeyFirst
    /\ AllUseTheSameCA
    /\ OneBusy
    /\ OwnFiles
    /\ MismatchNeedsRace

----------------------------------------------------------------------------
(* Facts about the tables and the contents of files.                       *)

\* The tables of program points at their arguments.
LEMMA Tables ==
    /\ KeyOf["load"] = "loadKey" /\ KeyOf["reload"] = "reloadKey"
    /\ Missing["load"] = "statCrt" /\ Missing["reload"] = "off"
    /\ Opening["crt"] = "openCrt" /\ Opening["key"] = "openKey"
    /\ Writing["crt"] = "writeCrt" /\ Writing["key"] = "writeKey"
    /\ Syncing["crt"] = "syncCrt" /\ Syncing["key"] = "syncKey"
    /\ After["crt"] = "reload" /\ After["key"] = "openCrt"
BY DEF KeyOf, Missing, Opening, Writing, Syncing, After

\* Missing, incomplete and complete files are different things.
LEMMA Contents ==
    /\ NoFile = 0 /\ Partial \in Nat /\ Partial > MaxStarts /\ NoFile # Partial
    /\ \A n \in 1..MaxStarts : Complete(n)
BY CaptureCAAssumption DEF NoFile, Partial, Complete

\* The program points at which a step of a command matters to OneWriter.
Holding == {"writeCrt", "writeKey", "syncCrt", "syncKey"}

\* A step of one command that leaves the files alone and holds no new one
\* keeps the writers apart.
LEMMA FilesUntouched ==
    ASSUME IInv, NEW p \in Procs, NEW to, to \notin Holding,
           pc' = [pc EXCEPT ![p] = to], UNCHANGED file,
           \A q \in Procs \ {p} : pair'[q] = pair[q]
    PROVE  OneWriter'
<1>1. \A q \in Procs : pc'[q] \in Holding => pc[q] = pc'[q] /\ q # p
  BY DEF IInv, TypeOK
<1> QED
  BY <1>1 DEF IInv, OneWriter, Holding

\* A step that leaves the files and the pairs alone and neither reads nor
\* loads keeps what is known of the pairs.
LEMMA NothingShown ==
    ASSUME IInv, NEW p \in Procs, NEW to, pc[p] # "off",
           pc' = [pc EXCEPT ![p] = to], to \in BeforeCrt => pc[p] \in BeforeCrt,
           UNCHANGED <<file, pair, read, used, starts>>
    PROVE  OwnPairs' /\ KeyFirst' /\ AllUseTheSameCA'
<1>1. \A q \in Procs : pc'[q] \in BeforeCrt => pc[q] \in BeforeCrt
  BY DEF IInv, TypeOK
<1>2. \A q \in Procs : pc'[q] # "off" => pc[q] # "off"
  BY DEF IInv, TypeOK
<1> QED
  BY <1>1, <1>2 DEF IInv, OwnPairs, KeyFirst, AllUseTheSameCA

\* A busy command that goes on, or stops, stays alone if it was.
LEMMA StaysBusy ==
    ASSUME IInv, NEW p \in Procs, NEW to, Busy(p), pc' = [pc EXCEPT ![p] = to], UNCHANGED raced
    PROVE  OneBusy'
<1>1. \A q \in Procs : Busy(q)' => Busy(q)
  BY DEF IInv, TypeOK, Busy
<1> QED
  BY <1>1 DEF IInv, OneBusy

----------------------------------------------------------------------------
(* The invariant is inductive.                                             *)

\* The initial states satisfy the inductive invariant.
LEMMA InitIInv == Init => IInv
<1> SUFFICES ASSUME Init PROVE IInv
  OBVIOUS
<1>1. TypeOK
  <2>1. 0 \in 0..MaxStarts /\ NoFile \in 0..Partial
    BY CaptureCAAssumption DEF NoFile, Partial
  <2> QED
    BY <2>1 DEF Init, TypeOK
<1>2. OneWriter /\ AllUseTheSameCA /\ KeyFirst
  BY DEF Init, OneWriter, AllUseTheSameCA, KeyFirst, BeforeCrt
<1>3. OwnPairs
  BY DEF Init, OwnPairs, NoFile
<1>4. OneBusy /\ OwnFiles
  BY DEF Init, OneBusy, OwnFiles, Busy
<1>5. MismatchNeedsRace
  BY DEF Init, MismatchNeedsRace, BothComplete, Complete, Files
<1> QED
  BY <1>1, <1>2, <1>3, <1>4, <1>5 DEF IInv

\* A new start generates a pair that nobody knows.
LEMMA StartIInv == ASSUME IInv, NEW p \in Procs, Start(p) PROVE IInv'
<1> USE Contents, CaptureCAAssumption
<1>1. /\ pc[p] = "off" /\ pc' = [pc EXCEPT ![p] = "load"]
      /\ pair' = [pair EXCEPT ![p] = starts + 1] /\ starts' = starts + 1
      /\ starts \in Nat /\ starts < MaxStarts
      /\ UNCHANGED <<file, read, used>>
      /\ raced' = (raced \/ \E q \in Procs : pc[q] \notin {"off", "loaded"})
  BY DEF Start, Goto, IInv, TypeOK
<1>2. TypeOK'
  <2>1. starts + 1 \in 0..MaxStarts
    BY <1>1
  <2>2. raced' \in BOOLEAN
    BY <1>1
  <2> QED
    BY <1>1, <2>1, <2>2, ZenonT(30) DEF IInv, TypeOK
<1>3. OneWriter'
  BY <1>1, FilesUntouched DEF Holding, IInv, TypeOK
<1>4. OwnPairs'
  BY <1>1 DEF IInv, TypeOK, OwnPairs
<1>5. KeyFirst'
  <2>1. /\ \A q \in Procs \ {p} : pc'[q] = pc[q] /\ pair'[q] = pair[q]
        /\ pair'[p] = starts + 1
    BY <1>1 DEF IInv, TypeOK
  <2>2. /\ file["crt"] # starts + 1
        /\ \A q \in Procs : read[q] # starts + 1
        /\ starts + 1 \notin used
    BY <1>1 DEF IInv, TypeOK, OwnPairs, Files
  <2> QED
    BY <1>1, <2>1, <2>2 DEF IInv, KeyFirst
<1>6. AllUseTheSameCA'
  BY <1>1 DEF IInv, AllUseTheSameCA
<1>7. OneBusy'
  BY <1>1 DEF IInv, TypeOK, OneBusy, Busy
<1>8. OwnFiles' /\ MismatchNeedsRace'
  BY <1>1 DEF IInv, TypeOK, OwnFiles, MismatchNeedsRace, BothComplete
<1> QED
  BY <1>2, <1>3, <1>4, <1>5, <1>6, <1>7, <1>8 DEF IInv

\* What is read of the certificate is on disk, so it is not of a pair whose
\* key is still to come.
LEMMA ReadCrtIInv ==
    ASSUME IInv, NEW p \in Procs, NEW call \in {"load", "reload"}, ReadCrt(p, call)
    PROVE  IInv'
<1> USE Contents, CaptureCAAssumption
<1>1. PICK to \in {"statCrt", "off", "loadKey", "reloadKey"} :
          /\ pc' = [pc EXCEPT ![p] = to]
          /\ to \in {"statCrt", "loadKey"} => pc[p] = "load"
  BY Tables DEF ReadCrt, Goto
<1>2. /\ read' = [read EXCEPT ![p] = file["crt"]]
      /\ UNCHANGED <<file, pair, used, starts, raced>>
      /\ Busy(p) /\ pc[p] # "off"
  BY DEF ReadCrt, Busy
<1>3. TypeOK'
  BY <1>1, <1>2 DEF IInv, TypeOK, Files
<1>4. OneWriter'
  BY <1>1, <1>2, FilesUntouched DEF Holding
<1>5. OwnPairs'
  <2>1. \A q \in Procs : pc'[q] # "off" => pc[q] # "off"
    BY <1>1, <1>2 DEF IInv, TypeOK
  <2>2. \A q \in Procs : read'[q] <= starts \/ read'[q] = Partial
    BY <1>2 DEF IInv, TypeOK, OwnPairs, Files
  <2> QED
    BY <1>2, <2>1, <2>2 DEF IInv, OwnPairs
<1>6. KeyFirst'
  <2>1. \A q \in Procs : pc'[q] \in BeforeCrt => pc[q] \in BeforeCrt
    BY <1>1 DEF IInv, TypeOK, BeforeCrt
  <2>2. \A q \in Procs : read'[q] \in {read[q], file["crt"]}
    BY <1>2 DEF IInv, TypeOK
  <2> QED
    BY <1>2, <2>1, <2>2 DEF IInv, KeyFirst
<1>7. AllUseTheSameCA'
  BY <1>2 DEF IInv, AllUseTheSameCA
<1>8. OneBusy'
  BY <1>1, <1>2, StaysBusy
<1>9. OwnFiles' /\ MismatchNeedsRace'
  BY <1>1, <1>2 DEF IInv, TypeOK, OwnFiles, MismatchNeedsRace, BothComplete
<1> QED
  BY <1>3, <1>4, <1>5, <1>6, <1>7, <1>8, <1>9 DEF IInv

\* What is loaded has its key on disk.
LEMMA ReadKeyIInv ==
    ASSUME IInv, NEW p \in Procs, NEW call \in {"load", "reload"}, ReadKey(p, call)
    PROVE  IInv'
<1> USE Contents, CaptureCAAssumption
<1>1. PICK to \in {"statCrt", "off", "loaded"} :
          /\ pc' = [pc EXCEPT ![p] = to]
          /\ to = "statCrt" => pc[p] = "loadKey"
          /\ to = "loaded" => Matches(read[p], file["key"]) /\ used' = used \cup {read[p]}
          /\ to # "loaded" => UNCHANGED used
  BY Tables DEF ReadKey, Goto
<1>2. /\ UNCHANGED <<file, pair, read, starts, raced>>
      /\ Busy(p) /\ pc[p] \in {"loadKey", "reloadKey"}
  BY Tables DEF ReadKey, Busy
<1>3. to = "loaded" => read[p] \in 1..MaxStarts /\ read[p] = file["key"] /\ read[p] <= starts
  BY <1>1 DEF IInv, TypeOK, OwnPairs, Matches, Complete, NoFile, Partial
<1>4. TypeOK'
  BY <1>1, <1>2, <1>3 DEF IInv, TypeOK
<1>5. OneWriter'
  BY <1>1, <1>2, FilesUntouched DEF Holding
<1>6. OwnPairs'
  <2>1. \A q \in Procs : pc'[q] # "off" => pc[q] # "off"
    BY <1>1, <1>2 DEF IInv, TypeOK
  <2>2. \A n \in used' : n <= starts
    BY <1>1, <1>3 DEF IInv, OwnPairs
  <2> QED
    BY <1>2, <2>1, <2>2 DEF IInv, OwnPairs
<1>7. KeyFirst'
  <2>1. \A q \in Procs : pc'[q] \in BeforeCrt => pc[q] \in BeforeCrt
    BY <1>1 DEF IInv, TypeOK, BeforeCrt
  <2>2. \A n \in used' : n \in used \/ n = read[p]
    BY <1>1
  <2> QED
    BY <1>2, <2>1, <2>2 DEF IInv, KeyFirst
<1>8. AllUseTheSameCA'
  BY <1>1, <1>2, <1>3 DEF IInv, AllUseTheSameCA
<1>9. OneBusy'
  BY <1>1, <1>2, StaysBusy
<1>10. OwnFiles' /\ MismatchNeedsRace'
  BY <1>1, <1>2 DEF IInv, TypeOK, OwnFiles, MismatchNeedsRace, BothComplete
<1> QED
  BY <1>4, <1>5, <1>6, <1>7, <1>8, <1>9, <1>10 DEF IInv

\* The checks and the generation leave everything but the command alone.
LEMMA CheckIInv == ASSUME IInv, NEW p \in Procs, Check(p) \/ Generate(p) PROVE IInv'
<1> USE Contents, CaptureCAAssumption
<1>1. PICK to \in {"statKey", "generate", "openKey", "off"} :
          /\ pc' = [pc EXCEPT ![p] = to]
          /\ to = "statKey" => file["crt"] = NoFile
          /\ to = "generate" => pc[p] = "statKey" /\ file["key"] = NoFile
          /\ to = "openKey" => pc[p] = "generate"
  BY DEF Check, Generate, Goto
<1>2. /\ Busy(p) /\ pc[p] \in {"statCrt", "statKey", "generate"}
      /\ UNCHANGED <<file, pair, read, used, starts, raced>>
  BY DEF Check, Generate, Busy
<1>3. TypeOK'
  BY <1>1, <1>2 DEF IInv, TypeOK
<1>4. OneWriter'
  BY <1>1, <1>2, FilesUntouched DEF Holding
<1>5. OwnPairs' /\ KeyFirst' /\ AllUseTheSameCA'
  BY <1>1, <1>2, NothingShown DEF BeforeCrt
<1>6. OneBusy'
  BY <1>1, <1>2, StaysBusy
<1>7. OwnFiles' /\ MismatchNeedsRace'
  BY <1>1, <1>2 DEF IInv, TypeOK, OwnFiles, MismatchNeedsRace, BothComplete
<1> QED
  BY <1>3, <1>4, <1>5, <1>6, <1>7 DEF IInv

\* A file is only created where there is none.
LEMMA OpenIInv == ASSUME IInv, NEW p \in Procs, NEW f \in Files, Open(p, f) PROVE IInv'
<1> USE Contents, CaptureCAAssumption
<1>0. f \in {"crt", "key"} /\ pc[p] = Opening[f] /\ Busy(p) /\ pc[p] # "off"
      /\ UNCHANGED <<pair, read, used, starts, raced>>
  BY Tables DEF Open, Files, Busy
<1>1. CASE file[f] = NoFile
  <2>1. /\ pc' = [pc EXCEPT ![p] = Writing[f]]
        /\ file' = [file EXCEPT ![f] = Partial]
    BY <1>1 DEF Open
  <2>2. TypeOK'
    BY <1>0, <2>1, Tables DEF IInv, TypeOK, Files
  <2>3. \A q \in Procs : pc[q] \notin {Writing[f], Syncing[f]}
    <3>1. \A q \in Procs : pc[q] # "off" => pair[q] # NoFile
      BY DEF IInv, OwnPairs
    <3> QED
      BY <1>0, <1>1, <3>1, Tables DEF IInv, OneWriter
  <2>4. OneWriter'
    BY <1>0, <2>1, <2>3, Tables DEF IInv, TypeOK, OneWriter, Files
  <2>5. OwnPairs'
    BY <1>0, <2>1, Tables DEF IInv, TypeOK, OwnPairs, Files
  <2>6. KeyFirst'
    <3>1. \A q \in Procs : pc'[q] \in BeforeCrt => pc[q] \in BeforeCrt
      BY <1>0, <2>1, Tables DEF IInv, TypeOK, BeforeCrt
    <3>2. \A q \in Procs : pair[q] # Partial
      BY DEF IInv, TypeOK
    <3> QED
      BY <1>0, <2>1, <3>1, <3>2 DEF IInv, TypeOK, KeyFirst, Files
  <2>7. AllUseTheSameCA'
    BY <1>0, <1>1, <2>1 DEF IInv, TypeOK, AllUseTheSameCA, Files
  <2>8. OneBusy'
    BY <1>0, <2>1, StaysBusy
  <2>9. OwnFiles'
    BY <1>0, <2>1, Tables DEF IInv, TypeOK, OwnFiles, OneBusy, Busy, Files
  <2>10. MismatchNeedsRace'
    BY <1>0, <2>1 DEF IInv, TypeOK, MismatchNeedsRace, BothComplete, Complete, Files
  <2> QED
    BY <2>2, <2>4, <2>5, <2>6, <2>7, <2>8, <2>9, <2>10 DEF IInv
<1>2. CASE file[f] # NoFile
  <2>1. pc' = [pc EXCEPT ![p] = After[f]] /\ UNCHANGED file
    BY <1>2 DEF Open
  <2>2. TypeOK'
    BY <1>0, <2>1, Tables DEF IInv, TypeOK
  <2>3. OneWriter'
    BY <1>0, <2>1, Tables, FilesUntouched DEF Holding
  <2>4. OwnPairs' /\ KeyFirst' /\ AllUseTheSameCA'
    BY <1>0, <2>1, Tables, NothingShown DEF BeforeCrt
  <2>5. OneBusy'
    BY <1>0, <2>1, StaysBusy
  <2>6. raced \/ After[f] = "reload"
    BY <1>0, <1>2, Tables DEF IInv, OwnFiles
  <2>7. OwnFiles' /\ MismatchNeedsRace'
    BY <1>0, <2>1, <2>6, Tables DEF IInv, TypeOK, OwnFiles, MismatchNeedsRace, BothComplete
  <2> QED
    BY <2>2, <2>3, <2>4, <2>5, <2>7 DEF IInv
<1> QED
  BY <1>1, <1>2

\* The key is complete before the certificate of its pair can be seen.
LEMMA WriteIInv == ASSUME IInv, NEW p \in Procs, NEW f \in Files, Write(p, f) PROVE IInv'
<1> USE Contents, CaptureCAAssumption
<1>1. /\ pc[p] = Writing[f] /\ pc' = [pc EXCEPT ![p] = Syncing[f]]
      /\ file' = [file EXCEPT ![f] = pair[p]]
      /\ UNCHANGED <<pair, read, used, starts, raced>>
      /\ f \in {"crt", "key"} /\ Busy(p) /\ pc[p] # "off"
  BY Tables DEF Write, Files, Busy
<1>2. file[f] = Partial
  BY <1>1, Tables DEF IInv, OneWriter
<1>3. TypeOK'
  BY <1>1, Tables DEF IInv, TypeOK, Partial, Files
<1>4. OneWriter'
  BY <1>1, Tables DEF IInv, TypeOK, OneWriter, Files
<1>5. OwnPairs'
  BY <1>1, Tables DEF IInv, TypeOK, OwnPairs, Files
<1>6. KeyFirst'
  <2>1. \A q \in Procs : pc'[q] \in BeforeCrt => pc[q] \in BeforeCrt
    BY <1>1, Tables DEF IInv, TypeOK, BeforeCrt
  <2>2. \A q \in Procs : pc'[q] \in BeforeCrt => file'["crt"] # pair[q]
    <3>1. CASE f = "key"
      BY <1>1, <2>1, <3>1 DEF IInv, TypeOK, KeyFirst
    <3>2. CASE f = "crt"
      <4>1. file'["crt"] = pair[p] /\ pc'[p] = "syncCrt" /\ pair[p] # 0
        BY <1>1, <3>2, Tables DEF IInv, TypeOK, OwnPairs
      <4> QED
        BY <4>1 DEF IInv, OwnPairs, BeforeCrt
    <3> QED
      BY <1>1, <3>1, <3>2
  <2> QED
    BY <1>1, <2>1, <2>2 DEF IInv, KeyFirst
<1>7. AllUseTheSameCA'
  BY <1>1, <1>2 DEF IInv, TypeOK, AllUseTheSameCA, Files
<1>8. OneBusy'
  BY <1>1, StaysBusy
<1>9. OwnFiles'
  BY <1>1, Tables DEF IInv, TypeOK, OwnFiles, OneBusy, Busy, Files
<1>10. ~raced => IF f = "crt" THEN file["key"] = pair[p] ELSE file["crt"] = NoFile
  BY <1>1, Tables DEF IInv, OwnFiles
<1>11. MismatchNeedsRace'
  BY <1>1, <1>10 DEF IInv, TypeOK, MismatchNeedsRace, BothComplete, Complete, Files
<1> QED
  BY <1>3, <1>4, <1>5, <1>6, <1>7, <1>8, <1>9, <1>11 DEF IInv

\* A file that is written stays.
LEMMA SyncIInv == ASSUME IInv, NEW p \in Procs, NEW f \in Files, Sync(p, f) PROVE IInv'
<1> USE Contents, CaptureCAAssumption
<1>1. /\ pc[p] = Syncing[f] /\ pc' = [pc EXCEPT ![p] = After[f]]
      /\ UNCHANGED <<file, pair, read, used, starts, raced>>
      /\ f \in {"crt", "key"} /\ Busy(p) /\ pc[p] # "off"
  BY Tables DEF Sync, Files, Busy
<1>2. TypeOK'
  BY <1>1, Tables DEF IInv, TypeOK
<1>3. OneWriter'
  BY <1>1, Tables, FilesUntouched DEF Holding
<1>4. OwnPairs' /\ KeyFirst' /\ AllUseTheSameCA'
  BY <1>1, Tables, NothingShown DEF BeforeCrt
<1>5. OneBusy'
  BY <1>1, StaysBusy
<1>6. OwnFiles' /\ MismatchNeedsRace'
  BY <1>1, Tables DEF IInv, TypeOK, OneWriter, OwnFiles, MismatchNeedsRace, BothComplete
<1> QED
  BY <1>2, <1>3, <1>4, <1>5, <1>6 DEF IInv

\* Only a key whose certificate nobody has seen is removed again.
LEMMA WriteFailsIInv ==
    ASSUME IInv, NEW p \in Procs, NEW f \in Files, WriteFails(p, f) PROVE IInv'
<1> USE Contents, CaptureCAAssumption
<1>1. /\ pc[p] \in {Writing[f], Syncing[f]} /\ pc' = [pc EXCEPT ![p] = "off"]
      /\ file' = [file EXCEPT ![f] = NoFile]
      /\ UNCHANGED <<pair, read, used, starts, raced>>
      /\ f \in {"crt", "key"} /\ Busy(p) /\ pc[p] # "off"
  BY Tables DEF WriteFails, Files, Busy
<1>2. TypeOK'
  BY <1>1 DEF IInv, TypeOK, Files
<1>3. OneWriter'
  BY <1>1, Tables DEF IInv, TypeOK, OneWriter, Files
<1>4. OwnPairs'
  BY <1>1 DEF IInv, TypeOK, OwnPairs, Files
<1>5. KeyFirst'
  <2>1. \A q \in Procs : pc'[q] \in BeforeCrt => pc[q] \in BeforeCrt /\ pair[q] # 0
    BY <1>1 DEF IInv, TypeOK, OwnPairs, BeforeCrt
  <2>2. file'["crt"] \in {file["crt"], 0}
    BY <1>1 DEF IInv, TypeOK, Files
  <2> QED
    BY <1>1, <2>1, <2>2 DEF IInv, KeyFirst
<1>6. AllUseTheSameCA'
  <2>1. f = "key" => file["key"] \notin used
    <3>1. f = "key" => file["key"] \in {Partial, pair[p]} /\ pair[p] \notin used
      BY <1>1, Tables DEF IInv, OneWriter, KeyFirst, BeforeCrt
    <3>2. Partial \notin used
      BY DEF IInv, TypeOK
    <3> QED
      BY <3>1, <3>2
  <2> QED
    BY <1>1, <2>1 DEF IInv, TypeOK, AllUseTheSameCA, Files
<1>7. OneBusy'
  BY <1>1, StaysBusy
<1>8. OwnFiles'
  BY <1>1, Tables DEF IInv, TypeOK, OwnFiles, OneBusy, Busy, Files
<1>9. MismatchNeedsRace'
  BY <1>1 DEF IInv, TypeOK, MismatchNeedsRace, BothComplete, Complete, Files
<1> QED
  BY <1>2, <1>3, <1>4, <1>5, <1>6, <1>7, <1>8, <1>9 DEF IInv

\* A command that ends leaves the files as they are.
LEMMA StopIInv == ASSUME IInv, NEW p \in Procs, Stop(p) PROVE IInv'
<1>1. /\ pc[p] # "off" /\ pc' = [pc EXCEPT ![p] = "off"]
      /\ UNCHANGED <<file, pair, read, used, starts, raced>>
  BY DEF Stop
<1>2. TypeOK'
  BY <1>1 DEF IInv, TypeOK
<1>3. OneWriter'
  BY <1>1, FilesUntouched DEF Holding
<1>4. OwnPairs' /\ KeyFirst' /\ AllUseTheSameCA'
  BY <1>1, NothingShown DEF BeforeCrt
<1>5. OneBusy'
  BY <1>1 DEF IInv, TypeOK, OneBusy, Busy
<1>6. OwnFiles' /\ MismatchNeedsRace'
  BY <1>1 DEF IInv, TypeOK, OwnFiles, MismatchNeedsRace, BothComplete
<1> QED
  BY <1>2, <1>3, <1>4, <1>5, <1>6 DEF IInv

\* Every step preserves the invariant.
LEMMA NextIInv == IInv /\ [Next]_vars => IInv'
<1> SUFFICES ASSUME IInv, [Next]_vars PROVE IInv'
  OBVIOUS
<1>1. CASE UNCHANGED vars
  BY <1>1 DEF vars, IInv, TypeOK, OneWriter, OwnPairs, KeyFirst, AllUseTheSameCA, OneBusy, Busy,
     OwnFiles, MismatchNeedsRace, BothComplete
<1> QED
  BY <1>1, StartIInv, ReadCrtIInv, ReadKeyIInv, CheckIInv, OpenIInv, WriteIInv, SyncIInv,
     WriteFailsIInv, StopIInv, Zenon DEF Next

\* The inductive invariant holds for any set of commands.
THEOREM CAInvariant == Spec => []IInv
<1> QED
  BY InitIInv, NextIInv, PTL DEF Spec

\* Whatever other commands do meanwhile, wherever they crash and whichever of
\* their files they remove again, all commands ever load the same authority.
THEOREM CAAllUseTheSame == Spec => []AllUseTheSameCA
<1>1. IInv => AllUseTheSameCA
  BY DEF IInv
<1> QED
  BY <1>1, CAInvariant, PTL

\* A certificate and a key that do not belong together are only left behind
\* by commands that were inside LoadOrCreateCA at the same time.
THEOREM CAMismatchNeedsRace == Spec => []MismatchNeedsRace
<1>1. IInv => MismatchNeedsRace
  BY DEF IInv
<1> QED
  BY <1>1, CAInvariant, PTL
=============================================================================
