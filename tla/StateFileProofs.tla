--------------------------- MODULE StateFileProofs ---------------------------
(***************************************************************************)
(* Proofs about the locked read-modify-write of the state file, for any    *)
(* set of writers, of either kind, inside or outside the sandbox, with any *)
(* number of failing operations and a death at any step.                   *)
(*                                                                         *)
(* What holds between two writers (RestInv) is broken while a writer is at *)
(* work: the file may be torn, or hold an update nobody was told of.       *)
(* HolderInv says, for each step of the lock's holder, what file, temp and *)
(* backup contain, so that RestInv holds again whichever way it lets go.   *)
(***************************************************************************)
EXTENDS StateFile, FiniteSetTheorems, TLAPS

Busy == {"temp", "backup", "replace", "copying", "copied", "undo", "undoing", "clean"}

\* The updates that may be in no file: not begun, or failed with no temp file left behind.
Outside == {w \in Writers : pc[w] = "start" \/ (answer[w] = "failed" /\ ~LeftTemp(w))}

\* Content that could be the state file's between two writers.
Sound(C) ==
    /\ C.has \cap Outside = {}
    /\ ~repaired /\ C # Torn => Told("saved") \subseteq C.has

LockInv ==
    /\ \A w \in Writers : w \in lock <=> pc[w] \in Busy
    /\ \A v, w \in lock : v = w

WriterInv(w) ==
    /\ pc[w] = "start" => w \notin had
    /\ pc[w] = "done" <=> answer[w] # "none"

\* The file has not been touched yet.
Untouched(h) ==
    /\ Sound(file) /\ h \notin file.has /\ (file = Torn => repaired)

\* The backup, if there is one, is what the file was.
BackupInv(h) ==
    /\ h \in copied => /\ Sound(bak[h]) /\ h \notin bak[h].has
                       /\ ~repaired => bak[h].is = "whole"
    /\ h \notin copied => (h \in had => h \in Server)
    /\ h \notin had => Sound(Absent)

\* A copy over the file was cut short.
CutShort(h) == file = Torn /\ h \in Sandboxed /\ tearer = {h}

\* What writer h knows of the files, at each of its steps while it holds the lock.
HolderInv(h) ==
    /\ pc[h] \in {"temp", "backup", "replace"} =>
          /\ Untouched(h)
          /\ h \in had <=> file # Absent
          /\ tmp[h] = Whole(file.has \cup {h})
    /\ pc[h] \in {"temp", "backup"} => h \notin copied
    /\ pc[h] = "replace" => /\ h \in copied => bak[h] = file
                            /\ h \notin copied => (h \in had => h \in Server)
    /\ pc[h] \in {"copying", "copied"} =>
          /\ h \in Sandboxed
          /\ tmp[h].is = "whole" /\ Sound(tmp[h]) /\ h \in tmp[h].has
    /\ pc[h] = "copying" => CutShort(h)
    /\ pc[h] = "copied" => file = tmp[h]
    /\ pc[h] \in {"copying", "undo", "undoing"} => BackupInv(h)
    /\ pc[h] = "undo" => Untouched(h) \/ CutShort(h)
    /\ pc[h] = "undoing" => file = Torn /\ h \in copied /\ tearer = {h}
    /\ pc[h] = "clean" => \/ Untouched(h)
                          \/ CutShort(h) /\ h \notin copied /\ h \in had /\ h \in Server

\* Between two writers.
RestInv == lock = {} => Sound(file) /\ TornHasBackup

FileInv ==
    /\ FileTypeOK
    /\ LockInv
    /\ \A w \in Writers : WriterInv(w) /\ HolderInv(w)
    /\ RestInv

-----------------------------------------------------------------------------
(***************************************************************************)
(* The holder, and steps that leave the verdicts alone.                    *)
(***************************************************************************)

\* A writer at work is the only one: it alone holds the lock.
LEMMA Sole ==
  ASSUME FileInv, NEW w \in Writers, pc[w] \in Busy
  PROVE  /\ lock = {w}
         /\ \A v \in Writers : v # w => pc[v] \notin Busy
  BY DEF FileInv, FileTypeOK, LockInv

\* Whole content, and the fields of each kind of content.
LEMMA Contents ==
  /\ Absent \in Content /\ Torn \in Content
  /\ \A S \in SUBSET Writers : Whole(S) \in Content /\ Whole(S) # Torn /\ Whole(S) # Absent
  /\ \A S : Whole(S).is = "whole" /\ Whole(S).has = S
  /\ Absent.has = {} /\ Torn.has = {} /\ Absent.is = "absent" /\ Torn.is = "torn"
  /\ Absent # Torn
  /\ \A C \in Content : /\ C.has \subseteq Writers
                        /\ C.is = "whole" <=> C # Torn /\ C # Absent
  <1>1. Absent \in Content /\ Torn \in Content
    BY DEF Content
  <1>2. \A S \in SUBSET Writers : Whole(S) \in Content
    BY DEF Content
  <1>3. \A S : Whole(S).is = "whole" /\ Whole(S).has = S
    BY DEF Whole
  <1>4. /\ Absent.has = {} /\ Torn.has = {} /\ Absent.is = "absent" /\ Torn.is = "torn"
    BY DEF Absent, Torn
  <1>5. Absent # Torn /\ \A S : Whole(S) # Torn /\ Whole(S) # Absent
    BY <1>3, <1>4
  <1>6. ASSUME NEW C \in Content
        PROVE  C.has \subseteq Writers /\ (C.is = "whole" <=> C # Torn /\ C # Absent)
    <2>1. CASE C = Absent \/ C = Torn
      BY <2>1, <1>4
    <2>2. CASE \E S \in SUBSET Writers : C = Whole(S)
      <3>1. PICK S \in SUBSET Writers : C = Whole(S)
        BY <2>2
      <3> QED BY <3>1, <1>3, <1>5
    <2> QED BY <2>1, <2>2 DEF Content
  <1> QED BY <1>1, <1>2, <1>3, <1>4, <1>5, <1>6

\* One step of the holder within its critical section: the caller has not been told
\* anything, so what is sound stays sound, and only the holder's own facts are left.
LEMMA GoesOn ==
  ASSUME FileInv, NEW w \in Writers, pc[w] \in Busy, NEW s \in Busy, Goto(w, s),
         UNCHANGED <<lock, had, answer, repaired>>,
         file' \in Content, bak' \in [Writers -> Content], tmp' \in [Writers -> Content],
         copied' \subseteq had, errors' \in 0..MaxErrors, tearer' \subseteq Writers,
         HolderInv(w)'
  PROVE  FileInv'
  <1>1. pc' = [pc EXCEPT ![w] = s] /\ pc \in [Writers -> {"start", "temp", "backup",
          "replace", "copying", "copied", "undo", "undoing", "clean", "done", "dead"}]
    BY DEF Goto, FileInv, FileTypeOK
  <1>2. lock = {w} /\ \A v \in Writers : v # w => pc[v] \notin Busy
    BY Sole
  <1>3. FileTypeOK'
    BY <1>1 DEF FileInv, FileTypeOK, Busy
  <1>4. LockInv'
    BY <1>1 DEF FileInv, LockInv
  <1>5. \A v \in Writers : WriterInv(v)'
    BY <1>1 DEF FileInv, WriterInv, Busy
  <1>6. \A v \in Writers : HolderInv(v)'
    <2>1. SUFFICES ASSUME NEW v \in Writers, v # w PROVE HolderInv(v)'
      OBVIOUS
    <2>2. pc'[v] \notin Busy
      BY <1>1, <1>2, <2>1
    <2> QED BY <2>2 DEF HolderInv, Busy
  <1>7. RestInv'
    BY <1>2 DEF RestInv
  <1> QED BY <1>3, <1>4, <1>5, <1>6, <1>7 DEF FileInv

\* Within a critical section what is sound stays sound.
LEMMA SameVerdicts ==
  ASSUME FileInv, NEW w \in Writers, pc[w] \in Busy, NEW s \in Busy, Goto(w, s),
         UNCHANGED <<answer, repaired, tmp>>
  PROVE  /\ Outside' \subseteq Outside /\ Told("saved")' = Told("saved")
         /\ pc'[w] = s
  <1>1. pc' = [pc EXCEPT ![w] = s] /\ DOMAIN pc = Writers
    BY DEF Goto, FileInv, FileTypeOK
  <1>2. \A v \in Writers : pc'[v] = "start" <=> pc[v] = "start"
    BY <1>1 DEF Busy
  <1> QED BY <1>1, <1>2 DEF Outside, Told, LeftTemp

-----------------------------------------------------------------------------
(***************************************************************************)
(* Each step within the critical section keeps the invariant.              *)
(***************************************************************************)

\* The types a step needs of the old state.
LEMMA Types ==
  ASSUME FileInv
  PROVE  /\ file \in Content /\ bak \in [Writers -> Content] /\ tmp \in [Writers -> Content]
         /\ pc \in [Writers -> {"start", "temp", "backup", "replace", "copying", "copied",
                                "undo", "undoing", "clean", "done", "dead"}]
         /\ had \subseteq Writers /\ copied \subseteq had
         /\ answer \in [Writers -> {"none", "saved", "failed"}]
         /\ errors \in 0..MaxErrors /\ repaired \in BOOLEAN /\ tearer \subseteq Writers
         /\ Error => errors' \in 0..MaxErrors
  BY FileConstants DEF FileInv, FileTypeOK, Error

\* The new content is written to the temporary file.
LEMMA WriteTempKeeps ==
  ASSUME FileInv, NEW w \in Writers, WriteTemp(w)
  PROVE  FileInv'
  <1>1. pc[w] = "temp" /\ pc[w] \in Busy /\ "backup" \in Busy /\ Goto(w, "backup") /\ HolderInv(w)
    BY DEF WriteTemp, At, FileInv, Busy
  <1>2. UNCHANGED <<file, bak, tmp, lock, copied, had, answer, errors, repaired, tearer>>
    BY DEF WriteTemp
  <1>3. Outside' \subseteq Outside /\ Told("saved")' = Told("saved")
        /\ pc'[w] = "backup"
    BY <1>1, <1>2, SameVerdicts
  <1>4. HolderInv(w)'
    BY <1>1, <1>2, <1>3 DEF HolderInv, Untouched, Sound
  <1> QED BY <1>1, <1>2, <1>4, GoesOn, Types

\* The old content is copied to the backup.
LEMMA BackupKeeps ==
  ASSUME FileInv, NEW w \in Writers, Backup(w)
  PROVE  FileInv'
  <1>1. pc[w] = "backup" /\ pc[w] \in Busy /\ "replace" \in Busy /\ Goto(w, "replace") /\ HolderInv(w)
    BY DEF Backup, At, FileInv, Busy
  <1>2. /\ UNCHANGED <<file, tmp, lock, had, answer, errors, repaired, tearer>>
        /\ bak' = [bak EXCEPT ![w] = IF w \in had THEN file ELSE Absent]
        /\ copied' = copied \cup ({w} \cap had)
    BY DEF Backup
  <1>3. Outside' \subseteq Outside /\ Told("saved")' = Told("saved")
        /\ pc'[w] = "replace"
    BY <1>1, <1>2, SameVerdicts
  <1>4. HolderInv(w)'
    BY <1>1, <1>2, <1>3, Types DEF HolderInv, Untouched, Sound
  <1>5. bak' \in [Writers -> Content] /\ copied' \subseteq had
    BY <1>2, Types, Contents
  <1> QED BY <1>1, <1>2, <1>4, <1>5, GoesOn, Types

\* The rename over the state file fails.
LEMMA ReplaceFailsKeeps ==
  ASSUME FileInv, NEW w \in Writers, ReplaceFails(w)
  PROVE  FileInv'
  <1>1. pc[w] = "replace" /\ pc[w] \in Busy /\ "undo" \in Busy /\ Goto(w, "undo") /\ HolderInv(w)
    BY DEF ReplaceFails, At, FileInv, Busy
  <1>2. UNCHANGED <<file, bak, tmp, lock, copied, had, answer, repaired, tearer>> /\ Error
    BY DEF ReplaceFails
  <1>3. Outside' \subseteq Outside /\ Told("saved")' = Told("saved")
        /\ pc'[w] = "undo"
    BY <1>1, <1>2, SameVerdicts
  <1>4. BackupInv(w)'
    BY <1>1, <1>2, <1>3, Types, Contents DEF HolderInv, Untouched, BackupInv, Sound
  <1>5. HolderInv(w)'
    BY <1>1, <1>2, <1>3, <1>4 DEF HolderInv, Untouched, Sound
  <1> QED BY <1>1, <1>2, <1>5, GoesOn, Types

\* The fallback copy begins and tears the state file.
LEMMA CopyBeginsKeeps ==
  ASSUME FileInv, NEW w \in Writers, CopyBegins(w)
  PROVE  FileInv'
  <1>1. pc[w] = "replace" /\ pc[w] \in Busy /\ "copying" \in Busy /\ Goto(w, "copying") /\ HolderInv(w)
    BY DEF CopyBegins, At, FileInv, Busy
  <1>2. UNCHANGED <<bak, tmp, lock, copied, had, answer, errors, repaired>>
        /\ file' = Torn /\ tearer' = {w} /\ w \in Sandboxed
    BY DEF CopyBegins
  <1>3. Outside' \subseteq Outside /\ Told("saved")' = Told("saved")
        /\ pc'[w] = "copying"
    BY <1>1, <1>2, SameVerdicts
  <1>4. BackupInv(w)'
    BY <1>1, <1>2, <1>3, Types, Contents DEF HolderInv, Untouched, BackupInv, Sound
  <1>5. w \notin Outside
    BY <1>1 DEF Outside, Told, FileInv, WriterInv, Busy
  <1>6. tmp[w].is = "whole" /\ Sound(tmp[w]) /\ w \in tmp[w].has
    BY <1>1, <1>5, Contents DEF HolderInv, Untouched, Sound
  <1>7. HolderInv(w)'
    BY <1>1, <1>2, <1>3, <1>4, <1>6 DEF HolderInv, CutShort, Sound
  <1> QED BY <1>1, <1>2, <1>7, GoesOn, Types, Contents

\* The fallback copy completes.
LEMMA CopyEndsKeeps ==
  ASSUME FileInv, NEW w \in Writers, CopyEnds(w)
  PROVE  FileInv'
  <1>1. pc[w] = "copying" /\ pc[w] \in Busy /\ "copied" \in Busy /\ Goto(w, "copied") /\ HolderInv(w)
    BY DEF CopyEnds, At, FileInv, Busy
  <1>2. UNCHANGED <<bak, tmp, lock, copied, had, answer, errors, repaired, tearer>>
        /\ file' = tmp[w]
    BY DEF CopyEnds
  <1>3. Outside' \subseteq Outside /\ Told("saved")' = Told("saved")
        /\ pc'[w] = "copied"
    BY <1>1, <1>2, SameVerdicts
  <1>4. HolderInv(w)'
    BY <1>1, <1>2, <1>3 DEF HolderInv, Sound
  <1> QED BY <1>1, <1>2, <1>4, GoesOn, Types

\* The fallback copy fails half way.
LEMMA CopyFailsKeeps ==
  ASSUME FileInv, NEW w \in Writers, CopyFails(w)
  PROVE  FileInv'
  <1>1. pc[w] = "copying" /\ pc[w] \in Busy /\ "undo" \in Busy /\ Goto(w, "undo") /\ HolderInv(w)
    BY DEF CopyFails, At, FileInv, Busy
  <1>2. UNCHANGED <<file, bak, tmp, lock, copied, had, answer, repaired, tearer>> /\ Error
    BY DEF CopyFails
  <1>3. Outside' \subseteq Outside /\ Told("saved")' = Told("saved")
        /\ pc'[w] = "undo"
    BY <1>1, <1>2, SameVerdicts
  <1>4. BackupInv(w)'
    BY <1>1, <1>2, <1>3 DEF HolderInv, BackupInv, Sound
  <1>5. HolderInv(w)'
    BY <1>1, <1>2, <1>3, <1>4 DEF HolderInv, CutShort
  <1> QED BY <1>1, <1>2, <1>5, GoesOn, Types

\* The restore from the backup begins.
LEMMA RestoreBeginsKeeps ==
  ASSUME FileInv, NEW w \in Writers, RestoreBegins(w)
  PROVE  FileInv'
  <1>1. pc[w] = "undo" /\ pc[w] \in Busy /\ "undoing" \in Busy /\ Goto(w, "undoing") /\ HolderInv(w)
    BY DEF RestoreBegins, At, FileInv, Busy
  <1>2. UNCHANGED <<bak, tmp, lock, copied, had, answer, errors, repaired>>
        /\ file' = Torn /\ tearer' = {w} /\ w \in copied
    BY DEF RestoreBegins
  <1>3. Outside' \subseteq Outside /\ Told("saved")' = Told("saved")
        /\ pc'[w] = "undoing"
    BY <1>1, <1>2, SameVerdicts
  <1>4. BackupInv(w)'
    BY <1>1, <1>2, <1>3 DEF HolderInv, BackupInv, Sound
  <1>5. HolderInv(w)'
    BY <1>1, <1>2, <1>3, <1>4 DEF HolderInv
  <1> QED BY <1>1, <1>2, <1>5, GoesOn, Types, Contents

\* The restore completes.
LEMMA RestoreEndsKeeps ==
  ASSUME FileInv, NEW w \in Writers, RestoreEnds(w)
  PROVE  FileInv'
  <1>1. pc[w] = "undoing" /\ pc[w] \in Busy /\ "clean" \in Busy /\ Goto(w, "clean") /\ HolderInv(w)
    BY DEF RestoreEnds, At, FileInv, Busy
  <1>2. UNCHANGED <<tmp, lock, copied, had, answer, errors, repaired, tearer>> /\ file' = bak[w]
        /\ bak' = [bak EXCEPT ![w] = Absent]
    BY DEF RestoreEnds
  <1>3. Outside' \subseteq Outside /\ Told("saved")' = Told("saved")
        /\ pc'[w] = "clean"
    BY <1>1, <1>2, SameVerdicts
  <1>4. HolderInv(w)'
    BY <1>1, <1>2, <1>3, Types, Contents DEF HolderInv, BackupInv, Untouched, Sound
  <1>5. bak' \in [Writers -> Content] /\ file' \in Content
    BY <1>2, Types, Contents
  <1> QED BY <1>1, <1>2, <1>4, <1>5, GoesOn, Types

\* There is no backup to restore from.
LEMMA NoBackupKeeps ==
  ASSUME FileInv, NEW w \in Writers, NoBackup(w)
  PROVE  FileInv'
  <1>1. pc[w] = "undo" /\ pc[w] \in Busy /\ "clean" \in Busy /\ Goto(w, "clean") /\ HolderInv(w)
    BY DEF NoBackup, At, FileInv, Busy
  <1>2. UNCHANGED <<bak, tmp, lock, copied, had, answer, errors, repaired, tearer>>
        /\ file' = (IF w \in had THEN file ELSE Absent) /\ w \notin copied
    BY DEF NoBackup
  <1>3. Outside' \subseteq Outside /\ Told("saved")' = Told("saved")
        /\ pc'[w] = "clean"
    BY <1>1, <1>2, SameVerdicts
  <1>4. HolderInv(w)'
    BY <1>1, <1>2, <1>3, Types, Contents DEF HolderInv, BackupInv, Untouched, CutShort, Sound
  <1> QED BY <1>1, <1>2, <1>4, GoesOn, Types, Contents

-----------------------------------------------------------------------------
(***************************************************************************)
(* The ways out of the critical section.                                   *)
(***************************************************************************)

\* The holder lets go of the lock: what is left to show is what holds between writers.
LEMMA LetsGo ==
  ASSUME FileInv, NEW w \in Writers, pc[w] \in Busy,
         NEW s \in {"done", "dead"}, Goto(w, s), lock' = lock \ {w},
         NEW a \in {"none", "saved", "failed"}, (s = "done") <=> (a # "none"),
         answer' = [answer EXCEPT ![w] = a],
         UNCHANGED <<copied, had, repaired, tearer>>,
         file' \in Content, bak' \in [Writers -> Content], tmp' \in [Writers -> Content],
         errors' \in 0..MaxErrors,
         Sound(file)' /\ TornHasBackup'
  PROVE  FileInv'
  <1>1. pc' = [pc EXCEPT ![w] = s]
    BY DEF Goto
  <1>2. lock = {w} /\ \A v \in Writers : v # w => pc[v] \notin Busy
    BY Sole
  <1>3. lock' = {}
    BY <1>2
  <1>4. FileTypeOK'
    <2>1. lock' \subseteq Writers /\ Cardinality(lock') <= 1
      BY <1>3, FS_EmptySet
    <2> QED BY <1>1, <2>1, Types DEF FileTypeOK
  <1>5. \A v \in Writers : pc'[v] \notin Busy
    BY <1>1, <1>2, Types DEF Busy
  <1>6. LockInv'
    BY <1>3, <1>5 DEF LockInv
  <1>7. \A v \in Writers : WriterInv(v)'
    BY <1>1, Types DEF FileInv, WriterInv, Busy
  <1>8. \A v \in Writers : HolderInv(v)'
    BY <1>5 DEF HolderInv, Busy
  <1>9. RestInv'
    BY DEF RestInv
  <1> QED BY <1>4, <1>6, <1>7, <1>8, <1>9 DEF FileInv

\* What a returned answer, or a death, adds to what must be in the file and what must not.
LEMMA NewVerdict ==
  ASSUME FileInv, NEW w \in Writers, pc[w] \in Busy,
         NEW s \in {"done", "dead"}, Goto(w, s),
         NEW a \in {"none", "saved", "failed"},
         answer' = [answer EXCEPT ![w] = a],
         \A v \in Writers : v # w => tmp'[v] = tmp[v]
  PROVE  /\ Outside' \subseteq Outside \cup {w}
         /\ a # "failed" \/ LeftTemp(w)' => Outside' \subseteq Outside
         /\ Told("saved")' = Told("saved") \cup (IF a = "saved" THEN {w} ELSE {})
  <1>1. pc' = [pc EXCEPT ![w] = s]
    BY DEF Goto
  <1>2. \A v \in Writers : pc'[v] = "start" <=> pc[v] = "start"
    BY <1>1, Types DEF Busy
  <1>3. answer[w] = "none"
    BY DEF FileInv, WriterInv, Busy
  <1>4. \A v \in Writers : answer'[v] = IF v = w THEN a ELSE answer[v]
    BY Types
  <1> QED BY <1>2, <1>3, <1>4 DEF Outside, Told, LeftTemp

\* A failed call that leaves the file as it found it.
LEMMA FailsUntouched ==
  ASSUME FileInv, NEW w \in Writers, pc[w] \in Busy, Return(w, "failed"),
         Untouched(w), UNCHANGED <<file, copied, had, repaired, tearer>>,
         bak' \in [Writers -> Content], tmp' \in [Writers -> Content],
         \A v \in Writers : v # w => tmp'[v] = tmp[v],
         errors' \in 0..MaxErrors
  PROVE  FileInv'
  <1>1. Goto(w, "done") /\ answer' = [answer EXCEPT ![w] = "failed"] /\ lock' = lock \ {w}
    BY DEF Return
  <1>2. /\ Outside' \subseteq Outside \cup {w}
        /\ Told("saved")' = Told("saved")
    BY <1>1, NewVerdict
  <1>3. Sound(file)'
    BY <1>2 DEF Untouched, Sound
  <1>4. TornHasBackup'
    BY DEF Untouched, TornHasBackup
  <1> QED BY <1>1, <1>3, <1>4, LetsGo, Types

\* The temporary file cannot be written.
LEMMA WriteTempFailsKeeps ==
  ASSUME FileInv, NEW w \in Writers, WriteTempFails(w)
  PROVE  FileInv'
  <1>1. pc[w] = "temp" /\ pc[w] \in Busy /\ HolderInv(w)
    BY DEF WriteTempFails, At, FileInv, Busy
  <1>2. /\ UNCHANGED <<file, bak, copied, had, repaired, tearer>> /\ Error /\ Return(w, "failed")
        /\ tmp' = [tmp EXCEPT ![w] = IF w \in Server THEN Absent ELSE Torn]
    BY DEF WriteTempFails
  <1>3. Untouched(w) /\ tmp' \in [Writers -> Content]
    BY <1>1, <1>2, Types, Contents DEF HolderInv
  <1> QED BY <1>1, <1>2, <1>3, FailsUntouched, Types

\* The backup cannot be written.
LEMMA BackupFailsKeeps ==
  ASSUME FileInv, NEW w \in Writers, BackupFails(w)
  PROVE  FileInv'
  <1>1. /\ pc[w] = "backup" /\ pc[w] \in Busy /\ "replace" \in Busy /\ HolderInv(w)
        /\ w \in had /\ Error /\ UNCHANGED <<file, tmp, copied, had, repaired, tearer>>
    BY DEF BackupFails, At, FileInv, Busy
  <1>2. CASE w \in Server
    <2>1. Goto(w, "replace") /\ UNCHANGED <<bak, lock, answer>>
      BY <1>2 DEF BackupFails
    <2>2. Outside' \subseteq Outside /\ Told("saved")' = Told("saved")
          /\ pc'[w] = "replace"
      BY <1>1, <2>1, SameVerdicts
    <2>3. HolderInv(w)'
      BY <1>1, <1>2, <2>1, <2>2 DEF HolderInv, Untouched, Sound
    <2> QED BY <1>1, <2>1, <2>3, GoesOn, Types
  <1>3. CASE w \notin Server
    <2>1. bak' = [bak EXCEPT ![w] = Torn] /\ Return(w, "failed")
      BY <1>3 DEF BackupFails
    <2>2. Untouched(w) /\ bak' \in [Writers -> Content]
      BY <1>1, <2>1, Types, Contents DEF HolderInv
    <2> QED BY <1>1, <2>1, <2>2, FailsUntouched, Types
  <1> QED BY <1>2, <1>3

\* The restore fails.
LEMMA RestoreFailsKeeps ==
  ASSUME FileInv, NEW w \in Writers, RestoreFails(w)
  PROVE  FileInv'
  <1>1. pc[w] = "undoing" /\ pc[w] \in Busy /\ HolderInv(w)
    BY DEF RestoreFails, At, FileInv, Busy
  <1>2. /\ UNCHANGED <<file, bak, copied, had, repaired, tearer>> /\ Error
        /\ Goto(w, "done") /\ answer' = [answer EXCEPT ![w] = "failed"] /\ lock' = lock \ {w}
        /\ tmp' = [tmp EXCEPT ![w] = IF w \in Server THEN Absent ELSE @]
    BY DEF RestoreFails, Return
  <1>3. /\ Outside' \subseteq Outside \cup {w}
        /\ Told("saved")' = Told("saved")
    <2>1. \A v \in Writers : v # w => tmp'[v] = tmp[v]
      BY <1>2, Types
    <2> QED BY <1>1, <1>2, <2>1, NewVerdict
  <1>4. Sound(file)'
    BY <1>1, <1>2, Contents DEF HolderInv, Sound
  <1>5. TornHasBackup'
    BY <1>1, <1>2, <1>3, Contents DEF HolderInv, BackupInv, Sound, TornHasBackup
  <1>6. tmp' \in [Writers -> Content]
    BY <1>2, Types, Contents
  <1> QED BY <1>1, <1>2, <1>4, <1>5, <1>6, LetsGo, Types

\* The temporary file is removed after a failure.
LEMMA CleanUpKeeps ==
  ASSUME FileInv, NEW w \in Writers, CleanUp(w)
  PROVE  FileInv'
  <1>1. pc[w] = "clean" /\ pc[w] \in Busy /\ HolderInv(w)
    BY DEF CleanUp, At, FileInv, Busy
  <1>2. /\ UNCHANGED <<file, bak, copied, had, errors, repaired, tearer>> /\ Return(w, "failed")
        /\ Goto(w, "done") /\ answer' = [answer EXCEPT ![w] = "failed"] /\ lock' = lock \ {w}
        /\ tmp' = [tmp EXCEPT ![w] = Absent]
    BY DEF CleanUp, Return
  <1>3. tmp' \in [Writers -> Content]
    BY <1>2, Types, Contents
  <1>4. CASE Untouched(w)
    BY <1>1, <1>2, <1>3, <1>4, FailsUntouched, Types
  <1>5. CASE CutShort(w) /\ w \notin copied /\ w \in had /\ w \in Server
    <2>1. Sound(file)' /\ TornHasBackup'
      BY <1>2, <1>5, Contents DEF CutShort, Sound, TornHasBackup
    <2> QED BY <1>1, <1>2, <1>3, <2>1, LetsGo, Types
  <1> QED BY <1>1, <1>4, <1>5 DEF HolderInv

\* A call whose update is in the whole file that the step leaves behind.
LEMMA SavedSound ==
  ASSUME FileInv, NEW w \in Writers, pc[w] \in Busy,
         NEW a \in {"saved", "failed"}, Return(w, a), a = "saved" \/ LeftTemp(w)',
         UNCHANGED <<copied, had, repaired, tearer>>,
         file' \in Content, bak' \in [Writers -> Content], tmp' \in [Writers -> Content],
         \A v \in Writers : v # w => tmp'[v] = tmp[v],
         errors' \in 0..MaxErrors,
         Sound(file'), file'.is = "whole", w \in file'.has
  PROVE  FileInv'
  <1>1. Goto(w, "done") /\ answer' = [answer EXCEPT ![w] = a] /\ lock' = lock \ {w}
    BY DEF Return
  <1>2. Outside' \subseteq Outside /\ Told("saved")' \subseteq Told("saved") \cup {w}
    BY <1>1, NewVerdict
  <1>3. Sound(file)'
    BY <1>2 DEF Sound
  <1>4. TornHasBackup'
    BY Contents DEF TornHasBackup
  <1> QED BY <1>1, <1>3, <1>4, LetsGo

\* The rename puts the new content in place.
LEMMA ReplaceKeeps ==
  ASSUME FileInv, NEW w \in Writers, Replace(w)
  PROVE  FileInv'
  <1>1. pc[w] = "replace" /\ pc[w] \in Busy /\ HolderInv(w)
    BY DEF Replace, At, FileInv, Busy
  <1>2. /\ UNCHANGED <<copied, had, errors, repaired, tearer>> /\ Return(w, "saved")
        /\ file' = tmp[w] /\ tmp' = [tmp EXCEPT ![w] = Absent]
        /\ bak' = [bak EXCEPT ![w] = Absent]
    BY DEF Replace
  <1>3. w \notin Outside
    BY <1>1 DEF Outside, Told, FileInv, WriterInv, Busy
  <1>4. Sound(file') /\ file'.is = "whole" /\ w \in file'.has
    BY <1>1, <1>2, <1>3, Contents DEF HolderInv, Untouched, Sound
  <1>5. file' \in Content /\ bak' \in [Writers -> Content] /\ tmp' \in [Writers -> Content]
    BY <1>2, Types, Contents
  <1> QED BY <1>1, <1>2, <1>4, <1>5, SavedSound, Types

\* The save returns and the lock is released.
LEMMA SavedKeeps ==
  ASSUME FileInv, NEW w \in Writers, Saved(w)
  PROVE  FileInv'
  <1>1. pc[w] = "copied" /\ pc[w] \in Busy /\ HolderInv(w)
    BY DEF Saved, At, FileInv, Busy
  <1>2. /\ UNCHANGED <<file, copied, had, errors, repaired, tearer>> /\ Return(w, "saved")
        /\ bak' = [bak EXCEPT ![w] = Absent] /\ tmp' = [tmp EXCEPT ![w] = Absent]
    BY DEF Saved
  <1>3. Sound(file') /\ file'.is = "whole" /\ w \in file'.has
    BY <1>1, <1>2 DEF HolderInv, Sound
  <1>4. /\ bak' \in [Writers -> Content] /\ tmp' \in [Writers -> Content]
        /\ \A v \in Writers : v # w => tmp'[v] = tmp[v]
    BY <1>2, Types, Contents
  <1> QED BY <1>1, <1>2, <1>3, <1>4, SavedSound, Types

\* The save returns, and its temp file stays behind.
LEMMA SavedLeaksKeeps ==
  ASSUME FileInv, NEW w \in Writers, SavedLeaks(w)
  PROVE  FileInv'
  <1>1. pc[w] = "copied" /\ pc[w] \in Busy /\ HolderInv(w)
    BY DEF SavedLeaks, At, FileInv, Busy
  <1>2. /\ UNCHANGED <<file, tmp, copied, had, repaired, tearer>> /\ Error
        /\ bak' = [bak EXCEPT ![w] = Absent]
        /\ Return(w, IF w \in Server THEN "saved" ELSE "failed")
    BY DEF SavedLeaks
  <1>3. Sound(file') /\ file'.is = "whole" /\ w \in file'.has
    BY <1>1, <1>2 DEF HolderInv, Sound
  <1>4. w \in Server \/ LeftTemp(w)'
    BY <1>1, <1>2 DEF HolderInv, LeftTemp
  <1>5. bak' \in [Writers -> Content]
    BY <1>2, Types, Contents
  <1>6. PICK a \in {"saved", "failed"} : Return(w, a) /\ (a = "saved" \/ LeftTemp(w)')
    BY <1>2, <1>4
  <1> QED BY <1>1, <1>2, <1>3, <1>5, <1>6, SavedSound, Types

\* A death at any step of the critical section.
LEMMA DieKeeps ==
  ASSUME FileInv, NEW w \in Writers, Die(w)
  PROVE  FileInv'
  <1>1. pc[w] \in Busy /\ HolderInv(w)
    BY Types DEF Die, FileInv, Busy
  <1>2. /\ UNCHANGED <<file, bak, tmp, copied, had, answer, errors, repaired, tearer>>
        /\ Goto(w, "dead") /\ lock' = lock \ {w}
    BY DEF Die
  <1>3. answer[w] = "none" /\ answer' = [answer EXCEPT ![w] = "none"]
    BY <1>1, <1>2, Types DEF FileInv, WriterInv, Busy
  <1>4. /\ Outside' \subseteq Outside
        /\ Told("saved")' = Told("saved")
    BY <1>1, <1>2, <1>3, NewVerdict
  <1>5. Sound(file)'
    BY <1>1, <1>2, <1>4, Contents DEF HolderInv, Untouched, CutShort, Sound, Busy
  <1>6. TornHasBackup'
    BY <1>1, <1>2, <1>4, Contents
       DEF HolderInv, Untouched, CutShort, BackupInv, Sound, TornHasBackup, Busy
  <1> QED BY <1>1, <1>2, <1>3, <1>5, <1>6, LetsGo, Types

-----------------------------------------------------------------------------
(***************************************************************************)
(* The first step of a call.                                               *)
(***************************************************************************)

\* A writer takes the lock and reads the state.
LEMMA BeginKeeps ==
  ASSUME FileInv, NEW w \in Writers, Begin(w)
  PROVE  FileInv'
  <1>1. /\ pc[w] = "start" /\ lock = {} /\ Readable(w) /\ lock' = {w}
        /\ UNCHANGED <<file, bak, copied, answer, errors, tearer>>
        /\ had' = IF file = Absent THEN had ELSE had \cup {w}
        /\ tmp' = [tmp EXCEPT ![w] = Whole(file.has \cup {w})]
        /\ repaired' = (repaired \/ (file = Torn /\ w \in Repairers))
        /\ pc' = [pc EXCEPT ![w] = "temp"]
    BY DEF Begin, At, LockFree, Goto
  <1>2. \A v \in Writers : v # w => pc'[v] \notin Busy
    BY <1>1, Types DEF FileInv, LockInv
  <1>3. FileTypeOK'
    <2>1. lock' \subseteq Writers /\ Cardinality(lock') <= 1
      <3>1. lock' = {w}
        BY <1>1
      <3>2. Cardinality({w}) = 1
        BY FS_Singleton, Zenon
      <3> QED BY <3>1, <3>2
    <2>2. tmp' \in [Writers -> Content] /\ had' \subseteq Writers /\ copied' \subseteq had'
          /\ repaired' \in BOOLEAN
      BY <1>1, Types, Contents
    <2> QED BY <1>1, <2>1, <2>2, Types DEF FileTypeOK
  <1>4. LockInv'
    BY <1>1, <1>2, Types DEF LockInv, Busy
  <1>5. \A v \in Writers : WriterInv(v)'
    BY <1>1, Types DEF FileInv, WriterInv
  <1>6. HolderInv(w)'
    <2>1. pc'[w] = "temp" /\ w \notin had /\ w \notin copied /\ w \in Outside
      BY <1>1, Types DEF FileInv, WriterInv, Outside
    <2>2. Outside' \subseteq Outside /\ Told("saved")' = Told("saved")
      <3>1. \A v \in Writers : v # w => pc'[v] = pc[v] /\ (LeftTemp(v)' <=> LeftTemp(v))
        BY <1>1, Types DEF LeftTemp
      <3> QED BY <1>1, <2>1, <3>1, Types DEF Outside, Told
    <2>3. Sound(file)
      BY <1>1 DEF FileInv, RestInv
    <2>4. Sound(file)'
      BY <1>1, <2>2, <2>3, Types DEF Sound
    <2>5. Untouched(w)'
      BY <1>1, <2>1, <2>3, <2>4, Types DEF Untouched, Sound, Readable
    <2>6. (w \in had' <=> file' # Absent) /\ tmp'[w] = Whole(file'.has \cup {w})
      BY <1>1, <2>1, Types
    <2> QED BY <1>1, <2>1, <2>5, <2>6 DEF HolderInv
  <1>7. \A v \in Writers : HolderInv(v)'
    <2>1. SUFFICES ASSUME NEW v \in Writers, v # w PROVE HolderInv(v)'
      BY <1>6
    <2> QED BY <1>2, <2>1 DEF HolderInv, Busy
  <1>8. RestInv'
    BY <1>1 DEF RestInv
  <1> QED BY <1>3, <1>4, <1>5, <1>7, <1>8 DEF FileInv

\* A writer that cannot read the file, or gets no lock, gives up.
LEMMA RefuseKeeps ==
  ASSUME FileInv, NEW w \in Writers, Refuse(w)
  PROVE  FileInv'
  <1>1. /\ pc[w] = "start" /\ UNCHANGED <<file, bak, tmp, copied, had, errors, repaired, tearer>>
        /\ pc' = [pc EXCEPT ![w] = "done"] /\ lock' = lock \ {w}
        /\ answer' = [answer EXCEPT ![w] = "failed"]
    BY DEF Refuse, At, Return, Goto
  <1>2. lock' = lock
    BY <1>1 DEF FileInv, LockInv, Busy
  <1>3. answer[w] = "none"
    BY <1>1 DEF FileInv, WriterInv
  <1>4. Outside' \subseteq Outside /\ Told("saved")' = Told("saved")
    <2>1. \A v \in Writers : /\ pc'[v] = IF v = w THEN "done" ELSE pc[v]
                             /\ answer'[v] = IF v = w THEN "failed" ELSE answer[v]
      BY <1>1, Types
    <2> QED BY <1>1, <1>3, <2>1 DEF Outside, Told, LeftTemp
  <1>5. FileTypeOK'
    BY <1>1, <1>2 DEF FileInv, FileTypeOK
  <1>6. LockInv'
    BY <1>1, <1>2, Types DEF FileInv, LockInv, Busy
  <1>7. \A v \in Writers : WriterInv(v)'
    BY <1>1, Types DEF FileInv, WriterInv
  <1>8. ASSUME NEW v \in Writers PROVE HolderInv(v)'
    <2>1. CASE v = w
      BY <1>1, <2>1, Types DEF HolderInv
    <2>2. CASE v # w
      <3>1. pc'[v] = pc[v] /\ HolderInv(v)
        BY <1>1, <2>2, Types DEF FileInv
      <3> QED BY <1>1, <1>4, <3>1 DEF HolderInv, Untouched, BackupInv, CutShort, Sound
    <2> QED BY <2>1, <2>2
  <1>9. RestInv'
    BY <1>1, <1>2, <1>4 DEF FileInv, RestInv, Sound, TornHasBackup
  <1> QED BY <1>5, <1>6, <1>7, <1>8, <1>9 DEF FileInv

-----------------------------------------------------------------------------
(***************************************************************************)
(* The theorems.                                                           *)
(***************************************************************************)

\* The state file is whole and unlocked at the start.
LEMMA FileInitInv == FileInit => FileInv
  <1> SUFFICES ASSUME FileInit PROVE FileInv
    OBVIOUS
  <1>1. FileTypeOK
    <2>1. file \in Content /\ Absent \in Content
      BY Contents DEF FileInit
    <2>2. Cardinality(lock) <= 1 /\ errors \in 0..MaxErrors
      BY FS_EmptySet, FileConstants DEF FileInit
    <2> QED BY <2>1, <2>2 DEF FileInit, FileTypeOK
  <1>2. LockInv /\ \A w \in Writers : WriterInv(w) /\ HolderInv(w)
    BY DEF FileInit, LockInv, WriterInv, HolderInv, Busy
  <1>3. RestInv
    <2>1. file.has = {} /\ file # Torn
      BY Contents DEF FileInit
    <2>2. Told("saved") = {}
      BY DEF FileInit, Told
    <2> QED BY <2>1, <2>2 DEF RestInv, Sound, TornHasBackup
  <1> QED BY <1>1, <1>2, <1>3 DEF FileInv

\* Every step keeps the invariant.
LEMMA FileStepInv == FileInv /\ [FileNext]_fileVars => FileInv'
  <1> SUFFICES ASSUME FileInv, [FileNext]_fileVars PROVE FileInv'
    OBVIOUS
  <1>1. ASSUME NEW w \in Writers, WriterStep(w) \/ Die(w) PROVE FileInv'
    BY <1>1, BeginKeeps, RefuseKeeps, WriteTempKeeps, WriteTempFailsKeeps, BackupKeeps,
       BackupFailsKeeps, ReplaceKeeps, ReplaceFailsKeeps, CopyBeginsKeeps, CopyEndsKeeps,
       CopyFailsKeeps, SavedKeeps, SavedLeaksKeeps, RestoreBeginsKeeps, RestoreEndsKeeps,
       RestoreFailsKeeps, NoBackupKeeps, CleanUpKeeps, DieKeeps
       DEF WriterStep
  <1>2. CASE UNCHANGED fileVars
    <2>1. Outside' \subseteq Outside /\ Told("saved")' = Told("saved")
      BY <1>2 DEF fileVars, Outside, Told, LeftTemp
    <2>2. FileTypeOK' /\ LockInv' /\ \A w \in Writers : WriterInv(w)'
      BY <1>2 DEF fileVars, FileInv, FileTypeOK, LockInv, WriterInv
    <2>3. ASSUME NEW w \in Writers PROVE HolderInv(w)'
      <3>1. HolderInv(w)
        BY DEF FileInv
      <3> QED BY <1>2, <2>1, <3>1
              DEF fileVars, HolderInv, Untouched, BackupInv, CutShort, Sound
    <2>4. RestInv'
      BY <1>2, <2>1 DEF fileVars, FileInv, RestInv, Sound, TornHasBackup
    <2> QED BY <2>2, <2>3, <2>4 DEF FileInv
  <1> QED BY <1>1, <1>2 DEF FileNext

\* What holds between two writers, and what each writer knows at each step of its own.
THEOREM FileInvariant == FileSpec => []FileInv
  BY FileInitInv, FileStepInv, PTL DEF FileSpec

\* No update whose caller was told it is saved is missing from a readable file.
THEOREM FileLosesNoUpdate == FileSpec => []NoLostUpdate
  <1>1. FileInv => NoLostUpdate
    BY Contents, Types DEF FileInv, RestInv, Sound, NoLostUpdate
  <1> QED BY <1>1, FileInvariant, PTL

\* An update whose caller was told it failed is not in the file, unless the caller is an
\* app process that had to copy and whose temp file is left beside the file.
THEOREM FileFailedNotApplied == FileSpec => []FailedNotApplied
  <1>1. FileInv => FailedNotApplied
    BY DEF FileInv, RestInv, Sound, Outside, Told, FailedNotApplied
  <1> QED BY <1>1, FileInvariant, PTL

\* The writer that tore an unreadable file has a whole backup beside it, or had none to
\* make, or is a tool server that goes on without one.
THEOREM FileTornHasBackup == FileSpec => []TornHasBackup
  <1>1. FileInv => TornHasBackup
    BY DEF FileInv, RestInv, TornHasBackup
  <1> QED BY <1>1, FileInvariant, PTL
=============================================================================
