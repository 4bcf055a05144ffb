------------------------------ MODULE StateFile ------------------------------
(***************************************************************************)
(* One locked read-modify-write of .aspis-agents.json, step by step: the   *)
(* advisory lock, the temp file, the backup, the replace with its copy     *)
(* fallback, the rollback.  The other modules take it as one step.         *)
(*                                                                         *)
(* Two writers share the protocol and differ in its error paths: the tool  *)
(* server (write_text_crash_safe) and the app with its consent hook        *)
(* (replace_file_with_backup).  A sandboxed writer cannot replace a file   *)
(* atomically and copies over it instead.                                  *)
(*                                                                         *)
(* A file's content is the set of updates it contains.  Temp and backup    *)
(* names carry the process id and a time stamp, so every writer has its    *)
(* own.                                                                    *)
(***************************************************************************)
EXTENDS Naturals, FiniteSets

CONSTANTS
    Writers,    \* processes, each with one update to make
    Server,     \* the ones that are tool servers; the others are the app or its hook
    Sandboxed,  \* the ones whose replace is denied, as it is inside an AppContainer
    Repairers,  \* the app's manual board move, which takes an unreadable file for none
    MaxErrors   \* bound: file operations that fail

ASSUME FileConstants ==
    /\ IsFiniteSet(Writers) /\ Server \subseteq Writers /\ Sandboxed \subseteq Writers
    /\ Repairers \subseteq Writers \ (Server \cup Sandboxed)
    /\ MaxErrors \in Nat

VARIABLES
    file,     \* .aspis-agents.json
    bak, tmp, \* each writer's backup and temp file
    lock,     \* the holders of .aspis-agents.json.lock
    pc,       \* each writer's next step
    copied,   \* the writers that hold a backup: backup_created, had_backup
    had,      \* the writers that found the file there
    answer,   \* what each writer's caller is told
    errors,   \* counter of MaxErrors
    repaired, \* history: a manual move replaced an unreadable file
    tearer    \* history: the writer that last began to copy over the file

fileVars == <<file, bak, tmp, lock, pc, copied, had, answer, errors, repaired, tearer>>

Absent == [is |-> "absent", has |-> {}]
Torn == [is |-> "torn", has |-> {}]
Whole(S) == [is |-> "whole", has |-> S]
Content == {Absent, Torn} \cup {Whole(S) : S \in SUBSET Writers}

FileTypeOK ==
    /\ file \in Content /\ bak \in [Writers -> Content] /\ tmp \in [Writers -> Content]
    /\ lock \subseteq Writers /\ Cardinality(lock) <= 1
    /\ pc \in [Writers -> {"start", "temp", "backup", "replace", "copying", "copied", "undo",
                           "undoing", "clean", "done", "dead"}]
    /\ had \subseteq Writers /\ copied \subseteq had
    /\ answer \in [Writers -> {"none", "saved", "failed"}]
    /\ errors \in 0..MaxErrors /\ repaired \in BOOLEAN /\ tearer \subseteq Writers

FileInit ==
    /\ file \in {Absent, Whole({})}
    /\ bak = [w \in Writers |-> Absent] /\ tmp = [w \in Writers |-> Absent]
    /\ lock = {} /\ pc = [w \in Writers |-> "start"]
    /\ copied = {} /\ had = {} /\ answer = [w \in Writers |-> "none"]
    /\ errors = 0 /\ repaired = FALSE /\ tearer = {}

-----------------------------------------------------------------------------
At(w, step) == pc[w] = step
Goto(w, step) == pc' = [pc EXCEPT ![w] = step]
Error == errors < MaxErrors /\ errors' = errors + 1

Return(w, a) ==
    /\ Goto(w, "done")
    /\ answer' = [answer EXCEPT ![w] = a]
    /\ lock' = lock \ {w}

\* Mutant: an unreadable file is taken for an empty one by everybody.
ReadLenient(w) == TRUE

\* The file can be read, or counts as none.
Readable(w) == file # Torn \/ w \in Repairers

LockFree == lock = {}

\* The lock, the read, and the update in memory, which goes to the temp file later.
Begin(w) ==
    /\ At(w, "start") /\ LockFree /\ Readable(w)
    /\ lock' = {w}
    /\ had' = IF file = Absent THEN had ELSE had \cup {w}
    /\ tmp' = [tmp EXCEPT ![w] = Whole(file.has \cup {w})]
    /\ repaired' = (repaired \/ (file = Torn /\ w \in Repairers))
    /\ Goto(w, "temp")
    /\ UNCHANGED <<file, bak, copied, answer, errors, tearer>>

\* An unreadable file, or a lock that stays busy for all the attempts.
Refuse(w) ==
    /\ At(w, "start")
    /\ ~Readable(w) \/ ~LockFree
    /\ Return(w, "failed")
    /\ UNCHANGED <<file, bak, tmp, copied, had, errors, repaired, tearer>>

WriteTemp(w) ==
    /\ At(w, "temp")
    /\ Goto(w, "backup")
    /\ UNCHANGED <<file, bak, tmp, lock, copied, had, answer, errors, repaired, tearer>>

\* Nothing of the file is touched yet.  The tool server removes its temp file.
WriteTempFails(w) ==
    /\ At(w, "temp") /\ Error
    /\ tmp' = [tmp EXCEPT ![w] = IF w \in Server THEN Absent ELSE Torn]
    /\ Return(w, "failed")
    /\ UNCHANGED <<file, bak, copied, had, repaired, tearer>>

Backup(w) ==
    /\ At(w, "backup")
    /\ bak' = [bak EXCEPT ![w] = IF w \in had THEN file ELSE Absent]
    /\ copied' = copied \cup ({w} \cap had)
    /\ Goto(w, "replace")
    /\ UNCHANGED <<file, tmp, lock, had, answer, errors, repaired, tearer>>

\* Mutant: a partial backup counts as one.
PartialCounts(w) ==
    /\ At(w, "backup") /\ w \in had /\ Error
    /\ bak' = [bak EXCEPT ![w] = Torn]
    /\ copied' = copied \cup {w}
    /\ Goto(w, "replace")
    /\ UNCHANGED <<file, tmp, lock, had, answer, repaired, tearer>>

\* The tool server goes on without a backup, the app gives up.
BackupFails(w) ==
    /\ At(w, "backup") /\ w \in had /\ Error
    /\ IF w \in Server
       THEN Goto(w, "replace") /\ UNCHANGED <<bak, lock, answer>>
       ELSE bak' = [bak EXCEPT ![w] = Torn] /\ Return(w, "failed")
    /\ UNCHANGED <<file, tmp, copied, had, repaired, tearer>>

\* The atomic replace; its parts after the replace cannot fail the save.
Replace(w) ==
    /\ At(w, "replace") /\ w \notin Sandboxed
    /\ file' = tmp[w]
    /\ tmp' = [tmp EXCEPT ![w] = Absent]
    /\ bak' = [bak EXCEPT ![w] = Absent]
    /\ Return(w, "saved")
    /\ UNCHANGED <<copied, had, errors, repaired, tearer>>

ReplaceFails(w) ==
    /\ At(w, "replace") /\ Error
    /\ Goto(w, "undo")
    /\ UNCHANGED <<file, bak, tmp, lock, copied, had, answer, repaired, tearer>>

\* Access denied inside the sandbox: the temp file is copied over the file.
CopyBegins(w) ==
    /\ At(w, "replace") /\ w \in Sandboxed
    /\ file' = Torn /\ tearer' = {w}
    /\ Goto(w, "copying")
    /\ UNCHANGED <<bak, tmp, lock, copied, had, answer, errors, repaired>>

CopyEnds(w) ==
    /\ At(w, "copying")
    /\ file' = tmp[w]
    /\ Goto(w, "copied")
    /\ UNCHANGED <<bak, tmp, lock, copied, had, answer, errors, repaired, tearer>>

CopyFails(w) ==
    /\ At(w, "copying") /\ Error
    /\ Goto(w, "undo")
    /\ UNCHANGED <<file, bak, tmp, lock, copied, had, answer, repaired, tearer>>

Saved(w) ==
    /\ At(w, "copied")
    /\ tmp' = [tmp EXCEPT ![w] = Absent]
    /\ bak' = [bak EXCEPT ![w] = Absent]
    /\ Return(w, "saved")
    /\ UNCHANGED <<file, copied, had, errors, repaired, tearer>>

\* Mutant: a copy that has landed is cleaned up like one that failed.
LeakUndone(w) ==
    /\ At(w, "copied") /\ Error
    /\ Goto(w, "clean")
    /\ UNCHANGED <<file, bak, tmp, lock, copied, had, answer, repaired, tearer>>

\* The temp file stays behind: the tool server does not mind; replace_file_with_backup
\* keeps what it saved and returns an error, as if the save had failed.
SavedLeaks(w) ==
    /\ At(w, "copied") /\ Error
    /\ bak' = [bak EXCEPT ![w] = Absent]
    /\ Return(w, IF w \in Server THEN "saved" ELSE "failed")
    /\ UNCHANGED <<file, tmp, copied, had, repaired, tearer>>

-----------------------------------------------------------------------------
(***************************************************************************)
(* The rollback.                                                           *)
(***************************************************************************)

\* The backup is copied back, over whatever is there.
RestoreBegins(w) ==
    /\ At(w, "undo") /\ w \in copied
    /\ file' = Torn /\ tearer' = {w}
    /\ Goto(w, "undoing")
    /\ UNCHANGED <<bak, tmp, lock, copied, had, answer, errors, repaired>>

RestoreEnds(w) ==
    /\ At(w, "undoing")
    /\ file' = bak[w]
    /\ bak' = [bak EXCEPT ![w] = Absent]
    /\ Goto(w, "clean")
    /\ UNCHANGED <<tmp, lock, copied, had, answer, errors, repaired, tearer>>

\* The backup is kept.
RestoreFails(w) ==
    /\ At(w, "undoing") /\ Error
    /\ tmp' = [tmp EXCEPT ![w] = IF w \in Server THEN Absent ELSE @]
    /\ Return(w, "failed")
    /\ UNCHANGED <<file, bak, copied, had, repaired, tearer>>

\* Without a backup: a file that was not there before goes, one that was stays as it is.
NoBackup(w) ==
    /\ At(w, "undo") /\ w \notin copied
    /\ file' = IF w \in had THEN file ELSE Absent
    /\ Goto(w, "clean")
    /\ UNCHANGED <<bak, tmp, lock, copied, had, answer, errors, repaired, tearer>>

CleanUp(w) ==
    /\ At(w, "clean")
    /\ tmp' = [tmp EXCEPT ![w] = Absent]
    /\ Return(w, "failed")
    /\ UNCHANGED <<file, bak, copied, had, errors, repaired, tearer>>

\* The process dies; the operating system drops its lock.
Die(w) ==
    /\ pc[w] \notin {"start", "done", "dead"}
    /\ Goto(w, "dead")
    /\ lock' = lock \ {w}
    /\ UNCHANGED <<file, bak, tmp, copied, had, answer, errors, repaired, tearer>>

-----------------------------------------------------------------------------
WriterStep(w) ==
    \/ Begin(w) \/ Refuse(w)
    \/ WriteTemp(w) \/ WriteTempFails(w) \/ Backup(w) \/ BackupFails(w)
    \/ Replace(w) \/ ReplaceFails(w) \/ CopyBegins(w) \/ CopyEnds(w) \/ CopyFails(w)
    \/ Saved(w) \/ SavedLeaks(w)
    \/ RestoreBegins(w) \/ RestoreEnds(w) \/ RestoreFails(w) \/ NoBackup(w) \/ CleanUp(w)

FileNext == \E w \in Writers : WriterStep(w) \/ Die(w)

FileSpec == FileInit /\ [][FileNext]_fileVars

-----------------------------------------------------------------------------
(***************************************************************************)
(* Properties.                                                             *)
(***************************************************************************)
Told(a) == {w \in Writers : answer[w] = a}

\* No update is lost: between two writers a readable file contains every update whose
\* caller was told it is saved, whatever fails or dies in other writers, unless a manual
\* board move replaced an unreadable file.
NoLostUpdate ==
    lock = {} /\ file.is = "whole" /\ ~repaired => Told("saved") \subseteq file.has

\* The save's error is about a temp file that stays behind.
LeftTemp(w) == w \in Sandboxed \ Server /\ tmp[w].is = "whole" /\ w \in tmp[w].has

\* What a caller may conclude from an error.  For every tool server and for the app's
\* processes whose replace is not denied: the update is not in the file and can be
\* retried.  For the others, such as the sandboxed hook: the update is not in the file, or
\* it is, and the temp file that the error is about stays beside it ("saved, but temp
\* cleanup failed").
FailedNotApplied ==
    lock = {} => \A w \in Told("failed") : w \in file.has => LeftTemp(w)

\* The file is unreadable between two writers only if the copy over it by the last writer
\* that began one was cut short.  If that writer had made a backup, the backup is whole
\* and has everything that was saved.  If not, its replace was denied, and there was no
\* file to back up and nothing saved, or it is a tool server that goes on without one.
TornHasBackup ==
    lock = {} /\ file = Torn /\ ~repaired =>
        \E w \in tearer :
            IF w \in copied
            THEN bak[w].is = "whole" /\ Told("saved") \subseteq bak[w].has
            ELSE w \in Sandboxed /\ IF w \in had THEN w \in Server ELSE Told("saved") = {}
=============================================================================
