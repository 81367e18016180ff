------------------------------- MODULE Backup -------------------------------
(***************************************************************************)
(* Backups of the database (runtime/backup.py): files named after the time *)
(* they are begun at, checked when they are done, pruned to the newest     *)
(* ones, and restored.                                                     *)
(***************************************************************************)
EXTENDS Integers, FiniteSets

CONSTANTS Keep,     \* --keep, 1 or more
          MaxTime,  \* of the stamps in the names (bound)
          MaxVersion \* of the database (bound)

VARIABLES
  db,      \* the database: its version, and whether it is sound
  files,   \* under each stamp None, or a backup: "partial", "bad", "whole", and its version
  now,
  job,     \* the backup that is under way, a stamp, or 0
  fresh,   \* the command has just made a backup and will prune
  failed,  \* backups that failed since the last good one
  good     \* some backup has succeeded

backupVars == <<db, files, now, job, fresh, failed, good>>

Times == 1 .. MaxTime
None == [state |-> "none", version |-> 0]
File(state) == [state |-> state, version |-> db.version]
Made == {t \in Times : files[t] # None}

Init ==
  /\ db = [version |-> 1, sound |-> TRUE] /\ files = [t \in Times |-> None]
  /\ now = 1 /\ job = 0 /\ fresh = FALSE /\ failed = 0 /\ good = FALSE

-----------------------------------------------------------------------------
\* The source is checked, and a name that is taken refused.
BeginBackup ==
  /\ job = 0 /\ ~fresh /\ db.sound /\ files[now] = None
  /\ files' = [files EXCEPT ![now] = File("partial")] /\ job' = now
  /\ UNCHANGED <<db, now, fresh, failed, good>>

\* The copy is one version of the database, the last if that changes meanwhile.
EndBackup ==
  /\ job # 0 /\ db.sound
  /\ files' = [files EXCEPT ![job] = File("whole")] /\ job' = 0
  /\ fresh' = TRUE /\ failed' = 0 /\ good' = TRUE
  /\ UNCHANGED <<db, now>>

\* An error, a time limit, the death of the command: what has been written stays.
BackupFails ==
  /\ job # 0 /\ job' = 0 /\ failed' = failed + 1
  /\ UNCHANGED <<db, files, now, fresh, good>>

\* So does a copy that does not pass its check.
CheckFails ==
  /\ job # 0 /\ files' = [files EXCEPT ![job] = File("bad")] /\ job' = 0
  /\ failed' = failed + 1
  /\ UNCHANGED <<db, now, fresh, good>>

\* Fault variant: the oldest are kept.
DoomedNew(ts) == {t \in ts : Cardinality({u \in ts : u < t}) >= Keep}

\* plan_prune, by the stamps alone.
Doomed(ts) == {t \in ts : Cardinality({u \in ts : u > t}) >= Keep}

\* One file after the other, until one cannot be deleted.
Remove(ts) == files' = [t \in Times |-> IF t \in ts THEN None ELSE files[t]]
Prune ==
  /\ \E gone \in SUBSET Doomed(Made) : Remove(gone)
  /\ fresh' = FALSE /\ <<files', fresh'>> # <<files, fresh>>
  /\ UNCHANGED <<db, now, job, failed, good>>

-----------------------------------------------------------------------------
\* Restore checks the file before the database is overwritten, and that afterwards.
Restore(t) ==
  /\ files[t].state = "whole" /\ job = 0
  /\ db' = [version |-> files[t].version, sound |-> TRUE]
  /\ UNCHANGED <<files, now, job, fresh, failed, good>>

Write ==
  /\ db.sound /\ db.version < MaxVersion /\ db' = [db EXCEPT !.version = @ + 1]
  /\ UNCHANGED <<files, now, job, fresh, failed, good>>

Damage ==
  /\ db.sound /\ db' = [db EXCEPT !.sound = FALSE]
  /\ UNCHANGED <<files, now, job, fresh, failed, good>>

Clock ==
  /\ now < MaxTime /\ now' = now + 1
  /\ UNCHANGED <<db, files, job, fresh, failed, good>>

Next ==
  \/ BeginBackup \/ EndBackup \/ BackupFails \/ CheckFails \/ Prune
  \/ \E t \in Times : Restore(t)
  \/ Write \/ Damage \/ Clock

Spec == Init /\ [][Next]_backupVars

-----------------------------------------------------------------------------
Usable == {t \in Times : files[t].state = "whole"}

\* backup.py:296-333: failed backups stay and count when the directory is pruned, so a
\* usable one is certain as long as fewer than keep have failed since the last success,
\* one under way included.
UsableKept == good /\ failed + (IF job # 0 THEN 1 ELSE 0) < Keep => Usable # {}

\* docs/operations.md:155, "no backup that looks like one and is broken is left".
NoneBroken == \A t \in Made : t = job \/ files[t].state = "whole"
=============================================================================
