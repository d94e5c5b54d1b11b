--------------------------------- MODULE Backup ---------------------------------
(***************************************************************************)
(* backup.sh and restore.sh of the reference deployment, beside the server *)
(* and a retention pass.  The database is abstracted to the objects its    *)
(* runs relate to.  A command of a script may fail, and the session that   *)
(* holds the backup's lock may end, at any time.  Two things are left to   *)
(* the operator: a backup is taken of a deployment that serves, and no      *)
(* retention pass runs during a restore, which takes no lock.               *)
(***************************************************************************)
EXTENDS Naturals

CONSTANTS
  Objects,    \* objects of the attachment store
  MaxScripts  \* bound: scripts run

ASSUME ScriptBound == MaxScripts \in Nat

VARIABLES
  api,      \* the API is running
  db,       \* objects some archived run relates to
  store,    \* objects in the attachment store
  lock,     \* who holds the maintenance lock exclusively
  upload,   \* the object of an ingestion in progress, under the shared lock
  script,   \* the script running
  backup    \* the backup directory: [dump, tar, manifest]

backupVars == <<api, db, store, lock, upload, script, backup>>

NoUpload == "none"
\* restarted is set before the API is started, so cleanup does not start it again.
Running(name, pc, left) == [name |-> name, pc |-> pc, restarted |-> FALSE, left |-> left]
NoScript == Running("none", "idle", script.left)
Empty == [dump |-> {}, tar |-> {}, manifest |-> FALSE]

--------------------------------------------------------------------------------
(* The server and retention *)

PutObject(h) ==
  /\ api /\ upload = NoUpload /\ lock = "none"
  /\ upload' = h /\ store' = store \cup {h}
  /\ UNCHANGED <<api, db, lock, script, backup>>

ArchiveObject ==
  /\ api /\ upload # NoUpload
  /\ db' = db \cup {upload} /\ upload' = NoUpload
  /\ UNCHANGED <<api, store, lock, script, backup>>

RetentionBegins ==
  /\ lock = "none" /\ upload = NoUpload /\ script.name # "restore"
  /\ lock' = "retention"
  /\ UNCHANGED <<api, db, store, upload, script, backup>>

\* A run expires with its relations, then the objects nothing relates to go.
RetentionStep ==
  /\ lock = "retention"
  /\ \/ \E h \in db : db' = db \ {h} /\ UNCHANGED <<store, lock>>
     \/ \E h \in store \ db : store' = store \ {h} /\ UNCHANGED <<db, lock>>
     \/ lock' = "none" /\ UNCHANGED <<db, store>>
  /\ UNCHANGED <<api, upload, script, backup>>

--------------------------------------------------------------------------------
(* backup.sh *)

At(name, pc) == script.name = name /\ script.pc = pc
Go(pc) == script' = [script EXCEPT !.pc = pc]

StartBackup ==
  /\ script.name = "none" /\ script.left > 0 /\ api
  /\ script' = Running("backup", "stop", script.left - 1)
  /\ backup' = Empty
  /\ UNCHANGED <<api, db, store, lock, upload>>

\* compose stop api: an upload that did not commit is cut off.
StopApi(name, next) ==
  /\ At(name, "stop")
  /\ api' = FALSE /\ upload' = NoUpload /\ Go(next)
  /\ UNCHANGED <<db, store, lock, backup>>

\* lock_holder names this backup's own session.
TakeLock ==
  /\ At("backup", "lock") /\ lock = "none"
  /\ lock' = "backup" /\ Go("dump")
  /\ UNCHANGED <<api, db, store, upload, backup>>

PgDump ==
  /\ At("backup", "dump")
  /\ backup' = [backup EXCEPT !.dump = db] /\ Go("tar")
  /\ UNCHANGED <<api, db, store, lock, upload>>

\* Object by object, so a removal may fall between two of them.
TarObject(h) ==
  /\ At("backup", "tar") /\ h \in store \ backup.tar
  /\ backup' = [backup EXCEPT !.tar = @ \cup {h}]
  /\ UNCHANGED <<api, db, store, lock, upload, script>>

TarEnds ==
  /\ At("backup", "tar") /\ store \subseteq backup.tar
  /\ Go("recheck")
  /\ UNCHANGED <<api, db, store, lock, upload, backup>>

\* Slip: the lock is not looked at again.
StillHeldAssumed == TRUE

StillHeld == lock = "backup"

\* The same session, still holding it; then the checksums.
Recheck ==
  /\ At("backup", "recheck") /\ StillHeld
  /\ Go("seal")
  /\ UNCHANGED <<api, db, store, lock, upload, backup>>

WriteManifest ==
  /\ At("backup", "seal")
  /\ backup' = [backup EXCEPT !.manifest = TRUE] /\ Go("sealed")
  /\ UNCHANGED <<api, db, store, lock, upload>>

Unlocked == IF lock = "backup" THEN "none" ELSE lock

\* The lock is released, then the API started, which may fail.
StartAfterBackup ==
  /\ At("backup", "sealed")
  /\ lock' = Unlocked
  /\ \/ api' = TRUE /\ script' = NoScript
     \/ api' = api /\ script' = [script EXCEPT !.pc = "failed", !.restarted = TRUE]
  /\ UNCHANGED <<db, store, upload, backup>>

LoseLock ==
  /\ lock = "backup" /\ lock' = "none"
  /\ UNCHANGED <<api, db, store, upload, script, backup>>

\* fail, or a signal: every command of the script.
ScriptFails ==
  /\ script.name # "none" /\ script.pc # "failed"
  /\ Go("failed")
  /\ UNCHANGED <<api, db, store, lock, upload, backup>>

\* Slip: cleanup lets the lock go and no more.
CleanupStartsNothing == FALSE

CleanupStarts == script.name = "backup" /\ ~script.restarted

\* cleanup, for a backup; a failed restore leaves the API as it is.
Cleanup ==
  /\ script.pc = "failed"
  /\ lock' = Unlocked
  /\ api' = (api \/ CleanupStarts)
  /\ script' = NoScript
  /\ UNCHANGED <<db, store, upload, backup>>

--------------------------------------------------------------------------------
(* restore.sh *)

Restorable == backup.manifest

StartRestore ==
  /\ script.name = "none" /\ script.left > 0 /\ lock = "none" /\ Restorable
  /\ script' = Running("restore", "stop", script.left - 1)
  /\ UNCHANGED <<api, db, store, lock, upload, backup>>

DropDatabase ==
  /\ At("restore", "drop")
  /\ db' = {} /\ Go("database")
  /\ UNCHANGED <<api, store, lock, upload, backup>>

PgRestore ==
  /\ At("restore", "database")
  /\ db' = backup.dump /\ Go("empty")
  /\ UNCHANGED <<api, store, lock, upload, backup>>

EmptyStore ==
  /\ At("restore", "empty")
  /\ store' = {} /\ Go("store")
  /\ UNCHANGED <<api, db, lock, upload, backup>>

Extract ==
  /\ At("restore", "store")
  /\ store' = backup.tar /\ Go("start")
  /\ UNCHANGED <<api, db, lock, upload, backup>>

StartAfterRestore ==
  /\ At("restore", "start")
  /\ api' = TRUE
  /\ script' = NoScript
  /\ UNCHANGED <<db, store, lock, upload, backup>>

BackupInit ==
  /\ api = TRUE /\ db = {} /\ store = {} /\ lock = "none" /\ upload = NoUpload
  /\ script = Running("none", "idle", MaxScripts) /\ backup = Empty

BackupNext ==
  \/ \E h \in Objects : PutObject(h) \/ TarObject(h)
  \/ ArchiveObject \/ RetentionBegins \/ RetentionStep
  \/ StartBackup \/ StopApi("backup", "lock") \/ TakeLock \/ PgDump \/ TarEnds \/ Recheck
  \/ WriteManifest \/ StartAfterBackup \/ LoseLock \/ ScriptFails \/ Cleanup
  \/ StartRestore \/ StopApi("restore", "drop") \/ DropDatabase \/ PgRestore \/ EmptyStore
  \/ Extract \/ StartAfterRestore

BackupSpec == BackupInit /\ [][BackupNext]_backupVars

--------------------------------------------------------------------------------
(* Properties *)

\* A backup with a manifest describes one moment: every object its dump relates
\* to is in its tar, although the session holding the lock may have ended and a
\* retention pass run between the two (backup.sh, the last look at the lock).
CompleteBackupIsConsistent == backup.manifest => backup.dump \subseteq backup.tar

\* Whenever the API runs, no archived run relates to an object that is gone:
\* what a restore serves is a complete backup, and one that stopped half way
\* leaves the API down.
ServingIsWhole == api => db \subseteq store

\* However a backup ends, the lock is let go and the API runs, unless starting
\* it was the command that failed (cleanup).
BackupLeavesServing ==
  [][script.name = "backup" /\ script'.name = "none" =>
       lock' # "backup" /\ (api' \/ script.restarted)]_backupVars

\* No relation dangles, in a complete backup or under a running API.
NothingDangles == CompleteBackupIsConsistent /\ ServingIsWhole
===============================================================================
