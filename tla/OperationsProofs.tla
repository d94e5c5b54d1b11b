--------------------------- MODULE OperationsProofs ---------------------------
(***************************************************************************)
(* What operators and readers of a deployment rely on, for any objects,     *)
(* contents, requests and names and any number of scripts, signals, passes  *)
(* and migrating processes: backups, the end of a server, reads of a run,   *)
(* staging, the schema of the database.                                     *)
(***************************************************************************)
EXTENDS Backup, ServerLifecycle, RunReads, StagingMaintenance, Migrate, SequenceTheorems, TLAPS

(* Backup and restore. *)

\* The pcs at which backup.sh has stopped the API and not yet started it.
Stopped == {"lock", "dump", "tar", "recheck", "seal", "sealed"}
\* The pcs at which restore.sh has.
Restoring == {"drop", "database", "empty", "store", "start"}

BackupTypeOK ==
  /\ api \in BOOLEAN
  /\ lock \in {"none", "retention", "backup"}
  /\ script \in [name : {"none", "backup", "restore"},
                 pc : {"idle", "stop", "failed"} \cup Stopped \cup Restoring,
                 restarted : BOOLEAN, left : Nat]
  /\ backup \in [dump : SUBSET Objects, tar : SUBSET Objects, manifest : BOOLEAN]
  /\ db \subseteq Objects /\ store \subseteq Objects
  /\ upload \in Objects \cup {NoUpload}

\* The lock is a backup's own, or a retention pass's, and never beside an upload.
LockIsOwned ==
  /\ lock = "backup" => script.name = "backup" /\ ~api
  /\ script.name = "restore" => lock = "none"
  /\ upload # NoUpload => api /\ lock = "none" /\ upload \in store

\* Between its stop and its start the script has the API down.
DownWhileStopped ==
  /\ script.name = "backup" /\ script.pc \in Stopped => ~api
  /\ script.name = "restore" /\ script.pc \in Restoring => ~api /\ backup.manifest
  /\ script.name = "restore" => backup.manifest

\* Who serves, or will serve when the backup ends, serves whole runs.
WholeWhereServed == api \/ script.name = "backup" => db \subseteq store

\* While the backup holds its lock the database is what it dumped.
DumpIsCurrent ==
  script.name = "backup" =>
    /\ lock = "backup" /\ script.pc \in {"tar", "recheck"} => backup.dump = db
    /\ lock = "backup" /\ script.pc = "recheck" => store \subseteq backup.tar
    /\ script.pc = "seal" => backup.dump \subseteq backup.tar
    /\ script.pc \in {"stop", "lock", "dump", "tar", "recheck", "seal"} => ~backup.manifest

\* A restore brings back the database and then the store of its backup.
RestoredSoFar ==
  script.name = "restore" =>
    /\ script.pc \in {"empty", "store", "start"} => db = backup.dump
    /\ script.pc = "start" => store = backup.tar

BackupInv ==
  /\ BackupTypeOK /\ LockIsOwned /\ DownWhileStopped /\ WholeWhereServed
  /\ DumpIsCurrent /\ RestoredSoFar /\ CompleteBackupIsConsistent

\* One step of the server, of retention or of a script keeps the invariant: the
\* last look at the lock is what makes DumpIsCurrent carry over to the manifest.
LEMMA BackupStep == BackupInv /\ [BackupNext]_backupVars => BackupInv'
<1> SUFFICES ASSUME BackupInv, [BackupNext]_backupVars PROVE BackupInv'
  OBVIOUS
<1> USE DEF BackupInv, BackupTypeOK, Stopped, Restoring, LockIsOwned, DownWhileStopped, WholeWhereServed,
            DumpIsCurrent, RestoredSoFar, CompleteBackupIsConsistent, NoUpload, Running, NoScript, Empty, At, Go
<1>1. ASSUME NEW h \in Objects, PutObject(h) PROVE BackupInv'
  BY <1>1 DEF PutObject
<1>2. ASSUME NEW h \in Objects, TarObject(h) PROVE BackupInv'
  BY <1>2 DEF TarObject
<1>3. CASE ArchiveObject
  BY <1>3 DEF ArchiveObject
<1>4. CASE RetentionBegins
  BY <1>4 DEF RetentionBegins
<1>5. CASE RetentionStep
  BY <1>5 DEF RetentionStep
<1>6. CASE StartBackup
  BY <1>6 DEF StartBackup
<1>7. CASE StopApi("backup", "lock")
  BY Zenon, <1>7 DEF StopApi
<1>8. CASE TakeLock
  BY <1>8 DEF TakeLock
<1>9. CASE PgDump
  BY <1>9 DEF PgDump
<1>10. CASE TarEnds
  BY <1>10 DEF TarEnds
<1>11. CASE Recheck
  BY <1>11 DEF Recheck, StillHeld
<1>12. CASE WriteManifest
  BY Zenon, <1>12 DEF WriteManifest
<1>13. CASE StartAfterBackup
  <2>1. /\ lock' \in {"none", "retention"} /\ UNCHANGED <<db, store, upload, backup>>
        /\ script.name = "backup" /\ script.pc = "sealed" /\ upload = NoUpload
    BY <1>13 DEF StartAfterBackup, Unlocked
  <2>2. CASE api' = TRUE /\ script' = NoScript
    BY Zenon, <2>1, <2>2
  <2>3. CASE api' = api /\ script' = [script EXCEPT !.pc = "failed", !.restarted = TRUE]
    BY Zenon, <2>1, <2>3
  <2> QED
    BY Zenon, <1>13, <2>2, <2>3 DEF StartAfterBackup
<1>14. CASE LoseLock
  BY <1>14 DEF LoseLock
<1>15. CASE ScriptFails
  BY <1>15 DEF ScriptFails
<1>16. CASE Cleanup
  BY <1>16 DEF Cleanup, Unlocked, CleanupStarts
<1>17. CASE StartRestore
  BY <1>17 DEF StartRestore, Restorable
<1>18. CASE StopApi("restore", "drop")
  BY Zenon, <1>18 DEF StopApi
<1>19. CASE DropDatabase
  BY <1>19 DEF DropDatabase
<1>20. CASE PgRestore
  BY <1>20 DEF PgRestore
<1>21. CASE EmptyStore
  BY <1>21 DEF EmptyStore
<1>22. CASE Extract
  BY <1>22 DEF Extract
<1>23. CASE StartAfterRestore
  BY <1>23 DEF StartAfterRestore
<1>24. CASE UNCHANGED backupVars
  BY <1>24 DEF backupVars
<1> QED
  BY Zenon, <1>1, <1>2, <1>3, <1>4, <1>5, <1>6, <1>7, <1>8, <1>9, <1>10, <1>11, <1>12, <1>13, <1>14, <1>15, <1>16, <1>17, <1>18, <1>19, <1>20, <1>21, <1>22, <1>23, <1>24 DEF BackupNext

\* The invariant of the deployment's data.
THEOREM BackupInvariant == BackupSpec => []BackupInv
<1>1. BackupInit => BackupInv
  BY ScriptBound DEF BackupInit, BackupInv, BackupTypeOK, LockIsOwned, DownWhileStopped, WholeWhereServed,
     DumpIsCurrent, RestoredSoFar, CompleteBackupIsConsistent, NoUpload, Running, Empty
<1> QED
  BY <1>1, BackupStep, PTL DEF BackupSpec

\* No relation dangles, in a backup that has its manifest or under a running
\* API, whatever failed on the way (backup.sh, restore.sh).
THEOREM BackupsAreConsistent == BackupSpec => []NothingDangles
<1>1. BackupInv => NothingDangles
  BY DEF BackupInv, NothingDangles, WholeWhereServed, ServingIsWhole
<1> QED
  BY <1>1, BackupInvariant, PTL

\* A backup that ends, well or badly, has let its lock go and left the API
\* running, unless starting it was what failed (cleanup).
THEOREM BackupEnds == BackupSpec => BackupLeavesServing
<1> DEFINE Leaves == script.name = "backup" /\ script'.name = "none" =>
                       lock' # "backup" /\ (api' \/ script.restarted)
<1>1. BackupInv /\ [BackupNext]_backupVars => [Leaves]_backupVars
  <2> SUFFICES ASSUME BackupInv, BackupNext, script.name = "backup", script'.name = "none"
               PROVE  lock' # "backup" /\ (api' \/ script.restarted)
    OBVIOUS
  <2>1. script \in [name : {"none", "backup", "restore"},
                    pc : {"idle", "stop", "failed"} \cup Stopped \cup Restoring,
                    restarted : BOOLEAN, left : Nat]
    BY SMTT(60) DEF BackupInv, BackupTypeOK
  <2>2. StartAfterBackup \/ Cleanup
    BY <2>1 DEF BackupNext, PutObject, TarObject, ArchiveObject, RetentionBegins, RetentionStep, StartBackup, StopApi, TakeLock,
       PgDump, TarEnds, Recheck, WriteManifest, LoseLock, ScriptFails, StartRestore, DropDatabase, PgRestore,
       EmptyStore, Extract, StartAfterRestore, At, Go, Running
  <2> QED
    BY Zenon, <2>1, <2>2 DEF StartAfterBackup, Cleanup, Unlocked, CleanupStarts, NoScript, Running, At
<1> QED
  BY <1>1, BackupInvariant, PTL DEF BackupSpec, BackupLeavesServing

-------------------------------------------------------------------------------
(* The end of a server. *)

\* While the process lives its pool is open from the start to the end of the
\* close, the listener is shut before the close goes on, and the application is
\* closed before the pool.
LifeInv ==
  /\ requests \in Nat /\ broken = 0
  /\ phase = "starting" => requests = 0 /\ ~listening /\ ~pool /\ closing = "no"
  /\ Alive /\ phase # "starting" => pool
  /\ Alive => closing \in {"no", "app", "pool"}
  /\ closing # "no" => ~listening /\ phase # "starting"
  /\ closing = "pool" => requests = 0
  /\ CleanExitMeansDrained

\* A server that exits with 0 has cut off no request: the listener was closed,
\* the requests had ended and the pool went last (lifecycle.ts, close).
THEOREM CleanExit == LifeSpec => []CleanExitMeansDrained
<1> USE DEF LifeInv, CleanExitMeansDrained, Alive
<1>1. LifeInit => LifeInv
  BY SMTT(60) DEF LifeInit
<1>2. LifeInv /\ [LifeNext]_lifeVars => LifeInv'
  <2> SUFFICES ASSUME LifeInv, [LifeNext]_lifeVars PROVE LifeInv'
    OBVIOUS
  <2>1. CASE StartFails
    BY <2>1 DEF StartFails
  <2>2. CASE Started
    BY <2>2 DEF Started, Serve, Drain
  <2>3. CASE Signal
    BY <2>3 DEF Signal, Drain
  <2>4. CASE Accept
    BY <2>4 DEF Accept
  <2>5. CASE Finish
    BY <2>5 DEF Finish
  <2>6. CASE CloseApp
    BY <2>6 DEF CloseApp, AppClosed
  <2>7. CASE EndPool
    BY <2>7 DEF EndPool, Settle
  <2>8. CASE CloseFails
    BY <2>8 DEF CloseFails, Settle
  <2>9. CASE GraceExceeded
    BY <2>9 DEF GraceExceeded, Settle
  <2>10. CASE UNCHANGED lifeVars
    BY <2>10 DEF lifeVars
  <2> QED
    BY <2>1, <2>2, <2>3, <2>4, <2>5, <2>6, <2>7, <2>8, <2>9, <2>10 DEF LifeNext
<1> QED
  BY <1>1, <1>2, PTL DEF LifeSpec

-------------------------------------------------------------------------------
(* Reads of a run. *)

\* An archived run has its lines, its relations and their objects.
ArchiveIsWhole ==
  /\ row.made => lines = row.content /\ related = Requires[row.content]
  /\ ~row.made => related = {}
  /\ related \subseteq stored

\* What the reader has of the run is of the row it read first.
OfRowRead(l, rel) == reader.read.made /\ l = reader.read.content /\ rel = Requires[reader.read.content]

ReaderOK ==
  /\ reader.pc \notin {"mismatch", "record missing"}
  /\ reader.pc \in {"lines", "blobs"} => OfRowRead(reader.snapshot.lines, reader.snapshot.related)
  /\ reader.pc = "blobs" => reader.lines = reader.read.content
  /\ reader.pc \in {"verifying", "answered"} =>
       /\ reader = [pc |-> reader.pc, read |-> reader.read, lines |-> reader.lines,
                    related |-> reader.related, verified |-> reader.verified]
       /\ OfRowRead(reader.lines, reader.related)
  /\ reader.pc = "opening" => reader.read.made /\ reader.hash \in Requires[reader.read.content]

ReaderInv == ArchiveIsWhole /\ ReaderOK

\* The archive stays whole while it is written, expired and reclaimed.
LEMMA ArchiveKeeps == ArchiveIsWhole /\ ReadsNext => ArchiveIsWhole'
<1> SUFFICES ASSUME ArchiveIsWhole, ReadsNext PROVE ArchiveIsWhole'
  OBVIOUS
<1> USE DEF ArchiveIsWhole
<1>1. ASSUME NEW c \in Sources, PublishBlobs(c) \/ ArchiveRun(c) PROVE ArchiveIsWhole'
  BY <1>1 DEF PublishBlobs, ArchiveRun, InsertLines, RelateBlobs
<1>2. CASE DeleteExpired
  BY <1>2 DEF DeleteExpired, Absent
<1>3. ASSUME NEW h \in Blobs, ReclaimBlob(h) PROVE ArchiveIsWhole'
  BY <1>3 DEF ReclaimBlob, Reclaimable
<1>4. CASE UNCHANGED <<row, lines, related, stored>>
  BY <1>4
<1> QED
  BY Zenon, <1>1, <1>2, <1>3, <1>4 DEF ReadsNext, VerifyBlob, LookUpBlob, ReadHead, ReadLines, ReadRelations,
     AllVerified, OpenBlob, NextRequest

\* A step of the reader, or of somebody else beside it, keeps what it has read.
LEMMA ReaderStep == ReaderInv /\ [ReadsNext]_readsVars => ReaderInv'
<1> SUFFICES ASSUME ReaderInv, [ReadsNext]_readsVars PROVE ReaderInv'
  OBVIOUS
<1>0. ArchiveIsWhole'
  BY Zenon, ArchiveKeeps DEF ReaderInv, ArchiveIsWhole, readsVars
<1> SUFFICES ReaderOK'
  BY <1>0 DEF ReaderInv
<1> USE DEF ReaderInv, ReaderOK, OfRowRead
<1>1. CASE UNCHANGED reader
  BY <1>1
<1>2. ASSUME NEW verify \in BOOLEAN, ReadHead(verify) PROVE ReaderOK'
  BY <1>2 DEF ReadHead, Database, ArchiveIsWhole
<1>3. CASE ReadLines
  BY <1>3 DEF ReadLines, Snapshot
<1>4. CASE ReadRelations
  BY <1>4 DEF ReadRelations, Snapshot
<1>5. ASSUME NEW h \in Blobs, VerifyBlob(h) PROVE ReaderOK'
  BY <1>5 DEF VerifyBlob
<1>6. CASE AllVerified
  BY <1>6 DEF AllVerified
<1>7. ASSUME NEW h \in Blobs, LookUpBlob(h) PROVE ReaderOK'
  BY <1>7 DEF LookUpBlob, ArchiveIsWhole
<1>8. CASE OpenBlob
  BY <1>8 DEF OpenBlob
<1>9. CASE NextRequest
  BY <1>9 DEF NextRequest
<1> QED
  BY Zenon, <1>1, <1>2, <1>3, <1>4, <1>5, <1>6, <1>7, <1>8, <1>9 DEF ReadsNext, PublishBlobs, ArchiveRun,
     DeleteExpired, ReclaimBlob, readsVars

\* A reader is told what the row it read first says, or that the run is gone:
\* nothing that is still archived is reported as missing (loadStoredRun,
\* verifyBlobs, openBlob).
THEOREM ReadersAreTold == ReadsSpec => ReadsAreTrue
<1> DEFINE Told == /\ reader'.pc \notin {"mismatch", "record missing"}
                   /\ reader'.pc = "answered" => /\ reader'.lines = reader'.read.content
                                                 /\ reader'.related = Requires[reader'.read.content]
                   /\ reader.pc # "blob missing" /\ reader'.pc = "blob missing" => row # reader.read
<1>1. ReadsInit => ReaderInv
  BY DEF ReadsInit, ReaderInv, ArchiveIsWhole, ReaderOK, OfRowRead
<1>2. ASSUME ReaderInv, ReadsNext, reader.pc # "blob missing", reader'.pc = "blob missing"
      PROVE  row # reader.read
  <2>1. OpenBlob \/ \E h \in Blobs : VerifyBlob(h)
    <3>1. CASE UNCHANGED reader
      BY Zenon, <1>2, <3>1
    <3>2. ASSUME NEW verify \in BOOLEAN, ReadHead(verify) PROVE FALSE
      BY Zenon, <1>2, <3>2 DEF ReadHead
    <3>3. ASSUME NEW h \in Blobs, LookUpBlob(h) PROVE FALSE
      BY Zenon, <1>2, <3>3 DEF LookUpBlob
    <3>4. CASE ReadLines
      BY <1>2, <3>4 DEF ReadLines
    <3>7. CASE NextRequest
      BY <1>2, <3>7 DEF NextRequest
    <3>6. CASE ReadRelations
      BY <1>2, <3>6 DEF ReadRelations
    <3>5. CASE AllVerified
      BY <1>2, <3>5 DEF AllVerified, ReaderInv, ReaderOK
    <3> QED
      BY Zenon, <1>2, <3>1, <3>2, <3>3, <3>4, <3>5, <3>6, <3>7 DEF ReadsNext, PublishBlobs, ArchiveRun, DeleteExpired, ReclaimBlob
  <2>2. CASE OpenBlob
    BY <1>2, <2>2 DEF OpenBlob, ReaderInv, ArchiveIsWhole, ReaderOK
  <2>3. ASSUME NEW h \in Blobs, VerifyBlob(h) PROVE row # reader.read
    BY <1>2, <2>3 DEF VerifyBlob, ReaderInv, ArchiveIsWhole, ReaderOK, OfRowRead
  <2> QED
    BY <2>1, <2>2, <2>3
<1>3. ReaderInv /\ ReaderInv' /\ [ReadsNext]_readsVars => [Told]_readsVars
  BY <1>2 DEF ReaderInv, ReaderOK, OfRowRead
<1> QED
  BY <1>1, <1>3, ReaderStep, PTL DEF ReadsSpec, ReadsAreTrue

-------------------------------------------------------------------------------
(* Staging. *)

StagingTypeOK ==
  /\ clock \in Nat
  /\ entry \in [Names -> {"none", "directory", "link"}] /\ mtime \in [Names -> Nat]
  /\ live \subseteq Names
  /\ cleanup \in [pc : {"pass", "ended"}, before : Nat, destructive : BOOLEAN, names : SUBSET Names,
                  entries : Seq(Names), problems : SUBSET Names, removed : SUBSET Names, truncated : BOOLEAN]

\* The instant of a pass is in the past, and no running request began before it.
InstantIsPast == cleanup.before <= clock /\ \A n \in live : cleanup.before <= mtime[n]

Lists(s, n) == \E i \in DOMAIN s : s[i] = n

Listed(n) == Lists(cleanup.entries, n)

\* Unless it says otherwise, a pass has an old directory still before it, or has
\* only listed it.
NoneIsPassedOver ==
  ~cleanup.truncated /\ cleanup.problems = {} =>
    \A n \in Names \ Foreign : entry[n] = "directory" /\ mtime[n] < cleanup.before =>
      (cleanup.pc = "pass" /\ n \in cleanup.names) \/ (~cleanup.destructive /\ Listed(n))

StagingInv == StagingTypeOK /\ InstantIsPast /\ LiveKeepsItsDirectory /\ NoneIsPassedOver

\* What Append adds to what is listed.
LEMMA AppendLists ==
  ASSUME NEW s \in Seq(Names), NEW n \in Names
  PROVE  /\ Append(s, n) \in Seq(Names)
         /\ Lists(Append(s, n), n)
         /\ \A m : Lists(s, m) => Lists(Append(s, n), m)
BY SMTT(60) DEF Lists

\* What a pass has listed stays listed when it lists one more.
LEMMA ListedStays ==
  ASSUME cleanup.entries \in Seq(Names), NEW n \in Names, cleanup'.entries = Append(cleanup.entries, n)
  PROVE  Listed(n)' /\ \A m \in Names : Listed(m) => Listed(m)'
BY AppendLists DEF Listed

\* A pass visits one name: only an old directory goes, and it is accounted for.
LEMMA VisitKeeps ==
  ASSUME StagingInv, NEW n \in Names, VisitEntry(n)
  PROVE  StagingInv'
<1> DEFINE next == [cleanup EXCEPT !.names = @ \ {n}]
<1> USE DEF StagingInv, StagingTypeOK, InstantIsPast, LiveKeepsItsDirectory, NoneIsPassedOver, Listed
<1>0. UNCHANGED <<clock, mtime, live>> /\ cleanup.pc = "pass" /\ n \in cleanup.names
  BY DEF VisitEntry
<1>1. CASE /\ n \in Foreign \/ entry[n] # "directory"
           /\ cleanup' = [next EXCEPT !.problems = @ \cup {n}]
           /\ UNCHANGED entry
  BY Zenon, <1>0, <1>1
<1>2. CASE /\ ~OldEnough(n)
           /\ cleanup' = next
           /\ UNCHANGED entry
  BY Zenon, <1>0, <1>2 DEF OldEnough
<1>3. CASE cleanup' = [cleanup EXCEPT !.names = {}, !.truncated = TRUE] /\ UNCHANGED entry
  BY Zenon, <1>0, <1>3
<1>4. CASE /\ OldEnough(n) /\ cleanup.destructive
           /\ entry' = [entry EXCEPT ![n] = "none"]
           /\ cleanup' = [next EXCEPT !.entries = Append(@, n), !.removed = @ \cup {n}]
  <2>1. /\ cleanup'.names = cleanup.names \ {n} /\ cleanup'.entries = Append(cleanup.entries, n)
        /\ cleanup'.pc = "pass" /\ cleanup'.before = cleanup.before /\ cleanup'.destructive
        /\ cleanup'.truncated = cleanup.truncated /\ cleanup'.problems = cleanup.problems
    BY <1>0, <1>4
  <2>2. StagingTypeOK'
    BY Zenon, <1>0, <1>4, AppendLists
  <2>3. n \notin live
    BY <1>4 DEF OldEnough
  <2>4. \A m \in Names : entry'[m] = IF m = n THEN "none" ELSE entry[m]
    BY <1>4
  <2>5. InstantIsPast' /\ LiveKeepsItsDirectory'
    BY Zenon, <1>0, <2>1, <2>3, <2>4
  <2>6. NoneIsPassedOver'
    <3> SUFFICES ASSUME ~cleanup.truncated, cleanup.problems = {}, NEW m \in Names \ Foreign,
                        entry'[m] = "directory", mtime[m] < cleanup.before
                 PROVE  m \in cleanup.names \ {n}
      BY Zenon, <1>0, <2>1
    <3> QED
      BY Zenon, <1>4, <2>4
  <2> QED
    BY Zenon, <2>2, <2>5, <2>6
<1>5. CASE /\ cleanup.destructive
           /\ cleanup' = [next EXCEPT !.entries = Append(@, n), !.problems = @ \cup {n}]
           /\ UNCHANGED entry
  BY Zenon, <1>0, <1>5, AppendLists
<1>6. CASE /\ ~cleanup.destructive
           /\ cleanup' = [next EXCEPT !.entries = Append(@, n)]
           /\ UNCHANGED entry
  <2>1. /\ cleanup'.names = cleanup.names \ {n} /\ cleanup'.entries = Append(cleanup.entries, n)
        /\ cleanup'.pc = "pass" /\ cleanup'.before = cleanup.before /\ ~cleanup'.destructive
        /\ cleanup'.truncated = cleanup.truncated /\ cleanup'.problems = cleanup.problems
    BY <1>0, <1>6
  <2>2. StagingTypeOK'
    BY Zenon, <1>0, <1>6, AppendLists
  <2>3. Listed(n)' /\ \A m \in Names : Listed(m) => Listed(m)'
    <3>1. cleanup.entries \in Seq(Names)
      BY Zenon
    <3> QED
      BY Zenon, <2>1, <3>1, ListedStays
  <2>5. InstantIsPast' /\ LiveKeepsItsDirectory'
    BY Zenon, <1>0, <1>6, <2>1
  <2>6. NoneIsPassedOver'
    <3> SUFFICES ASSUME ~cleanup.truncated, cleanup.problems = {}, NEW m \in Names \ Foreign,
                        entry[m] = "directory", mtime[m] < cleanup.before
                 PROVE  m \in cleanup.names \ {n} \/ Listed(m)'
      BY Zenon, <1>0, <1>6, <2>1
    <3>1. m \in cleanup.names \/ Listed(m)
      BY Zenon
    <3> QED
      BY Zenon, <2>3, <3>1
  <2> QED
    BY Zenon, <2>2, <2>5, <2>6
<1> QED
  BY Zenon, <1>1, <1>2, <1>3, <1>4, <1>5, <1>6 DEF VisitEntry

\* A cleanup removes no directory that is in use, and one that reports neither
\* truncation nor a problem has removed, or as a preview listed, every old one
\* (staging-maintenance.ts, pass).
THEOREM CleanupExact == StagingSpec => []CleanupIsExact
<1>1. StagingInit => StagingInv
  BY DEF StagingInit, StagingInv, StagingTypeOK, InstantIsPast, LiveKeepsItsDirectory, NoneIsPassedOver
<1>2. StagingInv /\ [StagingNext]_stagingVars => StagingInv'
  <2> SUFFICES ASSUME StagingInv, [StagingNext]_stagingVars PROVE StagingInv'
    OBVIOUS
  <2> USE DEF StagingInv, StagingTypeOK, InstantIsPast, LiveKeepsItsDirectory, NoneIsPassedOver, Listed
  <2>1. CASE StagingTick
    BY <2>1 DEF StagingTick
  <2>2. ASSUME NEW n \in Names, CreateUpload(n) PROVE StagingInv'
    BY <2>2 DEF CreateUpload
  <2>3. ASSUME NEW n \in Names, RemoveUpload(n) PROVE StagingInv'
    BY <2>3 DEF RemoveUpload
  <2>4. CASE KillServer
    BY <2>4 DEF KillServer
  <2>5. ASSUME NEW before \in 1 .. MaxClock, NEW d \in BOOLEAN, StartCleanup(before, d) PROVE StagingInv'
    BY <2>5 DEF StartCleanup
  <2>6. CASE EndCleanup
    BY Zenon, <2>6 DEF EndCleanup
  <2>7. CASE UNCHANGED stagingVars
    BY <2>7 DEF stagingVars
  <2> QED
    BY ZenonT(60), <2>1, <2>2, <2>3, <2>4, <2>5, <2>6, <2>7, VisitKeeps DEF StagingNext
<1>3. StagingInv => CleanupIsExact
  BY DEF StagingInv, StagingTypeOK, NoneIsPassedOver, Listed, Lists, CleanupIsExact, CleanupIsHonest
<1> QED
  BY <1>1, <1>2, <1>3, PTL DEF StagingSpec

-----------------------------------------------------------------------------
(* The schema of a database. *)

CallType ==
  [pc : {"idle", "locking", "reading", "applying", "unlocking"}, recorded : Seq(STRING),
   at : Nat, left : Nat, failed : {"no", "checksum", "collided", "statement", "lost"}]

MigrateTypeOK ==
  /\ ledger \in [made : BOOLEAN, sums : Seq(STRING)]
  /\ holds \in [Migrators -> Nat] /\ conn \in [Migrators -> {"none", "idle", "used"}]
  /\ mig \in [Migrators -> CallType]
  /\ server \in [Servers -> {"down", "serving", "refused"}]

\* A process that reads or applies holds the lock, and nobody else does.
LockIsHeld ==
  /\ \A p \in Migrators : mig[p].pc \in {"reading", "applying"} => holds[p] > 0
  /\ \A p, q \in Migrators : holds[p] > 0 /\ holds[q] > 0 => p = q

\* What a process read is what is recorded, up to what it applied itself, and as
\* far as it came the record is its own build's.
RecordIsTrue(p) ==
  /\ mig[p].at \in 1 .. Len(Code[p]) + 1
  /\ mig[p].at <= Len(mig[p].recorded) => Len(ledger.sums) = Len(mig[p].recorded)
  /\ mig[p].at > Len(mig[p].recorded) => Len(ledger.sums) = mig[p].at - 1
  /\ \A i \in 1 .. Len(mig[p].recorded) : mig[p].recorded[i] = ledger.sums[i]
  /\ \A i \in 1 .. mig[p].at - 1 : ledger.sums[i] = Code[p][i]

RecordsAreTrue == \A p \in Migrators : mig[p].pc = "applying" => RecordIsTrue(p)

\* OneHistory and ServesItsSchema, version by version.
Begins(p) ==
  Len(ledger.sums) <= Len(Code[p]) /\ \A i \in 1 .. Len(ledger.sums) : ledger.sums[i] = Code[p][i]

Continues(s) ==
  Len(ledger.sums) >= Len(Code[s]) /\ \A i \in 1 .. Len(Code[s]) : ledger.sums[i] = Code[s][i]

Histories ==
  /\ \E p \in Migrators : Begins(p)
  /\ \A s \in Servers : server[s] = "serving" => Continues(s)

MigrateInv == MigrateTypeOK /\ LockIsHeld /\ RecordsAreTrue /\ Histories /\ NeverCollides

--------------------------------------------------------------------------------
(* The steps *)

\* Process p's call becomes c.
Becomes(p, c) == mig' = [mig EXCEPT ![p] = c] /\ c \in CallType /\ c.failed # "collided"

\* What the call of a process becomes when a call ends.
LEMMA EndedCall == ASSUME MigrateInv, NEW p \in Migrators, mig' = Ended(p)
                   PROVE  \E c : Becomes(p, c) /\ c.pc = "idle"
  <1> DEFINE e(r, l) == [pc |-> "idle", recorded |-> r, at |-> 0, left |-> l, failed |-> "no"]
  <1>1. \A r \in Seq(STRING), l \in Nat : e(r, l) \in CallType
    BY DEF CallType
  <1>2. <<>> \in Seq(STRING) /\ mig[p].left \in Nat
    BY EmptySeq DEF MigrateInv, MigrateTypeOK, CallType
  <1>3. mig' = [mig EXCEPT ![p] = e(<<>>, mig[p].left)]
    BY DEF Ended
  <1>4. e(<<>>, mig[p].left) \in CallType
    BY Zenon, <1>1, <1>2
  <1>5. e(<<>>, mig[p].left).pc = "idle" /\ e(<<>>, mig[p].left).failed # "collided"
    OBVIOUS
  <1> HIDE DEF e
  <1> QED BY Zenon, <1>3, <1>4, <1>5 DEF Becomes

\* A migration is applied by a process whose record is true: the version is not
\* recorded yet, and it follows the ones that are.
LEMMA ApplySteps ==
    ASSUME MigrateInv, NEW p \in Migrators, Apply(p)
    PROVE  /\ Len(ledger.sums) = mig[p].at - 1 /\ mig[p].at \in 1 .. Len(Code[p])
           /\ \/ ledger' = ledger /\ mig' = [mig EXCEPT ![p].pc = "unlocking", ![p].failed = "statement"]
              \/ /\ ledger' = [ledger EXCEPT !.sums = Append(@, Code[p][mig[p].at])]
                 /\ mig' = [mig EXCEPT ![p].at = @ + 1]
           /\ UNCHANGED <<holds, conn, server>>
  <1>1. mig[p].pc = "applying" /\ RecordIsTrue(p) /\ mig[p].at > Len(mig[p].recorded) /\ mig[p].at <= Len(Code[p])
    BY DEF Apply, MigrateInv, RecordsAreTrue
  <1>2. Len(Code[p]) \in Nat /\ Len(ledger.sums) \in Nat
    BY Callers, LenProperties DEF MigrateInv, MigrateTypeOK
  <1>3. Len(ledger.sums) = mig[p].at - 1 /\ mig[p].at \in 1 .. Len(Code[p])
    BY <1>1, <1>2 DEF RecordIsTrue
  <1>4. ~(Len(ledger.sums) >= mig[p].at)
    BY <1>2, <1>3
  <1> QED BY Zenon, <1>3, <1>4 DEF Apply

\* What Connect makes of the call.
LEMMA ConnectCall == ASSUME MigrateInv, NEW p \in Migrators, Connect(p)
  PROVE \E c : Becomes(p, c) /\ c.pc = "locking"
  <1> DEFINE c == [mig[p] EXCEPT !.pc = "locking", !.left = mig[p].left - 1]
  <1>1. mig[p] \in CallType /\ mig[p].failed # "collided"
    BY DEF MigrateInv, MigrateTypeOK, NeverCollides
  <1>2. mig' = [mig EXCEPT ![p] = c]
    BY Zenon DEF Connect, MigrateInv, MigrateTypeOK
  <1>3. mig[p].left - 1 \in Nat
    BY <1>1 DEF CallType, Connect, MigrateInv, MigrateTypeOK
  <1>4. c \in CallType /\ c.failed # "collided" /\ c.pc = "locking"
    BY Zenon, <1>1, <1>3 DEF CallType
  <1> QED BY Zenon, <1>2, <1>4 DEF Becomes

\* What Lock makes of the call.
LEMMA LockCall == ASSUME MigrateInv, NEW p \in Migrators, Lock(p)
  PROVE \E c : Becomes(p, c) /\ c.pc = "reading"
  <1> DEFINE c == [mig[p] EXCEPT !.pc = "reading"]
  <1>1. mig[p] \in CallType /\ mig[p].failed # "collided"
    BY DEF MigrateInv, MigrateTypeOK, NeverCollides
  <1>2. mig' = [mig EXCEPT ![p] = c]
    BY Zenon DEF Lock, MigrateInv, MigrateTypeOK
  <1>4. c \in CallType /\ c.failed # "collided" /\ c.pc = "reading"
    BY <1>1 DEF CallType
  <1> QED BY Zenon, <1>2, <1>4 DEF Becomes

\* What ReadLedger makes of the call.
LEMMA ReadLedgerCall == ASSUME MigrateInv, NEW p \in Migrators, ReadLedger(p)
  PROVE \E c : Becomes(p, c) /\ c.pc = "applying" /\ c.recorded = ledger.sums /\ c.at = 1
  <1> DEFINE c == [mig[p] EXCEPT !.pc = "applying", !.recorded = ledger.sums, !.at = 1]
  <1>1. mig[p] \in CallType /\ mig[p].failed # "collided"
    BY DEF MigrateInv, MigrateTypeOK, NeverCollides
  <1>2. mig' = [mig EXCEPT ![p] = c]
    BY Zenon DEF ReadLedger, MigrateInv, MigrateTypeOK
  <1>3. ledger.sums \in Seq(STRING)
    BY <1>1 DEF CallType, ReadLedger, MigrateInv, MigrateTypeOK
  <1>4. c \in CallType /\ c.failed # "collided" /\ c.pc = "applying" /\ c.recorded = ledger.sums /\ c.at = 1
    BY Zenon, <1>1, <1>3 DEF CallType
  <1> QED BY Zenon, <1>2, <1>4 DEF Becomes

\* What Applied makes of the call.
LEMMA AppliedCall == ASSUME MigrateInv, NEW p \in Migrators, Applied(p)
  PROVE \E c : Becomes(p, c) /\ c.pc = "unlocking"
  <1> DEFINE c == [mig[p] EXCEPT !.pc = "unlocking"]
  <1>1. mig[p] \in CallType /\ mig[p].failed # "collided"
    BY DEF MigrateInv, MigrateTypeOK, NeverCollides
  <1>2. mig' = [mig EXCEPT ![p] = c]
    BY Zenon DEF Applied, MigrateInv, MigrateTypeOK
  <1>4. c \in CallType /\ c.failed # "collided" /\ c.pc = "unlocking"
    BY <1>1 DEF CallType
  <1> QED BY Zenon, <1>2, <1>4 DEF Becomes

\* What LoseSession makes of the call.
LEMMA LoseSessionCall == ASSUME MigrateInv, NEW p \in Migrators, LoseSession(p)
  PROVE \E c : Becomes(p, c) /\ c.pc = "unlocking"
  <1> DEFINE c == [mig[p] EXCEPT !.pc = "unlocking", !.failed = "lost"]
  <1>1. mig[p] \in CallType /\ mig[p].failed # "collided"
    BY DEF MigrateInv, MigrateTypeOK, NeverCollides
  <1>2. mig' = [mig EXCEPT ![p] = c]
    BY Zenon DEF LoseSession, MigrateInv, MigrateTypeOK
  <1>4. c \in CallType /\ c.failed # "collided" /\ c.pc = "unlocking"
    BY Zenon, <1>1 DEF CallType
  <1> QED BY Zenon, <1>2, <1>4 DEF Becomes

\* What Skip makes of the call: the next version, if this one matches.
LEMMA SkipCall == ASSUME MigrateInv, NEW p \in Migrators, Skip(p)
  PROVE \E c : /\ Becomes(p, c)
               /\ \/ c.pc = "unlocking"
                  \/ /\ c.pc = "applying" /\ c.recorded = mig[p].recorded /\ c.at = mig[p].at + 1
                     /\ Matches(p, mig[p].at)
  <1> DEFINE c == [mig[p] EXCEPT !.at = mig[p].at + 1]
             d == [mig[p] EXCEPT !.pc = "unlocking", !.failed = "checksum"]
  <1>1. mig[p] \in CallType /\ mig[p].failed # "collided" /\ mig[p].pc = "applying"
    BY DEF Skip, MigrateInv, MigrateTypeOK, NeverCollides
  <1>2. CASE Matches(p, mig[p].at)
    <2>1. mig' = [mig EXCEPT ![p] = c]
      BY Zenon, <1>2 DEF Skip, MigrateInv, MigrateTypeOK
    <2>2. mig[p].at + 1 \in Nat
      BY <1>1 DEF CallType
    <2>3. c \in CallType /\ c.failed # "collided" /\ c.pc = "applying" /\ c.recorded = mig[p].recorded /\ c.at = mig[p].at + 1
      BY <1>1, <2>2 DEF CallType
    <2> QED BY Zenon, <1>2, <2>1, <2>3 DEF Becomes
  <1>3. CASE ~Matches(p, mig[p].at)
    <2>1. mig' = [mig EXCEPT ![p] = d]
      BY Zenon, <1>3 DEF Skip, MigrateInv, MigrateTypeOK
    <2>2. d \in CallType /\ d.failed # "collided" /\ d.pc = "unlocking"
      BY Zenon, <1>1 DEF CallType
    <2> QED BY Zenon, <2>1, <2>2 DEF Becomes
  <1> QED BY <1>2, <1>3

\* What Apply makes of the call and of the ledger: one more version, or nothing.
LEMMA ApplyCall == ASSUME MigrateInv, NEW p \in Migrators, Apply(p)
  PROVE \E c : /\ Becomes(p, c)
               /\ \/ c.pc = "unlocking" /\ ledger' = ledger
                  \/ /\ c.pc = "applying" /\ c.recorded = mig[p].recorded /\ c.at = mig[p].at + 1
                     /\ ledger' = [ledger EXCEPT !.sums = Append(ledger.sums, Code[p][mig[p].at])]
  <1> DEFINE c == [mig[p] EXCEPT !.at = mig[p].at + 1]
             d == [mig[p] EXCEPT !.pc = "unlocking", !.failed = "statement"]
  <1>1. mig[p] \in CallType /\ mig[p].failed # "collided" /\ mig[p].pc = "applying"
    BY DEF Apply, MigrateInv, MigrateTypeOK, NeverCollides
  <1>2. CASE /\ ledger' = [ledger EXCEPT !.sums = Append(@, Code[p][mig[p].at])]
             /\ mig' = [mig EXCEPT ![p].at = @ + 1]
    <2>1. mig' = [mig EXCEPT ![p] = c]
      BY Zenon, <1>2 DEF MigrateInv, MigrateTypeOK
    <2>2. mig[p].at + 1 \in Nat
      BY <1>1 DEF CallType
    <2>3. c \in CallType /\ c.failed # "collided" /\ c.pc = "applying" /\ c.recorded = mig[p].recorded /\ c.at = mig[p].at + 1
      BY <1>1, <2>2 DEF CallType
    <2> QED BY Zenon, <1>2, <2>1, <2>3 DEF Becomes
  <1>3. CASE ledger' = ledger /\ mig' = [mig EXCEPT ![p].pc = "unlocking", ![p].failed = "statement"]
    <2>1. mig' = [mig EXCEPT ![p] = d]
      BY Zenon, <1>3 DEF MigrateInv, MigrateTypeOK
    <2>2. d \in CallType /\ d.failed # "collided" /\ d.pc = "unlocking"
      BY Zenon, <1>1 DEF CallType
    <2> QED BY Zenon, <1>3, <2>1, <2>2 DEF Becomes
  <1> QED BY <1>2, <1>3, ApplySteps

\* A migrating process moves its own call, and of the shared state only what its
\* step is for.
ProcessStep(p) == MigrateStep(p) \/ LockFails(p) \/ LoseSession(p)

\* Every step of a process moves its call to one that did not collide.
LEMMA CallMoves == ASSUME MigrateInv, NEW p \in Migrators, ProcessStep(p)
                   PROVE  server' = server /\ \E c : Becomes(p, c)
  <1>1. server' = server
    BY Zenon DEF ProcessStep, MigrateStep, Connect, Lock, LockFails, ReadLedger, Skip, Apply, Applied, Unlock, LoseSession
  <1>2. CASE LockFails(p) \/ Unlock(p)
    BY <1>2, EndedCall DEF LockFails, Unlock
  <1> QED BY Zenon, <1>1, <1>2, ConnectCall, LockCall, ReadLedgerCall, SkipCall, ApplyCall, AppliedCall, LoseSessionCall
          DEF ProcessStep, MigrateStep

\* The ledger changes only by Apply, by the process that holds the lock, and then
\* grows by the next version of its build.
LEMMA LedgerMoves == ASSUME MigrateInv, NEW p \in Migrators, ProcessStep(p)
  PROVE /\ ledger' \in [made : BOOLEAN, sums : Seq(STRING)]
        /\ \/ ledger'.sums = ledger.sums
           \/ /\ Apply(p) /\ holds[p] > 0
              /\ Len(ledger'.sums) = Len(ledger.sums) + 1 /\ Len(ledger'.sums) = mig[p].at
              /\ \A i \in 1 .. Len(ledger.sums) : ledger'.sums[i] = ledger.sums[i]
              /\ ledger'.sums[mig[p].at] = Code[p][mig[p].at]
  <1>0. ledger \in [made : BOOLEAN, sums : Seq(STRING)]
    BY DEF MigrateInv, MigrateTypeOK
  <1>1. CASE ReadLedger(p)
    BY ZenonT(60), <1>0, <1>1 DEF ReadLedger
  <1>2. CASE Apply(p) /\ ledger' # ledger
    <2>1. /\ Len(ledger.sums) = mig[p].at - 1 /\ mig[p].at \in 1 .. Len(Code[p])
          /\ ledger' = [ledger EXCEPT !.sums = Append(@, Code[p][mig[p].at])]
      BY Zenon, <1>2, ApplySteps
    <2>2. Code[p] \in Seq(STRING) /\ Len(Code[p]) \in Nat /\ Len(ledger.sums) \in Nat
      BY <1>0, Callers, LenProperties
    <2>3. Code[p][mig[p].at] \in STRING
      BY <2>1, <2>2, ElementOfSeq
    <2> DEFINE v == Code[p][mig[p].at]
    <2>4. /\ Append(ledger.sums, v) \in Seq(STRING) /\ Len(Append(ledger.sums, v)) = Len(ledger.sums) + 1
          /\ \A i \in 1 .. Len(ledger.sums) : Append(ledger.sums, v)[i] = ledger.sums[i]
          /\ Append(ledger.sums, v)[Len(ledger.sums) + 1] = v
      BY <1>0, <2>3, AppendProperties
    <2>5. ledger'.sums = Append(ledger.sums, v) /\ ledger' \in [made : BOOLEAN, sums : Seq(STRING)]
      BY Zenon, <1>0, <2>1, <2>4
    <2>6. holds[p] > 0
      BY <1>2 DEF Apply, MigrateInv, LockIsHeld
    <2>7. Len(ledger.sums) + 1 = mig[p].at
      BY <2>1, <2>2
    <2> QED BY <1>2, <2>4, <2>5, <2>6, <2>7
  <1>3. CASE ledger' = ledger
    BY <1>0, <1>3
  <1>4. ledger' = ledger \/ ReadLedger(p) \/ Apply(p)
    BY Zenon DEF ProcessStep, MigrateStep, Connect, Lock, LockFails, Skip, Applied, Unlock, LoseSession
  <1> QED BY <1>1, <1>2, <1>3, <1>4

\* The lock: taken when nobody else holds it, kept while the call reads and
\* applies, and gone with the session.
LEMMA LockKeeps == ASSUME MigrateInv, NEW p \in Migrators, ProcessStep(p)
  PROVE /\ LockIsHeld' /\ holds' \in [Migrators -> Nat] /\ conn' \in [Migrators -> {"none", "idle", "used"}]
  <1>0. PICK c : Becomes(p, c)
    BY CallMoves
  <1>1. /\ holds \in [Migrators -> Nat] /\ conn \in [Migrators -> {"none", "idle", "used"}]
        /\ \A q \in Migrators : mig'[q] = IF q = p THEN c ELSE mig[q]
    BY SMTT(60), <1>0 DEF MigrateInv, MigrateTypeOK, Becomes
  <1>2. conn' \in [Migrators -> {"none", "idle", "used"}]
    BY <1>1 DEF ProcessStep, MigrateStep, Connect, Lock, LockFails, ReadLedger, Skip, Apply, Applied, Unlock, Release,
                LoseSession
  <1>3. CASE Lock(p)
    <2>1. holds' = [holds EXCEPT ![p] = @ + 1] /\ \A q \in Migrators \ {p} : holds[q] = 0
      BY <1>3 DEF Lock, LockFree
    <2> QED BY <1>1, <1>2, <2>1 DEF MigrateInv, LockIsHeld
  <1>4. CASE holds' = holds /\ (mig'[p].pc \in {"reading", "applying"} => mig[p].pc \in {"reading", "applying"})
    BY <1>1, <1>2, <1>4 DEF MigrateInv, LockIsHeld
  <1>5. CASE Unlock(p) \/ LoseSession(p)
    <2>1. mig'[p].pc \in {"idle", "unlocking"}
      BY <1>5, EndedCall, LoseSessionCall DEF Unlock, Becomes, MigrateInv, MigrateTypeOK
    <2>2. \E n \in Nat : holds' = [holds EXCEPT ![p] = n] /\ n <= holds[p]
      BY <1>1, <1>5 DEF Unlock, Release, LoseSession
    <2> QED BY SMTT(60), <1>1, <1>2, <2>1, <2>2 DEF MigrateInv, LockIsHeld
  <1>6. CASE Connect(p) \/ LockFails(p) \/ ReadLedger(p) \/ Skip(p) \/ Apply(p) \/ Applied(p)
    <2>1. holds' = holds
      BY <1>6 DEF Connect, LockFails, ReadLedger, Skip, Apply, Applied
    <2>2. CASE Connect(p)
      BY <1>4, <2>1, <2>2, ConnectCall DEF Becomes, MigrateInv, MigrateTypeOK
    <2>3. CASE LockFails(p)
      BY <1>4, <2>1, <2>3, EndedCall DEF LockFails, Becomes, MigrateInv, MigrateTypeOK
    <2>4. CASE ReadLedger(p) \/ Skip(p) \/ Apply(p) \/ Applied(p)
      BY <1>4, <2>1, <2>4 DEF ReadLedger, Skip, Apply, Applied
    <2> QED BY SMTT(60), <1>6, <2>2, <2>3, <2>4
  <1> QED BY <1>3, <1>5, <1>6 DEF ProcessStep, MigrateStep

\* A record that was read under the lock stays true until it is acted on.
LEMMA RecordsKeep == ASSUME MigrateInv, NEW p \in Migrators, ProcessStep(p) PROVE RecordsAreTrue'
  <1> SUFFICES ASSUME NEW q \in Migrators, mig'[q].pc = "applying" PROVE RecordIsTrue(q)'
    BY DEF RecordsAreTrue
  <1>0. mig \in [Migrators -> CallType]
    BY DEF MigrateInv, MigrateTypeOK
  <1>1. CASE q # p
    <2>1. mig'[q] = mig[q]
      BY <1>0, <1>1, CallMoves DEF Becomes
    <2>2. RecordIsTrue(q) /\ holds[q] > 0
      BY SMTT(60), <2>1 DEF MigrateInv, RecordsAreTrue, LockIsHeld
    <2>3. ledger'.sums = ledger.sums
      BY SMTT(60), <1>1, <2>2, LedgerMoves DEF MigrateInv, LockIsHeld
    <2> QED BY <2>1, <2>2, <2>3 DEF RecordIsTrue
  <1>2. CASE q = p /\ ReadLedger(p)
    <2>1. mig'[p].recorded = ledger.sums /\ mig'[p].at = 1 /\ ledger'.sums = ledger.sums
      BY ZenonT(60), <1>0, <1>2, ReadLedgerCall DEF Becomes, ReadLedger, MigrateInv, MigrateTypeOK
    <2>2. Len(Code[p]) \in Nat /\ Len(ledger.sums) \in Nat
      BY Callers, LenProperties DEF MigrateInv, MigrateTypeOK
    <2> QED BY SMTT(30), <1>2, <2>1, <2>2 DEF RecordIsTrue
  <1>3. CASE q = p /\ Skip(p)
    <2>1. /\ mig'[p].recorded = mig[p].recorded /\ mig'[p].at = mig[p].at + 1 /\ ledger'.sums = ledger.sums
          /\ mig[p].recorded[mig[p].at] = Code[p][mig[p].at]
      BY ZenonT(60), <1>0, <1>3, SkipCall DEF Becomes, Skip, Matches
    <2>2. /\ RecordIsTrue(p) /\ mig[p].at <= Len(Code[p]) /\ mig[p].at <= Len(mig[p].recorded)
          /\ mig[p].at \in Nat /\ mig[p].recorded \in Seq(STRING)
      BY <1>0, <1>3 DEF Skip, MigrateInv, RecordsAreTrue, CallType
    <2>3. Len(Code[p]) \in Nat /\ Len(ledger.sums) \in Nat /\ Len(mig[p].recorded) \in Nat
      BY SMTT(60), <2>2, Callers, LenProperties DEF MigrateInv, MigrateTypeOK
    <2>4. /\ mig'[p].at \in 1 .. Len(Code[p]) + 1
          /\ Len(ledger.sums) = Len(mig[p].recorded)
          /\ mig'[p].at > Len(mig[p].recorded) => Len(ledger.sums) = mig'[p].at - 1
      BY SMTT(60), <2>1, <2>2, <2>3 DEF RecordIsTrue
    <2>5. \A i \in 1 .. Len(mig[p].recorded) : mig[p].recorded[i] = ledger.sums[i]
      BY SMTT(60), <2>2 DEF RecordIsTrue
    <2>6. \A i \in 1 .. mig'[p].at - 1 : ledger.sums[i] = Code[p][i]
      <3> SUFFICES ASSUME NEW i \in 1 .. mig[p].at PROVE ledger.sums[i] = Code[p][i]
        BY <2>1, <2>2
      <3>1. CASE i = mig[p].at
        BY <2>1, <2>2, <2>3, <2>5, <3>1
      <3>2. CASE i \in 1 .. mig[p].at - 1
        BY <2>2, <3>2 DEF RecordIsTrue
      <3> QED BY SMTT(60), <2>2, <3>1, <3>2
    <2> QED BY <1>3, <2>1, <2>4, <2>5, <2>6 DEF RecordIsTrue
  <1>4. CASE q = p /\ Apply(p)
    <2>1. /\ mig'[p].recorded = mig[p].recorded /\ mig'[p].at = mig[p].at + 1
          /\ ledger' = [ledger EXCEPT !.sums = Append(ledger.sums, Code[p][mig[p].at])]
      BY <1>0, <1>4, ApplyCall DEF Becomes
    <2>2. /\ RecordIsTrue(p) /\ mig[p].at > Len(mig[p].recorded)
          /\ mig[p].at \in Nat /\ mig[p].recorded \in Seq(STRING)
      BY <1>0, <1>4 DEF Apply, MigrateInv, RecordsAreTrue, CallType
    <2>3. Len(Code[p]) \in Nat /\ Len(ledger.sums) \in Nat /\ Len(mig[p].recorded) \in Nat
      BY <2>2, Callers, LenProperties DEF MigrateInv, MigrateTypeOK
    <2>4. Len(ledger.sums) = mig[p].at - 1 /\ mig[p].at \in 1 .. Len(Code[p])
      BY Zenon, <1>4, ApplySteps
    <2>5. ledger'.sums = Append(ledger.sums, Code[p][mig[p].at])
      BY <2>1 DEF MigrateInv, MigrateTypeOK
    <2>6. Code[p][mig[p].at] \in STRING
      BY <2>4, Callers, ElementOfSeq
    <2>7. /\ Len(ledger'.sums) = mig[p].at
          /\ \A i \in 1 .. Len(ledger.sums) : ledger'.sums[i] = ledger.sums[i]
          /\ ledger'.sums[mig[p].at] = Code[p][mig[p].at]
      BY SMTT(60), <2>3, <2>4, <2>5, <2>6, AppendProperties DEF MigrateInv, MigrateTypeOK
    <2>n. mig'[p].at = mig[p].at + 1 /\ mig[p].at \in Nat /\ mig[p].at > Len(mig[p].recorded)
      BY <2>1, <2>2
    <2>8. /\ mig'[p].at \in 1 .. Len(Code[p]) + 1 /\ Len(ledger'.sums) = mig'[p].at - 1
          /\ ~(mig'[p].at <= Len(mig[p].recorded))
      BY SMTT(60), <2>n, <2>3, <2>4, <2>7
    <2>9. \A i \in 1 .. Len(mig[p].recorded) : mig[p].recorded[i] = ledger'.sums[i]
      BY SMTT(60), <2>2, <2>3, <2>4, <2>7 DEF RecordIsTrue
    <2>10. \A i \in 1 .. mig'[p].at - 1 : ledger'.sums[i] = Code[p][i]
      <3> SUFFICES ASSUME NEW i \in 1 .. mig[p].at PROVE ledger'.sums[i] = Code[p][i]
        BY <2>n
      <3>1. CASE i = mig[p].at
        BY <2>7, <3>1
      <3>2. CASE i \in 1 .. mig[p].at - 1
        <4>1. ledger.sums[i] = Code[p][i]
          BY <2>2, <3>2 DEF RecordIsTrue
        <4>2. ledger'.sums[i] = ledger.sums[i]
          BY SMTT(30), <2>4, <2>7, <3>2
        <4> QED BY <4>1, <4>2
      <3> QED BY <2>2, <3>1, <3>2
    <2>11. /\ mig'[p].at \in 1 .. Len(Code[p]) + 1
           /\ mig'[p].at <= Len(mig'[p].recorded) => Len(ledger'.sums) = Len(mig'[p].recorded)
           /\ mig'[p].at > Len(mig'[p].recorded) => Len(ledger'.sums) = mig'[p].at - 1
           /\ \A i \in 1 .. Len(mig'[p].recorded) : mig'[p].recorded[i] = ledger'.sums[i]
           /\ \A i \in 1 .. mig'[p].at - 1 : ledger'.sums[i] = Code[p][i]
      BY Zenon, <2>1, <2>8, <2>9, <2>10
    <2> QED BY Zenon, <1>4, <2>11 DEF RecordIsTrue
  <1>5. q = p => ReadLedger(p) \/ Skip(p) \/ Apply(p)
    BY <1>0, ConnectCall, LockCall, EndedCall, AppliedCall, LoseSessionCall
       DEF ProcessStep, MigrateStep, LockFails, Unlock, Becomes
  <1> QED BY <1>1, <1>2, <1>3, <1>4, <1>5

\* The ledger begins one build's list and continues every serving build's.
LEMMA HistoriesKeep == ASSUME MigrateInv, NEW p \in Migrators, ProcessStep(p) PROVE Histories'
  <1>0. server' = server /\ Len(ledger.sums) \in Nat /\ \A q \in Migrators \cup Servers : Len(Code[q]) \in Nat
    BY SMTT(60), CallMoves, Callers, LenProperties DEF MigrateInv, MigrateTypeOK
  <1>1. CASE ledger'.sums = ledger.sums
    BY <1>0, <1>1 DEF MigrateInv, Histories, Begins, Continues
  <1>2. CASE ledger'.sums # ledger.sums
    <2>1. /\ Apply(p) /\ Len(ledger'.sums) = Len(ledger.sums) + 1 /\ Len(ledger'.sums) = mig[p].at
          /\ \A i \in 1 .. Len(ledger.sums) : ledger'.sums[i] = ledger.sums[i]
          /\ ledger'.sums[mig[p].at] = Code[p][mig[p].at]
      BY SMTT(30), <1>2, LedgerMoves
    <2>2. mig[p].at \in 1 .. Len(Code[p]) /\ \A i \in 1 .. mig[p].at - 1 : ledger.sums[i] = Code[p][i]
      BY Zenon, <2>1, ApplySteps DEF Apply, MigrateInv, RecordsAreTrue, RecordIsTrue
    <2>3. Begins(p)'
      <3> DEFINE n == mig[p].at
                 m == Len(ledger.sums)
                 new == ledger'.sums
      <3>1. /\ m \in Nat /\ n = m + 1 /\ Len(new) = n /\ n \in 1 .. Len(Code[p]) /\ Len(Code[p]) \in Nat
            /\ \A i \in 1 .. m : new[i] = ledger.sums[i]
            /\ \A i \in 1 .. n - 1 : ledger.sums[i] = Code[p][i]
            /\ new[n] = Code[p][n]
        BY Zenon, <1>0, <2>1, <2>2
      <3> HIDE DEF n, m, new
      <3>2. Len(new) <= Len(Code[p])
        BY <3>1
      <3>3. \A i \in 1 .. Len(new) : (i \in 1 .. m /\ i \in 1 .. n - 1) \/ i = n
        BY <3>1
      <3>4. \A i \in 1 .. Len(new) : new[i] = Code[p][i]
        BY Zenon, <3>1, <3>3
      <3> QED BY Zenon, <3>2, <3>4 DEF Begins, new
    <2>4. ASSUME NEW s \in Servers, server'[s] = "serving" PROVE Continues(s)'
      BY SMTT(60), <1>0, <2>1, <2>4 DEF MigrateInv, Histories, Continues
    <2> QED BY <2>3, <2>4 DEF Histories
  <1> QED BY <1>1, <1>2

\* Servers look at the ledger and change nothing of it.
LEMMA ServersKeep == ASSUME MigrateInv, NEW s \in Servers, StartServer(s) \/ StopServer(s) PROVE MigrateInv'
  <1>1. UNCHANGED <<ledger, holds, conn, mig>>
    BY DEF StartServer, StopServer
  <1>2. server' \in [Servers -> {"down", "serving", "refused"}]
    BY SMTT(60) DEF StartServer, StopServer, MigrateInv, MigrateTypeOK
  <1>3. MigrateTypeOK'
    BY <1>1, <1>2 DEF MigrateInv, MigrateTypeOK
  <1>4. LockIsHeld' /\ RecordsAreTrue' /\ NeverCollides'
    BY <1>1 DEF MigrateInv, LockIsHeld, RecordsAreTrue, RecordIsTrue, NeverCollides
  <1>5. ASSUME NEW t \in Servers, server'[t] = "serving" PROVE Continues(t)
    <2>1. CASE server[t] = "serving"
      BY <2>1 DEF MigrateInv, Histories
    <2>2. CASE server[t] # "serving"
      <3>1. ledger.sums = Code[t]
        BY <1>5, <2>2 DEF StartServer, StopServer, SchemaCurrent, MigrateInv, MigrateTypeOK
      <3>2. Len(Code[t]) \in Nat
        BY Callers, LenProperties
      <3> QED BY <3>1, <3>2 DEF Continues
    <2> QED BY <2>1, <2>2
  <1>6. Histories'
    BY <1>1, <1>5 DEF MigrateInv, Histories, Begins, Continues
  <1> QED BY <1>3, <1>4, <1>6 DEF MigrateInv

--------------------------------------------------------------------------------
\* The invariant of the migrations: one holder of the lock, whose record of what
\* is applied is true for as long as it acts on it.
THEOREM MigrateInvariant == MigrateSpec => []MigrateInv
  <1>1. MigrateInit => MigrateInv
    <2> SUFFICES ASSUME MigrateInit PROVE MigrateInv
      OBVIOUS
    <2> DEFINE e(p) == [pc |-> "idle", recorded |-> <<>>, at |-> 0, left |-> Calls[p], failed |-> "no"]
    <2>1. ASSUME NEW p \in Migrators PROVE e(p) \in CallType
      <3>1. <<>> \in Seq(STRING) /\ Calls[p] \in Nat
        BY EmptySeq, Callers
      <3>2. \A r \in Seq(STRING), l \in Nat :
              [pc |-> "idle", recorded |-> r, at |-> 0, left |-> l, failed |-> "no"] \in CallType
        BY DEF CallType
      <3> QED BY Zenon, <3>1, <3>2
    <2>2. mig \in [Migrators -> CallType] /\ \A p \in Migrators : mig[p].pc = "idle" /\ mig[p].failed = "no"
      BY <2>1 DEF MigrateInit
    <2>3. ledger.sums = <<>> /\ <<>> \in Seq(STRING) /\ Len(ledger.sums) = 0
      BY SMTT(60), EmptySeq DEF MigrateInit
    <2>4. MigrateTypeOK
      BY SMTT(60), <2>2, <2>3 DEF MigrateInit, MigrateTypeOK
    <2>5. LockIsHeld /\ RecordsAreTrue /\ NeverCollides
      BY SMTT(60), <2>2 DEF MigrateInit, LockIsHeld, RecordsAreTrue, NeverCollides
    <2>6. Histories
      <3>1. \A p \in Migrators : Len(Code[p]) \in Nat
        BY Callers, LenProperties
      <3> QED BY <2>3, <3>1, Callers DEF MigrateInit, Histories, Begins
    <2> QED BY <2>4, <2>5, <2>6 DEF MigrateInv
  <1>2. MigrateInv /\ [MigrateNext]_migrateVars => MigrateInv'
    <2>1. ASSUME MigrateInv, NEW p \in Migrators, ProcessStep(p) PROVE MigrateInv'
      <3>1. mig' \in [Migrators -> CallType] /\ NeverCollides' /\ server' = server
        BY ZenonT(60), <2>1, CallMoves DEF Becomes, MigrateInv, MigrateTypeOK, NeverCollides
      <3>2. MigrateTypeOK'
        BY SMTT(60), <2>1, <3>1, LedgerMoves, LockKeeps DEF MigrateInv, MigrateTypeOK
      <3> QED BY <2>1, <3>1, <3>2, LockKeeps, RecordsKeep, HistoriesKeep DEF MigrateInv
    <2>2. ASSUME MigrateInv, UNCHANGED migrateVars PROVE MigrateInv'
      BY <2>2 DEF MigrateInv, MigrateTypeOK, LockIsHeld, RecordsAreTrue, RecordIsTrue, Histories, Begins, Continues,
                  NeverCollides, migrateVars
    <2> QED BY Zenon, <2>1, <2>2, ServersKeep DEF MigrateNext, ProcessStep
  <1> QED BY <1>1, <1>2, PTL DEF MigrateSpec

\* Two migrating processes never apply the same version, however their calls
\* interleave, fail or lose their sessions (migrate.ts reads under the lock).
THEOREM NoCollision == MigrateSpec => []NeverCollides
  <1>1. MigrateInv => NeverCollides
    BY DEF MigrateInv
  <1> QED BY <1>1, MigrateInvariant, PTL

\* The ledger is at all times the beginning of one build's list of migrations.
THEOREM SingleHistory == MigrateSpec => []OneHistory
  <1>1. MigrateInv => OneHistory
    <2> SUFFICES ASSUME MigrateInv, NEW p \in Migrators, Begins(p) PROVE OneHistory
      BY DEF MigrateInv, Histories
    <2>1. Code[p] \in Seq(STRING) /\ Len(Code[p]) \in Nat /\ ledger.sums \in Seq(STRING) /\ Len(ledger.sums) \in Nat
      BY SMTT(60), Callers, LenProperties DEF MigrateInv, MigrateTypeOK
    <2> DEFINE n == Len(ledger.sums)
    <2>2. \A i \in 1 .. n : Code[p][i] \in STRING
      BY SMTT(60), <2>1, ElementOfSeq DEF Begins
    <2>3. /\ SubSeq(Code[p], 1, n) \in Seq(STRING) /\ Len(SubSeq(Code[p], 1, n)) = n
          /\ \A i \in 1 .. n : SubSeq(Code[p], 1, n)[i] = Code[p][i]
      BY <2>1, <2>2, SubSeqProperties
    <2>4. ledger.sums = SubSeq(Code[p], 1, n)
      BY <2>1, <2>3, SeqEqual DEF Begins
    <2> QED BY <2>4 DEF OneHistory, Begins
  <1> QED BY <1>1, MigrateInvariant, PTL

\* A server that serves has all of its build's migrations under it, however long
\* ago it looked and whoever migrated since.
THEOREM ServingSchema == MigrateSpec => []ServesItsSchema
  <1>1. MigrateInv => ServesItsSchema
    <2> SUFFICES ASSUME MigrateInv, NEW s \in Servers, Continues(s)
                 PROVE  Len(ledger.sums) >= Len(Code[s]) /\ SubSeq(ledger.sums, 1, Len(Code[s])) = Code[s]
      BY DEF MigrateInv, Histories, ServesItsSchema
    <2>1. Code[s] \in Seq(STRING) /\ Len(Code[s]) \in Nat /\ ledger.sums \in Seq(STRING) /\ Len(ledger.sums) \in Nat
      BY Callers, LenProperties DEF MigrateInv, MigrateTypeOK
    <2> DEFINE n == Len(Code[s])
    <2>2. \A i \in 1 .. n : ledger.sums[i] \in STRING
      BY <2>1, ElementOfSeq DEF Continues
    <2>3. /\ SubSeq(ledger.sums, 1, n) \in Seq(STRING) /\ Len(SubSeq(ledger.sums, 1, n)) = n
          /\ \A i \in 1 .. n : SubSeq(ledger.sums, 1, n)[i] = ledger.sums[i]
      BY <2>1, <2>2, SubSeqProperties
    <2>4. SubSeq(ledger.sums, 1, n) = Code[s]
      BY <2>1, <2>3, SeqEqual DEF Continues
    <2> QED BY <2>4 DEF Continues
  <1> QED BY <1>1, MigrateInvariant, PTL

\* The schema stays sound whoever migrates: the three of them together.
THEOREM SchemaSound == MigrateSpec => []SchemaIsSound
  BY NoCollision, SingleHistory, ServingSchema, PTL DEF SchemaIsSound
===============================================================================
