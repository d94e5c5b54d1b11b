----------------------------- MODULE RunArchive -----------------------------
(***************************************************************************)
(* The run archive: PostgreSQL rows (packages/postgres) over a content-     *)
(* addressed blob store (packages/blob-fs), written by ingestions and index *)
(* rebuilds that hold the maintenance lock shared, and reclaimed by a       *)
(* retention pass that holds it exclusively.                                *)
(*                                                                         *)
(* A row of qe_runs and everything that cascades from it is one entry of    *)
(* src, rel, expires and index.  A transaction keeps its uncommitted        *)
(* inserts to itself: until COMMIT only the locks it holds can be seen.     *)
(***************************************************************************)
EXTENDS Integers, FiniteSets

CONSTANTS
  Workers,     \* calls of persistRunDirectory or rebuildProjectIndex
  Runs,        \* run identities: a project id and a run id
  Sources,     \* physical forms of an offered run directory
  Fingerprint, \* Fingerprint[s]: the content fingerprint of source s
  Required,    \* Required[f]: the blobs content f declares
  Blobs,       \* blob hashes; their order is the hash order
  Times,       \* expiries, and the asOf of a pass
  MaxRuns,     \* runs a pass deletes at most
  MaxBlobs,    \* catalogued blobs a pass reclaims at most
  None,        \* SQL's absent row
  Stale        \* an index row of an older QUERY_INDEX_VERSION

ASSUME BlobsAreOrdered == Blobs \subseteq Nat
ASSUME TimesAreOrdered == Times \subseteq Nat
ASSUME SourcesHaveContent ==
  \A s \in Sources : Required[Fingerprint[s]] \subseteq Blobs
ASSUME NoneIsNoValue ==
  /\ None \notin Sources /\ None \notin Times /\ None \notin Workers
  /\ Stale \notin Sources /\ Stale # None
ASSUME ContentIsNotNone == \A s \in Sources : Fingerprint[s] # None
ASSUME LimitsArePositive == MaxRuns \in Nat \ {0} /\ MaxBlobs \in Nat \ {0}

VARIABLES
  sharers,    \* workers whose database session is alive and holds the lock shared
  exclusive,  \* whether the retention session holds the lock exclusively
  behind,     \* workers that asked for the lock after a pass that still waits
  src,        \* src[r]: the archived source of run r, None when r has no row
  rel,        \* rel[r]: qe_run_blobs, the blobs run r is related to
  expires,    \* expires[r]: qe_run_retention, None for a run nothing manages
  index,      \* index[r]: the source the query index was derived from
  catalog,    \* qe_blobs
  rowLock,    \* rowLock[r]: the transaction holding or inserting r's row
  blobLock,   \* blobLock[b]: the transaction inserting b's catalog row
  objects,    \* objects on the blob store's medium
  pc, job, todo, answer,       \* the workers
  mpc, asOf, picked, victims   \* the retention pass

lockVars   == <<sharers, exclusive, behind>>
rowVars    == <<src, rel, expires, index>>
txVars     == <<rowLock, blobLock>>
workerVars == <<pc, job, todo, answer>>
maintVars  == <<mpc, asOf, picked, victims>>
vars == <<lockVars, rowVars, catalog, txVars, objects, workerVars, maintVars>>

-----------------------------------------------------------------------------
(* What the code asks of the state. *)

Archived == {r \in Runs : src[r] # None}

Needs(s) == Required[Fingerprint[s]]

\* An index row answers queries when its version and fingerprint are current.
Current(r) == index[r] \notin {None, Stale} /\ Fingerprint[index[r]] = Fingerprint[src[r]]

Referenced(b) == \E r \in Runs : b \in rel[r]

\* A slip: a run nothing manages counts as expired.
ExpiredUnmanaged(t) == {r \in Archived : expires[r] # None => expires[r] <= t}

Expired(t) == {r \in Archived : expires[r] # None /\ expires[r] <= t}

\* P holds the first members of S in hash order, as a LIMIT or a byte budget
\* cuts S.
Prefix(P, S) == P \subseteq S /\ \A b \in P, c \in S \ P : b < c

\* A slip: the hashes are not sorted.
IsAny(b, S) == b \in S

\* b is the next member of S in hash order.
IsFirst(b, S) == b \in S /\ \A c \in S : b <= c

NoJob  == [run |-> None, src |-> None, exp |-> None]

-----------------------------------------------------------------------------
(* An archive may hold rows older writers left: without blob relations,     *)
(* without a retention fact, without an index or with one of an old version.*)

LegacyRow(r) ==
  \/ src[r] = None /\ rel[r] = {} /\ expires[r] = None /\ index[r] = None
  \/ /\ src[r] # None
     /\ \/ rel[r] = {}            /\ expires[r] = None /\ index[r] = None
        \/ rel[r] = Needs(src[r]) /\ expires[r] = None /\ index[r] = None
        \/ rel[r] = Needs(src[r]) /\ expires[r] # None /\ index[r] \in {None, Stale}

Init ==
  /\ sharers = {} /\ exclusive = FALSE /\ behind = {}
  /\ src \in [Runs -> Sources \cup {None}]
  /\ rel \in [Runs -> {Needs(s) : s \in Sources} \cup {{}}]
  /\ expires \in [Runs -> Times \cup {None}]
  /\ index \in [Runs -> {None, Stale}]
  /\ \A r \in Runs : LegacyRow(r)
  /\ catalog = UNION {rel[r] : r \in Runs}
  /\ objects = catalog
  /\ rowLock = [r \in Runs |-> None]
  /\ blobLock = [b \in Blobs |-> None]
  /\ pc = [w \in Workers |-> "idle"]
  /\ job = [w \in Workers |-> NoJob]
  /\ todo = [w \in Workers |-> {}]
  /\ answer = [w \in Workers |-> "none"]
  /\ mpc = "idle" /\ asOf = None /\ picked = {} /\ victims = {}

-----------------------------------------------------------------------------
(* withLock: a worker takes the lock shared, works, and gives it back.      *)
(* PostgreSQL keeps a request that conflicts with an earlier waiter behind  *)
(* that waiter.                                                             *)

Queue(w) == behind' = IF mpc = "lock" THEN behind \cup {w} ELSE behind

Alive(w) == w \in sharers

Goto(w, l) == pc' = [pc EXCEPT ![w] = l]

\* A slip: the row stays locked.
EndTxKeepingRow(w) ==
  /\ UNCHANGED rowLock
  /\ blobLock' = [b \in Blobs |-> IF blobLock[b] = w THEN None ELSE blobLock[b]]

\* Ends w's transaction, and with it every row it locked or inserted.
EndTx(w) ==
  /\ rowLock' = [r \in Runs |-> IF rowLock[r] = w THEN None ELSE rowLock[r]]
  /\ blobLock' = [b \in Blobs |-> IF blobLock[b] = w THEN None ELSE blobLock[b]]

\* persistRunDirectory with a directory that validated.  One that did not is
\* answered `rejected` before the lock, and changes nothing modelled here.
Offer(w, r, s, e) ==
  /\ pc[w] = "idle"
  /\ job' = [job EXCEPT ![w] = [run |-> r, src |-> s, exp |-> e]]
  /\ Goto(w, "lock")
  /\ Queue(w)
  /\ UNCHANGED <<sharers, exclusive, rowVars, catalog, txVars, objects, todo, answer, maintVars>>

\* rebuildProjectIndex.  A pass over several runs keeps one lease; here each of
\* its runs takes its own, which leaves retention and ingestion more room.
Rebuild(w, r) ==
  /\ pc[w] = "idle"
  /\ job' = [job EXCEPT ![w] = [run |-> r, src |-> None, exp |-> None]]
  /\ Goto(w, "lock")
  /\ Queue(w)
  /\ UNCHANGED <<sharers, exclusive, rowVars, catalog, txVars, objects, todo, answer, maintVars>>

AcquireShared(w) ==
  /\ pc[w] = "lock"
  /\ ~exclusive /\ w \notin behind
  /\ sharers' = sharers \cup {w}
  /\ Goto(w, IF job[w].src = None THEN "derive" ELSE "known")
  /\ UNCHANGED <<exclusive, behind, rowVars, catalog, txVars, objects, job, todo, answer, maintVars>>

\* releaseLock: the call ends, whether the release was proven or the
\* connection is discarded.
Release(w) ==
  /\ pc[w] = "release"
  /\ sharers' = sharers \ {w}
  /\ Goto(w, "idle")
  /\ job' = [job EXCEPT ![w] = NoJob]
  /\ todo' = [todo EXCEPT ![w] = {}]
  /\ answer' = [answer EXCEPT ![w] = "none"]
  /\ UNCHANGED <<exclusive, behind, rowVars, catalog, txVars, objects, maintVars>>

\* A step of the protected work throws: ROLLBACK, and the caller sees an error.
Fail(w) ==
  /\ pc[w] \notin {"idle", "lock", "release"}
  /\ EndTx(w)
  /\ Goto(w, "release")
  /\ todo' = [todo EXCEPT ![w] = {}]
  /\ answer' = [answer EXCEPT ![w] = "error"]
  /\ UNCHANGED <<lockVars, rowVars, catalog, objects, job, maintVars>>

\* The process dies; PostgreSQL ends its session.
Crash(w) ==
  /\ pc[w] # "idle"
  /\ EndTx(w)
  /\ sharers' = sharers \ {w}
  /\ Goto(w, "idle")
  /\ job' = [job EXCEPT ![w] = NoJob]
  /\ todo' = [todo EXCEPT ![w] = {}]
  /\ answer' = [answer EXCEPT ![w] = "none"]
  /\ behind' = behind \ {w}
  /\ UNCHANGED <<exclusive, rowVars, catalog, objects, maintVars>>

\* PostgreSQL ends the session of a process that lives on: the lease and the
\* transaction are gone, and the process learns it at its next statement.
Drop(w) ==
  /\ Alive(w)
  /\ EndTx(w)
  /\ sharers' = sharers \ {w}
  /\ UNCHANGED <<exclusive, behind, rowVars, catalog, objects, workerVars, maintVars>>

-----------------------------------------------------------------------------
(* persistRunDirectory under the lock: knownRun, materialiseBlobs,          *)
(* archiveWithin.                                                           *)

\* A slip: the transaction starts before the bytes are published.
MaterialiseLast(w, blobs) ==
  /\ todo' = [todo EXCEPT ![w] = blobs]
  /\ Goto(w, "claim")

\* Blobs still to be published, and then the transaction.
Materialise(w, blobs) ==
  /\ todo' = [todo EXCEPT ![w] = blobs]
  /\ Goto(w, IF blobs = {} THEN "claim" ELSE "put")

\* Back out with RUN_CONFLICT.
Conflict(w) ==
  /\ Goto(w, "release")
  /\ answer' = [answer EXCEPT ![w] = "conflict"]

SameContent(w) == Fingerprint[src[job[w].run]] = Fingerprint[job[w].src]

\* knownRun, storedFingerprint.
ReadKnown(w) ==
  /\ pc[w] = "known" /\ Alive(w)
  /\ IF src[job[w].run] = None
       THEN Materialise(w, Needs(job[w].src)) /\ UNCHANGED answer
       ELSE IF ~SameContent(w)
         THEN Conflict(w) /\ UNCHANGED todo
         ELSE Goto(w, "related") /\ UNCHANGED <<todo, answer>>
  /\ UNCHANGED <<lockVars, rowVars, catalog, txVars, objects, job, maintVars>>

\* knownRun, the relations the stored run already has.
ReadRelated(w) ==
  /\ pc[w] = "related" /\ Alive(w)
  /\ IF Needs(job[w].src) \subseteq rel[job[w].run]
       THEN Goto(w, "repair") /\ UNCHANGED todo
       ELSE Materialise(w, Needs(job[w].src))
  /\ UNCHANGED <<lockVars, rowVars, catalog, txVars, objects, job, answer, maintVars>>

\* A slip: the expiry is not recorded.
CompleteIndexOnly(w) ==
  /\ UNCHANGED expires
  /\ index' = [index EXCEPT ![job[w].run] = src[job[w].run]]

\* recordRetention and repairStoredIndex: what is missing is added, the expiry
\* from this call and the index from the archived source.
CompleteDerived(w) ==
  LET r == job[w].run IN
  /\ expires' = [expires EXCEPT ![r] = IF @ = None THEN job[w].exp ELSE @]
  /\ index' = [index EXCEPT ![r] = IF Current(r) THEN @ ELSE src[r]]

\* A COMMIT the server performed.  Its answer may be lost with the session.
Committed(w, result) ==
  \/ answer' = [answer EXCEPT ![w] = result] /\ UNCHANGED sharers
  \/ answer' = [answer EXCEPT ![w] = "error"] /\ sharers' = sharers \ {w}

\* knownRun's transaction: the run's row is held, so it is one step.
RepairKnown(w) ==
  /\ pc[w] = "repair" /\ Alive(w)
  /\ rowLock[job[w].run] = None
  /\ IF src[job[w].run] = None
       THEN /\ Materialise(w, Needs(job[w].src))
            /\ UNCHANGED <<rowVars, sharers, answer>>
       ELSE /\ CompleteDerived(w)
            /\ Committed(w, "already_present")
            /\ Goto(w, "release")
            /\ UNCHANGED <<src, rel, todo>>
  /\ UNCHANGED <<exclusive, behind, catalog, txVars, objects, job, maintVars>>

\* store.put of one blob.  It needs no database, so a lost session does not
\* stop it.
Put(w, b) ==
  /\ pc[w] = "put"
  /\ b \in todo[w]
  /\ objects' = objects \cup {b}
  /\ Materialise(w, todo[w] \ {b})
  /\ UNCHANGED <<lockVars, rowVars, catalog, txVars, job, answer, maintVars>>

\* INSERT INTO qe_runs ... ON CONFLICT DO NOTHING: waits for an uncommitted
\* insert of the same identity, not for a lock on a committed row.
Claim(w) ==
  LET r == job[w].run IN
  /\ pc[w] = "claim" /\ Alive(w)
  /\ IF src[r] = None
       THEN /\ rowLock[r] = None
            /\ rowLock' = [rowLock EXCEPT ![r] = w]
            /\ todo' = [todo EXCEPT ![w] = Needs(job[w].src)]
            /\ Goto(w, "record")
       ELSE Goto(w, "compare") /\ UNCHANGED <<rowLock, todo>>
  /\ UNCHANGED <<lockVars, rowVars, catalog, blobLock, objects, job, answer, maintVars>>

\* The identity was taken: compare with its owner, and hold the owner's row to
\* complete it.
Compare(w) ==
  LET r == job[w].run IN
  /\ pc[w] = "compare" /\ Alive(w)
  /\ src[r] # None
  /\ IF ~SameContent(w)
       THEN Conflict(w) /\ UNCHANGED <<rowLock, todo>>
       ELSE /\ rowLock[r] = None
            /\ rowLock' = [rowLock EXCEPT ![r] = w]
            /\ todo' = [todo EXCEPT ![w] = Needs(job[w].src) \ rel[r]]
            /\ Goto(w, "record")
            /\ UNCHANGED answer
  /\ UNCHANGED <<lockVars, rowVars, catalog, blobLock, objects, job, maintVars>>

\* recordBlobs: catalog rows in hash order, waiting for another transaction's
\* uncommitted row of the same hash.
RecordBlob(w) ==
  /\ pc[w] = "record" /\ Alive(w)
  /\ \E b \in Blobs :
       /\ IsFirst(b, todo[w])
       /\ blobLock[b] = None
       /\ blobLock' = [blobLock EXCEPT ![b] = IF b \in catalog THEN @ ELSE w]
       /\ todo' = [todo EXCEPT ![w] = @ \ {b}]
  /\ UNCHANGED <<lockVars, rowVars, catalog, rowLock, objects, pc, job, answer, maintVars>>

\* insertLines, relateBlobs, recordRetention, the query index and COMMIT.  A
\* claimed row becomes the archived run; an owner's row is completed.
Commit(w) ==
  LET r == job[w].run
      claimed == src[r] = None
  IN
  /\ pc[w] = "record" /\ Alive(w)
  /\ todo[w] = {}
  /\ catalog' = catalog \cup {b \in Blobs : blobLock[b] = w}
  /\ rel' = [rel EXCEPT ![r] = @ \cup Needs(job[w].src)]
  /\ IF claimed
       THEN /\ src' = [src EXCEPT ![r] = job[w].src]
            /\ expires' = [expires EXCEPT ![r] = job[w].exp]
            /\ index' = [index EXCEPT ![r] = job[w].src]
       ELSE CompleteDerived(w) /\ UNCHANGED src
  /\ EndTx(w)
  /\ Committed(w, IF claimed THEN "inserted" ELSE "already_present")
  /\ Goto(w, "release")
  /\ UNCHANGED <<exclusive, behind, objects, job, todo, maintVars>>

-----------------------------------------------------------------------------
(* rebuildProjectIndex under the lock.                                      *)

\* readStoredRun and deriveQueryIndex; a run that is gone is skipped.
DeriveIndex(w) ==
  /\ pc[w] = "derive" /\ Alive(w)
  /\ job' = [job EXCEPT ![w].src = src[job[w].run]]
  /\ Goto(w, IF src[job[w].run] = None THEN "release" ELSE "replace")
  /\ UNCHANGED <<lockVars, rowVars, catalog, txVars, objects, todo, answer, maintVars>>

\* replaceOneRun: one transaction that holds the run's row.
ReplaceIndex(w) ==
  LET r == job[w].run IN
  /\ pc[w] = "replace" /\ Alive(w)
  /\ rowLock[r] = None
  /\ index' = IF src[r] = None THEN index ELSE [index EXCEPT ![r] = job[w].src]
  /\ Goto(w, "release")
  /\ UNCHANGED <<lockVars, src, rel, expires, catalog, txVars, objects, job, todo, answer, maintVars>>

-----------------------------------------------------------------------------
(* RetentionMaintenance.run: the pass of one operator at a time.            *)

\* A destructive pass is asked for, evaluated against an instant of the
\* caller's choice.
StartPass(t) ==
  /\ mpc = "idle"
  /\ mpc' = "lock"
  /\ asOf' = t
  /\ UNCHANGED <<lockVars, rowVars, catalog, txVars, objects, workerVars, picked, victims>>

AcquireExclusive ==
  /\ mpc = "lock"
  /\ sharers = {} /\ ~exclusive
  /\ exclusive' = TRUE /\ behind' = {}
  /\ mpc' = "select"
  /\ UNCHANGED <<sharers, rowVars, catalog, txVars, objects, workerVars, asOf, picked, victims>>

EndPass ==
  /\ mpc' = "idle"
  /\ exclusive' = FALSE /\ behind' = {}
  /\ asOf' = None /\ picked' = {} /\ victims' = {}
  /\ UNCHANGED <<sharers, rowVars, catalog, txVars, objects, workerVars>>

\* The pass ends early and its session gives the lock up: lock_timeout struck,
\* a statement failed, or the process died.
AbortPass == mpc # "idle" /\ EndPass

\* selectExpired: the oldest expiries first, at most MaxRuns of them.
SelectExpired ==
  /\ mpc = "select" /\ exclusive
  /\ \E chosen \in SUBSET Expired(asOf) :
       /\ Cardinality(chosen) <= MaxRuns
       /\ chosen # Expired(asOf) => Cardinality(chosen) = MaxRuns
       /\ \A r \in chosen, q \in Expired(asOf) \ chosen : expires[r] <= expires[q]
       /\ picked' = chosen
  /\ mpc' = "delete"
  /\ UNCHANGED <<lockVars, rowVars, catalog, txVars, objects, workerVars, asOf, victims>>

\* deleteRuns: one transaction that checks each expiry again; the run's
\* children cascade.  A batch that fails deletes nothing and the pass goes on.
DeleteRuns ==
  LET gone == picked \cap Expired(asOf) IN
  /\ mpc = "delete"
  /\ \/ /\ exclusive
        /\ src' = [r \in Runs |-> IF r \in gone THEN None ELSE src[r]]
        /\ rel' = [r \in Runs |-> IF r \in gone THEN {} ELSE rel[r]]
        /\ expires' = [r \in Runs |-> IF r \in gone THEN None ELSE expires[r]]
        /\ index' = [r \in Runs |-> IF r \in gone THEN None ELSE index[r]]
     \/ UNCHANGED rowVars
  /\ mpc' = "sweep"
  /\ picked' = {}
  /\ UNCHANGED <<lockVars, catalog, txVars, objects, workerVars, asOf, victims>>

\* The catalogued blobs no run references, after the cursor, in hash order.
ListUnreferenced(after) ==
  LET unreferenced == {b \in catalog : ~Referenced(b) /\ (after # None => b > after)} IN
  /\ mpc = "sweep" /\ exclusive
  /\ \E chosen \in SUBSET unreferenced :
       /\ Prefix(chosen, unreferenced)
       /\ chosen = {} => unreferenced = {}
       /\ Cardinality(chosen) <= MaxBlobs
       /\ victims' = chosen
  /\ mpc' = "reclaim"
  /\ UNCHANGED <<lockVars, rowVars, catalog, txVars, objects, workerVars, asOf, picked>>

\* A slip: the row is deleted through the pool, not the leased session.
DeleteRowUnleased ==
  /\ mpc = "reclaim"
  /\ \E b \in Blobs :
       /\ IsFirst(b, victims) /\ ~Referenced(b)
       /\ catalog' = catalog \ {b}
       /\ mpc' = "remove"
  /\ UNCHANGED <<lockVars, rowVars, txVars, objects, workerVars, asOf, picked, victims>>

\* reclaim of a catalogued blob, its row: deleted unless something references
\* the blob after all, or the statement fails.
DeleteCatalogRow ==
  /\ mpc = "reclaim"
  /\ \E b \in Blobs :
       /\ IsFirst(b, victims)
       /\ \/ /\ exclusive /\ ~Referenced(b)
             /\ catalog' = catalog \ {b}
             /\ mpc' = "remove"
             /\ UNCHANGED victims
          \/ /\ victims' = victims \ {b}
             /\ UNCHANGED <<catalog, mpc>>
  /\ UNCHANGED <<lockVars, rowVars, txVars, objects, workerVars, asOf, picked>>

\* removeObject, or its failure, which leaves the object behind.  The
\* filesystem is not asked whether the lease is still held.
RemoveObject ==
  /\ \E b \in Blobs :
       /\ IsFirst(b, victims)
       /\ objects' = objects \ {b} \/ UNCHANGED objects
       /\ victims' = victims \ {b}
  /\ UNCHANGED <<lockVars, rowVars, catalog, txVars, workerVars, asOf, picked>>

RemoveCatalogued ==
  /\ mpc = "remove"
  /\ mpc' = "reclaim"
  /\ RemoveObject

\* The store is enumerated when the caller gave a cutoff: objects the catalog
\* does not know and that are not too young, as far as the budgets reach.
ListOrphans(young) ==
  LET orphans == objects \ (catalog \cup young) IN
  /\ mpc = "reclaim" /\ victims = {} /\ exclusive
  /\ \E chosen \in SUBSET orphans :
       /\ Prefix(chosen, orphans)
       /\ victims' = chosen
  /\ mpc' = "orphans"
  /\ UNCHANGED <<lockVars, rowVars, catalog, txVars, objects, workerVars, asOf, picked>>

RemoveOrphan ==
  /\ mpc = "orphans"
  /\ UNCHANGED mpc
  /\ RemoveObject

\* Nothing is left to examine; without a cutoff the store is not enumerated.
FinishPass ==
  /\ mpc \in {"reclaim", "orphans"} /\ victims = {}
  /\ EndPass

-----------------------------------------------------------------------------
WorkerStep(w) ==
  \/ AcquireShared(w) \/ Release(w)
  \/ ReadKnown(w) \/ ReadRelated(w) \/ RepairKnown(w)
  \/ \E b \in Blobs : Put(w, b)
  \/ Claim(w) \/ Compare(w) \/ RecordBlob(w) \/ Commit(w)
  \/ DeriveIndex(w) \/ ReplaceIndex(w)

PassStep ==
  \/ AcquireExclusive \/ SelectExpired \/ DeleteRuns
  \/ \E after \in Blobs \cup {None} : ListUnreferenced(after)
  \/ DeleteCatalogRow \/ RemoveCatalogued
  \/ \E young \in SUBSET Blobs : ListOrphans(young)
  \/ RemoveOrphan \/ FinishPass

Request ==
  \/ \E w \in Workers, r \in Runs, s \in Sources, e \in Times : Offer(w, r, s, e)
  \/ \E w \in Workers, r \in Runs : Rebuild(w, r)
  \/ \E t \in Times : StartPass(t)

Failure == AbortPass \/ \E w \in Workers : Fail(w) \/ Crash(w) \/ Drop(w)

Next == Request \/ (\E w \in Workers : WorkerStep(w)) \/ PassStep \/ Failure

Spec == Init /\ [][Next]_vars

-----------------------------------------------------------------------------
(* Properties. *)

Labels == {"idle", "lock", "known", "related", "repair", "put", "claim", "compare",
           "record", "derive", "replace", "release"}
PassLabels == {"idle", "lock", "select", "delete", "sweep", "reclaim", "remove", "orphans"}
Answers == {"none", "inserted", "already_present", "conflict", "error"}

\* The type of every variable.
TypeOK ==
  /\ sharers \subseteq Workers /\ exclusive \in BOOLEAN /\ behind \subseteq Workers
  /\ src \in [Runs -> Sources \cup {None}]
  /\ rel \in [Runs -> SUBSET Blobs]
  /\ expires \in [Runs -> Times \cup {None}]
  /\ index \in [Runs -> Sources \cup {None, Stale}]
  /\ catalog \subseteq Blobs /\ objects \subseteq Blobs
  /\ rowLock \in [Runs -> Workers \cup {None}]
  /\ blobLock \in [Blobs -> Workers \cup {None}]
  /\ pc \in [Workers -> Labels]
  /\ job \in [Workers -> [run : Runs \cup {None}, src : Sources \cup {None}, exp : Times \cup {None}]]
  /\ todo \in [Workers -> SUBSET Blobs]
  /\ answer \in [Workers -> Answers]
  /\ mpc \in PassLabels /\ asOf \in Times \cup {None}
  /\ picked \subseteq Runs /\ victims \subseteq Blobs

\* locks.ts: an ingestion that may publish bytes or write rows never overlaps
\* a destructive pass, although either side may crash, fail or lose its
\* session at any point.
IngestionAndRetentionExclude == ~(exclusive /\ sharers # {})

\* store.ts: "the database references only blobs the store already holds".
\* Every blob a run is related to has its catalog row and its object, whatever
\* publishing, rolling back, expiring and reclaiming happened before.
ReferencedBytesExist ==
  \A r \in Runs : rel[r] \subseteq catalog \cap objects

\* archiveWithin: an `inserted` or `already_present` is true when the caller
\* gets it: the run is archived with the offered content, every blob it
\* declares, an expiry and an index that answers queries.
SuccessMeansComplete ==
  \A w \in Workers :
    (pc[w] = "release" /\ Alive(w) /\ answer[w] \in {"inserted", "already_present"}) =>
      LET r == job[w].run IN
      /\ r \in Archived
      /\ SameContent(w)
      /\ Needs(job[w].src) \subseteq rel[r]
      /\ expires[r] # None
      /\ Current(r)

\* repairStoredIndex: an index that counts as current was derived from the
\* archived physical form, never from an equal content offered later in
\* another form.
IndexFromArchivedSource ==
  \A r \in Runs : index[r] \in {None, Stale, src[r]}

\* archiveWithin: once the INSERT found the identity taken, its owner is there
\* to be read; the "claimed by a transaction that vanished" error is never
\* thrown while the lease is held.
ClaimantNeverVanishes ==
  \A w \in Workers : (pc[w] = "compare" /\ Alive(w)) => job[w].run \in Archived

\* recordBlobs: a catalog row is being inserted by a transaction that also
\* holds its run's row, and no blob below it in hash order is still to be
\* taken: the order that keeps ingestions from deadlocking.
BlobLocksInHashOrder ==
  \A w \in Workers, b \in Blobs : blobLock[b] = w =>
    /\ rowLock[job[w].run] = w
    /\ \A c \in todo[w] : b < c

\* Re-ingestion, rebuild and repair never touch what is archived: the source
\* and an established expiry stay, and relations only grow, until retention
\* deletes the run.
ArchivedStays ==
  [][\A r \in Archived : r \in Archived' =>
       /\ src'[r] = src[r]
       /\ rel[r] \subseteq rel'[r]
       /\ expires[r] # None => expires'[r] = expires[r]]_vars

\* deleteRuns: a run leaves only under the exclusive lock, at or past its own
\* expiry, and while nothing ingests; a run without a retention fact stays.
OnlyExpiredRunsLeave ==
  [][\A r \in Archived : r \notin Archived' =>
       /\ exclusive /\ sharers = {}
       /\ expires[r] # None /\ expires[r] <= asOf]_vars

\* The runs whose every declared blob is related and on the medium.
Readable == {r \in Archived : Needs(src[r]) \subseteq rel[r] \cap objects}

Contract == INSTANCE ArchiveContract WITH
  Contents <- {Fingerprint[s] : s \in Sources},
  content  <- [r \in Runs |-> IF src[r] = None THEN None ELSE Fingerprint[src[r]]],
  expiry   <- expires,
  readable <- Readable

\* The archive implements its contract: through every crash, lost session and
\* reclamation an identity keeps its content, its first expiry and its bytes
\* until it expires.
ImplementsContract == Contract!Spec

-----------------------------------------------------------------------------
(* Liveness.  PostgreSQL queues the waiters of a lock and of a row, so none *)
(* is overtaken for ever; a process that lives takes its next step; a       *)
(* worker whose session is gone fails at its next statement.                *)

Fairness ==
  /\ \A w \in Workers : SF_vars(WorkerStep(w)) /\ WF_vars(~Alive(w) /\ Fail(w))
  /\ SF_vars(PassStep)

\* No call of persistRunDirectory, no rebuild and no destructive pass waits
\* for ever: the lock, the row locks and the hash order of the catalog rows
\* leave no circle of waiters.
EveryCallEnds ==
  /\ \A w \in Workers : pc[w] # "idle" ~> pc[w] = "idle"
  /\ mpc # "idle" ~> mpc = "idle"
=============================================================================
