-------------------------------- MODULE RunReads --------------------------------
(***************************************************************************)
(* Reading one archived run while retention deletes it and an ingestion    *)
(* archives it again, perhaps with other content (packages/postgres:       *)
(* store.ts, the read path; packages/http-api: getRun, getAttachment).      *)
(* Readers take no lease: a run is four queries in one snapshot, and the    *)
(* bytes are opened after it.                                               *)
(***************************************************************************)
EXTENDS Naturals, FiniteSets

CONSTANTS
  Sources,  \* contents the run may be archived with
  Requires, \* Requires[c]: the hashes content c needs
  MaxArchived \* bound: how often the run is archived

Blobs == UNION {Requires[c] : c \in Sources}

VARIABLES
  row,   \* [made, content, times]: the row of qe_runs, and its incarnation
  lines,  \* the content whose source lines are stored, or NoLines
  related,\* qe_run_blobs of the run
  stored,  \* objects in the blob store
  reader  \* the request

readsVars == <<row, lines, related, stored, reader>>

NoLines == "no lines"
Absent == [made |-> FALSE, times |-> row.times]
Database == [row |-> row, lines |-> lines, related |-> related]

\* put, then the transaction; the shared lease keeps what was published, which
\* here is the guard of ArchiveRun.
PublishBlobs(c) ==
  /\ ~row.made /\ row.times < MaxArchived
  /\ stored' = stored \cup Requires[c]
  /\ UNCHANGED <<row, lines, related, reader>>

\* In the transaction of the row: every line of the run, and every hash it needs.
InsertLines(c) == lines' = c
RelateBlobs(c) == related' = Requires[c]

ArchiveRun(c) ==
  /\ ~row.made /\ row.times < MaxArchived /\ Requires[c] \subseteq stored
  /\ row' = [made |-> TRUE, content |-> c, times |-> row.times + 1]
  /\ InsertLines(c) /\ RelateBlobs(c)
  /\ UNCHANGED <<stored, reader>>

\* One statement; the other tables follow by cascade.
DeleteExpired ==
  /\ row.made
  /\ row' = Absent /\ lines' = NoLines /\ related' = {}
  /\ UNCHANGED <<stored, reader>>

Reclaimable(h) == h \notin related

ReclaimBlob(h) ==
  /\ h \in stored /\ Reclaimable(h)
  /\ stored' = stored \ {h}
  /\ UNCHANGED <<row, lines, related, reader>>

--------------------------------------------------------------------------------
\* loadStoredRun: the first query fixes the snapshot.
ReadHead(verify) ==
  /\ reader.pc = "idle"
  /\ reader' = IF row.made THEN [pc |-> "lines", verify |-> verify, snapshot |-> Database, read |-> row]
               ELSE [pc |-> "absent"]
  /\ UNCHANGED <<row, lines, related, stored>>

\* Slip: READ COMMITTED.
SnapshotNow == Database

Snapshot == reader.snapshot

ReadLines ==
  /\ reader.pc = "lines"
  /\ reader' = [pc |-> "blobs", verify |-> reader.verify, snapshot |-> reader.snapshot,
                read |-> reader.read, lines |-> Snapshot.lines]
  /\ UNCHANGED <<row, lines, related, stored>>

\* The relations, then replayStored: the lines must be the archived content.
ReadRelations ==
  /\ reader.pc = "blobs"
  /\ reader' = [pc |-> IF reader.lines # reader.read.content THEN "mismatch"
                       ELSE IF reader.verify THEN "verifying" ELSE "answered",
                read |-> reader.read, lines |-> reader.lines, related |-> Snapshot.related,
                verified |-> {}]
  /\ UNCHANGED <<row, lines, related, stored>>

\* verifyBlobs, one required hash at a time and in any order.
VerifyBlob(h) ==
  /\ reader.pc = "verifying" /\ h \in Requires[reader.lines] \ reader.verified
  /\ reader' = [reader EXCEPT
       !.verified = @ \cup {h},
       !.pc = IF h \notin reader.related THEN "record missing"
              ELSE IF h \notin stored THEN "blob missing" ELSE @]
  /\ UNCHANGED <<row, lines, related, stored>>

AllVerified ==
  /\ reader.pc = "verifying" /\ reader.verified = Requires[reader.lines]
  /\ reader' = [reader EXCEPT !.pc = "answered"]
  /\ UNCHANGED <<row, lines, related, stored>>

\* openBlob: the relation and its size, then the object.
LookUpBlob(h) ==
  /\ reader.pc = "idle"
  /\ reader' = IF h \in related THEN [pc |-> "opening", hash |-> h, read |-> row] ELSE [pc |-> "absent"]
  /\ UNCHANGED <<row, lines, related, stored>>

OpenBlob ==
  /\ reader.pc = "opening"
  /\ reader' = [pc |-> IF reader.hash \in stored THEN "streaming" ELSE "blob missing", read |-> reader.read]
  /\ UNCHANGED <<row, lines, related, stored>>

NextRequest ==
  /\ reader.pc \in {"absent", "answered", "streaming", "mismatch", "record missing", "blob missing"}
  /\ reader' = [pc |-> "idle"]
  /\ UNCHANGED <<row, lines, related, stored>>

ReadsInit ==
  /\ row = [made |-> FALSE, times |-> 0] /\ lines = NoLines /\ related = {} /\ stored = {}
  /\ reader = [pc |-> "idle"]

ReadsNext ==
  \/ \E c \in Sources : PublishBlobs(c) \/ ArchiveRun(c)
  \/ DeleteExpired
  \/ \E h \in Blobs : ReclaimBlob(h) \/ VerifyBlob(h) \/ LookUpBlob(h)
  \/ \E verify \in BOOLEAN : ReadHead(verify)
  \/ ReadLines \/ ReadRelations \/ AllVerified \/ OpenBlob \/ NextRequest

ReadsSpec == ReadsInit /\ [][ReadsNext]_readsVars

--------------------------------------------------------------------------------
(* Properties *)

\* What a reader is told is true.  A run is read whole or not at all: its lines
\* and its relations are those of the row that was read first, even when
\* retention deleted the run in between and an ingestion archived it again
\* (loadStoredRun's one snapshot).  Bytes are reported missing only when the run
\* the reader looked at has been deleted since: nothing that is still archived
\* loses an object under a reader that holds no lease (openBlob, verifyBlobs).
ReadsAreTrue ==
  [][/\ reader'.pc \notin {"mismatch", "record missing"}
     /\ reader'.pc = "answered" => /\ reader'.lines = reader'.read.content
                                   /\ reader'.related = Requires[reader'.read.content]
     /\ reader.pc # "blob missing" /\ reader'.pc = "blob missing" => row # reader.read]_readsVars
===============================================================================
