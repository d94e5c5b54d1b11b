---------------------------- MODULE QueryProofs ----------------------------
(***************************************************************************)
(* What the pages of a question, a rebuild of the index and a comparison    *)
(* with it tell, for any project, releases, runs and sizes of a page and of *)
(* a pass (QueryIndex).                                                     *)
(***************************************************************************)
EXTENDS QueryIndex, FiniteSetTheorems, TLAPS

ArchiveRows == [made : {TRUE}, seq : Nat \ {0}, fp : DOMAIN Executions]
HeadRows    == [made : {TRUE}, version : Versions, fp : DOMAIN Executions]
PendingRows == [made : {TRUE}, seq : Nat \ {0}, fp : DOMAIN Executions, version : Versions]
AllRows     == UNION {Derived(r, c, v) : r \in Runs, c \in DOMAIN Executions, v \in Versions}
Entries     == [run : Runs, seq : Nat \ {0}]

Tables(state) ==
  /\ state.archive \in [Runs -> {NoRow} \cup ArchiveRows]
  /\ state.index \in [Runs -> {NoRow} \cup HeadRows]
  /\ state.rows \subseteq AllRows

\* The index of a run is made and deleted with the run, and its rows are what
\* the release it names derives from the content it names.
IndexIsDerived(state) ==
  \A r \in Runs :
    /\ state.archive[r].made <=> state.index[r].made
    /\ {o \in state.rows : o.run = r} =
         IF state.index[r].made THEN Derived(r, state.index[r].fp, state.index[r].version) ELSE {}

\* A sequence is handed out once: a run on its way in is not there yet.
SequenceOK ==
  /\ sequence \in Nat /\ pending \in [Runs -> {NoRow} \cup PendingRows]
  /\ \A r \in Runs : archive[r].made => archive[r].seq <= sequence /\ ~pending[r].made
  /\ \A r \in Runs : pending[r].made => pending[r].seq <= sequence

Stayed(p) == archive[p.run].made /\ archive[p.run].seq = p.seq

\* No run noted as present is on its way in again under the same sequence.
PresentOK(present) ==
  /\ present \subseteq Entries
  /\ \A p \in present : p.seq <= sequence /\ (pending[p.run].made => pending[p.run].seq # p.seq)

Rebuilds == [pc : {"idle", "pass"}, left : Nat, version : Versions \cup {0}, after : Nat, more : BOOLEAN,
             queue : SUBSET [run : Runs, seq : Nat \ {0}, fp : DOMAIN Executions],
             present : SUBSET Entries, covered : SUBSET Runs]

\* What was present and stayed is covered, in the pass, or after its end.
RebuildOK ==
  /\ rebuild \in Rebuilds /\ PresentOK(rebuild.present)
  /\ rebuild.pc = "idle" => rebuild.queue = {}
  /\ rebuild.pc = "pass" \/ rebuild.more => rebuild.version \in Versions
  /\ \A q \in rebuild.queue : archive[q.run].made /\ archive[q.run].fp = q.fp
  /\ \A p \in rebuild.present : Stayed(p) =>
       \/ p.run \in rebuild.covered
       \/ \E q \in rebuild.queue : q.run = p.run
       \/ rebuild.more /\ p.seq > rebuild.after

\* The first two reads of a comparison.
VerifyOK ==
  /\ verify.pc \in {"head", "rows"} => verify.run \in Runs
  /\ verify.pc = "rows" =>
       (verify.agrees <=> /\ verify.head.made /\ verify.head.version = verify.version
                          /\ verify.head.fp = verify.archived.fp)

Cursors == [made : {TRUE}, b : Listings, position : [seq : Nat \ {0}] \cup AllRows]
Walks == [pc : {"idle", "ask", "gated", "done", "refused"}, left : Nat, listing : Listings,
          cursor : {NoRow} \cup Cursors, pages : Seq(SUBSET (AllRows \cup Entries)),
          version : Versions \cup {0},
          snapshot : {NoRow} \cup [archive : [Runs -> {NoRow} \cup ArchiveRows],
                                  index : [Runs -> {NoRow} \cup HeadRows], rows : SUBSET AllRows],
          present : SUBSET Entries]

RowsOf(listing) == IF listing.k = "runs" THEN Entries ELSE AllRows

\* Whether a row comes before the cursor, and whether what should be shown comes after it.
Passed(listing, cursor, o) ==
  IF listing.k = "runs" THEN o.seq >= cursor.position.seq
  ELSE o = cursor.position \/ Before(o, cursor.position)
Ahead(listing, cursor, x) ==
  cursor.made =>
    IF listing.k = "runs" THEN x.seq < cursor.position.seq
    ELSE Before(cursor.position, [at |-> HistoryInstant(x.when), run |-> x.run, execution |-> x.execution])

OnPage(x) == \E i \in DOMAIN walk.pages : \E o \in walk.pages[i] : x = Shown(walk.listing, o)

\* Every run of a state is indexed by release v, as the gate asks.
Whole(state, v) ==
  /\ Tables(state) /\ IndexIsDerived(state) /\ v \in Versions
  /\ \A r \in Runs : state.archive[r].made => CurrentFor(state, r, v)

\* The transaction of a gated page reads an archive whose index is whole.
SnapshotOK ==
  walk.pc = "gated" =>
    /\ Whole(walk.snapshot, walk.version)
    /\ \A p \in walk.present : Stayed(p) => walk.snapshot.archive[p.run] = archive[p.run]

CursorOK ==
  /\ \A i \in DOMAIN walk.pages : walk.pages[i] \subseteq RowsOf(walk.listing)
  /\ \A i, j \in DOMAIN walk.pages : i < j =>
       \A a \in walk.pages[i], b \in walk.pages[j] : Precedes(walk.listing, a, b)
  /\ walk.cursor.made =>
       /\ walk.cursor.b = walk.listing /\ walk.listing.k # "flakiness"
       /\ walk.cursor.position \in IF walk.listing.k = "runs" THEN [seq : Nat \ {0}] ELSE AllRows
       /\ \A i \in DOMAIN walk.pages : \A o \in walk.pages[i] : Passed(walk.listing, walk.cursor, o)
  /\ walk.pc \in {"ask", "gated"} /\ ~walk.cursor.made => walk.pages = <<>>

\* What stayed since the walk began is on a page or ahead of the cursor.
WalkOK ==
  walk.pc \in {"ask", "gated", "done"} =>
    \A p \in walk.present : Stayed(p) =>
      \A x \in OfRun(walk.listing, p.run, archive[p.run]) :
        OnPage(x) \/ (walk.pc # "done" /\ Ahead(walk.listing, walk.cursor, x))

WalkInv == walk \in Walks /\ PresentOK(walk.present) /\ SnapshotOK /\ CursorOK /\ WalkOK

IndexInv == Tables(Now) /\ IndexIsDerived(Now) /\ SequenceOK /\ RebuildOK /\ VerifyOK /\ WalkInv

--------------------------------------------------------------------------------
(* The tables *)

\* The columns of the rows.
LEMMA RowShapes ==
  /\ ~NoRow.made
  /\ \A x \in ArchiveRows : x.made /\ x.seq \in Nat \ {0} /\ x.seq \in Nat /\ x.fp \in DOMAIN Executions
  /\ \A x \in HeadRows : x.made /\ x.version \in Versions /\ x.fp \in DOMAIN Executions
  /\ \A x \in PendingRows : /\ x.made /\ x.seq \in Nat \ {0} /\ x.seq \in Nat
                            /\ x.fp \in DOMAIN Executions /\ x.version \in Versions
<1>1. ~NoRow.made
  BY DEF NoRow
<1>2. \A x \in ArchiveRows : x.made /\ x.seq \in Nat \ {0} /\ x.seq \in Nat /\ x.fp \in DOMAIN Executions
  BY Zenon DEF ArchiveRows
<1>3. \A x \in HeadRows : x.made /\ x.version \in Versions /\ x.fp \in DOMAIN Executions
  BY Zenon DEF HeadRows
<1>4. \A x \in PendingRows : /\ x.made /\ x.seq \in Nat \ {0} /\ x.seq \in Nat
                            /\ x.fp \in DOMAIN Executions /\ x.version \in Versions
  BY Zenon DEF PendingRows
<1> QED
  BY <1>1, <1>2, <1>3, <1>4

\* What deriveQueryIndex writes for a run.
LEMMA RowFacts ==
  ASSUME NEW o \in AllRows
  PROVE  /\ o.run \in Runs /\ o.run \in Nat /\ o.execution \in Nat /\ o.when \in Stamps
         /\ o.at = HistoryInstant(o.when)
<1>1. PICK r \in Runs, c \in DOMAIN Executions, v \in Versions : o \in Derived(r, c, v)
  BY DEF AllRows
<1>2. PICK e \in Executions[c] :
        o = [run |-> r, execution |-> e.execution, test |-> e.test, when |-> e.when,
             at |-> HistoryInstant(e.when), version |-> v]
  BY Zenon, <1>1 DEF Derived
<1>3. r \in Nat /\ e.execution \in Nat /\ e.when \in Stamps
  BY Zenon, <1>2, IndexAssumption
<1> QED
  BY Zenon, <1>1, <1>2, <1>3

\* Derived rows carry the run and the release they were derived for.
LEMMA DerivedFacts ==
  ASSUME NEW r \in Runs, NEW c \in DOMAIN Executions, NEW v \in Versions
  PROVE  Derived(r, c, v) \subseteq AllRows /\ \A o \in Derived(r, c, v) : o.run = r /\ o.version = v
<1>1. Derived(r, c, v) \subseteq AllRows
  BY DEF AllRows
<1>2. \A o \in Derived(r, c, v) : o.run = r /\ o.version = v
  BY DEF Derived
<1> QED
  BY <1>1, <1>2

\* replaceQueryIndex for an archived run: its rows are exactly the derived ones.
LEMMA ReplaceStep ==
  ASSUME Tables(Now), IndexIsDerived(Now), NEW r \in Runs, NEW c \in DOMAIN Executions, NEW v \in Versions,
         ReplaceQueryIndex(r, c, c, v), Tables([archive |-> archive', index |-> index, rows |-> rows]),
         archive'[r].made, \A q \in Runs \ {r} : archive'[q] = archive[q]
  PROVE  Tables(Now)' /\ IndexIsDerived(Now)'
<1> DEFINE head == [made |-> TRUE, version |-> v, fp |-> c]
<1>1. index' = [index EXCEPT ![r] = head] /\ rows' = {o \in rows : o.run # r} \cup Derived(r, c, v)
  BY Zenon DEF ReplaceQueryIndex
<1>2. /\ index \in [Runs -> {NoRow} \cup HeadRows] /\ rows \subseteq AllRows
      /\ archive' \in [Runs -> {NoRow} \cup ArchiveRows]
  BY DEF Tables, Now
<1>3. head \in HeadRows
  BY Zenon DEF HeadRows
<1>4. head.made /\ head.fp = c /\ head.version = v
  BY Zenon
<1> HIDE DEF head
<1>5. index' \in [Runs -> {NoRow} \cup HeadRows] /\ index'[r] = head /\ \A q \in Runs \ {r} : index'[q] = index[q]
  BY <1>1, <1>2, <1>3
<1>6. rows' \subseteq AllRows
  BY Zenon, <1>1, <1>2, DerivedFacts
<1>7. Tables(Now)'
  BY <1>2, <1>5, <1>6 DEF Tables, Now
<1>8. ASSUME NEW q \in Runs
      PROVE  /\ archive'[q].made <=> index'[q].made
             /\ {o \in rows' : o.run = q} = IF index'[q].made THEN Derived(q, index'[q].fp, index'[q].version) ELSE {}
  <2>1. CASE q = r
    <3>1. {o \in rows' : o.run = r} = Derived(r, c, v)
      BY <1>1, DerivedFacts
    <3> QED
      BY Zenon, <1>4, <1>5, <2>1, <3>1
  <2>2. CASE q # r
    <3>1. {o \in rows' : o.run = q} = {o \in rows : o.run = q}
      BY <1>1, <2>2, DerivedFacts
    <3>2. /\ archive[q].made <=> index[q].made
          /\ {o \in rows : o.run = q} = IF index[q].made THEN Derived(q, index[q].fp, index[q].version) ELSE {}
      BY DEF IndexIsDerived, Now
    <3>3. archive'[q] = archive[q] /\ index'[q] = index[q]
      BY Zenon, <1>5, <2>2
    <3> QED
      BY Zenon, <3>1, <3>2, <3>3
  <2> QED
    BY <2>1, <2>2
<1> QED
  BY <1>7, <1>8 DEF IndexIsDerived, Now
\* What a step can do to the archive and to the ingestions on their way: a row
\* comes only from the ingestion that waits for it, and an ingestion starts under
\* a sequence nobody had.
ArchiveMoves ==
  /\ archive' \in [Runs -> {NoRow} \cup ArchiveRows] /\ pending' \in [Runs -> {NoRow} \cup PendingRows]
  /\ sequence' \in Nat /\ sequence <= sequence'
  /\ \A r \in Runs :
       \/ archive'[r] = archive[r]
       \/ ~archive'[r].made
       \/ pending[r].made /\ ~pending'[r].made /\ archive'[r].seq = pending[r].seq
  /\ \A r \in Runs :
       \/ pending'[r] = pending[r]
       \/ ~pending'[r].made
       \/ /\ pending'[r].seq = sequence' /\ sequence < sequence'
          /\ ~archive[r].made /\ archive'[r] = archive[r]

\* Every action of a writer is one of these.
LEMMA MovesStep ==
  ASSUME Tables(Now), SequenceOK, [IndexNext]_indexVars
  PROVE  ArchiveMoves
<1>0. /\ archive \in [Runs -> {NoRow} \cup ArchiveRows] /\ pending \in [Runs -> {NoRow} \cup PendingRows]
      /\ sequence \in Nat
  BY DEF Tables, Now, SequenceOK
<1>1. ASSUME NEW r \in Runs, NEW v \in Versions, NEW c \in Contents[r], TakeSequence(r, c, v) PROVE ArchiveMoves
  <2> DEFINE row == [made |-> TRUE, seq |-> sequence', fp |-> c, version |-> v]
  <2>1. /\ ~archive[r].made /\ sequence' = sequence + 1 /\ archive' = archive
        /\ pending' = [pending EXCEPT ![r] = row]
    BY Zenon, <1>1 DEF TakeSequence
  <2>2. sequence' \in Nat \ {0} /\ sequence < sequence' /\ sequence <= sequence'
    BY <1>0, <2>1
  <2>3. c \in DOMAIN Executions
    BY IndexAssumption
  <2>4. row \in PendingRows /\ row.seq = sequence'
    BY <2>2, <2>3 DEF PendingRows
  <2> HIDE DEF row
  <2>5. /\ pending' \in [Runs -> {NoRow} \cup PendingRows] /\ pending'[r] = row
        /\ \A q \in Runs \ {r} : pending'[q] = pending[q]
    BY <1>0, <2>1, <2>4
  <2> QED
    BY Zenon, <1>0, <2>1, <2>2, <2>4, <2>5 DEF ArchiveMoves
<1>2. ASSUME NEW r \in Runs, CommitRun(r) PROVE ArchiveMoves
  <2> DEFINE row == [made |-> TRUE, seq |-> pending[r].seq, fp |-> pending[r].fp]
  <2>1. /\ pending[r].made /\ pending' = [pending EXCEPT ![r] = NoRow] /\ sequence' = sequence
        /\ archive' = [archive EXCEPT ![r] = row] \/ archive' = archive
    BY Zenon, <1>2 DEF CommitRun
  <2>2. pending[r] \in PendingRows
    BY <1>0, <2>1 DEF NoRow
  <2>3. row \in ArchiveRows /\ row.seq = pending[r].seq
    BY Zenon, <2>2 DEF ArchiveRows, PendingRows
  <2>4. ~NoRow.made
    BY DEF NoRow
  <2> HIDE DEF row
  <2>5. /\ pending' \in [Runs -> {NoRow} \cup PendingRows] /\ pending'[r] = NoRow
        /\ \A q \in Runs \ {r} : pending'[q] = pending[q]
    BY <1>0, <2>1
  <2>6. /\ archive' \in [Runs -> {NoRow} \cup ArchiveRows] /\ (archive'[r] = row \/ archive'[r] = archive[r])
        /\ \A q \in Runs \ {r} : archive'[q] = archive[q]
    BY <1>0, <2>1, <2>3
  <2>7. sequence <= sequence'
    BY <1>0, <2>1
  <2> QED
    BY Zenon, <1>0, <2>1, <2>3, <2>4, <2>5, <2>6, <2>7 DEF ArchiveMoves
<1>3. ASSUME NEW r \in Runs, DeleteRun(r) PROVE ArchiveMoves
  <2>1. archive' = [archive EXCEPT ![r] = NoRow] /\ pending' = pending /\ sequence' = sequence
    BY Zenon, <1>3 DEF DeleteRun
  <2>2. /\ archive' \in [Runs -> {NoRow} \cup ArchiveRows] /\ archive'[r] = NoRow
        /\ \A q \in Runs \ {r} : archive'[q] = archive[q]
    BY <1>0, <2>1
  <2>3. ~NoRow.made /\ sequence <= sequence'
    BY <1>0, <2>1 DEF NoRow
  <2> QED
    BY Zenon, <1>0, <2>1, <2>2, <2>3 DEF ArchiveMoves
<1>4. ASSUME UNCHANGED <<sequence, archive, pending>> PROVE ArchiveMoves
  <2>1. sequence <= sequence'
    BY <1>0, <1>4
  <2> QED
    BY Zenon, <1>0, <1>4, <2>1 DEF ArchiveMoves
<1> QED
  BY Zenon, <1>1, <1>2, <1>3, <1>4
  DEF IndexNext, indexVars, RepairStoredIndex, StartWalk, Gate, Answer, StartPass, RebuildOne, EndPass, VerifyLoad,
      VerifyHead, VerifyRows

\* A sequence is still handed out once.
LEMMA SequenceStep == ASSUME Tables(Now), SequenceOK, ArchiveMoves PROVE SequenceOK'
<1>1. sequence \in Nat /\ sequence' \in Nat /\ sequence <= sequence'
  BY Zenon DEF SequenceOK, ArchiveMoves
<1>2. sequence' <= sequence' /\ \A n \in Nat : n <= sequence => n <= sequence'
  BY <1>1
<1>3. /\ archive \in [Runs -> {NoRow} \cup ArchiveRows] /\ pending \in [Runs -> {NoRow} \cup PendingRows]
  BY Zenon DEF Tables, Now, SequenceOK
<1>4. \A r \in Runs : (archive[r].made => archive[r].seq \in Nat) /\ (pending[r].made => pending[r].seq \in Nat)
  <2>1. \A r \in Runs : archive[r] \in {NoRow} \cup ArchiveRows /\ pending[r] \in {NoRow} \cup PendingRows
    BY <1>3
  <2> QED
    BY Zenon, <2>1, RowShapes
<1>5. ASSUME NEW r \in Runs, archive'[r].made PROVE archive'[r].seq <= sequence' /\ ~pending'[r].made
  BY Zenon, <1>2, <1>4, <1>5 DEF SequenceOK, ArchiveMoves
<1>6. ASSUME NEW r \in Runs, pending'[r].made PROVE pending'[r].seq <= sequence'
  BY Zenon, <1>2, <1>4, <1>6 DEF SequenceOK, ArchiveMoves
<1> QED
  BY Zenon, <1>5, <1>6 DEF SequenceOK, ArchiveMoves

\* A run that is present under the sequence it had is the run that was there.
LEMMA StayedStep ==
  ASSUME NEW present, PresentOK(present), Tables(Now), SequenceOK, ArchiveMoves
  PROVE  /\ PresentOK(present)'
         /\ \A p \in present : Stayed(p)' => Stayed(p) /\ archive'[p.run] = archive[p.run]
<1> SUFFICES ASSUME NEW p \in present
             PROVE  /\ p.seq <= sequence' /\ (pending'[p.run].made => pending'[p.run].seq # p.seq)
                    /\ Stayed(p)' => Stayed(p) /\ archive'[p.run] = archive[p.run]
  BY Zenon DEF PresentOK
<1>1. p \in Entries /\ p.seq <= sequence /\ (pending[p.run].made => pending[p.run].seq # p.seq)
  BY Zenon DEF PresentOK
<1>2. p.run \in Runs /\ p.seq \in Nat
  BY <1>1 DEF Entries
<1>3. sequence \in Nat /\ sequence' \in Nat /\ sequence <= sequence'
  BY Zenon DEF SequenceOK, ArchiveMoves
<1>4. p.seq <= sequence'
  BY <1>1, <1>2, <1>3
<1>5. sequence < sequence' => sequence' # p.seq
  BY <1>1, <1>2, <1>3
<1>6. pending'[p.run].made => pending'[p.run].seq # p.seq
  BY Zenon, <1>1, <1>2, <1>5 DEF ArchiveMoves
<1>7. Stayed(p)' => Stayed(p) /\ archive'[p.run] = archive[p.run]
  BY Zenon, <1>1, <1>2 DEF ArchiveMoves, Stayed
<1> QED
  BY <1>4, <1>6, <1>7

\* What is archived now may be noted as present.
LEMMA PresentNow ==
  ASSUME Tables(Now), SequenceOK
  PROVE  /\ PresentOK({[run |-> r, seq |-> archive[r].seq] : r \in Archived})
         /\ \A r \in Archived : archive[r] \in ArchiveRows
<1>1. ASSUME NEW r \in Archived
      PROVE  /\ r \in Runs /\ archive[r] \in ArchiveRows /\ archive[r].seq <= sequence /\ ~pending[r].made
  <2>1. r \in Runs /\ archive[r].made /\ archive[r] \in {NoRow} \cup ArchiveRows
    BY DEF Archived, Tables, Now
  <2>2. ~NoRow.made
    BY DEF NoRow
  <2> QED
    BY Zenon, <2>1, <2>2 DEF SequenceOK
<1>2. ASSUME NEW p \in {[run |-> r, seq |-> archive[r].seq] : r \in Archived}
      PROVE  p \in Entries /\ p.seq <= sequence /\ ~pending[p.run].made
  <2>1. PICK r \in Archived : p = [run |-> r, seq |-> archive[r].seq]
    BY Zenon
  <2>2. p.run = r /\ p.seq = archive[r].seq
    BY <2>1
  <2>3. p \in Entries
    BY Zenon, <1>1, <2>1 DEF Entries, ArchiveRows
  <2> QED
    BY Zenon, <1>1, <2>2, <2>3
<1> QED
  BY Zenon, <1>1, <1>2 DEF PresentOK
\* A row that is there has the columns of its table.
LEMMA MadeRows ==
  ASSUME NEW state, Tables(state), NEW r \in Runs
  PROVE  /\ state.archive[r].made => state.archive[r] \in ArchiveRows
         /\ state.index[r].made => state.index[r] \in HeadRows
<1>1. state.archive[r] \in {NoRow} \cup ArchiveRows /\ state.index[r] \in {NoRow} \cup HeadRows
  BY DEF Tables
<1> QED
  BY Zenon, <1>1, RowShapes

\* Ingestion, repair, rebuild and retention write the index with the run.
LEMMA TablesStep ==
  ASSUME Tables(Now), IndexIsDerived(Now), SequenceOK, RebuildOK, [IndexNext]_indexVars
  PROVE  Tables(Now)' /\ IndexIsDerived(Now)'
<1>0. ArchiveMoves
  BY MovesStep
<1>1. archive' \in [Runs -> {NoRow} \cup ArchiveRows] /\ pending \in [Runs -> {NoRow} \cup PendingRows]
  BY Zenon, <1>0 DEF ArchiveMoves, SequenceOK
<1>2. Tables([archive |-> archive', index |-> index, rows |-> rows])
  BY <1>1 DEF Tables, Now
<1>3. \A r \in Runs : archive[r].made => archive[r] \in ArchiveRows
  <2>1. Now.archive = archive
    BY DEF Now
  <2> QED
    BY Zenon, <2>1, MadeRows
<1>4. ASSUME UNCHANGED <<archive, index, rows>> PROVE Tables(Now)' /\ IndexIsDerived(Now)'
  <2>1. Now' = Now
    BY <1>4 DEF Now
  <2> QED
    BY <2>1 DEF Tables, IndexIsDerived
<1>5. ASSUME NEW r \in Runs, NEW v \in Versions, RepairStoredIndex(r, v)
      PROVE  Tables(Now)' /\ IndexIsDerived(Now)'
  <2>1. archive' = archive /\ archive[r].made /\ ReplaceQueryIndex(r, archive[r].fp, archive[r].fp, v)
    BY Zenon, <1>5 DEF RepairStoredIndex
  <2>2. archive[r].fp \in DOMAIN Executions
    BY Zenon, <1>3, <2>1, RowShapes
  <2> QED
    BY Zenon, <1>2, <2>1, <2>2, ReplaceStep
<1>6. ASSUME NEW r \in Runs, CommitRun(r) PROVE Tables(Now)' /\ IndexIsDerived(Now)'
  <2> DEFINE row == [made |-> TRUE, seq |-> pending[r].seq, fp |-> pending[r].fp]
  <2>1. CASE archive' = [archive EXCEPT ![r] = row] /\ ReplaceQueryIndex(r, pending[r].fp, pending[r].fp, pending[r].version)
    <3>1. pending[r].made
      BY Zenon, <1>6 DEF CommitRun
    <3>2. pending[r] \in {NoRow} \cup PendingRows
      BY <1>1
    <3>3. pending[r].fp \in DOMAIN Executions /\ pending[r].version \in Versions
      BY Zenon, <3>1, <3>2, RowShapes
    <3>4. row.made
      BY Zenon
    <3>5. DOMAIN archive = Runs
      BY DEF Tables, Now
    <3> HIDE DEF row
    <3>6. archive'[r] = row /\ \A q \in Runs \ {r} : archive'[q] = archive[q]
      BY Zenon, <2>1, <3>5
    <3>7. archive'[r].made
      BY Zenon, <3>4, <3>6
    <3> QED
      BY Zenon, <1>2, <2>1, <3>3, <3>6, <3>7, ReplaceStep
  <2> QED
    BY Zenon, <1>4, <1>6, <2>1 DEF CommitRun
<1>7. ASSUME NEW r \in Runs, DeleteRun(r) PROVE Tables(Now)' /\ IndexIsDerived(Now)'
  <2>1. /\ archive' = [archive EXCEPT ![r] = NoRow] /\ index' = [index EXCEPT ![r] = NoRow]
        /\ rows' = {o \in rows : o.run # r}
    BY Zenon, <1>7 DEF DeleteRun
  <2>2. /\ index \in [Runs -> {NoRow} \cup HeadRows] /\ rows \subseteq AllRows /\ DOMAIN archive = Runs
    BY DEF Tables, Now
  <2>3. /\ index' \in [Runs -> {NoRow} \cup HeadRows] /\ rows' \subseteq AllRows
        /\ index'[r] = NoRow /\ archive'[r] = NoRow
        /\ \A q \in Runs \ {r} : index'[q] = index[q] /\ archive'[q] = archive[q]
    BY <2>1, <2>2
  <2>4. Tables(Now)'
    BY <1>1, <2>3 DEF Tables, Now
  <2>5. ASSUME NEW q \in Runs
        PROVE  /\ archive'[q].made <=> index'[q].made
               /\ {o \in rows' : o.run = q} = IF index'[q].made THEN Derived(q, index'[q].fp, index'[q].version) ELSE {}
    <3>1. CASE q = r
      <4>1. {o \in rows' : o.run = r} = {}
        BY Zenon, <2>1
      <4> QED
        BY Zenon, <2>3, <3>1, <4>1, RowShapes
    <3>2. CASE q # r
      <4>1. {o \in rows' : o.run = q} = {o \in rows : o.run = q}
        BY <2>1, <3>2
      <4>2. /\ archive[q].made <=> index[q].made
            /\ {o \in rows : o.run = q} = IF index[q].made THEN Derived(q, index[q].fp, index[q].version) ELSE {}
        BY DEF IndexIsDerived, Now
      <4> QED
        BY Zenon, <2>3, <3>2, <4>1, <4>2
    <3> QED
      BY <3>1, <3>2
  <2> QED
    BY <2>4, <2>5 DEF IndexIsDerived, Now
<1>8. ASSUME RebuildOne PROVE Tables(Now)' /\ IndexIsDerived(Now)'
  <2>1. PICK q \in rebuild.queue :
          \/ archive[q.run].made /\ ReplaceQueryIndex(q.run, archive[q.run].fp, q.fp, rebuild.version)
          \/ UNCHANGED <<index, rows>>
    BY Zenon, <1>8 DEF RebuildOne
  <2>2. archive' = archive /\ rebuild.pc = "pass"
    BY Zenon, <1>8 DEF RebuildOne
  <2>3. archive[q.run].made /\ archive[q.run].fp = q.fp /\ rebuild.version \in Versions
    BY Zenon, <2>2 DEF RebuildOK
  <2>4. q.run \in Runs
    BY DEF RebuildOK, Rebuilds
  <2>5. q.fp \in DOMAIN Executions
    BY Zenon, <1>3, <2>3, <2>4, RowShapes
  <2> QED
    BY Zenon, <1>2, <1>4, <2>1, <2>2, <2>3, <2>4, <2>5, ReplaceStep
<1> QED
  BY Zenon, <1>4, <1>5, <1>6, <1>7, <1>8
  DEF IndexNext, indexVars, TakeSequence, StartWalk, Gate, Answer, StartPass, EndPass, VerifyLoad, VerifyHead, VerifyRows
--------------------------------------------------------------------------------
(* Rebuilding and comparing *)

\* The shared lease of a pass keeps the runs it read where they are.
LEMMA NoDeleteInPass ==
  ASSUME Tables(Now), SequenceOK, rebuild.pc = "pass", [IndexNext]_indexVars
  PROVE  \A r \in Runs : archive[r].made => archive'[r] = archive[r]
<1>1. DOMAIN archive = Runs
  BY DEF Tables, Now
<1>2. ASSUME NEW q \in Runs, CommitRun(q) PROVE \A r \in Runs : archive[r].made => archive'[r] = archive[r]
  BY Zenon, <1>1, <1>2 DEF CommitRun, SequenceOK
<1>3. ASSUME UNCHANGED archive PROVE \A r \in Runs : archive[r].made => archive'[r] = archive[r]
  BY Zenon, <1>3
<1> QED
  BY Zenon, <1>2, <1>3
  DEF IndexNext, indexVars, TakeSequence, DeleteRun, RepairStoredIndex, StartWalk, Gate, Answer, StartPass, RebuildOne,
      EndPass, VerifyLoad, VerifyHead, VerifyRows

\* A pass takes the first runs after where the last one ended.
LEMMA StartPassStep ==
  ASSUME Tables(Now), SequenceOK, RebuildOK, NEW v \in Versions, NEW afresh \in BOOLEAN, StartPass(v, afresh)
  PROVE  RebuildOK'
<1> DEFINE after == IF afresh THEN 0 ELSE rebuild.after
           found == {[run |-> r, seq |-> archive[r].seq, fp |-> archive[r].fp] :
                       r \in {q \in Archived : archive[q].seq > after}}
           left  == rebuild.left - (IF afresh THEN 1 ELSE 0)
           ver   == IF afresh THEN v ELSE rebuild.version
           P     == IF afresh THEN {[run |-> r, seq |-> archive[r].seq] : r \in Archived} ELSE rebuild.present
           C     == IF afresh THEN {} ELSE rebuild.covered
<1>1. PICK taken \in SUBSET found, n \in 0 .. sequence :
        /\ \A x \in taken, y \in found \ taken : x.seq < y.seq
        /\ IF taken = {} THEN n = after ELSE LastSequence(n, taken, found)
        /\ rebuild' = [pc |-> "pass", left |-> left, version |-> ver, queue |-> taken, after |-> n,
                       more |-> taken # found, present |-> P, covered |-> C]
  BY Zenon DEF StartPass
<1>2. UNCHANGED <<sequence, archive, pending>> /\ rebuild.pc = "idle" /\ (afresh => rebuild.left > 0) /\ (~afresh => rebuild.more)
  BY Zenon DEF StartPass
<1>3. rebuild \in Rebuilds
  BY DEF RebuildOK
<1>4. left \in Nat /\ ver \in Versions /\ C \in SUBSET Runs /\ after \in Nat
  BY <1>2, <1>3 DEF Rebuilds, RebuildOK
<1>5. PresentOK(P) /\ \A r \in Archived : r \in Runs /\ archive[r] \in ArchiveRows /\ archive[r].made
  BY Zenon, PresentNow DEF RebuildOK, Archived
<1>6. ASSUME NEW q \in found
      PROVE  /\ q \in [run : Runs, seq : Nat \ {0}, fp : DOMAIN Executions]
             /\ archive[q.run].made /\ archive[q.run].fp = q.fp
  <2>1. PICK r \in Archived : q = [run |-> r, seq |-> archive[r].seq, fp |-> archive[r].fp]
    BY Zenon
  <2>2. archive[r].seq \in Nat \ {0} /\ archive[r].fp \in DOMAIN Executions
    BY Zenon, <1>5, RowShapes
  <2>3. q.run = r /\ q.fp = archive[r].fp
    BY <2>1
  <2> QED
    BY <1>5, <2>1, <2>2, <2>3
<1>7. n \in Nat
  BY DEF SequenceOK
<1>8. P \in SUBSET Entries
  BY Zenon, <1>5 DEF PresentOK
<1>9. ASSUME NEW p \in P, Stayed(p), p.run \notin C
      PROVE  (\E q \in taken : q.run = p.run) \/ (taken # found /\ p.seq > n)
  <2>1. p \in Entries /\ p.run \in Runs /\ p.seq \in Nat \ {0} /\ p.run \in Archived
    BY <1>8, <1>9 DEF Entries, Stayed, Archived
  <2>2. p.seq > after
    <3>1. CASE afresh
      BY <2>1, <3>1
    <3>2. CASE ~afresh
      BY Zenon, <1>2, <1>9, <3>2 DEF RebuildOK
    <3> QED
      BY <3>1, <3>2
  <2> DEFINE e == [run |-> p.run, seq |-> archive[p.run].seq, fp |-> archive[p.run].fp]
  <2>3. archive[p.run].seq = p.seq
    BY Zenon, <1>9 DEF Stayed
  <2>4. e \in found
    BY Zenon, <2>1, <2>2, <2>3
  <2>5. e.run = p.run /\ e.seq = p.seq
    BY <2>3
  <2> HIDE DEF e, found, after
  <2>6. CASE e \notin taken
    <3>1. CASE taken = {}
      BY Zenon, <1>1, <2>2, <2>4, <2>6, <3>1
    <3>2. CASE taken # {}
      <4>1. PICK x \in taken : n = x.seq
        BY Zenon, <1>1, <3>2 DEF LastSequence
      <4>2. n < p.seq
        BY Zenon, <1>1, <2>4, <2>5, <2>6, <4>1
      <4> QED
        BY <1>7, <2>1, <2>4, <2>6, <4>2
    <3> QED
      BY <3>1, <3>2
  <2> QED
    BY Zenon, <2>5, <2>6
<1> HIDE DEF after, found, left, ver, P, C
<1>10. taken \subseteq [run : Runs, seq : Nat \ {0}, fp : DOMAIN Executions]
  BY Zenon, <1>6
<1>11. rebuild' \in Rebuilds
  BY <1>1, <1>4, <1>7, <1>8, <1>10 DEF Rebuilds
<1>12. /\ rebuild'.pc = "pass" /\ rebuild'.queue = taken /\ rebuild'.present = P /\ rebuild'.version = ver
       /\ rebuild'.after = n /\ rebuild'.covered = C /\ rebuild'.more = (taken # found)
  BY Zenon, <1>1
<1>13. PresentOK(rebuild.present)'
  BY Zenon, <1>2, <1>5, <1>12 DEF PresentOK
<1>14. \A q \in taken : archive'[q.run].made /\ archive'[q.run].fp = q.fp
  BY Zenon, <1>2, <1>6
<1>15. ASSUME NEW p \in P, Stayed(p)'
       PROVE  p.run \in C \/ (\E q \in taken : q.run = p.run) \/ (taken # found /\ p.seq > n)
  <2>1. Stayed(p)
    BY Zenon, <1>2, <1>15 DEF Stayed
  <2> QED
    BY Zenon, <1>9, <2>1
<1>16. \A p \in rebuild'.present : Stayed(p)' =>
         \/ p.run \in rebuild'.covered
         \/ \E q \in rebuild'.queue : q.run = p.run
         \/ rebuild'.more /\ p.seq > rebuild'.after
  BY Zenon, <1>12, <1>15
<1> QED
  BY Zenon, <1>4, <1>11, <1>12, <1>13, <1>14, <1>16 DEF RebuildOK

\* One run of the pass is replaced or named in the problems.
LEMMA RebuildOneStep ==
  ASSUME Tables(Now), SequenceOK, RebuildOK, RebuildOne
  PROVE  RebuildOK'
<1>1. PICK next \in rebuild.queue :
        rebuild' = [rebuild EXCEPT !.queue = @ \ {next}, !.covered = @ \cup {next.run}]
  BY Zenon DEF RebuildOne
<1>2. UNCHANGED <<sequence, archive, pending>> /\ rebuild.pc = "pass" /\ rebuild \in Rebuilds
  BY Zenon DEF RebuildOne, RebuildOK
<1>3. next.run \in Runs
  BY <1>2 DEF Rebuilds
<1>4. rebuild' \in Rebuilds
  BY Zenon, <1>1, <1>2, <1>3 DEF Rebuilds
<1>5. /\ rebuild'.queue = rebuild.queue \ {next} /\ rebuild'.covered = rebuild.covered \cup {next.run}
      /\ rebuild'.pc = rebuild.pc /\ rebuild'.present = rebuild.present /\ rebuild'.more = rebuild.more
      /\ rebuild'.after = rebuild.after /\ rebuild'.version = rebuild.version
  BY <1>1, <1>2 DEF Rebuilds
<1>6. PresentOK(rebuild.present)'
  BY Zenon, <1>2, <1>5 DEF PresentOK, RebuildOK
<1>7. ASSUME NEW p \in rebuild'.present, Stayed(p)'
      PROVE  \/ p.run \in rebuild'.covered
             \/ \E q \in rebuild'.queue : q.run = p.run
             \/ rebuild'.more /\ p.seq > rebuild'.after
  <2>1. Stayed(p) /\ p \in rebuild.present
    BY Zenon, <1>2, <1>5, <1>7 DEF Stayed
  <2>2. \A q \in rebuild.queue : q \in rebuild'.queue \/ q.run \in rebuild'.covered
    BY <1>5
  <2> QED
    BY Zenon, <1>5, <2>1, <2>2 DEF RebuildOK
<1>8. \A q \in rebuild'.queue : archive'[q.run].made /\ archive'[q.run].fp = q.fp
  BY Zenon, <1>2, <1>5 DEF RebuildOK
<1> QED
  BY Zenon, <1>2, <1>4, <1>5, <1>6, <1>7, <1>8 DEF RebuildOK

\* The rebuild beside everything else.
LEMMA RebuildStep ==
  ASSUME Tables(Now), SequenceOK, RebuildOK, [IndexNext]_indexVars
  PROVE  RebuildOK'
<1>1. ArchiveMoves
  BY MovesStep
<1>2. CASE UNCHANGED rebuild
  <2>1. PresentOK(rebuild.present)' /\ \A p \in rebuild.present : Stayed(p)' => Stayed(p)
    BY Zenon, <1>1, <1>2, StayedStep DEF RebuildOK
  <2>2. ASSUME NEW q \in rebuild.queue PROVE archive'[q.run].made /\ archive'[q.run].fp = q.fp
    <3>1. rebuild.pc = "pass"
      BY Zenon DEF RebuildOK, Rebuilds
    <3>2. q.run \in Runs
      BY DEF RebuildOK, Rebuilds
    <3>3. archive[q.run].made /\ archive[q.run].fp = q.fp
      BY Zenon DEF RebuildOK
    <3>4. archive'[q.run] = archive[q.run]
      BY Zenon, <3>1, <3>2, <3>3, NoDeleteInPass
    <3> QED
      BY Zenon, <3>3, <3>4
  <2> QED
    BY Zenon, <1>2, <2>1, <2>2 DEF RebuildOK
<1>3. CASE EndPass
  <2>1. rebuild' = [rebuild EXCEPT !.pc = "idle"] /\ rebuild.queue = {} /\ rebuild.pc = "pass"
        /\ UNCHANGED <<sequence, archive, pending>> /\ rebuild \in Rebuilds
    BY Zenon, <1>3 DEF EndPass, RebuildOK
  <2>2. /\ rebuild' \in Rebuilds /\ rebuild'.pc = "idle"
        /\ rebuild'.queue = rebuild.queue /\ rebuild'.covered = rebuild.covered
        /\ rebuild'.present = rebuild.present /\ rebuild'.more = rebuild.more
        /\ rebuild'.after = rebuild.after /\ rebuild'.version = rebuild.version
    BY <2>1 DEF Rebuilds
  <2>3. PresentOK(rebuild.present)' /\ \A p \in rebuild.present : Stayed(p)' => Stayed(p)
    BY Zenon, <2>1, <2>2 DEF PresentOK, RebuildOK, Stayed
  <2> QED
    BY Zenon, <2>1, <2>2, <2>3 DEF RebuildOK
<1> QED
  BY Zenon, <1>2, <1>3, StartPassStep, RebuildOneStep
  DEF IndexNext, indexVars, TakeSequence, CommitRun, DeleteRun, RepairStoredIndex, StartWalk, Gate, Answer, VerifyLoad,
      VerifyHead, VerifyRows

\* The head row that was read decides what the comparison says before its rows.
LEMMA VerifyStep == ASSUME VerifyOK, [IndexNext]_indexVars PROVE VerifyOK'
<1>1. CASE UNCHANGED verify
  BY Zenon, <1>1 DEF VerifyOK
<1>2. ASSUME NEW r \in Runs, NEW v \in Versions, VerifyLoad(r, v) PROVE VerifyOK'
  BY <1>2 DEF VerifyLoad, VerifyOK
<1>3. CASE VerifyHead
  BY Zenon, <1>3 DEF VerifyHead, VerifyOK
<1>4. CASE VerifyRows
  BY SMTT(60), <1>4 DEF VerifyRows, VerifyOK
<1> QED
  BY Zenon, <1>1, <1>2, <1>3, <1>4
  DEF IndexNext, indexVars, TakeSequence, CommitRun, DeleteRun, RepairStoredIndex, StartWalk, Gate, Answer, StartPass,
      RebuildOne, EndPass
--------------------------------------------------------------------------------
(* Listings *)

\* The parts of a timestamp the validator accepts.
LEMMA StampParts ==
  ASSUME NEW t \in Stamps
  PROVE  /\ t.day \in Int /\ t.minute \in Int /\ t.offset \in Int
         /\ t.second \in 0 .. 60 /\ t.ms \in 0 .. 999
BY SMTT(60) DEF Stamps, Acceptable

\* Where historyInstant puts a timestamp the validator accepts.
LEMMA InstantPlace ==
  ASSUME NEW t \in Stamps
  PROVE  HistoryInstant(t).epochMs \in Int /\ HistoryInstant(t).leap \in Int
BY SMTT(30) DEF Stamps, HistoryInstant, DateParse

Placed(o) == o.at.epochMs \in Int /\ o.at.leap \in Int /\ o.run \in Nat /\ o.execution \in Nat

\* The order of histories is a strict order on the places of occurrences.
LEMMA BeforeOrder ==
  ASSUME NEW a, NEW b, NEW c, Placed(a), Placed(b), Placed(c)
  PROVE  /\ Before(a, b) /\ Before(b, c) => Before(a, c)
         /\ Before(a, b) => ~(a.at = b.at /\ a.run = b.run /\ a.execution = b.execution)
BY DEF Placed, Before

\* historyInstant keeps the order of the producers' clocks, leap seconds included.
LEMMA TimeOrder ==
  ASSUME NEW s \in Stamps, NEW t \in Stamps, NEW a, NEW b,
         a.at = HistoryInstant(s), b.at = HistoryInstant(t), Before(a, b)
  PROVE  InTimeOrder(s, t)
<1> DEFINE x == HistoryInstant(s)
           y == HistoryInstant(t)
<1>1. x.epochMs < y.epochMs \/ (x.epochMs = y.epochMs /\ x.leap <= y.leap)
  <2>1. x.epochMs \in Int /\ x.leap \in Int /\ y.epochMs \in Int /\ y.leap \in Int
    BY ZenonT(60), InstantPlace
  <2> HIDE DEF x, y
  <2> QED
    BY SMTT(30), <2>1 DEF Before, x, y
<1>2. /\ s.day \in Int /\ s.minute \in Int /\ s.offset \in Int /\ s.second \in 0 .. 60 /\ s.ms \in 0 .. 999
      /\ t.day \in Int /\ t.minute \in Int /\ t.offset \in Int /\ t.second \in 0 .. 60 /\ t.ms \in 0 .. 999
  BY SMTT(60), StampParts
<1> DEFINE u == s.day * 1440 + s.minute - s.offset
           w == t.day * 1440 + t.minute - t.offset
<1>3. u \in Int /\ w \in Int
  BY <1>2
<1>4. /\ s.second < 60 => x.epochMs = (u * 60 + s.second) * 1000 + s.ms /\ x.leap = 0
      /\ s.second = 60 => x.epochMs = (u * 60 + 59) * 1000 + 999 /\ x.leap = 1 + s.ms
  BY <1>2 DEF HistoryInstant, DateParse, Stamps
<1>5. /\ t.second < 60 => y.epochMs = (w * 60 + t.second) * 1000 + t.ms /\ y.leap = 0
      /\ t.second = 60 => y.epochMs = (w * 60 + 59) * 1000 + 999 /\ y.leap = 1 + t.ms
  BY <1>2 DEF HistoryInstant, DateParse, Stamps
<1> HIDE DEF u, w, x, y
<1>6. u < w \/ (u = w /\ s.second < t.second) \/ (u = w /\ s.second = t.second /\ s.ms <= t.ms)
  <2>1. PICK i \in Int, j \in Int : i = u /\ j = w
    BY Zenon, <1>3
  <2>2. PICK g, m : g = s.second /\ m = s.ms
    BY Zenon
  <2>3. PICK h, n : h = t.second /\ n = t.ms
    BY ZenonT(60)
  <2>4. g \in 0 .. 60 /\ h \in 0 .. 60 /\ m \in 0 .. 999 /\ n \in 0 .. 999
    BY <1>2, <2>2, <2>3
  <2>5. PICK e \in Int, f \in Int, k \in Int, l \in Int :
          e = x.epochMs /\ f = y.epochMs /\ k = x.leap /\ l = y.leap
    BY Zenon, InstantPlace DEF x, y
  <2>6. e < f \/ (e = f /\ k <= l)
    BY Zenon, <1>1, <2>5
  <2>7. /\ g < 60 => e = (i * 60 + g) * 1000 + m /\ k = 0
        /\ g = 60 => e = (i * 60 + 59) * 1000 + 999 /\ k = 1 + m
    BY <1>4, <2>1, <2>2, <2>5
  <2>8. /\ h < 60 => f = (j * 60 + h) * 1000 + n /\ l = 0
        /\ h = 60 => f = (j * 60 + 59) * 1000 + 999 /\ l = 1 + n
    BY SMTT(60), <1>5, <2>1, <2>5, <2>3
  <2>9. i < j \/ (i = j /\ g < h) \/ (i = j /\ g = h /\ m <= n)
    <3>1. CASE g < 60 /\ h < 60
      BY SMTT(60), <2>6, <2>7, <2>8, <2>4, <3>1
    <3>2. CASE g < 60 /\ h = 60
      BY SMTT(60), <2>6, <2>7, <2>8, <2>4, <3>2
    <3>3. CASE g = 60 /\ h < 60
      BY SMTT(60), <2>6, <2>7, <2>8, <2>4, <3>3
    <3>4. CASE g = 60 /\ h = 60
      BY SMTT(60), <2>6, <2>7, <2>8, <2>4, <3>4
    <3> QED
      BY SMTT(60), <2>4, <3>1, <3>2, <3>3, <3>4
  <2> QED
    BY Zenon, <2>1, <2>2, <2>9, <2>3
<1> QED
  BY <1>6 DEF InTimeOrder, u, w

\* Every row that is found is of an archived run, and what should be shown after
\* the cursor is found.
OnlyArchived(st, v, listing, cursor) ==
  \A o \in Rows(st, v, listing, cursor) :
    \E r \in Runs : st.archive[r].made /\ Shown(listing, o) \in OfRun(listing, r, st.archive[r])
NothingLeftOut(st, v, listing, cursor) ==
  \A r \in Runs : st.archive[r].made => \A x \in OfRun(listing, r, st.archive[r]) :
    Ahead(listing, cursor, x) => \E o \in Rows(st, v, listing, cursor) : x = Shown(listing, o)

\* The gate of listRuns lets through what can be answered from the joined rows.
LEMMA RunsFound ==
  ASSUME NEW st, NEW v, Whole(st, v), NEW listing, listing.k = "runs", NEW cursor
  PROVE  /\ \A o \in Rows(st, v, listing, cursor) : o \in Entries /\ (cursor.made => o.seq < cursor.position.seq)
         /\ OnlyArchived(st, v, listing, cursor) /\ NothingLeftOut(st, v, listing, cursor)
<1> DEFINE asked == {q \in Runs : /\ st.archive[q].made /\ CurrentFor(st, q, v)
                                  /\ cursor.made => st.archive[q].seq < cursor.position.seq}
<1>1. Rows(st, v, listing, cursor) = {[run |-> r, seq |-> st.archive[r].seq] : r \in asked}
  BY Zenon DEF Rows, RunRows
<1>2. \A o : Shown(listing, o) = o
  BY DEF Shown
<1>3. \A r : OfRun(listing, r, st.archive[r]) = {[run |-> r, seq |-> st.archive[r].seq]}
  BY DEF OfRun
<1>4. ASSUME NEW o \in Rows(st, v, listing, cursor)
      PROVE  /\ o \in Entries /\ (cursor.made => o.seq < cursor.position.seq)
             /\ \E r \in Runs : st.archive[r].made /\ Shown(listing, o) \in OfRun(listing, r, st.archive[r])
  <2>1. PICK r \in asked : o = [run |-> r, seq |-> st.archive[r].seq]
    BY Zenon, <1>1
  <2>2. r \in Runs /\ st.archive[r].made /\ (cursor.made => st.archive[r].seq < cursor.position.seq)
    BY <2>1
  <2>3. st.archive[r].seq \in Nat \ {0}
    BY Zenon, <2>2, MadeRows, RowShapes DEF Whole
  <2>4. o \in Entries /\ o.seq = st.archive[r].seq
    BY <2>1, <2>2, <2>3 DEF Entries
  <2> QED
    BY Zenon, <1>2, <1>3, <2>1, <2>2, <2>4
<1>5. ASSUME NEW r \in Runs, st.archive[r].made, NEW x \in OfRun(listing, r, st.archive[r]), Ahead(listing, cursor, x)
      PROVE  \E o \in Rows(st, v, listing, cursor) : x = Shown(listing, o)
  <2>1. x = [run |-> r, seq |-> st.archive[r].seq]
    BY Zenon, <1>3, <1>5
  <2>2. cursor.made => st.archive[r].seq < cursor.position.seq
    BY <1>5, <2>1 DEF Ahead
  <2>3. r \in asked
    BY Zenon, <1>5, <2>2 DEF Whole
  <2> QED
    BY Zenon, <1>1, <1>2, <2>1, <2>3
<1> QED
  BY Zenon, <1>4, <1>5 DEF OnlyArchived, NothingLeftOut
\* The same for the occurrences of a test, which are joined with nothing.
LEMMA OccurrencesFound ==
  ASSUME NEW st, NEW v, Whole(st, v), NEW listing, listing.k # "runs", NEW cursor,
         cursor.made => listing.k = "history"
  PROVE  /\ \A o \in Rows(st, v, listing, cursor) : o \in AllRows /\ (cursor.made => Before(cursor.position, o))
         /\ OnlyArchived(st, v, listing, cursor) /\ NothingLeftOut(st, v, listing, cursor)
<1>1. Rows(st, v, listing, cursor) =
        {o \in st.rows : o.version = v /\ o.test = listing.test /\ (cursor.made => Before(cursor.position, o))}
  <2>1. CASE listing.k = "history"
    BY Zenon, <2>1 DEF Rows, HistoryRows, Follows
  <2>2. CASE listing.k # "history"
    BY Zenon, <2>2, RowShapes DEF Rows, FlakinessRows, HistoryRows
  <2> QED
    BY <2>1, <2>2
<1>2. \A o : Shown(listing, o) = [run |-> o.run, execution |-> o.execution, when |-> o.when]
  BY Zenon DEF Shown
<1>4. ASSUME NEW r \in Runs, st.archive[r].made
      PROVE  {o \in st.rows : o.run = r} = Derived(r, st.archive[r].fp, v)
  BY Zenon, <1>4 DEF Whole, IndexIsDerived, CurrentFor
<1>5. ASSUME NEW o \in Rows(st, v, listing, cursor)
      PROVE  /\ o \in AllRows /\ (cursor.made => Before(cursor.position, o))
             /\ \E r \in Runs : st.archive[r].made /\ Shown(listing, o) \in OfRun(listing, r, st.archive[r])
  <2>1. o \in st.rows /\ o \in AllRows /\ o.test = listing.test /\ (cursor.made => Before(cursor.position, o))
    BY <1>1 DEF Whole, Tables
  <2> DEFINE r == o.run
  <2>2. r \in Runs /\ o \in {q \in st.rows : q.run = r}
    BY Zenon, <2>1, RowFacts
  <2>3. st.archive[r].made
    BY Zenon, <2>2 DEF Whole, IndexIsDerived
  <2>4. o \in Derived(r, st.archive[r].fp, v)
    BY Zenon, <1>4, <2>2, <2>3
  <2>5. PICK e \in Executions[st.archive[r].fp] :
          o = [run |-> r, execution |-> e.execution, test |-> e.test, when |-> e.when,
               at |-> HistoryInstant(e.when), version |-> v]
    BY Zenon, <2>4 DEF Derived
  <2>6. o.execution = e.execution /\ o.when = e.when /\ e.test = listing.test
    BY <2>1, <2>5
  <2>7. Shown(listing, o) \in OfRun(listing, r, st.archive[r])
    <3>1. Shown(listing, o) = [run |-> r, execution |-> e.execution, when |-> e.when]
      BY Zenon, <1>2, <2>6
    <3> QED
      BY <2>6, <3>1 DEF OfRun
  <2> QED
    BY Zenon, <2>1, <2>2, <2>3, <2>7
<1>6. ASSUME NEW r \in Runs, st.archive[r].made, NEW x \in OfRun(listing, r, st.archive[r]), Ahead(listing, cursor, x)
      PROVE  \E o \in Rows(st, v, listing, cursor) : x = Shown(listing, o)
  <2>1. PICK e \in Executions[st.archive[r].fp] :
          e.test = listing.test /\ x = [run |-> r, execution |-> e.execution, when |-> e.when]
    BY <1>6 DEF OfRun
  <2> DEFINE o == [run |-> r, execution |-> e.execution, test |-> e.test, when |-> e.when,
                   at |-> HistoryInstant(e.when), version |-> v]
  <2>2. o \in Derived(r, st.archive[r].fp, v)
    BY Zenon DEF Derived
  <2>3. o \in st.rows
    BY Zenon, <1>4, <1>6, <2>2
  <2>4. /\ o.run = r /\ o.execution = e.execution /\ o.test = e.test /\ o.when = e.when
        /\ o.at = HistoryInstant(e.when) /\ o.version = v
    BY Zenon
  <2>5. x.run = r /\ x.execution = e.execution /\ x.when = e.when
    BY Zenon, <2>1
  <2> HIDE DEF o
  <2>6. cursor.made => Before(cursor.position, o)
    <3> SUFFICES ASSUME cursor.made PROVE Before(cursor.position, o)
      OBVIOUS
    <3> DEFINE y == [at |-> HistoryInstant(x.when), run |-> x.run, execution |-> x.execution]
    <3>1. y.at = o.at /\ y.run = o.run /\ y.execution = o.execution
      BY <2>4, <2>5
    <3>2. Before(cursor.position, y)
      BY Zenon, <1>6 DEF Ahead
    <3> HIDE DEF y
    <3> QED
      BY Zenon, <3>1, <3>2 DEF Before
  <2>7. o \in Rows(st, v, listing, cursor)
    BY Zenon, <1>1, <2>1, <2>3, <2>4, <2>6
  <2>8. x = Shown(listing, o)
    BY Zenon, <1>2, <2>1, <2>4
  <2> QED
    BY Zenon, <2>7, <2>8
<1> QED
  BY Zenon, <1>5, <1>6 DEF OnlyArchived, NothingLeftOut
\* An occurrence that follows another in a history was not shown before it and
\* does not happen before it.
LEMMA RowsInOrder ==
  ASSUME NEW a \in AllRows, NEW b \in AllRows
  PROVE  /\ Placed(a)
         /\ Before(a, b) => InTimeOrder(a.when, b.when)
         /\ Before(a, b) => ~(a.run = b.run /\ a.execution = b.execution /\ a.when = b.when)
<1>1. /\ a.run \in Nat /\ a.execution \in Nat /\ a.when \in Stamps /\ a.at = HistoryInstant(a.when)
      /\ b.run \in Nat /\ b.execution \in Nat /\ b.when \in Stamps /\ b.at = HistoryInstant(b.when)
  BY Zenon, RowFacts
<1>2. /\ a.at.epochMs \in Int /\ a.at.leap \in Int /\ b.at.epochMs \in Int /\ b.at.leap \in Int
  BY Zenon, <1>1, InstantPlace
<1>3. Placed(a) /\ Placed(b)
  BY Zenon, <1>1, <1>2 DEF Placed
<1>4. Before(a, b) => InTimeOrder(a.when, b.when)
  BY Zenon, <1>1, TimeOrder
<1>5. Before(a, b) => ~(a.run = b.run /\ a.execution = b.execution /\ a.when = b.when)
  BY Zenon, <1>1, <1>3, BeforeOrder
<1> QED
  BY <1>3, <1>4, <1>5

\* A listing's order is transitive.
LEMMA PrecedesTransitive ==
  ASSUME NEW listing, NEW a \in RowsOf(listing), NEW b \in RowsOf(listing), NEW c \in RowsOf(listing),
         Precedes(listing, a, b), Precedes(listing, b, c)
  PROVE  Precedes(listing, a, c)
<1>1. CASE listing.k = "runs"
  BY <1>1 DEF Precedes, RowsOf, Entries
<1>2. CASE listing.k # "runs"
  <2>1. a \in AllRows /\ b \in AllRows /\ c \in AllRows /\ Before(a, b) /\ Before(b, c)
    BY Zenon, <1>2 DEF Precedes, RowsOf
  <2>2. Before(a, c)
    BY Zenon, <2>1, RowsInOrder, BeforeOrder
  <2> QED
    BY Zenon, <1>2, <2>2 DEF Precedes
<1> QED
  BY <1>1, <1>2

\* The cursor behind a row stands where the row stands.
LEMMA CursorAt ==
  ASSUME NEW listing, NEW last \in RowsOf(listing), NEW cursor,
         cursor = EncodeCursor(listing, IF listing.k = "runs" THEN [seq |-> last.seq] ELSE last)
  PROVE  /\ cursor.made /\ cursor.b = listing
         /\ cursor.position \in IF listing.k = "runs" THEN [seq : Nat \ {0}] ELSE AllRows
         /\ Passed(listing, cursor, last)
         /\ \A o \in RowsOf(listing) : Precedes(listing, o, last) => Passed(listing, cursor, o)
         /\ \A o \in RowsOf(listing) : Precedes(listing, last, o) => Ahead(listing, cursor, Shown(listing, o))
<1>1. cursor.made /\ cursor.b = listing /\ cursor.position = IF listing.k = "runs" THEN [seq |-> last.seq] ELSE last
  BY Zenon DEF EncodeCursor
<1>2. CASE listing.k = "runs"
  <2>1. cursor.position = [seq |-> last.seq] /\ last.seq \in Nat \ {0} /\ RowsOf(listing) = Entries
    BY <1>1, <1>2 DEF RowsOf, Entries
  <2>2. cursor.position.seq = last.seq /\ cursor.position \in [seq : Nat \ {0}]
    BY <2>1
  <2>3. \A o \in Entries :
          (Precedes(listing, o, last) => o.seq >= last.seq) /\ (Precedes(listing, last, o) => o.seq < last.seq)
    BY <1>2, <2>1 DEF Precedes, Entries
  <2>4. last.seq >= last.seq
    BY <2>1
  <2>5. \A o : Shown(listing, o) = o
    BY Zenon, <1>2 DEF Shown
  <2>6. \A o : Passed(listing, cursor, o) <=> o.seq >= last.seq
    BY Zenon, <1>2, <2>2 DEF Passed
  <2>7. \A o : o.seq < last.seq => Ahead(listing, cursor, Shown(listing, o))
    BY Zenon, <1>2, <2>2, <2>5 DEF Ahead
  <2>8. cursor.position \in IF listing.k = "runs" THEN [seq : Nat \ {0}] ELSE AllRows
    BY Zenon, <1>2, <2>2
  <2> QED
    <3>1. \A o \in RowsOf(listing) : Precedes(listing, o, last) => Passed(listing, cursor, o)
      BY Zenon, <2>1, <2>3, <2>6
    <3>2. \A o \in RowsOf(listing) : Precedes(listing, last, o) => Ahead(listing, cursor, Shown(listing, o))
      BY Zenon, <2>1, <2>3, <2>7
    <3>3. Passed(listing, cursor, last)
      BY Zenon, <2>4, <2>6
    <3> QED
      BY Zenon, <1>1, <2>8, <3>1, <3>2, <3>3
<1>3. CASE listing.k # "runs"
  <2>1. cursor.position = last /\ last \in AllRows /\ RowsOf(listing) = AllRows
    BY Zenon, <1>1, <1>3 DEF RowsOf
  <2>2. ASSUME NEW o \in AllRows, Before(last, o) PROVE Ahead(listing, cursor, Shown(listing, o))
    <3> DEFINE x == Shown(listing, o)
               y == [at |-> HistoryInstant(x.when), run |-> x.run, execution |-> x.execution]
    <3>1. x.when = o.when /\ x.run = o.run /\ x.execution = o.execution
      BY <1>3 DEF Shown
    <3>2. y.at = o.at /\ y.run = o.run /\ y.execution = o.execution
      BY Zenon, <3>1, RowFacts
    <3>3. Before(last, y)
      BY Zenon, <2>2, <3>2 DEF Before
    <3> QED
      BY Zenon, <1>3, <2>1, <3>3 DEF Ahead
  <2> QED
    BY Zenon, <1>1, <1>3, <2>1, <2>2 DEF Passed, Precedes
<1> QED
  BY <1>2, <1>3

\* What a page can hold, and what is found behind a cursor follows what was shown.
LEMMA Found ==
  ASSUME NEW st, NEW v, Whole(st, v), NEW listing, NEW cursor,
         cursor.made => listing.k # "flakiness", listing \in Listings,
         cursor.made => cursor.position \in IF listing.k = "runs" THEN [seq : Nat \ {0}] ELSE AllRows
  PROVE  /\ Rows(st, v, listing, cursor) \subseteq RowsOf(listing)
         /\ OnlyArchived(st, v, listing, cursor) /\ NothingLeftOut(st, v, listing, cursor)
         /\ cursor.made => \A a \in RowsOf(listing), o \in Rows(st, v, listing, cursor) :
              Passed(listing, cursor, a) => Precedes(listing, a, o)
<1>1. CASE listing.k = "runs"
  <2>1. RowsOf(listing) = Entries
    BY Zenon, <1>1 DEF RowsOf
  <2>2. ASSUME cursor.made, NEW a \in Entries, NEW o \in Rows(st, v, listing, cursor), Passed(listing, cursor, a)
        PROVE  Precedes(listing, a, o)
    <3>1. o \in Entries /\ o.seq < cursor.position.seq /\ a.seq >= cursor.position.seq
      BY Zenon, <1>1, <2>2, RunsFound DEF Passed
    <3>2. cursor.position \in [seq : Nat \ {0}]
      BY Zenon, <1>1, <2>2
    <3>3. a.seq \in Nat /\ o.seq \in Nat /\ cursor.position.seq \in Nat
      BY <3>1, <3>2 DEF Entries
    <3>4. a.seq > o.seq
      BY <3>1, <3>3
    <3> QED
      BY Zenon, <1>1, <3>4 DEF Precedes
  <2>3. /\ \A o \in Rows(st, v, listing, cursor) : o \in Entries
        /\ OnlyArchived(st, v, listing, cursor) /\ NothingLeftOut(st, v, listing, cursor)
    BY Zenon, <1>1, RunsFound
  <2> QED
    BY Zenon, <2>1, <2>2, <2>3
<1>2. CASE listing.k # "runs"
  <2>1. RowsOf(listing) = AllRows /\ (cursor.made => listing.k = "history")
    <3>1. CASE listing = [k |-> "runs", test |-> ""]
      <4>1. listing.k = "runs"
        BY Zenon, <3>1
      <4> QED
        BY Zenon, <1>2, <4>1
    <3>2. CASE listing \in [k : {"history", "flakiness"}, test : Tests]
      <4>1. listing.k = "history" \/ listing.k = "flakiness"
        BY Zenon, <3>2
      <4> QED
        BY Zenon, <1>2, <4>1 DEF RowsOf
    <3> QED
      BY Zenon, <3>1, <3>2 DEF Listings
  <2>2. ASSUME cursor.made, NEW a \in AllRows, NEW o \in Rows(st, v, listing, cursor), Passed(listing, cursor, a)
        PROVE  Precedes(listing, a, o)
    <3>1. o \in AllRows /\ Before(cursor.position, o) /\ (a = cursor.position \/ Before(a, cursor.position))
      BY Zenon, <1>2, <2>1, <2>2, OccurrencesFound DEF Passed
    <3>2. cursor.position \in AllRows
      BY Zenon, <1>2, <2>2
    <3>3. Before(a, o)
      BY Zenon, <3>1, <3>2, RowsInOrder, BeforeOrder
    <3> QED
      BY Zenon, <1>2, <3>3 DEF Precedes
  <2>3. /\ \A o \in Rows(st, v, listing, cursor) : o \in AllRows
        /\ OnlyArchived(st, v, listing, cursor) /\ NothingLeftOut(st, v, listing, cursor)
    BY Zenon, <1>2, <2>1, OccurrencesFound
  <2> QED
    BY Zenon, <2>1, <2>2, <2>3
<1> QED
  BY <1>1, <1>2
\* One page behind the others.
LEMMA AppendPage ==
  ASSUME NEW S, NEW s \in Seq(S), NEW page \in S
  PROVE  /\ Append(s, page) \in Seq(S) /\ DOMAIN Append(s, page) = 1 .. Len(s) + 1 /\ DOMAIN s = 1 .. Len(s)
         /\ Len(s) \in Nat /\ Len(Append(s, page)) = Len(s) + 1
         /\ Append(s, page)[Len(s) + 1] = page
         /\ \A i \in DOMAIN s : Append(s, page)[i] = s[i]
OBVIOUS

\* Whatever is written between two questions, the walk is where it was.
LEMMA WalkStays ==
  ASSUME Tables(Now), SequenceOK, WalkInv, ArchiveMoves, UNCHANGED walk
  PROVE  WalkInv'
<1>1. /\ PresentOK(walk.present)'
      /\ \A p \in walk.present : Stayed(p)' => Stayed(p) /\ archive'[p.run] = archive[p.run]
  BY Zenon, StayedStep DEF WalkInv
<1>2. SnapshotOK'
  BY Zenon, <1>1 DEF WalkInv, SnapshotOK
<1>3. CursorOK'
  BY Zenon DEF WalkInv, CursorOK
<1>4. WalkOK'
  <2>2. \A x : OnPage(x)' <=> OnPage(x)
    BY Zenon DEF OnPage
  <2> SUFFICES ASSUME walk.pc \in {"ask", "gated", "done"}, NEW p \in walk.present, Stayed(p)',
                      NEW x \in OfRun(walk.listing, p.run, archive'[p.run])
               PROVE  OnPage(x) \/ (walk.pc # "done" /\ Ahead(walk.listing, walk.cursor, x))
    BY Zenon, <2>2 DEF WalkOK
  <2>1. Stayed(p) /\ x \in OfRun(walk.listing, p.run, archive[p.run])
    BY Zenon, <1>1
  <2> QED
    BY Zenon, <2>1 DEF WalkInv, WalkOK
<1> QED
  BY Zenon, <1>1, <1>2, <1>3, <1>4 DEF WalkInv

\* A walk begins with no page, and everything is ahead of it.
LEMMA StartWalkStep ==
  ASSUME Tables(Now), SequenceOK, WalkInv, NEW listing \in Listings, StartWalk(listing)
  PROVE  WalkInv'
<1> DEFINE P == {[run |-> r, seq |-> archive[r].seq] : r \in Archived}
<1>1. /\ walk' = [pc |-> "ask", left |-> walk.left - 1, listing |-> listing, cursor |-> NoRow,
                  pages |-> <<>>, version |-> 0, snapshot |-> NoRow, present |-> P]
      /\ walk.left > 0 /\ UNCHANGED <<sequence, archive, pending>>
  BY Zenon DEF StartWalk
<1>2. PresentOK(P) /\ P \in SUBSET Entries
  BY Zenon, PresentNow DEF PresentOK
<1> HIDE DEF P
<1>3. walk.left - 1 \in Nat
  BY <1>1 DEF WalkInv, Walks
<1>4. walk' \in Walks
  BY <1>1, <1>2, <1>3 DEF Walks
<1>5. /\ walk'.pc = "ask" /\ walk'.cursor = NoRow /\ walk'.pages = <<>> /\ walk'.present = P
  BY Zenon, <1>1
<1>6. DOMAIN walk'.pages = {}
  BY <1>5
<1>7. PresentOK(walk.present)'
  BY Zenon, <1>1, <1>2, <1>5 DEF PresentOK
<1>8. SnapshotOK'
  BY <1>5 DEF SnapshotOK
<1>9. CursorOK'
  BY Zenon, <1>5, <1>6, RowShapes DEF CursorOK
<1>10. WalkOK'
  <2>1. \A x : Ahead(walk'.listing, walk'.cursor, x)
    BY Zenon, <1>5, RowShapes DEF Ahead
  <2>2. walk'.pc # "done"
    BY <1>5
  <2> QED
    BY Zenon, <2>1, <2>2 DEF WalkOK
<1> QED
  BY Zenon, <1>4, <1>7, <1>8, <1>9, <1>10 DEF WalkInv

\* The gate opens on a snapshot that is whole, or refuses.
LEMMA GateStep ==
  ASSUME Tables(Now), IndexIsDerived(Now), SequenceOK, WalkInv, NEW v \in Versions, NEW listing \in Listings, Gate(v, listing)
  PROVE  WalkInv'
<1> DEFINE next == IF ~Decodes(listing, walk.cursor) \/ Incomplete(Now, v) THEN "refused" ELSE "gated"
<1>1. /\ walk.pc = "ask" /\ walk' = [walk EXCEPT !.pc = next, !.version = v, !.snapshot = Now]
      /\ UNCHANGED <<sequence, archive, pending>>
  BY Zenon DEF Gate
<1>2. next \in {"refused", "gated"}
  BY Zenon
<1>3. next = "gated" => Whole(Now, v)
  BY DEF Incomplete, Whole
<1> HIDE DEF next
<1>4. Now \in [archive : [Runs -> {NoRow} \cup ArchiveRows], index : [Runs -> {NoRow} \cup HeadRows], rows : SUBSET AllRows]
  BY DEF Tables, Now
<1>5. Now.archive = archive
  BY DEF Now
<1>6. walk \in Walks
  BY DEF WalkInv
<1> DEFINE seen == Now
<1>7. /\ walk' \in Walks /\ walk'.pc = next /\ walk'.version = v /\ walk'.snapshot = seen
      /\ walk'.listing = walk.listing /\ walk'.cursor = walk.cursor /\ walk'.pages = walk.pages
      /\ walk'.present = walk.present
  <2> HIDE DEF seen
  <2> QED
    BY Zenon, <1>1, <1>2, <1>4, <1>6 DEF Walks, seen
<1>8. PresentOK(walk.present)'
  BY Zenon, <1>1, <1>7 DEF PresentOK, WalkInv
<1>9. SnapshotOK'
  <2> SUFFICES ASSUME walk'.pc = "gated"
               PROVE  /\ Whole(walk'.snapshot, walk'.version)
                      /\ \A p \in walk'.present : Stayed(p)' => walk'.snapshot.archive[p.run] = archive'[p.run]
    BY Zenon DEF SnapshotOK, Whole, Tables, IndexIsDerived, CurrentFor
  <2> QED
    BY Zenon, <1>1, <1>3, <1>5, <1>7
<1>10. CursorOK'
  <2>1. walk.pc \in {"ask", "gated"}
    BY <1>1
  <2> QED
    BY Zenon, <1>7, <2>1 DEF CursorOK, WalkInv
<1>11. WalkOK'
  BY <1>1, <1>2, <1>7 DEF WalkOK, WalkInv, OnPage, Stayed
<1> QED
  BY Zenon, <1>7, <1>8, <1>9, <1>10, <1>11 DEF WalkInv
\* A page is answered: it goes behind the others, and the cursor to its end.
LEMMA AnswerStep ==
  ASSUME Tables(Now), SequenceOK, WalkInv, Answer
  PROVE  WalkInv'
<1> DEFINE listing == walk.listing
           cursor  == walk.cursor
           s       == walk.pages
           found   == Rows(walk.snapshot, walk.version, listing, cursor)
<1>1. walk.pc = "gated" /\ UNCHANGED <<sequence, archive, pending>> /\ walk \in Walks
  BY Zenon DEF Answer, WalkInv
<1>2. PICK page \in SUBSET found :
        /\ PageOf(listing, page, found)
        /\ \/ /\ page = found
              /\ walk' = [walk EXCEPT !.pc = "done", !.pages = Append(@, page), !.cursor = NoRow, !.snapshot = NoRow]
           \/ /\ page # found
              /\ \E last \in page :
                   /\ \A o \in page \ {last} : Precedes(listing, o, last)
                   /\ walk' = [walk EXCEPT !.pc = "ask", !.pages = Append(@, page), !.snapshot = NoRow,
                        !.cursor = EncodeCursor(listing, IF listing.k = "runs" THEN [seq |-> last.seq] ELSE last)]
  BY Zenon DEF Answer, Visible
<1>3. /\ Whole(walk.snapshot, walk.version)
      /\ \A p \in walk.present : Stayed(p) => walk.snapshot.archive[p.run] = archive[p.run]
  BY Zenon, <1>1 DEF WalkInv, SnapshotOK
<1>4. /\ listing \in Listings /\ s \in Seq(SUBSET (AllRows \cup Entries))
      /\ walk.present \in SUBSET Entries
  BY <1>1 DEF Walks
<1>5. cursor.made =>
        /\ listing.k # "flakiness" /\ cursor.position \in IF listing.k = "runs" THEN [seq : Nat \ {0}] ELSE AllRows
        /\ \A i \in DOMAIN s : \A o \in s[i] : Passed(listing, cursor, o)
  BY Zenon DEF WalkInv, CursorOK
<1>6. /\ found \subseteq RowsOf(listing)
      /\ OnlyArchived(walk.snapshot, walk.version, listing, cursor)
      /\ NothingLeftOut(walk.snapshot, walk.version, listing, cursor)
      /\ cursor.made => \A a \in RowsOf(listing), o \in found : Passed(listing, cursor, a) => Precedes(listing, a, o)
  BY Zenon, <1>3, <1>4, <1>5, Found
<1>7. /\ page \subseteq RowsOf(listing) /\ page \in SUBSET (AllRows \cup Entries)
  BY <1>6 DEF RowsOf
<1>8. /\ Append(s, page) \in Seq(SUBSET (AllRows \cup Entries))
      /\ DOMAIN Append(s, page) = 1 .. Len(s) + 1 /\ DOMAIN s = 1 .. Len(s) /\ Len(s) \in Nat
      /\ Append(s, page)[Len(s) + 1] = page
      /\ \A i \in DOMAIN s : Append(s, page)[i] = s[i]
  BY <1>4, <1>7, AppendPage
<1> HIDE DEF listing, cursor, s, found
<1>9. ASSUME NEW i \in DOMAIN s, NEW a \in s[i], NEW b \in found PROVE a \in RowsOf(listing) /\ Precedes(listing, a, b)
  <2>1. a \in RowsOf(listing)
    BY Zenon DEF WalkInv, CursorOK, s, listing
  <2>2. cursor.made
    <3> SUFFICES ASSUME ~cursor.made PROVE FALSE
      OBVIOUS
    <3>1. walk.pc \in {"ask", "gated"}
      BY <1>1
    <3>2. s = <<>>
      BY Zenon, <3>1 DEF WalkInv, CursorOK, s, cursor
    <3> QED
      BY <3>2
  <2> QED
    BY Zenon, <1>5, <1>6, <2>1, <2>2
<1>10. ASSUME page = found,
              walk' = [walk EXCEPT !.pc = "done", !.pages = Append(@, page), !.cursor = NoRow, !.snapshot = NoRow]
       PROVE  /\ walk' \in Walks /\ walk'.pages = Append(s, page) /\ walk'.listing = listing /\ walk'.pc = "done"
              /\ walk'.present = walk.present /\ ~walk'.cursor.made
  <2>1. walk' \in Walks /\ walk'.cursor = NoRow
    BY Zenon, <1>1, <1>8, <1>10 DEF Walks, s
  <2> QED
    BY Zenon, <1>1, <1>10, <2>1, RowShapes DEF Walks, s, listing
<1>11. ASSUME NEW last \in page, \A o \in page \ {last} : Precedes(listing, o, last),
              walk' = [walk EXCEPT !.pc = "ask", !.pages = Append(@, page), !.snapshot = NoRow,
                        !.cursor = EncodeCursor(listing, IF listing.k = "runs" THEN [seq |-> last.seq] ELSE last)]
       PROVE  /\ walk' \in Walks /\ walk'.pages = Append(s, page) /\ walk'.listing = listing /\ walk'.pc = "ask"
              /\ walk'.present = walk.present
              /\ walk'.cursor = EncodeCursor(listing, IF listing.k = "runs" THEN [seq |-> last.seq] ELSE last)
  <2> DEFINE c == EncodeCursor(listing, IF listing.k = "runs" THEN [seq |-> last.seq] ELSE last)
  <2>1. last \in RowsOf(listing)
    BY Zenon, <1>7
  <2>2. PICK place : place = IF listing.k = "runs" THEN [seq |-> last.seq] ELSE last
    BY Zenon
  <2>3. place \in [seq : Nat \ {0}] \cup AllRows
    BY <2>1, <2>2 DEF RowsOf, Entries
  <2>4. c \in Cursors
    <3>1. c = [made |-> TRUE, b |-> listing, position |-> place] /\ listing \in Listings
      BY Zenon, <1>4, <2>2 DEF EncodeCursor, listing
    <3> HIDE DEF c
    <3> QED
      BY <2>3, <3>1 DEF Cursors
  <2> HIDE DEF c
  <2>5. walk' = [walk EXCEPT !.pc = "ask", !.pages = Append(s, page), !.snapshot = NoRow, !.cursor = c]
    BY Zenon, <1>11 DEF c, s
  <2>6. walk' \in Walks
    BY Zenon, <1>1, <1>8, <2>4, <2>5 DEF Walks
  <2>7. walk'.cursor = c /\ walk'.pages = Append(s, page) /\ walk'.pc = "ask" /\ walk'.present = walk.present
        /\ walk'.listing = listing
    BY Zenon, <1>1, <2>5 DEF Walks, listing
  <2> QED
    BY Zenon, <2>6, <2>7 DEF c
<1>12. /\ walk' \in Walks /\ walk'.pages = Append(s, page) /\ walk'.listing = listing
       /\ walk'.present = walk.present /\ walk'.pc \in {"ask", "done"}
  BY Zenon, <1>2, <1>10, <1>11 DEF listing
<1>13. /\ \A i \in DOMAIN walk'.pages : i \in DOMAIN s \/ i = Len(s) + 1
       /\ \A i \in DOMAIN s : i \in DOMAIN walk'.pages /\ walk'.pages[i] = s[i]
       /\ Len(s) + 1 \in DOMAIN walk'.pages /\ walk'.pages[Len(s) + 1] = page
       /\ \A i \in DOMAIN walk'.pages, j \in DOMAIN walk'.pages : i < j => i \in DOMAIN s
  <2>1. DOMAIN walk'.pages = 1 .. Len(s) + 1 /\ DOMAIN s = 1 .. Len(s) /\ Len(s) \in Nat
    BY Zenon, <1>8, <1>12
  <2>2. /\ \A i \in 1 .. Len(s) + 1 : i \in 1 .. Len(s) \/ i = Len(s) + 1
        /\ \A i \in 1 .. Len(s) : i \in 1 .. Len(s) + 1
        /\ Len(s) + 1 \in 1 .. Len(s) + 1
        /\ \A i \in 1 .. Len(s) + 1, j \in 1 .. Len(s) + 1 : i < j => i \in 1 .. Len(s)
    BY <2>1
  <2> QED
    BY Zenon, <1>8, <1>12, <2>1, <2>2
<1>14. ASSUME NEW i \in DOMAIN walk'.pages PROVE walk'.pages[i] \subseteq RowsOf(listing)
  BY Zenon, <1>7, <1>9, <1>13 DEF WalkInv, CursorOK, s, listing
<1>15. ASSUME NEW i \in DOMAIN walk'.pages, NEW j \in DOMAIN walk'.pages, i < j,
              NEW a \in walk'.pages[i], NEW b \in walk'.pages[j]
       PROVE  Precedes(listing, a, b)
  <2>1. i \in DOMAIN s /\ a \in s[i]
    BY Zenon, <1>13, <1>15
  <2>2. CASE j \in DOMAIN s
    <3>1. b \in s[j]
      BY Zenon, <1>13, <2>2
    <3> QED
      BY Zenon, <1>15, <2>1, <2>2, <3>1 DEF WalkInv, CursorOK, s, listing
  <2>3. CASE j = Len(s) + 1
    BY Zenon, <1>9, <1>13, <2>1, <2>3
  <2> QED
    BY Zenon, <1>13, <2>2, <2>3
<1>16. ASSUME walk'.pc = "ask"
       PROVE  /\ page # found
              /\ \E last \in page :
                   /\ \A o \in page \ {last} : Precedes(listing, o, last)
                   /\ walk'.cursor = EncodeCursor(listing, IF listing.k = "runs" THEN [seq |-> last.seq] ELSE last)
  <2>1. walk'.pc # "done"
    BY <1>16
  <2> QED
    BY Zenon, <1>2, <1>10, <1>11, <2>1
<1>17. CursorOK'
  <2>1. CASE walk'.pc = "done"
    <3>1. ~walk'.cursor.made
      <4>1. walk'.pc # "ask"
        BY <2>1
      <4> QED
        BY Zenon, <1>2, <1>10, <1>11, <4>1
    <3>2. walk'.pc \notin {"ask", "gated"}
      BY <2>1
    <3> QED
      BY Zenon, <1>12, <1>14, <1>15, <3>1, <3>2 DEF CursorOK
  <2>2. CASE walk'.pc = "ask"
    <3>1. PICK last \in page :
            /\ \A o \in page \ {last} : Precedes(listing, o, last)
            /\ walk'.cursor = EncodeCursor(listing, IF listing.k = "runs" THEN [seq |-> last.seq] ELSE last)
      BY Zenon, <1>16, <2>2
    <3>2. last \in RowsOf(listing) /\ last \in found
      BY Zenon, <1>7
    <3>3. /\ walk'.cursor.made /\ walk'.cursor.b = listing
          /\ walk'.cursor.position \in IF listing.k = "runs" THEN [seq : Nat \ {0}] ELSE AllRows
          /\ Passed(listing, walk'.cursor, last)
          /\ \A o \in RowsOf(listing) : Precedes(listing, o, last) => Passed(listing, walk'.cursor, o)
      BY ZenonT(60), <3>1, <3>2, CursorAt
    <3>4. listing.k # "flakiness"
      BY Zenon, <1>2, <1>16, <2>2 DEF PageOf
    <3>5. ASSUME NEW i \in DOMAIN walk'.pages, NEW o \in walk'.pages[i] PROVE Passed(listing, walk'.cursor, o)
      <4>1. CASE i \in DOMAIN s
        <5>1. o \in s[i]
          BY Zenon, <1>13, <4>1
        <5> QED
          BY Zenon, <1>9, <3>2, <3>3, <4>1, <5>1
      <4>2. CASE i = Len(s) + 1
        <5>1. o \in page /\ o \in RowsOf(listing)
          BY Zenon, <1>7, <1>13, <4>2
        <5> QED
          BY Zenon, <3>1, <3>3, <5>1
      <4> QED
        BY Zenon, <1>13, <4>1, <4>2
    <3> QED
      BY Zenon, <1>12, <1>14, <1>15, <3>3, <3>4, <3>5 DEF CursorOK
  <2> QED
    BY Zenon, <1>12, <2>1, <2>2
<1>18. ASSUME NEW x, OnPage(x) PROVE OnPage(x)'
  BY Zenon, <1>12, <1>13, <1>18 DEF OnPage, s, listing
<1>19. ASSUME NEW o \in page, NEW x, x = Shown(listing, o) PROVE OnPage(x)'
  BY Zenon, <1>12, <1>13, <1>19 DEF OnPage
<1>20. ASSUME NEW p \in walk.present, Stayed(p), NEW x \in OfRun(listing, p.run, archive[p.run])
       PROVE  OnPage(x)' \/ (walk'.pc # "done" /\ Ahead(listing, walk'.cursor, x))
  <2>1. OnPage(x) \/ Ahead(listing, cursor, x)
    <3>1. walk.pc \in {"ask", "gated", "done"}
      BY <1>1
    <3> QED
      BY Zenon, <1>20, <3>1 DEF WalkInv, WalkOK, listing, cursor
  <2>2. CASE Ahead(listing, cursor, x)
    <3>1. p.run \in Runs
      BY <1>4 DEF Entries
    <3>2. walk.snapshot.archive[p.run] = archive[p.run] /\ archive[p.run].made
      BY Zenon, <1>3, <1>20 DEF Stayed
    <3>3. PICK o \in found : x = Shown(listing, o)
      BY Zenon, <1>6, <1>20, <2>2, <3>1, <3>2 DEF NothingLeftOut, found
    <3>4. CASE o \in page
      BY Zenon, <1>19, <3>3, <3>4
    <3>5. CASE o \notin page
      <4>1. page # found /\ listing.k # "flakiness"
        BY Zenon, <1>2, <3>5 DEF PageOf
      <4>2. walk'.pc = "ask"
        BY Zenon, <1>2, <1>11, <4>1
      <4>3. PICK last \in page :
              walk'.cursor = EncodeCursor(listing, IF listing.k = "runs" THEN [seq |-> last.seq] ELSE last)
        BY Zenon, <1>16, <4>2
      <4>4. Precedes(listing, last, o) /\ last \in RowsOf(listing) /\ o \in RowsOf(listing)
        BY Zenon, <1>2, <1>6, <1>7, <3>5, <4>1 DEF PageOf
      <4>5. Ahead(listing, walk'.cursor, x)
        BY Zenon, <3>3, <4>3, <4>4, CursorAt
      <4>6. walk'.pc # "done"
        BY <4>2
      <4> QED
        BY Zenon, <4>5, <4>6
    <3> QED
      BY <3>4, <3>5
  <2> QED
    BY Zenon, <1>18, <2>1, <2>2
<1>21. WalkOK'
  <2>1. \A p : Stayed(p)' <=> Stayed(p)
    BY Zenon, <1>1 DEF Stayed
  <2> QED
    BY Zenon, <1>1, <1>12, <1>20, <2>1 DEF WalkOK
<1>22. PresentOK(walk.present)'
  BY Zenon, <1>1, <1>12 DEF PresentOK, WalkInv
<1>23. SnapshotOK'
  <2>1. walk'.pc # "gated"
    BY <1>12
  <2> QED
    BY Zenon, <2>1 DEF SnapshotOK
<1> QED
  BY Zenon, <1>12, <1>17, <1>21, <1>22, <1>23 DEF WalkInv
--------------------------------------------------------------------------------
(* The theorems *)

\* Every run archived by the first release, each indexed.
LEMMA IndexInitially ==
  ASSUME NEW w \in Nat, NEW p \in Nat, NEW c \in Nat, NEW archived \in SUBSET Runs, IsFiniteSet(archived),
         IndexInit(w, p, c, archived)
  PROVE  IndexInv
<1> DEFINE first(r) == CHOOSE x \in Contents[r] : TRUE
           rank(r)  == Cardinality({q \in archived : q <= r})
           row(r)   == [made |-> TRUE, seq |-> rank(r), fp |-> first(r)]
           head(r)  == [made |-> TRUE, version |-> 1, fp |-> first(r)]
<1>1. /\ sequence = Cardinality(archived) /\ pending = [r \in Runs |-> NoRow]
      /\ archive = [r \in Runs |-> IF r \in archived THEN row(r) ELSE NoRow]
      /\ index = [r \in Runs |-> IF r \in archived THEN head(r) ELSE NoRow]
      /\ rows = UNION {Derived(r, first(r), 1) : r \in archived}
  BY Zenon DEF IndexInit
<1>2. ASSUME NEW r \in Runs PROVE first(r) \in DOMAIN Executions
  BY IndexAssumption
<1>3. ASSUME NEW r \in archived PROVE rank(r) \in Nat \ {0} /\ rank(r) <= Cardinality(archived)
  <2> DEFINE upto == {q \in archived : q <= r}
  <2>1. r \in Nat /\ r \in upto /\ upto \subseteq archived
    BY IndexAssumption
  <2> HIDE DEF upto
  <2>2. IsFiniteSet(upto) /\ Cardinality(upto) <= Cardinality(archived)
    BY Zenon, <2>1, FS_Subset
  <2>3. Cardinality(upto) \in Nat /\ Cardinality(upto) # 0
    BY <2>1, <2>2, FS_CardinalityType, FS_EmptySet
  <2> QED
    BY <2>2, <2>3 DEF upto
<1>4. Cardinality(archived) \in Nat
  BY FS_CardinalityType
<1> HIDE DEF first, rank
<1>5. ASSUME NEW r \in archived
      PROVE  /\ row(r) \in ArchiveRows /\ head(r) \in HeadRows
             /\ row(r).seq = rank(r) /\ row(r).made /\ head(r).made /\ head(r).fp = first(r) /\ head(r).version = 1
             /\ Derived(r, first(r), 1) \subseteq AllRows
  <2>1. r \in Runs /\ first(r) \in DOMAIN Executions /\ rank(r) \in Nat \ {0} /\ 1 \in Versions
    BY Zenon, <1>2, <1>3, IndexAssumption
  <2>2. row(r) \in ArchiveRows /\ head(r) \in HeadRows
    BY <2>1 DEF ArchiveRows, HeadRows
  <2>3. Derived(r, first(r), 1) \subseteq AllRows
    BY Zenon, <2>1, DerivedFacts
  <2> QED
    BY Zenon, <2>2, <2>3
<1> HIDE DEF row, head
<1>6. Tables(Now)
  <2>1. /\ archive \in [Runs -> {NoRow} \cup ArchiveRows] /\ index \in [Runs -> {NoRow} \cup HeadRows]
    BY <1>1, <1>5
  <2>2. rows \subseteq AllRows
    BY Zenon, <1>1, <1>5
  <2> QED
    BY <2>1, <2>2 DEF Tables, Now
<1>7. IndexIsDerived(Now)
  <2>1. ASSUME NEW r \in Runs
        PROVE  /\ archive[r].made <=> index[r].made
               /\ {o \in rows : o.run = r} = IF index[r].made THEN Derived(r, index[r].fp, index[r].version) ELSE {}
    <3>1. ASSUME NEW q \in archived, NEW o \in Derived(q, first(q), 1) PROVE o.run = q
      BY <3>1 DEF Derived
    <3>2. {o \in rows : o.run = r} = IF r \in archived THEN Derived(r, first(r), 1) ELSE {}
      BY <1>1, <3>1
    <3>3. CASE r \in archived
      <4>1. archive[r] = row(r) /\ index[r] = head(r)
        BY Zenon, <1>1, <3>3
      <4> QED
        BY Zenon, <1>5, <3>2, <3>3, <4>1
    <3>4. CASE r \notin archived
      <4>1. archive[r] = NoRow /\ index[r] = NoRow
        BY Zenon, <1>1, <3>4
      <4> QED
        BY Zenon, <3>2, <3>4, <4>1, RowShapes
    <3> QED
      BY <3>3, <3>4
  <2> QED
    BY <2>1 DEF IndexIsDerived, Now
<1>8. SequenceOK
  <2>1. \A r \in Runs : pending[r] = NoRow /\ ~pending[r].made
    BY Zenon, <1>1, RowShapes
  <2>2. ASSUME NEW r \in Runs, archive[r].made PROVE archive[r].seq <= sequence
    <3>1. r \in archived /\ archive[r] = row(r)
      BY Zenon, <1>1, <2>2, RowShapes
    <3> QED
      BY Zenon, <1>1, <1>3, <1>5, <3>1
  <2>3. pending \in [Runs -> {NoRow} \cup PendingRows]
    BY <1>1
  <2> QED
    BY Zenon, <1>1, <1>4, <2>1, <2>2, <2>3 DEF SequenceOK
<1>9. RebuildOK
  <2>1. rebuild = [pc |-> "idle", left |-> p, version |-> 0, queue |-> {}, after |-> 0, more |-> FALSE,
                   present |-> {}, covered |-> {}]
    BY Zenon DEF IndexInit
  <2>2. rebuild \in Rebuilds
    BY <2>1 DEF Rebuilds
  <2>3. rebuild.pc = "idle" /\ rebuild.queue = {} /\ rebuild.present = {} /\ rebuild.more = FALSE
    BY Zenon, <2>1
  <2>4. rebuild.pc # "pass"
    BY SMTT(60), <2>3
  <2> QED
    BY Zenon, <2>2, <2>3, <2>4 DEF RebuildOK, PresentOK
<1>10. VerifyOK
  BY DEF IndexInit, VerifyOK
<1>11. WalkInv
  <2>1. walk = [pc |-> "idle", left |-> w, listing |-> [k |-> "runs", test |-> ""], cursor |-> NoRow,
                pages |-> <<>>, version |-> 0, snapshot |-> NoRow, present |-> {}]
    BY Zenon DEF IndexInit
  <2>2. [k |-> "runs", test |-> ""] \in Listings
    BY Zenon DEF Listings
  <2>3. walk \in Walks
    <3>1. PICK l : l = [k |-> "runs", test |-> ""]
      BY Zenon
    <3>2. walk = [pc |-> "idle", left |-> w, listing |-> l, cursor |-> NoRow, pages |-> <<>>, version |-> 0,
                  snapshot |-> NoRow, present |-> {}] /\ l \in Listings
      BY Zenon, <2>1, <2>2, <3>1
    <3> QED
      BY <3>2 DEF Walks
  <2>4. walk.pc = "idle" /\ walk.cursor = NoRow /\ walk.pages = <<>> /\ walk.present = {}
    BY Zenon, <2>1
  <2>5. walk.pc \notin {"ask", "gated", "done"} /\ walk.pc # "gated" /\ DOMAIN walk.pages = {}
    BY <2>4
  <2> QED
    BY Zenon, <2>3, <2>4, <2>5, RowShapes DEF WalkInv, PresentOK, SnapshotOK, CursorOK, WalkOK
<1> QED
  BY Zenon, <1>6, <1>7, <1>8, <1>9, <1>10, <1>11 DEF IndexInv

\* Writers, walks, rebuilds and comparisons in any order.
LEMMA IndexStep == IndexInv /\ [IndexNext]_indexVars => IndexInv'
<1> SUFFICES ASSUME IndexInv, [IndexNext]_indexVars PROVE IndexInv'
  OBVIOUS
<1>1. Tables(Now) /\ IndexIsDerived(Now) /\ SequenceOK /\ RebuildOK /\ VerifyOK /\ WalkInv
  BY Zenon DEF IndexInv
<1>2. ArchiveMoves
  BY Zenon, <1>1, MovesStep
<1>3. Tables(Now)' /\ IndexIsDerived(Now)' /\ SequenceOK' /\ RebuildOK' /\ VerifyOK'
  BY Zenon, <1>1, <1>2, TablesStep, SequenceStep, RebuildStep, VerifyStep
<1>4. WalkInv'
  BY ZenonT(60), <1>1, <1>2, WalkStays, StartWalkStep, GateStep, AnswerStep
  DEF IndexNext, indexVars, TakeSequence, CommitRun, DeleteRun, RepairStoredIndex, StartPass, RebuildOne, EndPass,
      VerifyLoad, VerifyHead, VerifyRows
<1> QED
  BY Zenon, <1>3, <1>4 DEF IndexInv

\* A behaviour keeps the invariant of the index.
LEMMA IndexKept == IndexSpec => []IndexInv
<1>1. (\E w, p, c \in Nat, archived \in SUBSET Runs : IsFiniteSet(archived) /\ IndexInit(w, p, c, archived)) => IndexInv
  BY Zenon, IndexInitially
<1> QED
  BY <1>1, IndexStep, PTL DEF IndexSpec

\* rebuildProjectIndex, for any project, releases and sizes of a pass: a rebuild
\* continued to its end has looked at every run that was there and stayed.
THEOREM RebuildComplete == IndexSpec => []RebuildWalksAll
<1>1. IndexInv => RebuildWalksAll
  BY Zenon DEF IndexInv, RebuildOK, RebuildWalksAll, Stayed
<1> QED
  BY <1>1, IndexKept, PTL

\* A walk of listRuns or of getTestHistory, for any project and size of a page.
THEOREM WalksAreWhole == IndexSpec => []WalkMissesNothing
<1>1. ASSUME IndexInv, walk.pc = "done" PROVE WalkMissesNothing
  <2> DEFINE listing  == walk.listing
             shown    == [i \in DOMAIN walk.pages |-> {Shown(listing, o) : o \in walk.pages[i]}]
             stayed   == {q.run : q \in {x \in walk.present : archive[x.run].made /\ archive[x.run].seq = x.seq}}
  <2>1. WalkInv
    BY Zenon, <1>1 DEF IndexInv
  <2>2. ASSUME NEW x \in Expected(Now, listing), x.run \in stayed PROVE \E i \in DOMAIN shown : x \in shown[i]
    <3>1. PICK r \in Runs : archive[r].made /\ x \in OfRun(listing, r, archive[r])
      BY ZenonT(60) DEF Expected, Now
    <3>2. x.run = r
      BY <3>1 DEF OfRun
    <3>3. PICK q \in walk.present : Stayed(q) /\ q.run = r
      BY Zenon, <2>2, <3>2 DEF Stayed
    <3>4. walk.pc \in {"ask", "gated", "done"}
      BY <1>1
    <3>5. OnPage(x)
      BY ZenonT(60), <1>1, <2>1, <3>1, <3>3, <3>4 DEF WalkInv, WalkOK
    <3> QED
      BY Zenon, <3>5 DEF OnPage
  <2>3. ASSUME NEW i \in DOMAIN shown, NEW j \in DOMAIN shown, i < j, NEW x \in shown[i], NEW y \in shown[j]
        PROVE  x # y /\ IF listing.k = "runs" THEN x.seq > y.seq ELSE InTimeOrder(x.when, y.when)
    <3>1. PICK a \in walk.pages[i], b \in walk.pages[j] : x = Shown(listing, a) /\ y = Shown(listing, b)
      BY Zenon, <2>3
    <3>2. Precedes(listing, a, b) /\ a \in RowsOf(listing) /\ b \in RowsOf(listing)
      BY ZenonT(60), <2>1, <2>3, <3>1 DEF WalkInv, CursorOK
    <3>3. CASE listing.k = "runs"
      <4>1. x = a /\ y = b /\ a.seq > b.seq /\ a.seq \in Nat /\ b.seq \in Nat
        BY <3>1, <3>2, <3>3 DEF Shown, Precedes, RowsOf, Entries
      <4> QED
        BY SMTT(60), <3>3, <4>1
    <3>4. CASE listing.k # "runs"
      <4>1. /\ x = [run |-> a.run, execution |-> a.execution, when |-> a.when]
            /\ y = [run |-> b.run, execution |-> b.execution, when |-> b.when]
            /\ Before(a, b) /\ a \in AllRows /\ b \in AllRows
        BY Zenon, <3>1, <3>2, <3>4 DEF Shown, Precedes, RowsOf
      <4>2. InTimeOrder(a.when, b.when) /\ ~(a.run = b.run /\ a.execution = b.execution /\ a.when = b.when)
        BY Zenon, <4>1, RowsInOrder
      <4> QED
        BY Zenon, <3>4, <4>1, <4>2
    <3> QED
      BY <3>3, <3>4
  <2> HIDE DEF shown, stayed
  <2>4. /\ \A x \in Expected(Now, listing) : x.run \in stayed => \E i \in DOMAIN shown : x \in shown[i]
        /\ \A i, j \in DOMAIN shown : i < j => \A x \in shown[i], y \in shown[j] :
             x # y /\ IF listing.k = "runs" THEN x.seq > y.seq ELSE InTimeOrder(x.when, y.when)
    BY Zenon, <2>2, <2>3
  <2> QED
    BY Zenon, <2>4 DEF WalkMissesNothing, shown, stayed
<1> QED
  BY <1>1, IndexKept, PTL DEF WalkMissesNothing

\* PostgresQueries.answering and verifyIndexedRun, for any project and releases.
THEOREM GateSound == IndexSpec => GateIsSound
<1>1. ASSUME IndexInv, [IndexNext]_indexVars PROVE AnswerIsWhole
  <2> SUFFICES ASSUME walk.pc = "gated", walk'.pc # "gated" PROVE AnswerIsWhole
    BY Zenon DEF AnswerIsWhole
  <2> DEFINE listing  == walk.listing
             found    == Rows(walk.snapshot, walk.version, listing, walk.cursor)
             expected == Expected(walk.snapshot, listing)
  <2>1. Answer
    <3>1. walk' # walk /\ walk.pc # "ask" /\ walk.pc \notin {"idle", "done", "refused"}
      BY Zenon
    <3> QED
      BY Zenon, <1>1, <3>1
      DEF IndexNext, indexVars, TakeSequence, CommitRun, DeleteRun, RepairStoredIndex, StartWalk, Gate, StartPass,
          RebuildOne, EndPass, VerifyLoad, VerifyHead, VerifyRows
  <2>2. WalkInv /\ walk \in Walks
    BY Zenon, <1>1 DEF IndexInv, WalkInv
  <2>3. PICK page \in SUBSET found :
          /\ walk'.pages = Append(walk.pages, page)
          /\ walk'.pc = "done" => page = found
    <3>1. PICK page \in SUBSET found :
            \/ /\ page = found
               /\ walk' = [walk EXCEPT !.pc = "done", !.pages = Append(@, page), !.cursor = NoRow, !.snapshot = NoRow]
            \/ \E last \in page :
                 walk' = [walk EXCEPT !.pc = "ask", !.pages = Append(@, page), !.snapshot = NoRow,
                   !.cursor = EncodeCursor(listing, IF listing.k = "runs" THEN [seq |-> last.seq] ELSE last)]
      BY Zenon, <2>1 DEF Answer, Visible
    <3>2. CASE /\ page = found
               /\ walk' = [walk EXCEPT !.pc = "done", !.pages = Append(@, page), !.cursor = NoRow, !.snapshot = NoRow]
      BY Zenon, <2>2, <3>2 DEF Walks
    <3>3. ASSUME NEW last \in page,
                 walk' = [walk EXCEPT !.pc = "ask", !.pages = Append(@, page), !.snapshot = NoRow,
                   !.cursor = EncodeCursor(listing, IF listing.k = "runs" THEN [seq |-> last.seq] ELSE last)]
          PROVE  walk'.pages = Append(walk.pages, page) /\ walk'.pc # "done"
      <4>1. walk'.pages = Append(walk.pages, page) /\ walk'.pc = "ask"
        BY Zenon, <2>2, <3>3 DEF Walks
      <4> QED
        BY <4>1
    <3> QED
      BY Zenon, <3>1, <3>2, <3>3
  <2>4. /\ Whole(walk.snapshot, walk.version) /\ listing \in Listings
        /\ walk.cursor.made => listing.k # "flakiness"
        /\ walk.cursor.made => walk.cursor.position \in IF listing.k = "runs" THEN [seq : Nat \ {0}] ELSE AllRows
    BY Zenon, <2>2 DEF WalkInv, SnapshotOK, CursorOK, Walks
  <2>5. /\ found \subseteq RowsOf(listing)
        /\ OnlyArchived(walk.snapshot, walk.version, listing, walk.cursor)
        /\ NothingLeftOut(walk.snapshot, walk.version, listing, walk.cursor)
    BY Zenon, <2>4, Found
  <2>6. walk'.pages[Len(walk'.pages)] = page
    <3>1. walk.pages \in Seq(SUBSET (AllRows \cup Entries)) /\ RowsOf(listing) \subseteq AllRows \cup Entries
      BY Zenon, <2>2 DEF Walks, RowsOf
    <3>2. PICK S : S = SUBSET (AllRows \cup Entries)
      BY Zenon
    <3>3. page \in S /\ walk.pages \in Seq(S)
      BY Zenon, <2>5, <3>1, <3>2
    <3>4. Len(walk'.pages) = Len(walk.pages) + 1 /\ walk'.pages[Len(walk.pages) + 1] = page
      <4>1. PICK t : t = walk.pages
        BY Zenon
      <4>2. t \in Seq(S) /\ walk'.pages = Append(t, page)
        BY Zenon, <2>3, <3>3, <4>1
      <4>3. Len(Append(t, page)) = Len(t) + 1 /\ Append(t, page)[Len(t) + 1] = page
        BY <3>3, <4>2
      <4> QED
        BY Zenon, <4>1, <4>2, <4>3
    <3> QED
      BY Zenon, <3>4
  <2> DEFINE shown == {Shown(listing, o) : o \in page}
  <2>7. ASSUME NEW o \in page PROVE Shown(listing, o) \in expected
    <3>1. PICK r \in Runs : /\ walk.snapshot.archive[r].made
                            /\ Shown(listing, o) \in OfRun(listing, r, walk.snapshot.archive[r])
      BY Zenon, <2>5 DEF OnlyArchived
    <3> QED
      BY Zenon, <3>1 DEF Expected
  <2>8. ASSUME walk'.pc = "done", ~walk.cursor.made, NEW x \in expected PROVE x \in shown
    <3>1. Ahead(listing, walk.cursor, x)
      BY Zenon, <2>8 DEF Ahead
    <3>2. page = found
      BY Zenon, <2>3, <2>8
    <3>3. PICK r \in Runs : walk.snapshot.archive[r].made /\ x \in OfRun(listing, r, walk.snapshot.archive[r])
      BY Zenon, <2>8 DEF Expected
    <3>4. PICK o \in found : x = Shown(listing, o)
      BY Zenon, <2>5, <3>1, <3>3 DEF NothingLeftOut
    <3> QED
      BY Zenon, <3>2, <3>4
  <2>9. walk'.pc = "done" /\ ~walk.cursor.made => shown = expected
    BY Zenon, <2>7, <2>8
  <2> QED
    BY Zenon, <2>6, <2>7, <2>9 DEF AnswerIsWhole
<1>2. ASSUME IndexInv, [IndexNext]_indexVars PROVE VerifyMatchesGate
  <2> SUFFICES ASSUME verify.pc = "rows", verify'.pc = "done",
                      archive[verify.run] = verify.archived, index[verify.run] = verify.head
               PROVE  verify'.agrees <=> CurrentFor(Now, verify.run, verify.version)
    BY Zenon DEF VerifyMatchesGate
  <2>1. VerifyRows
    <3>1. verify' # verify /\ verify.pc # "head" /\ verify.pc \notin {"idle", "done"}
      BY Zenon
    <3> QED
      BY ZenonT(60), <1>2, <3>1
      DEF IndexNext, indexVars, TakeSequence, CommitRun, DeleteRun, RepairStoredIndex, StartWalk, Gate, Answer,
          StartPass, RebuildOne, EndPass, VerifyLoad, VerifyHead
  <2>2. verify'.agrees <=> /\ verify.agrees
                           /\ StoredRows(verify.run) = Derived(verify.run, verify.archived.fp, verify.version)
    BY Zenon, <2>1 DEF VerifyRows
  <2>3. /\ verify.run \in Runs
        /\ verify.agrees <=> CurrentFor(Now, verify.run, verify.version)
    <3>1. verify.pc \in {"head", "rows"}
      BY Zenon
    <3> QED
      BY Zenon, <1>2, <3>1 DEF IndexInv, VerifyOK, CurrentFor, Now
  <2>4. ASSUME CurrentFor(Now, verify.run, verify.version)
        PROVE  StoredRows(verify.run) = Derived(verify.run, verify.archived.fp, verify.version)
    <3>1. /\ index[verify.run].made /\ index[verify.run].version = verify.version
          /\ index[verify.run].fp = verify.archived.fp
      BY Zenon, <2>4 DEF CurrentFor, Now
    <3>2. StoredRows(verify.run) = Derived(verify.run, index[verify.run].fp, index[verify.run].version)
      BY Zenon, <1>2, <2>3, <3>1 DEF IndexInv, IndexIsDerived, StoredRows, Now
    <3> QED
      BY Zenon, <3>1, <3>2
  <2> QED
    BY Zenon, <2>2, <2>3, <2>4
<1> QED
  BY <1>1, <1>2, IndexKept, PTL DEF IndexSpec, GateIsSound
============================================================================
