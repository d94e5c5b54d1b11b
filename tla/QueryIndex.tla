------------------------------ MODULE QueryIndex ------------------------------
(***************************************************************************)
(* The cross-run questions of one project (packages/postgres: queries.ts,  *)
(* query-index.ts, index-writer.ts; packages/http-api: cursors.ts, the     *)
(* handlers of app.ts).  A client walks the pages of a listing or a        *)
(* history while servers of two releases archive runs, an operator rebuilds *)
(* the index and retention deletes runs.  What an ingestion and a retention *)
(* pass do inside is RunArchive's; here each is the transaction it commits. *)
(***************************************************************************)
EXTENDS HistoryOrder, FiniteSets, Sequences

CONSTANTS
  Runs,       \* run ids, numbers so that they have the byte order
  Contents,   \* Contents[r]: the fingerprints run r may be archived with
  Executions, \* Executions[c]: [execution, test, when] records of content c
  Tests,      \* historical ids a client asks for
  Versions,   \* QUERY_INDEX_VERSION of the releases in use
  PageSize,   \* limit of a page
  PassSize,   \* maxRuns of a rebuild pass
  MaxSequence \* bound: ingestion sequences handed out

ASSUME IndexAssumption ==
  /\ PageSize \in Nat \ {0} /\ PassSize \in Nat \ {0}
  /\ Runs \subseteq Nat /\ 1 \in Versions /\ 0 \notin Versions
  /\ \A r \in Runs : Contents[r] # {} /\ Contents[r] \subseteq DOMAIN Executions
  /\ \A c \in DOMAIN Executions : \A e \in Executions[c] : e.execution \in Nat /\ e.when \in Stamps

VARIABLES
  sequence, \* the last ingestion sequence handed out
  archive,  \* archive[r]: [made, seq, fp], the row of qe_runs
  index,    \* index[r]: [made, version, fp], the row of qe_run_query_index
  rows,     \* qe_history_occurrences
  pending,  \* ingestions between taking their sequence and their commit
  walk,     \* the client
  rebuild,  \* the operator's rebuild
  verify    \* the operator's comparison of one run

indexVars == <<sequence, archive, index, rows, pending, walk, rebuild, verify>>

NoRow   == [made |-> FALSE]
Archived == {r \in Runs : archive[r].made}
Listings == {[k |-> "runs", test |-> ""]}
            \cup [k : {"history", "flakiness"}, test : Tests]

\* deriveQueryIndex: the rows of run r from content c, as release v writes them.
Derived(r, c, v) ==
  {[run |-> r, execution |-> e.execution, test |-> e.test, when |-> e.when,
    at |-> HistoryInstant(e.when), version |-> v] : e \in Executions[c]}

\* replaceQueryIndex: both tables, in the caller's transaction.
ReplaceQueryIndex(r, c, fp, v) ==
  /\ index' = [index EXCEPT ![r] = [made |-> TRUE, version |-> v, fp |-> fp]]
  /\ rows' = {o \in rows : o.run # r} \cup Derived(r, c, v)

CurrentFor(state, r, v) ==
  /\ state.index[r].made
  /\ state.index[r].version = v
  /\ state.index[r].fp = state.archive[r].fp

Now == [archive |-> archive, index |-> index, rows |-> rows]

--------------------------------------------------------------------------------
(* Writers beside the queries *)

TakeSequence(r, c, v) ==
  /\ ~archive[r].made /\ sequence < MaxSequence
  /\ pending[r].made = FALSE
  /\ sequence' = sequence + 1
  /\ pending' = [pending EXCEPT ![r] = [made |-> TRUE, seq |-> sequence', fp |-> c, version |-> v]]
  /\ UNCHANGED <<archive, index, rows, walk, rebuild, verify>>

\* The ingestion commits the run and its index, or rolls back.
CommitRun(r) ==
  /\ pending[r].made
  /\ pending' = [pending EXCEPT ![r] = NoRow]
  /\ \/ LET p == pending[r] IN
        /\ archive' = [archive EXCEPT ![r] = [made |-> TRUE, seq |-> p.seq, fp |-> p.fp]]
        /\ ReplaceQueryIndex(r, p.fp, p.fp, p.version)
     \/ UNCHANGED <<archive, index, rows>>
  /\ UNCHANGED <<sequence, walk, rebuild, verify>>

\* A run offered again repairs an index that is not this release's.
RepairStoredIndex(r, v) ==
  /\ archive[r].made /\ ~CurrentFor(Now, r, v)
  /\ ReplaceQueryIndex(r, archive[r].fp, archive[r].fp, v)
  /\ UNCHANGED <<sequence, archive, pending, walk, rebuild, verify>>

\* Slip: the occurrences are not part of the cascade.
DeleteRunOnly(r) ==
  /\ archive[r].made
  /\ rebuild.pc # "pass" /\ \A q \in Runs : ~pending[q].made
  /\ archive' = [archive EXCEPT ![r] = NoRow]
  /\ index' = [index EXCEPT ![r] = NoRow]
  /\ UNCHANGED <<sequence, rows, pending, walk, rebuild, verify>>

\* Retention deletes a run, its derived rows by cascade, under the exclusive lease.
DeleteRun(r) ==
  /\ archive[r].made
  /\ rebuild.pc # "pass" /\ \A q \in Runs : ~pending[q].made
  /\ archive' = [archive EXCEPT ![r] = NoRow]
  /\ index' = [index EXCEPT ![r] = NoRow]
  /\ rows' = {o \in rows : o.run # r}
  /\ UNCHANGED <<sequence, pending, walk, rebuild, verify>>

--------------------------------------------------------------------------------
(* Questions *)

Incomplete(state, v) == \E r \in Runs : state.archive[r].made /\ ~CurrentFor(state, r, v)

\* The cursor names the listing it continues; another listing refuses it.
EncodeCursor(listing, position) == [made |-> TRUE, b |-> listing, position |-> position]
Decodes(listing, cursor) == ~cursor.made \/ cursor.b = listing

\* Slip: a page continues after the run of the last row.
FollowsRun(o, last) == o # last /\ o.run # last.run /\ Before(last, o)

Follows(o, last) == Before(last, o)

\* The rows a listing asks for after a position.
RunRows(state, v, cursor) ==
  {[run |-> r, seq |-> state.archive[r].seq] :
     r \in {q \in Runs : /\ state.archive[q].made
                         /\ CurrentFor(state, q, v)
                         /\ cursor.made => state.archive[q].seq < cursor.position.seq}}

HistoryRows(state, v, test, cursor) ==
  {o \in state.rows : /\ o.version = v /\ o.test = test
                      /\ cursor.made => Follows(o, cursor.position)}

\* getFlakinessSummary: counts over the whole history of the test, in one answer.
FlakinessRows(state, v, test) == HistoryRows(state, v, test, NoRow)

Rows(state, v, listing, cursor) ==
  IF listing.k = "runs" THEN RunRows(state, v, cursor)
  ELSE IF listing.k = "history" THEN HistoryRows(state, v, listing.test, cursor)
  ELSE FlakinessRows(state, v, listing.test)

\* ORDER BY: the newest sequence first, or the order of histories.
Precedes(listing, a, b) == IF listing.k = "runs" THEN a.seq > b.seq ELSE Before(a, b)

\* A page is the rows that come first, as many as fit; a summary has no limit.
PageOf(listing, page, found) ==
  IF listing.k = "flakiness" THEN page = found
  ELSE /\ \A a \in page, b \in found \ page : Precedes(listing, a, b)
       /\ page = found \/ Cardinality(page) = PageSize
       /\ Cardinality(page) <= PageSize

\* A walk begins, or begins again, for one of the listings.
StartWalk(listing) ==
  /\ walk.pc \in {"idle", "done", "refused"} /\ walk.left > 0
  /\ walk' = [pc |-> "ask", left |-> walk.left - 1, listing |-> listing, cursor |-> NoRow,
              pages |-> <<>>, version |-> 0, snapshot |-> NoRow,
              present |-> {[run |-> r, seq |-> archive[r].seq] : r \in Archived}]
  /\ UNCHANGED <<sequence, archive, index, rows, pending, rebuild, verify>>

\* answering begins: the first statement fixes the snapshot, and the gate reads it.
Gate(v, listing) ==
  /\ walk.pc = "ask"
  /\ listing = walk.listing \/ walk.cursor.made
  /\ walk' = [walk EXCEPT
       !.pc = IF ~Decodes(listing, walk.cursor) \/ Incomplete(Now, v) THEN "refused" ELSE "gated",
       !.version = v, !.snapshot = Now]
  /\ UNCHANGED <<sequence, archive, index, rows, pending, rebuild, verify>>

\* The transaction is REPEATABLE READ: every statement sees the first one's rows.
Visible == walk.snapshot

\* fn(client): one row more than the page tells whether and where it continues.
Answer ==
  /\ walk.pc = "gated"
  /\ LET found == Rows(Visible, walk.version, walk.listing, walk.cursor) IN
     \E page \in SUBSET found :
       /\ PageOf(walk.listing, page, found)
       /\ \/ /\ page = found
             /\ walk' = [walk EXCEPT !.pc = "done", !.pages = Append(@, page), !.cursor = NoRow, !.snapshot = NoRow]
          \/ /\ page # found
             /\ \E last \in page :
                  /\ \A o \in page \ {last} : Precedes(walk.listing, o, last)
                  /\ walk' = [walk EXCEPT !.pc = "ask", !.pages = Append(@, page), !.snapshot = NoRow,
                       !.cursor = EncodeCursor(walk.listing, IF walk.listing.k = "runs" THEN [seq |-> last.seq] ELSE last)]
  /\ UNCHANGED <<sequence, archive, index, rows, pending, rebuild, verify>>

--------------------------------------------------------------------------------
(* rebuildProjectIndex *)

\* Slip: the walk goes on after the first run the pass did not take.
LastSequencePast(n, taken, found) ==
  \E x \in found : n = x.seq /\ x \notin taken /\ \A y \in found \ taken : x.seq <= y.seq

LastSequence(n, taken, found) == \E x \in taken : n = x.seq /\ \A y \in taken : y.seq <= x.seq

\* One pass: under the shared lease, the first runs from the start or from where
\* the last one ended.
StartPass(v, afresh) ==
  /\ rebuild.pc = "idle" /\ (afresh => rebuild.left > 0) /\ (~afresh => rebuild.more)
  /\ LET after == IF afresh THEN 0 ELSE rebuild.after
         found == {[run |-> r, seq |-> archive[r].seq, fp |-> archive[r].fp] :
                     r \in {q \in Archived : archive[q].seq > after}}
     IN  \E taken \in SUBSET found, n \in 0 .. sequence :
           /\ \A x \in taken, y \in found \ taken : x.seq < y.seq
           /\ Cardinality(taken) <= PassSize /\ (taken # found => Cardinality(taken) = PassSize)
           /\ IF taken = {} THEN n = after ELSE LastSequence(n, taken, found)
           /\ rebuild' = [pc |-> "pass", left |-> rebuild.left - (IF afresh THEN 1 ELSE 0),
                          version |-> IF afresh THEN v ELSE rebuild.version, queue |-> taken,
                          after |-> n, more |-> taken # found,
                          present |-> IF afresh THEN {[run |-> r, seq |-> archive[r].seq] : r \in Archived}
                                      ELSE rebuild.present,
                          covered |-> IF afresh THEN {} ELSE rebuild.covered]
  /\ UNCHANGED <<sequence, archive, index, rows, pending, walk, verify>>

\* replaceOneRun, or the run is named in the problems; either way the pass goes on.
RebuildOne ==
  /\ rebuild.pc = "pass"
  /\ \E next \in rebuild.queue :
       /\ \A x \in rebuild.queue : next.seq <= x.seq
       /\ \/ /\ archive[next.run].made
             /\ ReplaceQueryIndex(next.run, archive[next.run].fp, next.fp, rebuild.version)
          \/ UNCHANGED <<index, rows>>
       /\ rebuild' = [rebuild EXCEPT !.queue = @ \ {next}, !.covered = @ \cup {next.run}]
  /\ UNCHANGED <<sequence, archive, pending, walk, verify>>

EndPass ==
  /\ rebuild.pc = "pass" /\ rebuild.queue = {}
  /\ rebuild' = [rebuild EXCEPT !.pc = "idle"]
  /\ UNCHANGED <<sequence, archive, index, rows, pending, walk, verify>>

--------------------------------------------------------------------------------
(* verifyIndexedRun: three reads, each of its own moment *)

VerifyLoad(r, v) ==
  /\ verify.pc \in {"idle", "done"} /\ verify.left > 0
  /\ verify' = IF archive[r].made
               THEN [pc |-> "head", left |-> verify.left - 1, run |-> r, version |-> v, archived |-> archive[r]]
               ELSE [pc |-> "done", left |-> verify.left - 1, agrees |-> FALSE]
  /\ UNCHANGED <<sequence, archive, index, rows, pending, walk, rebuild>>

VerifyHead ==
  /\ verify.pc = "head"
  /\ LET head == index[verify.run] IN
     verify' = [pc |-> "rows", left |-> verify.left, run |-> verify.run, version |-> verify.version,
                archived |-> verify.archived, head |-> head,
                agrees |-> head.made /\ head.version = verify.version /\ head.fp = verify.archived.fp]
  /\ UNCHANGED <<sequence, archive, index, rows, pending, walk, rebuild>>

StoredRows(r) == {o \in rows : o.run = r}

\* Every field of every occurrence, its ordering instant and its version.
VerifyRows ==
  /\ verify.pc = "rows"
  /\ verify' = [pc |-> "done", left |-> verify.left,
                agrees |-> /\ verify.agrees
                           /\ StoredRows(verify.run) = Derived(verify.run, verify.archived.fp, verify.version)]
  /\ UNCHANGED <<sequence, archive, index, rows, pending, walk, rebuild>>

--------------------------------------------------------------------------------
\* Every run archived by the first release, in ingestion order.
IndexInit(walks, passes, checks, archived) ==
  /\ sequence = Cardinality(archived)
  /\ LET first(r) == CHOOSE c \in Contents[r] : TRUE
     IN  /\ archive = [r \in Runs |-> IF r \in archived
                         THEN [made |-> TRUE, seq |-> Cardinality({q \in archived : q <= r}), fp |-> first(r)]
                         ELSE NoRow]
         /\ index = [r \in Runs |-> IF r \in archived THEN [made |-> TRUE, version |-> 1, fp |-> first(r)] ELSE NoRow]
         /\ rows = UNION {Derived(r, first(r), 1) : r \in archived}
  /\ pending = [r \in Runs |-> NoRow]
  /\ walk = [pc |-> "idle", left |-> walks, listing |-> [k |-> "runs", test |-> ""], cursor |-> NoRow,
             pages |-> <<>>, version |-> 0, snapshot |-> NoRow, present |-> {}]
  /\ rebuild = [pc |-> "idle", left |-> passes, version |-> 0, queue |-> {}, after |-> 0, more |-> FALSE,
                present |-> {}, covered |-> {}]
  /\ verify = [pc |-> "idle", left |-> checks]

IndexNext ==
  \/ \E r \in Runs, v \in Versions : \E c \in Contents[r] : TakeSequence(r, c, v)
  \/ \E r \in Runs : CommitRun(r) \/ DeleteRun(r)
  \/ \E r \in Runs, v \in Versions : RepairStoredIndex(r, v)
  \/ \E l \in Listings : StartWalk(l)
  \/ \E v \in Versions, l \in Listings : Gate(v, l)
  \/ Answer
  \/ \E v \in Versions, afresh \in BOOLEAN : StartPass(v, afresh)
  \/ RebuildOne \/ EndPass
  \/ \E r \in Runs, v \in Versions : VerifyLoad(r, v)
  \/ VerifyHead \/ VerifyRows

\* A project with any number of archived runs, and any number of questions.
IndexSpec ==
  /\ \E w, p, c \in Nat, archived \in SUBSET Runs :
       IsFiniteSet(archived) /\ IndexInit(w, p, c, archived)
  /\ [][IndexNext]_indexVars

--------------------------------------------------------------------------------
(* Properties *)

\* What a listing should have answered from an archive, without any index.
OfRun(listing, r, row) ==
  IF listing.k = "runs" THEN {[run |-> r, seq |-> row.seq]}
  ELSE {[run |-> r, execution |-> e.execution, when |-> e.when] :
          e \in {f \in Executions[row.fp] : f.test = listing.test}}

Expected(state, listing) ==
  UNION {OfRun(listing, r, state.archive[r]) : r \in {q \in Runs : state.archive[q].made}}

Shown(listing, o) ==
  IF listing.k = "runs" THEN o ELSE [run |-> o.run, execution |-> o.execution, when |-> o.when]

\* A page that was answered shows only what the archive of its own snapshot
\* holds, and a last page leaves out nothing behind its cursor: the gate and
\* the answer read the same rows, so a project that passed cannot have become
\* stale in between (PostgresQueries.answering).
AnswerIsWhole ==
  walk.pc = "gated" /\ walk'.pc # "gated" =>
    LET expected == Expected(walk.snapshot, walk.listing)
        shown    == {Shown(walk.listing, o) : o \in walk'.pages[Len(walk'.pages)]}
    IN  /\ shown \subseteq expected
        /\ walk'.pc = "done" /\ ~walk.cursor.made => shown = expected

\* A walk that reached its end showed every run, or every occurrence, that was
\* archived from its first page to its last, exactly once and in order (newest
\* sequence first; a history by the producers' clocks), although runs came and
\* went and rows were rewritten between the pages.
WalkMissesNothing ==
  walk.pc = "done" =>
    LET stayed == {p.run : p \in {x \in walk.present : archive[x.run].made /\ archive[x.run].seq = x.seq}}
        shown  == [i \in DOMAIN walk.pages |-> {Shown(walk.listing, o) : o \in walk.pages[i]}]
    IN  /\ \A x \in Expected(Now, walk.listing) : x.run \in stayed => \E i \in DOMAIN shown : x \in shown[i]
        /\ \A i, j \in DOMAIN shown : i < j => \A x \in shown[i], y \in shown[j] :
             /\ x # y
             /\ IF walk.listing.k = "runs" THEN x.seq > y.seq ELSE InTimeOrder(x.when, y.when)

\* A rebuild continued until no more is left has looked at every run that was
\* archived when it began and still is, whatever was deleted between its passes
\* or committed late under an earlier sequence (rebuildProjectIndex).
RebuildWalksAll ==
  rebuild.pc = "idle" /\ ~rebuild.more =>
    \A p \in rebuild.present : archive[p.run].made /\ archive[p.run].seq = p.seq => p.run \in rebuild.covered

\* verifyIndexedRun and the gate of the queries agree: unless the run was
\* replaced or reindexed between its reads, it finds no difference exactly when
\* the run counts as indexed by its release, although it compares every row and
\* the gate only a version and a fingerprint.
VerifyMatchesGate ==
  /\ verify.pc = "rows" /\ verify'.pc = "done"
  /\ archive[verify.run] = verify.archived /\ index[verify.run] = verify.head
  => (verify'.agrees <=> CurrentFor(Now, verify.run, verify.version))

\* The gate is sound: what is answered behind it is whole, and it tells a run
\* that is indexed as one that compares every row would.
GateIsSound == [][AnswerIsWhole /\ VerifyMatchesGate]_indexVars
===============================================================================
