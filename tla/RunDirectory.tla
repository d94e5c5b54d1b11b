---------------------------- MODULE RunDirectory ----------------------------
(***************************************************************************)
(* A run directory as its readers meet it: session files of several         *)
(* producers, in any state of completion, with lines repeated, and what the *)
(* validator, the archive's replay and the read model each make of it.      *)
(* The writers are arbitrary: the readers promise the same of every file.   *)
(***************************************************************************)
EXTENDS ReadModel

CONSTANTS
  Alphabets,    \* payloads a behaviour may draw on, a bound on its lines, its attachments
  Found,        \* projected runs a snapshot may be assembled from
  MaxCopies,    \* bound: lines that are repeated
  MaxFound      \* bound: runs in a snapshot

Files == DOMAIN SessionOrder

VARIABLES
  files,        \* files[f]: the lines of the f-th file by name
  owner,        \* owner[f]: the session whose file it is
  alphabet,     \* what the writers of this behaviour write
  found         \* the runs that were found, in the order they were

vars == <<files, owner, alphabet, found>>

\* The names of the files need not sort as the ids of their sessions do, and a
\* session may have been split over two.
Init ==
  /\ files = [f \in Files |-> <<>>]
  /\ owner \in [Files -> Range(SessionOrder)]
  /\ alphabet \in Alphabets
  /\ found = <<>>

Lines == {<<f, i>> \in Files \X (1 .. alphabet.lines) : i <= Len(files[f])}
Directory == {files[l[1]][l[2]] : l \in Lines}

\* What is written at the same time ends up in different files: it is enough to
\* write them one after another.  Nothing later in the directory makes a wrong
\* line right, so a directory that is already invalid is not made.
Add(f, e) ==
  LET dir == [files EXCEPT ![f] = Append(@, e)] IN
  /\ Cardinality(Lines) < alphabet.lines
  /\ \A g \in Files : g > f => files[g] = <<>>
  /\ FeedFiles(dir).errors = {}
  /\ files' = dir

\* A producer adds its session's next line.
Write(f) ==
  /\ \E payload \in alphabet.payloads :
       LET n == Cardinality({e \in Directory : e.session = owner[f]}) IN
       Add(f, payload @@ [id |-> <<f, n + 1>>, run |-> "run", session |-> owner[f],
                          sequence |-> n + 1, defect |-> "none"])
  /\ UNCHANGED <<owner, alphabet, found>>

\* A line is repeated: in its own file, or in another's.
Copy(f) ==
  /\ Cardinality(Lines) - Cardinality(Directory) < MaxCopies
  /\ \E e \in Directory : Add(f, e)
  /\ UNCHANGED <<owner, alphabet, found>>

\* Another run directory is found.
Discover ==
  /\ alphabet.payloads = {} /\ Len(found) < MaxFound
  /\ \E r \in Found : found' = Append(found, r)
  /\ UNCHANGED <<files, owner, alphabet>>

Next ==
  \/ \E f \in Files : Write(f) \/ Copy(f)
  \/ Discover

Spec == Init /\ [][Next]_vars

-----------------------------------------------------------------------------
(* Properties. *)

\* persistRunDirectory archives a run that is valid, with its attachments, and
\* complete.
Archivable(v) ==
  /\ RunErrors(v, FALSE) \cup AttachmentErrors(v, alphabet.bytes) = {}
  /\ Complete(v) /\ v.source # <<>>

\* The file that holds a line first.
Home(e) == CHOOSE f \in Files :
  e \in Range(files[f]) /\ \A g \in 1 .. f - 1 : e \notin Range(files[g])
OneFilePerSession == \A d, e \in Directory : d.session = e.session => Home(d) = Home(e)

OwnLines == IsInjective(owner) /\ \A f \in Files : \A e \in Range(files[f]) : e.session = owner[f]

\* A stored run that cannot be replayed is in the archive and cannot be read.
Replays ==
  LET v == FeedFiles(files)
      r == ReplayStored(OrderLines(v.source))
  IN  Archivable(v) => /\ RunErrors(r, FALSE) = {} /\ Summary(r) = Summary(v)
                       /\ ContentFingerprint(r.source) = ContentFingerprint(v.source)
                       /\ RequiredBlobs(r.accepted) = RequiredBlobs(v.accepted)

\* replayStored: a run whose sessions are one file each, as FileSink writes them,
\* replays as valid, with the summary and the fingerprint of its ingestion,
\* although it is fed in another order and its repeated lines are elsewhere.
ReplayAgrees == OneFilePerSession => Replays

\* The class comment of RunValidator, for the runs that are archived: whether a
\* run is complete and valid, and its summary, do not depend on the order its
\* session files are fed in, although attempts are looked up run-wide.
FileOrderNeverDecides ==
  LET v == FeedFiles(files)
      w == FeedFiles(Reverse(files))
  IN  OwnLines /\ Archivable(v) => Archivable(w) /\ Summary(v) = Summary(w)

\* feed looks attempts up in the whole run; still every attempt of an archived
\* run begins and ends in one session, with its steps and attachments between.
AttemptsStayInSession ==
  LET v == FeedFiles(files) IN
  Archivable(v) =>
    \A e \in Range(v.accepted) :
      e.attempt # "none" =>
        \E b, d \in Range(v.accepted) :
          /\ b.type = "attempt.started" /\ d.type = "attempt.finished"
          /\ b.attempt = e.attempt /\ d.attempt = e.attempt
          /\ b.session = e.session /\ d.session = e.session
          /\ b.sequence <= e.sequence /\ e.sequence <= d.sequence

\* projectRun repeats the validator's reading from the same events in its own
\* order: it never finds an accepted run ambiguous, and what it projects of a
\* complete run has the verdict the validator gave.
VerdictAgrees ==
  LET v == FeedFiles(files)
      r == ProjectRun(v)
      finals == {r.executions[x].final : x \in DOMAIN r.executions}
      statuses == {r.facts.sessions[s].status : s \in DOMAIN r.facts.sessions}
  IN  RunErrors(v, FALSE) = {} /\ v.accepted # <<>> =>
        /\ r.kind = "projected"
        /\ Complete(v) =>
             /\ \A x \in DOMAIN r.executions : r.executions[x].complete
             /\ r.verdict =
                  (IF (\E a \in finals : Unexpected(a)) \/ r.facts.scopeFailures > 0 \/ "failed" \in statuses
                     THEN "failed"
                   ELSE IF (\E a \in finals : a.status = "inconclusive") \/ "inconclusive" \in statuses
                     THEN "inconclusive" ELSE "passed")

\* historyOccurrencesOf: a test that counts as flaky in the history has an attempt
\* that failed unexpectedly before one that passed and decides.
FlakyMeansRecovered ==
  LET v == FeedFiles(files)
      r == ProjectRun(v)
      Begins(o) == {e \in Range(v.accepted) : e.type = "attempt.started" /\ e.exec = o.exec}
      Ends(b) == {e \in Range(v.accepted) : e.type = "attempt.finished" /\ e.attempt = b.attempt}
  IN  Archivable(v) =>
        \A o \in HistoryOccurrencesOf(r) : o.flaky =>
          \E b, d \in Begins(o) :
            /\ b.number < d.number /\ \A c \in Begins(o) : c.number <= d.number
            /\ \E e \in Ends(b) : e.status = "failed" /\ Unexpected(e)
            /\ \E e \in Ends(d) : e.status = "passed" /\ ~Unexpected(e)

\* requiredBlobs: two declarations disagreeing about the size of one hash "name
\* bytes that cannot both exist, which a directory validation would already have
\* refused for at least one of them".
OneSizePerHash == LET v == FeedFiles(files) IN Archivable(v) => SizesAgree(RequiredBlobs(v.accepted))

\* assemble: "neither order can change the result".
AssemblyIgnoresOrder ==
  \A p \in Permutations(DOMAIN found) : Assemble([i \in DOMAIN found |-> found[p[i]]]) = Assemble(found)

\* The order in which files are fed or runs are found never decides anything.
OrderNeverDecides == FileOrderNeverDecides /\ AssemblyIgnoresOrder

\* What the read model says of a run, the run's events say: its verdict, and
\* which of its tests recovered from a failure.
ProjectionAgrees == VerdictAgrees /\ FlakyMeansRecovered

\* What the archive takes for granted of a run it accepts: an attempt belongs to
\* one session, and a hash to bytes of one size.
ArchivedIsSound == AttemptsStayInSession /\ OneSizePerHash
=============================================================================
