----------------------------- MODULE ReadModel -----------------------------
(***************************************************************************)
(* What is made of a run the validator accepts: its stored lines and their  *)
(* replay (packages/postgres), and its projection, history and place in a   *)
(* snapshot (packages/read-model).                                          *)
(***************************************************************************)
EXTENDS Validator

CONSTANT SessionOrder   \* the session ids, in the order of their code units

Rank(s) == CHOOSE i \in DOMAIN SessionOrder : SessionOrder[i] = s

Before(a, b) ==
  Rank(a.session) < Rank(b.session) \/ (a.session = b.session /\ a.sequence < b.sequence)

-----------------------------------------------------------------------------
(* The archive's lines. *)

\* orderLines: ties are kept in the order they were read.
OrderLines(source) ==
  LET read == [i \in DOMAIN source |-> [line |-> source[i], occurrence |-> i]]
      Earlier(a, b) == \/ Before(a.line.event, b.line.event)
                       \/ /\ a.line.event.session = b.line.event.session
                          /\ a.line.event.sequence = b.line.event.sequence
                          /\ a.occurrence < b.occurrence
      sorted == SortSeq(read, Earlier)
  IN  [i \in DOMAIN sorted |-> sorted[i].line]

\* contentFingerprint: what was accepted or ignored, once each.
ContentFingerprint(source) ==
  {source[i].event : i \in {j \in DOMAIN source : source[j].disposition # "duplicate"}}

\* requiredBlobs: the hashes, unless one is declared with two sizes.
RequiredBlobs(accepted) ==
  {[hash |-> e.hash, size |-> e.size] : e \in {x \in Range(accepted) : x.type = "attachment.added"}}
SizesAgree(blobs) == \A a, b \in blobs : a.hash = b.hash => a = b

\* replayStored: one feed for each session, in the order the stored lines first
\* name it; the attachments are not looked at.
ReplayStored(lines) ==
  LET events == [i \in DOMAIN lines |-> lines[i].event]
      ids == FoldLeft(LAMBDA known, e : IF e.session \in Range(known) THEN known ELSE Append(known, e.session),
                      <<>>, events)
  IN  FoldLeft(LAMBDA v, s : Feed(v, SelectSeq(events, LAMBDA e : e.session = s), TRUE), Fresh, ids)

-----------------------------------------------------------------------------
(* projectRun *)

ProjectEvent(p, e) ==
  CASE e.type = "session.started"  ->
         [p EXCEPT !.sessions = (e.session :> [runner |-> e.runner, status |-> "open"]) @@ @]
    [] e.type = "session.finished" ->
         IF Known(p.sessions, e.session) THEN [p EXCEPT !.sessions[e.session].status = e.status] ELSE p
    [] e.type = "attempt.started"  ->
         [p EXCEPT !.attempts = (e.attempt :> [started |-> e, finished |-> FALSE, status |-> "none",
                                               expected |-> "none", steps |-> <<>>]) @@ @]
    [] e.type = "attempt.finished" ->
         IF Known(p.attempts, e.attempt)
           THEN [p EXCEPT !.attempts[e.attempt].finished = TRUE,
                          !.attempts[e.attempt].status = e.status,
                          !.attempts[e.attempt].expected = e.expected] ELSE p
    [] e.type = "step.started"     ->
         IF Known(p.attempts, e.attempt)
           THEN [p EXCEPT !.attempts[e.attempt].steps = (e.step :> FALSE) @@ @] ELSE p
    [] e.type = "step.finished"    ->
         IF Known(p.attempts, e.attempt) /\ Known(p.attempts[e.attempt].steps, e.step)
           THEN [p EXCEPT !.attempts[e.attempt].steps[e.step] = TRUE] ELSE p
    [] e.type = "attachment.added" -> [p EXCEPT !.attachments = Append(@, e)]
    [] e.type = "scope.failed"     -> [p EXCEPT !.scopeFailures = @ + 1]
    [] OTHER                       -> p

\* The events by session and sequence, whatever order the files were fed in.
ProjectFacts(accepted) ==
  FoldLeft(ProjectEvent, [sessions |-> <<>>, attempts |-> <<>>, attachments |-> <<>>, scopeFailures |-> 0],
           SortSeq(accepted, Before))

\* The attempts of an execution, by number.
AttemptsOf(p, x) ==
  SortSeq(SetToSeq({p.attempts[a] : a \in {b \in DOMAIN p.attempts : p.attempts[b].started.exec = x}}),
          LAMBDA a, b : a.started.number < b.started.number)

RunnersOf(p, list) ==
  {IF Known(p.sessions, a.started.session) THEN p.sessions[a.started.session].runner ELSE "none" :
     a \in Range(list)}

\* groupExecutions: an execution with two meanings is refused.
Ambiguous(p, list) ==
  \/ \E i \in 2 .. Len(list) : list[i].started.number = list[i - 1].started.number
  \/ \E a \in Range(list) : a.started.hist # list[1].started.hist
  \/ Cardinality(RunnersOf(p, list)) > 1

Expected(a) == IF a.expected = "none" THEN "passed" ELSE a.expected

\* isFlaky
IsFlaky(list) ==
  LET last == list[Len(list)] IN
  /\ Len(list) >= 2
  /\ last.finished /\ last.status = "passed" /\ Expected(last) = "passed"
  /\ \E a \in Range(list) \ {last} : a.finished /\ a.status = "failed" /\ Expected(a) = "passed"

Execution(p, list) ==
  [attempts |-> list, final |-> list[Len(list)], runner |-> CHOOSE r \in RunnersOf(p, list) : TRUE,
   hist |-> list[1].started.hist, complete |-> \A a \in Range(list) : a.finished, flaky |-> IsFlaky(list)]

\* projectRunDirectory
ProjectRun(v) ==
  LET p == ProjectFacts(v.accepted)
      ids == {p.attempts[a].started.exec : a \in DOMAIN p.attempts}
  IN  IF RunErrors(v, FALSE) # {} THEN [kind |-> "RUN_INVALID"]
      ELSE IF v.accepted = <<>> THEN [kind |-> "EMPTY_RUN"]
      ELSE IF \E x \in ids : Ambiguous(p, AttemptsOf(p, x)) THEN [kind |-> "PROJECTION_AMBIGUOUS"]
      ELSE [kind |-> "projected", facts |-> p, complete |-> Complete(v), verdict |-> Verdict(v),
            executions |-> [x \in ids |-> Execution(p, AttemptsOf(p, x))]]

\* historyOccurrencesOf: an execution with an identity and a runner.
HistoryOccurrencesOf(r) ==
  {[exec |-> x, runner |-> r.executions[x].runner, hist |-> r.executions[x].hist,
    attempts |-> Len(r.executions[x].attempts), status |-> r.executions[x].final.status,
    flaky |-> r.executions[x].flaky, session |-> r.facts.sessions[r.executions[x].final.started.session].status] :
   x \in {y \in DOMAIN r.executions : r.executions[y].hist # "none" /\ r.executions[y].runner # "none"}}

-----------------------------------------------------------------------------
(* ReadModel.assemble, over projected runs [key, directory, blobs], the keys    *)
(* numbered in their order.                                                 *)

Candidates(runs, k) ==
  FoldLeft(LAMBDA known, r :
             IF r.key # k \/ \E o \in Range(known) : o.directory = r.directory
               THEN known ELSE Append(known, r), <<>>, runs)

\* One key: a run found in two directories, a run that contradicts the catalog,
\* or a run that enters the model.
Settle(model, runs, k) ==
  LET c == Candidates(runs, k) IN
  IF c = <<>> THEN model
  ELSE IF Len(c) > 1
    THEN [model EXCEPT !.problems = @ \cup {<<"DUPLICATE_RUN", r.directory>> : r \in Range(c)}]
  ELSE IF \E a \in c[1].blobs, b \in model.blobs : a.hash = b.hash /\ a.size # b.size
    THEN [model EXCEPT !.problems = @ \cup {<<"BLOB_SIZE_CONFLICT", c[1].directory>>}]
  ELSE [model EXCEPT !.runs = @ \cup {c[1]}, !.blobs = @ \cup c[1].blobs]

Assemble(runs) ==
  LET keys == SortSeq(SetToSeq({r.key : r \in Range(runs)}), <) IN
  FoldLeft(LAMBDA model, k : Settle(model, runs, k), [runs |-> {}, blobs |-> {}, problems |-> {}], keys)
=============================================================================
