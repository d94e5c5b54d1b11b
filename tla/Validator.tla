----------------------------- MODULE Validator -----------------------------
(***************************************************************************)
(* RunValidator (packages/validator): what one run is worth, fed one event  *)
(* file at a time.  The validator is one record; feeding maps it to another. *)
(* Diagnostics are kept as the set of the error codes that were reported.   *)
(*                                                                         *)
(* A line is a record: what the parser makes of it (defect "none" for an    *)
(* event that is well formed), its envelope and the payload fields the      *)
(* checks look at.  Fields a type does not have are "none" or 0.            *)
(***************************************************************************)
EXTENDS Integers, Sequences, FiniteSets, TLC, SequencesExt

Types == {"session.started", "session.finished", "run.finished", "attempt.started",
          "attempt.finished", "step.started", "step.finished", "scope.failed", "attachment.added"}

\* new RunValidator: here, closedHere and abandoned are the variables of a feed.
Fresh ==
  [errors |-> {}, seen |-> {}, runId |-> "none", sessions |-> <<>>, attempts |-> <<>>,
   executions |-> <<>>, attachments |-> {}, accepted |-> <<>>, source |-> <<>>,
   runFinished |-> FALSE, events |-> 0, ignored |-> 0, duplicates |-> 0, steps |-> 0,
   scopeFailures |-> 0, failedAttempts |-> 0, failedSessions |-> 0, inconclusiveSessions |-> 0,
   here |-> "none", closedHere |-> FALSE, abandoned |-> FALSE]

Report(v, codes) == [v EXCEPT !.errors = @ \cup codes]

If(condition, code) == IF condition THEN {code} ELSE {}
One(condition) == IF condition THEN 1 ELSE 0

\* archive: the line as it will be stored.
Archive(v, e, disposition) ==
  [v EXCEPT !.source = Append(@, [event |-> e, disposition |-> disposition])]

\* A slip: a line that is repeated is not stored.
RepeatedUnstored(v, e) ==
  IF e \in v.seen THEN [v EXCEPT !.duplicates = @ + 1] ELSE Report(v, {"DUPLICATE_EVENT_ID"})

\* A line whose event id was seen: the same event again, or another under its id.
Repeated(v, e) ==
  IF e \in v.seen
    THEN Archive([v EXCEPT !.duplicates = @ + 1], e, "duplicate")
    ELSE Report(v, {"DUPLICATE_EVENT_ID"})

\* A new event id, the run it names and the place of the line in its file.
Counted(v, e, single) ==
  LET u == [v EXCEPT !.seen = @ \cup {e}, !.events = @ + 1,
                     !.runId = IF @ = "none" THEN e.run ELSE @,
                     !.here = IF single /\ @ = "none" THEN e.session ELSE @]
  IN  Report(u, If(u.runId # e.run, "RUN_ID_MISMATCH"))

Misplaced(v, e, single) == single /\ v.here # e.session

-----------------------------------------------------------------------------
(* The session of an event. *)

Known(map, key) == key \in DOMAIN map

Opened(v, e) ==
  [v EXCEPT !.sessions =
     (e.session :> [finished |-> FALSE, last |-> 0, runner |-> e.runner, synthesized |-> FALSE]) @@ @]

\* An event before session.started opens a session whose runner is unknown.
Synthesized(v, e) ==
  [v EXCEPT !.errors = @ \cup {"SESSION_NOT_STARTED"},
            !.sessions = (e.session :> [finished |-> FALSE, last |-> e.sequence - 1,
                                        runner |-> "none", synthesized |-> TRUE]) @@ @]

InSession(v, e) ==
  IF e.type = "session.started" THEN Opened(v, e)
  ELSE IF Known(v.sessions, e.session) THEN v ELSE Synthesized(v, e)

Sequenced(v, e) ==
  Report([v EXCEPT !.sessions[e.session].last = e.sequence],
         If(e.sequence # v.sessions[e.session].last + 1, "SEQUENCE_GAP"))

-----------------------------------------------------------------------------
(* The events. *)

\* A slip: a session ends whatever attempts it has open.
SessionFinishedAnyway(v, e) ==
  [v EXCEPT !.sessions[e.session].finished = TRUE,
            !.failedSessions = @ + One(e.status = "failed"),
            !.inconclusiveSessions = @ + One(e.status = "inconclusive")]

SessionFinished(v, e) ==
  Report([v EXCEPT !.sessions[e.session].finished = TRUE,
                   !.failedSessions = @ + One(e.status = "failed"),
                   !.inconclusiveSessions = @ + One(e.status = "inconclusive")],
         If(\E x \in DOMAIN v.attempts :
              v.attempts[x].session = e.session /\ ~v.attempts[x].finished,
            "ATTEMPT_NOT_FINISHED_AT_SESSION_END"))

RunFinished(v, e) ==
  Report([v EXCEPT !.runFinished = TRUE, !.closedHere = TRUE],
         If(v.runFinished, "DUPLICATE_RUN_FINISHED"))

\* A slip: only the first attempt's number is remembered.
CheckExecutionOnce(v, e) ==
  LET s == v.sessions[e.session] IN
  IF ~Known(v.executions, e.exec)
    THEN [v EXCEPT !.executions =
            (e.exec :> [numbers |-> {}, hist |-> e.hist, runner |-> s.runner,
                        runnerKnown |-> ~s.synthesized]) @@ @]
    ELSE Report(v, If(v.executions[e.exec].hist # e.hist, "HISTORICAL_IDENTITY_CHANGED"))

\* checkExecution: the first attempt that is fed is the reference of the others.
CheckExecution(v, e) ==
  LET s == v.sessions[e.session] IN
  IF ~Known(v.executions, e.exec)
    THEN [v EXCEPT !.executions =
            (e.exec :> [numbers |-> {e.number}, hist |-> e.hist, runner |-> s.runner,
                        runnerKnown |-> ~s.synthesized]) @@ @]
    ELSE LET k == v.executions[e.exec] IN
         Report([v EXCEPT !.executions[e.exec].numbers = @ \cup {e.number}],
                If(e.number \in k.numbers, "DUPLICATE_ATTEMPT_NUMBER")
                \cup If(k.hist # e.hist, "HISTORICAL_IDENTITY_CHANGED")
                \cup If(k.runnerKnown /\ ~s.synthesized /\ k.runner # s.runner,
                        "EXECUTION_RUNNER_CHANGED"))

AttemptStarted(v, e) ==
  LET u == Report(v, If(e.hist # "none" /\ v.sessions[e.session].runner = "none",
                        "HISTORICAL_ID_WITHOUT_RUNNER"))
  IN  IF Known(v.attempts, e.attempt)
        THEN Report(u, {"DUPLICATE_ATTEMPT_ID"})
        ELSE CheckExecution(
               [u EXCEPT !.attempts =
                  (e.attempt :> [session |-> e.session, exec |-> e.exec, number |-> e.number,
                                 finished |-> FALSE, unexpected |-> FALSE, inconclusive |-> FALSE,
                                 steps |-> <<>>]) @@ @], e)

Unexpected(e) ==
  \/ e.status = "failed" /\ e.expected # "failed"
  \/ e.status = "passed" /\ e.expected = "failed"

AttemptFinished(v, e) ==
  IF ~Known(v.attempts, e.attempt) THEN Report(v, {"ATTEMPT_NOT_STARTED"})
  ELSE IF v.attempts[e.attempt].finished THEN Report(v, {"DUPLICATE_ATTEMPT_FINISHED"})
  ELSE LET steps == v.attempts[e.attempt].steps IN
       Report([v EXCEPT !.attempts[e.attempt].finished = TRUE,
                        !.attempts[e.attempt].unexpected = Unexpected(e),
                        !.attempts[e.attempt].inconclusive = e.status = "inconclusive",
                        !.failedAttempts = @ + One(e.status = "failed")],
              If(\E s \in DOMAIN steps : ~steps[s], "STEP_NOT_FINISHED_AT_ATTEMPT_END"))

\* A slip: a step may start in an attempt that has finished.
StepStartedLate(v, e) ==
  IF ~Known(v.attempts, e.attempt) THEN Report(v, {"STEP_OUTSIDE_ATTEMPT"})
  ELSE [v EXCEPT !.attempts[e.attempt].steps = (e.step :> FALSE) @@ @, !.steps = @ + 1]

StepStarted(v, e) ==
  IF ~Known(v.attempts, e.attempt) \/ (Known(v.attempts, e.attempt) /\ v.attempts[e.attempt].finished)
    THEN Report(v, {"STEP_OUTSIDE_ATTEMPT"})
    ELSE LET steps == v.attempts[e.attempt].steps IN
         Report([v EXCEPT !.attempts[e.attempt].steps = (e.step :> FALSE) @@ @, !.steps = @ + 1],
                If(Known(steps, e.step), "DUPLICATE_STEP_ID")
                \cup If(e.parent # "none" /\ ~Known(steps, e.parent), "STEP_PARENT_UNKNOWN"))

StepFinished(v, e) ==
  IF ~Known(v.attempts, e.attempt) \/ (Known(v.attempts, e.attempt) /\ ~Known(v.attempts[e.attempt].steps, e.step))
    THEN Report(v, {"STEP_NOT_STARTED"})
  ELSE IF v.attempts[e.attempt].steps[e.step] THEN Report(v, {"DUPLICATE_STEP_FINISHED"})
  ELSE [v EXCEPT !.attempts[e.attempt].steps[e.step] = TRUE]

AttachmentAdded(v, e) ==
  LET known == Known(v.attempts, e.attempt) IN
  Report([v EXCEPT !.attachments = @ \cup {e}],
         If(~known, "ATTACHMENT_ATTEMPT_UNKNOWN")
         \cup If(known /\ v.attempts[e.attempt].finished, "ATTACHMENT_AFTER_ATTEMPT_FINISHED")
         \cup If(known /\ ~v.attempts[e.attempt].finished
                   /\ e.step # "none" /\ ~Known(v.attempts[e.attempt].steps, e.step),
                 "ATTACHMENT_STEP_UNKNOWN"))

Applied(v, e) ==
  CASE e.type = "session.finished" -> SessionFinished(v, e)
    [] e.type = "run.finished"     -> RunFinished(v, e)
    [] e.type = "attempt.started"  -> AttemptStarted(v, e)
    [] e.type = "attempt.finished" -> AttemptFinished(v, e)
    [] e.type = "step.started"     -> StepStarted(v, e)
    [] e.type = "step.finished"    -> StepFinished(v, e)
    [] e.type = "attachment.added" -> AttachmentAdded(v, e)
    [] e.type = "scope.failed"     -> [v EXCEPT !.scopeFailures = @ + 1]
    [] OTHER                       -> v

-----------------------------------------------------------------------------
(* feed and finish *)

\* What a feed does with an event that is new to the run.
Placed(v, e, single) ==
  IF Misplaced(v, e, single) THEN Report(v, {"SESSION_FILE_MIXED"})
  ELSE
    LET u == Report(v, If(v.closedHere, "EVENT_AFTER_RUN_FINISHED")) IN
    IF e.type = "session.started" /\ Known(u.sessions, e.session)
      THEN Report([u EXCEPT !.abandoned = single], {"SESSION_ALREADY_STARTED"})
      ELSE
        LET w == Sequenced(InSession(u, e), e) IN
        IF w.sessions[e.session].finished /\ e.type # "run.finished"
          THEN Report(w, {"SESSION_ALREADY_FINISHED"})
        ELSE IF e.type \notin Types
          THEN Archive([w EXCEPT !.ignored = @ + 1], e, "ignored")
        ELSE Applied(Archive([w EXCEPT !.accepted = Append(@, e)], e, "accepted"), e)

\* One line: too large, not JSON, not an event or not of its schema is an error
\* and nothing more.
Line(v, e, single) ==
  IF v.abandoned THEN v
  ELSE IF e.defect # "none" THEN Report(v, {e.defect})
  ELSE IF \E s \in v.seen : s.id = e.id THEN Repeated(v, e)
  ELSE Placed(Counted(v, e, single), e, single)

Feed(v, lines, single) ==
  FoldLeft(LAMBDA u, e : Line(u, e, single),
           [v EXCEPT !.here = "none", !.closedHere = FALSE, !.abandoned = FALSE], lines)

\* validateRunDirectorySnapshot: the files in the order of their names.
FeedFiles(files) == FoldLeft(LAMBDA v, lines : Feed(v, lines, TRUE), Fresh, files)

Finished(map) == \A k \in DOMAIN map : map[k].finished

Complete(v) ==
  /\ Finished(v.sessions) /\ Finished(v.attempts)
  /\ \A x \in DOMAIN v.attempts : \A s \in DOMAIN v.attempts[x].steps : v.attempts[x].steps[s]

\* The attempt with the highest number of its execution, for every execution.
Finals(v) ==
  {v.attempts[x] : x \in {y \in DOMAIN v.attempts :
     \A z \in DOMAIN v.attempts :
       v.attempts[z].exec = v.attempts[y].exec => v.attempts[z].number <= v.attempts[y].number}}

Verdict(v) ==
  IF ~Complete(v) THEN "incomplete"
  ELSE IF (\E a \in Finals(v) : a.unexpected) \/ v.scopeFailures > 0 \/ v.failedSessions > 0 THEN "failed"
  ELSE IF (\E a \in Finals(v) : a.inconclusive) \/ v.inconclusiveSessions > 0 THEN "inconclusive"
  ELSE "passed"

\* The attachments directory: bytes[h] is what is found under the hash h, which
\* is a file ("intact" or "altered") of some size, no regular file, or nothing.
AttachmentErrors(v, bytes) ==
  UNION {If(bytes[e.hash].kind = "missing", "ATTACHMENT_MISSING")
         \cup If(bytes[e.hash].kind = "irregular", "UNSAFE_FILESYSTEM_ENTRY")
         \cup If(bytes[e.hash].kind \in {"intact", "altered"} /\ bytes[e.hash].size # e.size,
                 "ATTACHMENT_SIZE_MISMATCH")
         \cup If(bytes[e.hash].kind = "altered", "ATTACHMENT_HASH_MISMATCH") : e \in v.attachments}

\* finish, but for the attachments.
RunErrors(v, requireComplete) ==
  v.errors
  \cup If(v.runFinished /\ ~Finished(v.sessions), "SESSION_NOT_FINISHED_AT_RUN_END")
  \cup If(requireComplete /\ ~Complete(v), "INCOMPLETE_RUN")

\* The summary a replay is compared by.
Summary(v) ==
  [events |-> v.events, sessions |-> Cardinality(DOMAIN v.sessions),
   attempts |-> Cardinality(DOMAIN v.attempts), steps |-> v.steps,
   attachments |-> Cardinality(v.attachments), failedAttempts |-> v.failedAttempts,
   scopeFailures |-> v.scopeFailures, failedSessions |-> v.failedSessions,
   inconclusiveSessions |-> v.inconclusiveSessions, ignored |-> v.ignored,
   duplicates |-> v.duplicates, complete |-> Complete(v), closed |-> v.runFinished,
   verdict |-> Verdict(v)]
=============================================================================
