------------------------- MODULE PlaywrightReporter -------------------------
(***************************************************************************)
(* QeReportReporter (packages/playwright): the callbacks of one invocation  *)
(* mapped to one session.  Playwright does not await them and each runs to  *)
(* its end.  The runner is free in what it calls: steps that begin late or  *)
(* never end, ends without a begin, a test that begins twice, an invocation *)
(* that ends with tests still open, and callbacks after the end.            *)
(***************************************************************************)
EXTENDS Producer

CONSTANTS
  Configs,    \* resolved configurations: enabled, generated (the run id), upload
  Attempts,   \* attempts of tests: a record of id, exec and number
  StepNames,  \* step objects of an attempt
  StepId,     \* StepId[n]: the id of the n-th step of an attempt
  Bodies,     \* attachment objects
  MaxEvents   \* bound: events after which the runner only ends what is open

ASSUME EventBound == MaxEvents \in Nat
ASSUME EnoughIds == Len(StepId) >= Cardinality(StepNames)

VARIABLES
  config,     \* the resolved configuration
  live,       \* this.session is set
  attempts,   \* attempts: id -> its open steps, step count and emitted attachments
  failures,   \* sessionFailures is not empty
  known,      \* the runner: attempts that have ended, and steps that have begun
  result,     \* the runner: FullResult.status, "none" before the end
  delivered   \* what the uploader was given: a file, or nothing

playwrightVars == <<config, live, attempts, failures, known, result, delivered>>

OpenAttempt == [steps |-> <<>>, count |-> 0, emitted |-> {}]

Nothing == [made |-> FALSE, file |-> <<>>]

\* Before onBegin.
PlaywrightInit ==
  /\ config \in Configs
  /\ session = NewSession /\ live = FALSE
  /\ attempts = <<>> /\ failures = FALSE
  /\ known = [ended |-> {}, begun |-> {}]
  /\ result = "none" /\ delivered = Nothing

Room == Len(session.file) + session.dropped < MaxEvents

Without(map, key) == [k \in DOMAIN map \ {key} |-> map[k]]

\* onBegin: no session when reporting is disabled or the sink cannot be opened.
OnBegin ==
  /\ ~live /\ session = NewSession /\ result = "none"
  /\ config.enabled
  /\ session' \in Within(Start("playwright"))
  /\ live' = TRUE
  /\ UNCHANGED <<config, attempts, failures, known, result, delivered>>

\* onTestBegin: the attempt is remembered whether or not its event is written.
OnTestBegin(x) ==
  /\ live /\ Room /\ x.id \notin known.ended /\ x.id \notin DOMAIN attempts
  /\ attempts' = (x.id :> OpenAttempt) @@ attempts
  /\ session' \in Within(Emit(session,
       [Typed("attempt.started") EXCEPT !.attempt = x.id, !.exec = x.exec, !.number = x.number,
                                        !.hist = x.exec]))
  /\ UNCHANGED <<config, live, failures, known, result, delivered>>

\* onStepBegin: a parent that has ended is not named.
OnStepBegin(x, step, parent) ==
  /\ live /\ Room /\ Known(attempts, x.id) /\ <<x.id, step>> \notin known.begun /\ parent # step
  /\ known' = [known EXCEPT !.begun = @ \cup {<<x.id, step>>}]
  /\ LET a == attempts[x.id]
         n == a.count + 1
     IN  /\ attempts' = [attempts EXCEPT ![x.id].count = n,
                                         ![x.id].steps = (step :> StepId[n]) @@ @]
         /\ session' \in Within(Emit(session,
              [Typed("step.started") EXCEPT !.attempt = x.id, !.step = StepId[n],
                 !.parent = IF Known(a.steps, parent) THEN a.steps[parent] ELSE "none"]))
  /\ UNCHANGED <<config, live, failures, result, delivered>>

Added(id, step, body) ==
  [Typed("attachment.added") EXCEPT !.attempt = id, !.step = step, !.hash = body]

\* attach: nothing is announced when the bytes cannot be stored.
AttachAll(s, id, step, bodies) ==
  UNION {EmitAll(s, SetToSeq({Added(id, step, b) : b \in stored})) : stored \in SUBSET bodies}

\* onStepEnd: the attachments of the step, then its end.
OnStepEnd(x, step, bodies) ==
  /\ live /\ Known(attempts, x.id) /\ Known(attempts[x.id].steps, step)
  /\ LET a == attempts[x.id] IN
     /\ attempts' = [attempts EXCEPT ![x.id].steps = Without(@, step), ![x.id].emitted = @ \cup bodies]
     /\ session' \in Within(UNION {Emit(s, [Typed("step.finished") EXCEPT !.attempt = x.id, !.step = a.steps[step]]) :
                                     s \in AttachAll(session, x.id, a.steps[step], bodies \ a.emitted)})
  /\ UNCHANGED <<config, live, failures, known, result, delivered>>

\* A slip: steps that never ended are left open.
CloseOpenStepsNever(id) == <<>>

\* closeOpenSteps: an end without a verdict for every step that is open.
CloseOpenSteps(id) ==
  SetToSeq({[Typed("step.finished") EXCEPT !.attempt = id, !.step = attempts[id].steps[s],
                                           !.status = "inconclusive"] :
              s \in DOMAIN attempts[id].steps})

Closing(id, status, expected) ==
  [Typed("attempt.finished") EXCEPT !.attempt = id, !.status = status, !.expected = expected]

\* onTestEnd: open steps, the attachments no step announced, and the end.
OnTestEnd(x, status, expected, bodies) ==
  /\ live /\ Known(attempts, x.id)
  /\ known' = [known EXCEPT !.ended = @ \cup {x.id}]
  /\ attempts' = Without(attempts, x.id)
  /\ session' \in Within(
       UNION {UNION {Emit(t, Closing(x.id, status, expected)) :
                       t \in AttachAll(s, x.id, "none", bodies \ attempts[x.id].emitted)} :
              s \in EmitAll(session, CloseOpenSteps(x.id))})
  /\ UNCHANGED <<config, live, failures, result, delivered>>

\* onError: in a test file, once there is a session; in the global set-up or
\* teardown; or anywhere else, which is only printed.
OnError(where) ==
  /\ result = "none" /\ Room
  /\ \/ /\ where = "file" /\ live
        /\ session' \in Within(Emit(session, Typed("scope.failed")))
        /\ UNCHANGED failures
     \/ where = "module" /\ failures' = TRUE /\ UNCHANGED session
  /\ UNCHANGED <<config, live, attempts, known, result, delivered>>

\* A slip: an interrupted invocation has no outcome.
OutcomeUnlessInterrupted(status) ==
  LET mapped == CASE status = "passed" -> "passed"
                  [] status \in {"failed", "timedout"} -> "failed"
                  [] OTHER -> "none"
  IN  [status |-> mapped, rawStatus |-> mapped # "none", failures |-> failures /\ mapped = "failed"]

\* sessionStatus, and the failures only a session that did not pass carries.
Outcome(status) ==
  LET mapped == CASE status = "passed" -> "passed"
                  [] status \in {"failed", "timedout"} -> "failed"
                  [] status = "interrupted" -> "inconclusive"
                  [] OTHER -> "none"
  IN  [status |-> mapped, rawStatus |-> mapped # "none",
       failures |-> failures /\ mapped \in {"failed", "inconclusive"}]

\* Attempts that never finished are closed as inconclusive.
Unfinished ==
  FoldLeft(LAMBDA events, id : events \o CloseOpenSteps(id) \o <<Closing(id, "inconclusive", "none")>>,
           <<>>, SetToSeq(DOMAIN attempts))

\* finish, finishRun for a run that is this process's own, and close.
Concluded(s, status) ==
  Within(UNION {UNION {Close(u) : u \in IF config.generated /\ t.lifecycle = "session-finished"
                                           THEN FinishRun(t) ELSE {t}} :
                t \in Finish(s, Outcome(status))})

\* uploadRun: only a run whose id this process generated.
Delivered(file) == IF config.enabled /\ config.upload /\ config.generated THEN [made |-> TRUE, file |-> file] ELSE Nothing

\* onEnd, up to the delivery that is awaited.
OnEnd(status) ==
  /\ result = "none"
  /\ result' = status
  /\ IF live
       THEN /\ session' \in UNION {Concluded(s, status) : s \in EmitAll(session, Unfinished)}
            /\ attempts' = <<>> /\ live' = FALSE
            /\ delivered' = Delivered(session'.file)
       ELSE UNCHANGED <<session, attempts, live, delivered>>
  /\ UNCHANGED <<config, failures, known>>

PlaywrightNext ==
  \/ OnBegin
  \/ \E x \in Attempts :
       \/ OnTestBegin(x)
       \/ \E step \in StepNames :
            \/ \E parent \in StepNames \cup {"none"} : OnStepBegin(x, step, parent)
            \/ \E bodies \in SUBSET Bodies : OnStepEnd(x, step, bodies)
       \/ \E status \in {"passed", "failed"}, expected \in {"none", "failed"} :
            \E bodies \in SUBSET Bodies : OnTestEnd(x, status, expected, bodies)
  \/ \E where \in {"file", "module"} : OnError(where)
  \/ \E status \in {"passed", "failed", "interrupted", "other"} : OnEnd(status)
-----------------------------------------------------------------------------
(* Properties. *)

\* onEnd: an invocation that ended, however many tests and steps it left open,
\* has left a complete run, closed when its id was this process's own.
PlaywrightEndsComplete ==
  result # "none" /\ session.dropped = 0 /\ session.file # <<>> =>
    LET v == Read(session.file) IN Complete(v) /\ v.runFinished = config.generated

\* onEnd and finish: whatever was dropped on the way, a run that reads as
\* complete and passed is not one Playwright called failed or interrupted.
PassedIsEarned ==
  session.file # <<>> /\ result \in {"failed", "interrupted"} =>
    LET v == Read(session.file) IN RunErrors(v, TRUE) = {} => Verdict(v) # "passed"

\* uploadRun: what is delivered is the run's own and final directory, which no
\* later callback changes.
DeliveredIsFinal ==
  delivered.made => delivered.file = session.file /\ config.generated /\ session.lifecycle = "closed"

\* A run Playwright ended is complete, passed only if Playwright said so, and
\* delivered as it is.
PlaywrightVerdict == PlaywrightEndsComplete /\ PassedIsEarned /\ DeliveredIsFinal
=============================================================================
