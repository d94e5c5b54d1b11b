--------------------------- MODULE JUnitListener ---------------------------
(***************************************************************************)
(* QeReportListener and RunReporter (java/junit-platform): the callbacks of *)
(* one test plan mapped to one session.  JUnit calls for each test and each *)
(* container on its own thread; a callback updates the concurrent maps, and *)
(* then its events reach the session one at a time, between those of other  *)
(* threads.                                                                 *)
(***************************************************************************)
EXTENDS Producer

CONSTANTS
  Tests, Containers, \* identifiers of the plan
  Parent,            \* Parent[id]: the container of id, "none" for the engine
  AttemptName,       \* AttemptName[t][n]: the id of the n-th execution of t;
                     \* bound: a test has as many executions as it has names
  EntryThreads,      \* EntryThreads[t]: threads that publish report entries of t
  MaxEntries         \* bound: report entries in the file

ASSUME EntryBound == MaxEntries \in Nat

VARIABLES
  reporting,   \* "none" before the plan, "live", "ended"
  open,        \* open: test -> attempt id
  containers,  \* containers: container -> tests seen below it
  executions,  \* executions: test -> executions so far
  pending,     \* pending[thread]: events its callback has yet to emit
  runner,      \* JUnit: what became of each identifier
  reported,    \* JUnit: executions and skips of each test it told the listener of
  orphans      \* tests that were open when the plan ended

junitVars == <<reporting, open, containers, executions, pending, runner, reported, orphans>>

Ids == Tests \cup Containers

Threads == Ids \cup UNION {EntryThreads[t] : t \in Tests}

\* The containers above an identifier; a plan is three levels deep at most.
Ancestors(id) == ({Parent[id]} \cup (IF Parent[id] = "none" THEN {} ELSE {Parent[Parent[id]]})) \ {"none"}

Descendants(c) == {t \in Tests : c \in Ancestors(t)}

JUnitInit ==
  /\ session = NewSession
  /\ reporting = "none"
  /\ open = <<>> /\ containers = <<>>
  /\ executions = [t \in Tests |-> 0]
  /\ pending = [h \in Threads |-> <<>>]
  /\ runner = [id \in Ids |-> "new"]
  /\ reported = [t \in Tests |-> 0]
  /\ orphans = {}

\* testPlanExecutionStarted: without a session the plan is not reported.
PlanStarted ==
  /\ reporting = "none"
  /\ session' \in Within(JavaStart("junit-platform"))
  /\ reporting' = "live"
  /\ UNCHANGED <<open, containers, executions, pending, runner, reported, orphans>>

\* JUnit calls for an identifier inside an open container, one call at a time.
Called(id) ==
  /\ reporting = "live" /\ pending[id] = <<>>
  /\ Parent[id] # "none" => runner[Parent[id]] = "open"

Begun(t, n) ==
  [Typed("attempt.started") EXCEPT !.attempt = AttemptName[t][n], !.exec = t, !.number = n, !.hist = t]

Done(t, n, status) ==
  [Typed("attempt.finished") EXCEPT !.attempt = AttemptName[t][n], !.status = status]

\* noteSeen: every open container above the tests counts them.
NoteSeen(tests) ==
  [c \in DOMAIN containers |-> containers[c] + Cardinality({t \in tests : c \in Ancestors(t)})]

\* synthesize: an attempt of its own for each of the tests.
Invented(tests, status) ==
  FoldLeft(LAMBDA events, t : events \o <<Begun(t, executions[t] + 1), Done(t, executions[t] + 1, status)>>,
           <<>>, SetToSeq(tests))

Numbered(tests) == [t \in Tests |-> IF t \in tests THEN executions[t] + 1 ELSE executions[t]]

CanExecute(tests) == \A t \in tests : executions[t] < Len(AttemptName[t])

\* started, for a container.
ContainerStarted(c) ==
  /\ Called(c) /\ runner[c] = "new"
  /\ containers' = (c :> 0) @@ containers
  /\ runner' = [runner EXCEPT ![c] = "open"]
  /\ UNCHANGED <<session, reporting, open, executions, pending, reported, orphans>>

\* started, for a test: startAttempt numbers and remembers it, and emits.
TestStarted(t) ==
  /\ Called(t) /\ runner[t] \in {"new", "passed", "failed"} /\ CanExecute({t})
  /\ containers' = NoteSeen({t})
  /\ executions' = Numbered({t})
  /\ open' = (t :> AttemptName[t][executions'[t]]) @@ open
  /\ pending' = [pending EXCEPT ![t] = <<Begun(t, executions'[t])>>]
  /\ runner' = [runner EXCEPT ![t] = "open"]
  /\ reported' = [reported EXCEPT ![t] = @ + 1]
  /\ UNCHANGED <<session, reporting, orphans>>

\* finished, for a test.
TestFinished(t, status) ==
  /\ Called(t) /\ runner[t] = "open"
  /\ t \in DOMAIN open
  /\ open' = [u \in DOMAIN open \ {t} |-> open[u]]
  /\ pending' = [pending EXCEPT ![t] = <<[Typed("attempt.finished") EXCEPT !.attempt = open[t], !.status = status]>>]
  /\ runner' = [runner EXCEPT ![t] = status]
  /\ UNCHANGED <<session, reporting, containers, executions, reported, orphans>>

\* reportingEntry: the session is asked, the bytes are stored, and only then is
\* the attachment emitted.
EntryPublished(h, t) ==
  /\ reporting = "live" /\ pending[h] = <<>> /\ t \in DOMAIN open
  /\ Cardinality({k \in DOMAIN session.file : session.file[k].type = "attachment.added"}) < MaxEntries
  /\ IF JavaAccepts(session)
       THEN /\ pending' = [pending EXCEPT ![h] =
                             <<[Typed("attachment.added") EXCEPT !.attempt = open[t], !.hash = "entry"]>>]
            /\ UNCHANGED session
       ELSE session' \in Within({Refuse(session)}) /\ UNCHANGED pending
  /\ UNCHANGED <<reporting, open, containers, executions, runner, reported, orphans>>

\* skipped, for a test or for all that is planned below a container.
Skipped(id) ==
  LET tests == IF id \in Tests THEN {id} ELSE Descendants(id) IN
  /\ Called(id) /\ runner[id] = "new" /\ CanExecute(tests)
  /\ containers' = NoteSeen(tests)
  /\ executions' = Numbered(tests)
  /\ pending' = [pending EXCEPT ![id] = Invented(tests, "skipped")]
  /\ runner' = [i \in Ids |-> IF i = id \/ i \in tests THEN "skipped" ELSE runner[i]]
  /\ reported' = [t \in Tests |-> IF t \in tests THEN reported[t] + 1 ELSE reported[t]]
  /\ UNCHANGED <<session, reporting, open, orphans>>

\* Set-up failed before any planned test could start or be skipped.
Prevented(c) == containers[c] = 0 /\ Descendants(c) # {}

\* JUnit ends a container when nothing below it is running; one that succeeds
\* has been through all of its children.
Quiet(c) == \A id \in Ids : c \in Ancestors(id) => runner[id] # "open" /\ pending[id] = <<>>

Through(c) == \A id \in Ids : Parent[id] = c => runner[id] # "new"

\* A slip: a container's failure after its tests is only printed.
ContainerFinishedSilently(c, status) ==
  /\ Called(c) /\ runner[c] = "open" /\ Quiet(c)
  /\ status = "passed" => Through(c)
  /\ containers' = [d \in DOMAIN containers \ {c} |-> containers[d]]
  /\ runner' = [runner EXCEPT ![c] = status]
  /\ IF status = "failed" /\ Prevented(c)
       THEN /\ CanExecute(Descendants(c))
            /\ executions' = Numbered(Descendants(c))
            /\ pending' = [pending EXCEPT ![c] = Invented(Descendants(c), "failed")]
       ELSE UNCHANGED <<pending, executions>>
  /\ UNCHANGED <<session, reporting, open, reported, orphans>>

\* finished, for a container.
ContainerFinished(c, status) ==
  /\ Called(c) /\ runner[c] = "open" /\ Quiet(c)
  /\ status = "passed" => Through(c)
  /\ containers' = [d \in DOMAIN containers \ {c} |-> containers[d]]
  /\ runner' = [runner EXCEPT ![c] = status]
  /\ CASE status = "passed" -> UNCHANGED <<pending, executions>>
       [] status = "failed" /\ Prevented(c) ->
            /\ CanExecute(Descendants(c))
            /\ executions' = Numbered(Descendants(c))
            /\ pending' = [pending EXCEPT ![c] = Invented(Descendants(c), "failed")]
       [] OTHER -> pending' = [pending EXCEPT ![c] = <<Typed("scope.failed")>>] /\ UNCHANGED executions
  /\ UNCHANGED <<session, reporting, open, reported, orphans>>

\* A thread emits the next event of its callback.
EmitNext(h) ==
  /\ pending[h] # <<>>
  /\ session' \in Within(JavaEmit(session, Head(pending[h])))
  /\ pending' = [pending EXCEPT ![h] = Tail(@)]
  /\ UNCHANGED <<reporting, open, containers, executions, runner, reported, orphans>>

\* testPlanExecutionFinished, once JUnit's own calls have returned: the session
\* is closed and the maps are cleared, whatever is still open.
PlanFinished ==
  /\ reporting = "live" /\ \A id \in Ids : pending[id] = <<>>
  /\ reporting' = "ended"
  /\ orphans' = DOMAIN open
  /\ session' \in Within(JavaClose(session))
  /\ open' = <<>> /\ containers' = <<>> /\ executions' = [t \in Tests |-> 0]
  /\ UNCHANGED <<pending, runner, reported>>

JUnitNext ==
  \/ PlanStarted \/ PlanFinished
  \/ \E h \in Threads : EmitNext(h)
  \/ \E c \in Containers :
       ContainerStarted(c) \/ \E status \in {"passed", "failed"} : ContainerFinished(c, status)
  \/ \E t \in Tests :
       \/ TestStarted(t)
       \/ \E status \in {"passed", "failed"} : TestFinished(t, status)
       \/ \E h \in EntryThreads[t] : EntryPublished(h, t)
  \/ \E id \in Ids : Skipped(id)

-----------------------------------------------------------------------------
(* Properties. *)

Orderly ==
  /\ reporting = "ended" /\ session.dropped = 0 /\ orphans = {}
  /\ \A h \in Threads : pending[h] = <<>>

\* finished and skipped: a run that ended in order is complete, and it reads as
\* failed when JUnit reported a failure that stood, and only then.
VerdictIsReported ==
  Orderly => LET v == Read(session.file) IN
             /\ Complete(v)
             /\ Verdict(v) = IF \E id \in Ids : runner[id] = "failed" THEN "failed" ELSE "passed"

\* finished, for a container: a test that ran or was skipped keeps its verdict
\* and no attempt is invented for it, whatever becomes of its containers.
NoAttemptInvented ==
  Orderly => \A t \in Tests : reported[t] > 0 =>
    reported[t] = Cardinality({k \in DOMAIN session.file :
                                 session.file[k].type = "attempt.started" /\ session.file[k].exec = t})

\* A run that ended in order says what JUnit reported, no less and no more.
JUnitVerdict == VerdictIsReported /\ NoAttemptInvented
=============================================================================
