---------------------------- MODULE JavaSession ----------------------------
(***************************************************************************)
(* ReportSession of the Java SDK, over the session records of SessionCalls. *)
(* Its calls hold the session's monitor, so each is one step.               *)
(***************************************************************************)
EXTENDS SessionCalls

\* write: what became of the event, and the session it leaves.
JavaWrite(s, e) ==
  {[result |-> "too-large", session |-> TooLarge(s)]}
  \cup {[result |-> IF Written(s, t) THEN "written" ELSE "sink-failure", session |-> t] :
          t \in SinkWrite(s, e)}

JavaAccepts(s) == s.lifecycle = "active" /\ ~s.lost

Ended(s, lifecycle) == [s EXCEPT !.lifecycle = lifecycle]

\* A candidate that is too large: without the failures, without the raw status,
\* or the outcome is lost.
TooLargeFor(s, c) ==
  IF c.failures THEN [done |-> FALSE, session |-> s, candidate |-> [c EXCEPT !.failures = FALSE]]
  ELSE IF c.rawStatus THEN [done |-> FALSE, session |-> s, candidate |-> [c EXCEPT !.rawStatus = FALSE]]
  ELSE [done |-> TRUE, session |-> [s EXCEPT !.lost = TRUE], candidate |-> c]

\* One turn of the loop of finish.
Turn(try) ==
  IF try.done THEN {try}
  ELSE {CASE a.result = "written"      -> [try EXCEPT !.done = TRUE, !.session = Ended(a.session, "session-finished")]
          [] a.result = "sink-failure" -> [try EXCEPT !.done = TRUE, !.session = [a.session EXCEPT !.lost = TRUE]]
          [] OTHER                     -> TooLargeFor(a.session, try.candidate) :
          a \in JavaWrite(try.session, Ending(try.candidate))}

\* The loop turns three times at most: two reductions and the status alone.
Loop(s, o) ==
  LET turned(tries) == UNION {Turn(t) : t \in tries}
  IN  turned(turned(turned({[done |-> FALSE, session |-> s, candidate |-> o]})))

\* finish
JavaFinish(s, o) ==
  IF ~JavaAccepts(s) THEN {Refuse(s)}
  ELSE IF o.status = "none"
    THEN {IF a.result = "written" THEN Ended(a.session, "session-finished") ELSE a.session :
            a \in JavaWrite(s, Ending(o))}
  ELSE {t.session : t \in Loop(s, o)}

\* finishRun, once the session is finished or was found not to be.
CloseRun(s) ==
  IF s.lifecycle # "session-finished" THEN {Refuse(s)}
  ELSE {IF a.result = "written" THEN Ended(a.session, "run-finished") ELSE a.session :
          a \in JavaWrite(s, Typed("run.finished"))}

JavaFinishRun(s) ==
  IF s.lost THEN {Refuse(s)}
  ELSE IF s.lifecycle # "active" THEN CloseRun(s)
  ELSE UNION {IF t.lifecycle = "session-finished" THEN CloseRun(t) ELSE {t} :
                t \in JavaFinish(s, Plain)}

\* A slip: close finishes a session that lost its outcome.
JavaCloseFinishing(s) ==
  {Ended(t, "closed") : t \in IF s.lifecycle = "active" THEN JavaFinish(s, Plain) ELSE {s}}

\* close
JavaClose(s) ==
  {Ended(t, "closed") : t \in IF JavaAccepts(s) THEN JavaFinish(s, Plain) ELSE {s}}

\* emit
JavaEmit(s, e) ==
  IF JavaAccepts(s) THEN {a.session : a \in JavaWrite(s, e)} ELSE {Refuse(s)}

\* Builder.start
JavaStart(runner) == JavaEmit(NewSession, [Typed("session.started") EXCEPT !.runner = runner])
=============================================================================
