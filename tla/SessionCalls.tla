---------------------------- MODULE SessionCalls ----------------------------
(***************************************************************************)
(* The calls of ReportSession (packages/sdk) on one session.  The session   *)
(* is a record; a call maps it to the set of sessions it can leave, one for *)
(* each size an event may have and each way the sink may behave.            *)
(***************************************************************************)
EXTENDS Integers, Sequences

CONSTANT SinkOutcomes   \* how FileSink.write may end

ASSUME SinkCases == SinkOutcomes \subseteq {"ok", "refused", "unsynced"}

\* An event: the fields a reader looks at, "none" or 0 where a type has none.
Blank == [type |-> "none", sequence |-> 0, runner |-> "none", status |-> "none",
          expected |-> "none", attempt |-> "none", step |-> "none", parent |-> "none",
          exec |-> "none", number |-> 0, hist |-> "none", hash |-> "none", size |-> 0]

Typed(type) == [Blank EXCEPT !.type = type]

\* A session.finished payload.
Outcomes == [status : {"none", "passed", "failed", "inconclusive"}, rawStatus : BOOLEAN, failures : BOOLEAN]
Plain == [status |-> "none", rawStatus |-> FALSE, failures |-> FALSE]

Ending(o) == [Typed("session.finished") EXCEPT !.status = o.status]

NewSession == [lifecycle |-> "active", lost |-> FALSE, sequence |-> 0, written |-> 0,
               dropped |-> 0, file |-> <<>>]

-----------------------------------------------------------------------------
(* write *)

TooLarge(s) == [s EXCEPT !.dropped = @ + 1]

Appended(s, e) == [s EXCEPT !.file = Append(@, [e EXCEPT !.sequence = s.sequence + 1])]

\* FileSink.write: the line is appended and synced; or nothing is written; or
\* the line is written and the sync fails.
SinkWrite(s, e) ==
  (IF "ok" \in SinkOutcomes
     THEN {[Appended(s, e) EXCEPT !.sequence = @ + 1, !.written = @ + 1]} ELSE {})
  \cup (IF "refused" \in SinkOutcomes THEN {[s EXCEPT !.dropped = @ + 1]} ELSE {})
  \cup (IF "unsynced" \in SinkOutcomes THEN {[Appended(s, e) EXCEPT !.dropped = @ + 1]} ELSE {})

\* write, when the size is reported and the result is all that matters.
Write(s, e) == {TooLarge(s)} \cup SinkWrite(s, e)

Written(s, t) == t.written > s.written

\* acceptsSessionEvents: what is refused is counted.
Accepts(s) == ~s.lost /\ s.lifecycle = "active"

Refuse(s) == [s EXCEPT !.dropped = @ + 1]

-----------------------------------------------------------------------------
(* finish *)

\* outcomeViolation
Violates(o) ==
  \/ o.status = "none" /\ (o.rawStatus \/ o.failures)
  \/ o.status = "passed" /\ o.failures

\* A slip: an outcome that does not fit is replaced by its absence.
ReductionsToNothing(o) ==
  <<o>> \o (IF o.failures THEN <<[o EXCEPT !.failures = FALSE]>> ELSE <<>>) \o <<Plain>>

\* The payloads that are tried in turn when one is too large.
Reductions(o) ==
  <<o>>
  \o (IF o.failures THEN <<[o EXCEPT !.failures = FALSE]>> ELSE <<>>)
  \o (IF o.rawStatus THEN <<[o EXCEPT !.failures = FALSE, !.rawStatus = FALSE]>> ELSE <<>>)

FinishedIf(s, t) == IF Written(s, t) THEN [t EXCEPT !.lifecycle = "session-finished"] ELSE t

LostUnless(s, t) == IF Written(s, t) THEN [t EXCEPT !.lifecycle = "session-finished"]
                    ELSE [t EXCEPT !.lost = TRUE]

\* finish, with the first `large` payloads over the limit.
FinishWith(s, o) ==
  UNION {LET t == [s EXCEPT !.dropped = @ + large] IN
         IF large = Len(Reductions(o))
           THEN {[t EXCEPT !.lost = TRUE]}
           ELSE {LostUnless(s, u) : u \in SinkWrite(t, Ending(Reductions(o)[large + 1]))} :
         large \in 0 .. Len(Reductions(o))}

Finish(s, o) ==
  IF Violates(o) \/ ~Accepts(s) THEN {Refuse(s)}
  ELSE IF o.status = "none" THEN {FinishedIf(s, t) : t \in Write(s, Ending(o))}
  ELSE FinishWith(s, o)

\* finishRun
FinishRun(s) ==
  UNION {IF t.lifecycle # "session-finished"
           THEN {IF s.lifecycle = "active" /\ ~s.lost THEN t ELSE Refuse(t)}
           ELSE {IF Written(t, u) THEN [u EXCEPT !.lifecycle = "run-finished"] ELSE u :
                   u \in Write(t, Typed("run.finished"))} :
         t \in IF s.lifecycle = "active" /\ ~s.lost THEN Finish(s, Plain) ELSE {s}}

\* close
Close(s) ==
  {[t EXCEPT !.lifecycle = "closed"] :
     t \in IF s.lifecycle = "active" /\ ~s.lost THEN Finish(s, Plain) ELSE {s}}

-----------------------------------------------------------------------------
(* emit *)

\* emit of an event of the session; emitAttachment once the bytes are stored.
Emit(s, e) == IF Accepts(s) THEN Write(s, e) ELSE {Refuse(s)}

\* start: the session goes on whether or not session.started was written.
Start(runner) == Emit(NewSession, [Typed("session.started") EXCEPT !.runner = runner])
=============================================================================
