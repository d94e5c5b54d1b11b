--------------------------- MODULE MCRunDirectory ---------------------------
(* RunDirectory for TLC: two session files, whose names sort as their          *)
(* sessions' ids do or the other way round, and three alphabets.            *)
EXTENDS RunDirectory

Blank == [type |-> "none", runner |-> "none", status |-> "none", expected |-> "none", attempt |-> "none",
          step |-> "none", parent |-> "none", exec |-> "none", number |-> 0, hist |-> "none",
          hash |-> "none", size |-> 0]

Started(r) == [Blank EXCEPT !.type = "session.started", !.runner = r]
Ended(s) == [Blank EXCEPT !.type = "session.finished", !.status = s]
Begin(x, n, h) == [Blank EXCEPT !.type = "attempt.started", !.attempt = x, !.exec = "e", !.number = n, !.hist = h]
End(x, s, d) == [Blank EXCEPT !.type = "attempt.finished", !.attempt = x, !.status = s, !.expected = d]
Step(t, s, p) == [Blank EXCEPT !.type = t, !.attempt = "x", !.step = s, !.parent = p]

NoBytes == [h |-> [kind |-> "missing", size |-> 0]]
Attach(s, n) == [Blank EXCEPT !.type = "attachment.added", !.attempt = "x", !.step = s, !.hash = "h", !.size = n]

MCAlphabets == {
  \* attempts that wander between sessions, and the end of the run
  [lines |-> 8, bytes |-> NoBytes,
   payloads |-> {Started("r"), Ended("passed"), [Blank EXCEPT !.type = "run.finished"],
                 Begin("x", 1, "none"), End("x", "passed", "none")}],
  \* the attempts of one execution
  [lines |-> 8, bytes |-> NoBytes,
   payloads |-> {Started("r"), Ended("passed"), Begin("x", 1, "h"), Begin("y", 2, "h"),
                 Begin("y", 1, "h"), End("x", "failed", "none"), End("y", "passed", "none"),
                 End("y", "failed", "none")}],
  [lines |-> 6, bytes |-> NoBytes,
   payloads |-> {Started("r"), Started("none"), Ended("none"), [Blank EXCEPT !.type = "later.event"], Begin("x", 1, "h"), Begin("x", 1, "none"),
                 Begin("y", 2, "h"), Begin("y", 2, "none")}],
  \* steps, attachments and statuses
  [lines |-> 7, bytes |-> [h |-> [kind |-> "intact", size |-> 1]],
   payloads |-> {Started("r"), Ended("inconclusive"), Ended("failed"), Begin("x", 1, "none"),
                 End("x", "failed", "failed"), End("x", "inconclusive", "none"),
                 Step("step.started", "s", "none"), Step("step.finished", "s", "none"),
                 [Blank EXCEPT !.type = "scope.failed"], Attach("s", 1)}],
  \* nothing but other directories
  [lines |-> 0, bytes |-> NoBytes, payloads |-> {}]}
  \* attachments of two sizes, and what is under their hash
  \cup [lines : {6}, bytes : [{"h"} -> [kind : {"missing", "irregular", "altered", "intact"}, size : {1}]],
         payloads : {{Started("r"), Ended("passed"), Begin("x", 1, "none"), End("x", "passed", "none"),
                      Attach("none", 1), Attach("none", 2)}}]

MCSessionOrder == <<"a", "b">>

\* Five directories: two hold run 1, and run 3 says another size of the same bytes.
MCFound == {[key |-> 1, directory |-> 1, blobs |-> {[hash |-> "h", size |-> 1]}],
            [key |-> 1, directory |-> 2, blobs |-> {[hash |-> "h", size |-> 2]}],
            [key |-> 2, directory |-> 3, blobs |-> {}],
            [key |-> 3, directory |-> 4, blobs |-> {[hash |-> "h", size |-> 2]}],
            [key |-> 4, directory |-> 5, blobs |-> {[hash |-> "h", size |-> 1]}]}
=============================================================================
