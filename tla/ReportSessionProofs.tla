------------------------ MODULE ReportSessionProofs ------------------------
(***************************************************************************)
(* What any sequence of a producer's calls makes of a session and its file: *)
(* proofs about ReportSession, for any number of calls and attachments.     *)
(***************************************************************************)
EXTENDS ReportSession, TLAPS

\* A line reaches the file whole and synced or not at all, and so do the bytes
\* of an attachment.  FileSink does not promise it: a sync that fails leaves a
\* line that was counted as dropped.
Reliable == SinkOutcomes \subseteq {"ok", "refused"} /\ StoreOutcomes \subseteq {"ok", "refused"}

EventTypes == {"none", "session.started", "event", "attachment.added", "session.finished", "run.finished"}

Event == [type : EventTypes, sequence : Nat, runner : {"none", "r"},
          status : {"none", "passed", "failed", "inconclusive"}, expected : {"none"}, attempt : {"none"},
          step : {"none"}, parent : {"none"}, exec : {"none"}, number : {0}, hist : {"none"},
          hash : Attachments \cup {"none"}, size : {0}]

Sessions == [lifecycle : {"active", "session-finished", "run-finished", "closed"}, lost : BOOLEAN,
             sequence : Nat, written : Nat, dropped : Nat, file : Seq(Event)]

\* The lines of a file that do not end anything; that end with the session; that
\* end with the run.
Terminal == {"session.finished", "run.finished"}
NoEnd(f) == \A k \in DOMAIN f : f[k].type \notin Terminal
EndsSession(f) ==
  /\ Len(f) > 0 /\ f[Len(f)].type = "session.finished"
  /\ \A k \in 1 .. Len(f) - 1 : f[k].type \notin Terminal
EndsRun(f) ==
  /\ Len(f) > 1 /\ f[Len(f)].type = "run.finished" /\ f[Len(f) - 1].type = "session.finished"
  /\ \A k \in 1 .. Len(f) - 2 : f[k].type \notin Terminal

Dense(s) ==
  /\ \A k \in DOMAIN s.file : s.file[k].sequence = k
  /\ s.sequence = Len(s.file) /\ s.written = Len(s.file)

\* The lifecycle says how the file ends, and a session whose outcome is lost has
\* no end.
EndIsKept(s) ==
  /\ s.lifecycle = "active" => NoEnd(s.file)
  /\ s.lifecycle = "session-finished" => EndsSession(s.file)
  /\ s.lifecycle = "run-finished" => EndsRun(s.file)
  /\ s.lifecycle = "closed" => NoEnd(s.file) \/ EndsSession(s.file) \/ EndsRun(s.file)
  /\ s.lost => s.lifecycle \in {"active", "closed"} /\ NoEnd(s.file)

SessionOK(s) == s \in Sessions /\ Dense(s) /\ EndIsKept(s)

\* What is announced is stored.
Published(s, st) == \A k \in DOMAIN s.file :
  s.file[k].type = "attachment.added" => s.file[k].hash \in Attachments /\ st[s.file[k].hash] = "whole"

\* A status that was accepted is the only one the file can end with.
Settled(s, status) == status # "none" =>
  /\ s.lost \/ s.lifecycle # "active"
  /\ \A k \in DOMAIN s.file : s.file[k].type = "session.finished" => s.file[k].status = status

ReportInv ==
  /\ SessionOK(session) /\ Published(session, stored) /\ Settled(session, supplied)
  /\ stored \in [Attachments -> {"nothing", "whole"}]
  /\ supplied \in {"none", "passed", "failed", "inconclusive"}
  /\ streams \subseteq Attachments

-----------------------------------------------------------------------------
(* The events, and what one write does. *)

\* The events the calls write are events.
LEMMA EventsAreEvents ==
  /\ \A type \in EventTypes : Typed(type) \in Event /\ Typed(type).type = type
  /\ \A o \in Outcomes : Ending(o) \in Event /\ Ending(o).type = "session.finished" /\ Ending(o).status = o.status
  /\ \A a \in Attachments : /\ Announced(a) \in Event /\ Announced(a).type = "attachment.added"
                            /\ Announced(a).hash = a
<1>1. Blank \in Event
  BY DEF Blank, Event, EventTypes
<1>2. ASSUME NEW type \in EventTypes PROVE Typed(type) \in Event /\ Typed(type).type = type
  BY <1>1, <1>2 DEF Typed, Event
<1>3. ASSUME NEW o \in Outcomes
      PROVE  Ending(o) \in Event /\ Ending(o).type = "session.finished" /\ Ending(o).status = o.status
  BY <1>2, <1>3 DEF Ending, Event, EventTypes, Outcomes
<1>4. ASSUME NEW a \in Attachments
      PROVE  Announced(a) \in Event /\ Announced(a).type = "attachment.added" /\ Announced(a).hash = a
  BY <1>2, <1>4 DEF Announced, Event, EventTypes
<1> QED
  BY <1>2, <1>3, <1>4

\* Numbering an event changes nothing else of it.
LEMMA Numbered ==
  ASSUME NEW e \in Event, NEW n \in Nat
  PROVE  LET d == [e EXCEPT !.sequence = n]
         IN  d \in Event /\ d.sequence = n /\ d.type = e.type /\ d.status = e.status /\ d.hash = e.hash
BY DEF Event

\* A file with one line more.
LEMMA OneMore ==
  ASSUME NEW f \in Seq(Event), NEW e \in Event
  PROVE  LET g == Append(f, e)
         IN  /\ g \in Seq(Event) /\ Len(f) \in Nat /\ Len(g) = Len(f) + 1 /\ g[Len(g)] = e
             /\ DOMAIN f = 1 .. Len(f) /\ DOMAIN g = 1 .. Len(g)
             /\ \A k \in 1 .. Len(f) : g[k] = f[k]
OBVIOUS

\* A line was written: it is the last one, and carries the next number.
Grown(s, e, t) ==
  /\ t.sequence = s.sequence + 1 /\ t.written = s.written + 1
  /\ t.file = Append(s.file, [e EXCEPT !.sequence = s.sequence + 1])

Same(s, t) == t.sequence = s.sequence /\ t.written = s.written /\ t.file = s.file

\* A count stays a count.
LEMMA SuccNat == \A n \in Nat : n + 1 \in Nat
OBVIOUS

\* write: a line more or only a count more, and the state of the session is left
\* to the caller.
LEMMA WriteCases ==
  ASSUME Reliable, NEW s \in Sessions, NEW e \in Event, NEW t \in Write(s, e)
  PROVE  /\ t \in Sessions /\ t.lifecycle = s.lifecycle /\ t.lost = s.lost
         /\ (Written(s, t) /\ Grown(s, e, t)) \/ (~Written(s, t) /\ Same(s, t))
<1> DEFINE n == [e EXCEPT !.sequence = s.sequence + 1]
<1>1. s.sequence \in Nat /\ s.written \in Nat /\ s.dropped \in Nat /\ s.file \in Seq(Event)
  BY DEF Sessions
<1>2. Append(s.file, n) \in Seq(Event)
  <2>1. n \in Event
    BY <1>1, Numbered
  <2> QED
    BY <1>1, <2>1, OneMore
<1>3. CASE t = [s EXCEPT !.dropped = @ + 1]
  BY <1>1, <1>3 DEF Sessions, Same, Written
<1>4. CASE t = [[s EXCEPT !.file = Append(@, n)] EXCEPT !.sequence = @ + 1, !.written = @ + 1]
  <2>1. /\ t.sequence = s.sequence + 1 /\ t.written = s.written + 1 /\ t.file = Append(s.file, n)
        /\ t.lifecycle = s.lifecycle /\ t.lost = s.lost
    BY <1>4 DEF Sessions
  <2>2. t \in Sessions
    <3> HIDE DEF n
    <3> QED
      BY Zenon, <1>1, <1>2, <1>4, SuccNat DEF Sessions
  <2> QED
    BY <1>1, <2>1, <2>2 DEF Grown, Written
<1> QED
  BY <1>3, <1>4 DEF Write, SinkWrite, TooLarge, Appended, Reliable

\* A line more leaves the others where they were.
LEMMA GrownFile ==
  ASSUME NEW s \in Sessions, NEW t \in Sessions, NEW e \in Event, Dense(s), Grown(s, e, t)
  PROVE  /\ Dense(t)
         /\ Len(s.file) \in Nat /\ Len(t.file) = Len(s.file) + 1
         /\ DOMAIN s.file = 1 .. Len(s.file) /\ DOMAIN t.file = 1 .. Len(s.file) + 1
         /\ \A k \in 1 .. Len(s.file) : t.file[k] = s.file[k]
         /\ t.file[Len(s.file) + 1].type = e.type /\ t.file[Len(s.file) + 1].status = e.status
         /\ t.file[Len(s.file) + 1].hash = e.hash
<1> DEFINE n == [e EXCEPT !.sequence = s.sequence + 1]
<1>1. s.file \in Seq(Event) /\ s.sequence = Len(s.file) /\ s.written = Len(s.file) /\ s.sequence \in Nat
  BY DEF Sessions, Dense
<1>2. n \in Event /\ n.sequence = s.sequence + 1 /\ n.type = e.type /\ n.status = e.status /\ n.hash = e.hash
  BY Zenon, <1>1, SuccNat, Numbered
<1>3. t.file = Append(s.file, n) /\ t.sequence = s.sequence + 1 /\ t.written = s.written + 1
  BY DEF Grown
<1> HIDE DEF n
<1>4. /\ Len(s.file) \in Nat /\ Len(t.file) = Len(s.file) + 1 /\ t.file[Len(s.file) + 1] = n
      /\ DOMAIN s.file = 1 .. Len(s.file) /\ DOMAIN t.file = 1 .. Len(s.file) + 1
      /\ \A k \in 1 .. Len(s.file) : t.file[k] = s.file[k]
  BY <1>1, <1>2, <1>3, OneMore
<1>5. Dense(t)
  BY <1>1, <1>2, <1>3, <1>4 DEF Dense
<1> QED
  BY <1>2, <1>4, <1>5

-----------------------------------------------------------------------------
(* The calls. *)

\* Every line of t is one of s or of one of these types.
Adds(s, t, types) ==
  \A k \in DOMAIN t.file : (k \in DOMAIN s.file /\ t.file[k] = s.file[k]) \/ t.file[k].type \in types

\* A session that changes in nothing but its count of what was dropped.
LEMMA SameKeeps ==
  ASSUME NEW s, SessionOK(s), NEW t \in Sessions, Same(s, t), t.lifecycle = s.lifecycle, t.lost = s.lost
  PROVE  SessionOK(t)
BY DEF SessionOK, Same, Dense, EndIsKept

\* A refused call leaves the file as it is.
LEMMA RefuseKeeps ==
  ASSUME NEW s, SessionOK(s)
  PROVE  LET t == Refuse(s) IN SessionOK(t) /\ Same(s, t) /\ t.lifecycle = s.lifecycle /\ t.lost = s.lost
<1> DEFINE t == Refuse(s)
<1>1. t \in Sessions /\ Same(s, t) /\ t.lifecycle = s.lifecycle /\ t.lost = s.lost
  BY DEF SessionOK, Refuse, Sessions, Same
<1> QED
  BY <1>1, SameKeeps

\* emit, and the announcement of an attachment.
LEMMA EmitKeeps ==
  ASSUME Reliable, NEW s, SessionOK(s), NEW e \in Event, e.type \notin Terminal, NEW t \in Emit(s, e)
  PROVE  /\ SessionOK(t) /\ t.lifecycle = s.lifecycle /\ t.lost = s.lost
         /\ Same(s, t) \/ Grown(s, e, t)
<1>1. CASE ~Accepts(s)
  BY <1>1, RefuseKeeps DEF Emit
<1>2. CASE Accepts(s)
  <2>1. s \in Sessions /\ t \in Write(s, e) /\ Dense(s)
    BY <1>2 DEF Emit, SessionOK
  <2>2. t \in Sessions /\ t.lifecycle = s.lifecycle /\ t.lost = s.lost /\ (Grown(s, e, t) \/ Same(s, t))
    BY <2>1, WriteCases
  <2>3. CASE Grown(s, e, t)
    <3>1. /\ Dense(t) /\ Len(s.file) \in Nat
          /\ DOMAIN s.file = 1 .. Len(s.file) /\ DOMAIN t.file = 1 .. Len(s.file) + 1
          /\ \A k \in 1 .. Len(s.file) : t.file[k] = s.file[k]
          /\ t.file[Len(s.file) + 1].type = e.type
      BY <2>1, <2>2, <2>3, GrownFile
    <3>2. NoEnd(s.file) /\ t.lifecycle = "active" /\ ~t.lost
      BY <1>2, <2>2 DEF SessionOK, EndIsKept, Accepts
    <3>3. NoEnd(t.file)
      BY <3>1, <3>2 DEF NoEnd
    <3> QED
      BY <2>2, <2>3, <3>1, <3>2, <3>3 DEF SessionOK, EndIsKept
  <2> QED
    BY <2>2, <2>3, SameKeeps
<1> QED
  BY <1>1, <1>2

\* Whatever is left out of an outcome, its status stays.
LEMMA ReductionsKeepStatus ==
  ASSUME NEW o \in Outcomes
  PROVE  /\ Len(Reductions(o)) \in Nat
         /\ \A i \in 1 .. Len(Reductions(o)) : Reductions(o)[i] \in Outcomes /\ Reductions(o)[i].status = o.status
<1> DEFINE Reduced == {d \in Outcomes : d.status = o.status}
<1>1. /\ o \in Reduced /\ [o EXCEPT !.failures = FALSE] \in Reduced
      /\ [o EXCEPT !.failures = FALSE, !.rawStatus = FALSE] \in Reduced
  BY Zenon DEF Outcomes
<1>2. Reductions(o) \in Seq(Reduced)
  <2> HIDE DEF Reduced
  <2> QED
    BY <1>1 DEF Reductions
<1> QED
  BY <1>2

\* A session that can still go on ends with this event.
LEMMA EndsNow ==
  ASSUME NEW s, SessionOK(s), Accepts(s), NEW o \in Outcomes, NEW t \in Sessions,
         Grown(s, Ending(o), t), t.lifecycle = "session-finished", ~t.lost
  PROVE  SessionOK(t) /\ \A k \in DOMAIN t.file : t.file[k].type = "session.finished" => t.file[k].status = o.status
<1>1. s \in Sessions /\ Dense(s) /\ NoEnd(s.file)
  BY DEF SessionOK, EndIsKept, Accepts
<1>2. Ending(o) \in Event /\ Ending(o).type = "session.finished" /\ Ending(o).status = o.status
  BY EventsAreEvents
<1>3. /\ Dense(t) /\ Len(s.file) \in Nat /\ Len(t.file) = Len(s.file) + 1
      /\ DOMAIN s.file = 1 .. Len(s.file) /\ DOMAIN t.file = 1 .. Len(s.file) + 1
      /\ \A k \in 1 .. Len(s.file) : t.file[k] = s.file[k]
      /\ t.file[Len(s.file) + 1].type = "session.finished" /\ t.file[Len(s.file) + 1].status = o.status
  BY <1>1, <1>2, GrownFile
<1>4. EndsSession(t.file)
  BY <1>1, <1>3 DEF EndsSession, NoEnd
<1>5. \A k \in DOMAIN t.file : t.file[k].type = "session.finished" => t.file[k].status = o.status
  BY SMTT(60), <1>1, <1>3 DEF NoEnd, Terminal
<1> QED
  BY <1>3, <1>4, <1>5 DEF SessionOK, EndIsKept

\* How finish leaves a session: as it was; without the outcome, for good; or
\* ended with the status it was given.
Stopped(s, t) == Same(s, t) /\ t.lifecycle = s.lifecycle /\ t.lost
Unmoved(s, t) == Same(s, t) /\ t.lifecycle = s.lifecycle /\ t.lost = s.lost
EndedWith(s, o, t) ==
  /\ Accepts(s) /\ t.lifecycle = "session-finished" /\ ~t.lost
  /\ \E d \in Outcomes : d.status = o.status /\ Grown(s, Ending(d), t)

\* finish keeps the session in order, and ends it with the status supplied or not
\* at all.
LEMMA FinishKeeps ==
  ASSUME Reliable, NEW s, SessionOK(s), NEW o \in Outcomes, NEW t \in Finish(s, o)
  PROVE  /\ SessionOK(t)
         /\ \/ Unmoved(s, t) /\ (~Accepts(s) \/ Violates(o) \/ o.status = "none")
            \/ Stopped(s, t) /\ Accepts(s)
            \/ EndedWith(s, o, t)
<1>1. CASE Violates(o) \/ ~Accepts(s)
  BY <1>1, RefuseKeeps DEF Finish, Unmoved
<1>2. CASE Accepts(s) /\ ~Violates(o) /\ o.status = "none"
  <2>1. PICK u \in Write(s, Ending(o)) : t = FinishedIf(s, u)
    BY <1>2 DEF Finish
  <2>2. s \in Sessions /\ Ending(o) \in Event
    BY EventsAreEvents DEF SessionOK
  <2>3. /\ u \in Sessions /\ u.lifecycle = s.lifecycle /\ u.lost = s.lost
        /\ (Written(s, u) /\ Grown(s, Ending(o), u)) \/ (~Written(s, u) /\ Same(s, u))
    BY <2>1, <2>2, WriteCases
  <2>4. CASE Written(s, u)
    <3>1. /\ t \in Sessions /\ t.lifecycle = "session-finished" /\ ~t.lost
          /\ t.sequence = u.sequence /\ t.written = u.written /\ t.file = u.file
      BY <1>2, <2>1, <2>3, <2>4 DEF FinishedIf, Sessions, Accepts
    <3>2. Grown(s, Ending(o), t)
      BY <2>3, <2>4, <3>1 DEF Grown, Same, Written
    <3> QED
      BY <1>2, <3>1, <3>2, EndsNow DEF EndedWith
  <2>5. CASE ~Written(s, u)
    BY <1>2, <2>1, <2>3, <2>5, SameKeeps DEF FinishedIf, Unmoved
  <2> QED
    BY <2>4, <2>5
<1>3. CASE Accepts(s) /\ ~Violates(o) /\ o.status # "none"
  <2>1. PICK large \in 0 .. Len(Reductions(o)) :
          LET v == [s EXCEPT !.dropped = @ + large] IN
          IF large = Len(Reductions(o)) THEN t = [v EXCEPT !.lost = TRUE]
          ELSE \E u \in SinkWrite(v, Ending(Reductions(o)[large + 1])) : t = LostUnless(s, u)
    BY Zenon, <1>3 DEF Finish, FinishWith
  <2> DEFINE v == [s EXCEPT !.dropped = @ + large]
  <2>2. v \in Sessions /\ Unmoved(s, v)
    <3>1. large \in Nat /\ s \in Sessions
      BY ReductionsKeepStatus DEF SessionOK
    <3> QED
      BY <3>1 DEF Sessions, Unmoved, Same
  <2>3. CASE large = Len(Reductions(o))
    <3>1. t \in Sessions /\ Stopped(s, t)
      BY ZenonT(60), <2>1, <2>2, <2>3 DEF Sessions, Unmoved, Stopped, Same
    <3> QED
      BY <1>3, <3>1 DEF SessionOK, Stopped, Same, Dense, EndIsKept, Accepts
  <2>4. CASE large # Len(Reductions(o))
    <3> DEFINE d == Reductions(o)[large + 1]
    <3>1. d \in Outcomes /\ d.status = o.status
      BY <2>1, <2>4, ReductionsKeepStatus
    <3>2. PICK u \in SinkWrite(v, Ending(d)) : t = LostUnless(s, u)
      BY <2>1, <2>4
    <3> HIDE DEF d, v
    <3>3. Ending(d) \in Event
      BY <3>1, EventsAreEvents
    <3>4. /\ u \in Sessions /\ u.lifecycle = v.lifecycle /\ u.lost = v.lost
          /\ (Written(v, u) /\ Grown(v, Ending(d), u)) \/ (~Written(v, u) /\ Same(v, u))
      BY <2>2, <3>2, <3>3, WriteCases DEF Write
    <3>5. CASE Written(v, u)
      <4>1. /\ t \in Sessions /\ t.lifecycle = "session-finished" /\ ~t.lost
            /\ t.sequence = u.sequence /\ t.written = u.written /\ t.file = u.file
        BY SMTT(60), <1>3, <2>2, <3>2, <3>4, <3>5 DEF LostUnless, Sessions, Accepts, Unmoved, Same, Written
      <4>2. Grown(s, Ending(d), t)
        BY <2>2, <3>4, <3>5, <4>1 DEF Grown, Same, Unmoved
      <4> QED
        BY <1>3, <3>1, <4>1, <4>2, EndsNow DEF EndedWith
    <3>6. CASE ~Written(v, u)
      <4>1. t \in Sessions /\ Stopped(s, t)
        BY Zenon, <2>2, <3>2, <3>4, <3>6 DEF LostUnless, Sessions, Unmoved, Stopped, Same, Written
      <4> QED
        BY <1>3, <4>1 DEF SessionOK, Stopped, Same, Dense, EndIsKept, Accepts
    <3> QED
      BY <3>5, <3>6
  <2> QED
    BY SMTT(30), <2>3, <2>4
<1> QED
  BY <1>1, <1>2, <1>3

\* What finishRun and close do with a session that has not ended: they finish
\* it, without an outcome.
LEMMA FinishedFirst ==
  ASSUME Reliable, NEW s, SessionOK(s), NEW t \in IF Accepts(s) THEN Finish(s, Plain) ELSE {s}
  PROVE  /\ SessionOK(t) /\ Adds(s, t, {"session.finished"})
         /\ ~Accepts(s) => t = s
         /\ t.lifecycle \in {s.lifecycle, "session-finished"} /\ (s.lost => t.lost)
<1>1. Plain \in Outcomes
  BY DEF Plain, Outcomes
<1>2. CASE Accepts(s)
  <2>1. /\ SessionOK(t)
        /\ Unmoved(s, t) \/ Stopped(s, t) \/ EndedWith(s, Plain, t)
    BY <1>1, <1>2, FinishKeeps
  <2>2. CASE Unmoved(s, t) \/ Stopped(s, t)
    BY <1>2, <2>1, <2>2 DEF Unmoved, Stopped, Same, Adds, Accepts
  <2>3. CASE EndedWith(s, Plain, t)
    <3>1. PICK d \in Outcomes : Grown(s, Ending(d), t)
      BY <2>3 DEF EndedWith
    <3>2. Adds(s, t, {"session.finished"})
      BY SMTT(60), <2>1, <3>1, GrownFile, EventsAreEvents DEF Adds, SessionOK
    <3> QED
      BY <1>2, <2>1, <2>3, <3>2 DEF EndedWith, Accepts
  <2> QED
    BY <2>1, <2>2, <2>3
<1> QED
  BY <1>2 DEF Adds

\* finishRun keeps the session in order.
LEMMA FinishRunKeeps ==
  ASSUME Reliable, NEW s, SessionOK(s), NEW u \in FinishRun(s)
  PROVE  /\ SessionOK(u) /\ Adds(s, u, Terminal)
         /\ ~Accepts(s) => Adds(s, u, {"run.finished"}) /\ (u.lost \/ u.lifecycle # "active")
<1>1. PICK t \in IF Accepts(s) THEN Finish(s, Plain) ELSE {s} :
        u \in IF t.lifecycle # "session-finished" THEN {IF Accepts(s) THEN t ELSE Refuse(t)}
              ELSE {IF Written(t, w) THEN [w EXCEPT !.lifecycle = "run-finished"] ELSE w :
                      w \in Write(t, Typed("run.finished"))}
  BY DEF FinishRun, Accepts
<1>2. /\ SessionOK(t) /\ Adds(s, t, {"session.finished"})
      /\ ~Accepts(s) => t = s
  BY <1>1, FinishedFirst
<1>3. CASE t.lifecycle # "session-finished"
  <2>1. CASE Accepts(s)
    BY <1>1, <1>2, <1>3, <2>1 DEF Adds, Terminal
  <2>2. CASE ~Accepts(s)
    <3>1. u = Refuse(s)
      BY <1>1, <1>2, <1>3, <2>2
    <3>2. SessionOK(u) /\ Same(s, u) /\ u.lifecycle = s.lifecycle /\ u.lost = s.lost
      BY <3>1, RefuseKeeps
    <3> QED
      BY <2>2, <3>2 DEF Adds, Terminal, Same, Accepts, SessionOK, Sessions
  <2> QED
    BY <2>1, <2>2
<1>4. CASE t.lifecycle = "session-finished"
  <2>1. PICK w \in Write(t, Typed("run.finished")) :
          u = IF Written(t, w) THEN [w EXCEPT !.lifecycle = "run-finished"] ELSE w
    BY <1>1, <1>4
  <2>2. /\ t \in Sessions /\ Dense(t) /\ EndsSession(t.file) /\ ~t.lost
        /\ Typed("run.finished") \in Event /\ Typed("run.finished").type = "run.finished"
    BY <1>2, <1>4, EventsAreEvents DEF SessionOK, EndIsKept, Sessions, EventTypes
  <2>3. /\ w \in Sessions /\ w.lifecycle = t.lifecycle /\ w.lost = t.lost
        /\ (Written(t, w) /\ Grown(t, Typed("run.finished"), w)) \/ (~Written(t, w) /\ Same(t, w))
    BY <2>1, <2>2, WriteCases
  <2>4. CASE ~Written(t, w)
    <3>1. SessionOK(w)
      BY <1>2, <2>3, <2>4, SameKeeps
    <3> QED
      BY <1>2, <1>4, <2>1, <2>3, <2>4, <3>1 DEF Same, Adds, Terminal
  <2>5. CASE Written(t, w)
    <3>1. /\ Dense(w) /\ Len(t.file) \in Nat /\ Len(w.file) = Len(t.file) + 1
          /\ DOMAIN t.file = 1 .. Len(t.file) /\ DOMAIN w.file = 1 .. Len(t.file) + 1
          /\ \A k \in 1 .. Len(t.file) : w.file[k] = t.file[k]
          /\ w.file[Len(t.file) + 1].type = "run.finished"
      BY <2>2, <2>3, <2>5, GrownFile
    <3>2. EndsRun(w.file)
      <4>1. /\ Len(w.file) > 1 /\ Len(w.file) - 1 = Len(t.file)
            /\ \A k \in 1 .. Len(w.file) - 2 : k \in 1 .. Len(t.file) - 1 /\ k \in 1 .. Len(t.file)
            /\ Len(t.file) \in 1 .. Len(t.file)
        BY <2>2, <3>1 DEF EndsSession
      <4> QED
        BY Zenon, <2>2, <3>1, <4>1 DEF EndsRun, EndsSession
    <3>3. /\ u \in Sessions /\ u.lifecycle = "run-finished" /\ ~u.lost /\ u.file = w.file
          /\ u.sequence = w.sequence /\ u.written = w.written
      BY <2>1, <2>2, <2>3, <2>5 DEF Sessions
    <3>4. SessionOK(u)
      BY SMTT(60), <3>1, <3>2, <3>3 DEF SessionOK, Dense, EndIsKept
    <3>5. Adds(t, u, {"run.finished"})
      BY <3>1, <3>3 DEF Adds
    <3> QED
      BY <1>2, <3>3, <3>4, <3>5 DEF Adds, Terminal
  <2> QED
    BY <2>4, <2>5
<1> QED
  BY <1>3, <1>4

\* close keeps the session in order.
LEMMA CloseKeeps ==
  ASSUME Reliable, NEW s, SessionOK(s), NEW u \in Close(s)
  PROVE  /\ SessionOK(u) /\ Adds(s, u, {"session.finished"}) /\ u.lifecycle = "closed"
         /\ ~Accepts(s) => u.file = s.file
<1>1. PICK t \in IF Accepts(s) THEN Finish(s, Plain) ELSE {s} : u = [t EXCEPT !.lifecycle = "closed"]
  BY DEF Close, Accepts
<1>2. SessionOK(t) /\ Adds(s, t, {"session.finished"}) /\ (~Accepts(s) => t = s)
  BY <1>1, FinishedFirst
<1>3. /\ u \in Sessions /\ u.lifecycle = "closed" /\ u.lost = t.lost /\ u.file = t.file
      /\ u.sequence = t.sequence /\ u.written = t.written
  BY <1>1, <1>2 DEF SessionOK, Sessions
<1>4. SessionOK(u)
  BY <1>2, <1>3 DEF SessionOK, Sessions, Dense, EndIsKept
<1> QED
  BY <1>2, <1>3, <1>4 DEF Adds

-----------------------------------------------------------------------------
(* The producer. *)

\* What is announced stays stored, and lines of other types announce nothing.
LEMMA PublishedStays ==
  ASSUME NEW s, NEW t, NEW st, Published(s, st), NEW types, "attachment.added" \notin types, Adds(s, t, types)
  PROVE  Published(t, st)
BY DEF Published, Adds

\* A status that was accepted stays the only one.
LEMMA SettledStays ==
  ASSUME NEW s, NEW t, NEW status, Settled(s, status), t.lost \/ t.lifecycle # "active",
         NEW types, "session.finished" \notin types, Adds(s, t, types)
  PROVE  Settled(t, status)
BY DEF Settled, Adds

\* A session starts in order, whether or not session.started was written.
LEMMA ReportInitially ==
  ASSUME Reliable
  PROVE  Init => ReportInv
<1> SUFFICES ASSUME Init PROVE ReportInv
  OBVIOUS
<1> DEFINE e == [Typed("session.started") EXCEPT !.runner = "r"]
<1>1. NewSession \in Sessions /\ NewSession.file = <<>> /\ NewSession.lifecycle = "active" /\ ~NewSession.lost
  BY DEF NewSession, Sessions
<1>2. SessionOK(NewSession)
  BY <1>1 DEF SessionOK, NewSession, Dense, EndIsKept, NoEnd
<1>3. e \in Event /\ e.type = "session.started"
  BY EventsAreEvents DEF Event, EventTypes
<1>4. session \in Emit(NewSession, e)
  BY DEF Init, Start
<1> HIDE DEF e
<1>5. SessionOK(session) /\ (Same(NewSession, session) \/ Grown(NewSession, e, session))
  BY <1>2, <1>3, <1>4, EmitKeeps DEF Terminal
<1>6. Published(session, stored)
  BY <1>1, <1>2, <1>3, <1>5, GrownFile DEF Published, Same, SessionOK
<1> QED
  BY <1>5, <1>6 DEF Init, ReportInv, Settled

\* Every call keeps the session, its attachments and its outcome in order.
LEMMA ReportStep ==
  ASSUME Reliable, ReportInv, [Next]_vars
  PROVE  ReportInv'
<1>1. /\ SessionOK(session) /\ Published(session, stored) /\ Settled(session, supplied)
      /\ stored \in [Attachments -> {"nothing", "whole"}]
      /\ supplied \in {"none", "passed", "failed", "inconclusive"}
      /\ streams \subseteq Attachments
  BY DEF ReportInv
<1>2. ASSUME NEW e \in Event, e.type \notin Terminal, session' \in Emit(session, e),
             NEW st, Published(session, st),
             e.type = "attachment.added" => e.hash \in Attachments /\ st[e.hash] = "whole"
      PROVE  SessionOK(session') /\ Published(session', st) /\ Settled(session', supplied)
  <2>1. /\ SessionOK(session') /\ session'.lifecycle = session.lifecycle /\ session'.lost = session.lost
        /\ Same(session, session') \/ Grown(session, e, session')
    BY <1>1, <1>2, EmitKeeps
  <2>2. CASE Same(session, session')
    BY <1>1, <1>2, <2>1, <2>2 DEF Same, Published, Settled
  <2>3. CASE Grown(session, e, session')
    <3>1. /\ Len(session.file) \in Nat
          /\ DOMAIN session.file = 1 .. Len(session.file) /\ DOMAIN session'.file = 1 .. Len(session.file) + 1
          /\ \A k \in 1 .. Len(session.file) : session'.file[k] = session.file[k]
          /\ session'.file[Len(session.file) + 1].type = e.type /\ session'.file[Len(session.file) + 1].hash = e.hash
      BY <1>1, <1>2, <2>1, <2>3, GrownFile DEF SessionOK
    <3>2. Published(session', st)
      BY <1>2, <3>1 DEF Published
    <3>3. Settled(session', supplied)
      BY <1>1, <1>2, <2>1, <3>1 DEF Settled, Terminal
    <3> QED
      BY <2>1, <3>2, <3>3
  <2> QED
    BY <2>1, <2>2, <2>3
<1>3. ASSUME session' = Refuse(session)
      PROVE  SessionOK(session') /\ Published(session', stored) /\ Settled(session', supplied)
  <2>1. /\ SessionOK(session') /\ Same(session, session')
        /\ session'.lifecycle = session.lifecycle /\ session'.lost = session.lost
    BY <1>1, <1>3, RefuseKeeps
  <2> QED
    BY <1>1, <2>1 DEF Same, Published, Settled
<1>4. CASE EmitCall
  <2>1. Typed("event") \in Event /\ Typed("event").type = "event"
    BY EventsAreEvents DEF EventTypes
  <2>2. SessionOK(session') /\ Published(session', stored) /\ Settled(session', supplied)
    BY <1>1, <1>2, <1>4, <2>1 DEF EmitCall, Terminal
  <2> QED
    BY <1>1, <1>4, <2>2 DEF EmitCall, ReportInv
<1>5. ASSUME NEW a \in Attachments, NEW st, st \in [Attachments -> {"nothing", "whole"}],
             st = stored \/ st = [stored EXCEPT ![a] = "whole"], st[a] = "whole", session' \in Emit(session, Announced(a))
      PROVE  SessionOK(session') /\ Published(session', st) /\ Settled(session', supplied)
  <2>1. Announced(a) \in Event /\ Announced(a).type = "attachment.added" /\ Announced(a).hash = a
    BY EventsAreEvents
  <2>2. Published(session, st)
    BY <1>1, <1>5 DEF Published
  <2> QED
    BY <1>2, <1>5, <2>1, <2>2 DEF Terminal
<1>6. ASSUME NEW a \in Attachments, AttachCall(a) PROVE ReportInv'
  <2>1. CASE session' = Refuse(session) /\ UNCHANGED stored
    BY <1>1, <1>3, <1>6, <2>1 DEF AttachCall, ReportInv
  <2>2. CASE UNCHANGED <<session, stored>>
    BY <1>1, <1>6, <2>2 DEF AttachCall, ReportInv
  <2>3. CASE session' \in Emit(session, Announced(a))
             /\ (stored' = [stored EXCEPT ![a] = "whole"] \/ (stored[a] = "whole" /\ stored' = stored))
    <3>1. stored' \in [Attachments -> {"nothing", "whole"}] /\ stored'[a] = "whole"
      BY <1>1, <2>3
    <3> QED
      BY <1>1, <1>5, <1>6, <2>3, <3>1 DEF AttachCall, ReportInv
  <2> QED
    BY <1>6, <2>1, <2>2, <2>3 DEF AttachCall, Reliable
<1>7. ASSUME NEW a \in Attachments, StreamCall(a) PROVE ReportInv'
  BY <1>1, <1>3, <1>7 DEF StreamCall, ReportInv
<1>8. ASSUME NEW a \in Attachments, StreamEnd(a) PROVE ReportInv'
  <2>1. CASE UNCHANGED <<session, stored>>
    BY <1>1, <1>8, <2>1 DEF StreamEnd, ReportInv
  <2>2. CASE stored' = [stored EXCEPT ![a] = "whole"] /\ session' \in Emit(session, Announced(a))
    <3>1. stored' \in [Attachments -> {"nothing", "whole"}] /\ stored'[a] = "whole"
      BY <1>1, <2>2
    <3> QED
      BY Zenon, <1>1, <1>5, <1>8, <2>2, <3>1 DEF StreamEnd, ReportInv
  <2> QED
    BY <1>8, <2>1, <2>2 DEF StreamEnd
<1>9. ASSUME NEW o \in Outcomes, FinishCall(o) PROVE ReportInv'
  <2>1. /\ SessionOK(session')
        /\ \/ Unmoved(session, session') /\ (~Accepts(session) \/ Violates(o) \/ o.status = "none")
           \/ Stopped(session, session') /\ Accepts(session)
           \/ EndedWith(session, o, session')
    BY <1>1, <1>9, FinishKeeps DEF FinishCall
  <2>2. UNCHANGED <<stored, streams>> /\ supplied' = IF Accepts(session) /\ ~Violates(o) THEN o.status ELSE supplied
    BY <1>9 DEF FinishCall
  <2>3. Accepts(session) => supplied = "none"
    BY <1>1 DEF Settled, Accepts
  <2>4. supplied' \in {"none", "passed", "failed", "inconclusive"}
    BY <1>1, <2>2 DEF Outcomes
  <2>5. Published(session', stored')
    <3>1. CASE Unmoved(session, session') \/ Stopped(session, session')
      BY <1>1, <2>2, <3>1 DEF Unmoved, Stopped, Same, Published
    <3>2. CASE EndedWith(session, o, session')
      <4>1. PICK d \in Outcomes : Grown(session, Ending(d), session')
        BY <3>2 DEF EndedWith
      <4> QED
        BY SMTT(60), <1>1, <2>1, <2>2, <4>1, GrownFile, EventsAreEvents DEF SessionOK, Published
    <3> QED
      BY <2>1, <3>1, <3>2
  <2>6. Settled(session', supplied')
    <3>1. CASE Unmoved(session, session') /\ (~Accepts(session) \/ Violates(o) \/ o.status = "none")
      BY <1>1, <2>2, <3>1 DEF Unmoved, Same, Settled
    <3>2. CASE Stopped(session, session') /\ Accepts(session)
      BY <1>1, <2>1, <2>2, <2>3, <3>2 DEF Stopped, Same, Settled, SessionOK, EndIsKept, NoEnd, Terminal
    <3>3. CASE EndedWith(session, o, session')
      <4>1. PICK d \in Outcomes : d.status = o.status /\ Grown(session, Ending(d), session')
        BY <3>3 DEF EndedWith
      <4>2. \A k \in DOMAIN session'.file :
              session'.file[k].type = "session.finished" => session'.file[k].status = o.status
        BY <1>1, <2>1, <3>3, <4>1, EndsNow DEF EndedWith, SessionOK
      <4> QED
        BY <2>2, <2>3, <3>3, <4>2 DEF Settled, EndedWith
    <3> QED
      BY <2>1, <3>1, <3>2, <3>3
  <2> QED
    BY <1>1, <2>1, <2>2, <2>4, <2>5, <2>6 DEF ReportInv
<1>10. CASE FinishRunCall
  <2>1. /\ SessionOK(session') /\ Adds(session, session', Terminal)
        /\ ~Accepts(session) => /\ Adds(session, session', {"run.finished"})
                                /\ session'.lost \/ session'.lifecycle # "active"
    BY <1>1, <1>10, FinishRunKeeps DEF FinishRunCall
  <2>2. Published(session', stored)
    BY <1>1, <2>1, PublishedStays DEF Terminal
  <2>3. Settled(session', supplied)
    BY Zenon, <1>1, <2>1, SettledStays DEF Settled, Accepts
  <2> QED
    BY <1>1, <1>10, <2>1, <2>2, <2>3 DEF FinishRunCall, ReportInv
<1>11. CASE CloseCall
  <2>1. /\ SessionOK(session') /\ Adds(session, session', {"session.finished"}) /\ session'.lifecycle = "closed"
        /\ ~Accepts(session) => session'.file = session.file
    BY <1>1, <1>11, CloseKeeps DEF CloseCall
  <2>2. Published(session', stored)
    BY <1>1, <2>1, PublishedStays
  <2>3. Settled(session', supplied)
    BY <1>1, <2>1 DEF Settled, Accepts
  <2> QED
    BY <1>1, <1>11, <2>1, <2>2, <2>3 DEF CloseCall, ReportInv
<1>12. CASE UNCHANGED vars
  BY <1>1, <1>12 DEF vars, ReportInv
<1> QED
  BY <1>4, <1>6, <1>7, <1>8, <1>9, <1>10, <1>11, <1>12 DEF Next

\* All of it holds throughout.
LEMMA ReportInvariant ==
  ASSUME Reliable
  PROVE  Spec => []ReportInv
<1>1. Init => ReportInv
  BY ReportInitially
<1>2. ReportInv /\ [Next]_vars => ReportInv'
  BY ReportStep
<1> QED
  BY <1>1, <1>2, PTL DEF Spec

\* write, finish, finishRun, close and attach: whatever a producer calls, and
\* whatever is dropped on the way, the file is numbered without a gap, has
\* nothing behind its end, and announces only what is stored.
THEOREM FilesAreOrderly ==
  ASSUME Reliable
  PROVE  Spec => []FileIsOrderly
<1>1. ReportInv => FileIsOrderly
  <2> SUFFICES ASSUME ReportInv PROVE FileIsOrderly
    OBVIOUS
  <2>1. /\ session \in Sessions /\ Dense(session) /\ EndIsKept(session) /\ Published(session, stored)
    BY DEF ReportInv, SessionOK
  <2>2. session.file \in Seq(Event) /\ DOMAIN session.file = 1 .. Len(session.file) /\ Len(session.file) \in Nat
    BY <2>1 DEF Sessions
  <2>3. NoEnd(session.file) \/ EndsSession(session.file) \/ EndsRun(session.file)
    BY <2>1 DEF EndIsKept, Sessions
  <2>4. TerminalEventsLast
    <3>1. CASE NoEnd(session.file)
      BY <3>1 DEF TerminalEventsLast, At, NoEnd, Terminal
    <3>2. CASE EndsSession(session.file)
      BY <2>2, <3>2 DEF TerminalEventsLast, At, EndsSession, Terminal
    <3>3. CASE EndsRun(session.file)
      <4> DEFINE n == Len(session.file)
      <4>1. /\ n \in Nat /\ n > 1 /\ At(n).type = "run.finished" /\ At(n - 1).type = "session.finished"
            /\ \A k \in 1 .. n : k \in 1 .. n - 2 \/ k = n - 1 \/ k = n
        BY <2>2, <3>3 DEF EndsRun, At
      <4>2. \A k \in 1 .. n : /\ At(k).type = "session.finished" => k = n - 1
                              /\ At(k).type = "run.finished" => k = n
        BY SMTT(60), <3>3, <4>1 DEF EndsRun, At, Terminal
      <4> HIDE DEF n
      <4>3. \A k \in 1 .. n, j \in 1 .. n : k = n - 1 /\ j > k => j = n
        BY <4>1
      <4>4. DOMAIN session.file = 1 .. n /\ Len(session.file) = n
        BY <2>2 DEF n
      <4>5. ASSUME NEW k \in 1 .. n, At(k).type = "session.finished", NEW j \in 1 .. n, j > k
            PROVE  At(j).type = "run.finished"
        BY <4>1, <4>2, <4>3, <4>5
      <4>6. ASSUME NEW k \in 1 .. n, At(k).type = "run.finished"
            PROVE  k = n /\ k > 1 /\ At(k - 1).type = "session.finished"
        BY Zenon, <4>1, <4>2, <4>6
      <4> QED
        BY Zenon, <4>4, <4>5, <4>6 DEF TerminalEventsLast
    <3> QED
      BY <2>3, <3>1, <3>2, <3>3
  <2> QED
    BY <2>1, <2>4 DEF FileIsOrderly, SequencesAreDense, Dense, AnnouncedBytesArePublished, Published, At
<1> QED
  BY <1>1, ReportInvariant, PTL

\* finish: an outcome the session accepted is the one in the file, or the file
\* has no end; "the session stays open" when it could not be written.
THEOREM OutcomesAreHonest ==
  ASSUME Reliable
  PROVE  Spec => []OutcomeIsHonest
<1>1. ReportInv => OutcomeIsHonest
  BY DEF ReportInv, SessionOK, EndIsKept, NoEnd, Terminal, Settled, OutcomeIsHonest, OutcomeNeverReplaced,
         LostOutcomeStaysOpen, At
<1> QED
  BY <1>1, ReportInvariant, PTL

-----------------------------------------------------------------------------
(* The Java SDK. *)

\* What agreement rests on, whatever the sink does: a session that lost its
\* outcome has not ended.
LostIsOpen(s) == s \in Sessions /\ (s.lost => s.lifecycle \in {"active", "closed"})

\* write leaves a session that is as willing to go on as before.
LEMMA WriteTypes ==
  ASSUME NEW s \in Sessions, NEW e \in Event, NEW t \in Write(s, e)
  PROVE  t \in Sessions /\ t.lifecycle = s.lifecycle /\ t.lost = s.lost
<1> DEFINE n == [e EXCEPT !.sequence = s.sequence + 1]
<1>1. s.sequence \in Nat /\ s.written \in Nat /\ s.dropped \in Nat /\ s.file \in Seq(Event)
  BY DEF Sessions
<1>2. Append(s.file, n) \in Seq(Event)
  <2>1. n \in Event
    BY Zenon, <1>1, SuccNat, Numbered
  <2> QED
    BY <1>1, <2>1, OneMore
<1>3. \/ t = [s EXCEPT !.dropped = @ + 1]
      \/ t = [[s EXCEPT !.file = Append(@, n)] EXCEPT !.sequence = @ + 1, !.written = @ + 1]
      \/ t = [[s EXCEPT !.file = Append(@, n)] EXCEPT !.dropped = @ + 1]
  BY DEF Write, SinkWrite, TooLarge, Appended
<1> HIDE DEF n
<1> QED
  BY ZenonT(60), <1>1, <1>2, <1>3, SuccNat DEF Sessions

\* What a write reports is what it did to the count.
LEMMA TooLargeIsUnwritten == \A s \in Sessions : ~Written(s, TooLarge(s))
BY DEF Sessions, Written, TooLarge

\* write of the two SDKs.
LEMMA SameWrites ==
  ASSUME NEW s \in Sessions, NEW e, NEW t \in Write(s, e)
  PROVE  \E a \in JavaWrite(s, e) : a.session = t /\ (a.result = "written" <=> Written(s, t))
<1>1. CASE t = TooLarge(s)
  <2> DEFINE a == [result |-> "too-large", session |-> TooLarge(s)]
  <2>1. a \in JavaWrite(s, e) /\ a.session = t /\ a.result # "written"
    BY <1>1 DEF JavaWrite
  <2> QED
    BY <1>1, <2>1, TooLargeIsUnwritten
<1>2. CASE t \in SinkWrite(s, e)
  <2> DEFINE a == [result |-> IF Written(s, t) THEN "written" ELSE "sink-failure", session |-> t]
  <2>1. a \in JavaWrite(s, e)
    BY <1>2 DEF JavaWrite
  <2>2. a.session = t /\ (a.result = "written" <=> Written(s, t))
    OBVIOUS
  <2> QED
    BY <2>1, <2>2
<1> QED
  BY <1>1, <1>2 DEF Write

\* finish without an outcome, as finishRun and close call it.
LEMMA SamePlainFinish ==
  ASSUME NEW s \in Sessions, NEW o, o.status = "none", Accepts(s), NEW t \in {FinishedIf(s, u) : u \in Write(s, Ending(o))}
  PROVE  t \in JavaFinish(s, o)
<1>1. PICK u \in Write(s, Ending(o)) : t = FinishedIf(s, u)
  OBVIOUS
<1>2. PICK a \in JavaWrite(s, Ending(o)) : a.session = u /\ (a.result = "written" <=> Written(s, u))
  BY SameWrites
<1>3. t = IF a.result = "written" THEN Ended(a.session, "session-finished") ELSE a.session
  BY <1>1, <1>2 DEF FinishedIf, Ended
<1> QED
  BY <1>3 DEF JavaFinish, JavaAccepts, Accepts

\* Three turns of the loop.
LEMMA ThreeTurns ==
  ASSUME NEW s, NEW o, NEW x \in Turn([done |-> FALSE, session |-> s, candidate |-> o]), NEW y \in Turn(x), NEW z \in Turn(y)
  PROVE  z \in Loop(s, o)
BY DEF Loop

\* One turn: a done try stays, a written or a refused line ends it, and one that
\* is too large reduces the candidate or loses the outcome.
Try(s, c) == [done |-> FALSE, session |-> s, candidate |-> c]

\* A try that is done is left alone.
LEMMA DoneStays == \A x : x.done => x \in Turn(x)
BY DEF Turn

\* A payload that meets the sink is done in one turn.
LEMMA TurnEnds ==
  ASSUME NEW s \in Sessions, NEW c, NEW u \in SinkWrite(s, Ending(c)), NEW t,
         t = IF Written(s, u) THEN Ended(u, "session-finished") ELSE [u EXCEPT !.lost = TRUE]
  PROVE  \E x \in Turn(Try(s, c)) : x.done /\ x.session = t
<1> DEFINE a == [result |-> IF Written(s, u) THEN "written" ELSE "sink-failure", session |-> u]
           x == [done |-> TRUE, session |-> t, candidate |-> c]
<1>1. a \in JavaWrite(s, Ending(c))
  BY DEF JavaWrite
<1>2. x = CASE a.result = "written"      -> [Try(s, c) EXCEPT !.done = TRUE, !.session = Ended(a.session, "session-finished")]
            [] a.result = "sink-failure" -> [Try(s, c) EXCEPT !.done = TRUE, !.session = [a.session EXCEPT !.lost = TRUE]]
            [] OTHER                     -> TooLargeFor(a.session, Try(s, c).candidate)
  <2>1. CASE Written(s, u)
    BY Zenon, <2>1 DEF Try
  <2>2. CASE ~Written(s, u)
    BY ZenonT(30), <2>2 DEF Try
  <2> QED
    BY <2>1, <2>2
<1>3. Try(s, c).done = FALSE /\ Try(s, c).session = s /\ Try(s, c).candidate = c
  BY DEF Try
<1> HIDE DEF a
<1>4. x \in Turn(Try(s, c))
  BY Zenon, <1>1, <1>2, <1>3 DEF Turn
<1> QED
  BY Zenon, <1>4

\* A payload that is too large is reduced in one turn, or lost.
LEMMA TurnReduces ==
  ASSUME NEW s, NEW c
  PROVE  TooLargeFor(TooLarge(s), c) \in Turn(Try(s, c))
<1> DEFINE a == [result |-> "too-large", session |-> TooLarge(s)]
<1>1. a \in JavaWrite(s, Ending(c)) /\ a.result \notin {"written", "sink-failure"} /\ a.session = TooLarge(s)
  BY DEF JavaWrite
<1>2. Try(s, c).done = FALSE /\ Try(s, c).session = s /\ Try(s, c).candidate = c
  BY DEF Try
<1> HIDE DEF a
<1> QED
  BY Zenon, <1>1, <1>2 DEF Turn

\* The session a sink can leave when the outcome is tried.
Ends(s, e) == {LostUnless(s, u) : u \in SinkWrite(s, e)}

Larger(s, k) == [s EXCEPT !.dropped = @ + k]

\* The sizes counted one after the other are the sizes counted at once.
LEMMA LargerByOne ==
  ASSUME NEW s \in Sessions, NEW k \in Nat
  PROVE  /\ Larger(s, 0) = s
         /\ Larger(s, k) \in Sessions
         /\ TooLarge(Larger(s, k)) = Larger(s, k + 1)
         /\ Larger(s, k).written = s.written
<1> DEFINE d == s.dropped
<1>1. d \in Nat /\ d + 0 = d /\ d + k \in Nat /\ (d + k) + 1 = d + (k + 1)
  BY DEF Sessions
<1>2. Larger(s, 0) = s
  BY Zenon, <1>1 DEF Larger, Sessions
<1>3. Larger(s, k) \in Sessions
  BY Zenon, <1>1 DEF Larger, Sessions
<1>4. TooLarge(Larger(s, k)) = Larger(s, k + 1)
  <2>1. Larger(s, k).dropped = d + k
    BY Zenon DEF Larger, Sessions
  <2>2. TooLarge(Larger(s, k)) = [Larger(s, k) EXCEPT !.dropped = (d + k) + 1]
    BY Zenon, <2>1 DEF TooLarge
  <2>3. Larger(s, k + 1) = [s EXCEPT !.dropped = (d + k) + 1]
    BY Zenon, <1>1 DEF Larger
  <2>4. [Larger(s, k) EXCEPT !.dropped = (d + k) + 1] = [s EXCEPT !.dropped = (d + k) + 1]
    BY ZenonT(60) DEF Larger, Sessions
  <2> QED
    BY Zenon, <2>2, <2>3, <2>4
<1>5. Larger(s, k).written = s.written
  BY DEF Larger, Sessions
<1> QED
  BY <1>2, <1>3, <1>4, <1>5

\* A payload tried in one turn.
LEMMA TurnFinishes ==
  ASSUME NEW s \in Sessions, NEW c, NEW t \in Ends(s, Ending(c))
  PROVE  \E x \in Turn(Try(s, c)) : x.done /\ x.session = t
<1>1. PICK u \in SinkWrite(s, Ending(c)) : t = LostUnless(s, u)
  BY DEF Ends
<1>2. t = IF Written(s, u) THEN Ended(u, "session-finished") ELSE [u EXCEPT !.lost = TRUE]
  BY <1>1 DEF LostUnless, Ended
<1> QED
  BY <1>2, TurnEnds

\* The smallest payload that is too large loses the outcome.
LEMMA TurnLoses ==
  ASSUME NEW s, NEW c, ~c.failures, ~c.rawStatus
  PROVE  \E x \in Turn(Try(s, c)) : x.done /\ x.session = [TooLarge(s) EXCEPT !.lost = TRUE]
<1>1. TooLargeFor(TooLarge(s), c) = [done |-> TRUE, session |-> [TooLarge(s) EXCEPT !.lost = TRUE], candidate |-> c]
  BY Zenon DEF TooLargeFor
<1>2. TooLargeFor(TooLarge(s), c).done /\ TooLargeFor(TooLarge(s), c).session = [TooLarge(s) EXCEPT !.lost = TRUE]
  BY <1>1
<1> QED
  BY Zenon, <1>2, TurnReduces

\* The payloads tried in turn: as many as the outcome has parts, and one.
Parts(o) == (IF o.failures THEN 1 ELSE 0) + (IF o.rawStatus THEN 1 ELSE 0)

\* All of them have the same status.
LEMMA ReductionsAre ==
  ASSUME NEW o \in Outcomes
  PROVE  /\ Len(Reductions(o)) = 1 + Parts(o)
         /\ \A k \in 0 .. Parts(o) : Ending(Reductions(o)[k + 1]) = Ending(o)
<1> DEFINE f == [o EXCEPT !.failures = FALSE]
           r == [o EXCEPT !.failures = FALSE, !.rawStatus = FALSE]
           A == IF o.failures THEN <<f>> ELSE <<>>
           B == IF o.rawStatus THEN <<r>> ELSE <<>>
<1>1. f \in Outcomes /\ r \in Outcomes /\ f.status = o.status /\ r.status = o.status
  BY ZenonT(60) DEF Outcomes
<1>2. Reductions(o) = <<o>> \o A \o B
  BY DEF Reductions
<1>3. /\ Len(<<o>> \o A \o B) = 1 + Parts(o)
      /\ \A k \in 0 .. Parts(o) : (<<o>> \o A \o B)[k + 1] \in {o, f, r}
  <2> HIDE DEF f, r
  <2>1. CASE o.failures /\ o.rawStatus
    BY <1>1, <2>1 DEF Parts
  <2>2. CASE o.failures /\ ~o.rawStatus
    BY <1>1, <2>2 DEF Parts
  <2>3. CASE ~o.failures /\ o.rawStatus
    BY <1>1, <2>3 DEF Parts
  <2>4. CASE ~o.failures /\ ~o.rawStatus
    BY <1>1, <2>4 DEF Parts
  <2> QED
    BY Zenon, <2>1, <2>2, <2>3, <2>4
<1>4. \A x \in {o, f, r} : Ending(x) = Ending(o)
  BY Zenon, <1>1 DEF Ending
<1> HIDE DEF f, r, A, B
<1> QED
  BY Zenon, <1>2, <1>3, <1>4

\* finish with an outcome of n parts: some payloads are too large, and the next
\* one meets the sink or there is none.
Leaves(s, n, e, t) ==
  \/ \E k \in 0 .. n : t \in Ends(Larger(s, k), e)
  \/ t = [Larger(s, n + 1) EXCEPT !.lost = TRUE]

\* So finish leaves no other session.
LEMMA FinishWithCases ==
  ASSUME NEW s \in Sessions, NEW o \in Outcomes, NEW t \in FinishWith(s, o)
  PROVE  Leaves(s, Parts(o), Ending(o), t)
<1>1. Parts(o) \in Nat
  BY DEF Parts
<1>2. PICK k \in 0 .. Len(Reductions(o)) :
        t \in IF k = Len(Reductions(o)) THEN {[Larger(s, k) EXCEPT !.lost = TRUE]}
              ELSE {LostUnless(s, u) : u \in SinkWrite(Larger(s, k), Ending(Reductions(o)[k + 1]))}
  BY Zenon DEF FinishWith, Larger
<1>3. CASE k = Len(Reductions(o))
  BY <1>1, <1>2, <1>3, ReductionsAre DEF Leaves
<1>4. CASE k # Len(Reductions(o))
  <2>1. k \in 0 .. Parts(o) /\ k \in Nat
    BY <1>1, <1>2, <1>4, ReductionsAre
  <2>2. PICK u \in SinkWrite(Larger(s, k), Ending(o)) : t = LostUnless(s, u)
    BY Zenon, <1>2, <1>4, <2>1, ReductionsAre
  <2>3. LostUnless(s, u) = LostUnless(Larger(s, k), u)
    BY Zenon, <2>1, LargerByOne DEF LostUnless, Written
  <2> QED
    BY Zenon, <2>1, <2>2, <2>3 DEF Ends, Leaves
<1> QED
  BY <1>3, <1>4

\* The first payload meets the sink, or is too large and the others are left.
LEMMA LeavesFirst ==
  ASSUME NEW s \in Sessions, NEW n \in Nat, NEW e, NEW t, Leaves(s, n, e, t)
  PROVE  \/ t \in Ends(s, e)
         \/ n = 0 /\ t = [TooLarge(s) EXCEPT !.lost = TRUE]
         \/ n > 0 /\ Leaves(TooLarge(s), n - 1, e, t)
<1>1. TooLarge(s) = Larger(s, 1) /\ TooLarge(s) \in Sessions
  <2>1. 0 + 1 = 1 /\ 0 \in Nat /\ 1 \in Nat
    OBVIOUS
  <2>2. Larger(s, 0) = s /\ TooLarge(Larger(s, 0)) = Larger(s, 0 + 1)
    BY Zenon, <2>1, LargerByOne
  <2>3. Larger(s, 1) \in Sessions
    BY Zenon, <2>1, LargerByOne
  <2> QED
    BY <2>1, <2>2, <2>3
<1>2. \A k \in Nat : Larger(TooLarge(s), k) = Larger(s, k + 1)
  <2> TAKE k \in Nat
  <2>1. (s.dropped + 1) + k = s.dropped + (k + 1)
    BY DEF Sessions
  <2> QED
    BY Zenon, <2>1 DEF Larger, TooLarge, Sessions
<1>3. CASE \E k \in 0 .. n : t \in Ends(Larger(s, k), e)
  <2>1. PICK k \in 0 .. n : t \in Ends(Larger(s, k), e)
    BY <1>3
  <2>2. CASE k = 0
    BY <2>1, <2>2, LargerByOne
  <2>3. CASE k # 0
    <3>1. n > 0 /\ k - 1 \in 0 .. (n - 1) /\ k - 1 \in Nat /\ (k - 1) + 1 = k
      BY <2>3
    <3>2. t \in Ends(Larger(TooLarge(s), k - 1), e)
      BY Zenon, <1>2, <2>1, <3>1
    <3> QED
      BY Zenon, <3>1, <3>2 DEF Leaves
  <2> QED
    BY <2>2, <2>3
<1>4. CASE t = [Larger(s, n + 1) EXCEPT !.lost = TRUE]
  <2>1. CASE n = 0
    BY <1>1, <1>4, <2>1
  <2>2. CASE n # 0
    <3>1. n > 0 /\ (n - 1) + 1 = n /\ n \in Nat
      BY <2>2
    <3> QED
      BY Zenon, <1>2, <1>4, <3>1 DEF Leaves
  <2> QED
    BY <2>1, <2>2
<1> QED
  BY <1>3, <1>4 DEF Leaves

\* A payload with parts left becomes one with a part less and the same status.
LEMMA Reduced ==
  ASSUME NEW s, NEW c \in Outcomes, Parts(c) > 0
  PROVE  \E d \in Outcomes : /\ Parts(d) = Parts(c) - 1 /\ Ending(d) = Ending(c)
                             /\ Try(TooLarge(s), d) \in Turn(Try(s, c))
<1>1. PICK d : d = IF c.failures THEN [c EXCEPT !.failures = FALSE] ELSE [c EXCEPT !.rawStatus = FALSE]
  BY ZenonT(60)
<1>3. c.failures \/ c.rawStatus
  BY DEF Parts
<1>2. d \in Outcomes /\ d.status = c.status /\ Parts(d) = Parts(c) - 1
  <2>1. CASE c.failures
    <3>1. d \in Outcomes /\ d.status = c.status /\ d.failures = FALSE /\ d.rawStatus = c.rawStatus
      BY Zenon, <1>1, <2>1 DEF Outcomes
    <3> QED
      BY <2>1, <3>1 DEF Parts
  <2>2. CASE ~c.failures
    <3>1. d \in Outcomes /\ d.status = c.status /\ d.failures = c.failures /\ d.rawStatus = FALSE
      BY Zenon, <1>1, <2>2 DEF Outcomes
    <3> QED
      BY <1>3, <2>2, <3>1 DEF Parts
  <2> QED
    BY <2>1, <2>2
<1>4. TooLargeFor(TooLarge(s), c) = Try(TooLarge(s), d)
  BY Zenon, <1>1, <1>3 DEF TooLargeFor, Try
<1>5. Ending(d) = Ending(c)
  BY Zenon, <1>2 DEF Ending
<1> QED
  BY Zenon, <1>2, <1>4, <1>5, TurnReduces

\* One turn of the Java loop.
LEMMA OneTurn ==
  ASSUME NEW s \in Sessions, NEW c \in Outcomes, NEW t, Leaves(s, Parts(c), Ending(c), t)
  PROVE  \/ \E x \in Turn(Try(s, c)) : x.done /\ x.session = t
         \/ \E d \in Outcomes : /\ Parts(c) > 0 /\ Parts(d) = Parts(c) - 1
                                /\ Try(TooLarge(s), d) \in Turn(Try(s, c))
                                /\ Leaves(TooLarge(s), Parts(d), Ending(d), t)
<1>1. Parts(c) \in Nat
  BY DEF Parts
<1>2. CASE t \in Ends(s, Ending(c))
  BY <1>2, TurnFinishes
<1>3. CASE Parts(c) = 0 /\ t = [TooLarge(s) EXCEPT !.lost = TRUE]
  <2>1. ~c.failures /\ ~c.rawStatus
    BY <1>3 DEF Parts
  <2> QED
    BY <1>3, <2>1, TurnLoses
<1>4. CASE Parts(c) > 0 /\ Leaves(TooLarge(s), Parts(c) - 1, Ending(c), t)
  BY Zenon, <1>4, Reduced
<1> QED
  BY Zenon, <1>1, <1>2, <1>3, <1>4, LeavesFirst

\* finish with an outcome: the loop of the Java SDK leaves every session the
\* reductions of the TypeScript SDK leave.
LEMMA SameOutcomes ==
  ASSUME NEW s \in Sessions, NEW o \in Outcomes, NEW t \in FinishWith(s, o)
  PROVE  t \in {x.session : x \in Loop(s, o)}
<1> DEFINE Found == \E z \in Loop(s, o) : z.session = t
<1>0. \A x \in Turn(Try(s, o)) : \A y \in Turn(x) : \A z \in Turn(y) : z \in Loop(s, o)
  BY Zenon, ThreeTurns DEF Try
<1>1. Leaves(s, Parts(o), Ending(o), t) /\ Parts(o) \in 0 .. 2
  BY FinishWithCases DEF Parts
<1>2. \A q \in Sessions : TooLarge(q) \in Sessions
  BY SMTT(60), SuccNat DEF TooLarge, Sessions
<1>3. CASE \E x \in Turn(Try(s, o)) : x.done /\ x.session = t
  BY Zenon, <1>0, <1>3, DoneStays
<1>4. CASE ~\E x \in Turn(Try(s, o)) : x.done /\ x.session = t
  <2> DEFINE q == TooLarge(s)
  <2>1. PICK d \in Outcomes : /\ Parts(o) > 0 /\ Parts(d) = Parts(o) - 1
                             /\ Try(q, d) \in Turn(Try(s, o))
                             /\ Leaves(q, Parts(d), Ending(d), t)
    BY Zenon, <1>1, <1>4, OneTurn
  <2>2. q \in Sessions
    BY <1>2
  <2> HIDE DEF q
  <2>3. CASE \E x \in Turn(Try(q, d)) : x.done /\ x.session = t
    BY Zenon, <1>0, <2>1, <2>3, DoneStays
  <2>4. CASE ~\E x \in Turn(Try(q, d)) : x.done /\ x.session = t
    <3>1. PICK b \in Outcomes : /\ Parts(d) > 0 /\ Parts(b) = Parts(d) - 1
                               /\ Try(TooLarge(q), b) \in Turn(Try(q, d))
                               /\ Leaves(TooLarge(q), Parts(b), Ending(b), t)
      BY Zenon, <2>1, <2>2, <2>4, OneTurn
    <3>2. Parts(b) = 0
      BY <1>1, <2>1, <3>1
    <3>3. TooLarge(q) \in Sessions
      BY <1>2, <2>2
    <3>4. PICK z \in Turn(Try(TooLarge(q), b)) : z.done /\ z.session = t
      <4>1. ~(Parts(b) > 0)
        BY <3>2
      <4> QED
        BY Zenon, <3>1, <3>3, <4>1, OneTurn
    <3> QED
      BY Zenon, <1>0, <2>1, <3>1, <3>4
  <2> QED
    BY <2>3, <2>4
<1>5. Found
  BY <1>3, <1>4
<1> QED
  BY Zenon, <1>5

\* A call on a session that is closed to it changes a count and nothing else.
LEMMA RefuseOpen == \A s : LostIsOpen(s) => LostIsOpen(Refuse(s))
BY SuccNat DEF LostIsOpen, Refuse, Sessions

\* emit.
LEMMA EmitOpen ==
  ASSUME NEW s, LostIsOpen(s), NEW e \in Event, NEW t \in Emit(s, e)
  PROVE  LostIsOpen(t)
<1>1. CASE Accepts(s)
  <2>1. t \in Write(s, e) /\ s \in Sessions
    BY <1>1 DEF Emit, LostIsOpen
  <2> QED
    BY <2>1, WriteTypes DEF LostIsOpen
<1>2. CASE ~Accepts(s)
  BY <1>2, RefuseOpen DEF Emit
<1> QED
  BY <1>1, <1>2

\* The Java SDK emits the same.
LEMMA SameEmits ==
  ASSUME NEW s \in Sessions, NEW e, NEW t \in Emit(s, e)
  PROVE  t \in JavaEmit(s, e)
<1>1. Accepts(s) <=> JavaAccepts(s)
  BY DEF Accepts, JavaAccepts
<1>2. CASE Accepts(s)
  <2>1. PICK a \in JavaWrite(s, e) : a.session = t
    BY <1>2, SameWrites DEF Emit
  <2> QED
    BY Zenon, <1>1, <1>2, <2>1 DEF JavaEmit
<1> QED
  BY <1>1, <1>2 DEF Emit, JavaEmit

\* finish without an outcome: the session is finished or as willing as before.
LEMMA PlainFinishOpen ==
  ASSUME NEW s \in Sessions, Accepts(s), NEW o \in Outcomes, NEW t \in {FinishedIf(s, u) : u \in Write(s, Ending(o))}
  PROVE  t \in Sessions /\ ~t.lost /\ t.lifecycle \in {"active", "session-finished"}
<1>1. PICK u \in Write(s, Ending(o)) : t = FinishedIf(s, u)
  OBVIOUS
<1>2. u \in Sessions /\ u.lifecycle = "active" /\ ~u.lost
  BY EventsAreEvents, WriteTypes DEF Accepts
<1> QED
  BY Zenon, <1>1, <1>2 DEF FinishedIf, Sessions

\* finish with an outcome: the session is finished, or lost and not finished.
LEMMA OutcomeFinishOpen ==
  ASSUME NEW s \in Sessions, Accepts(s), NEW o \in Outcomes, NEW t \in FinishWith(s, o)
  PROVE  LostIsOpen(t)
<1>1. Parts(o) \in Nat /\ Parts(o) + 1 \in Nat
  BY DEF Parts
<1>2. \A k \in Nat : Larger(s, k) \in Sessions /\ Larger(s, k).lifecycle = "active" /\ ~Larger(s, k).lost
  BY Zenon, LargerByOne DEF Accepts, Larger, Sessions
<1>3. CASE t = [Larger(s, Parts(o) + 1) EXCEPT !.lost = TRUE]
  BY Zenon, <1>1, <1>2, <1>3 DEF LostIsOpen, Sessions
<1>4. CASE \E k \in 0 .. Parts(o) : t \in Ends(Larger(s, k), Ending(o))
  <2>1. PICK k \in 0 .. Parts(o) : t \in Ends(Larger(s, k), Ending(o))
    BY <1>4
  <2> DEFINE q == Larger(s, k)
  <2>2. q \in Sessions /\ q.lifecycle = "active" /\ ~q.lost
    BY <1>2
  <2>3. PICK u \in SinkWrite(q, Ending(o)) : t = LostUnless(q, u)
    BY <2>1 DEF Ends
  <2> HIDE DEF q
  <2>4. u \in Sessions /\ u.lifecycle = "active" /\ ~u.lost
    <3>1. u \in Write(q, Ending(o)) /\ Ending(o) \in Event
      BY <2>3, EventsAreEvents DEF Write
    <3> QED
      BY <2>2, <3>1, WriteTypes
  <2> QED
    BY Zenon, <2>3, <2>4 DEF LostUnless, LostIsOpen, Sessions
<1> QED
  BY Zenon, <1>3, <1>4, FinishWithCases DEF Leaves

\* finish.
LEMMA FinishOpen ==
  ASSUME NEW s, LostIsOpen(s), NEW o \in Outcomes, NEW t \in Finish(s, o)
  PROVE  LostIsOpen(t)
<1>1. CASE Violates(o) \/ ~Accepts(s)
  BY Zenon, <1>1, RefuseOpen DEF Finish
<1>2. CASE ~Violates(o) /\ Accepts(s) /\ o.status = "none"
  BY Zenon, <1>2, PlainFinishOpen DEF Finish, LostIsOpen
<1>3. CASE ~Violates(o) /\ Accepts(s) /\ o.status # "none"
  BY Zenon, <1>3, OutcomeFinishOpen DEF Finish, LostIsOpen
<1> QED
  BY <1>1, <1>2, <1>3

\* The Java SDK finishes the same sessions, and refuses what it cannot construct.
LEMMA SameFinishes ==
  ASSUME NEW s \in Sessions, NEW o \in Outcomes, NEW t \in Finish(s, o)
  PROVE  t = Refuse(s) \/ (~Violates(o) /\ t \in JavaFinish(s, o))
<1>1. CASE Violates(o) \/ ~Accepts(s)
  BY Zenon, <1>1 DEF Finish
<1>2. CASE ~Violates(o) /\ Accepts(s) /\ o.status = "none"
  BY Zenon, <1>2, SamePlainFinish DEF Finish
<1>3. CASE ~Violates(o) /\ Accepts(s) /\ o.status # "none"
  <2>1. t \in {x.session : x \in Loop(s, o)}
    BY Zenon, <1>3, SameOutcomes DEF Finish
  <2> QED
    BY Zenon, <1>3, <2>1 DEF JavaFinish, Accepts, JavaAccepts
<1> QED
  BY <1>1, <1>2, <1>3

\* What finishRun and close find the session to be once they have finished it.
Found(s) == IF s.lifecycle = "active" /\ ~s.lost THEN Finish(s, Plain) ELSE {s}

\* They find it finished or as it was, as the Java SDK does.
LEMMA FoundIs ==
  ASSUME NEW s, LostIsOpen(s), NEW t \in Found(s)
  PROVE  /\ LostIsOpen(t)
         /\ JavaAccepts(s) => /\ t \in JavaFinish(s, Plain) /\ ~t.lost
                              /\ t.lifecycle \in {"active", "session-finished"}
         /\ ~JavaAccepts(s) => t = s
<1>1. s \in Sessions /\ (Accepts(s) <=> JavaAccepts(s))
  BY DEF LostIsOpen, Accepts, JavaAccepts
<1>2. Plain \in Outcomes /\ ~Violates(Plain) /\ Plain.status = "none"
  BY DEF Plain, Outcomes, Violates
<1>3. CASE Accepts(s)
  <2>1. t \in Finish(s, Plain)
    BY Zenon, <1>3 DEF Found, Accepts
  <2>2. t \in {FinishedIf(s, u) : u \in Write(s, Ending(Plain))}
    BY Zenon, <1>2, <1>3, <2>1 DEF Finish
  <2>3. t \in Sessions /\ ~t.lost /\ t.lifecycle \in {"active", "session-finished"}
    BY Zenon, <1>1, <1>2, <1>3, <2>2, PlainFinishOpen
  <2>4. t \in JavaFinish(s, Plain)
    BY Zenon, <1>1, <1>2, <1>3, <2>2, SamePlainFinish
  <2> QED
    BY <1>1, <1>3, <2>3, <2>4 DEF LostIsOpen
<1>4. CASE ~Accepts(s)
  BY Zenon, <1>1, <1>4 DEF Found, Accepts
<1> QED
  BY <1>3, <1>4

\* The end of finishRun, with the session finished.
LEMMA RunEnds ==
  ASSUME NEW t \in Sessions, t.lifecycle = "session-finished", ~t.lost, NEW r,
         r \in {IF Written(t, u) THEN [u EXCEPT !.lifecycle = "run-finished"] ELSE u : u \in Write(t, Typed("run.finished"))}
  PROVE  LostIsOpen(r) /\ r \in CloseRun(t)
<1>1. PICK u \in Write(t, Typed("run.finished")) : r = IF Written(t, u) THEN Ended(u, "run-finished") ELSE u
  BY Zenon DEF Ended
<1>2. u \in Sessions /\ u.lifecycle = "session-finished" /\ ~u.lost
  <2>1. Typed("run.finished") \in Event
    BY EventsAreEvents DEF EventTypes
  <2> QED
    BY <2>1, WriteTypes
<1>3. LostIsOpen(r)
  BY Zenon, <1>1, <1>2 DEF LostIsOpen, Sessions, Ended
<1>4. PICK a \in JavaWrite(t, Typed("run.finished")) : a.session = u /\ (a.result = "written" <=> Written(t, u))
  BY SameWrites
<1>5. r = IF a.result = "written" THEN Ended(a.session, "run-finished") ELSE a.session
  BY Zenon, <1>1, <1>4
<1>6. r \in CloseRun(t)
  BY Zenon, <1>5 DEF CloseRun
<1> QED
  BY <1>3, <1>6

\* finishRun.
LEMMA SameFinishRuns ==
  ASSUME NEW s, LostIsOpen(s), NEW r \in FinishRun(s)
  PROVE  LostIsOpen(r) /\ r \in JavaFinishRun(s)
<1>1. PICK t \in Found(s) :
        r \in IF t.lifecycle # "session-finished" THEN {IF s.lifecycle = "active" /\ ~s.lost THEN t ELSE Refuse(t)}
              ELSE {IF Written(t, u) THEN [u EXCEPT !.lifecycle = "run-finished"] ELSE u : u \in Write(t, Typed("run.finished"))}
  BY Zenon DEF FinishRun, Found
<1>2. /\ LostIsOpen(t) /\ t \in Sessions
      /\ JavaAccepts(s) => t \in JavaFinish(s, Plain) /\ ~t.lost /\ t.lifecycle \in {"active", "session-finished"}
      /\ ~JavaAccepts(s) => t = s
  BY Zenon, FoundIs DEF LostIsOpen
<1>3. CASE t.lifecycle = "session-finished"
  <2>1. ~t.lost
    BY Zenon, <1>2, <1>3 DEF LostIsOpen
  <2>2. LostIsOpen(r) /\ r \in CloseRun(t)
    BY Zenon, <1>1, <1>2, <1>3, <2>1, RunEnds
  <2>3. r \in JavaFinishRun(s)
    <3>1. CASE JavaAccepts(s)
      BY Zenon, <1>2, <1>3, <2>2, <3>1 DEF JavaFinishRun, JavaAccepts
    <3>2. CASE ~JavaAccepts(s)
      BY Zenon, <1>2, <1>3, <2>1, <2>2, <3>2 DEF JavaFinishRun, JavaAccepts
    <3> QED
      BY <3>1, <3>2
  <2> QED
    BY <2>2, <2>3
<1>4. CASE t.lifecycle # "session-finished"
  <2>1. CASE JavaAccepts(s)
    <3>1. r = t
      BY Zenon, <1>1, <1>4, <2>1 DEF JavaAccepts
    <3> QED
      BY Zenon, <1>2, <1>4, <2>1, <3>1 DEF JavaFinishRun, JavaAccepts
  <2>2. CASE ~JavaAccepts(s)
    <3>1. r = Refuse(s) /\ t = s
      BY Zenon, <1>1, <1>2, <1>4, <2>2 DEF JavaAccepts
    <3>2. LostIsOpen(r)
      BY Zenon, <3>1, RefuseOpen
    <3>3. r \in JavaFinishRun(s)
      BY Zenon, <1>4, <2>2, <3>1 DEF JavaFinishRun, JavaAccepts, CloseRun
    <3> QED
      BY <3>2, <3>3
  <2> QED
    BY <2>1, <2>2
<1> QED
  BY <1>3, <1>4

\* close.
LEMMA SameCloses ==
  ASSUME NEW s, LostIsOpen(s), NEW r \in Close(s)
  PROVE  LostIsOpen(r) /\ r \in JavaClose(s)
<1>1. PICK t \in Found(s) : r = Ended(t, "closed")
  BY Zenon DEF Close, Found, Ended
<1>2. LostIsOpen(t) /\ (JavaAccepts(s) => t \in JavaFinish(s, Plain)) /\ (~JavaAccepts(s) => t = s)
  BY Zenon, FoundIs
<1>3. LostIsOpen(r)
  BY Zenon, <1>1, <1>2 DEF LostIsOpen, Ended, Sessions
<1>4. r \in JavaClose(s)
  BY Zenon, <1>1, <1>2 DEF JavaClose
<1> QED
  BY <1>3, <1>4

\* Every call of the TypeScript SDK keeps what agreement rests on, and the Java
\* SDK has a call that leaves the same session.
Agrees(t) == t # session => t \in JavaSteps(session) \cup {Refuse(session)}

\* So call by call.
LEMMA CallsAgree ==
  ASSUME LostIsOpen(session), [Next]_vars
  PROVE  LostIsOpen(session)' /\ Agrees(session')
<1> DEFINE Good(t) == LostIsOpen(t) /\ Agrees(t)
<1>0. session \in Sessions
  BY DEF LostIsOpen
<1>1. Good(session) /\ Good(Refuse(session))
  BY Zenon, RefuseOpen DEF Agrees
<1>2. /\ \A t \in JavaFinishRun(session) \cup JavaClose(session) \cup JavaEmit(session, Typed("event")) : t \in JavaSteps(session)
      /\ \A a \in Attachments : \A t \in JavaEmit(session, Announced(a)) : t \in JavaSteps(session)
      /\ \A o \in Outcomes : ~Violates(o) => \A t \in JavaFinish(session, o) : t \in JavaSteps(session)
  BY Zenon DEF JavaSteps
<1>3. \A t \in Emit(session, Typed("event")) : Good(t)
  <2>1. Typed("event") \in Event
    BY EventsAreEvents DEF EventTypes
  <2> QED
    BY Zenon, <1>0, <1>2, <2>1, EmitOpen, SameEmits DEF Agrees
<1>4. \A a \in Attachments : \A t \in Emit(session, Announced(a)) : Good(t)
  <2>1. \A a \in Attachments : Announced(a) \in Event
    BY EventsAreEvents
  <2> QED
    BY Zenon, <1>0, <1>2, <2>1, EmitOpen, SameEmits DEF Agrees
<1>5. \A o \in Outcomes : \A t \in Finish(session, o) : Good(t)
  BY Zenon, <1>0, <1>2, FinishOpen, SameFinishes DEF Agrees
<1>6. \A t \in FinishRun(session) \cup Close(session) : Good(t)
  BY Zenon, <1>2, SameFinishRuns, SameCloses DEF Agrees
<1> HIDE DEF Good
<1>7. ASSUME EmitCall PROVE Good(session')
  BY Zenon, <1>3, <1>7 DEF EmitCall
<1>8. ASSUME FinishRunCall PROVE Good(session')
  BY Zenon, <1>6, <1>8 DEF FinishRunCall
<1>9. ASSUME CloseCall PROVE Good(session')
  BY Zenon, <1>6, <1>9 DEF CloseCall
<1>10. ASSUME NEW a \in Attachments, AttachCall(a) \/ StreamCall(a) \/ StreamEnd(a) PROVE Good(session')
  BY Zenon, <1>1, <1>4, <1>10 DEF AttachCall, StreamCall, StreamEnd
<1>11. ASSUME NEW o \in Outcomes, FinishCall(o) PROVE Good(session')
  BY Zenon, <1>5, <1>11 DEF FinishCall
<1>12. ASSUME UNCHANGED vars PROVE Good(session')
  BY Zenon, <1>1, <1>12 DEF vars
<1>13. Good(session')
  BY Zenon, <1>7, <1>8, <1>9, <1>10, <1>11, <1>12 DEF Next
<1> QED
  BY <1>13 DEF Good

\* packages/equivalence: whatever the sink does and however many calls were made,
\* the Java SDK can do what the TypeScript SDK did.
THEOREM SDKsAgree == Spec => ProducersAgree
<1>1. Init => LostIsOpen(session)
  <2> SUFFICES ASSUME Init PROVE LostIsOpen(session)
    OBVIOUS
  <2> DEFINE e == [Typed("session.started") EXCEPT !.runner = "r"]
  <2>1. e \in Event
    <3>1. Typed("session.started") \in Event
      BY EventsAreEvents DEF EventTypes
    <3> QED
      BY <3>1 DEF Event
  <2>2. LostIsOpen(NewSession)
    <3>1. <<>> \in Seq(Event)
      OBVIOUS
    <3> QED
      BY <3>1 DEF LostIsOpen, NewSession, Sessions
  <2>3. session \in Emit(NewSession, e)
    BY DEF Init, Start
  <2> HIDE DEF e
  <2> QED
    BY <2>1, <2>2, <2>3, EmitOpen
<1>2. LostIsOpen(session) /\ [Next]_vars => LostIsOpen(session)'
  BY CallsAgree
<1>3. LostIsOpen(session) /\ [Next]_vars => [session' # session => session' \in JavaSteps(session) \cup {Refuse(session)}]_vars
  BY CallsAgree DEF Agrees
<1> QED
  BY <1>1, <1>2, <1>3, PTL DEF Spec, ProducersAgree
============================================================================
