--------------------------- MODULE ReportSession ---------------------------
(***************************************************************************)
(* ReportSession and FileSink (packages/sdk): one session of a run, written *)
(* event by event to its file by any sequence of a producer's calls.        *)
(* JavaScript runs each call to its end, except that attachFile gives way   *)
(* while it streams; the Java SDK gives way in every attach.                *)
(***************************************************************************)
EXTENDS JavaSession

CONSTANTS
  Attachments,   \* contents that may be attached
  StoreOutcomes, \* how FileSink.storeAttachment may end
  MaxCalls       \* bound: calls of a producer

ASSUME StoreCases == StoreOutcomes \subseteq {"ok", "refused", "short"}
ASSUME CallBound  == MaxCalls \in Nat

VARIABLES
  session,   \* the ReportSession and its event file
  stored,    \* stored[a]: what is published under a's hash
  streams,   \* attachFile calls that have begun and not ended
  calls,     \* calls made so far
  supplied   \* history: the first status the session accepted, or "none"

vars == <<session, stored, streams, calls, supplied>>

Init ==
  /\ session \in Start("r")
  /\ stored = [a \in Attachments |-> "nothing"]
  /\ streams = {} /\ calls = 0 /\ supplied = "none"

Called == calls < MaxCalls /\ calls' = calls + 1

Announced(a) == [Typed("attachment.added") EXCEPT !.hash = a]

EmitCall ==
  /\ Called
  /\ session' \in Emit(session, Typed("event"))
  /\ UNCHANGED <<stored, streams, supplied>>

\* attach and attachFileSync: the bytes are stored, or too large, or refused by
\* the filesystem, and announced when they are stored.  A short write is not
\* noticed.  A rename that is refused accepts a file of the same size.
AttachCall(a) ==
  /\ Called
  /\ \/ ~Accepts(session) /\ session' = Refuse(session) /\ UNCHANGED stored
     \/ Accepts(session) /\ UNCHANGED <<session, stored>>
     \/ /\ Accepts(session)
        /\ \/ "ok" \in StoreOutcomes /\ stored' = [stored EXCEPT ![a] = "whole"]
           \/ "short" \in StoreOutcomes /\ stored' = [stored EXCEPT ![a] = "short"]
           \/ "refused" \in StoreOutcomes /\ stored[a] = "whole" /\ UNCHANGED stored
        /\ session' \in Emit(session, Announced(a))
  /\ UNCHANGED <<streams, supplied>>

\* attachFile of a file that is streamed, up to its await.
StreamCall(a) ==
  /\ Called
  /\ IF Accepts(session)
       THEN streams' = streams \cup {a} /\ UNCHANGED session
       ELSE session' = Refuse(session) /\ UNCHANGED streams
  /\ UNCHANGED <<stored, supplied>>

\* A slip: the attachment is announced when it could not be stored.
StreamEndAnnouncing(a) ==
  /\ a \in streams
  /\ streams' = streams \ {a}
  /\ session' \in Emit(session, Announced(a))
  /\ UNCHANGED <<stored, calls, supplied>>

\* storeAttachmentStream ends; the session may have finished or closed meanwhile.
StreamEnd(a) ==
  /\ a \in streams
  /\ streams' = streams \ {a}
  /\ \/ UNCHANGED <<session, stored>>
     \/ /\ stored' = [stored EXCEPT ![a] = "whole"]
        /\ session' \in Emit(session, Announced(a))
  /\ UNCHANGED <<calls, supplied>>

FinishCall(o) ==
  /\ Called
  /\ session' \in Finish(session, o)
  /\ supplied' = IF Accepts(session) /\ ~Violates(o) THEN o.status ELSE supplied
  /\ UNCHANGED <<stored, streams>>

FinishRunCall ==
  /\ Called
  /\ session' \in FinishRun(session)
  /\ UNCHANGED <<stored, streams, supplied>>

CloseCall ==
  /\ Called
  /\ session.lifecycle # "closed"
  /\ session' \in Close(session)
  /\ UNCHANGED <<stored, streams, supplied>>

Next ==
  \/ EmitCall \/ FinishRunCall \/ CloseCall
  \/ \E a \in Attachments : AttachCall(a) \/ StreamCall(a) \/ StreamEnd(a)
  \/ \E o \in Outcomes : FinishCall(o)

Spec == Init /\ [][Next]_vars

-----------------------------------------------------------------------------
(* Properties. *)

At(k) == session.file[k]

\* write: whatever was dropped, refused or too large, the sequence numbers in
\* the file are 1, 2, 3, ... and the summary counts exactly what is there.
SequencesAreDense ==
  /\ \A k \in DOMAIN session.file : At(k).sequence = k
  /\ session.sequence = Len(session.file) /\ session.written = Len(session.file)

\* finish, finishRun and close: session.finished is followed by run.finished or
\* nothing, and run.finished by nothing.
TerminalEventsLast ==
  /\ \A k \in DOMAIN session.file : At(k).type = "session.finished" =>
       \A j \in DOMAIN session.file : j > k => At(j).type = "run.finished"
  /\ \A k \in DOMAIN session.file : At(k).type = "run.finished" =>
       k = Len(session.file) /\ k > 1 /\ At(k - 1).type = "session.finished"

\* finish: a status the runner supplied is in the file or no session.finished
\* is; no later call ends the session without it.
OutcomeNeverReplaced ==
  supplied # "none" =>
    \A k \in DOMAIN session.file : At(k).type = "session.finished" => At(k).status = supplied

\* finish: when the outcome could not be written, "no session.finished is
\* emitted and the session stays open".
LostOutcomeStaysOpen ==
  session.lost => \A k \in DOMAIN session.file : At(k).type # "session.finished"

\* attach and attachFile: every announced attachment is published whole under
\* its hash ("Publishes a fully written temporary file under its hash").
AnnouncedBytesArePublished ==
  \A k \in DOMAIN session.file :
    At(k).type = "attachment.added" => stored[At(k).hash] = "whole"

\* Whatever was dropped or refused on the way, the file is one the
\* validator can read: numbered without a gap, nothing behind the end, and every
\* attachment it announces in place.
FileIsOrderly == SequencesAreDense /\ TerminalEventsLast /\ AnnouncedBytesArePublished

\* finish: an outcome is the one the runner supplied, or there is none.
OutcomeIsHonest == OutcomeNeverReplaced /\ LostOutcomeStaysOpen

\* The sessions one call of the Java SDK can leave.
JavaSteps(s) ==
  UNION ({JavaFinishRun(s), JavaClose(s), JavaEmit(s, Typed("event"))}
         \cup {JavaEmit(s, Announced(a)) : a \in Attachments}
         \cup {JavaFinish(s, o) : o \in {p \in Outcomes : ~Violates(p)}})

\* packages/equivalence: whatever a producer has done so far, what its next call
\* does to the session of the TypeScript SDK, a call does to the Java SDK's: the
\* same events, the same counts, the same willingness to go on.  A payload Java
\* cannot even construct is refused.
ProducersAgree ==
  [][session' # session => session' \in JavaSteps(session) \cup {Refuse(session)}]_vars
=============================================================================
