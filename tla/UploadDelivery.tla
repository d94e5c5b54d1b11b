--------------------------- MODULE UploadDelivery ---------------------------
(***************************************************************************)
(* One upload of a run directory (packages/http-client) to the service      *)
(* (packages/http-api): the plan, the attempts and their retries, the       *)
(* request each attempt opens, its staged directory and its answer.  An     *)
(* attempt the client gave up on may still be running in the service.       *)
(*                                                                         *)
(* The archive is the promise ArchiveContract states: one run per identity, *)
(* recognised when it is offered again.                                     *)
(***************************************************************************)
EXTENDS Integers, Sequences, FiniteSets

CONSTANTS
  Files,           \* number of files in the run directory
  MaxAttempts,     \* RetryPolicy.maxAttempts
  StagingFaults,   \* what may go wrong with a request directory
  None             \* no run

ASSUME SomeFiles == Files \in Nat \ {0}
ASSUME SomeAttempts == MaxAttempts \in 1 .. 10
\* "refused": the request directory cannot be made; "partial": it is made, one of
\* the two below it is not; "stuck": it cannot be removed.
ASSUME FaultCases == StagingFaults \subseteq {"refused", "partial", "stuck"}

Requests == 1 .. MaxAttempts
Bytes == {"planned", "rewritten"}
Contents == [1 .. Files -> Bytes]
Planned == [f \in 1 .. Files |-> "planned"]
Another == [f \in 1 .. Files |-> "foreign"]

\* PROBLEMS, and the two successes: the status each answer carries.
Status ==
  [inserted |-> 201, already_present |-> 200, bad_request |-> 400, unauthorized |-> 401,
   conflict |-> 409, too_large |-> 413, rejected |-> 422, failed |-> 500]

\* RETRIABLE_STATUSES.
RetriableStatuses == {408, 425, 429, 500, 502, 503, 504}

\* How one attempt fails under way; isRetriableError knows the first two.
Errors == {"ECONNRESET", "ETIMEDOUT", "EPROTO"}
IsRetriableError(e) == e \in {"ECONNRESET", "ETIMEDOUT"}

\* An answer as it arrives: whole, whole but not a document the client reads (too
\* long, of another type, incomplete), or cut off before its end.
Forms == {"whole", "unreadable", "cut"}

\* successOf: a success is one only when it says so in full.
SuccessOf(a, form) == Status[a] \in {200, 201} /\ form = "whole"

VARIABLES
  dir,       \* dir[f]: the planned file, the same file rewritten, or another in its place
  pc, attempt, file, result, aborted,   \* the client
  phase,     \* phase[n]: where the service is with request n
  sent,      \* sent[n]: the files whose bytes went out in request n
  open,      \* requests whose connection is open
  answer,    \* answer[n]: what the service has to say to request n
  staged,    \* request directories that exist
  revoked,   \* the API key was revoked
  heard,     \* history: the requests whose answer the client has read
  merit,     \* what the service makes of the planned run
  archived,  \* what the archive holds under the run's identity
  ever,      \* history: everything it ever held
  left       \* history: requests whose directory a death or a failed call leaves behind

clientVars == <<pc, attempt, file, result, aborted>>
serverVars == <<phase, answer, staged, left>>
archiveVars == <<archived, ever>>
vars == <<dir, clientVars, serverVars, sent, open, revoked, archiveVars, heard, merit>>

Init ==
  /\ dir = Planned
  /\ pc = "idle" /\ attempt = 0 /\ file = 0 /\ result = "none" /\ aborted = FALSE
  /\ phase = [n \in Requests |-> "none"] /\ answer = [n \in Requests |-> "none"]
  /\ sent = [n \in Requests |-> <<>>]
  /\ open = {} /\ staged = {} /\ left = {} /\ revoked = FALSE
  /\ archived = None /\ ever = {}
  /\ heard = {} /\ merit \in {"accepted", "rejected", "too_large"}

-----------------------------------------------------------------------------
(* The client. *)

Sending == {"open", "stream", "await"}

End(r) == pc' = "done" /\ result' = r /\ open' = open \ {attempt}

\* uploadRunDirectory: the plan is what the directory holds now; it is made once.
Plan ==
  /\ pc = "idle" /\ dir = Planned
  /\ pc' = "begin" /\ attempt' = 1
  /\ UNCHANGED <<dir, heard, merit, file, result, aborted, serverVars, sent, open, revoked, archiveVars>>

\* runUpload: a command that does not say what to send, where, or until when ends
\* before anything is read.
UsageError ==
  /\ pc = "idle"
  /\ End("usage")
  /\ UNCHANGED <<dir, heard, merit, attempt, file, aborted, serverVars, sent, revoked, archiveVars>>

\* deliver, the top of its loop.
Begin ==
  /\ pc = "begin"
  /\ IF aborted
       THEN End("aborted") /\ UNCHANGED <<phase, file>>
       ELSE /\ phase' = [phase EXCEPT ![attempt] = "accept"]
            /\ open' = open \cup {attempt}
            /\ pc' = "open" /\ file' = 1
            /\ UNCHANGED result
  /\ UNCHANGED <<dir, heard, merit, attempt, aborted, answer, staged, left, sent, revoked, archiveVars>>

\* openRegular, with the device and inode of the plan: a link, a directory or
\* another file may have taken the path.
OpenRegular(f) == dir[f] # "replaced"

\* openPlanned: the file is the planned one, or the upload ends.
OpenPlanned ==
  /\ pc = "open"
  /\ IF OpenRegular(file) /\ dir[file] # "rewritten"
       THEN pc' = "stream" /\ UNCHANGED <<result, open>>
       ELSE End("local")
  /\ UNCHANGED <<dir, heard, merit, attempt, file, aborted, serverVars, sent, revoked, archiveVars>>

\* What the descriptor that was opened reads: a file put in its place later is
\* not seen through it.
Read == IF dir[file] = "rewritten" THEN "rewritten" ELSE "planned"

\* A slip: the file is not checked once more after its bytes went out.
StreamUnchecked ==
  /\ pc = "stream"
  /\ sent' = [sent EXCEPT ![attempt] = Append(@, Read)]
  /\ pc' = (IF file = Files THEN "await" ELSE "open") /\ file' = file + 1
  /\ UNCHANGED <<dir, heard, merit, attempt, result, aborted, serverVars, open, revoked, archiveVars>>

\* checkUnchanged and checkAttachmentBytes look at what was opened.
Unchanged == Read = "planned"

\* The bytes go out; the checks come before the separator that would end the part.
Stream ==
  /\ pc = "stream"
  /\ IF Unchanged
       THEN /\ sent' = [sent EXCEPT ![attempt] = Append(@, Read)]
            /\ pc' = (IF file = Files THEN "await" ELSE "open") /\ file' = file + 1
            /\ UNCHANGED <<result, open>>
       ELSE End("local") /\ UNCHANGED <<sent, file>>
  /\ UNCHANGED <<dir, heard, merit, attempt, aborted, serverVars, revoked, archiveVars>>

\* waitBefore, and the end of the loop.
Again ==
  IF attempt = MaxAttempts THEN End("transport")
  ELSE pc' = "sleep" /\ open' = open \ {attempt} /\ UNCHANGED result

\* A slip: the timer covers the sending only.
DropWhileSending ==
  /\ pc \in {"open", "stream"}
  /\ \E e \in Errors : IF IsRetriableError(e) THEN Again ELSE End("transport")
  /\ UNCHANGED <<dir, heard, merit, attempt, file, aborted, serverVars, sent, revoked, archiveVars>>

\* The attempt times out, the connection fails, or fails in a way that is not
\* worth another attempt.
Drop ==
  /\ pc \in Sending
  /\ \E e \in Errors : IF IsRetriableError(e) THEN Again ELSE End("transport")
  /\ UNCHANGED <<dir, heard, merit, attempt, file, aborted, serverVars, sent, revoked, archiveVars>>

\* read: a success, something to try again, or a refusal.
ReadAnswer(a, form) ==
  CASE SuccessOf(a, form) -> End(a)
    [] ~SuccessOf(a, form) /\ Status[a] \in RetriableStatuses \cup {200, 201} -> Again
    [] OTHER -> End(a)

\* An answer arrives; one that is cut off is a connection that was reset.
Hear ==
  /\ pc \in Sending
  /\ attempt \in open /\ phase[attempt] = "answering"
  /\ \E form \in Forms :
       IF form = "cut" THEN Again /\ UNCHANGED heard
       ELSE ReadAnswer(answer[attempt], form) /\ heard' = heard \cup {attempt}
  /\ UNCHANGED <<dir, attempt, file, aborted, serverVars, sent, revoked, archiveVars, merit>>

\* The wait is over.
Wake ==
  /\ pc = "sleep"
  /\ pc' = "begin" /\ attempt' = attempt + 1
  /\ UNCHANGED <<dir, heard, merit, file, result, aborted, serverVars, sent, open, revoked, archiveVars>>

\* The caller's signal, which ends an attempt and a wait.
AbortSignal ==
  /\ pc # "done" /\ ~aborted
  /\ aborted' = TRUE
  /\ IF pc \in Sending \cup {"sleep"} THEN End("aborted") ELSE UNCHANGED <<pc, result, open>>
  /\ UNCHANGED <<dir, heard, merit, attempt, file, serverVars, sent, revoked, archiveVars>>

\* report: the exit code of qe-report-upload for how its upload ended.
ExitCode(r) ==
  CASE r \in {"usage", "local"} -> 2
    [] r \in DOMAIN Status /\ Status[r] >= 400 -> 3
    [] r \in {"transport", "aborted"} -> 4
    [] OTHER -> 0

ClientStep ==
  Begin \/ OpenPlanned \/ Stream \/ Drop \/ Hear \/ Wake

-----------------------------------------------------------------------------
(* The service: ingestUpload for request n. *)

Answered(n, a) == phase' = [phase EXCEPT ![n] = "answering"] /\ answer' = [answer EXCEPT ![n] = a]

\* asProblem: what is not an expected refusal is an internal error.
AsProblem(e) == IF e \in DOMAIN Status THEN e ELSE "failed"

\* authenticate.
Authenticated == ~revoked

\* authenticate, the declared length, and StagedUpload.create: it makes the
\* request directory and then the two below it.
Accept(n) ==
  /\ phase[n] = "accept"
  /\ \/ ~Authenticated /\ Answered(n, "unauthorized") /\ UNCHANGED staged
     \/ Authenticated /\ merit = "too_large" /\ Answered(n, "too_large") /\ UNCHANGED staged
     \/ /\ Authenticated
        /\ staged' = staged \cup {n}
        /\ phase' = [phase EXCEPT ![n] = "receiving"]
        /\ UNCHANGED answer
     \/ \E e \in StagingFaults \ {"stuck"} :
          /\ Authenticated /\ Answered(n, AsProblem(e))
          /\ staged' = IF e = "partial" THEN staged \cup {n} ELSE staged
  /\ left' = IF phase'[n] = "answering" THEN left \cup (staged' \cap {n}) ELSE left
  /\ UNCHANGED <<dir, heard, merit, clientVars, sent, open, revoked, archiveVars>>

Complete(n) == Len(sent[n]) = Files

\* multipartProblem, PartAborted: the body ended before one of its parts did.
MultipartProblem == "bad_request"

\* The limits receive and StagedUpload count against as the parts arrive.
TripsLimit(n) == merit = "too_large" /\ sent[n] # <<>>

\* receive: the whole body, one past a limit, or one that ended early.
Receive(n) ==
  /\ phase[n] = "receiving"
  /\ \/ /\ Complete(n) /\ merit # "too_large"
        /\ phase' = [phase EXCEPT ![n] = "persist"] /\ UNCHANGED answer
     \/ /\ TripsLimit(n) \/ n \notin open
        /\ \E a \in {"too_large", MultipartProblem} :
             /\ IF a = "too_large" THEN TripsLimit(n) ELSE n \notin open
             /\ answer' = [answer EXCEPT ![n] = a]
        /\ phase' = [phase EXCEPT ![n] = "remove"]
  /\ UNCHANGED <<dir, heard, merit, clientVars, staged, left, sent, open, revoked, archiveVars>>

\* A slip: a failed transaction is answered as though it had committed.
PersistSwallowing(n) ==
  /\ phase[n] = "persist"
  /\ answer' = [answer EXCEPT ![n] = "inserted"] /\ UNCHANGED archiveVars
  /\ phase' = [phase EXCEPT ![n] = "remove"]
  /\ UNCHANGED <<dir, heard, merit, clientVars, staged, left, sent, open, revoked>>

\* persistRunDirectory, as the archive promises it: it may also fail, before or
\* after the run is archived.
Persist(n) ==
  /\ phase[n] = "persist"
  /\ \/ /\ merit = "rejected"
        /\ answer' = [answer EXCEPT ![n] = "rejected"] /\ UNCHANGED archiveVars
     \/ /\ merit = "accepted" /\ archived = None
        /\ archived' = sent[n] /\ ever' = ever \cup {sent[n]}
        /\ \E a \in {"inserted", "failed"} : answer' = [answer EXCEPT ![n] = a]
     \/ /\ merit = "accepted" /\ archived # None
        /\ answer' = [answer EXCEPT ![n] = IF archived = sent[n] THEN "already_present" ELSE "conflict"]
        /\ UNCHANGED archiveVars
     \/ answer' = [answer EXCEPT ![n] = "failed"] /\ UNCHANGED archiveVars
  /\ phase' = [phase EXCEPT ![n] = "remove"]
  /\ UNCHANGED <<dir, heard, merit, clientVars, staged, left, sent, open, revoked>>

\* A slip: a failed request leaves without the finally clause.
RemoveOnSuccess(n) ==
  /\ phase[n] = "remove"
  /\ staged' = IF answer[n] = "failed" THEN staged ELSE staged \ {n}
  /\ phase' = [phase EXCEPT ![n] = "answering"]
  /\ UNCHANGED <<dir, heard, merit, clientVars, answer, left, sent, open, revoked, archiveVars>>

\* The finally clause removes the request directory before the answer goes out;
\* a removal that fails takes the place of the answer.
Remove(n) ==
  /\ phase[n] = "remove"
  /\ \/ staged' = staged \ {n} /\ UNCHANGED <<answer, left>>
     \/ /\ "stuck" \in StagingFaults
        /\ answer' = [answer EXCEPT ![n] = AsProblem("stuck")] /\ left' = left \cup {n}
        /\ UNCHANGED staged
  /\ phase' = [phase EXCEPT ![n] = "answering"]
  /\ UNCHANGED <<dir, heard, merit, clientVars, sent, open, revoked, archiveVars>>

Handling == {"accept", "receiving", "persist", "remove", "answering"}

\* The service dies with its requests and starts again.
ServerCrash ==
  /\ \E n \in Requests : phase[n] \in Handling
  /\ phase' = [n \in Requests |-> IF phase[n] \in Handling THEN "over" ELSE phase[n]]
  /\ left' = left \cup {n \in Requests : phase[n] \in Handling}
  /\ UNCHANGED <<dir, heard, merit, clientVars, answer, staged, sent, open, revoked, archiveVars>>

-----------------------------------------------------------------------------
(* Everybody else. *)

\* The producer, or something in its workspace, writes to a file or puts another
\* in its place.
Change(f) ==
  /\ dir[f] = "planned" /\ pc # "idle"
  /\ \E c \in {"rewritten", "replaced"} : dir' = [dir EXCEPT ![f] = c]
  /\ UNCHANGED <<clientVars, heard, merit, serverVars, sent, open, revoked, archiveVars>>

\* Another producer archives another run under the same identity.
Foreign ==
  /\ archived = None
  /\ archived' = Another /\ ever' = ever \cup {Another}
  /\ UNCHANGED <<dir, heard, merit, clientVars, serverVars, sent, open, revoked>>

\* Retention deletes the expired run.
Retire ==
  /\ archived # None
  /\ archived' = None
  /\ UNCHANGED <<dir, heard, merit, clientVars, serverVars, sent, open, revoked, ever>>

Revoke ==
  /\ ~revoked /\ revoked' = TRUE
  /\ UNCHANGED <<dir, heard, merit, clientVars, serverVars, sent, open, archiveVars>>

Next ==
  \/ UsageError \/ Plan \/ ClientStep \/ AbortSignal
  \/ \E n \in Requests : Accept(n) \/ Receive(n) \/ Persist(n) \/ Remove(n)
  \/ ServerCrash
  \/ \E f \in 1 .. Files : Change(f)
  \/ Foreign \/ Retire \/ Revoke

\* The client's own steps happen: an attempt has a timer, and so has a wait.
Spec == Init /\ [][Next]_vars /\ WF_vars(ClientStep)

-----------------------------------------------------------------------------
(* Properties. *)

\* uploadRunDirectory: whatever attempts were lost, repeated or overtaken, a
\* result that says the run is archived is true.
SuccessIsTrue == result \in {"inserted", "already_present"} => Planned \in ever

\* What the exit codes of qe-report-upload are documented to mean (USAGE in
\* cli.ts) is so: 0, the run was archived; 2, the command or the directory was at
\* fault and the directory is not what was planned; 3, the service refused and
\* the client read it; 4, anything else, never a refusal it had read.
ExitCodeTells ==
  pc = "done" =>
    LET refused == attempt \in heard /\ Status[answer[attempt]] \in 400 .. 499 IN
    CASE ExitCode(result) = 0 -> Planned \in ever
      [] ExitCode(result) = 2 -> IF result = "usage" THEN sent = [n \in Requests |-> <<>>] ELSE dir # Planned
      [] ExitCode(result) = 3 -> refused
      [] ExitCode(result) = 4 -> ~refused

\* multipartBody: no attempt ever has half of one run and half of another
\* archived; a directory that changes while it is sent leaves nothing.
OnlyThePlanIsArchived == ever \subseteq {Planned, Another}

\* A conflict means another run has the identity: an upload never conflicts
\* with its own earlier attempt.
ConflictIsForeign == result = "conflict" => Another \in ever

\* ingestUpload removes the request directory before it returns, however the
\* request ended; only a service that died and a directory the file system would
\* not complete or remove leave one.
StagingIsRemoved ==
  staged \subseteq left \cup {n \in Requests : phase[n] \in {"receiving", "persist", "remove"}}

\* RETRIABLE_STATUSES against PROBLEMS: a refusal the client has read is its
\* result, and it asks no further time.
RefusalIsFinal ==
  \A n \in heard : Status[answer[n]] \in 400 .. 499 => n = attempt /\ result = answer[n]

\* What the caller is told is true: an archived run is archived, a conflict is
\* with another run, a refusal that was read is the result, and the exit code
\* says which of these it was.
ResultIsTrue == SuccessIsTrue /\ ConflictIsForeign /\ RefusalIsFinal /\ ExitCodeTells

\* An upload ends: with a bounded number of attempts and bounded waits.
UploadEnds == pc # "idle" ~> pc = "done"
=============================================================================
