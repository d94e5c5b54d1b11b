----------------------- MODULE UploadDeliveryProofs -----------------------
(***************************************************************************)
(* What the client of an upload may rely on, for any number of files and of *)
(* attempts (UploadDelivery), and an operator of the keys that uploads      *)
(* carry, for any number of keys and of pages (ApiKeys).                    *)
(***************************************************************************)
EXTENDS UploadDelivery, ApiKeys, TLAPS

Successes == {"inserted", "already_present"}
Refusals == {"bad_request", "unauthorized", "conflict", "too_large", "rejected"}
Answers == Successes \cup Refusals \cup {"failed"}
Phases == Handling \cup {"none", "over"}

UploadTypeOK ==
  /\ dir \in [1 .. Files -> {"planned", "rewritten", "replaced"}]
  /\ pc \in {"idle", "begin", "sleep", "done"} \cup Sending
  /\ attempt \in 0 .. MaxAttempts /\ file \in Nat
  /\ result \in {"none", "usage", "local", "transport", "aborted"} \cup Answers
  /\ phase \in [Requests -> Phases] /\ answer \in [Requests -> Answers \cup {"none"}]
  /\ sent \in [Requests -> Seq({"planned"})]
  /\ heard \subseteq Requests

\* Where the client is in the plan: what went out in this attempt is the files
\* before the current one, and no later attempt has begun.
ClientIsAt ==
  /\ pc = "idle" <=> attempt = 0 /\ result = "none"
  /\ pc = "done" <=> result # "none"
  /\ result = "usage" => attempt = 0
  /\ pc = "sleep" => attempt < MaxAttempts
  /\ pc \in Sending => Len(sent[attempt]) = file - 1
  /\ pc \in {"open", "stream"} => file \in 1 .. Files
  /\ \A n \in Requests : n > attempt \/ (n = attempt /\ pc = "begin") =>
       sent[n] = <<>> /\ phase[n] = "none"

\* A request is persisted whole, and is answered once it is.
RequestIsAt(n) ==
  /\ Len(sent[n]) <= Files
  /\ phase[n] = "persist" => Complete(n)
  /\ phase[n] \in {"remove", "answering"} => answer[n] # "none"
  /\ answer[n] # "none" => phase[n] \in {"remove", "answering", "over"}

\* The archive holds nothing but what it was given.
ArchiveIsOf == OnlyThePlanIsArchived /\ (archived = None \/ archived \in ever)

\* What the service answers was so when it answered.
AnswerIsTrue(n) ==
  /\ answer[n] \in Successes => Planned \in ever
  /\ answer[n] = "conflict" => Another \in ever

\* What the client heard, it heard in an attempt that had begun; a refusal was
\* the last thing it heard.
HeardIsRead ==
  /\ \A n \in heard : phase[n] \in {"answering", "over"} /\ answer[n] # "none"
  /\ \A n \in heard : answer[n] \in Refusals => n = attempt /\ result = answer[n]
  /\ result \in Answers => attempt \in heard /\ result = answer[attempt] /\ result # "failed"
  /\ result = "local" => dir # Planned

UploadInv ==
  /\ UploadTypeOK /\ ClientIsAt /\ ArchiveIsOf /\ HeardIsRead /\ StagingIsRemoved
  /\ \A n \in Requests : RequestIsAt(n) /\ AnswerIsTrue(n)

\* PROBLEMS: which answers are successes, which refusals, and the one that is
\* worth another attempt.
LEMMA StatusOf ==
  /\ DOMAIN Status = Answers
  /\ \A a \in Successes : Status[a] \in {200, 201}
  /\ \A a \in Refusals : Status[a] \in {400, 401, 409, 413, 422}
  /\ Status["failed"] = 500
BY DEF Status, Answers, Successes, Refusals

\* As many planned files as the plan has are the plan.
LEMMA WholeIsPlanned ==
  ASSUME NEW s \in Seq({"planned"}), Len(s) = Files
  PROVE  s = Planned
BY SomeFiles DEF Planned

\* Nothing has happened yet.
LEMMA UploadInitially == Init => UploadInv
BY SomeFiles, SomeAttempts
   DEF Init, UploadInv, UploadTypeOK, ClientIsAt, ArchiveIsOf, OnlyThePlanIsArchived, HeardIsRead, RefusalIsFinal,
       StagingIsRemoved, RequestIsAt, AnswerIsTrue, Requests, Phases, Handling, Sending, Answers, Successes,
       Refusals, Planned, Complete

\* Every step is one of these.
LEMMA UploadCases ==
  ASSUME [Next]_vars
  PROVE  \/ Plan \/ UsageError \/ Begin \/ OpenPlanned \/ Stream \/ Drop \/ Hear \/ Wake \/ AbortSignal
         \/ \E n \in Requests : Accept(n) \/ Receive(n) \/ Persist(n) \/ Remove(n)
         \/ ServerCrash \/ \E f \in 1 .. Files : Change(f)
         \/ Foreign \/ Retire \/ Revoke \/ UNCHANGED vars
BY DEF Next, ClientStep

\* A file system that refuses is an internal error.
LEMMA FaultIsFailure == \A e \in {"refused", "partial", "stuck"} : AsProblem(e) = "failed"
BY StatusOf DEF AsProblem, Answers, Successes, Refusals

\* While the client sends, its attempt is a request.
LEMMA SendingIsARequest ==
  ASSUME UploadInv, pc \in Sending \cup {"begin", "sleep"}
  PROVE  attempt \in Requests /\ result = "none"
BY SomeAttempts DEF UploadInv, UploadTypeOK, ClientIsAt, Sending, Requests

\* What a client makes of an answer.
LEMMA HearCases ==
  ASSUME UploadInv, Hear
  PROVE  /\ attempt \in Requests /\ answer[attempt] \in Answers /\ pc \in Sending
         /\ phase[attempt] = "answering"
         /\ UNCHANGED <<dir, attempt, file, aborted, phase, answer, staged, left, sent, archived, ever>>
         /\ \/ heard' = heard \cup {attempt} /\ answer[attempt] \in Successes \cup Refusals /\ End(answer[attempt])
            \/ heard' = heard \cup {attempt} /\ answer[attempt] \in Successes \cup {"failed"} /\ Again
            \/ heard' = heard /\ Again
<1>1. pc \in Sending /\ phase[attempt] = "answering"
  BY DEF Hear
<1>2. attempt \in Requests
  BY <1>1, SendingIsARequest
<1>3. answer[attempt] \in Answers
  BY <1>1, <1>2 DEF UploadInv, UploadTypeOK, RequestIsAt
<1>4. UNCHANGED <<dir, attempt, file, aborted, phase, answer, staged, left, sent, archived, ever>>
  BY DEF Hear, serverVars, archiveVars
<1>5. PICK form \in Forms : IF form = "cut" THEN Again /\ UNCHANGED heard
                            ELSE ReadAnswer(answer[attempt], form) /\ heard' = heard \cup {attempt}
  BY DEF Hear
<1>6. CASE form # "cut"
  <2>1. ReadAnswer(answer[attempt], form) /\ heard' = heard \cup {attempt}
    BY <1>5, <1>6
  <2>2. SuccessOf(answer[attempt], form) => answer[attempt] \in Successes /\ End(answer[attempt])
    <3>1. SuccessOf(answer[attempt], form) => answer[attempt] \in Successes
      BY <1>3, StatusOf DEF SuccessOf, Answers
    <3> QED
      BY Zenon, <2>1, <3>1 DEF ReadAnswer
  <2>3. ASSUME ~SuccessOf(answer[attempt], form), answer[attempt] \in Successes \cup {"failed"} PROVE Again
    <3>1. Status[answer[attempt]] \in RetriableStatuses \cup {200, 201}
      BY <2>3, StatusOf DEF RetriableStatuses
    <3> QED
      BY Zenon, <2>1, <2>3, <3>1 DEF ReadAnswer
  <2>4. ASSUME ~SuccessOf(answer[attempt], form), answer[attempt] \in Refusals PROVE End(answer[attempt])
    <3>1. Status[answer[attempt]] \notin RetriableStatuses \cup {200, 201}
      BY <2>4, StatusOf DEF RetriableStatuses
    <3> QED
      BY Zenon, <2>1, <2>4, <3>1 DEF ReadAnswer
  <2> QED
    BY Zenon, <1>1, <1>2, <1>3, <1>4, <2>1, <2>2, <2>3, <2>4 DEF Answers
<1> QED
  BY <1>1, <1>2, <1>3, <1>4, <1>5, <1>6

\* How a request is accepted: it has a directory, or it is answered at once.
LEMMA AcceptCases ==
  ASSUME UploadInv, NEW n \in Requests, Accept(n)
  PROVE  /\ phase[n] = "accept" /\ UNCHANGED <<dir, heard, merit, clientVars, sent, open, revoked, archiveVars>>
         /\ \/ /\ phase' = [phase EXCEPT ![n] = "receiving"] /\ answer' = answer
               /\ staged' = staged \cup {n} /\ left' = left
            \/ /\ \E a \in {"unauthorized", "too_large", "failed"} : Answered(n, a)
               /\ staged' \subseteq staged \cup {n} /\ left' = left \cup (staged' \cap {n})
<1> USE DEF Accept, UploadInv, UploadTypeOK
<1>1. CASE /\ staged' = staged \cup {n} /\ phase' = [phase EXCEPT ![n] = "receiving"]
           /\ UNCHANGED answer
  BY <1>1
<1>2. ASSUME NEW a \in {"unauthorized", "too_large", "failed"}, Answered(n, a), staged' \subseteq staged \cup {n}
      PROVE  left' = left \cup (staged' \cap {n})
  BY <1>2 DEF Answered
<1>3. ASSUME NEW e \in StagingFaults \ {"stuck"}, Answered(n, AsProblem(e)) PROVE Answered(n, "failed")
  BY Zenon, <1>3, FaultCases, FaultIsFailure
<1> QED
  BY Zenon, <1>1, <1>2, <1>3

\* Every variable keeps its type, and only planned bytes go out (checkUnchanged).
LEMMA TypeStays ==
  ASSUME UploadInv, [Next]_vars
  PROVE  UploadTypeOK'
<1> UploadTypeOK /\ ClientIsAt
  BY DEF UploadInv
<1> USE SomeFiles, SomeAttempts DEF UploadTypeOK, clientVars, serverVars, archiveVars, vars
<1>1. CASE Plan
  BY <1>1 DEF Plan
<1>2. CASE UsageError
  BY <1>2 DEF UsageError, End
<1>3. CASE Begin
  <2>1. CASE aborted
    BY <1>3, <2>1 DEF Begin, End
  <2>2. CASE ~aborted
    BY <1>3, <2>2 DEF Begin, Sending, Phases, Handling
  <2> QED
    BY <2>1, <2>2
<1>4. CASE OpenPlanned
  BY <1>4 DEF OpenPlanned, End, Sending
<1>5. CASE Stream
  <2>1. attempt \in Requests
    BY <1>5, SendingIsARequest DEF Stream, Sending
  <2>2. CASE Unchanged
    <3>1. sent' = [sent EXCEPT ![attempt] = Append(sent[attempt], "planned")]
      BY <1>5, <2>2 DEF Stream, Unchanged
    <3>2. Append(sent[attempt], "planned") \in Seq({"planned"})
      BY <2>1
    <3>3. sent' \in [Requests -> Seq({"planned"})]
      BY Zenon, <3>1, <3>2
    <3> QED
      BY <1>5, <2>2, <3>3 DEF Stream, Sending
  <2>3. CASE ~Unchanged
    BY <1>5, <2>3 DEF Stream, End
  <2> QED
    BY <2>2, <2>3
<1>6. CASE Drop
  BY <1>6 DEF Drop, Again, End
<1>7. CASE Hear
  BY <1>7, HearCases DEF Again, End
<1>8. CASE Wake
  BY <1>8 DEF Wake, ClientIsAt
<1>9. CASE AbortSignal
  BY <1>9 DEF AbortSignal, End
<1>10. ASSUME NEW n \in Requests, Accept(n) PROVE UploadTypeOK'
  <2>1. UNCHANGED <<dir, heard, clientVars, sent>>
    BY <1>10, AcceptCases
  <2>2. CASE phase' = [phase EXCEPT ![n] = "receiving"] /\ answer' = answer
    BY <2>1, <2>2 DEF Phases, Handling
  <2>3. ASSUME NEW a \in {"unauthorized", "too_large", "failed"}, Answered(n, a) PROVE UploadTypeOK'
    BY <2>1, <2>3 DEF Answered, Phases, Handling, Answers, Refusals
  <2> HIDE DEF UploadTypeOK, clientVars, archiveVars
  <2> QED
    BY <1>10, <2>2, <2>3, AcceptCases
<1>11. ASSUME NEW n \in Requests, Receive(n) PROVE UploadTypeOK'
  BY ZenonT(60), <1>11 DEF Receive, MultipartProblem, Phases, Handling, Answers, Successes, Refusals
<1>12. ASSUME NEW n \in Requests, Persist(n) PROVE UploadTypeOK'
  BY <1>12 DEF Persist, Phases, Handling, Answers, Successes, Refusals
<1>13. ASSUME NEW n \in Requests, Remove(n) PROVE UploadTypeOK'
  BY ZenonT(60), <1>13, FaultIsFailure DEF Remove, Phases, Handling, Answers, Successes, Refusals
<1>14. CASE ServerCrash
  BY <1>14 DEF ServerCrash, Phases
<1>15. ASSUME NEW f \in 1 .. Files, Change(f) PROVE UploadTypeOK'
  BY <1>15 DEF Change
<1>16. CASE Foreign \/ Retire \/ Revoke \/ UNCHANGED vars
  BY <1>16 DEF Foreign, Retire, Revoke
<1> QED
  BY Zenon, UploadCases, <1>1, <1>2, <1>3, <1>4, <1>5, <1>6, <1>7, <1>8, <1>9, <1>10, <1>11, <1>12, <1>13, <1>14, <1>15, <1>16

\* A step that leaves these alone leaves what was archived, and said of it, alone.
Untouched == UNCHANGED <<phase, answer, staged, left, archived, ever>>

\* Most steps are not the service's.
LEMMA ServiceCases ==
  ASSUME [Next]_vars
  PROVE  \/ Untouched \/ Begin \/ ServerCrash \/ Foreign \/ Retire
         \/ \E n \in Requests : Accept(n) \/ Receive(n) \/ Persist(n) \/ Remove(n)
<1> USE DEF Untouched, serverVars, archiveVars, vars
<1>1. Plan \/ UsageError \/ OpenPlanned \/ Stream \/ Drop => Untouched
  BY DEF Plan, UsageError, OpenPlanned, Stream, Drop
<1>2. Hear \/ Wake \/ AbortSignal \/ Revoke \/ (\E f \in 1 .. Files : Change(f)) => Untouched
  BY DEF Hear, Wake, AbortSignal, Revoke, Change
<1> QED
  BY Zenon, <1>1, <1>2, UploadCases

\* Only a whole run is archived, and what is said of it stays true.
LEMMA ArchiveStays ==
  ASSUME UploadInv, [Next]_vars
  PROVE  ArchiveIsOf' /\ \A n \in Requests : AnswerIsTrue(n)'
<1> /\ UploadTypeOK /\ ArchiveIsOf
    /\ \A n \in Requests : RequestIsAt(n) /\ AnswerIsTrue(n)
  BY DEF UploadInv
<1> USE DEF UploadTypeOK, ArchiveIsOf, OnlyThePlanIsArchived, AnswerIsTrue, clientVars, serverVars, archiveVars
<1>1. CASE Untouched \/ Begin \/ ServerCrash
  BY <1>1 DEF Untouched, Begin, ServerCrash
<1>2. CASE Foreign \/ Retire
  BY <1>2 DEF Foreign, Retire
<1>3. ASSUME NEW n \in Requests, Accept(n) PROVE ArchiveIsOf' /\ \A m \in Requests : AnswerIsTrue(m)'
  <2>1. UNCHANGED archiveVars
    BY <1>3 DEF Accept
  <2>2. \A m \in Requests : answer'[m] = answer[m] \/ answer'[m] \in {"unauthorized", "too_large", "failed"}
    BY SMTT(60), <1>3, AcceptCases DEF Answered
  <2> QED
    BY Zenon, <2>1, <2>2 DEF Successes
<1>4. ASSUME NEW n \in Requests, Receive(n) PROVE ArchiveIsOf' /\ \A m \in Requests : AnswerIsTrue(m)'
  BY <1>4 DEF Receive, MultipartProblem, Successes
<1>5. ASSUME NEW n \in Requests, Persist(n) PROVE ArchiveIsOf' /\ \A m \in Requests : AnswerIsTrue(m)'
  <2>1. sent[n] = Planned
    BY <1>5, WholeIsPlanned DEF Persist, RequestIsAt, Complete
  <2> QED
    BY <1>5, <2>1 DEF Persist, Successes
<1>6. ASSUME NEW n \in Requests, Remove(n) PROVE ArchiveIsOf' /\ \A m \in Requests : AnswerIsTrue(m)'
  BY <1>6, FaultIsFailure DEF Remove, Successes
<1> QED
  BY <1>1, <1>2, <1>3, <1>4, <1>5, <1>6, ServiceCases

\* A directory that is made is removed, or someone has said why not.
LEMMA StagingStays ==
  ASSUME UploadInv, [Next]_vars
  PROVE  StagingIsRemoved'
<1> UploadTypeOK /\ StagingIsRemoved
  BY DEF UploadInv
<1> USE DEF UploadTypeOK, StagingIsRemoved, clientVars, serverVars, archiveVars
<1>1. CASE Untouched \/ Foreign \/ Retire
  BY <1>1 DEF Untouched, Foreign, Retire
<1>2. CASE Begin
  <2>1. staged' = staged /\ left' = left /\ \A n \in Requests : phase'[n] = phase[n] \/ n = attempt
    BY <1>2 DEF Begin
  <2>2. attempt \in Requests /\ phase[attempt] = "none"
    BY <1>2, SendingIsARequest DEF UploadInv, ClientIsAt, Begin
  <2> QED
    BY Zenon, <2>1, <2>2
<1>3. CASE ServerCrash
  BY <1>3 DEF ServerCrash, Handling
<1>4. ASSUME NEW n \in Requests, Accept(n) PROVE StagingIsRemoved'
  BY <1>4, AcceptCases DEF Answered
<1>5. ASSUME NEW n \in Requests, Receive(n) PROVE StagingIsRemoved'
  BY Zenon, <1>5 DEF Receive
<1>6. ASSUME NEW n \in Requests, Persist(n) PROVE StagingIsRemoved'
  BY <1>6 DEF Persist
<1>7. ASSUME NEW n \in Requests, Remove(n) PROVE StagingIsRemoved'
  BY SMTT(60), <1>7 DEF Remove
<1> QED
  BY <1>1, <1>2, <1>3, <1>4, <1>5, <1>6, <1>7, ServiceCases

\* What a step of the service does to the requests: it answers one it is
\* handling, or gives up those.
LEMMA ServiceSteps ==
  ASSUME UploadInv, NEW n \in Requests, Accept(n) \/ Receive(n) \/ Persist(n) \/ Remove(n)
  PROVE  /\ UNCHANGED <<dir, heard, clientVars, sent>>
         /\ phase[n] \in {"accept", "receiving", "persist", "remove"}
         /\ phase'[n] \in {"receiving", "persist", "remove", "answering"}
         /\ phase'[n] = "persist" => Complete(n) /\ answer'[n] = answer[n] /\ phase[n] = "receiving"
         /\ phase'[n] = "receiving" => answer'[n] = answer[n] /\ phase[n] = "accept"
         /\ phase'[n] \in {"remove", "answering"} => answer'[n] # "none"
         /\ \A m \in Requests \ {n} : phase'[m] = phase[m] /\ answer'[m] = answer[m]
<1> UploadTypeOK /\ RequestIsAt(n)
  BY DEF UploadInv
<1> USE DEF UploadTypeOK, RequestIsAt, clientVars
<1>1. CASE Accept(n)
  BY SMTT(60), <1>1, AcceptCases DEF Answered
<1>2. CASE Receive(n)
  BY <1>2 DEF Receive, MultipartProblem
<1>3. CASE Persist(n)
  BY <1>3 DEF Persist
<1>4. CASE Remove(n)
  BY SMTT(60), <1>4, FaultIsFailure DEF Remove
<1> QED
  BY <1>1, <1>2, <1>3, <1>4

\* A body only grows while its request is open, and a request moves only on.
LEMMA RequestsStay ==
  ASSUME UploadInv, [Next]_vars
  PROVE  \A m \in Requests : RequestIsAt(m)'
<1> UploadTypeOK /\ ClientIsAt /\ \A n \in Requests : RequestIsAt(n)
  BY DEF UploadInv
<1> USE SomeFiles DEF UploadTypeOK, RequestIsAt, Complete, clientVars, serverVars, archiveVars, vars
<1>1. CASE Begin
  BY <1>1, SendingIsARequest DEF Begin, ClientIsAt
<1>2. CASE Stream
  <2>1. attempt \in Requests /\ Len(sent[attempt]) < Files
    BY <1>2, SendingIsARequest DEF Stream, ClientIsAt, Sending
  <2>2. UNCHANGED <<phase, answer>> /\ \A m \in Requests \ {attempt} : sent'[m] = sent[m]
    BY <1>2 DEF Stream
  <2>3. Len(sent'[attempt]) <= Len(sent[attempt]) + 1
    BY <1>2, <2>1 DEF Stream
  <2> QED
    BY <2>1, <2>2, <2>3, TypeStays
<1>3. CASE ServerCrash
  BY <1>3 DEF ServerCrash, Handling
<1>4. ASSUME NEW n \in Requests, Accept(n) \/ Receive(n) \/ Persist(n) \/ Remove(n)
      PROVE  \A m \in Requests : RequestIsAt(m)'
  BY ZenonT(60), <1>4, ServiceSteps
<1>5. CASE UNCHANGED <<phase, answer, sent>>
  BY <1>5
<1>6. Plan \/ UsageError \/ OpenPlanned \/ Drop \/ Hear \/ Wake \/ AbortSignal \/ Foreign \/ Retire \/ Revoke
      \/ (\E f \in 1 .. Files : Change(f)) \/ UNCHANGED vars => UNCHANGED <<phase, answer, sent>>
  BY DEF Plan, UsageError, OpenPlanned, Drop, Hear, Wake, AbortSignal, Foreign, Retire, Revoke, Change
<1> QED
  BY <1>1, <1>2, <1>3, <1>4, <1>5, <1>6, UploadCases

\* The client keeps to its plan.
LEMMA ClientStays ==
  ASSUME UploadInv, [Next]_vars
  PROVE  ClientIsAt'
<1> USE DEF clientVars, serverVars, archiveVars, vars
<1>1. UploadTypeOK /\ ClientIsAt
  BY DEF UploadInv
<1>2. CASE Plan \/ UsageError
  BY SMTT(60), <1>1, <1>2, SomeFiles, SomeAttempts DEF Plan, UsageError, End, Sending, UploadTypeOK, ClientIsAt, Requests
<1>3. ASSUME attempt \in Requests, NEW r \in Answers \cup {"transport", "aborted", "local"}, End(r),
             UNCHANGED <<attempt, sent, phase>>
      PROVE  ClientIsAt'
  BY <1>1, <1>3, SomeAttempts DEF End, Sending, Answers, Successes, Refusals, ClientIsAt, Requests
<1>4. ASSUME attempt \in Requests, result = "none", Again, pc \in Sending, UNCHANGED <<attempt, sent, phase>>
      PROVE  ClientIsAt'
  <2>1. CASE attempt = MaxAttempts
    BY <1>3, <1>4, <2>1 DEF Again
  <2>2. CASE attempt # MaxAttempts
    BY <1>1, <1>4, <2>2, SomeAttempts DEF Again, Sending, ClientIsAt, Requests
  <2> QED
    BY <2>1, <2>2
<1>5. CASE Begin
  <2>1. attempt \in Requests /\ result = "none" /\ pc = "begin"
    BY <1>5, SendingIsARequest DEF Begin
  <2>2. CASE aborted
    BY <1>3, <1>5, <2>1, <2>2 DEF Begin
  <2>3. CASE ~aborted
    <3>1. /\ attempt' = attempt /\ result' = result /\ sent' = sent /\ pc' = "open" /\ file' = 1
          /\ \A m \in Requests \ {attempt} : phase'[m] = phase[m]
      BY <1>1, <1>5, <2>3 DEF Begin, UploadTypeOK
    <3> QED
      BY <1>1, <2>1, <3>1, SomeFiles, SomeAttempts DEF Sending, ClientIsAt, Requests
  <2> QED
    BY <2>2, <2>3
<1>6. CASE OpenPlanned
  <2>1. attempt \in Requests /\ result = "none" /\ pc = "open"
    BY <1>6, SendingIsARequest DEF OpenPlanned, Sending
  <2>2. CASE End("local")
    BY <1>3, <1>6, <2>1, <2>2 DEF OpenPlanned
  <2>3. CASE pc' = "stream" /\ UNCHANGED <<result, open>>
    BY <1>1, <1>6, <2>1, <2>3 DEF OpenPlanned, Sending, ClientIsAt
  <2> QED
    BY <1>6, <2>2, <2>3 DEF OpenPlanned
<1>7. CASE Stream
  <2>1. attempt \in Requests /\ result = "none" /\ pc = "stream"
    BY <1>7, SendingIsARequest DEF Stream, Sending
  <2>2. CASE ~Unchanged
    BY <1>3, <1>7, <2>1, <2>2 DEF Stream
  <2>3. CASE Unchanged
    <3>1. /\ UNCHANGED <<attempt, result, phase>> /\ file' = file + 1
          /\ pc' = (IF file = Files THEN "await" ELSE "open")
          /\ sent' = [sent EXCEPT ![attempt] = Append(@, Read)]
      BY <1>7, <2>3 DEF Stream
    <3>2. /\ Len(sent'[attempt]) = Len(sent[attempt]) + 1
          /\ \A m \in Requests \ {attempt} : sent'[m] = sent[m]
      BY <1>1, <2>1, <2>3, <3>1 DEF UploadTypeOK, Unchanged
    <3>3. /\ file \in 1 .. Files /\ Len(sent[attempt]) = file - 1 /\ attempt # 0
          /\ \A m \in Requests : m > attempt => m # attempt
      BY <1>1, <2>1, SomeAttempts DEF ClientIsAt, Sending, Requests
    <3>4. pc' \in {"open", "await"} /\ file' - 1 = Len(sent'[attempt]) /\ (pc' = "open" => file' \in 1 .. Files)
      BY <3>1, <3>2, <3>3, SomeFiles
    <3> QED
      BY <1>1, <2>1, <3>1, <3>2, <3>3, <3>4 DEF Sending, ClientIsAt
  <2> QED
    BY <2>2, <2>3
<1>8. CASE Drop
  <2>1. pc \in Sending /\ UNCHANGED <<attempt, sent, phase>> /\ (Again \/ End("transport"))
    BY <1>8 DEF Drop
  <2> QED
    BY <1>3, <1>4, <2>1, SendingIsARequest
<1>9. CASE Hear
  BY <1>3, <1>4, <1>9, HearCases, SendingIsARequest
<1>10. CASE Wake
  BY SMTT(60), <1>1, <1>10, SomeAttempts DEF Wake, Sending, UploadTypeOK, ClientIsAt, Requests
<1>11. CASE AbortSignal
  BY <1>1, <1>3, <1>11, SendingIsARequest DEF AbortSignal, Sending, ClientIsAt
<1>12. ASSUME NEW n \in Requests, Accept(n) \/ Receive(n) \/ Persist(n) \/ Remove(n)
       PROVE  ClientIsAt'
  <2>1. /\ UNCHANGED <<clientVars, sent>> /\ phase[n] # "none"
        /\ \A m \in Requests \ {n} : phase'[m] = phase[m]
    BY <1>12, ServiceSteps
  <2> QED
    BY SMTT(60), <1>1, <2>1 DEF ClientIsAt
<1>13. CASE ServerCrash
  BY SMTT(60), <1>1, <1>13 DEF ServerCrash, Handling, ClientIsAt
<1>14. Foreign \/ Retire \/ Revoke \/ (\E f \in 1 .. Files : Change(f)) \/ UNCHANGED vars => ClientIsAt'
  BY <1>1 DEF Foreign, Retire, Revoke, Change, ClientIsAt
<1> QED
  BY <1>2, <1>5, <1>6, <1>7, <1>8, <1>9, <1>10, <1>11, <1>12, <1>13, <1>14, UploadCases

\* What was read stays so, and nothing follows a refusal.
LEMMA HeardStays ==
  ASSUME UploadInv, [Next]_vars
  PROVE  HeardIsRead'
<1> USE DEF clientVars, serverVars, archiveVars, vars
<1>1. UploadTypeOK /\ ClientIsAt /\ HeardIsRead
  BY DEF UploadInv
<1>2. ASSUME NEW r \in {"none", "usage", "transport", "aborted"}, result' = r, result = "none", dir' = dir,
             heard' = heard, \A n \in heard : phase'[n] \in {"answering", "over"} /\ answer'[n] = answer[n]
      PROVE  HeardIsRead'
  BY ZenonT(30), <1>1, <1>2 DEF HeardIsRead, Answers, Successes, Refusals
<1>3. CASE Plan \/ UsageError
  BY Zenon, <1>1, <1>2, <1>3 DEF Plan, UsageError, End, ClientIsAt, HeardIsRead
<1>4. CASE Begin
  <2>1. attempt \in Requests /\ attempt \notin heard /\ result = "none"
    BY <1>1, <1>4, SendingIsARequest DEF Begin, ClientIsAt, HeardIsRead, UploadTypeOK
  <2>2. UNCHANGED <<attempt, answer, heard, dir>> /\ \A m \in Requests \ {attempt} : phase'[m] = phase[m]
    BY <1>1, <1>4 DEF Begin, UploadTypeOK
  <2>3. result' \in {"none", "aborted"}
    BY <1>4, <2>1 DEF Begin, End
  <2> QED
    BY <1>1, <1>2, <2>1, <2>2, <2>3 DEF HeardIsRead, UploadTypeOK
<1>5. CASE OpenPlanned \/ Stream
  <2>1. /\ result = "none" /\ pc \in {"open", "stream"}
        /\ UNCHANGED <<dir, attempt, phase, answer, heard>>
    BY SMTT(60), <1>5, SendingIsARequest DEF OpenPlanned, Stream, Sending
  <2>2. CASE result' = result
    BY <1>1, <2>1, <2>2 DEF HeardIsRead
  <2>3. CASE result' = "local" /\ dir[file] # "planned"
    <3>1. dir # Planned
      BY ZenonT(60), <1>1, <2>1, <2>3 DEF Planned, ClientIsAt
    <3> QED
      BY Zenon, <1>1, <2>1, <2>3, <3>1 DEF HeardIsRead, Answers, Successes, Refusals, Planned
  <2> QED
    BY <1>5, <2>2, <2>3 DEF OpenPlanned, Stream, End, OpenRegular, Unchanged, Read
<1>6. CASE Drop
  BY SMTT(60), <1>1, <1>2, <1>6, SendingIsARequest DEF Drop, Again, End, HeardIsRead
<1>7. CASE Hear
  <2>1. result = "none" /\ \A n \in heard : answer[n] \notin Refusals
    BY SMTT(60), <1>1, <1>7, HearCases, SendingIsARequest DEF HeardIsRead, Answers, Refusals, Successes
  <2>2. CASE heard' = heard \cup {attempt} /\ answer[attempt] \in Successes \cup Refusals /\ End(answer[attempt])
    BY SMTT(60), <1>1, <1>7, <2>1, <2>2, HearCases DEF HeardIsRead, End, Answers, Successes, Refusals
  <2>3. CASE /\ Again
             /\ \/ heard' = heard
                \/ heard' = heard \cup {attempt} /\ answer[attempt] \in Successes \cup {"failed"}
    BY SMTT(60), <1>1, <1>7, <2>1, <2>3, HearCases DEF HeardIsRead, Again, End, Answers, Successes, Refusals
  <2> QED
    BY SMTT(60), <1>7, <2>2, <2>3, HearCases
<1>8. CASE Wake
  BY SMTT(60), <1>1, <1>2, <1>8, SendingIsARequest DEF Wake, HeardIsRead
<1>9. CASE AbortSignal
  BY <1>1, <1>2, <1>9 DEF AbortSignal, End, HeardIsRead, ClientIsAt, UploadTypeOK
<1>10. ASSUME NEW n \in Requests, Accept(n) \/ Receive(n) \/ Persist(n) \/ Remove(n)
       PROVE  HeardIsRead'
  <2>1. /\ UNCHANGED <<dir, heard, clientVars>> /\ phase[n] \notin {"answering", "over"}
        /\ \A m \in Requests \ {n} : phase'[m] = phase[m] /\ answer'[m] = answer[m]
    BY Zenon, <1>10, ServiceSteps
  <2>2. heard \subseteq Requests \ {n}
    BY <1>1, <2>1 DEF HeardIsRead, UploadTypeOK
  <2> QED
    BY ZenonT(30), <1>1, <2>1, <2>2 DEF HeardIsRead, Planned
<1>11. CASE ServerCrash
  BY <1>1, <1>11 DEF ServerCrash, Handling, HeardIsRead, UploadTypeOK, Planned
<1>12. ASSUME NEW f \in 1 .. Files, Change(f) PROVE HeardIsRead'
  BY SMTT(60), <1>1, <1>12 DEF Change, Planned, HeardIsRead, UploadTypeOK
<1>13. Foreign \/ Retire \/ Revoke \/ UNCHANGED vars => HeardIsRead'
  BY <1>1 DEF Foreign, Retire, Revoke, HeardIsRead, Planned
<1> QED
  BY <1>3, <1>4, <1>5, <1>6, <1>7, <1>8, <1>9, <1>10, <1>11, <1>12, <1>13, UploadCases

\* All of it holds throughout.
LEMMA UploadInvariant == Spec => []UploadInv
<1>1. UploadInv /\ [Next]_vars => UploadInv'
  BY TypeStays, ClientStays, ArchiveStays, HeardStays, StagingStays, RequestsStay DEF UploadInv
<1> QED
  BY <1>1, UploadInitially, PTL DEF Spec

\* multipartBody: however a directory changes while it is sent, and whatever
\* attempts overlap, no mixture of files is ever archived.
THEOREM OnlyThePlan == Spec => []OnlyThePlanIsArchived
BY UploadInvariant, PTL DEF UploadInv, ArchiveIsOf

\* ingestUpload removes the request directory before it returns, unless the
\* service died or the file system would not have it.
THEOREM StagingRemoved == Spec => []StagingIsRemoved
BY UploadInvariant, PTL DEF UploadInv

\* uploadRunDirectory, its result and the exit code of qe-report-upload: what
\* the caller is told is so, for any number of files and of attempts.
THEOREM ToldTheTruth == Spec => []ResultIsTrue
<1>1. UploadInv => ResultIsTrue
  <2> SUFFICES ASSUME UploadInv PROVE ResultIsTrue
    OBVIOUS
  <2>1. /\ UploadTypeOK /\ ClientIsAt /\ HeardIsRead
        /\ \A n \in Requests : AnswerIsTrue(n)
    BY DEF UploadInv
  <2>2. \A n \in heard : n \in Requests /\ answer[n] \in Answers
    BY <2>1 DEF HeardIsRead, UploadTypeOK
  <2>3. \A a \in Answers : Status[a] \in 400 .. 499 <=> a \in Refusals
    BY StatusOf DEF Answers, Successes, Refusals
  <2>4. SuccessIsTrue /\ ConflictIsForeign
    BY <2>1, <2>2 DEF SuccessIsTrue, ConflictIsForeign, HeardIsRead, AnswerIsTrue, Answers, Successes, Refusals
  <2>5. RefusalIsFinal
    BY <2>1, <2>2, <2>3 DEF RefusalIsFinal, HeardIsRead
  <2>6. ASSUME pc = "done" PROVE ExitCodeTells
    <3> DEFINE rejected == attempt \in heard /\ Status[answer[attempt]] \in 400 .. 499
    <3>1. result \in {"usage", "local", "transport", "aborted"} \cup Successes \cup Refusals
      BY <2>1, <2>6 DEF UploadTypeOK, ClientIsAt, HeardIsRead, Answers
    <3>2. CASE result \in Successes
      <4>1. ExitCode(result) = 0
        BY <3>2, StatusOf DEF ExitCode, Successes
      <4> QED
        BY <2>4, <3>2, <4>1 DEF ExitCodeTells, SuccessIsTrue, Successes
    <3>3. CASE result = "usage"
      <4>1. ExitCode(result) = 2
        BY <3>3, StatusOf DEF ExitCode, Answers, Successes, Refusals
      <4>2. sent = [n \in Requests |-> <<>>]
        BY <2>1, <3>3, SomeAttempts DEF UploadTypeOK, ClientIsAt, Requests
      <4>3. ExitCode(result) \notin {0, 3, 4}
        BY <4>1
      <4> QED
        BY Zenon, <3>3, <4>1, <4>2, <4>3 DEF ExitCodeTells
    <3>4. CASE result = "local"
      <4>1. ExitCode(result) = 2
        BY <3>4, StatusOf DEF ExitCode, Answers, Successes, Refusals
      <4>2. ExitCode(result) \notin {0, 3, 4} /\ result # "usage"
        BY <3>4, <4>1
      <4> QED
        BY Zenon, <2>1, <3>4, <4>1, <4>2 DEF ExitCodeTells, HeardIsRead
    <3>5. CASE result \in Refusals
      <4>1. ExitCode(result) = 3
        BY SMTT(60), <3>5, StatusOf DEF ExitCode, Refusals, Answers
      <4>2. rejected
        BY <2>1, <2>2, <2>3, <3>5 DEF HeardIsRead, Answers
      <4> QED
        BY <4>1, <4>2 DEF ExitCodeTells
    <3>6. CASE result \in {"transport", "aborted"}
      <4>1. ExitCode(result) = 4
        BY SMTT(60), <3>6, StatusOf DEF ExitCode, Answers, Successes, Refusals
      <4>2. ~rejected
        BY <2>1, <2>2, <2>3, <3>6 DEF HeardIsRead, Answers, Successes, Refusals
      <4> QED
        BY <4>1, <4>2 DEF ExitCodeTells
    <3> QED
      BY <3>1, <3>2, <3>3, <3>4, <3>5, <3>6
  <2> QED
    BY Zenon, <2>4, <2>5, <2>6 DEF ResultIsTrue, ExitCodeTells
<1> QED
  BY <1>1, UploadInvariant, PTL

--------------------------------------------------------------------------------
(* The keys of the projects. *)

KeyRows == [made : {TRUE}, project : Projects, expires : Nat, revoked : Nat]

KeyWalks == [pc : {"walking", "done"}, after : Nat, pages : Seq(SUBSET PublicIds), active : SUBSET PublicIds]

KeysTypeOK ==
  /\ now \in Nat \ {0} /\ refused \in BOOLEAN
  /\ \A k \in PublicIds : keys[k] = NoKey \/ keys[k] \in KeyRows
  /\ DOMAIN keys = PublicIds /\ answers \in [PublicIds -> Nat]
  /\ keyList = [pc |-> "none"] \/ keyList \in KeyWalks

\* A call answered true for a key exactly when its revocation is recorded.
AnswersAreRecorded ==
  /\ ~refused
  /\ \A k \in PublicIds :
       answers[k] = IF keys[k].made /\ keys[k].revoked # 0 THEN 1 ELSE 0

Listed(k) == \E i \in DOMAIN keyList.pages : k \in keyList.pages[i]

\* Pages follow each other up to the cursor, and up to the cursor no key that
\* was active at the start and still is was left out.
WalkIsAt ==
  keyList \in KeyWalks =>
    /\ \A i, j \in DOMAIN keyList.pages : i < j => \A k \in keyList.pages[i], m \in keyList.pages[j] : k < m
    /\ \A k \in keyList.active : keys[k].made
    /\ keyList.pc = "walking" =>
         /\ \A k \in PublicIds : Listed(k) => k <= keyList.after
         /\ \A k \in keyList.active : ActiveKey(k) /\ k <= keyList.after => Listed(k)
    /\ keyList.pc = "done" => \A k \in keyList.active : ActiveKey(k) => Listed(k)

KeysInv == KeysTypeOK /\ AnswersAreRecorded /\ WalkIsAt

\* No key is made and nothing is listed when the service starts.
LEMMA KeysInitially == KeysInit => KeysInv
<1> SUFFICES ASSUME KeysInit PROVE KeysInv
  OBVIOUS
<1>1. KeysTypeOK
  <2>1. keyList = [pc |-> "none"]
    BY Zenon DEF KeysInit
  <2>2. /\ now \in Nat \ {0} /\ refused \in BOOLEAN /\ answers \in [PublicIds -> Nat]
        /\ DOMAIN keys = PublicIds /\ \A k \in PublicIds : keys[k] = NoKey
    <3>1. now = 1 /\ refused = FALSE /\ answers = [k \in PublicIds |-> 0] /\ keys = [k \in PublicIds |-> NoKey]
      BY Zenon DEF KeysInit
    <3>2. now \in Nat \ {0} /\ answers \in [PublicIds -> Nat]
      BY <3>1
    <3> QED
      BY Zenon, <3>1, <3>2
  <2> QED
    BY Zenon, <2>1, <2>2 DEF KeysTypeOK
<1>2. \A k \in PublicIds : ~keys[k].made /\ answers[k] = 0
  BY DEF KeysInit, NoKey
<1>3. AnswersAreRecorded
  BY <1>2 DEF KeysInit, AnswersAreRecorded
<1>4. keyList.pc = "none"
  BY DEF KeysInit
<1>5. WalkIsAt
  BY <1>4 DEF WalkIsAt, KeyWalks
<1> QED
  BY <1>1, <1>3, <1>5 DEF KeysInv

\* The clock moves and keys are made and revoked: rows keep their types, a
\* revocation is recorded once, and no key comes back to life.
KeysKept ==
  /\ now' \in Nat \ {0} /\ refused' \in BOOLEAN
  /\ \A k \in PublicIds : keys'[k] = NoKey \/ keys'[k] \in KeyRows
  /\ DOMAIN keys' = PublicIds /\ answers' \in [PublicIds -> Nat]
  /\ AnswersAreRecorded'
  /\ \A k \in PublicIds : keys[k].made => keys'[k].made /\ (ActiveKey(k)' => ActiveKey(k))

\* create, revoke and list touch the rows only in these ways.
LEMMA KeysStep ==
  ASSUME KeysTypeOK, AnswersAreRecorded, [KeysNext]_keysVars
  PROVE  KeysKept
<1>1. ASSUME UNCHANGED <<keys, answers, refused>>, now' \in Nat, now' >= now
      PROVE  KeysKept
  <2>1. now' \in Nat \ {0}
    BY <1>1 DEF KeysTypeOK
  <2>2. AnswersAreRecorded'
    BY <1>1 DEF AnswersAreRecorded
  <2>3. ASSUME NEW k \in PublicIds, keys[k].made, ActiveKey(k)' PROVE ActiveKey(k)
    <3>1. keys[k] \in KeyRows
      BY SMTT(60), <2>3 DEF KeysTypeOK, NoKey
    <3> QED
      BY <1>1, <2>3, <3>1 DEF ActiveKey, KeysTypeOK, KeyRows
  <2> QED
    BY <1>1, <2>1, <2>2, <2>3 DEF KeysTypeOK, KeysKept
<1>2. ASSUME NEW k \in PublicIds, NEW p \in Projects, NEW e \in {0, MaxNow}, CreateKey(k, p, e) PROVE KeysKept
  <2> DEFINE row == [made |-> TRUE, project |-> p, expires |-> e, revoked |-> 0]
  <2>1. /\ ~keys[k].made /\ keys' = [keys EXCEPT ![k] = row]
        /\ UNCHANGED <<now, answers, refused>>
    BY <1>2 DEF CreateKey
  <2>2. row \in KeyRows /\ row.made /\ row.revoked = 0
    BY KeyAssumption DEF KeyRows
  <2> HIDE DEF row
  <2>3. keys'[k] = row /\ \A j \in PublicIds \ {k} : keys'[j] = keys[j]
    BY <2>1 DEF KeysTypeOK
  <2>4. AnswersAreRecorded'
    BY <2>1, <2>2, <2>3 DEF AnswersAreRecorded
  <2>5. ASSUME NEW j \in PublicIds, keys[j].made PROVE keys'[j].made /\ (ActiveKey(j)' => ActiveKey(j))
    BY <2>1, <2>3, <2>5 DEF ActiveKey
  <2> QED
    BY <2>1, <2>2, <2>3, <2>4, <2>5 DEF KeysTypeOK, KeysKept
<1>3. ASSUME NEW k \in PublicIds, RevokeKey(k) PROVE KeysKept
  <2>1. /\ UNCHANGED now /\ refused' = (refused \/ (Revocable(k) /\ TriggerRefuses(k)))
        /\ keys' = IF Revocable(k) /\ ~TriggerRefuses(k) THEN [keys EXCEPT ![k].revoked = now] ELSE keys
        /\ answers' = [answers EXCEPT ![k] = IF Revocable(k) /\ ~TriggerRefuses(k) THEN @ + 1 ELSE @]
    BY Zenon, <1>3 DEF RevokeKey
  <2>2. Revocable(k) => ~TriggerRefuses(k)
    BY DEF Revocable, TriggerRefuses
  <2>3. CASE ~Revocable(k)
    <3>1. UNCHANGED <<keys, answers, refused, now>>
      BY <2>1, <2>3 DEF KeysTypeOK
    <3> QED
      BY <1>1, <3>1 DEF KeysTypeOK
  <2>4. CASE Revocable(k)
    <3>1. keys[k] \in KeyRows /\ keys[k].revoked = 0 /\ keys[k].made
      BY <2>4 DEF Revocable, KeysTypeOK, NoKey
    <3>2. /\ UNCHANGED <<now, refused>> /\ keys' = [keys EXCEPT ![k].revoked = now]
          /\ answers' = [answers EXCEPT ![k] = @ + 1]
      BY <2>1, <2>2, <2>4 DEF KeysTypeOK
    <3>3. /\ keys'[k] \in KeyRows /\ keys'[k].revoked = now /\ keys'[k].made /\ answers'[k] = answers[k] + 1
          /\ keys'[k].expires = keys[k].expires
          /\ \A j \in PublicIds \ {k} : keys'[j] = keys[j] /\ answers'[j] = answers[j]
      BY Zenon, <3>1, <3>2 DEF KeysTypeOK, KeyRows
    <3>4. AnswersAreRecorded'
      BY <3>1, <3>2, <3>3 DEF AnswersAreRecorded, KeysTypeOK
    <3>5. ASSUME NEW j \in PublicIds, keys[j].made PROVE keys'[j].made /\ (ActiveKey(j)' => ActiveKey(j))
      BY <3>1, <3>2, <3>3, <3>5 DEF ActiveKey, KeysTypeOK
    <3> QED
      BY <3>2, <3>3, <3>4, <3>5 DEF KeysTypeOK, KeysKept
  <2> QED
    BY <2>3, <2>4
<1>5. CASE Tick
  <2>1. UNCHANGED <<keys, answers, refused>> /\ now' \in Nat /\ now' >= now
    BY <1>5 DEF Tick, KeysTypeOK
  <2> QED
    BY <1>1, <2>1
<1>4. CASE StartListing \/ ListKeys \/ UNCHANGED keysVars
  <2>0. UNCHANGED <<keys, answers, refused, now>>
    BY Zenon, <1>4 DEF StartListing, ListKeys, keysVars
  <2>1. UNCHANGED <<keys, answers, refused>> /\ now' \in Nat /\ now' >= now
    BY <2>0 DEF KeysTypeOK
  <2> QED
    BY <1>1, <2>1
<1> QED
  BY <1>2, <1>3, <1>4, <1>5 DEF KeysNext

\* A page is put behind the others.
LEMMA OnePageMore ==
  ASSUME NEW s \in Seq(SUBSET PublicIds), NEW page \in SUBSET PublicIds
  PROVE  /\ Append(s, page) \in Seq(SUBSET PublicIds)
         /\ DOMAIN s = 1 .. Len(s) /\ Len(s) \in Nat
         /\ DOMAIN Append(s, page) = 1 .. Len(s) + 1
         /\ \A i \in 1 .. Len(s) : Append(s, page)[i] = s[i]
         /\ Append(s, page)[Len(s) + 1] = page
BY SMTT(60)

\* The walk's state when nothing of it moves.
LEMMA KeyWalkStays ==
  ASSUME KeysTypeOK, WalkIsAt, UNCHANGED keyList,
         \A k \in PublicIds : keys[k].made => keys'[k].made /\ (ActiveKey(k)' => ActiveKey(k))
  PROVE  WalkIsAt'
<1> SUFFICES ASSUME keyList \in KeyWalks PROVE WalkIsAt'
  BY DEF WalkIsAt
<1>1. \A k \in PublicIds : Listed(k)' <=> Listed(k)
  BY ZenonT(60) DEF Listed
<1>2. keyList.active \subseteq PublicIds /\ \A k \in keyList.active : keys[k].made
  BY DEF WalkIsAt, KeyWalks
<1>3. \A k \in keyList.active : keys'[k].made /\ (ActiveKey(k)' => ActiveKey(k))
  BY Zenon, <1>2
<1> QED
  BY SMTT(60), <1>1, <1>2, <1>3 DEF WalkIsAt

\* list: the page behind the cursor.
LEMMA ListStep ==
  ASSUME KeysTypeOK, WalkIsAt, ListKeys
  PROVE  WalkIsAt' /\ keyList' \in KeyWalks
<1>1. keyList \in KeyWalks /\ keyList.pc = "walking"
  <2>1. keyList.pc = "walking" /\ (keyList = [pc |-> "none"] \/ keyList \in KeyWalks)
    BY Zenon DEF ListKeys, KeysTypeOK
  <2> QED
    BY <2>1
<1> DEFINE found == {k \in PublicIds : ActiveKey(k) /\ k > keyList.after}
<1>2. PICK page \in SUBSET found :
        /\ FirstRows(page, found)
        /\ \/ page = found /\ keyList' = [keyList EXCEPT !.pc = "done", !.pages = Append(@, page)]
           \/ /\ page # found
              /\ \E k \in found : NextKey(k, page, found) /\ keyList' = [keyList EXCEPT !.after = k, !.pages = Append(@, page)]
  BY Zenon DEF ListKeys
<1>3. UNCHANGED <<now, keys>>
  BY Zenon DEF ListKeys
<1> DEFINE s == keyList.pages
<1>4. s \in Seq(SUBSET PublicIds) /\ page \in SUBSET PublicIds /\ keyList.after \in Nat /\ keyList.active \subseteq PublicIds
  BY <1>1 DEF KeyWalks
<1>5. /\ keyList' \in KeyWalks /\ keyList'.pages = Append(s, page) /\ keyList'.active = keyList.active
      /\ \/ page = found /\ keyList'.pc = "done"
         \/ keyList'.pc = "walking" /\ NextKey(keyList'.after, page, found)
  <2>1. Append(s, page) \in Seq(SUBSET PublicIds)
    BY <1>4, OnePageMore
  <2>2. CASE page = found /\ keyList' = [keyList EXCEPT !.pc = "done", !.pages = Append(@, page)]
    BY Zenon, <1>1, <2>1, <2>2 DEF KeyWalks
  <2>3. ASSUME NEW k \in found, NextKey(k, page, found), keyList' = [keyList EXCEPT !.after = k, !.pages = Append(@, page)]
        PROVE  /\ keyList' \in KeyWalks /\ keyList'.pages = Append(s, page) /\ keyList'.active = keyList.active
               /\ keyList'.pc = "walking" /\ NextKey(keyList'.after, page, found)
    <3>1. k \in Nat
      BY SMTT(30), KeyAssumption
    <3> QED
      BY Zenon, <1>1, <2>1, <2>3, <3>1 DEF KeyWalks
  <2> QED
    BY Zenon, <1>2, <2>2, <2>3
<1>6. \A k \in PublicIds : (Listed(k) => k <= keyList.after) /\ (k \in page => k > keyList.after)
  BY Zenon, <1>1, <1>2 DEF WalkIsAt
<1>7. \A k \in PublicIds : Listed(k)' <=> Listed(k) \/ k \in page
  BY SMTT(60), <1>4, <1>5, OnePageMore DEF Listed
<1>8. \A i, j \in DOMAIN keyList'.pages : i < j => \A k \in keyList'.pages[i], m \in keyList'.pages[j] : k < m
  <2> SUFFICES ASSUME NEW i \in DOMAIN keyList'.pages, NEW j \in DOMAIN keyList'.pages, i < j,
                      NEW k \in keyList'.pages[i], NEW m \in keyList'.pages[j]
               PROVE  k < m
    OBVIOUS
  <2>1. /\ i \in 1 .. Len(s) /\ i \in DOMAIN s /\ k \in s[i] /\ s[i] \subseteq PublicIds
    BY <1>4, <1>5, OnePageMore
  <2>2. CASE j \in 1 .. Len(s)
    <3>1. j \in DOMAIN s /\ m \in s[j]
      BY <1>4, <1>5, <2>2, OnePageMore
    <3> QED
      BY ZenonT(60), <1>1, <2>1, <3>1 DEF WalkIsAt
  <2>3. CASE j = Len(s) + 1
    <3>1. m \in page
      BY <1>4, <1>5, <2>3, OnePageMore
    <3>2. Listed(k) /\ k \in PublicIds /\ m \in PublicIds
      BY Zenon, <1>4, <2>1, <3>1 DEF Listed
    <3>3. k <= keyList.after /\ m > keyList.after
      BY Zenon, <1>6, <3>1, <3>2
    <3> QED
      BY SMTT(30), <1>4, <3>2, <3>3, KeyAssumption
  <2> QED
    BY <1>4, <1>5, <2>2, <2>3, OnePageMore
<1>9. keyList'.pc = "walking" =>
         /\ \A k \in PublicIds : Listed(k)' => k <= keyList'.after
         /\ \A k \in keyList.active : ActiveKey(k) /\ k <= keyList'.after => Listed(k)'
  <2> SUFFICES ASSUME keyList'.pc = "walking"
               PROVE  \A k \in PublicIds : /\ Listed(k)' => k <= keyList'.after
                                           /\ k \in keyList.active /\ ActiveKey(k) /\ k <= keyList'.after => Listed(k)'
    BY <1>4
  <2> TAKE k \in PublicIds
  <2> DEFINE n == keyList'.after
  <2>1. n \in page /\ n \in PublicIds /\ \A j \in page : j <= n
    BY Zenon, <1>4, <1>5 DEF NextKey
  <2>2. n > keyList.after /\ n \in Nat /\ k \in Nat /\ keyList.after \in Nat
    BY Zenon, <1>4, <1>6, <2>1, KeyAssumption
  <2>3. ASSUME Listed(k)' PROVE k <= n
    <3>1. CASE k \in page
      BY <2>1, <3>1
    <3>2. CASE Listed(k)
      <4>1. k <= keyList.after
        BY Zenon, <1>6, <3>2
      <4> QED
        BY <2>2, <4>1
    <3> QED
      BY Zenon, <1>7, <2>3, <3>1, <3>2
  <2>4. ASSUME k \in keyList.active, ActiveKey(k), k <= n PROVE Listed(k)'
    <3>1. CASE k <= keyList.after
      <4>1. Listed(k)
        BY Zenon, <1>1, <2>4, <3>1 DEF WalkIsAt
      <4> QED
        BY Zenon, <1>7, <4>1
    <3>2. CASE ~(k <= keyList.after)
      <4>1. k \in found
        BY <2>2, <2>4, <3>2
      <4>2. k \in page
        <5>1. k \notin page => n < k
          BY Zenon, <1>2, <2>1, <4>1 DEF FirstRows
        <5> QED
          BY <2>2, <2>4, <5>1
      <4> QED
        BY Zenon, <1>7, <4>2
    <3> QED
      BY <3>1, <3>2
  <2> QED
    BY <2>3, <2>4
<1>10. keyList'.pc = "done" => \A k \in keyList.active : ActiveKey(k) => Listed(k)'
  <2> SUFFICES ASSUME keyList'.pc = "done", NEW k \in keyList.active, ActiveKey(k) PROVE Listed(k)'
    OBVIOUS
  <2>1. page = found /\ k \in PublicIds
    BY <1>4, <1>5
  <2>2. CASE k <= keyList.after
    BY Zenon, <1>1, <1>7, <2>1, <2>2 DEF WalkIsAt
  <2>3. CASE ~(k <= keyList.after)
    <3>1. k \in page
      BY <1>4, <2>1, <2>3, KeyAssumption
    <3> QED
      BY Zenon, <1>7, <2>1, <3>1
  <2> QED
    BY <2>2, <2>3
<1>11. \A k : ActiveKey(k)' <=> ActiveKey(k)
  BY Zenon, <1>3 DEF ActiveKey
<1>12. \A k \in keyList.active : keys'[k].made
  BY <1>1, <1>3 DEF WalkIsAt
<1> HIDE DEF found, s
<1> QED
  BY Zenon, <1>5, <1>8, <1>9, <1>10, <1>11, <1>12 DEF WalkIsAt

\* A listing begins with no page and the keys that are active now.
LEMMA StartStep ==
  ASSUME KeysTypeOK, StartListing
  PROVE  WalkIsAt' /\ keyList' \in KeyWalks
<1> DEFINE active == {k \in PublicIds : ActiveKey(k)}
<1>1. keyList' = [pc |-> "walking", after |-> 0, pages |-> <<>>, active |-> active] /\ UNCHANGED <<keys, now>>
  BY Zenon DEF StartListing
<1>2. \A k \in active : keys'[k].made
  BY Zenon, <1>1 DEF ActiveKey
<1>3. \A k \in active : k \in PublicIds /\ ~(k <= 0)
  BY KeyAssumption
<1> HIDE DEF active
<1>4. active \in SUBSET PublicIds
  BY <1>3
<1>5. keyList' \in KeyWalks
  BY <1>1, <1>4 DEF KeyWalks
<1>6. /\ keyList'.pages = <<>> /\ keyList'.active = active /\ keyList'.pc = "walking" /\ keyList'.after = 0
      /\ DOMAIN keyList'.pages = {}
  BY <1>1
<1>7. \A k : ~Listed(k)'
  BY Zenon, <1>6 DEF Listed
<1>8. WalkIsAt'
  BY Zenon, <1>2, <1>3, <1>6, <1>7 DEF WalkIsAt
<1> QED
  BY <1>5, <1>8

\* create, revoke and list in any order keep the account.
LEMMA KeysInvStep == KeysInv /\ [KeysNext]_keysVars => KeysInv'
<1> SUFFICES ASSUME KeysInv, [KeysNext]_keysVars PROVE KeysInv'
  OBVIOUS
<1>0. KeysTypeOK /\ AnswersAreRecorded /\ WalkIsAt
  BY DEF KeysInv
<1>1. KeysKept
  BY <1>0, KeysStep
<1>2. CASE UNCHANGED keyList
  <2>1. WalkIsAt'
    BY Zenon, <1>0, <1>1, <1>2, KeyWalkStays DEF KeysKept
  <2> QED
    BY Zenon, <1>0, <1>1, <1>2, <2>1 DEF KeysInv, KeysTypeOK, KeysKept
<1>3. CASE StartListing \/ ListKeys
  <2>1. WalkIsAt' /\ keyList' \in KeyWalks
    BY Zenon, <1>0, <1>3, StartStep, ListStep
  <2> QED
    BY Zenon, <1>1, <2>1 DEF KeysInv, KeysTypeOK, KeysKept
<1> QED
  BY Zenon, <1>2, <1>3 DEF KeysNext, Tick, CreateKey, RevokeKey, keysVars

\* revoke and list of api-keys.ts, for any keys, clocks and page sizes: a key is
\* revoked by one call, the trigger refuses none, and a walk of the listing shows
\* every key that was active throughout, once and in order.
THEOREM KeysAccounted == KeysSpec => []KeysAreAccounted
<1>1. KeysInv => KeysAreAccounted
  <2> SUFFICES ASSUME KeysInv PROVE KeysAreAccounted
    OBVIOUS
  <2>1. RevokedOnce
    BY DEF KeysInv, AnswersAreRecorded, RevokedOnce
  <2>2. PagesMissNoKey
    <3> SUFFICES ASSUME keyList.pc \in {"walking", "done"} PROVE PagesMissNoKey
      BY DEF PagesMissNoKey
    <3>1. keyList \in KeyWalks
      BY DEF KeysInv, KeysTypeOK
    <3> QED
      BY Zenon, <3>1 DEF KeysInv, WalkIsAt, PagesMissNoKey, Listed
  <2> QED
    BY <2>1, <2>2 DEF KeysAreAccounted
<1> QED
  BY <1>1, KeysInitially, KeysInvStep, PTL DEF KeysSpec
=============================================================================
