-------------------------- MODULE RunArchiveProofs --------------------------
(***************************************************************************)
(* The inductive invariant of the run archive, the theorems that follow from*)
(* it, and the proof that the archive implements its contract.              *)
(***************************************************************************)
EXTENDS RunArchiveSteps, LostLease

USE DEF lockVars, rowVars, txVars, workerVars, maintVars

\* What a worker read of the stored run stays so: nothing is deleted while it
\* holds the lock, and a row it claimed is filled by nobody else.
LEMMA ReadStep == IInv /\ [Next]_vars => ReadOK'
<1> SUFFICES ASSUME IInv, [Next]_vars, NEW w \in sharers'
             PROVE  /\ pc'[w] \in {"related", "repair"} => src'[job'[w].run] # None /\ SameContent(w)'
                    /\ pc'[w] = "repair" => Needs(job'[w].src) \subseteq rel'[job'[w].run]
                    /\ pc'[w] = "compare" => src'[job'[w].run] # None
                    /\ pc'[w] = "record" /\ src'[job'[w].run] # None => SameContent(w)'
                    /\ pc'[w] = "replace" => src'[job'[w].run] = job'[w].src
  BY DEF ReadOK, Needs
<1>0. TypeOK /\ JobOK /\ TxOK /\ ReadOK
  BY DEF IInv
<1> USE <1>0
<1>1. w \in Workers
  BY TypeStep DEF TypeOK, Goto, Alive
<1>2. CASE Still(w)
  <2>1. w \in sharers /\ (pc[w] # "idle" => job[w].run \in Runs)
    BY <1>1, <1>2 DEF TypeOK, Goto, Alive, Still, JobOK
  <2>2. CASE pc[w] # "record"
    <3>1. pc[w] = "replace" => src[job[w].run] # None
      BY <1>1, <2>1, NoneIsNoValue DEF TypeOK, Goto, Alive, ReadOK, JobOK
    <3> QED
      BY <1>1, <1>2, <2>1, <2>2, <3>1, SharedKeeps DEF TypeOK, Goto, Alive, Still, ReadOK, SameContent
  <2>3. CASE pc[w] = "record"
    <3>1. job[w].run \in Runs /\ rowLock[job[w].run] = w
      BY <2>1, <2>3 DEF TypeOK, Goto, Alive, TxOK
    <3>2. CASE src[job[w].run] # None
      BY <1>1, <1>2, <2>1, <2>3, <3>1, <3>2, SharedKeeps DEF TypeOK, Goto, Alive, Still, ReadOK, SameContent
    <3>3. CASE src[job[w].run] = None
      <4>1. ASSUME NEW u \in Workers, Commit(u) PROVE job[u].run # job[w].run
        <5>1. u \in sharers /\ pc[u] = "record" /\ rowLock[job[u].run] = u
          BY <4>1 DEF TypeOK, Goto, Alive, Commit, TxOK
        <5>2. u # w
          BY <1>1, <1>2, <2>3, <4>1 DEF TypeOK, Goto, Alive, Commit, Still
        <5> QED
          BY <3>1, <5>1, <5>2
      <4>2. src'[job[w].run] = None
        <5>1. CASE UNCHANGED rowVars
          BY <3>3, <5>1
        <5>2. ASSUME NEW u \in Workers, Commit(u) PROVE src'[job[w].run] = None
          <6>1. job[u].run # job[w].run
            BY SMTT(60), <4>1, <5>2
          <6> QED
            BY <3>1, <3>3, <5>2, <6>1 DEF Commit, TypeOK
        <5>3. ASSUME NEW u \in Workers, RepairKnown(u) \/ ReplaceIndex(u) PROVE UNCHANGED src
          BY SMTT(30), <5>3 DEF RepairKnown, ReplaceIndex
        <5>4. CASE DeleteRuns
          BY SMTT(60), <3>1, <3>3, <5>4 DEF DeleteRuns, JobOK
        <5> QED
          BY Zenon, <3>3, <5>1, <5>2, <5>3, <5>4, RowsChange
      <4> QED
        BY <1>2, <2>3, <4>2 DEF TypeOK, Goto, Alive, Still
    <3> QED
      BY <3>2, <3>3
  <2> QED
    BY <2>2, <2>3
<1>3. CASE WorkerStep(w)
  <2>1. CASE ReadKnown(w) \/ ReadRelated(w)
    <3>1. w \in sharers /\ UNCHANGED <<rowVars, job>>
      BY <2>1 DEF TypeOK, Goto, Alive, ReadKnown, ReadRelated
    <3>2. \/ pc'[w] = "related" /\ src[job[w].run] # None /\ SameContent(w)
          \/ /\ pc'[w] = "repair" /\ Needs(job[w].src) \subseteq rel[job[w].run]
             /\ pc[w] = "related"
          \/ pc'[w] \in {"put", "claim", "release"}
      BY <1>1, <2>1 DEF TypeOK, Goto, Alive, ReadKnown, ReadRelated, Materialise, Conflict
    <3> QED
      BY <3>1, <3>2 DEF TypeOK, Goto, Alive, ReadOK, SameContent
  <2>2. CASE RepairKnown(w) \/ \E b \in Blobs : Put(w, b)
    <3>1. pc'[w] \in {"put", "claim", "release"}
      BY SMTT(60), <1>1, <2>2 DEF TypeOK, Goto, Alive, RepairKnown, Put, Materialise
    <3> QED
      BY <3>1
  <2>3. CASE Claim(w) \/ Compare(w) \/ RecordBlob(w)
    <3>1. w \in sharers /\ UNCHANGED <<rowVars, job>>
      BY <2>3 DEF TypeOK, Goto, Alive, Claim, Compare, RecordBlob
    <3>2. \/ pc'[w] = "compare" /\ src[job[w].run] # None
          \/ pc'[w] = "record" /\ (src[job[w].run] = None \/ SameContent(w))
          \/ pc'[w] = "record" /\ pc[w] = "record"
          \/ pc'[w] = "release"
      BY <1>1, <2>3 DEF TypeOK, Goto, Alive, Claim, Compare, RecordBlob, Conflict
    <3> QED
      BY <3>1, <3>2 DEF TypeOK, Goto, Alive, ReadOK, SameContent
  <2>4. CASE AcquireShared(w) \/ Release(w) \/ Commit(w) \/ ReplaceIndex(w)
    <3>1. pc'[w] \in {"derive", "known", "idle", "release"}
      BY <1>1, <2>4 DEF TypeOK, Goto, Alive, AcquireShared, Release, Commit, ReplaceIndex
    <3> QED
      BY SMTT(60), <3>1
  <2>5. CASE DeriveIndex(w)
    <3>1. pc'[w] \in {"release", "replace"} /\ UNCHANGED src
      BY <1>1, <2>5 DEF TypeOK, Goto, Alive, DeriveIndex
    <3>2. job'[w].run = job[w].run /\ job'[w].src = src[job[w].run]
      BY <1>1, <2>5 DEF TypeOK, Goto, Alive, DeriveIndex
    <3> QED
      BY <3>1, <3>2
  <2> QED
    BY SMTT(60), <1>3, <2>1, <2>2, <2>3, <2>4, <2>5 DEF WorkerStep
<1>4. CASE Acts(w) /\ ~WorkerStep(w)
  <2>1. pc'[w] \in {"lock", "release", "idle"}
    BY SMTT(60), <1>1, <1>4 DEF TypeOK, Goto, Alive, Acts, Offer, Rebuild, Fail, Crash, Drop
  <2> QED
    BY <2>1
<1> QED
  BY <1>1, <1>2, <1>3, <1>4, OneActor DEF TypeOK, Goto, Alive

\* A success stays true until the call has released its lease: a run that was
\* completed cannot be deleted or degraded while any worker holds the lock.
LEMMA SuccessStep == IInv /\ [Next]_vars => SuccessMeansComplete'
<1> SUFFICES ASSUME IInv, [Next]_vars, NEW w \in Workers,
                    pc'[w] = "release", w \in sharers', answer'[w] \in {"inserted", "already_present"}
             PROVE  /\ job'[w].run \in Archived'
                    /\ SameContent(w)'
                    /\ Needs(job'[w].src) \subseteq rel'[job'[w].run]
                    /\ expires'[job'[w].run] # None
                    /\ index'[job'[w].run] = src'[job'[w].run]
  <2> SUFFICES ASSUME IInv, [Next]_vars, NEW w \in Workers,
                      pc'[w] = "release", w \in sharers', answer'[w] \in {"inserted", "already_present"},
                      job'[w].run \in Archived', index'[job'[w].run] = src'[job'[w].run]
               PROVE  index'[job'[w].run] \notin {None, Stale}
    BY ZenonT(60) DEF SuccessMeansComplete, Alive, Needs, Current
  <2>1. src' \in [Runs -> Sources \cup {None}]
    BY TypeStep DEF IInv, TypeOK
  <2> QED
    BY SMTT(30), <2>1, NoneIsNoValue DEF Archived
<1>0. TypeOK /\ JobOK /\ AnswerOK /\ ReadOK /\ SuccessMeansComplete /\ IndexFromArchivedSource
  BY SMTT(60) DEF IInv
<1> USE <1>0
<1>1. CASE Still(w)
  <2>1. /\ job[w].run \in Archived /\ SameContent(w) /\ Needs(job[w].src) \subseteq rel[job[w].run]
        /\ expires[job[w].run] # None /\ index[job[w].run] = src[job[w].run]
        /\ w \in sharers /\ job[w].run \in Runs /\ job'[w] = job[w]
    BY SMTT(60), <1>1 DEF TypeOK, Goto, Alive, Still, SuccessMeansComplete, JobOK, IndexFromArchivedSource, Current
  <2>2. src'[job[w].run] = src[job[w].run] /\ src[job[w].run] # None
    BY SMTT(60), <2>1, SharedKeeps DEF TypeOK, Goto, Alive, Archived
  <2> QED
    BY <2>1, <2>2, SharedKeeps DEF TypeOK, Goto, Alive, Archived, SameContent
<1>2. CASE RepairKnown(w)
  <2>1. src[job[w].run] # None
    BY <1>2 DEF TypeOK, Goto, Alive, RepairKnown, ReadOK
  <2>2. /\ pc[w] = "repair" /\ w \in sharers /\ UNCHANGED <<src, rel, job>> /\ CompleteDerived(w)
        /\ job[w].run \in Runs /\ job[w].exp \in Times
    BY SMTT(60), <1>2, <2>1 DEF TypeOK, Goto, Alive, RepairKnown, JobOK, PersistLabels
  <2>3. expires'[job[w].run] # None /\ index'[job[w].run] = src[job[w].run]
    BY SMTT(60), <2>2, NoneIsNoValue DEF TypeOK, Goto, Alive, CompleteDerived, Current, IndexFromArchivedSource
  <2> QED
    BY <2>1, <2>2, <2>3 DEF TypeOK, Goto, Alive, ReadOK, Archived, SameContent
<1>3. CASE Commit(w)
  <2>1. /\ pc[w] = "record" /\ w \in sharers /\ UNCHANGED job
        /\ job[w].run \in Runs /\ job[w].src \in Sources /\ job[w].exp \in Times
        /\ rel' = [rel EXCEPT ![job[w].run] = @ \cup Needs(job[w].src)]
    BY SMTT(60), <1>3 DEF TypeOK, Goto, Alive, Commit, JobOK, PersistLabels
  <2>2. CASE src[job[w].run] = None
    <3>1. src'[job[w].run] = job[w].src /\ expires'[job[w].run] = job[w].exp /\ index'[job[w].run] = job[w].src
      BY SMTT(60), <1>3, <2>1, <2>2 DEF TypeOK, Goto, Alive, Commit
    <3> QED
      BY SMTT(60), <2>1, <3>1, NoneIsNoValue DEF TypeOK, Goto, Alive, Archived, SameContent
  <2>3. CASE src[job[w].run] # None
    <3>1. UNCHANGED src /\ CompleteDerived(w)
      BY SMTT(60), <1>3, <2>3 DEF TypeOK, Goto, Alive, Commit
    <3>2. expires'[job[w].run] # None /\ index'[job[w].run] = src[job[w].run]
      BY SMTT(60), <2>1, <3>1, NoneIsNoValue DEF TypeOK, Goto, Alive, CompleteDerived, Current, IndexFromArchivedSource
    <3> QED
      BY <2>1, <2>3, <3>1, <3>2 DEF TypeOK, Goto, Alive, ReadOK, Archived, SameContent
  <2> QED
    BY <2>2, <2>3
<1>4. CASE Acts(w) /\ ~RepairKnown(w) /\ ~Commit(w)
  <2>1. CASE pc[w] = "release"
    BY Zenon, <1>4, <2>1 DEF TypeOK, Goto, Alive, Acts, Offer, Rebuild, WorkerStep, AcquireShared, Release, ReadKnown,
       ReadRelated, Put, Claim, Compare, RecordBlob, DeriveIndex, ReplaceIndex, Fail, Crash, Drop
  <2>2. CASE pc[w] # "release"
    <3>1. answer[w] = "none"
      BY SMTT(30), <2>2 DEF TypeOK, Goto, Alive, AnswerOK
    <3>2. answer'[w] \in {"none", "conflict", "error"}
      BY Zenon, <1>4, <3>1 DEF TypeOK, Goto, Alive, Acts, Offer, Rebuild, WorkerStep, AcquireShared, Release, ReadKnown,
         ReadRelated, Put, Claim, Compare, RecordBlob, DeriveIndex, ReplaceIndex, Fail, Crash, Drop, Conflict
    <3> QED
      BY <3>2
  <2> QED
    BY SMTT(30), <2>1, <2>2
<1> QED
  BY <1>1, <1>2, <1>3, <1>4, OneActor DEF TypeOK, Goto, Alive

\* An archive older writers left, with nobody at work, satisfies the invariant.
LEMMA InitIInv == Init => IInv
<1> SUFFICES ASSUME Init PROVE IInv
  OBVIOUS
<1> USE NoneIsNoValue, SourcesHaveContent
<1>1. rel \in [Runs -> SUBSET Blobs] /\ catalog \subseteq Blobs
  BY DEF Init, Needs
<1>2. TypeOK
  BY Zenon, <1>1 DEF Init, TypeOK, NoJob, Labels, PassLabels, Answers
<1>3. JobOK /\ AnswerOK /\ LockOK /\ VictimsOK /\ PublishedOK /\ TxOK /\ ReadOK
  BY DEF Init, JobOK, AnswerOK, PersistLabels, LockOK, VictimsOK, PublishedOK, TxOK, ReadOK
<1>4. RowsOK /\ IndexFromArchivedSource
  BY DEF Init, RowsOK, IndexFromArchivedSource, LegacyRow
<1>5. BytesOK /\ SuccessMeansComplete
  BY DEF Init, BytesOK, SuccessMeansComplete, Alive
<1> QED
  BY <1>2, <1>3, <1>4, <1>5 DEF Init, IInv

\* The invariant is inductive.
LEMMA StepIInv == IInv /\ [Next]_vars => IInv'
<1> SUFFICES ASSUME IInv, [Next]_vars PROVE IInv'
  OBVIOUS
<1>1. TypeOK' /\ JobOK' /\ AnswerOK' /\ LockOK'
  BY TypeStep, AnswerStep, LockStep DEF IInv
<1>2. TypeOK /\ JobOK /\ TxOK /\ IngestionAndRetentionExclude /\ \A r \in Runs : rel[r] \subseteq catalog
  BY Zenon DEF IInv, LockOK, BytesOK, IngestionAndRetentionExclude
<1>3. TxOK'
  BY Zenon, <1>2, TxStep
<1> QED
  BY <1>1, <1>3, RowsStep, BytesStep, VictimsStep, PublishedStep, ReadStep, SuccessStep DEF IInv

\* Whatever ingestions, rebuilds and passes do, in any order and with any
\* crashes, the archive stays in the states the inductive invariant describes.
THEOREM Invariance == Spec => []IInv
BY InitIInv, StepIInv, PTL DEF Spec

\* Every variable keeps its type.
THEOREM TypeCorrect == Spec => []TypeOK
BY Invariance, PTL DEF IInv

\* withIngestionLock / withMaintenanceLock: no session that may publish bytes
\* or write rows is alive while a destructive pass holds the lock.
THEOREM Exclusion == Spec => []IngestionAndRetentionExclude
<1>1. IInv => IngestionAndRetentionExclude
  BY DEF IInv, LockOK, IngestionAndRetentionExclude
<1> QED
  BY <1>1, Invariance, PTL

\* archiveWithin and reclaim: the database references only blobs the store
\* holds, for any number of runs, blobs, ingestions and passes.
THEOREM BytesExist == Spec => []ReferencedBytesExist
<1>1. IInv => ReferencedBytesExist
  BY DEF IInv, BytesOK, ReferencedBytesExist
<1> QED
  BY <1>1, Invariance, PTL

\* persistRunDirectory: `inserted` and `already_present` are true when given.
THEOREM SuccessIsTrue == Spec => []SuccessMeansComplete
BY Invariance, PTL DEF IInv

\* repairStoredIndex: an index never describes another physical form.
THEOREM IndexIsDerived == Spec => []IndexFromArchivedSource
BY Invariance, PTL DEF IInv

\* archiveWithin: the owner of a taken identity is there to be compared with.
THEOREM ClaimantStays == Spec => []ClaimantNeverVanishes
<1>1. IInv => ClaimantNeverVanishes
  BY DEF IInv, ReadOK, JobOK, ClaimantNeverVanishes, Alive, Archived
<1> QED
  BY <1>1, Invariance, PTL

\* recordBlobs: every transaction takes its catalog rows in hash order, after
\* its run's row.
THEOREM HashOrder == Spec => []BlobLocksInHashOrder
<1>1. IInv => BlobLocksInHashOrder
  BY SMTT(60), NoneIsNoValue DEF IInv, TxOK, BlobLocksInHashOrder
<1> QED
  BY <1>1, Invariance, PTL

\* A worker that writes rows holds the lock.
LEMMA WritersShare ==
  ASSUME NEW w \in Workers, RepairKnown(w) \/ Commit(w) \/ ReplaceIndex(w)
  PROVE  sharers # {}
BY DEF RepairKnown, Commit, ReplaceIndex, Alive

\* knownRun, archiveWithin and replaceOneRun add to an archived run and never
\* change or take away what it has.
THEOREM Immutable == Spec => ArchivedStays
<1>1. IInv /\ [Next]_vars =>
        \A r \in Archived : r \in Archived' =>
          /\ src'[r] = src[r]
          /\ rel[r] \subseteq rel'[r]
          /\ expires[r] # None => expires'[r] = expires[r]
  <2> SUFFICES ASSUME IInv, [Next]_vars, NEW r \in Runs, src[r] # None, src'[r] # None
               PROVE  /\ src'[r] = src[r]
                      /\ rel[r] \subseteq rel'[r]
                      /\ expires[r] # None => expires'[r] = expires[r]
    BY SMTT(60) DEF Archived
  <2>1. CASE sharers # {}
    BY <2>1, SharedKeeps
  <2>2. CASE DeleteRuns
    BY SMTT(60), <2>2 DEF DeleteRuns
  <2>3. CASE UNCHANGED rowVars
    BY <2>3
  <2>4. ASSUME NEW w \in Workers, RepairKnown(w) \/ Commit(w) \/ ReplaceIndex(w)
        PROVE  sharers # {}
    BY Zenon, <2>4, WritersShare
  <2> QED
    BY ZenonT(60), <2>1, <2>2, <2>3, <2>4, RowsChange
<1> QED
  BY <1>1, Invariance, PTL DEF Spec, ArchivedStays

\* deleteRuns: only an expired run leaves, and only under the exclusive lock.
THEOREM Expiry == Spec => OnlyExpiredRunsLeave
<1>1. IInv /\ [Next]_vars =>
        \A r \in Archived : r \notin Archived' =>
          /\ exclusive /\ sharers = {}
          /\ expires[r] # None /\ expires[r] <= asOf
  <2> SUFFICES ASSUME IInv, [Next]_vars, NEW r \in Runs, src[r] # None, src'[r] = None
               PROVE  /\ exclusive /\ sharers = {}
                      /\ expires[r] # None /\ expires[r] <= asOf
    BY DEF Archived
  <2>1. sharers = {}
    BY SharedKeeps
  <2>2. DeleteRuns
    <3>1. ~ UNCHANGED rowVars
      OBVIOUS
    <3>2. ASSUME NEW w \in Workers PROVE ~ (RepairKnown(w) \/ Commit(w) \/ ReplaceIndex(w))
      BY Zenon, <2>1, WritersShare
    <3> QED
      BY Zenon, <3>1, <3>2, RowsChange
  <2> QED
    BY <2>1, <2>2 DEF DeleteRuns, Expired
<1> QED
  BY <1>1, Invariance, PTL DEF Spec, OnlyExpiredRunsLeave

\* Bytes a run is related to are on the medium, so readability is a matter of
\* relations alone.
LEMMA ReadableByRelation == BytesOK => Readable = {r \in Archived : Needs(src[r]) \subseteq rel[r]}
BY DEF BytesOK, Readable, Archived

\* The three steps the contract allows.
LEMMA ContractNext ==
  /\ \A r \in Runs, s \in Sources, e \in Times : Contract!Archive(r, Fingerprint[s], e) => Contract!Next
  /\ \A r \in Runs, e \in Times : Contract!Complete(r, e) => Contract!Next
  /\ \A gone \in SUBSET Runs, t \in Times : Contract!Retire(gone, t) => Contract!Next
BY Zenon DEF Contract!Next

\* Each step of the archive is a step of its contract, or invisible to it.
LEMMA ContractStep == IInv /\ IInv' /\ [Next]_vars => [Contract!Next]_(Contract!contractVars)
<1> SUFFICES ASSUME IInv, IInv', [Next]_vars PROVE [Contract!Next]_(Contract!contractVars)
  OBVIOUS
<1>0. TypeOK /\ JobOK /\ LockOK /\ BytesOK /\ BytesOK' /\ ReadOK
  BY DEF IInv
<1> USE <1>0
<1> DEFINE content == [r \in Runs |-> IF src[r] = None THEN None ELSE Fingerprint[src[r]]]
<1>1. /\ Readable = {r \in Archived : Needs(src[r]) \subseteq rel[r]}
      /\ Readable' = {r \in Archived' : Needs(src'[r]) \subseteq rel'[r]}
  <2>1. BytesOK /\ BytesOK'
    BY SMTT(60) DEF TypeOK
  <2>2. Readable' = {r \in Archived' : Needs(src'[r]) \subseteq rel'[r]}
    BY <2>1 DEF TypeOK, BytesOK, Readable, Archived, Needs
  <2> QED
    BY <2>1, <2>2, ReadableByRelation DEF TypeOK
<1>2. CASE UNCHANGED <<src, rel, expires>>
  BY <1>1, <1>2 DEF TypeOK, Contract!contractVars, Archived
<1>3. ASSUME NEW w \in Workers, Commit(w), src[job[w].run] = None
      PROVE  Contract!Next
  <2>1. PICK r \in Runs, s \in Sources, e \in Times : r = job[w].run /\ s = job[w].src /\ e = job[w].exp
    BY <1>3 DEF TypeOK, Commit, JobOK, PersistLabels
  <2>2. /\ src' = [src EXCEPT ![r] = s] /\ expires' = [expires EXCEPT ![r] = e]
        /\ rel' = [rel EXCEPT ![r] = @ \cup Needs(s)]
    BY <1>3, <2>1 DEF TypeOK, Commit
  <2>3. Readable' = Readable \cup {r}
    BY <1>1, <2>1, <2>2, NoneIsNoValue DEF TypeOK, Archived
  <2>4. content' = [content EXCEPT ![r] = Fingerprint[s]]
    BY Zenon, <2>1, <2>2, NoneIsNoValue DEF TypeOK
  <2>5. content[r] = None
    BY SMTT(60), <1>3, <2>1 DEF TypeOK
  <2>6. Contract!Archive(r, Fingerprint[s], e)
    BY SMTT(60), <2>2, <2>3, <2>4, <2>5 DEF TypeOK, Contract!Archive
  <2> QED
    BY SMTT(60), <2>1, <2>6, ContractNext DEF TypeOK
<1>4. ASSUME NEW w \in Workers, src[job[w].run] # None, CompleteDerived(w), UNCHANGED src, w \in sharers,
             \/ pc[w] = "repair" /\ UNCHANGED rel
             \/ pc[w] = "record" /\ rel' = [rel EXCEPT ![job[w].run] = @ \cup Needs(job[w].src)]
      PROVE  [Contract!Next]_(Contract!contractVars)
  <2>1. PICK r \in Runs, e \in Times : r = job[w].run /\ e = job[w].exp
    BY SMTT(60), <1>4 DEF TypeOK, JobOK, PersistLabels
  <2>2. expires' = [expires EXCEPT ![r] = IF @ = None THEN e ELSE @]
    BY SMTT(60), <1>4, <2>1 DEF TypeOK, CompleteDerived
  <2>3. Needs(src[r]) = Needs(job[w].src)
    BY SMTT(60), <1>4, <2>1 DEF TypeOK, ReadOK, SameContent, Needs
  <2>4. Needs(src[r]) \subseteq rel'[r] /\ \A q \in Runs \ {r} : rel'[q] = rel[q]
    BY SMTT(60), <1>4, <2>1, <2>3 DEF TypeOK, ReadOK
  <2>5. rel[r] \subseteq rel'[r]
    BY SMTT(60), <1>4, <2>1 DEF TypeOK
  <2>6. Readable' = Readable \cup {r}
    BY SMTT(60), <1>1, <1>4, <2>1, <2>4, <2>5 DEF TypeOK, Archived
  <2>7. content[r] # None
    BY SMTT(60), <1>4, <2>1, ContentIsNotNone DEF TypeOK
  <2>8. UNCHANGED content
    BY SMTT(60), <1>4 DEF TypeOK
  <2>9. Contract!Complete(r, e)
    BY <2>2, <2>6, <2>7, <2>8 DEF TypeOK, Contract!Complete
  <2> QED
    BY <2>1, <2>9, ContractNext DEF TypeOK
<1>5. CASE DeleteRuns /\ ~UNCHANGED rowVars
  <2>1. PICK gone \in SUBSET Runs, t \in Times : gone = picked \cap Expired(asOf) /\ t = asOf
    BY Zenon, <1>5 DEF TypeOK, DeleteRuns, LockOK
  <2>2. /\ src' = [r \in Runs |-> IF r \in gone THEN None ELSE src[r]]
        /\ rel' = [r \in Runs |-> IF r \in gone THEN {} ELSE rel[r]]
        /\ expires' = [r \in Runs |-> IF r \in gone THEN None ELSE expires[r]]
    BY <1>5, <2>1 DEF TypeOK, DeleteRuns
  <2>3. \A r \in gone : expires[r] # None /\ expires[r] <= t
    BY <2>1 DEF TypeOK, Expired
  <2>4. Readable' = Readable \ gone
    BY ZenonT(30), <1>1, <2>2 DEF TypeOK, Archived
  <2>5. content' = [r \in Runs |-> IF r \in gone THEN None ELSE content[r]]
    BY ZenonT(30), <2>2 DEF TypeOK
  <2>6. Contract!Retire(gone, t)
    BY SMTT(60), <2>2, <2>3, <2>4, <2>5 DEF TypeOK, Contract!Retire
  <2> QED
    BY <2>6, ContractNext DEF TypeOK
<1>6. ASSUME NEW w \in Workers, RepairKnown(w) PROVE [Contract!Next]_(Contract!contractVars)
  BY SMTT(30), <1>2, <1>4, <1>6 DEF TypeOK, RepairKnown, Alive
<1>7. ASSUME NEW w \in Workers, Commit(w) PROVE [Contract!Next]_(Contract!contractVars)
  BY Zenon, <1>3, <1>4, <1>7 DEF TypeOK, Commit, Alive
<1>8. ASSUME NEW w \in Workers, ReplaceIndex(w) PROVE [Contract!Next]_(Contract!contractVars)
  BY <1>2, <1>8 DEF TypeOK, ReplaceIndex
<1> QED
  BY <1>2, <1>5, <1>6, <1>7, <1>8, RowsChange DEF TypeOK

\* The archive implements its contract.
THEOREM Implementation == Spec => ImplementsContract
<1>1. Init => Contract!Init
  <2> SUFFICES ASSUME Init PROVE Contract!Init
    OBVIOUS
  <2>1. \A r \in Runs : src[r] = None => expires[r] = None
    BY DEF Init, LegacyRow
  <2> QED
    BY <2>1, ContentIsNotNone DEF Init, Contract!Init, Readable, Archived
<1> QED
  BY <1>1, ContractStep, Invariance, PTL DEF Spec, ImplementsContract, Contract!Spec

-----------------------------------------------------------------------------
(* The retention pass that lost its session. *)

\* Only a pass that takes the lock or ends moves it, and a worker joins the
\* sharers only when no pass holds it.
LEMMA ExcludeStep ==
  ASSUME IngestionAndRetentionExclude, [Next]_vars
  PROVE  IngestionAndRetentionExclude'
<1>1. CASE Request
  BY Zenon, <1>1 DEF IngestionAndRetentionExclude, Request, Offer, Rebuild, StartPass
<1>2. ASSUME NEW w \in Workers, WorkerStep(w)
      PROVE  UNCHANGED exclusive /\ (sharers' \subseteq sharers \/ ~exclusive)
  BY Zenon, <1>2 DEF WorkerStep, AcquireShared, Release, ReadKnown, ReadRelated, RepairKnown, Put, Claim, Compare,
     RecordBlob, Commit, DeriveIndex, ReplaceIndex, Committed
<1>3. CASE PassStep
  BY Zenon, <1>3 DEF IngestionAndRetentionExclude, PassStep, AcquireExclusive, SelectExpired, DeleteRuns,
     ListUnreferenced, DeleteCatalogRow, RemoveCatalogued, ListOrphans, RemoveOrphan, RemoveObject, FinishPass, EndPass
<1>4. CASE Failure
  BY <1>4 DEF IngestionAndRetentionExclude, Failure, AbortPass, EndPass, Fail, Crash, Drop
<1>5. CASE UNCHANGED vars
  BY Zenon, <1>5 DEF IngestionAndRetentionExclude, vars
<1>6. CASE \E w \in Workers : WorkerStep(w)
  BY <1>2, <1>6 DEF IngestionAndRetentionExclude
<1> QED
  BY Zenon, <1>1, <1>3, <1>4, <1>5, <1>6 DEF Next

\* A transaction relates a run to blobs it recorded, and a row that something
\* relates to is not deleted.
LEMMA CataloguedStep ==
  ASSUME TypeOK, JobOK, TxOK, RelationsCatalogued, [Next]_vars
  PROVE  RelationsCatalogued'
<1>1. ASSUME NEW w \in Workers, Commit(w) PROVE RelationsCatalogued'
  <2>1. w \in sharers /\ pc[w] = "record" /\ todo[w] = {} /\ job[w].run \in Runs
    BY Zenon, <1>1 DEF Commit, Alive, JobOK
  <2>2. catalog' = catalog \cup {b \in Blobs : blobLock[b] = w}
    BY Zenon, <1>1 DEF Commit
  <2>3. Needs(job[w].src) \subseteq Blobs
    BY Zenon, <2>1, SourcesHaveContent DEF JobOK, PersistLabels, Needs
  <2>4. \A b \in Needs(job[w].src) : b \in catalog'
    BY Zenon, <2>1, <2>2, <2>3 DEF TxOK
  <2>5. rel' = [rel EXCEPT ![job[w].run] = @ \cup Needs(job[w].src)]
    BY Zenon, <1>1 DEF Commit
  <2> QED
    BY Zenon, <2>2, <2>4, <2>5 DEF TypeOK, RelationsCatalogued
<1>2. CASE DeleteCatalogRow
  BY Zenon, <1>2 DEF DeleteCatalogRow, Referenced, RelationsCatalogued
<1>3. CASE DeleteRuns
  BY Zenon, <1>3 DEF DeleteRuns, RelationsCatalogued
<1>4. ASSUME NEW w \in Workers, RepairKnown(w) \/ ReplaceIndex(w) PROVE RelationsCatalogued'
  BY Zenon, <1>4 DEF RepairKnown, ReplaceIndex, RelationsCatalogued
<1>5. CASE UNCHANGED rowVars /\ UNCHANGED catalog
  BY Zenon, <1>5 DEF RelationsCatalogued
<1> QED
  BY Zenon, <1>1, <1>2, <1>3, <1>4, <1>5, RowsChange, CatalogChange

\* What is left of the inductive invariant when the lock can be gone.
LeaseInv == TypeOK /\ JobOK /\ TxOK /\ IngestionAndRetentionExclude /\ RelationsCatalogued

\* retention.ts: a pass deletes rows only through the session that held the
\* lock, so when PostgreSQL ends that session at any point and workers go on,
\* every blob a run is related to still has its catalog row.
THEOREM LostLeaseKeepsRows == LossySpec => []RelationsCatalogued
<1>1. Init => LeaseInv
  BY InitIInv DEF IInv, LockOK, BytesOK, LeaseInv, IngestionAndRetentionExclude, RelationsCatalogued
<1>2. LeaseInv /\ [Next \/ LoseLease]_vars => LeaseInv'
  <2>1. ASSUME LeaseInv, [Next]_vars PROVE LeaseInv'
    <3>1. TypeOK /\ JobOK /\ TxOK /\ IngestionAndRetentionExclude /\ RelationsCatalogued
      BY Zenon, <2>1 DEF LeaseInv
    <3>2. \A r \in Runs : rel[r] \subseteq catalog
      BY Zenon, <3>1 DEF RelationsCatalogued
    <3> QED
      BY Zenon, <2>1, <3>1, <3>2, TypeStep, TxStep, ExcludeStep, CataloguedStep DEF LeaseInv
  <2>2. ASSUME LeaseInv, LoseLease PROVE LeaseInv'
    BY Zenon, <2>2 DEF LeaseInv, LoseLease, TypeOK, JobOK, TxOK, IngestionAndRetentionExclude, RelationsCatalogued,
       IsFirst, Needs
  <2> QED
    BY <2>1, <2>2
<1>3. LeaseInv => RelationsCatalogued
  BY DEF LeaseInv
<1> QED
  BY <1>1, <1>2, <1>3, PTL DEF LossySpec
=============================================================================
