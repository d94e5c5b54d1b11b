--------------------------- MODULE RunArchiveSteps --------------------------
(***************************************************************************)
(* What a step of the archive changes: types, the lock, the rows, the       *)
(* catalog, and the one worker that acts.  Then the conjuncts of the        *)
(* inductive invariant that ingestion and reclamation must keep together:   *)
(* rows, bytes and victims, and the row and catalog locks of ingestion      *)
(* transactions.                                                            *)
(***************************************************************************)
EXTENDS RunArchiveInd, TLAPS

USE DEF lockVars, rowVars, txVars, workerVars, maintVars

\* recordRetention and repairStoredIndex write an expiry and a source.
LEMMA CompleteTypes ==
  ASSUME TypeOK, NEW w \in Workers, job[w].run \in Runs, job[w].exp \in Times, CompleteDerived(w)
  PROVE  expires' \in [Runs -> Times \cup {None}] /\ index' \in [Runs -> Sources \cup {None, Stale}]
<1>1. PICK i \in Sources \cup {None, Stale} : index' = [index EXCEPT ![job[w].run] = i]
  <2> DEFINE i == IF Current(job[w].run) THEN index[job[w].run] ELSE src[job[w].run]
  <2>1. i \in Sources \cup {None, Stale}
    BY Zenon DEF TypeOK
  <2>2. index' = [index EXCEPT ![job[w].run] = i]
    BY Zenon DEF CompleteDerived
  <2> QED
    BY Zenon, <2>1, <2>2
<1>2. expires' \in [Runs -> Times \cup {None}]
  BY Zenon DEF CompleteDerived, TypeOK
<1> QED
  BY Zenon, <1>1, <1>2 DEF TypeOK

\* A step inside persistRunDirectory moves one worker on, or back out.
LEMMA PersistMoves ==
  ASSUME TypeOK, JobOK, NEW w \in Workers, NEW l \in PersistLabels \cup {"release"},
         pc[w] \in PersistLabels, pc' = [pc EXCEPT ![w] = l], UNCHANGED job
  PROVE  JobOK' /\ pc' \in [Workers -> Labels]
BY Zenon DEF TypeOK, JobOK, PersistLabels, Labels

\* What a call past the lock was asked.
LEMMA Asked ==
  ASSUME TypeOK, JobOK, NEW w \in Workers, pc[w] \in PersistLabels
  PROVE  /\ job[w].run \in Runs /\ job[w].src \in Sources /\ job[w].exp \in Times
         /\ Needs(job[w].src) \subseteq Blobs
BY SMTT(30), SourcesHaveContent DEF JobOK, PersistLabels, Needs

\* A step of persistRunDirectory under the lock.
PersistStep(w) ==
  \/ ReadKnown(w) \/ ReadRelated(w) \/ RepairKnown(w)
  \/ \E b \in Blobs : Put(w, b)
  \/ Claim(w) \/ Compare(w) \/ RecordBlob(w) \/ Commit(w)

\* It keeps the types.
LEMMA PersistTypes ==
  ASSUME TypeOK, JobOK, NEW w \in Workers, PersistStep(w)
  PROVE  TypeOK' /\ JobOK'
<1>1. /\ pc[w] \in PersistLabels /\ UNCHANGED job
      /\ \E l \in PersistLabels \cup {"release"} : pc' = [pc EXCEPT ![w] = l]
  <2>1. CASE ReadKnown(w) \/ ReadRelated(w) \/ RepairKnown(w)
    BY Zenon, <2>1 DEF ReadKnown, ReadRelated, RepairKnown, Materialise, Conflict, Goto, PersistLabels
  <2>2. CASE \E b \in Blobs : Put(w, b)
    BY Zenon, <2>2 DEF Put, Materialise, Goto, PersistLabels
  <2>3. CASE Claim(w) \/ Compare(w) \/ Commit(w)
    BY Zenon, <2>3 DEF Claim, Compare, Commit, Conflict, Goto, PersistLabels
  <2>4. CASE RecordBlob(w)
    BY <2>4 DEF RecordBlob, PersistLabels, TypeOK
  <2> QED
    BY Zenon, <2>1, <2>2, <2>3, <2>4 DEF PersistStep
<1>2. /\ job[w].run \in Runs /\ job[w].src \in Sources /\ job[w].exp \in Times
      /\ Needs(job[w].src) \subseteq Blobs
  BY Zenon, <1>1, Asked
<1>3. JobOK' /\ pc' \in [Workers -> Labels]
  BY Zenon, <1>1, PersistMoves
<1> USE DEF TypeOK
<1>4. CASE ReadKnown(w) \/ ReadRelated(w)
  <2>1. todo' \in [Workers -> SUBSET Blobs]
    BY Zenon, <1>2, <1>4 DEF ReadKnown, ReadRelated, Materialise
  <2>2. answer' \in [Workers -> Answers]
    BY Zenon, <1>4 DEF ReadKnown, ReadRelated, Conflict, Answers
  <2> QED
    BY Zenon, <1>3, <1>4, <2>1, <2>2 DEF ReadKnown, ReadRelated
<1>5. CASE RepairKnown(w)
  <2>1. todo' \in [Workers -> SUBSET Blobs]
    BY Zenon, <1>2, <1>5 DEF RepairKnown, Materialise
  <2>2. sharers' \subseteq Workers /\ answer' \in [Workers -> Answers]
    BY Zenon, <1>5 DEF RepairKnown, Committed, Answers
  <2>3. expires' \in [Runs -> Times \cup {None}] /\ index' \in [Runs -> Sources \cup {None, Stale}]
    BY Zenon, <1>2, <1>5, CompleteTypes DEF RepairKnown
  <2> QED
    BY Zenon, <1>3, <1>5, <2>1, <2>2, <2>3 DEF RepairKnown
<1>6. CASE \E b \in Blobs : Put(w, b)
  <2>1. PICK b \in Blobs : Put(w, b)
    BY Zenon, <1>6
  <2>2. todo' \in [Workers -> SUBSET Blobs] /\ objects' \subseteq Blobs
    BY Zenon, <2>1 DEF Put, Materialise
  <2> QED
    BY Zenon, <1>3, <2>1, <2>2 DEF Put
<1>7. CASE Claim(w)
  <2>1. todo' \in [Workers -> SUBSET Blobs]
    BY Zenon, <1>2, <1>7 DEF Claim
  <2>2. rowLock' \in [Runs -> Workers \cup {None}]
    BY <1>7 DEF Claim
  <2> QED
    BY Zenon, <1>3, <1>7, <2>1, <2>2 DEF Claim
<1>8. CASE Compare(w)
  <2>1. todo' \in [Workers -> SUBSET Blobs]
    BY <1>2, <1>8 DEF Compare
  <2>2. answer' \in [Workers -> Answers]
    BY Zenon, <1>8 DEF Compare, Conflict, Answers
  <2>3. rowLock' \in [Runs -> Workers \cup {None}]
    BY <1>8 DEF Compare
  <2> QED
    BY <1>3, <1>8, <2>1, <2>2 DEF Compare
<1>9. CASE RecordBlob(w)
  BY <1>3, <1>9 DEF RecordBlob
<1>10. CASE Commit(w)
  <2>1. rel' \in [Runs -> SUBSET Blobs] /\ catalog' \subseteq Blobs
    BY Zenon, <1>2, <1>10 DEF Commit
  <2>2. /\ src' \in [Runs -> Sources \cup {None}]
        /\ expires' \in [Runs -> Times \cup {None}]
        /\ index' \in [Runs -> Sources \cup {None, Stale}]
    <3>1. CASE src[job[w].run] = None
      <4>1. /\ src' = [src EXCEPT ![job[w].run] = job[w].src]
            /\ expires' = [expires EXCEPT ![job[w].run] = job[w].exp]
            /\ index' = [index EXCEPT ![job[w].run] = job[w].src]
        BY Zenon, <1>10, <3>1 DEF Commit
      <4> QED
        BY Zenon, <1>2, <4>1
    <3>2. CASE src[job[w].run] # None
      BY Zenon, <1>2, <1>10, <3>2, CompleteTypes DEF Commit
    <3> QED
      BY Zenon, <3>1, <3>2
  <2>3. sharers' \subseteq Workers /\ answer' \in [Workers -> Answers]
    BY Zenon, <1>10 DEF Commit, Committed, Answers
  <2>4. rowLock' \in [Runs -> Workers \cup {None}] /\ blobLock' \in [Blobs -> Workers \cup {None}]
    BY Zenon, <1>10 DEF Commit, EndTx
  <2> QED
    BY Zenon, <1>3, <1>10, <2>1, <2>2, <2>3, <2>4 DEF Commit
<1> QED
  BY Zenon, <1>4, <1>5, <1>6, <1>7, <1>8, <1>9, <1>10 DEF PersistStep

\* Every step keeps the types, and a call remembers what it was asked.
LEMMA TypeStep == TypeOK /\ JobOK /\ [Next]_vars => TypeOK' /\ JobOK'
<1> SUFFICES ASSUME TypeOK, JobOK, [Next]_vars PROVE TypeOK' /\ JobOK'
  OBVIOUS
<1> USE NoneIsNoValue, BlobsAreOrdered, SourcesHaveContent
<1>1. ASSUME NEW w \in Workers, NEW r \in Runs, NEW s \in Sources, NEW e \in Times, Offer(w, r, s, e)
      PROVE TypeOK' /\ JobOK'
  BY Zenon, <1>1 DEF TypeOK, JobOK, Labels, Goto, Queue, Offer
<1>2. ASSUME NEW w \in Workers, NEW r \in Runs, Rebuild(w, r) PROVE TypeOK' /\ JobOK'
  BY Zenon, <1>2 DEF TypeOK, JobOK, Labels, PersistLabels, Goto, Queue, Rebuild
<1>3. ASSUME NEW t \in Times, StartPass(t) PROVE TypeOK' /\ JobOK'
  BY Zenon, <1>3 DEF TypeOK, JobOK, PassLabels, StartPass
<1>4. ASSUME NEW w \in Workers, AcquireShared(w) PROVE TypeOK' /\ JobOK'
  BY Zenon, <1>4 DEF TypeOK, JobOK, Labels, PersistLabels, Goto, AcquireShared
<1>5. ASSUME NEW w \in Workers, Release(w) PROVE TypeOK' /\ JobOK'
  BY Zenon, <1>5 DEF TypeOK, JobOK, Labels, PersistLabels, Answers, Goto, NoJob, Release
<1>6. ASSUME NEW w \in Workers, PersistStep(w) PROVE TypeOK' /\ JobOK'
  BY Zenon, <1>6, PersistTypes
<1>7. ASSUME NEW w \in Workers, DeriveIndex(w) PROVE TypeOK' /\ JobOK'
  BY <1>7 DEF TypeOK, JobOK, Labels, PersistLabels, Goto, DeriveIndex
<1>8. ASSUME NEW w \in Workers, ReplaceIndex(w) PROVE TypeOK' /\ JobOK'
  BY ZenonT(60), <1>8 DEF TypeOK, JobOK, Labels, PersistLabels, Goto, ReplaceIndex
<1>9. ASSUME NEW w \in Workers, Fail(w) PROVE TypeOK' /\ JobOK'
  BY Zenon, <1>9 DEF TypeOK, JobOK, Labels, PersistLabels, Answers, Goto, EndTx, Fail
<1>10. ASSUME NEW w \in Workers, Crash(w) PROVE TypeOK' /\ JobOK'
  BY Zenon, <1>10 DEF TypeOK, JobOK, Labels, PersistLabels, Answers, Goto, EndTx, NoJob, Crash
<1>11. ASSUME NEW w \in Workers, Drop(w) PROVE TypeOK' /\ JobOK'
  BY Zenon, <1>11 DEF TypeOK, JobOK, EndTx, Drop
<1>12. CASE AcquireExclusive
  BY Zenon, <1>12 DEF TypeOK, JobOK, PassLabels, AcquireExclusive
<1>13. CASE SelectExpired
  BY Zenon, <1>13 DEF TypeOK, JobOK, PassLabels, SelectExpired, Expired, Archived
<1>14. CASE DeleteRuns
  BY SMTT(60), <1>14 DEF TypeOK, JobOK, PassLabels, DeleteRuns
<1>15. ASSUME NEW a \in Blobs \cup {None}, ListUnreferenced(a) PROVE TypeOK' /\ JobOK'
  BY <1>15 DEF TypeOK, JobOK, PassLabels, ListUnreferenced
<1>16. CASE DeleteCatalogRow
  BY Zenon, <1>16 DEF TypeOK, JobOK, PassLabels, DeleteCatalogRow
<1>17. CASE RemoveCatalogued
  BY Zenon, <1>17 DEF TypeOK, JobOK, PassLabels, RemoveCatalogued, RemoveObject
<1>18. ASSUME NEW y \in SUBSET Blobs, ListOrphans(y) PROVE TypeOK' /\ JobOK'
  BY Zenon, <1>18 DEF TypeOK, JobOK, PassLabels, ListOrphans
<1>19. CASE RemoveOrphan
  BY Zenon, <1>19 DEF TypeOK, JobOK, RemoveOrphan, RemoveObject
<1>20. CASE FinishPass
  BY Zenon, <1>20 DEF TypeOK, JobOK, PassLabels, FinishPass, EndPass
<1>21. CASE AbortPass
  BY Zenon, <1>21 DEF TypeOK, JobOK, PassLabels, AbortPass, EndPass
<1>22. CASE UNCHANGED vars
  BY Zenon, <1>22 DEF TypeOK, JobOK, vars
<1> QED
  BY Zenon, <1>1, <1>2, <1>3, <1>4, <1>5, <1>6, <1>7, <1>8, <1>9, <1>10, <1>11, <1>12, <1>13, <1>14, <1>15, <1>16,
     <1>17, <1>18, <1>19, <1>20, <1>21, <1>22 DEF PersistStep, Next, Request, WorkerStep, PassStep, Failure

\* withIngestionLock and withMaintenanceLock exclude one another: every step
\* keeps the lock with who is past taking it, on one side only.
LEMMA LockStep == TypeOK /\ LockOK /\ [Next]_vars => LockOK'
<1> SUFFICES ASSUME TypeOK, LockOK, [Next]_vars PROVE LockOK'
  OBVIOUS
<1> USE DEF TypeOK, LockOK, Goto, Alive
<1>1. ASSUME NEW w \in Workers, AcquireShared(w) \/ Release(w) \/ Crash(w) \/ Drop(w) \/ Fail(w) PROVE LockOK'
  BY <1>1 DEF AcquireShared, Release, Crash, Drop, Fail
<1>2. ASSUME NEW w \in Workers, ReadKnown(w) \/ ReadRelated(w) \/ RepairKnown(w) PROVE LockOK'
  BY <1>2 DEF ReadKnown, ReadRelated, RepairKnown, Materialise, Conflict, Committed
<1>3. ASSUME NEW w \in Workers, NEW b \in Blobs, Put(w, b) PROVE LockOK'
  BY Zenon, <1>3 DEF Put, Materialise
<1>4. ASSUME NEW w \in Workers, Claim(w) \/ Compare(w) \/ RecordBlob(w) PROVE LockOK'
  BY <1>4 DEF Claim, Compare, RecordBlob, Conflict
<1>5. ASSUME NEW w \in Workers, Commit(w) PROVE LockOK'
  <2>1. sharers' \subseteq sharers
    BY Zenon, <1>5 DEF Commit, Committed
  <2>2. pc' = [pc EXCEPT ![w] = "release"] /\ UNCHANGED <<exclusive, mpc, asOf>>
    BY Zenon, <1>5 DEF Commit
  <2> QED
    BY Zenon, <2>1, <2>2
<1>6. ASSUME NEW w \in Workers, DeriveIndex(w) \/ ReplaceIndex(w) PROVE LockOK'
  BY <1>6 DEF DeriveIndex, ReplaceIndex
<1>7. ASSUME NEW w \in Workers, NEW r \in Runs, Rebuild(w, r) \/ \E s \in Sources, e \in Times : Offer(w, r, s, e)
      PROVE LockOK'
  BY <1>7 DEF Offer, Rebuild
<1>8. CASE PassStep
  <2>1. CASE AcquireExclusive \/ FinishPass
    BY Zenon, <2>1 DEF AcquireExclusive, FinishPass, EndPass
  <2>2. CASE SelectExpired \/ DeleteRuns
    BY Zenon, <2>2 DEF SelectExpired, DeleteRuns
  <2>3. ASSUME NEW a, ListUnreferenced(a) \/ ListOrphans(a) PROVE LockOK'
    BY Zenon, <2>3 DEF ListUnreferenced, ListOrphans
  <2>4. CASE DeleteCatalogRow \/ RemoveCatalogued \/ RemoveOrphan
    BY Zenon, <2>4 DEF DeleteCatalogRow, RemoveCatalogued, RemoveOrphan, RemoveObject
  <2> QED
    BY Zenon, <1>8, <2>1, <2>2, <2>3, <2>4 DEF PassStep
<1>9. CASE AbortPass \/ \E t \in Times : StartPass(t)
  BY <1>9 DEF StartPass, AbortPass, EndPass
<1>10. CASE UNCHANGED vars
  BY Zenon, <1>10 DEF vars
<1> QED
  BY Zenon, <1>1, <1>2, <1>3, <1>4, <1>5, <1>6, <1>7, <1>8, <1>9, <1>10 DEF Next, Request, WorkerStep, Failure

\* Which steps write the rows of a run.
LEMMA RowsChange ==
  [Next]_vars =>
    \/ UNCHANGED rowVars
    \/ \E w \in Workers : RepairKnown(w) \/ Commit(w) \/ ReplaceIndex(w)
    \/ DeleteRuns
<1> SUFFICES ASSUME [Next]_vars,
                    ~ \E w \in Workers : RepairKnown(w) \/ Commit(w) \/ ReplaceIndex(w),
                    ~ DeleteRuns
             PROVE UNCHANGED rowVars
  OBVIOUS
<1>1. CASE Request
  BY Zenon, <1>1 DEF Request, Offer, Rebuild, StartPass
<1>2. ASSUME NEW w \in Workers, WorkerStep(w) PROVE UNCHANGED rowVars
  BY Zenon, <1>2 DEF WorkerStep, AcquireShared, Release, ReadKnown, ReadRelated, Put, Claim, Compare,
     RecordBlob, DeriveIndex
<1>3. CASE PassStep
  BY Zenon, <1>3 DEF PassStep, AcquireExclusive, SelectExpired, ListUnreferenced, DeleteCatalogRow,
     RemoveCatalogued, ListOrphans, RemoveOrphan, RemoveObject, FinishPass, EndPass
<1>4. CASE Failure
  BY Zenon, <1>4 DEF Failure, AbortPass, EndPass, Fail, Crash, Drop
<1>5. CASE UNCHANGED vars
  BY Zenon, <1>5 DEF vars
<1> QED
  BY Zenon, <1>1, <1>2, <1>3, <1>4, <1>5 DEF Next

\* Which steps write the catalog, and which take objects from the medium.
LEMMA CatalogChange ==
  [Next]_vars =>
    /\ UNCHANGED catalog \/ DeleteCatalogRow \/ \E w \in Workers : Commit(w)
    /\ objects \subseteq objects' \/ RemoveCatalogued \/ RemoveOrphan
<1> SUFFICES ASSUME [Next]_vars
             PROVE /\ UNCHANGED catalog \/ DeleteCatalogRow \/ \E w \in Workers : Commit(w)
                   /\ objects \subseteq objects' \/ RemoveCatalogued \/ RemoveOrphan
  BY SMTT(30)
<1>1. CASE Request
  BY ZenonT(30), <1>1 DEF Request, Offer, Rebuild, StartPass
<1>2. ASSUME NEW w \in Workers, WorkerStep(w)
      PROVE (UNCHANGED catalog \/ Commit(w)) /\ objects \subseteq objects'
  BY Zenon, <1>2 DEF WorkerStep, AcquireShared, Release, ReadKnown, ReadRelated, RepairKnown, Put, Claim,
     Compare, RecordBlob, Commit, DeriveIndex, ReplaceIndex
<1>3. CASE PassStep
  BY Zenon, <1>3 DEF PassStep, AcquireExclusive, SelectExpired, DeleteRuns, ListUnreferenced, DeleteCatalogRow,
     RemoveCatalogued, ListOrphans, RemoveOrphan, RemoveObject, FinishPass, EndPass
<1>4. CASE Failure
  BY Zenon, <1>4 DEF Failure, AbortPass, EndPass, Fail, Crash, Drop
<1>5. CASE UNCHANGED vars
  BY Zenon, <1>5 DEF vars
<1> QED
  BY Zenon, <1>1, <1>2, <1>3, <1>4, <1>5 DEF Next

\* v is where it was; v takes a step.
Still(v) ==
  /\ pc'[v] = pc[v] /\ job'[v] = job[v] /\ todo'[v] = todo[v] /\ answer'[v] = answer[v]
  /\ v \in sharers' <=> v \in sharers

Acts(v) ==
  \/ \E r \in Runs : Rebuild(v, r) \/ \E s \in Sources, e \in Times : Offer(v, r, s, e)
  \/ WorkerStep(v) \/ Fail(v) \/ Crash(v) \/ Drop(v)

\* A step is one worker's or the pass's: it leaves every other worker where it is.
LEMMA OneActor == TypeOK /\ [Next]_vars => \A v \in Workers : Still(v) \/ Acts(v)
<1> SUFFICES ASSUME TypeOK, [Next]_vars, NEW v \in Workers, ~Acts(v) PROVE Still(v)
  OBVIOUS
<1>1. ASSUME NEW w \in Workers, NEW r \in Runs, Rebuild(w, r) \/ \E s \in Sources, e \in Times : Offer(w, r, s, e), w # v
      PROVE Still(v)
  BY Zenon, <1>1 DEF TypeOK, Still, Goto, Offer, Rebuild
<1>2. ASSUME NEW w \in Workers, WorkerStep(w), w # v PROVE Still(v)
  <2>1. CASE AcquireShared(w) \/ Release(w) \/ ReadKnown(w) \/ ReadRelated(w)
    BY Zenon, <1>2, <2>1 DEF TypeOK, Still, Goto, AcquireShared, Release, ReadKnown, ReadRelated, Materialise,
       Conflict
  <2>2. CASE RepairKnown(w)
    BY ZenonT(60), <1>2, <2>2 DEF TypeOK, Still, Goto, RepairKnown, Materialise, Committed
  <2>3. CASE \E b \in Blobs : Put(w, b)
    BY SMTT(30), <1>2, <2>3 DEF Still, Goto, Put, Materialise
  <2>4. CASE Claim(w) \/ Compare(w) \/ RecordBlob(w)
    BY Zenon, <1>2, <2>4 DEF TypeOK, Still, Goto, Claim, Compare, RecordBlob, Conflict
  <2>5. CASE Commit(w)
    BY Zenon, <1>2, <2>5 DEF TypeOK, Still, Goto, Commit, Committed
  <2>6. CASE DeriveIndex(w) \/ ReplaceIndex(w)
    BY Zenon, <1>2, <2>6 DEF TypeOK, Still, Goto, DeriveIndex, ReplaceIndex
  <2> QED
    BY SMTT(30), <1>2, <2>1, <2>2, <2>3, <2>4, <2>5, <2>6 DEF WorkerStep
<1>3. ASSUME NEW w \in Workers, Fail(w) \/ Crash(w) \/ Drop(w), w # v PROVE Still(v)
  BY Zenon, <1>3 DEF TypeOK, Still, Goto, Fail, Crash, Drop
<1>4. CASE PassStep \/ AbortPass \/ \E t \in Times : StartPass(t)
  BY Zenon, <1>4 DEF Still, PassStep, StartPass, AcquireExclusive, SelectExpired, DeleteRuns, ListUnreferenced,
     DeleteCatalogRow, RemoveCatalogued, ListOrphans, RemoveOrphan, RemoveObject, FinishPass, AbortPass, EndPass
<1>5. CASE UNCHANGED vars
  BY Zenon, <1>5 DEF Still, vars
<1> QED
  BY Zenon, <1>1, <1>2, <1>3, <1>4, <1>5 DEF Next, Request, Failure, Acts

\* A call has no answer before it returns.
LEMMA AnswerStep == TypeOK /\ AnswerOK /\ [Next]_vars => AnswerOK'
<1> SUFFICES ASSUME TypeOK, AnswerOK, [Next]_vars, NEW v \in Workers, pc'[v] # "release"
             PROVE  answer'[v] = "none"
  BY SMTT(30) DEF AnswerOK
<1> USE DEF TypeOK, AnswerOK, Goto
<1>1. CASE Still(v)
  BY Zenon, <1>1 DEF Still
<1>2. CASE WorkerStep(v)
  <2>1. CASE AcquireShared(v) \/ Release(v) \/ ReadKnown(v) \/ ReadRelated(v)
    BY Zenon, <2>1 DEF AcquireShared, Release, ReadKnown, ReadRelated, Conflict
  <2>2. CASE RepairKnown(v)
    BY Zenon, <2>2 DEF RepairKnown
  <2>3. CASE \E b \in Blobs : Put(v, b)
    BY SMTT(30), <2>3 DEF Put
  <2>4. CASE Claim(v) \/ Compare(v) \/ RecordBlob(v)
    BY Zenon, <2>4 DEF Claim, Compare, RecordBlob, Conflict
  <2>5. CASE Commit(v) \/ DeriveIndex(v) \/ ReplaceIndex(v)
    BY Zenon, <2>5 DEF Commit, DeriveIndex, ReplaceIndex
  <2> QED
    BY Zenon, <1>2, <2>1, <2>2, <2>3, <2>4, <2>5 DEF WorkerStep
<1>3. CASE Acts(v) /\ ~WorkerStep(v)
  BY Zenon, <1>3 DEF Acts, Offer, Rebuild, Fail, Crash, Drop
<1> QED
  BY Zenon, <1>1, <1>2, <1>3, OneActor

-----------------------------------------------------------------------------

\* A relation keeps its catalog row and a catalog row its object: a commit
\* relates and catalogues only what is published, and the pass takes a row only
\* when nothing is related to it and an object only when it has no row.
LEMMA BytesStep == IInv /\ [Next]_vars => BytesOK'
<1> SUFFICES ASSUME IInv, [Next]_vars PROVE BytesOK'
  OBVIOUS
<1>0. TypeOK /\ JobOK /\ BytesOK /\ VictimsOK /\ PublishedOK /\ TxOK
  BY Zenon DEF IInv
<1> USE <1>0 DEF TypeOK, BytesOK
<1>1. ASSUME NEW w \in Workers, Commit(w) PROVE BytesOK'
  <2>1. w \in sharers /\ pc[w] = "record" /\ todo[w] = {} /\ job[w].run \in Runs
    BY Zenon, <1>1 DEF Commit, Alive, JobOK
  <2>2. \A b \in Needs(job[w].src) : b \in catalog'
    <3>1. Needs(job[w].src) \subseteq Blobs
      BY Zenon, <2>1, SourcesHaveContent DEF JobOK, PersistLabels, Needs
    <3>2. catalog' = catalog \cup {b \in Blobs : blobLock[b] = w}
      BY Zenon, <1>1 DEF Commit
    <3> QED
      BY Zenon, <2>1, <3>1, <3>2 DEF TxOK
  <2>3. \A b \in catalog' : b \in objects
    <3>1. catalog' = catalog \cup {b \in Blobs : blobLock[b] = w}
      BY Zenon, <1>1 DEF Commit
    <3>2. \A b \in Blobs : blobLock[b] = w => b \in Needs(job[w].src)
      BY NoneIsNoValue DEF TxOK
    <3> QED
      BY Zenon, <2>1, <3>1, <3>2 DEF PublishedOK
  <2>4. catalog \subseteq catalog' /\ UNCHANGED objects
    BY Zenon, <1>1 DEF Commit
  <2>5. rel' = [rel EXCEPT ![job[w].run] = @ \cup Needs(job[w].src)]
    BY Zenon, <1>1 DEF Commit
  <2> QED
    BY Zenon, <2>2, <2>3, <2>4, <2>5
<1>2. CASE DeleteCatalogRow
  BY Zenon, <1>2 DEF DeleteCatalogRow, Referenced
<1>3. CASE RemoveCatalogued \/ RemoveOrphan
  BY Zenon, <1>3 DEF RemoveCatalogued, RemoveOrphan, RemoveObject, VictimsOK, IsFirst
<1>4. CASE DeleteRuns
  BY Zenon, <1>4 DEF DeleteRuns
<1>5. ASSUME NEW w \in Workers, RepairKnown(w) \/ ReplaceIndex(w) PROVE BytesOK'
  BY Zenon, <1>5 DEF RepairKnown, ReplaceIndex
<1>6. CASE UNCHANGED rowVars /\ UNCHANGED catalog /\ objects \subseteq objects'
  BY Zenon, <1>6
<1> QED
  BY Zenon, <1>1, <1>2, <1>3, <1>4, <1>5, RowsChange, CatalogChange

\* A deletion takes a run's children along, and an index is only ever written
\* from the source that is archived.
LEMMA RowsStep == IInv /\ [Next]_vars => RowsOK' /\ IndexFromArchivedSource'
<1> SUFFICES ASSUME IInv, [Next]_vars PROVE RowsOK' /\ IndexFromArchivedSource'
  OBVIOUS
<1>0. TypeOK /\ JobOK /\ RowsOK /\ ReadOK /\ IndexFromArchivedSource
  BY Zenon DEF IInv
<1> USE <1>0 DEF TypeOK, RowsOK, IndexFromArchivedSource
<1>1. ASSUME NEW w \in Workers, Commit(w) PROVE RowsOK' /\ IndexFromArchivedSource'
  <2>1. job[w].run \in Runs /\ job[w].src \in Sources
    BY Zenon, <1>1 DEF Commit, JobOK, PersistLabels
  <2>2. src'[job[w].run] # None /\ index'[job[w].run] = src'[job[w].run]
    BY <1>1, <2>1, NoneIsNoValue DEF Commit, CompleteDerived, Current
  <2>3. \A r \in Runs \ {job[w].run} :
          src'[r] = src[r] /\ rel'[r] = rel[r] /\ expires'[r] = expires[r] /\ index'[r] = index[r]
    BY <1>1 DEF Commit, CompleteDerived
  <2>4. ASSUME NEW r \in Runs
        PROVE  /\ src'[r] = None => rel'[r] = {} /\ expires'[r] = None /\ index'[r] = None
               /\ index'[r] \in {None, Stale, src'[r]}
    <3>1. CASE r = job[w].run
      BY Zenon, <2>2, <3>1
    <3>2. CASE r \in Runs \ {job[w].run}
      BY Zenon, <2>3, <3>2
    <3> QED
      BY Zenon, <3>1, <3>2
  <2> QED
    BY Zenon, <2>4
<1>2. ASSUME NEW w \in Workers, RepairKnown(w) PROVE RowsOK' /\ IndexFromArchivedSource'
  BY <1>2 DEF RepairKnown, CompleteDerived
<1>3. ASSUME NEW w \in Workers, ReplaceIndex(w) PROVE RowsOK' /\ IndexFromArchivedSource'
  BY <1>3 DEF ReplaceIndex, ReadOK, Alive
<1>4. CASE DeleteRuns
  BY <1>4 DEF DeleteRuns
<1>5. CASE UNCHANGED rowVars
  BY Zenon, <1>5
<1> QED
  BY Zenon, <1>1, <1>2, <1>3, <1>4, RowsChange

\* The pass removes the object of the row it has just deleted, or an object it
\* found without a row: no worker can add a row while it holds the lock.
LEMMA VictimsStep == IInv /\ [Next]_vars => VictimsOK'
<1> SUFFICES ASSUME IInv, [Next]_vars PROVE VictimsOK'
  OBVIOUS
<1>0. TypeOK /\ LockOK /\ VictimsOK
  BY Zenon DEF IInv
<1> USE <1>0 DEF TypeOK, VictimsOK, LockOK
<1>1. CASE \E t \in Times : StartPass(t)
  BY Zenon, <1>1 DEF StartPass
<1>2. CASE PassStep
  <2>1. CASE AcquireExclusive \/ SelectExpired \/ DeleteRuns \/ FinishPass
    BY Zenon, <2>1 DEF AcquireExclusive, SelectExpired, DeleteRuns, FinishPass, EndPass
  <2>2. ASSUME NEW a, ListUnreferenced(a) \/ ListOrphans(a) PROVE VictimsOK'
    BY Zenon, <2>2 DEF ListUnreferenced, ListOrphans
  <2>3. CASE DeleteCatalogRow
    <3>1. PICK b \in Blobs :
             /\ IsFirst(b, victims)
             /\ \/ mpc' = "remove" /\ catalog' = catalog \ {b} /\ UNCHANGED victims
                \/ mpc' = "reclaim"
      BY Zenon, <2>3 DEF DeleteCatalogRow
    <3>2. \A c \in Blobs : IsFirst(c, victims) => c = b
      BY <3>1, BlobsAreOrdered DEF IsFirst
    <3> QED
      BY Zenon, <3>1, <3>2
  <2>4. CASE RemoveCatalogued \/ RemoveOrphan
    BY Zenon, <2>4 DEF RemoveCatalogued, RemoveOrphan, RemoveObject
  <2> QED
    BY Zenon, <1>2, <2>1, <2>2, <2>3, <2>4 DEF PassStep
<1>3. CASE AbortPass
  BY Zenon, <1>3 DEF AbortPass, EndPass
<1>4. ASSUME NEW w \in Workers, Commit(w) PROVE VictimsOK'
  BY Zenon, <1>4 DEF Commit, Alive
<1>5. CASE UNCHANGED <<maintVars, catalog>>
  BY SMTT(30), <1>5
<1>6. ASSUME NEW w \in Workers, Acts(w) PROVE Commit(w) \/ UNCHANGED <<maintVars, catalog>>
  BY Zenon, <1>6 DEF Acts, Offer, Rebuild, Fail, Crash, Drop, WorkerStep, AcquireShared, Release, ReadKnown,
     ReadRelated, RepairKnown, Put, Claim, Compare, RecordBlob, DeriveIndex, ReplaceIndex
<1> QED
  BY Zenon, <1>1, <1>2, <1>3, <1>4, <1>6 DEF Next, Request, Failure, Acts, vars

\* While some worker holds the lock, nothing leaves the catalog or the medium
\* and no run is deleted.
LEMMA SharedKeeps ==
  ASSUME IInv, [Next]_vars, sharers # {}
  PROVE  /\ catalog \subseteq catalog' /\ objects \subseteq objects'
         /\ \A r \in Runs :
              /\ src[r] # None => src'[r] = src[r]
              /\ rel[r] \subseteq rel'[r]
              /\ expires[r] # None => expires'[r] = expires[r]
              /\ src[r] # None /\ index[r] = src[r] => index'[r] = src'[r]
<1>0. TypeOK /\ LockOK /\ RowsOK /\ ReadOK
  BY Zenon DEF IInv
<1> USE <1>0 DEF TypeOK
<1>1. mpc \in {"idle", "lock"} /\ ~exclusive
  BY Zenon DEF LockOK
<1>2. catalog \subseteq catalog' /\ objects \subseteq objects'
  BY Zenon, <1>1, CatalogChange DEF DeleteCatalogRow, RemoveCatalogued, RemoveOrphan, Commit
<1>3. ASSUME NEW w \in Workers, RepairKnown(w) \/ ReplaceIndex(w) \/ Commit(w), NEW r \in Runs
      PROVE  /\ src[r] # None => src'[r] = src[r]
             /\ rel[r] \subseteq rel'[r]
             /\ expires[r] # None => expires'[r] = expires[r]
             /\ src[r] # None /\ index[r] = src[r] => index'[r] = src'[r]
  <2>1. CASE RepairKnown(w)
    BY <2>1 DEF RepairKnown, CompleteDerived
  <2>2. CASE ReplaceIndex(w)
    BY Zenon, <2>2 DEF ReplaceIndex, ReadOK, Alive
  <2>3. CASE Commit(w)
    <3>1. /\ src[r] # None => src'[r] = src[r]
          /\ rel[r] \subseteq rel'[r]
      BY Zenon, <2>3 DEF Commit
    <3>2. expires[r] # None => expires'[r] = expires[r]
      BY <2>3 DEF Commit, CompleteDerived, RowsOK
    <3>3. src[r] # None /\ index[r] = src[r] => index'[r] = src'[r]
      BY SMTT(30), <2>3 DEF Commit, CompleteDerived
    <3> QED
      BY Zenon, <3>1, <3>2, <3>3
  <2> QED
    BY Zenon, <1>3, <2>1, <2>2, <2>3
<1> QED
  BY Zenon, <1>1, <1>2, <1>3, RowsChange DEF DeleteRuns

\* What a worker published stays on the medium while its session holds the lock.
LEMMA PublishedStep == IInv /\ [Next]_vars => PublishedOK'
<1> SUFFICES ASSUME IInv, [Next]_vars, NEW v \in sharers',
                    pc'[v] \in {"put", "claim", "compare", "record"}
             PROVE  /\ pc'[v] = "put" => Needs(job'[v].src) \subseteq objects' \cup todo'[v]
                    /\ pc'[v] \in {"claim", "compare", "record"} => Needs(job'[v].src) \subseteq objects'
  BY Zenon DEF PublishedOK
<1>0. TypeOK /\ JobOK /\ PublishedOK
  BY Zenon DEF IInv
<1> USE <1>0 DEF TypeOK, Goto
<1>1. v \in Workers
  BY Zenon, TypeStep
<1>2. CASE Still(v)
  BY Zenon, <1>2, SharedKeeps DEF Still, PublishedOK
<1>3. CASE Acts(v)
  <2>1. CASE WorkerStep(v)
    <3>1. v \in sharers
      BY Zenon, <1>1, <2>1 DEF WorkerStep, AcquireShared, Release, ReadKnown, ReadRelated, RepairKnown, Put,
         Claim, Compare, RecordBlob, Commit, DeriveIndex, ReplaceIndex, Alive
    <3>2. CASE ReadKnown(v) \/ ReadRelated(v) \/ RepairKnown(v)
      BY <1>1, <3>2 DEF ReadKnown, ReadRelated, RepairKnown, Materialise, Conflict
    <3>3. ASSUME NEW b \in Blobs, Put(v, b)
          PROVE /\ pc'[v] = "put" => Needs(job'[v].src) \subseteq objects' \cup todo'[v]
                /\ pc'[v] \in {"claim", "compare", "record"} => Needs(job'[v].src) \subseteq objects'
      <4>1. /\ pc[v] = "put" /\ todo'[v] = todo[v] \ {b} /\ objects' = objects \cup {b} /\ job'[v] = job[v]
            /\ pc'[v] # "put" => pc'[v] = "claim" /\ todo'[v] = {}
        BY Zenon, <3>3 DEF Put, Materialise
      <4>2. Needs(job[v].src) \subseteq objects \cup todo[v]
        BY SMTT(30), <3>1, <4>1 DEF PublishedOK
      <4> QED
        BY Zenon, <4>1, <4>2
    <3>4. CASE Claim(v) \/ Compare(v) \/ RecordBlob(v)
      BY Zenon, <3>4 DEF Claim, Compare, RecordBlob, PublishedOK
    <3>5. CASE AcquireShared(v) \/ Release(v) \/ Commit(v) \/ DeriveIndex(v) \/ ReplaceIndex(v)
      BY SMTT(30), <1>1, <3>5 DEF AcquireShared, Release, Commit, DeriveIndex, ReplaceIndex
    <3> QED
      BY ZenonT(30), <2>1, <3>2, <3>3, <3>4, <3>5 DEF WorkerStep
  <2>2. CASE ~WorkerStep(v)
    BY Zenon, <1>3, <2>2 DEF Acts, Offer, Rebuild, Fail, Crash, Drop
  <2> QED
    BY Zenon, <2>1, <2>2
<1> QED
  BY Zenon, <1>1, <1>2, <1>3, OneActor

-----------------------------------------------------------------------------
(* Transactions. *)

\* The steps that end a worker's transaction.
EndsTx(w) == Commit(w) \/ Fail(w) \/ Crash(w) \/ Drop(w)

\* A row lock is taken by Claim or Compare and a catalog lock by RecordBlob,
\* when nobody holds it, and only the end of the holder's transaction frees it.
LEMMA TxChange ==
  ASSUME TypeOK, [Next]_vars
  PROVE  /\ \A r \in Runs :
              \/ rowLock'[r] = rowLock[r]
              \/ rowLock[r] \in Workers /\ EndsTx(rowLock[r])
              \/ \E w \in Workers : (Claim(w) \/ Compare(w)) /\ pc'[w] = "record" /\ job[w].run = r /\ rowLock'[r] = w
         /\ \A b \in Blobs :
              \/ blobLock'[b] = blobLock[b]
              \/ blobLock[b] \in Workers /\ EndsTx(blobLock[b])
              \/ \E w \in Workers : RecordBlob(w) /\ IsFirst(b, todo[w]) /\ b \notin catalog
                                    /\ blobLock'[b] = w /\ todo'[w] = todo[w] \ {b}
<1> USE DEF TypeOK, Goto
<1> DEFINE Goal ==
         /\ \A r \in Runs :
              \/ rowLock'[r] = rowLock[r]
              \/ rowLock[r] \in Workers /\ EndsTx(rowLock[r])
              \/ \E w \in Workers : (Claim(w) \/ Compare(w)) /\ pc'[w] = "record" /\ job[w].run = r /\ rowLock'[r] = w
         /\ \A b \in Blobs :
              \/ blobLock'[b] = blobLock[b]
              \/ blobLock[b] \in Workers /\ EndsTx(blobLock[b])
              \/ \E w \in Workers : RecordBlob(w) /\ IsFirst(b, todo[w]) /\ b \notin catalog
                                    /\ blobLock'[b] = w /\ todo'[w] = todo[w] \ {b}
<1>1. CASE UNCHANGED txVars
  BY Zenon, <1>1
<1>2. ASSUME NEW w \in Workers, EndsTx(w) PROVE Goal
  <2>1. EndTx(w)
    BY Zenon, <1>2 DEF EndsTx, Commit, Fail, Crash, Drop
  <2>2. \A r \in Runs : rowLock'[r] = rowLock[r] \/ rowLock[r] = w
    BY Zenon, <2>1 DEF EndTx
  <2>3. \A b \in Blobs : blobLock'[b] = blobLock[b] \/ blobLock[b] = w
    BY Zenon, <2>1 DEF EndTx
  <2> QED
    BY Zenon, <1>2, <2>2, <2>3
<1>3. ASSUME NEW w \in Workers, Claim(w) \/ Compare(w) PROVE Goal
  <2>1. UNCHANGED rowLock \/ (pc'[w] = "record" /\ rowLock' = [rowLock EXCEPT ![job[w].run] = w])
    BY Zenon, <1>3 DEF Claim, Compare
  <2>2. UNCHANGED blobLock
    BY Zenon, <1>3 DEF Claim, Compare
  <2> QED
    BY Zenon, <1>3, <2>1, <2>2
<1>4. ASSUME NEW w \in Workers, RecordBlob(w) PROVE Goal
  <2>1. PICK c \in Blobs :
          /\ IsFirst(c, todo[w])
          /\ blobLock' = [blobLock EXCEPT ![c] = IF c \in catalog THEN @ ELSE w]
          /\ todo' = [todo EXCEPT ![w] = @ \ {c}]
    BY Zenon, <1>4 DEF RecordBlob
  <2>2. UNCHANGED rowLock
    BY Zenon, <1>4 DEF RecordBlob
  <2>3. ASSUME NEW b \in Blobs, blobLock'[b] # blobLock[b] PROVE b = c /\ c \notin catalog /\ blobLock'[b] = w
    BY SMTT(30), <2>1, <2>3
  <2> QED
    BY <1>4, <2>1, <2>2
<1>5. \/ UNCHANGED txVars
      \/ \E w \in Workers : EndsTx(w) \/ Claim(w) \/ Compare(w) \/ RecordBlob(w)
  <2>1. ASSUME NEW w \in Workers, WorkerStep(w) PROVE UNCHANGED txVars \/ EndsTx(w) \/ Claim(w) \/ Compare(w) \/ RecordBlob(w)
    BY Zenon, <2>1 DEF WorkerStep, AcquireShared, Release, ReadKnown, ReadRelated, RepairKnown, Put,
       DeriveIndex, ReplaceIndex, EndsTx
  <2>2. CASE Request \/ PassStep \/ AbortPass
    BY Zenon, <2>2 DEF Request, Offer, Rebuild, StartPass, PassStep, AcquireExclusive, SelectExpired,
       DeleteRuns, ListUnreferenced, DeleteCatalogRow, RemoveCatalogued, ListOrphans, RemoveOrphan,
       RemoveObject, FinishPass, AbortPass, EndPass
  <2> QED
    BY Zenon, <2>1, <2>2 DEF Next, Failure, EndsTx, vars
<1> QED
  BY Zenon, <1>2, <1>3, <1>4, <1>5

\* A worker whose transaction ends is no longer in it.
LEMMA EndsTxLeaves ==
  ASSUME TypeOK, NEW w \in Workers, EndsTx(w), pc[w] = "record"
  PROVE  ~(w \in sharers' /\ pc'[w] = "record")
BY Zenon DEF EndsTx, Commit, Fail, Crash, Drop, TypeOK, Goto

\* A catalog row is taken under the exclusive lock, so not while a worker shares it.
LEMMA CatalogKept ==
  ASSUME IngestionAndRetentionExclude, [Next]_vars, sharers # {}
  PROVE  catalog \subseteq catalog'
BY Zenon, CatalogChange DEF DeleteCatalogRow, Commit, IngestionAndRetentionExclude

\* In its transaction a worker records the next blob or ends it.
LEMMA RecordActs ==
  ASSUME TypeOK, NEW w \in Workers, pc[w] = "record", Acts(w)
  PROVE  RecordBlob(w) \/ EndsTx(w)
BY Zenon DEF Acts, Offer, Rebuild, WorkerStep, AcquireShared, Release, ReadKnown, ReadRelated, RepairKnown,
   Put, Claim, Compare, DeriveIndex, ReplaceIndex, EndsTx

\* Locks belong to transactions in progress, the catalog locks of one
\* transaction were taken in hash order, and together with the catalog they
\* account for every blob it has recorded.
LEMMA TxStep ==
  ASSUME TypeOK, JobOK, TxOK, IngestionAndRetentionExclude, [Next]_vars,
         \A r \in Runs : rel[r] \subseteq catalog
  PROVE  TxOK'
<1>1. ASSUME NEW r \in Runs, rowLock'[r] # None
      PROVE  rowLock'[r] \in sharers' /\ pc'[rowLock'[r]] = "record" /\ job'[rowLock'[r]].run = r
  <2>1. CASE rowLock'[r] = rowLock[r]
    <3>1. PICK u \in Workers : u = rowLock[r]
      BY Zenon, <1>1, <2>1 DEF TypeOK
    <3>2. u \in sharers /\ pc[u] = "record" /\ job[u].run = r
      BY Zenon, <1>1, <2>1, <3>1 DEF TxOK
    <3>3. ~EndsTx(u)
      BY Zenon, <2>1, <3>1, NoneIsNoValue DEF EndsTx, Commit, Fail, Crash, Drop, EndTx
    <3>4. CASE Still(u)
      BY Zenon, <2>1, <3>1, <3>2, <3>4 DEF Still
    <3>5. CASE RecordBlob(u)
      BY Zenon, <3>1, <3>2, <3>5 DEF RecordBlob
    <3> QED
      BY Zenon, <3>2, <3>3, <3>4, <3>5, OneActor, RecordActs
  <2>2. ASSUME NEW w \in Workers, Claim(w) \/ Compare(w), pc'[w] = "record", job[w].run = r, rowLock'[r] = w
        PROVE  rowLock'[r] \in sharers' /\ pc'[rowLock'[r]] = "record" /\ job'[rowLock'[r]].run = r
    BY Zenon, <2>2 DEF Alive, Claim, Compare
  <2>3. CASE rowLock[r] \in Workers /\ EndsTx(rowLock[r])
    <3>1. rowLock'[r] = None
      <4>1. EndTx(rowLock[r])
        BY Zenon, <2>3 DEF EndsTx, Commit, Fail, Crash, Drop
      <4> QED
        BY Zenon, <4>1 DEF EndTx
    <3> QED
      BY SMTT(30), <1>1, <3>1
  <2> QED
    BY Zenon, <2>1, <2>2, <2>3, TxChange
<1>2. ASSUME NEW b \in Blobs, NEW u \in Workers, blobLock'[b] = u
      PROVE  /\ u \in sharers' /\ pc'[u] = "record"
             /\ b \notin catalog'
             /\ b \in Needs(job'[u].src)
             /\ \A c \in todo'[u] : b < c
  <2>1. CASE blobLock[b] = u
    <3>1. /\ u \in sharers /\ pc[u] = "record" /\ b \notin catalog /\ b \in Needs(job[u].src)
          /\ \A c \in todo[u] : b < c
      BY Zenon, <2>1, NoneIsNoValue DEF TxOK
    <3>2. ~EndsTx(u)
      BY Zenon, <1>2, NoneIsNoValue DEF EndsTx, Commit, Fail, Crash, Drop, EndTx
    <3>3. b \notin catalog'
      <4>1. ASSUME NEW w \in Workers, Commit(w) PROVE b \notin catalog'
        BY Zenon, <2>1, <3>1, <3>2, <4>1 DEF Commit, EndsTx
      <4> QED
        BY Zenon, <3>1, <4>1, CatalogChange DEF DeleteCatalogRow
    <3>4. CASE Still(u)
      BY Zenon, <3>1, <3>3, <3>4 DEF Still
    <3>5. CASE RecordBlob(u)
      BY <3>1, <3>5 DEF RecordBlob
    <3> QED
      BY Zenon, <3>1, <3>2, <3>4, <3>5, OneActor, RecordActs
  <2>2. CASE RecordBlob(u) /\ IsFirst(b, todo[u]) /\ b \notin catalog /\ todo'[u] = todo[u] \ {b}
    <3>1. pc[u] = "record" /\ u \in sharers /\ UNCHANGED <<sharers, pc, job, catalog>>
      BY Zenon, <2>2 DEF Alive, RecordBlob
    <3>2. b \in Needs(job[u].src)
      BY Zenon, <2>2, <3>1 DEF TxOK, IsFirst
    <3>3. \A c \in todo'[u] : b < c
      <4> TAKE c \in todo'[u]
      <4>1. c \in todo[u] /\ c # b
        BY Zenon, <2>2
      <4>2. b <= c /\ b \in Nat /\ c \in Nat
        BY Zenon, <2>2, <4>1, BlobsAreOrdered DEF TypeOK, IsFirst
      <4> QED
        BY <4>1, <4>2
    <3> QED
      BY Zenon, <2>2, <3>1, <3>2, <3>3
  <2>3. CASE blobLock[b] \in Workers /\ EndsTx(blobLock[b])
    <3>1. blobLock'[b] = None
      <4>1. EndTx(blobLock[b])
        BY Zenon, <2>3 DEF EndsTx, Commit, Fail, Crash, Drop
      <4> QED
        BY Zenon, <4>1 DEF EndTx
    <3> QED
      BY SMTT(30), <1>2, <3>1, NoneIsNoValue
  <2> QED
    BY Zenon, <1>2, <2>1, <2>2, <2>3, TxChange
<1>3. ASSUME NEW w \in sharers', pc'[w] = "record"
      PROVE  /\ rowLock'[job'[w].run] = w
             /\ todo'[w] \subseteq Needs(job'[w].src)
             /\ \A b \in Needs(job'[w].src) : b \in todo'[w] \cup catalog' \/ blobLock'[b] = w
  <2>1. w \in Workers
    BY Zenon, TypeStep DEF TypeOK
  <2>2. CASE Still(w)
    <3>1. /\ w \in sharers /\ pc[w] = "record" /\ rowLock[job[w].run] = w /\ job[w].run \in Runs
          /\ todo[w] \subseteq Needs(job[w].src) /\ Needs(job[w].src) \subseteq Blobs
          /\ \A b \in Needs(job[w].src) : b \in todo[w] \cup catalog \/ blobLock[b] = w
      BY <1>3, <2>1, <2>2, SourcesHaveContent DEF Still, TxOK, JobOK, PersistLabels, Needs
    <3>2. ~EndsTx(w)
      BY SMTT(30), <1>3, <2>1, <3>1, EndsTxLeaves
    <3>3. rowLock'[job[w].run] = w
      <4>1. ASSUME NEW x \in Workers, Claim(x) \/ Compare(x), pc'[x] = "record", job[x].run = job[w].run
            PROVE  rowLock[job[w].run] = None
        BY ZenonT(60), <4>1 DEF TypeOK, Goto, Claim, Compare, Conflict
      <4> QED
        BY <2>1, <3>1, <3>2, <4>1, TxChange, NoneIsNoValue
    <3>4. \A b \in Blobs : blobLock[b] = w => blobLock'[b] = w
      BY SMTT(30), <3>2, TxChange, NoneIsNoValue DEF TypeOK, RecordBlob
    <3>5. catalog \subseteq catalog'
      BY SMTT(30), <3>1, CatalogKept
    <3> QED
      BY SMTT(60), <2>2, <3>1, <3>3, <3>4, <3>5 DEF Still
  <2>3. CASE Claim(w) \/ Compare(w)
    <3>1. job[w].run \in Runs /\ UNCHANGED <<catalog, job>>
      BY ZenonT(60), <2>1, <2>3 DEF Claim, Compare, JobOK
    <3>2. rowLock'[job[w].run] = w
      BY <1>3, <2>3, <3>1 DEF TypeOK, Goto, Claim, Compare, Conflict
    <3>3. todo'[w] = Needs(job[w].src) \/ todo'[w] = Needs(job[w].src) \ rel[job[w].run]
      BY ZenonT(60), <1>3, <2>3 DEF TypeOK, Goto, Claim, Compare, Conflict
    <3> QED
      BY Zenon, <3>1, <3>2, <3>3
  <2>4. CASE RecordBlob(w)
    <3>1. PICK c \in Blobs :
            /\ blobLock' = [blobLock EXCEPT ![c] = IF c \in catalog THEN @ ELSE w]
            /\ todo' = [todo EXCEPT ![w] = @ \ {c}]
      BY ZenonT(30), <2>4 DEF RecordBlob
    <3>2. w \in sharers /\ pc[w] = "record" /\ UNCHANGED <<rowLock, catalog, job>>
      BY Zenon, <2>4 DEF RecordBlob
    <3>3. Needs(job[w].src) \subseteq Blobs
      BY Zenon, <2>1, <3>2, SourcesHaveContent DEF JobOK, PersistLabels, Needs
    <3> QED
      BY <3>1, <3>2 DEF TypeOK, TxOK
  <2>5. CASE Acts(w) /\ ~Claim(w) /\ ~Compare(w) /\ ~RecordBlob(w)
    <3>1. CASE WorkerStep(w)
      BY Zenon, <1>3, <2>1, <2>5, <3>1 DEF TypeOK, Goto, WorkerStep, AcquireShared, Release, ReadKnown,
         ReadRelated, RepairKnown, Put, Materialise, Conflict, Commit, DeriveIndex, ReplaceIndex
    <3>2. CASE ~WorkerStep(w)
      BY Zenon, <1>3, <2>5, <3>2 DEF TypeOK, Goto, Acts, Offer, Rebuild, Fail, Crash, Drop
    <3> QED
      BY Zenon, <3>1, <3>2
  <2> QED
    BY Zenon, <2>1, <2>2, <2>3, <2>4, <2>5, OneActor
<1>4. TypeOK'
  BY Zenon, TypeStep
<1>5. \A b \in Blobs : blobLock'[b] # None => blobLock'[b] \in Workers
  BY Zenon, <1>4 DEF TypeOK
<1> QED
  BY Zenon, <1>1, <1>2, <1>3, <1>5 DEF TxOK
=============================================================================
