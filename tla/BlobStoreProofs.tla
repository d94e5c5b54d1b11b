-------------------------- MODULE BlobStoreProofs --------------------------
(***************************************************************************)
(* What is at an object path is verified and never replaced, for any number *)
(* of writers, files and hashes.                                            *)
(***************************************************************************)
EXTENDS BlobStore, TLAPS

\* What a put knows of its own file at each of its steps.
OwnedOK ==
  /\ \A w \in Writers : pc[w] \in Owning => data[ino[w]] # "free"
  /\ \A w \in Writers : pc[w] = "copy" => ino[w] \notin synced
  /\ \A w \in Writers : pc[w] \in Owning \ {"copy"} => data[ino[w]] = hash[w]
  /\ \A w \in Writers : pc[w] \in Owning \ {"copy", "sync"} => ino[w] \in synced
  /\ \A v, w \in Writers : pc[v] \in Owning /\ pc[w] \in Owning /\ ino[v] = ino[w] => v = w

\* What may be at an object path now, or after a power loss.
ObjectsOK ==
  /\ \A i \in synced : data[i] # "free"
  /\ \A h \in Hashes : entry[h] \in residue[h]
  /\ \A h \in Hashes : \A i \in residue[h] \ {None} : i \in synced /\ data[i] \in {h, "planted"}
  /\ \A h \in Hashes : \A i \in residue[h] \ {None} :
       data[i] = "planted" => residue[h] = {i} /\ entry[h] = i

\* What removeObject knows of the file it has open.
RemoverOK ==
  /\ rpc \in {"hash", "check", "unlink"} => rino \in synced
  /\ rpc \in {"check", "unlink"} => data[rino] = rhash
  /\ rpc = "unlink" => entry[rhash] = rino

\* What a call that no removal has overtaken knows of its object path.
PublishedOK ==
  /\ \A w \in Writers : answer[w] # "none" => pc[w] = "done"
  /\ \A w \in calm : pc[w] \in {"confirm", "publish", "tidy", "hash"} => entry[hash[w]] = ino[w]
  /\ \A w \in calm : answer[w] \in {"stored", "existing"} =>
       entry[hash[w]] # None /\ data[entry[hash[w]]] = hash[w]
  /\ \A w \in calm : pc[w] = "tidy" \/ answer[w] = "stored" => None \notin residue[hash[w]]

\* The inductive invariant.
StoreInv == TypeOK /\ OwnedOK /\ ObjectsOK /\ RemoverOK /\ PublishedOK /\ TemporariesHaveOwners

USE NoneIsNoInode, HashesAreHashes
USE DEF files, putVars, rmVars, history, Owning, Goto, Answer, Fail, Throw, RemoveEnd

\* The invariant holds at the start.
LEMMA InitStore == Init => StoreInv
<1> SUFFICES ASSUME Init PROVE StoreInv
  OBVIOUS
<1>1. TypeOK
  BY DEF Init, TypeOK
<1>2. OwnedOK
  BY DEF Init, OwnedOK
<1>3. ObjectsOK
  BY DEF Init, ObjectsOK
<1>4. RemoverOK
  BY DEF Init, RemoverOK
<1>5. PublishedOK /\ TemporariesHaveOwners
  BY DEF Init, PublishedOK, TemporariesHaveOwners
<1> QED
  BY <1>1, <1>2, <1>3, <1>4, <1>5 DEF StoreInv

\* Every step keeps the types.
LEMMA StoreTypes == TypeOK /\ [Next]_vars => TypeOK'
<1> SUFFICES ASSUME TypeOK, [Next]_vars PROVE TypeOK'
  OBVIOUS
<1> USE DEF TypeOK
<1>1. ASSUME NEW w \in Writers, NEW h \in Hashes, Call(w, h) PROVE TypeOK'
  BY <1>1 DEF Call
<1>2. ASSUME NEW w \in Writers, PutStep(w) PROVE TypeOK'
  <2>1. CASE Look(w)
    BY <2>1 DEF Look
  <2>2. CASE Open(w)
    BY <2>2 DEF Open
  <2>3. CASE Verify(w)
    BY <2>3 DEF Verify
  <2>4. CASE Create(w)
    BY <2>4 DEF Create
  <2>5. CASE Copy(w)
    BY <2>5 DEF Copy
  <2>6. CASE Sync(w)
    BY <2>6 DEF Sync
  <2>7. CASE Link(w)
    BY <2>7 DEF Link
  <2>8. CASE LookAgain(w)
    BY <2>8 DEF LookAgain
  <2>9. CASE Confirm(w) \/ Publish(w) \/ Tidy(w) \/ IOError(w)
    BY <2>9 DEF Confirm, Publish, Tidy, IOError
  <2>10. CASE Return(w)
    BY <2>10 DEF Return
  <2> QED
    BY Zenon, <1>2, <2>1, <2>2, <2>3, <2>4, <2>5, <2>6, <2>7, <2>8, <2>9, <2>10 DEF PutStep
<1>3. ASSUME NEW w \in Writers, Crash(w) PROVE TypeOK'
  BY <1>3 DEF Crash
<1>4. ASSUME NEW h \in Hashes, RemoveCall(h) PROVE TypeOK'
  BY <1>4 DEF RemoveCall
<1>5. CASE RemoveStep \/ RemoveCrash
  BY <1>5 DEF RemoveStep, RemoveOpen, RemoveHash, RemoveCheck, RemoveUnlink, RemoveSync, RemoveCrash
<1>6. ASSUME NEW i \in Inodes, RemoveTemporary(i) PROVE TypeOK'
  BY <1>6 DEF RemoveTemporary
<1>7. CASE PowerLoss
  BY <1>7 DEF PowerLoss
<1>8. CASE UNCHANGED vars
  BY <1>8 DEF vars
<1> QED
  BY Zenon, <1>1, <1>2, <1>3, <1>4, <1>5, <1>6, <1>7, <1>8 DEF Next

\* What a put knows stays true: nobody else writes its file.
LEMMA OwnedStep == StoreInv /\ [Next]_vars => OwnedOK'
<1> SUFFICES ASSUME StoreInv, [Next]_vars PROVE OwnedOK'
  OBVIOUS
<1> USE DEF StoreInv, TypeOK, OwnedOK, ObjectsOK
<1>1. ASSUME NEW w \in Writers, NEW h \in Hashes, Call(w, h) PROVE OwnedOK'
  BY <1>1 DEF Call
<1>2. ASSUME NEW w \in Writers, PutStep(w) PROVE OwnedOK'
  <2>1. CASE Look(w)
    BY <2>1 DEF Look
  <2>2. CASE Open(w)
    BY <2>2 DEF Open
  <2>3. CASE Verify(w)
    BY <2>3 DEF Verify
  <2>4. CASE Create(w)
    BY <2>4 DEF Create
  <2>5. CASE Copy(w)
    BY <2>5 DEF Copy
  <2>6. CASE Sync(w)
    BY <2>6 DEF Sync
  <2>7. CASE Link(w)
    BY <2>7 DEF Link
  <2>8. CASE LookAgain(w)
    BY <2>8 DEF LookAgain
  <2>9. CASE Confirm(w)
    BY <2>9 DEF Confirm
  <2>10. CASE Publish(w)
    BY <2>10 DEF Publish
  <2>11. CASE Tidy(w)
    BY <2>11 DEF Tidy
  <2>12. CASE IOError(w)
    BY <2>12 DEF IOError
  <2>13. CASE Return(w)
    BY <2>13 DEF Return
  <2> QED
    BY Zenon, <1>2, <2>1, <2>2, <2>3, <2>4, <2>5, <2>6, <2>7, <2>8, <2>9, <2>10, <2>11, <2>12, <2>13 DEF PutStep
<1>3. ASSUME NEW w \in Writers, Crash(w) PROVE OwnedOK'
  BY <1>3 DEF Crash
<1>4. ASSUME NEW h \in Hashes, RemoveCall(h) PROVE OwnedOK'
  BY <1>4 DEF RemoveCall
<1>5. CASE RemoveStep
  <2>1. CASE RemoveOpen
    BY <2>1 DEF RemoveOpen
  <2>2. CASE RemoveHash
    BY <2>2 DEF RemoveHash
  <2>3. CASE RemoveCheck
    BY <2>3 DEF RemoveCheck
  <2>4. CASE RemoveUnlink
    BY <2>4 DEF RemoveUnlink
  <2>5. CASE RemoveSync
    BY <2>5 DEF RemoveSync
  <2> QED
    BY Zenon, <1>5, <2>1, <2>2, <2>3, <2>4, <2>5 DEF RemoveStep
<1>6. CASE RemoveCrash
  BY <1>6 DEF RemoveCrash
<1>7. ASSUME NEW i \in Inodes, RemoveTemporary(i) PROVE OwnedOK'
  BY <1>7 DEF RemoveTemporary
<1>8. CASE PowerLoss
  BY <1>8 DEF PowerLoss
<1>9. CASE UNCHANGED vars
  BY <1>9 DEF vars
<1> QED
  BY Zenon, <1>1, <1>2, <1>3, <1>4, <1>5, <1>6, <1>7, <1>8, <1>9 DEF Next

\* Only verified and synced files are ever linked, and synced files keep their bytes.
LEMMA ObjectsStep == StoreInv /\ [Next]_vars => ObjectsOK'
<1> SUFFICES ASSUME StoreInv, [Next]_vars PROVE ObjectsOK'
  OBVIOUS
<1> USE DEF StoreInv, TypeOK, OwnedOK, ObjectsOK, RemoverOK
<1>1. ASSUME NEW w \in Writers, NEW h \in Hashes, Call(w, h) PROVE ObjectsOK'
  BY <1>1 DEF Call
<1>2. ASSUME NEW w \in Writers, PutStep(w) PROVE ObjectsOK'
  <2>1. CASE Look(w)
    BY <2>1 DEF Look
  <2>2. CASE Open(w)
    BY <2>2 DEF Open
  <2>3. CASE Verify(w)
    BY <2>3 DEF Verify
  <2>4. CASE Create(w)
    BY <2>4 DEF Create
  <2>5. CASE Copy(w)
    BY <2>5 DEF Copy
  <2>6. CASE Sync(w)
    BY <2>6 DEF Sync
  <2>7. CASE Link(w)
    BY <2>7 DEF Link
  <2>8. CASE LookAgain(w)
    BY <2>8 DEF LookAgain
  <2>9. CASE Confirm(w)
    BY <2>9 DEF Confirm
  <2>10. CASE Publish(w)
    BY <2>10 DEF Publish
  <2>11. CASE Tidy(w)
    BY <2>11 DEF Tidy
  <2>12. CASE IOError(w)
    BY <2>12 DEF IOError
  <2>13. CASE Return(w)
    BY <2>13 DEF Return
  <2> QED
    BY Zenon, <1>2, <2>1, <2>2, <2>3, <2>4, <2>5, <2>6, <2>7, <2>8, <2>9, <2>10, <2>11, <2>12, <2>13 DEF PutStep
<1>3. ASSUME NEW w \in Writers, Crash(w) PROVE ObjectsOK'
  BY <1>3 DEF Crash
<1>4. ASSUME NEW h \in Hashes, RemoveCall(h) PROVE ObjectsOK'
  BY <1>4 DEF RemoveCall
<1>5. CASE RemoveStep
  <2>1. CASE RemoveOpen
    BY <2>1 DEF RemoveOpen
  <2>2. CASE RemoveHash
    BY <2>2 DEF RemoveHash
  <2>3. CASE RemoveCheck
    BY <2>3 DEF RemoveCheck
  <2>4. CASE RemoveUnlink
    BY <2>4 DEF RemoveUnlink
  <2>5. CASE RemoveSync
    BY <2>5 DEF RemoveSync
  <2> QED
    BY Zenon, <1>5, <2>1, <2>2, <2>3, <2>4, <2>5 DEF RemoveStep
<1>6. CASE RemoveCrash
  BY <1>6 DEF RemoveCrash
<1>7. ASSUME NEW i \in Inodes, RemoveTemporary(i) PROVE ObjectsOK'
  BY <1>7 DEF RemoveTemporary
<1>8. CASE PowerLoss
  BY <1>8 DEF PowerLoss
<1>9. CASE UNCHANGED vars
  BY <1>9 DEF vars
<1> QED
  BY Zenon, <1>1, <1>2, <1>3, <1>4, <1>5, <1>6, <1>7, <1>8, <1>9 DEF Next

\* What removeObject verified stays at the path until it unlinks it.
LEMMA RemoverStep == StoreInv /\ [Next]_vars => RemoverOK'
<1> SUFFICES ASSUME StoreInv, [Next]_vars PROVE RemoverOK'
  OBVIOUS
<1> USE DEF StoreInv, TypeOK, OwnedOK, ObjectsOK, RemoverOK
<1>1. ASSUME NEW w \in Writers, NEW h \in Hashes, Call(w, h) PROVE RemoverOK'
  BY <1>1 DEF Call
<1>2. ASSUME NEW w \in Writers, PutStep(w) PROVE RemoverOK'
  <2>1. CASE Look(w)
    BY <2>1 DEF Look
  <2>2. CASE Open(w)
    BY <2>2 DEF Open
  <2>3. CASE Verify(w)
    BY <2>3 DEF Verify
  <2>4. CASE Create(w)
    BY <2>4 DEF Create
  <2>5. CASE Copy(w)
    BY <2>5 DEF Copy
  <2>6. CASE Sync(w)
    BY <2>6 DEF Sync
  <2>7. CASE Link(w)
    BY <2>7 DEF Link
  <2>8. CASE LookAgain(w)
    BY <2>8 DEF LookAgain
  <2>9. CASE Confirm(w)
    BY <2>9 DEF Confirm
  <2>10. CASE Publish(w)
    BY <2>10 DEF Publish
  <2>11. CASE Tidy(w)
    BY <2>11 DEF Tidy
  <2>12. CASE IOError(w)
    BY <2>12 DEF IOError
  <2>13. CASE Return(w)
    BY <2>13 DEF Return
  <2> QED
    BY Zenon, <1>2, <2>1, <2>2, <2>3, <2>4, <2>5, <2>6, <2>7, <2>8, <2>9, <2>10, <2>11, <2>12, <2>13 DEF PutStep
<1>3. ASSUME NEW w \in Writers, Crash(w) PROVE RemoverOK'
  BY <1>3 DEF Crash
<1>4. ASSUME NEW h \in Hashes, RemoveCall(h) PROVE RemoverOK'
  BY <1>4 DEF RemoveCall
<1>5. CASE RemoveStep
  <2>1. CASE RemoveOpen
    BY <2>1 DEF RemoveOpen
  <2>2. CASE RemoveHash
    BY <2>2 DEF RemoveHash
  <2>3. CASE RemoveCheck
    BY <2>3 DEF RemoveCheck
  <2>4. CASE RemoveUnlink
    BY <2>4 DEF RemoveUnlink
  <2>5. CASE RemoveSync
    BY <2>5 DEF RemoveSync
  <2> QED
    BY Zenon, <1>5, <2>1, <2>2, <2>3, <2>4, <2>5 DEF RemoveStep
<1>6. CASE RemoveCrash
  BY <1>6 DEF RemoveCrash
<1>7. ASSUME NEW i \in Inodes, RemoveTemporary(i) PROVE RemoverOK'
  BY <1>7 DEF RemoveTemporary
<1>8. CASE PowerLoss
  BY <1>8 DEF PowerLoss
<1>9. CASE UNCHANGED vars
  BY <1>9 DEF vars
<1> QED
  BY Zenon, <1>1, <1>2, <1>3, <1>4, <1>5, <1>6, <1>7, <1>8, <1>9 DEF Next

\* A call that is not overtaken by a removal has its object at the path.
LEMMA PublishedStep == StoreInv /\ [Next]_vars => PublishedOK'
<1> SUFFICES ASSUME StoreInv, [Next]_vars PROVE PublishedOK'
  OBVIOUS
<1> USE DEF StoreInv, TypeOK, OwnedOK, ObjectsOK, PublishedOK
<1>1. ASSUME NEW w \in Writers, NEW h \in Hashes, Call(w, h) PROVE PublishedOK'
  BY <1>1 DEF Call
<1>2. ASSUME NEW w \in Writers, PutStep(w) PROVE PublishedOK'
  <2>1. CASE Look(w)
    BY <2>1 DEF Look
  <2>2. CASE Open(w)
    BY <2>2 DEF Open
  <2>3. CASE Verify(w)
    BY <2>3 DEF Verify
  <2>4. CASE Create(w)
    BY <2>4 DEF Create
  <2>5. CASE Copy(w)
    BY <2>5 DEF Copy
  <2>6. CASE Sync(w)
    BY <2>6 DEF Sync
  <2>7. CASE Link(w)
    BY SMTT(60), <2>7 DEF Link
  <2>8. CASE LookAgain(w)
    BY <2>8 DEF LookAgain
  <2>9. CASE Confirm(w)
    BY <2>9 DEF Confirm
  <2>10. CASE Publish(w)
    BY <2>10 DEF Publish
  <2>11. CASE Tidy(w)
    BY <2>11 DEF Tidy
  <2>12. CASE IOError(w)
    BY <2>12 DEF IOError
  <2>13. CASE Return(w)
    BY <2>13 DEF Return
  <2> QED
    BY Zenon, <1>2, <2>1, <2>2, <2>3, <2>4, <2>5, <2>6, <2>7, <2>8, <2>9, <2>10, <2>11, <2>12, <2>13 DEF PutStep
<1>3. ASSUME NEW w \in Writers, Crash(w) PROVE PublishedOK'
  BY <1>3 DEF Crash
<1>4. ASSUME NEW h \in Hashes, RemoveCall(h) PROVE PublishedOK'
  BY <1>4 DEF RemoveCall
<1>5. CASE RemoveStep
  <2>1. CASE RemoveOpen
    BY <2>1 DEF RemoveOpen
  <2>2. CASE RemoveHash
    BY <2>2 DEF RemoveHash
  <2>3. CASE RemoveCheck
    BY <2>3 DEF RemoveCheck
  <2>4. CASE RemoveUnlink
    BY <2>4 DEF RemoveUnlink
  <2>5. CASE RemoveSync
    BY <2>5 DEF RemoveSync
  <2> QED
    BY Zenon, <1>5, <2>1, <2>2, <2>3, <2>4, <2>5 DEF RemoveStep
<1>6. CASE RemoveCrash
  BY <1>6 DEF RemoveCrash
<1>7. ASSUME NEW i \in Inodes, RemoveTemporary(i) PROVE PublishedOK'
  BY <1>7 DEF RemoveTemporary
<1>8. CASE PowerLoss
  BY <1>8 DEF PowerLoss
<1>9. CASE UNCHANGED vars
  BY <1>9 DEF vars
<1> QED
  BY Zenon, <1>1, <1>2, <1>3, <1>4, <1>5, <1>6, <1>7, <1>8, <1>9 DEF Next

\* A step drops its own file's temporary name when it gives the file up.
LEMMA TemporaryStep == TypeOK /\ TemporariesHaveOwners /\ [Next]_vars => TemporariesHaveOwners'
<1> SUFFICES ASSUME TypeOK, TemporariesHaveOwners, [Next]_vars PROVE TemporariesHaveOwners'
  OBVIOUS
<1> USE DEF TypeOK, TemporariesHaveOwners
<1>1. ASSUME NEW w \in Writers, NEW h \in Hashes, Call(w, h) PROVE TemporariesHaveOwners'
  BY <1>1 DEF Call
<1>2. ASSUME NEW w \in Writers, PutStep(w) PROVE TemporariesHaveOwners'
  <2>1. CASE Look(w)
    BY <2>1 DEF Look
  <2>2. CASE Open(w)
    BY <2>2 DEF Open
  <2>3. CASE Verify(w)
    BY <2>3 DEF Verify
  <2>4. CASE Create(w)
    BY <2>4 DEF Create
  <2>5. CASE Copy(w)
    BY <2>5 DEF Copy
  <2>6. CASE Sync(w)
    BY <2>6 DEF Sync
  <2>7. CASE Link(w)
    BY <2>7 DEF Link
  <2>8. CASE LookAgain(w)
    BY <2>8 DEF LookAgain
  <2>9. CASE Confirm(w)
    BY <2>9 DEF Confirm
  <2>10. CASE Publish(w)
    BY <2>10 DEF Publish
  <2>11. CASE Tidy(w)
    BY <2>11 DEF Tidy
  <2>12. CASE IOError(w)
    BY <2>12 DEF IOError
  <2>13. CASE Return(w)
    BY <2>13 DEF Return
  <2> QED
    BY Zenon, <1>2, <2>1, <2>2, <2>3, <2>4, <2>5, <2>6, <2>7, <2>8, <2>9, <2>10, <2>11, <2>12, <2>13 DEF PutStep
<1>3. ASSUME NEW w \in Writers, Crash(w) PROVE TemporariesHaveOwners'
  BY <1>3 DEF Crash
<1>4. ASSUME NEW h \in Hashes, RemoveCall(h) PROVE TemporariesHaveOwners'
  BY <1>4 DEF RemoveCall
<1>5. CASE RemoveStep
  <2>1. CASE RemoveOpen
    BY <2>1 DEF RemoveOpen
  <2>2. CASE RemoveHash
    BY <2>2 DEF RemoveHash
  <2>3. CASE RemoveCheck
    BY <2>3 DEF RemoveCheck
  <2>4. CASE RemoveUnlink
    BY <2>4 DEF RemoveUnlink
  <2>5. CASE RemoveSync
    BY <2>5 DEF RemoveSync
  <2> QED
    BY Zenon, <1>5, <2>1, <2>2, <2>3, <2>4, <2>5 DEF RemoveStep
<1>6. CASE RemoveCrash
  BY <1>6 DEF RemoveCrash
<1>7. ASSUME NEW i \in Inodes, RemoveTemporary(i) PROVE TemporariesHaveOwners'
  BY <1>7 DEF RemoveTemporary
<1>8. CASE PowerLoss
  BY <1>8 DEF PowerLoss
<1>9. CASE UNCHANGED vars
  BY <1>9 DEF vars
<1> QED
  BY Zenon, <1>1, <1>2, <1>3, <1>4, <1>5, <1>6, <1>7, <1>8, <1>9 DEF Next

\* The invariant is inductive.
THEOREM StoreInvariance == Spec => []StoreInv
<1>1. StoreInv /\ [Next]_vars => StoreInv'
  BY StoreTypes, OwnedStep, ObjectsStep, RemoverStep, PublishedStep, TemporaryStep DEF StoreInv
<1> QED
  BY InitStore, <1>1, PTL DEF Spec

\* FileBlobStore.put: nothing partial or unverified is ever at an object path,
\* also after crashes and power losses.
THEOREM Verified == Spec => []OnlyVerifiedObjects
<1>1. StoreInv => OnlyVerifiedObjects
  BY SMTT(60) DEF StoreInv, TypeOK, ObjectsOK, OnlyVerifiedObjects
<1> QED
  BY StoreInvariance, <1>1, PTL

\* FileBlobStore.put: a success the caller gets is true, for winners and losers
\* of a race, unless the hash was removed meanwhile.
THEOREM PutIsTrue == Spec => []SuccessMeansPublished
<1>1. StoreInv => SuccessMeansPublished
  BY DEF StoreInv, PublishedOK, SuccessMeansPublished
<1> QED
  BY StoreInvariance, <1>1, PTL

\* FileBlobStore.put: what is reported `stored` survives a power loss.
THEOREM StoredStays == Spec => []StoredIsDurable
<1>1. StoreInv => StoredIsDurable
  BY DEF StoreInv, PublishedOK, StoredIsDurable
<1> QED
  BY StoreInvariance, <1>1, PTL

\* FileBlobStore.put: a call that returned left no temporary file.
THEOREM NoTemporaryLeft == Spec => []TemporariesHaveOwners
<1>1. StoreInv => TemporariesHaveOwners
  BY DEF StoreInv
<1> QED
  BY StoreInvariance, <1>1, PTL

\* put and removeObject: the bytes at an object path are never replaced, and a
\* corrupt object is never removed.
THEOREM Immutability == Spec => ObjectsAreImmutable
<1> DEFINE Keeps(h) == entry[h] # None =>
              /\ entry'[h] # None => data'[entry'[h]] = data[entry[h]]
              /\ data[entry[h]] = "planted" => entry'[h] = entry[h]
<1>1. ASSUME StoreInv, [Next]_vars, NEW h \in Hashes PROVE Keeps(h)
  <2> USE <1>1 DEF StoreInv, TypeOK, OwnedOK, ObjectsOK, RemoverOK
  <2>1. CASE entry' = entry /\ data' = data
    BY <2>1
  <2>2. ASSUME NEW w \in Writers, Create(w) \/ Copy(w) PROVE Keeps(h)
    BY <2>2 DEF Create, Copy
  <2>3. ASSUME NEW w \in Writers, Link(w) PROVE Keeps(h)
    BY <2>3 DEF Link
  <2>4. CASE RemoveUnlink
    BY <2>4 DEF RemoveUnlink
  <2>5. CASE PowerLoss
    BY SMTT(60), <2>5 DEF PowerLoss
  <2>6. ASSUME NEW w \in Writers, PutStep(w) PROVE Keeps(h)
    BY ZenonT(60), <2>1, <2>2, <2>3, <2>6
      DEF PutStep, Look, Open, Verify, Sync, LookAgain, Confirm, Publish, Tidy, IOError, Return
  <2>7. CASE RemoveStep
    BY SMTT(60), <2>1, <2>4, <2>7 DEF RemoveStep, RemoveOpen, RemoveHash, RemoveCheck, RemoveSync
  <2> QED
    BY <2>1, <2>5, <2>6, <2>7 DEF Next, Call, Crash, RemoveCall, RemoveCrash, RemoveTemporary, vars
<1>2. StoreInv /\ [Next]_vars => [\A h \in Hashes : Keeps(h)]_vars
  BY <1>1
<1> QED
  BY StoreInvariance, <1>2, PTL DEF Spec, ObjectsAreImmutable
=============================================================================
