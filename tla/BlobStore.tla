----------------------------- MODULE BlobStore -----------------------------
(***************************************************************************)
(* FileBlobStore (packages/blob-fs): immutable objects under their hash, on *)
(* a local filesystem several processes share.  A put copies into a         *)
(* temporary file, verifies it, and publishes it with an exclusive link.    *)
(*                                                                         *)
(* A file is an inode; an object path and a temporary name are directory    *)
(* entries.  A process may die at any step; a power loss also takes what    *)
(* was not synced: bytes of a file, or a change of a directory entry.       *)
(***************************************************************************)
EXTENDS Integers, FiniteSets

CONSTANTS
  Hashes,   \* the hashes of the contents in play
  Writers,  \* calls of put
  Inodes,   \* files that may be created
  None

ASSUME NoneIsNoInode == None \notin Inodes
ASSUME HashesAreHashes == {"free", "partial", "planted", "other"} \cap Hashes = {}

VARIABLES
  data,     \* data[i]: the hash of file i's bytes, or what it holds instead
  synced,   \* files whose bytes were fsynced
  entry,    \* entry[h]: the file at h's object path, None when there is none
  residue,  \* residue[h]: the entries a power loss may leave at h's path
  tmp,      \* files that have a name under the temporary directory
  pc, hash, ino, answer,         \* the puts
  rpc, rhash, rino,              \* removeObject
  calm,     \* history: puts since whose call nothing removed their hash
  killed    \* history: temporary files whose writer died

files    == <<data, synced, entry, residue, tmp>>
putVars  == <<pc, hash, ino, answer>>
rmVars   == <<rpc, rhash, rino>>
history  == <<calm, killed>>
vars == <<files, putVars, rmVars, history>>

\* An object path may hold what an operator or a failing medium left there.
Init ==
  /\ entry \in [Hashes -> Inodes \cup {None}]
  /\ \A h, g \in Hashes : entry[h] = entry[g] => h = g \/ entry[h] = None
  /\ \E planted \in SUBSET {h \in Hashes : entry[h] # None} :
       data = [i \in Inodes |->
                 IF \E h \in planted : entry[h] = i THEN "planted"
                 ELSE IF \E h \in Hashes : entry[h] = i THEN CHOOSE h \in Hashes : entry[h] = i
                 ELSE "free"]
  /\ synced = {i \in Inodes : data[i] # "free"}
  /\ residue = [h \in Hashes |-> {entry[h]}]
  /\ tmp = {} /\ calm = {} /\ killed = {}
  /\ pc = [w \in Writers |-> "idle"] /\ answer = [w \in Writers |-> "none"]
  /\ hash = [w \in Writers |-> None]
  /\ ino = [w \in Writers |-> None]
  /\ rpc = "idle" /\ rhash = None /\ rino = None

-----------------------------------------------------------------------------
(* put *)

Goto(w, l) == pc' = [pc EXCEPT ![w] = l]

\* put is called with a declared hash.
Call(w, h) ==
  /\ pc[w] = "idle"
  /\ Goto(w, "look")
  /\ hash' = [hash EXCEPT ![w] = h]
  /\ calm' = calm \cup {w}
  /\ UNCHANGED <<files, ino, answer, rmVars, killed>>

Answer(w, a) == Goto(w, "done") /\ answer' = [answer EXCEPT ![w] = a]

\* Where a put has a temporary file of its own.
Owning == {"copy", "sync", "link", "confirm", "publish", "tidy"}

\* A failure before there is a temporary file, or after it has gone.
Fail(w) == Answer(w, "error") /\ UNCHANGED tmp

\* The catch clause: whatever failed, the call's temporary file goes.
Throw(w) == Answer(w, "error") /\ tmp' = tmp \ {ino[w]}

\* existing, its first look at the object path.
Look(w) ==
  /\ pc[w] = "look"
  /\ Goto(w, IF entry[hash[w]] = None THEN "create" ELSE "open")
  /\ UNCHANGED <<files, hash, ino, answer, rmVars, history>>

\* openObject: the entry may have gone since the look.
Open(w) ==
  /\ pc[w] = "open"
  /\ IF entry[hash[w]] = None
       THEN Fail(w) /\ UNCHANGED ino
       ELSE /\ ino' = [ino EXCEPT ![w] = entry[hash[w]]]
            /\ Goto(w, "hash")
            /\ UNCHANGED <<answer, tmp>>
  /\ UNCHANGED <<data, synced, entry, residue, hash, rmVars, history>>

\* A slip: an object that is there is taken to be right.
VerifyNothing(w) ==
  /\ pc[w] = "hash"
  /\ Answer(w, "existing")
  /\ UNCHANGED <<files, hash, ino, rmVars, history>>

\* existing, the size and the full hash of the open file.
Verify(w) ==
  /\ pc[w] = "hash"
  /\ IF data[ino[w]] = hash[w]
       THEN Answer(w, "existing") /\ UNCHANGED tmp
       ELSE Fail(w)
  /\ UNCHANGED <<data, synced, entry, residue, hash, ino, rmVars, history>>

\* The source is opened and the temporary file created under a fresh name, or
\* the source is refused.
Create(w) ==
  /\ pc[w] = "create"
  /\ \/ \E i \in Inodes :
          /\ data[i] = "free"
          /\ data' = [data EXCEPT ![i] = "partial"]
          /\ tmp' = tmp \cup {i}
          /\ ino' = [ino EXCEPT ![w] = i]
          /\ Goto(w, "copy")
          /\ UNCHANGED answer
     \/ Fail(w) /\ UNCHANGED <<data, ino>>
  /\ UNCHANGED <<synced, entry, residue, hash, rmVars, history>>

\* copyAndHash of a source that may hold other bytes than the declared ones,
\* and the comparison with the declaration.
Copy(w) ==
  /\ pc[w] = "copy"
  /\ \E bytes \in {hash[w], "other"} :
       /\ data' = [data EXCEPT ![ino[w]] = bytes]
       /\ IF bytes = hash[w]
            THEN Goto(w, "sync") /\ UNCHANGED <<answer, tmp>>
            ELSE Throw(w)
  /\ UNCHANGED <<synced, entry, residue, hash, ino, rmVars, history>>

\* A slip: the bytes are not synced before they are published.
SyncLater(w) ==
  /\ pc[w] = "sync"
  /\ Goto(w, "link")
  /\ UNCHANGED <<files, hash, ino, answer, rmVars, history>>

\* fsync of the temporary file.
Sync(w) ==
  /\ pc[w] = "sync"
  /\ synced' = synced \cup {ino[w]}
  /\ Goto(w, "link")
  /\ UNCHANGED <<data, entry, residue, tmp, hash, ino, answer, rmVars, history>>

\* The exclusive link: it fails when the temporary name is gone, and loses to
\* a writer that published first.
Link(w) ==
  LET h == hash[w] IN
  /\ pc[w] = "link"
  /\ IF ino[w] \notin tmp
       THEN Throw(w) /\ UNCHANGED <<entry, residue>>
       ELSE IF entry[h] = None
         THEN /\ entry' = [entry EXCEPT ![h] = ino[w]]
              /\ residue' = [residue EXCEPT ![h] = @ \cup {ino[w]}]
              /\ Goto(w, "confirm")
              /\ UNCHANGED <<tmp, answer>>
         ELSE /\ tmp' = tmp \ {ino[w]}
              /\ Goto(w, "lost")
              /\ UNCHANGED <<entry, residue, answer>>
  /\ UNCHANGED <<data, synced, hash, ino, rmVars, history>>

\* The loser of the race looks for the winner's object, and does not publish
\* when it has vanished.
LookAgain(w) ==
  /\ pc[w] = "lost"
  /\ IF entry[hash[w]] = None
       THEN Answer(w, "error")
       ELSE Goto(w, "open") /\ UNCHANGED answer
  /\ UNCHANGED <<files, hash, ino, rmVars, history>>

\* confirmPublished: the entry must be the file that was verified.
Confirm(w) ==
  /\ pc[w] = "confirm"
  /\ IF entry[hash[w]] = ino[w]
       THEN Goto(w, "publish") /\ UNCHANGED <<tmp, answer>>
       ELSE Throw(w)
  /\ UNCHANGED <<data, synced, entry, residue, hash, ino, rmVars, history>>

\* A slip: the object directory is not synced.
PublishUnsynced(w) ==
  /\ pc[w] = "publish"
  /\ Goto(w, "tidy")
  /\ UNCHANGED <<files, hash, ino, answer, rmVars, history>>

\* syncDirectory of the object's directory.
Publish(w) ==
  /\ pc[w] = "publish"
  /\ residue' = [residue EXCEPT ![hash[w]] = {entry[hash[w]]}]
  /\ Goto(w, "tidy")
  /\ UNCHANGED <<data, synced, entry, tmp, hash, ino, answer, rmVars, history>>

\* The temporary name goes, and the call answers.
Tidy(w) ==
  /\ pc[w] = "tidy"
  /\ tmp' = tmp \ {ino[w]}
  /\ Answer(w, "stored")
  /\ UNCHANGED <<data, synced, entry, residue, hash, ino, rmVars, history>>

\* A read, write, sync, link or stat fails.
IOError(w) ==
  /\ pc[w] \in {"copy", "sync", "link", "confirm"}
  /\ Throw(w)
  /\ UNCHANGED <<data, synced, entry, residue, hash, ino, rmVars, history>>

\* The caller has its answer.
Return(w) ==
  /\ pc[w] = "done"
  /\ Goto(w, "idle")
  /\ hash' = [hash EXCEPT ![w] = None]
  /\ ino' = [ino EXCEPT ![w] = None] /\ answer' = [answer EXCEPT ![w] = "none"]
  /\ calm' = calm \ {w}
  /\ UNCHANGED <<files, rmVars, killed>>

\* The process dies; what it did to the filesystem stays.
Crash(w) ==
  /\ pc[w] \notin {"idle", "done"}
  /\ killed' = killed \cup {i \in tmp : pc[w] \in Owning /\ i = ino[w]}
  /\ Goto(w, "idle")
  /\ hash' = [hash EXCEPT ![w] = None]
  /\ ino' = [ino EXCEPT ![w] = None]
  /\ calm' = calm \ {w}
  /\ UNCHANGED <<files, answer, rmVars>>

-----------------------------------------------------------------------------
(* removeObject and removeTemporaryFile: the maintenance surface.           *)

RemoveCall(h) ==
  /\ rpc = "idle"
  /\ rpc' = "open" /\ rhash' = h
  /\ UNCHANGED <<files, putVars, rino, history>>

RemoveEnd == rpc' = "idle" /\ rhash' = None /\ rino' = None

\* The entry is opened, or is already gone.
RemoveOpen ==
  /\ rpc = "open"
  /\ IF entry[rhash] = None
       THEN RemoveEnd
       ELSE rino' = entry[rhash] /\ rpc' = "hash" /\ UNCHANGED rhash
  /\ UNCHANGED <<files, putVars, history>>

\* Size and full hash of the open file; a corrupt object stays.
RemoveHash ==
  /\ rpc = "hash"
  /\ IF data[rino] = rhash
       THEN rpc' = "check" /\ UNCHANGED <<rhash, rino>>
       ELSE RemoveEnd
  /\ UNCHANGED <<files, putVars, history>>

\* The entry must still be the file that was read.
RemoveCheck ==
  /\ rpc = "check"
  /\ IF entry[rhash] = rino
       THEN rpc' = "unlink" /\ UNCHANGED <<rhash, rino>>
       ELSE RemoveEnd
  /\ UNCHANGED <<files, putVars, history>>

RemoveUnlink ==
  /\ rpc = "unlink"
  /\ entry' = [entry EXCEPT ![rhash] = None]
  /\ residue' = [residue EXCEPT ![rhash] = @ \cup {None}]
  /\ calm' = {w \in calm : hash[w] # rhash}
  /\ rpc' = "sync"
  /\ UNCHANGED <<data, synced, tmp, putVars, rhash, rino, killed>>

RemoveSync ==
  /\ rpc = "sync"
  /\ residue' = [residue EXCEPT ![rhash] = {entry[rhash]}]
  /\ RemoveEnd
  /\ UNCHANGED <<data, synced, entry, tmp, putVars, history>>

RemoveCrash ==
  /\ rpc # "idle" /\ RemoveEnd
  /\ UNCHANGED <<files, putVars, history>>

\* removeTemporaryFile of a name listTemporaryFiles gave, whoever wrote it.
RemoveTemporary(i) ==
  /\ i \in tmp
  /\ tmp' = tmp \ {i} /\ killed' = killed \ {i}
  /\ UNCHANGED <<data, synced, entry, residue, putVars, rmVars, calm>>

\* Every process dies and what was not synced may be gone.
PowerLoss ==
  /\ \E lost \in SUBSET {i \in Inodes : data[i] # "free" /\ i \notin synced} :
       data' = [i \in Inodes |-> IF i \in lost THEN "partial" ELSE data[i]]
  /\ entry' \in [Hashes -> Inodes \cup {None}]
  /\ \A h \in Hashes : entry'[h] \in residue[h]
  /\ residue' = [h \in Hashes |-> {entry'[h]}]
  /\ synced' = {i \in Inodes : data[i] # "free"}
  /\ tmp' \in SUBSET tmp
  /\ killed' = tmp'
  /\ calm' = {}
  /\ pc' = [w \in Writers |-> "idle"] /\ answer' = [w \in Writers |-> "none"]
  /\ hash' = [w \in Writers |-> None]
  /\ ino' = [w \in Writers |-> None]
  /\ RemoveEnd

PutStep(w) ==
  \/ Look(w) \/ Open(w) \/ Verify(w) \/ Create(w) \/ Copy(w) \/ Sync(w)
  \/ Link(w) \/ LookAgain(w) \/ Confirm(w) \/ Publish(w)
  \/ Tidy(w) \/ IOError(w) \/ Return(w)

RemoveStep == RemoveOpen \/ RemoveHash \/ RemoveCheck \/ RemoveUnlink \/ RemoveSync

Next ==
  \/ \E w \in Writers, h \in Hashes : Call(w, h)
  \/ \E w \in Writers : PutStep(w) \/ Crash(w)
  \/ \E h \in Hashes : RemoveCall(h)
  \/ RemoveStep \/ RemoveCrash
  \/ \E i \in Inodes : RemoveTemporary(i)
  \/ PowerLoss

Spec == Init /\ [][Next]_vars

-----------------------------------------------------------------------------
(* Properties. *)

\* The type of every variable, and where a call has a hash and an open file.
TypeOK ==
  /\ data \in [Inodes -> Hashes \cup {"free", "partial", "planted", "other"}]
  /\ synced \subseteq Inodes /\ tmp \subseteq Inodes /\ killed \subseteq Inodes
  /\ entry \in [Hashes -> Inodes \cup {None}]
  /\ residue \in [Hashes -> SUBSET (Inodes \cup {None})]
  /\ pc \in [Writers -> {"idle", "look", "open", "hash", "create", "copy", "sync", "link", "lost",
                         "confirm", "publish", "tidy", "done"}]
  /\ hash \in [Writers -> Hashes \cup {None}]
  /\ ino \in [Writers -> Inodes \cup {None}]
  /\ answer \in [Writers -> {"none", "stored", "existing", "error"}]
  /\ rpc \in {"idle", "open", "hash", "check", "unlink", "sync"}
  /\ rhash \in Hashes \cup {None} /\ rino \in Inodes \cup {None}
  /\ calm \subseteq Writers
  /\ \A w \in Writers : pc[w] # "idle" => hash[w] \in Hashes
  /\ \A w \in Writers : pc[w] \in Owning \cup {"hash"} => ino[w] \in Inodes
  /\ rpc # "idle" => rhash \in Hashes
  /\ rpc \in {"hash", "check", "unlink"} => rino \in Inodes

\* put: no partial or unverified content ever appears at an object path, not
\* even after a power loss; only what was planted there is wrong.
OnlyVerifiedObjects ==
  \A h \in Hashes : entry[h] # None => data[entry[h]] \in {h, "planted"}

\* put: when a call reports success and nobody removed the hash meanwhile, the
\* object is there with the declared bytes, also for the loser of a race.
SuccessMeansPublished ==
  \A w \in calm : answer[w] \in {"stored", "existing"} =>
    entry[hash[w]] # None /\ data[entry[hash[w]]] = hash[w]

\* put: the temporary file of a call is gone when the call has returned; only
\* a process that died leaves one.
TemporariesHaveOwners ==
  tmp \subseteq killed \cup {ino[w] : w \in {v \in Writers : pc[v] \in Owning}}

\* put, syncDirectory: what a call reports as stored survives a power loss.
StoredIsDurable ==
  \A w \in calm : answer[w] = "stored" => None \notin residue[hash[w]]

\* put and removeObject: bytes at an object path are never replaced by others,
\* and a corrupt object stays for an operator.
ObjectsAreImmutable ==
  [][\A h \in Hashes : entry[h] # None =>
       /\ entry'[h] # None => data'[entry'[h]] = data[entry[h]]
       /\ data[entry[h]] = "planted" => entry'[h] = entry[h]]_vars
=============================================================================
