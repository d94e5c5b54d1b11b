---------------------------- MODULE RunArchiveInd ----------------------------
(***************************************************************************)
(* The inductive strengthening of the run archive's safety properties: what *)
(* each worker may rely on at each of its steps as long as its session      *)
(* holds the lock shared, and what the pass may rely on while it holds it   *)
(* exclusively.                                                             *)
(***************************************************************************)
EXTENDS RunArchive

PersistLabels == {"known", "related", "repair", "put", "claim", "compare", "record"}

\* A call past "lock" knows what it was asked.
JobOK ==
  \A w \in Workers :
    /\ pc[w] # "idle" => job[w].run \in Runs
    /\ pc[w] = "lock" /\ job[w].src # None => job[w].exp \in Times
    /\ pc[w] \in PersistLabels => job[w].src \in Sources /\ job[w].exp \in Times
    /\ pc[w] = "replace" => job[w].src \in Sources

\* A call answers only as it returns.
AnswerOK == \A w \in Workers : pc[w] # "release" => answer[w] = "none"

\* Who holds the lock is somewhere past taking it, and a pass knows its instant.
LockOK ==
  /\ \A w \in sharers : pc[w] \notin {"idle", "lock"}
  /\ exclusive <=> mpc \notin {"idle", "lock"}
  /\ exclusive => sharers = {}
  /\ mpc # "idle" => asOf \in Times

\* A run that is not archived has no children: they cascaded.
RowsOK ==
  \A r \in Runs : src[r] = None => rel[r] = {} /\ expires[r] = None /\ index[r] = None

\* A relation has its catalog row, and a catalog row its object.
BytesOK ==
  /\ \A r \in Runs : rel[r] \subseteq catalog
  /\ catalog \subseteq objects

\* The pass removes only objects the catalog does not hold.
VictimsOK ==
  /\ mpc = "remove" => \A b \in Blobs : IsFirst(b, victims) => b \notin catalog
  /\ mpc = "orphans" => victims \cap catalog = {}

\* What a worker has published is still there.
PublishedOK ==
  \A w \in sharers :
    /\ pc[w] = "put" => Needs(job[w].src) \subseteq objects \cup todo[w]
    /\ pc[w] \in {"claim", "compare", "record"} => Needs(job[w].src) \subseteq objects

\* Row and catalog locks belong to the transaction of a worker in "record".
TxOK ==
  /\ \A r \in Runs : rowLock[r] # None =>
       rowLock[r] \in sharers /\ pc[rowLock[r]] = "record" /\ job[rowLock[r]].run = r
  /\ \A b \in Blobs : blobLock[b] # None =>
       /\ blobLock[b] \in sharers /\ pc[blobLock[b]] = "record"
       /\ b \notin catalog
       /\ b \in Needs(job[blobLock[b]].src)
       /\ \A c \in todo[blobLock[b]] : b < c
  /\ \A w \in sharers : pc[w] = "record" =>
       /\ rowLock[job[w].run] = w
       /\ todo[w] \subseteq Needs(job[w].src)
       /\ \A b \in Needs(job[w].src) : b \in todo[w] \cup catalog \/ blobLock[b] = w

\* What a worker has read of the stored run is still so.
ReadOK ==
  \A w \in sharers :
    LET r == job[w].run IN
    /\ pc[w] \in {"related", "repair"} => src[r] # None /\ SameContent(w)
    /\ pc[w] = "repair" => Needs(job[w].src) \subseteq rel[r]
    /\ pc[w] = "compare" => src[r] # None
    /\ pc[w] = "record" /\ src[r] # None => SameContent(w)
    /\ pc[w] = "replace" => src[r] = job[w].src

\* The invariant the theorems rest on: each conjunct is preserved with the help
\* of the others.
IInv ==
  /\ TypeOK /\ JobOK /\ AnswerOK /\ LockOK /\ RowsOK /\ BytesOK /\ VictimsOK
  /\ PublishedOK /\ TxOK /\ ReadOK
  /\ SuccessMeansComplete /\ IndexFromArchivedSource
=============================================================================
