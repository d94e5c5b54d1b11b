--------------------------- MODULE ArchiveContract ---------------------------
(***************************************************************************)
(* What the run archive promises, without locks, transactions, catalog or   *)
(* medium: an identity is archived once with one content, gets one expiry,  *)
(* is readable down to its last attachment from then on, and leaves whole   *)
(* when that expiry has passed.                                             *)
(***************************************************************************)
EXTENDS Integers

CONSTANTS Runs, Contents, Times, None

VARIABLES
  content,   \* content[r]: what r was archived with, None when it is not
  expiry,    \* expiry[r]: None for an archived run nothing manages
  readable   \* archived runs whose every attachment can be read

contractVars == <<content, expiry, readable>>

\* A store older writers left: some runs without bytes, some without expiry.
Init ==
  /\ content \in [Runs -> Contents \cup {None}]
  /\ expiry \in [Runs -> Times \cup {None}]
  /\ readable \subseteq {r \in Runs : content[r] # None}
  /\ \A r \in Runs : content[r] = None => expiry[r] = None

\* `inserted`
Archive(r, c, e) ==
  /\ content[r] = None
  /\ content' = [content EXCEPT ![r] = c]
  /\ expiry' = [expiry EXCEPT ![r] = e]
  /\ readable' = readable \cup {r}

\* `already_present`: what an older writer left out is completed.
Complete(r, e) ==
  /\ content[r] # None
  /\ expiry' = [expiry EXCEPT ![r] = IF @ = None THEN e ELSE @]
  /\ readable' = readable \cup {r}
  /\ UNCHANGED content

\* A retention pass.
Retire(gone, t) ==
  /\ \A r \in gone : expiry[r] # None /\ expiry[r] <= t
  /\ content' = [r \in Runs |-> IF r \in gone THEN None ELSE content[r]]
  /\ expiry' = [r \in Runs |-> IF r \in gone THEN None ELSE expiry[r]]
  /\ readable' = readable \ gone

Next ==
  \/ \E r \in Runs, c \in Contents, e \in Times : Archive(r, c, e)
  \/ \E r \in Runs, e \in Times : Complete(r, e)
  \/ \E gone \in SUBSET Runs, t \in Times : Retire(gone, t)

Spec == Init /\ [][Next]_contractVars
=============================================================================
