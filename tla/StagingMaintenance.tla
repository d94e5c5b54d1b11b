--------------------------- MODULE StagingMaintenance ---------------------------
(***************************************************************************)
(* Request directories below the staging root and the operator's cleanup   *)
(* of abandoned ones (packages/http-api: staging.ts, staging-maintenance.ts).*)
(* A directory's own modification time is that of its creation: parts are   *)
(* written below events/ and attachments/, which does not touch it.  A pass *)
(* runs in a process of its own while another instance may be serving.      *)
(***************************************************************************)
EXTENDS Naturals, Sequences

CONSTANTS
  Names,     \* names below the root, numbers in their order
  Foreign,   \* those that are not request ids
  MaxPass,   \* max of a pass
  MaxClock   \* bound: instants

ASSUME StagingAssumption == Foreign \subseteq Names /\ Names \subseteq Nat /\ MaxPass \in Nat \ {0}

VARIABLES
  clock,
  entry,   \* entry[n]: "none", "directory", "link"
  mtime,   \* mtime[n]
  live,    \* requests a server is still writing
  cleanup  \* the pass, or the report of the last one

stagingVars == <<clock, entry, mtime, live, cleanup>>

StagingTick ==
  /\ clock < MaxClock /\ clock' = clock + 1
  /\ UNCHANGED <<entry, mtime, live, cleanup>>

\* StagedUpload.create: an existing entry is an error, never reused.
CreateUpload(n) ==
  /\ n \notin Foreign /\ entry[n] = "none"
  /\ entry' = [entry EXCEPT ![n] = "directory"] /\ mtime' = [mtime EXCEPT ![n] = clock]
  /\ live' = live \cup {n}
  /\ UNCHANGED <<clock, cleanup>>

RemoveUpload(n) ==
  /\ n \in live
  /\ live' = live \ {n} /\ entry' = [entry EXCEPT ![n] = "none"]
  /\ UNCHANGED <<clock, mtime, cleanup>>

KillServer ==
  /\ live # {} /\ live' = {}
  /\ UNCHANGED <<clock, entry, mtime, cleanup>>

--------------------------------------------------------------------------------

\* readdirSync: the names there are.  The operator's instant is not after the start of
\* any request that is still running.
StartCleanup(before, destructive) ==
  /\ cleanup.pc = "ended" /\ before <= clock
  /\ \A n \in live : before <= mtime[n]
  /\ cleanup' = [pc |-> "pass", before |-> before, destructive |-> destructive,
                 names |-> {n \in Names : entry[n] # "none"},
                 entries |-> <<>>, problems |-> {}, removed |-> {}, truncated |-> FALSE]
  /\ UNCHANGED <<clock, entry, mtime, live>>

\* Slip: a directory as old as the instant counts as older.
OldEnoughOrEqual(n) == mtime[n] <= cleanup.before

OldEnough(n) == mtime[n] < cleanup.before

\* The names are visited in their order.  The name, what it is, how old it is, the
\* limit, and the removal, in this order.
VisitEntry(n) ==
  /\ cleanup.pc = "pass" /\ n \in cleanup.names /\ \A m \in cleanup.names : n <= m
  /\ LET next == [cleanup EXCEPT !.names = @ \ {n}]
     IN  \/ /\ n \in Foreign \/ entry[n] # "directory"
            /\ cleanup' = [next EXCEPT !.problems = @ \cup {n}]
            /\ UNCHANGED entry
         \/ /\ n \notin Foreign /\ entry[n] = "directory" /\ ~OldEnough(n)
            /\ cleanup' = next
            /\ UNCHANGED entry
         \/ /\ n \notin Foreign /\ entry[n] = "directory" /\ OldEnough(n)
            /\ Len(cleanup.entries) = MaxPass
            /\ cleanup' = [cleanup EXCEPT !.names = {}, !.truncated = TRUE]
            /\ UNCHANGED entry
         \/ /\ n \notin Foreign /\ entry[n] = "directory" /\ OldEnough(n)
            /\ Len(cleanup.entries) < MaxPass
            /\ \/ /\ cleanup.destructive
                  /\ entry' = [entry EXCEPT ![n] = "none"]
                  /\ cleanup' = [next EXCEPT !.entries = Append(@, n), !.removed = @ \cup {n}]
               \/ /\ cleanup.destructive
                  /\ cleanup' = [next EXCEPT !.entries = Append(@, n), !.problems = @ \cup {n}]
                  /\ UNCHANGED entry
               \/ /\ ~cleanup.destructive
                  /\ cleanup' = [next EXCEPT !.entries = Append(@, n)]
                  /\ UNCHANGED entry
  /\ UNCHANGED <<clock, mtime, live>>

EndCleanup ==
  /\ cleanup.pc = "pass" /\ cleanup.names = {}
  /\ cleanup' = [cleanup EXCEPT !.pc = "ended"]
  /\ UNCHANGED <<clock, entry, mtime, live>>

StagingInit ==
  /\ clock = 1 /\ live = {}
  /\ entry \in [Names -> {"none", "directory", "link"}]
  /\ mtime = [n \in Names |-> 0]
  /\ cleanup = [pc |-> "ended", before |-> 0, destructive |-> TRUE, names |-> {}, entries |-> <<>>,
                problems |-> {}, removed |-> {}, truncated |-> FALSE]

StagingNext ==
  \/ StagingTick \/ KillServer \/ EndCleanup
  \/ \E n \in Names : CreateUpload(n) \/ RemoveUpload(n) \/ VisitEntry(n)
  \/ \E before \in 1..MaxClock, d \in BOOLEAN : StartCleanup(before, d)

StagingSpec == StagingInit /\ [][StagingNext]_stagingVars

--------------------------------------------------------------------------------
(* Properties *)

\* A request that is still being written keeps its directory for as long as it
\* runs, although nothing it writes makes the directory look younger: the
\* instant is strict, and a request that began at it is spared (pass).
LiveKeepsItsDirectory == \A n \in live : entry[n] = "directory"

\* A cleanup that reports neither truncation nor a problem left no directory
\* older than its instant, and a preview that says so lists them all.
CleanupIsHonest ==
  cleanup.pc = "ended" /\ ~cleanup.truncated /\ cleanup.problems = {} =>
    \A n \in Names \ Foreign : entry[n] = "directory" /\ mtime[n] < cleanup.before =>
      ~cleanup.destructive /\ \E i \in DOMAIN cleanup.entries : cleanup.entries[i] = n

\* A cleanup removes what it says it does, and nothing that is in use.
CleanupIsExact == LiveKeepsItsDirectory /\ CleanupIsHonest
===============================================================================
