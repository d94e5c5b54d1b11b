----------------------------- MODULE ReclaimBudget -----------------------------
(***************************************************************************)
(* How far one retention pass goes over the garbage it finds               *)
(* (packages/postgres: retention.ts; packages/blob-fs: listObjects): the    *)
(* budgets of catalogued blobs, of objects no row knows, of bytes read and  *)
(* of temporary files.                                                      *)
(* The exclusive lease is held throughout, so nothing else moves; RunArchive *)
(* has the locks and the races.                                             *)
(***************************************************************************)
EXTENDS Integers, FiniteSets, SequencesExt

CONSTANTS
  Hashes,     \* numbers, in hash order
  SizeOf,     \* SizeOf[h]
  TempNames,  \* temporary files: numbers by their age, none of them a hash
  Young,      \* what a writer may have touched since the cutoffs
  MaxBlobs, MaxUncatalogued, MaxBytes, MaxTemps, CasPage

ASSUME BudgetAssumption == {MaxBlobs, MaxUncatalogued, MaxBytes, MaxTemps, CasPage} \subseteq Nat \ {0}

VARIABLES
  catalog, \* unreferenced rows of qe_blobs
  medium,  \* objects on the medium whose row is in catalog or nowhere
  temps,   \* temporary files
  young,   \* modified at or after the cutoffs of orphans and of temporaries
  stuck,   \* objects and temporaries the medium refuses to remove
  pass     \* the pass, or the report of the last one

budgetVars == <<catalog, medium, temps, young, stuck, pass>>

Sorted(s) == SetToSortSeq(s, <)
Upto(s, n) == SubSeq(s, 1, IF Len(s) > n THEN n ELSE Len(s))

\* No row knows them, and no writer can still be about to.
Orphans == medium \ (catalog \cup young)
Abandoned == temps \ young

\* A pass begins, over rows after the hash the operator continues from.
SelectUnreferenced(after) ==
  /\ pass.pc = "done"
  /\ LET found == Upto(Sorted({h \in catalog : h > after}), MaxBlobs + 1) IN
     pass' = [pc |-> "catalogued", after |-> after, queue |-> Upto(found, MaxBlobs),
              truncated |-> Len(found) > MaxBlobs, bytes |-> MaxBytes, examined |-> <<>>,
              problems |-> {}, remaining |-> MaxUncatalogued, cursor |-> 0, more |-> TRUE]
  /\ UNCHANGED <<catalog, medium, temps, young, stuck>>

\* Slip: an object over the budget is never examined.
FitsStrictly(h) == pass.bytes >= SizeOf[h]

\* The first object a pass examines is examined however large it is.
Fits(h) == pass.examined = <<>> \/ pass.bytes >= SizeOf[h]

Charged(h) == [pass EXCEPT !.queue = Tail(@), !.bytes = @ - SizeOf[h], !.examined = Append(@, h)]

\* reclaim of a catalogued blob: its row, then its object.
ReclaimCatalogued ==
  /\ pass.pc = "catalogued" /\ pass.queue # <<>>
  /\ LET h == Head(pass.queue) IN
     \/ /\ ~Fits(h)
        /\ pass' = [pass EXCEPT !.queue = <<>>, !.truncated = TRUE]
        /\ UNCHANGED <<catalog, medium>>
     \/ /\ Fits(h)
        /\ catalog' = catalog \ {h}
        /\ medium' = IF h \in stuck THEN medium ELSE medium \ {h}
        /\ pass' = [Charged(h) EXCEPT !.problems = IF h \in stuck \cap medium THEN @ \cup {h} ELSE @]
  /\ UNCHANGED <<temps, young, stuck>>

CataloguedDone ==
  /\ pass.pc = "catalogued" /\ pass.queue = <<>>
  /\ pass' = [pass EXCEPT !.pc = "orphans"]
  /\ UNCHANGED <<catalog, medium, temps, young, stuck>>

\* Slip: a full page ends the listing one object further.
NextCursorPast(found) == IF Len(found) > CasPage THEN found[CasPage + 1] ELSE Last(found)

NextCursor(found) == found[IF Len(found) > CasPage THEN CasPage ELSE Len(found)]

\* listObjects after the cursor, and the old objects of the page no row knows.
ListObjects ==
  /\ pass.pc = "orphans" /\ pass.queue = <<>> /\ pass.more
  /\ LET found == Sorted({h \in medium : h > pass.cursor})
         page  == Upto(found, CasPage)
     IN  pass' = [pass EXCEPT !.queue = SelectSeq(page, LAMBDA h : h \in Orphans),
                              !.more = Len(found) > CasPage,
                              !.cursor = IF found = <<>> THEN @ ELSE NextCursor(found)]
  /\ UNCHANGED <<catalog, medium, temps, young, stuck>>

ReclaimOrphan ==
  /\ pass.pc = "orphans" /\ pass.queue # <<>>
  /\ LET h == Head(pass.queue) IN
     \/ /\ pass.remaining = 0 \/ ~Fits(h)
        /\ pass' = [pass EXCEPT !.queue = <<>>, !.more = FALSE, !.truncated = TRUE]
        /\ UNCHANGED medium
     \/ /\ pass.remaining > 0 /\ Fits(h)
        /\ medium' = IF h \in stuck THEN medium ELSE medium \ {h}
        /\ pass' = [Charged(h) EXCEPT !.remaining = @ - 1,
                                      !.problems = IF h \in stuck THEN @ \cup {h} ELSE @]
  /\ UNCHANGED <<catalog, temps, young, stuck>>

\* listTemporaryFiles: the oldest first, one more than the pass may remove.
ListTemporary ==
  /\ pass.pc = "orphans" /\ pass.queue = <<>> /\ ~pass.more
  /\ LET listed == Upto(Sorted(Abandoned), MaxTemps + 1) IN
     pass' = [pass EXCEPT !.pc = "temporary", !.queue = Upto(listed, MaxTemps),
                          !.truncated = @ \/ Len(listed) > MaxTemps]
  /\ UNCHANGED <<catalog, medium, temps, young, stuck>>

\* removeTemporaryFile, or the name of the file among the problems.
ReclaimTemporary ==
  /\ pass.pc = "temporary" /\ pass.queue # <<>>
  /\ LET t == Head(pass.queue) IN
     /\ temps' = temps \ ({t} \ stuck)
     /\ pass' = [pass EXCEPT !.queue = Tail(@), !.problems = @ \cup ({t} \cap stuck)]
  /\ UNCHANGED <<catalog, medium, young, stuck>>

\* The report: what is left of the pass is what it says.
EndOfPass ==
  /\ pass.pc = "temporary" /\ pass.queue = <<>>
  /\ pass' = [pass EXCEPT !.pc = "done"]
  /\ UNCHANGED <<catalog, medium, temps, young, stuck>>

\* Expired runs left rows without references; ingestions that rolled back left
\* objects without rows, killed ones temporary files; a row may have lost its object.
BudgetInit ==
  /\ stuck \in {{}} \cup {{x} : x \in Hashes \cup TempNames}
  /\ young \in {{}, Young} /\ temps \in SUBSET TempNames
  /\ catalog \in SUBSET Hashes
  /\ medium \in SUBSET Hashes
  /\ pass = [pc |-> "done", after |-> 0, truncated |-> TRUE, examined |-> <<>>, problems |-> {}]

BudgetStep == ReclaimCatalogued \/ CataloguedDone \/ ListObjects \/ ReclaimOrphan
              \/ ListTemporary \/ ReclaimTemporary \/ EndOfPass

BudgetNext == BudgetStep \/ \E after \in {0} \cup Hashes : SelectUnreferenced(after)

--------------------------------------------------------------------------------
(* Properties *)

TotalOf(s) == FoldLeft(LAMBDA n, h : n + SizeOf[h], 0, s)

\* A pass reads no more than its byte budget, but for its first object alone
\* (retention.ts, maxBytesExamined: "by at most the size of that one object, and
\* by nothing else").
BudgetHolds ==
  Len(pass.examined) > 1 => TotalOf(pass.examined) <= MaxBytes

\* A pass from the start that reports neither truncation nor a problem has left
\* no garbage behind: no row without a run, no old object without a row, no
\* abandoned temporary file.
ReportIsHonest ==
  pass.pc = "done" /\ pass.after = 0 /\ ~pass.truncated /\ pass.problems = {} =>
    catalog = {} /\ Orphans = {} /\ Abandoned = {}

\* Where the medium removes what it is asked to, repeated passes remove all
\* garbage, although one object is larger than the whole byte budget and
\* abandoned temporary files are more than a pass removes.
GarbageDrains == stuck = {} => <>[](catalog = {} /\ Orphans = {} /\ Abandoned = {})

\* A pass keeps to its budget and tells what it left.
PassIsHonest == BudgetHolds /\ ReportIsHonest
===============================================================================
