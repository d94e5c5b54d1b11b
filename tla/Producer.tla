------------------------------ MODULE Producer ------------------------------
(***************************************************************************)
(* One process that reports its part of a run: the session it writes, and   *)
(* what the validator makes of the file it has written so far, which is     *)
(* what a reader finds when the process dies at that moment.                *)
(***************************************************************************)
EXTENDS Validator, JavaSession

CONSTANT MaxDrops   \* bound: events a session drops, refuses or finds too large

ASSUME DropBound == MaxDrops \in Nat

VARIABLE session   \* the ReportSession and its event file

\* Every event of the file as a line of the run.
Lines(file) ==
  [k \in DOMAIN file |->
     [id |-> k, run |-> "run", session |-> "s", defect |-> "none"] @@ file[k]]

Read(file) == Feed(Fresh, Lines(file), TRUE)

Valid(file) == RunErrors(Read(file), FALSE) = {}

Within(sessions) == {s \in sessions : s.dropped <= MaxDrops}

\* The sessions a series of calls can leave.
EmitAll(s, events) ==
  Within(FoldLeft(LAMBDA ss, e : UNION {Emit(t, e) : t \in ss}, {s}, events))
=============================================================================
