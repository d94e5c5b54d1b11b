------------------------------ MODULE Adapters ------------------------------
(***************************************************************************)
(* A process of a run reports through one adapter: the Playwright reporter  *)
(* over the TypeScript session or the JUnit listener over the Java one.     *)
(***************************************************************************)
EXTENDS PlaywrightReporter, JUnitListener

VARIABLE adapter

vars == <<adapter, session, playwrightVars, junitVars>>

Init ==
  /\ adapter \in {"playwright", "junit"}
  /\ PlaywrightInit /\ JUnitInit
  /\ adapter = "junit" => config = CHOOSE c \in Configs : TRUE

Next ==
  \/ adapter = "playwright" /\ PlaywrightNext /\ UNCHANGED <<adapter, junitVars>>
  \/ adapter = "junit" /\ JUnitNext /\ UNCHANGED <<adapter, playwrightVars>>

Spec == Init /\ [][Next]_vars

\* Whatever the runner calls, in whatever order the threads' events reach the
\* session, and at whatever moment the process dies, a session that dropped
\* nothing has left a file the validator has no error in (RunReporter: "Safe
\* under concurrent callbacks").  A plan that ends before its tests is apart:
\* the listener leaves their attempts open.
AlwaysValid == session.dropped = 0 /\ orphans = {} => Valid(session.file)
=============================================================================
