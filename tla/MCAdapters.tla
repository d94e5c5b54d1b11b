----------------------------- MODULE MCAdapters -----------------------------
(* Playwright: two attempts of one test, two steps, one attachment, in a run  *)
(* of its own or a shared one.  JUnit: an engine with two classes of one     *)
(* test each, one of which may run twice.                                   *)
EXTENDS Adapters

MCConfigs == {[enabled |-> TRUE, generated |-> g, upload |-> TRUE] : g \in BOOLEAN}
MCAttempts == {[id |-> "x", exec |-> "e", number |-> 1], [id |-> "y", exec |-> "e", number |-> 2]}
MCStepId == <<"s1", "s2">>

MCParent == [E |-> "none", C |-> "E", D |-> "E", t |-> "C", w |-> "D"]
MCAttemptName == [t |-> <<"t-1", "t-2">>, w |-> <<"w-1">>]

\* Entries are published by the thread that runs the test, or by one it started.
OwnThread == [t |-> {"t"}, w |-> {}]
AnyThread == [t |-> {"t", "helper"}, w |-> {}]
=============================================================================
