----------------------------- MODULE MCOperations -----------------------------
(* What is written, read, published and cleaned up beside the archive.  The     *)
(* parts share nothing: a behaviour is one of one of them, from its own initial *)
(* states.                                                                      *)
EXTENDS Release, QueryIndex, RunReads, ApiKeys, ApiTokens, StagingMaintenance, Backup

VARIABLE part

(* Run 1 happens in a leap second, the others at the moments either side of it, *)
(* one of them told with an offset.                                           *)
Stamp(d, m, s, ms, offset) == [day |-> d, minute |-> m, second |-> s, ms |-> ms, offset |-> offset]
LastMoment == Stamp(0, 1439, 59, 999, 0)
LeapSecond == Stamp(0, 1439, 60, 0, 0)
NextDayOffset == Stamp(1, 60, 0, 0, 60)
Occurrence(x, t, w) == [execution |-> x, test |-> t, when |-> w]
MCContents == <<{"c1"}, {"c2", "d2"}, {"c3"}>>
MCExecutions == [c1 |-> {Occurrence(1, "t", LeapSecond), Occurrence(2, "t", LeapSecond)},
                 c2 |-> {Occurrence(1, "t", LastMoment)},
                 d2 |-> {Occurrence(1, "t", NextDayOffset), Occurrence(2, "u", LastMoment)},
                 c3 |-> {Occurrence(1, "t", LastMoment)}]

ASSUME StampsAcceptable == \A c \in DOMAIN MCExecutions : \A e \in MCExecutions[c] : Acceptable(e.when)

MCRequires == [c |-> {"x", "y"}, d |-> {"y"}]
MCPackages == <<"protocol", "sdk">>
MCImages == <<"image one", "image two">>

MCIds == {<<0, 1, 254, 255, 16>>}
MCSecrets == {<<0, 255>>, <<171, 16>>}

Init ==
  /\ part \in {"release", "index", "reads", "keys", "tokens", "staging", "backup"}
  /\ ReadsInit /\ KeysInit /\ TokensInit /\ BackupInit
  /\ IF part = "index" THEN \E a \in {{1}, {1, 2}} : IndexInit(1, 0, 0, a) \/ IndexInit(0, 1, 0, a) \/ IndexInit(0, 0, 1, a)
     ELSE IndexInit(0, 0, 0, {})
  /\ ReleaseInit /\ (part # "release" => exact = "absent" /\ key = "k")
  /\ StagingInit /\ (part # "staging" => entry = [n \in Names |-> "none"])

Others(p) ==
  /\ p # "release" => UNCHANGED releaseVars
  /\ p # "index" => UNCHANGED indexVars
  /\ p # "reads" => UNCHANGED readsVars
  /\ p # "keys" => UNCHANGED keysVars
  /\ p # "tokens" => UNCHANGED tokenVars
  /\ p # "staging" => UNCHANGED stagingVars
  /\ p # "backup" => UNCHANGED backupVars

In(p) == part = p /\ part' = part /\ Others(p)

Next ==
  \/ In("release") /\ ReleaseNext
  \/ In("index") /\ IndexNext
  \/ In("reads") /\ ReadsNext
  \/ In("keys") /\ KeysNext
  \/ In("tokens") /\ TokensNext
  \/ In("staging") /\ StagingNext
  \/ In("backup") /\ BackupNext

vars == <<part, releaseVars, indexVars, readsVars, keysVars, tokenVars, stagingVars, backupVars>>

Spec == Init /\ [][Next]_vars
===============================================================================
