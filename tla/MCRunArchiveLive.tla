-------------------------- MODULE MCRunArchiveLive --------------------------
(* Two workers and identities whose one source declares two blobs, from an  *)
(* empty archive.  Processes crash at any step; a session is lost where its *)
(* worker goes on without noticing, while it publishes bytes.  Half of the   *)
(* behaviours have two identities; in the others, with one, a retention     *)
(* pass loses its session too.                                              *)
EXTENDS LostLease

VARIABLE lossy

MCFingerprint == [s |-> "f"]
MCRequired == [f |-> {1, 2}]
MCSources == DOMAIN MCFingerprint

LiveInit == Init /\ Archived = {} /\ lossy \in BOOLEAN

OneIdentity == {None, CHOOSE r \in Runs : TRUE}

LiveNext ==
  /\ lossy' = lossy
  /\ \/ Request /\ (lossy => \A w \in Workers : job'[w].run \in OneIdentity)
     \/ \E w \in Workers :
          \/ WorkerStep(w) \/ Crash(w)
          \/ (pc[w] = "put" /\ Drop(w))
          \/ (~Alive(w) /\ Fail(w))
     \/ PassStep
     \/ AbortPass
     \/ lossy /\ LoseLease

(* A pass whose session is gone fails at its next statement. *)
LostFails == ~exclusive /\ mpc \notin {"idle", "lock"} /\ AbortPass

LiveSpec == LiveInit /\ [][LiveNext]_<<vars, lossy>> /\ Fairness /\ WF_vars(LostFails)
=============================================================================
