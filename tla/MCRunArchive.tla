---------------------------- MODULE MCRunArchive ----------------------------
(* Two workers, one run identity offered in three physical forms, two of    *)
(* which have the same content.                                             *)
EXTENDS RunArchiveInd, TLC

MCFingerprint == [s1 |-> "f", s1dup |-> "f", s2 |-> "g"]
MCRequired == [f |-> {1}, g |-> {}]
MCSources == DOMAIN MCFingerprint
WorkerSymmetry == Permutations(Workers)
=============================================================================
