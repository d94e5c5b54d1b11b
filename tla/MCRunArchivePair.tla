-------------------------- MODULE MCRunArchivePair --------------------------
(* Two workers and two run identities that share a blob.                    *)
EXTENDS RunArchive, TLC

MCFingerprint == [s |-> "f", t |-> "g"]
MCRequired == [f |-> {1, 2}, g |-> {2}]
MCSources == DOMAIN MCFingerprint
Symmetry == Permutations(Workers) \cup Permutations(Runs)
=============================================================================
