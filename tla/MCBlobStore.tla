---- MODULE MCBlobStore ----
\* Puts and removals of one content: paths of different hashes share nothing.
EXTENDS BlobStore, TLC

Symmetry == Permutations(Writers) \cup Permutations(Inodes)
============================
