----------------------------- MODULE MCSeqAlloc -----------------------------
\* The instance of SeqAlloc for TLC: ids are interchangeable.
EXTENDS SeqAlloc, TLC

Symmetry == Permutations(HostIds) \cup Permutations(RunnerIds)
=============================================================================
