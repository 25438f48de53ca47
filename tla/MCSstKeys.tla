------------------------------ MODULE MCSstKeys ------------------------------
EXTENDS SstKeys, TLC

Symmetry == Permutations(FlushJobs) \cup Permutations(Iterators)
=============================================================================
