---------------------- MODULE MCTransactionCoordinator ----------------------
EXTENDS TransactionCoordinator, TLC

\* Client processes, partitions and offsets are interchangeable; no property below is temporal
\* beyond one step, so the reduction is sound for all of them.
Symmetry == Permutations(Instance) \cup Permutations(Partition) \cup Permutations(Offset)
=============================================================================
