----------------------- MODULE MCTransactionalBroker ------------------------
EXTENDS TransactionalBroker, TLC

Symmetry == Permutations(Instance) \cup Permutations(TransactionalId)

\* Partition 0 beside the coordinator, partition 1 on a shard of its own.
MCShardOf == [p \in {0, 1} |-> p]

\* Two instances on one or two transactional ids, a rebalance and a lost reply.
Lossy ==
  [inits |-> 2, adds |-> 2, produces |-> 1, ends |-> 2, offsets |-> 1, rejoins |-> 1, timeouts |-> 1]

\* Nothing is lost.
Reliable ==
  [inits |-> 2, adds |-> 2, produces |-> 2, ends |-> 2, offsets |-> 1, rejoins |-> 1, timeouts |-> 0]
=============================================================================
