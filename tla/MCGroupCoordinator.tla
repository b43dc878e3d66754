------------------------- MODULE MCGroupCoordinator -------------------------
EXTENDS GroupCoordinator, TLC

\* Topics t1 (one partition) and t2 (three), in name order.
MCPartitions ==
  << [topic |-> "t1", number |-> 0],
     [topic |-> "t2", number |-> 0], [topic |-> "t2", number |-> 1], [topic |-> "t2", number |-> 2] >>

MCSubscription == {{"t1"}, {"t2"}, {"t1", "t2"}}

\* Clients are interchangeable; member ids are not, they are ordered.
Symmetry == Permutations(Client)
=============================================================================
