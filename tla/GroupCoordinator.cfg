SPECIFICATION Spec
CONSTANTS
  EmptyMember = EmptyMember
  InvalidPosition = InvalidPosition
  MaxGeneration = 4
  Client = {c1, c2}
  Member = {1, 2, 3}
  Partitions <- MCPartitions
  Subscription <- MCSubscription
  CommitPartition = {p}
  Offset = {7}
SYMMETRY Symmetry
INVARIANTS OnlyLatestJoinerAccepted AssignmentExact BalancedPerTopic
PROPERTIES OffsetsSurviveRebalance
