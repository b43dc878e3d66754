SPECIFICATION Spec
CONSTANTS
  EmptyId = EmptyId
  InvalidPartition = InvalidPartition
  InvalidOffset = InvalidOffset
  NoIdentity = NoIdentity
  MaxEpoch = 2
  MaxProducerId = 4
  Instance = {i1, i2, i3}
  TransactionalId = {t1, t2}
  Partition = {a}
  Offset = {o1,o2}
  MaxOffsets = 2
SYMMETRY Symmetry
INVARIANTS OnlyLatestAccepted ProducerIdsUnique CompletionExact
