SPECIFICATION Spec
CONSTANTS
  MaxAppendRecords = 1
  MaxBytes = NoLimit
  NoLimit = NoLimit
  NoTransaction = NoTransaction
  EmptyId = EmptyId
  InvalidPartition = InvalidPartition
  InvalidOffset = InvalidOffset
  MaxEpoch = 3
  MaxProducerId = 9
  EmptyMember = EmptyMember
  InvalidPosition = InvalidPosition
  MaxGeneration = 5
  Instance = {i1}
  TransactionalId = {t1}
  ShardOf <- MCShardOf
  MailboxCapacity = 2
  Position = 7
  NoIdentity = NoIdentity
  Nobody = Nobody
  Budget <- Reliable
CHECK_DEADLOCK FALSE
INVARIANT AbortedNeverVisible
