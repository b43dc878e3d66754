SPECIFICATION Spec
CONSTANTS
  Group = 4
  Half = 16
  HalfInt = 8
  MaxGroups = 3
  MaxGroupsInt = 2
  MAX_RECORDS = 2
  MAX_FRAME_LEN = 24
  BatchHeader = 2
  RecordHeader = 1
  NoProducer = NoProducer
  Null = Null
  Empty = Empty
  Long = Long
  StringLen <- MCStringLen
  MAX_STRING_LEN = 3
  MAX_ARRAY_LEN = 2
  MaxAppendRecords = 2
  MaxBytes = NoLimit
  NoLimit = NoLimit
  NoTransaction = NoTransaction
  EmptyId = Empty
  InvalidPartition = InvalidPartition
  InvalidOffset = InvalidOffset
  MaxEpoch = 3
  MaxProducerId = 9
  EmptyMember = Empty
  InvalidPosition = InvalidPosition
  MaxGeneration = 9
  Session = {s1, s2}
  One = s1
  Topics <- MCTopics
  host = 5
  Hash <- MCHash
  ShardCount = 2
  MailboxCapacity = 2
  MaxFetchRecords = 2
  MaxFetchBytes = 9
  Nobody = Nobody
  Workload <- MCWorkload
CHECK_DEADLOCK FALSE
INVARIANTS AnswersAccountForEffects ReadsItsWrites OnlyFaultsClose
PROPERTIES FramesAnswered
