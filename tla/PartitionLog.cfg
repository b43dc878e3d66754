SPECIFICATION Spec
CONSTANTS
  MaxAppendRecords = 2
  MaxBytes = 4
  NoLimit = NoLimit
  NoTransaction = NoTransaction
  ProducerId = {p1, p2}
  BatchEnds <- MCBatchEnds
  MaxOffset = 5
  Group = 4
  Half = 16
  HalfInt = 8
  MaxGroups = 3
  MaxGroupsInt = 2
  MAX_RECORDS = 4
  MAX_FRAME_LEN = 64
  BatchHeader = 2
  RecordHeader = 1
  NoProducer = NoProducer
INVARIANTS OffsetsTile RetainedBytesExact FetchMatchesReference EncodedFetchExact HeaderNeverSkips
PROPERTIES HistoryImmutable EvictsOnlyWhenOver ImplementsWindow
