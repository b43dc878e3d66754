SPECIFICATION ReaderSpec
CONSTANTS
  MaxAppendRecords = 2
  MaxBytes = 4
  NoLimit = NoLimit
  NoTransaction = NoTransaction
  ProducerId = {p1}
  BatchEnds <- MCBatchEnds
  MaxOffset = 5
  MaxRecords = 2
  FetchBytes = 2
PROPERTY CommittedReadsAreStable
