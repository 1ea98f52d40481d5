\* Five records against a queue of 2 * 2: a write can find it full.  A crash or
\* an exit at any point, and one restart over the same directory.
SPECIFICATION FairSpec
CONSTANTS
  NumRecords = 5
  MaxBufferSize = 2
  FlushIntervalSecs = 1
  MaxRestarts = 1
INVARIANTS TypeOK NoSilentLoss WriteOrder
PROPERTIES ImplementsRecordLog FilesImmutable EventuallyFlushed
CHECK_DEADLOCK FALSE
