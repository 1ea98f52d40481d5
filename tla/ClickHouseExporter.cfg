\* Four records, one per batch, against a queue of two: a write finds the queue
\* full while a batch is retried; requests outlive the process.
SPECIFICATION FairSpec
CONSTANTS
  NumRecords = 4
  BatchSize = 1
  MaxRestarts = 1
INVARIANTS TypeOK NoSilentLoss AckedStored AtMostTwice
PROPERTY EventuallySettled
CHECK_DEADLOCK FALSE
