\* One record written before the signal is enough.
SPECIFICATION Spec
CONSTANTS
  NumRecords = 1
  MaxBufferSize = 2
  FlushIntervalSecs = 1
  MaxRestarts = 0
PROPERTY FlushedBeforeExit
CHECK_DEADLOCK FALSE
