\* Two files of one record or one file of two; both exporters; one midnight.
SPECIFICATION ExportSpec
CONSTANTS
  NumRecords = 2
  MaxBufferSize = 2
  FlushIntervalSecs = 1
  MaxRestarts = 0
  DeleteAfterUpload = TRUE
  MaxDay = 1
INVARIANT NoExportLoss
PROPERTY EventuallyExported
CHECK_DEADLOCK FALSE
