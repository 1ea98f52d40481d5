\* Two shards: k1 and k2 share one.  Three announcements from two collectors: a
\* group is extended, overwritten, flushed and created again.  All alert tasks
\* report one fingerprint: 60 can be escalated twice (75, 90), 40 is below every
\* level.  A server that answers as it is asked may fail as well, which is all
\* that one that does not can do.
SPECIFICATION AlertingSpec
CONSTANTS
  k1 = k1
  k2 = k2
  k3 = k3
  Keys <- MCKeys
  UnparsableKeys <- MCUnparsable
  NumShards = 2
  ShardOf <- MCShardOf
  Collectors = {rrc00, rrc12}
  WaveDetector = TRUE
  NumRecords = 3
  DetectorTasks = {detector, flusher}
  Fingerprints = {f1}
  Confidences = {40, 60}
  RuleThresholds = {30}
  NumTargets = 1
  NumAnomalies = 2
  MaxAlerts = 2
  MaxRestarts = 1
  AnswersAsAsked = TRUE
INVARIANTS TypeOK ArrivalsAccounted WindowOver AlertTypeOK OncePerTask SuppressedOnlyIfSent
PROPERTIES GroupsFlushed DeadlockIsFinal
CHECK_DEADLOCK FALSE
