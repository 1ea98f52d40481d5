\* One anomaly, whose alert becomes overdue before the cache forgets it.  The
\* server answers as it is asked: otherwise no alert is even listed.
SPECIFICATION AlertSpec
CONSTANTS
  DetectorTasks = {detector}
  Fingerprints = {f1}
  Confidences = {60}
  RuleThresholds = {50}
  NumTargets = 1
  NumAnomalies = 1
  MaxAlerts = 2
  MaxRestarts = 0
  AnswersAsAsked = TRUE
PROPERTY EscalatedOneHigher
CHECK_DEADLOCK FALSE
