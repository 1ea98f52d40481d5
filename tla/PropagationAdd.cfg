\* One group: announced, then announced again after its window.
SPECIFICATION FairSpec
CONSTANTS
  k1 = k1
  k2 = k2
  k3 = k3
  Keys <- MCKeys
  UnparsableKeys <- MCUnparsable
  NumShards = 2
  ShardOf <- MCShardOf
  Collectors = {rrc00}
  WaveDetector = TRUE
  NumRecords = 2
PROPERTY ExpiredGroupCompletes
CHECK_DEADLOCK FALSE
