SPECIFICATION FairExclSpec
CONSTANTS
  Threads = {own1, t1, t2}
  Owner = own1
  READY_BURST = 1
  YIELD_INTERVAL = 1
  DRAIN_SLACK = 1
  MaxPosts = 1
  MaxWakes = 0
  Nobody = Nobody
  RunQueue = RunQueue
CHECK_DEADLOCK FALSE
PROPERTIES
  EveryMessageSettled
