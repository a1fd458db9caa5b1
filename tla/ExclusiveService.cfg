SPECIFICATION FairExclSpec
CONSTANTS
  Threads = {own1, t1, t2}
  Owner = own1
  READY_BURST = 2
  YIELD_INTERVAL = 1
  DRAIN_SLACK = 0
  MaxPosts = 2
  MaxWakes = 1
  Nobody = Nobody
  RunQueue = RunQueue
INVARIANTS
  ExclSound
  NeverSleepsOnWork
PROPERTIES
  ExclSettles
CHECK_DEADLOCK FALSE
