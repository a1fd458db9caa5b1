SPECIFICATION FairSpec
CONSTANTS
  Threads = {t1, t2, t3}
  READY_BURST = 1
  YIELD_INTERVAL = 1
  MaxPosts = 2
  MaxWakes = 1
  Nobody = Nobody
  RunQueue = RunQueue
INVARIANTS
  SingleExecutor
  MailboxSound
  NoLoss
  BoundedOvertaking
PROPERTIES
  NoWorkAfterDestroy
  Settles
  RefinesRunToken
CHECK_DEADLOCK FALSE
