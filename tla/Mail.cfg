CONSTANTS
  k1 = k1
  k2 = k2
  w1 = w1
  w2 = w2
  Key = {k1, k2}
  Worker = {w1, w2}
  QueueCap = 1
  BatchLimit = 2
  MaxRetries = 2
  CancelFirst = {TRUE, FALSE}
  MaxMsgs = 3
  MaxPosts = 1
SPECIFICATION FairSpec
INVARIANTS TypeOK Conservation NoStrandedBatch StopDrainsQueue
PROPERTIES KeepsPromise EverySettled ShutdownEnds
CHECK_DEADLOCK FALSE
