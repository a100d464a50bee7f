CONSTANTS
  k1 = k1
  k2 = k2
  w1 = w1
  w2 = w2
  Key = {k1, k2}
  Worker = {w1, w2}
  QueueCap = 1
  BatchLimit = 2
  MaxRetries = 3
  CancelFirst = {TRUE}
  MaxMsgs = 2
  MaxPosts = 1
SPECIFICATION Spec
INVARIANT EnqueueIsSafe
SYMMETRY Symmetric
CHECK_DEADLOCK FALSE
