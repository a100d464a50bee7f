CONSTANTS
  a = a
  v1 = v1
  v2 = v2
  off = off
  w1 = w1
  Target = {a}
  Version = {v1, v2, off}
  Active = {v1, v2}
  Listable <- MCListable
  Worker = {w1}
  QueueCap = 1
  MaxLoops = 2
  MaxEdits = 2
  Root = Root
  Rule <- MCRule
  Parent <- MCParent
  Latency = {1}
  MaxErrors = 3
  MaxFlips = 1
SPECIFICATION ASpec
PROPERTY ReactivatedWithoutAlarm
CHECK_DEADLOCK FALSE
