CONSTANTS
  p1 = p1
  p2 = p2
  h1 = h1
  h2 = h2
  Probe = {p1, p2}
  Host = {h1, h2}
  Id = {1, 2}
SPECIFICATION FairSpec
INVARIANTS TypeOK UpIsDeserved
PROPERTY EveryProbeEnds
CHECK_DEADLOCK FALSE
