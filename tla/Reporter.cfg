CONSTANT MaxResults = 5
SPECIFICATION FairSpec
INVARIANTS TypeOK OnceInOrder NothingVanishes
PROPERTIES ResultsLeave StaysSeen
CHECK_DEADLOCK FALSE
