CONSTANTS
  Registrar = {"r1"}
  Initial <- MCInitial
  PollAnswers = {0, 60}
  MaxIssued = 2
  MaxCrashes = 2
  MaxInstalls = 2
SPECIFICATION FairSpec
INVARIANTS TypeOK CredentialsWhole AnnouncedIsOnDisk
PROPERTY ComesUp
CHECK_DEADLOCK FALSE
