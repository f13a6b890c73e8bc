SPECIFICATION FairSpec
CONSTANTS
  Thread = {t1, t2}
  Logger = {l1, l2}
  NoLogger = NoLogger
  Threshold = 1
  MaxLogs = 1
INVARIANTS
  TypeOK
  RefMatches
  UsedAlive
  NothingLost
PROPERTIES
  ImplementsLog
  StopReturns
