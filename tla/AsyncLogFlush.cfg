SPECIFICATION FairSpec
CONSTANTS
  Thread = {t1, t2}
  Logger = {l1}
  NoLogger = NoLogger
  Threshold = 0
  MaxLogs = 1
PROPERTY FlushReturns
