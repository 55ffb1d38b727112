SPECIFICATION FairSpec
CONSTANTS
  Codes = {c1, c2}
  FirstCode = c1
  Bumps = {"minor"}
  FirstRelease <- MCFirstRelease
  InitialLogs <- MCInitialLogs
  MaxCommits = 3
  MaxReruns = 1
  MaxReads = 2
  MaxLost = 1
INVARIANT VerdictStands
INVARIANT TipShipped
INVARIANT NoFalseAlarm
PROPERTY TagsForward
PROPERTY EventuallyShipped
CHECK_DEADLOCK FALSE
