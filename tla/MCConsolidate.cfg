\* Two ranks that may crash, and the tool started at any time and killed at any time.
CONSTANTS
  MaxRanks = 2
  MaxChk = 3
  UidStride = 20
  NTrial = 3
  Interval = 2
  Consolidate = TRUE
  Thread = {t1}
  RankCounts = {2}
  MaxSessions = 2
  Faults = {"crash"}
  MaxToolRuns = 1
SPECIFICATION ToolSpec
INVARIANTS
  RowsReadOnce
PROPERTIES
  NothingLost
