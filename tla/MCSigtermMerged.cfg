\* SIGTERM stops a run on two ranks that consolidates its output.
CONSTANTS
  MaxRanks = 2
  MaxChk = 3
  UidStride = 20
  NTrial = 3
  Interval = 2
  Consolidate = TRUE
  Thread = {t1}
  RankCounts = {2}
  MaxSessions = 1
  Faults = {"sigterm"}
SPECIFICATION Spec
INVARIANT InterruptedRunRestartable
