\* A trial throws on one of two ranks, and the job dies; it is restarted.
\* The ranks may hang before that, which is the run error_hang.
CONSTANTS
  MaxRanks = 2
  MaxChk = 6
  UidStride = 20
  NTrial = 4
  Interval = 2
  Consolidate = FALSE
  Thread = {t1}
  RankCounts = {2}
  MaxSessions = 2
  Faults = {"crash", "error"}
SPECIFICATION Spec
INVARIANT TrialNumbersUnique
CHECK_DEADLOCK FALSE
