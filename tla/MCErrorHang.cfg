\* A trial throws on one of two ranks.
CONSTANTS
  MaxRanks = 2
  MaxChk = 2
  UidStride = 20
  NTrial = 2
  Interval = 2
  Consolidate = FALSE
  Thread = {t1}
  RankCounts = {2}
  MaxSessions = 1
  Faults = {"error"}
SPECIFICATION Spec
INVARIANT NoHang
