\* Two ranks whose checkpoints rank 0 consolidates at the end; every session ends.
CONSTANTS
  MaxRanks = 2
  MaxChk = 3
  UidStride = 20
  NTrial = 3
  Interval = 2
  Consolidate = TRUE
  Thread = {t1}
  RankCounts = {2}
  MaxSessions = 3
  Faults = {"crash", "sigterm"}
SPECIFICATION FairSpec
INVARIANTS
  NoHang
  NoHalfTrialSaved
  SessionInv
PROPERTIES
  ClosedRowsStay
  SessionEnds
