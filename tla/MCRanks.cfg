\* Sessions of two ranks and of one, in any order, with crashes and SIGTERM; in the
\* second one, when it is one rank, trials may throw too.
CONSTANTS
  MaxRanks = 2
  MaxChk = 6
  UidStride = 20
  NTrial = 4
  Interval = 3
  Consolidate = FALSE
  Thread = {t1, t2}
  RankCounts = {1, 2}
  MaxSessions = 3
  Faults = {"crash", "sigterm", "error"}
SPECIFICATION Spec
SYMMETRY ThreadSymmetry
ACTION_CONSTRAINT TrialsThrowAlone
INVARIANTS
  TypeOK
  RestartIsAccurate
  TrialNumbersUnique
  UidsUnique
  UidInv
  RolloverOnlyWhenBatchDone
  RolloverNameIsFree
  TrialBudget
  GracefulExitRestartable
  RanksAgree
PROPERTIES
  ImplementsLedger
