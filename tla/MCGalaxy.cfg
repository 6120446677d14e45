\* Five kinds of decks, two seeds, output times up to 4 in any steps, and any
\* two results asked for in between.
CONSTANTS
  Tapes <- MCTapes
  Controls <- MCControls
  MaxMass = 5
  MinTrack = 2
  Lifetime <- MCLifetime
  HasSN = {3, 4}
  MaxTime = 4
  MinRate = 12
  MaxRate = 14
  MinCluster = 8
  MaxCluster = 12
  MaxSteps = 3
  MaxCalls = 2
SPECIFICATION Spec
CHECK_DEADLOCK FALSE
INVARIANTS
  DeathsCountedOnce
  CachesCoherent
  PopulationKept
  ReplayExact
