\* Three decks, with up to two of 38 keys added, changed or left out, and up to
\* three edits and calls in all.
CONSTANTS
  Distance <- MCDistance
  FeHRange <- MCFeHRange
  MaxMassOf <- MCMaxMassOf
  IsotopesOf <- MCIsotopesOf
  BaseDecks <- MCBaseDecks
  Edits <- MCEdits
  IMFs = {2, 3}
  TrackSets <- MCTrackSets
  Specsyns <- MCSpecsyns
  Isotopes <- MCIsotopes
  MaxSteps = 3
SPECIFICATION Spec
CHECK_DEADLOCK FALSE
INVARIANTS
  KeysReportedTruly
  FehCovered
  ConstructorAcceptsConsistent
PROPERTIES
  FailureAtomic
  CurveStaysCurrent
