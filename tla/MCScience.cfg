SPECIFICATION Spec
INVARIANTS
  CrossingsComplete
  FieldReproduced
  TracksAsRecorded
  YieldsRight
  SearchesRight
  EstimatesRight
  PolicyKept
  SpectraRight
