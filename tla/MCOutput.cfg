SPECIFICATION Spec
CONSTANTS
  Clusters <- MCClusters
  DisruptedAt <- MCDisruptedAt
  NTimes = 2
  NWl = 3
  Covered <- MCCovered
  Lines <- MCLines
  Threads = {1, 2}
  Configs <- MCConfigs
  Earlier <- MCEarlier
INVARIANTS
  RowsAligned
  EveryRowWrittenOnce
  RngStateOnDiskFirst
