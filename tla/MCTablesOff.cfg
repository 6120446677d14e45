SPECIFICATION Spec
CONSTANTS
  Clusters <- MCClusters
  DisruptedAt <- MCDisruptedAt
  NTimes = 2
  NWl = 3
  Covered <- MCCovered
  Lines <- MCLines
  Threads = {1, 2}
  Configs <- MCTablesOff
  Earlier <- MCEarlier
INVARIANT
  EveryRowWrittenOnce
