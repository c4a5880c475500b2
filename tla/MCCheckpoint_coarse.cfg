SPECIFICATION Spec
CONSTANTS
  NoHead = NoHead
  NoAnswer = NoAnswer
  p1 = p1
  p2 = p2
  Stores <- MCStores
  Services <- OnlySigner
  Heads <- CoarseHeads
  Configs <- CoarseConfigs
  CoarseStamps = TRUE
  Budget <- CoarseBudget
SYMMETRY Symmetry
INVARIANTS AckedUnique
