SPECIFICATION Spec
CONSTANTS
  NoHead = NoHead
  NoAnswer = NoAnswer
  p1 = p1
  p2 = p2
  Stores <- OneStore
  Services <- OnlySigner
  Heads <- TornHeads
  Configs <- CoarseConfigs
  CoarseStamps = FALSE
  Budget <- TornBudget
INVARIANTS AckedDurable
