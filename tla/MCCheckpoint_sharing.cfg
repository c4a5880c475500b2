SPECIFICATION Spec
CONSTANTS
  NoHead = NoHead
  NoAnswer = NoAnswer
  p1 = p1
  p2 = p2
  Stores <- MCStores
  Services <- OnlySigner
  Heads <- SharingHeads
  Configs <- Rotation
  CoarseStamps = FALSE
  Budget <- SharingBudget
SYMMETRY Symmetry
INVARIANTS TypeOK NoFork RetainedSound
PROPERTIES AppendsAdvance KeySuccession ImplementsRegister
