SPECIFICATION Spec
CONSTANTS
  NoHead = NoHead
  NoAnswer = NoAnswer
  p1 = p1
  p2 = p2
  Stores <- MCStores
  Services <- AnyService
  Heads <- PeerHeads
  Configs <- PeerConfigs
  CoarseStamps = FALSE
  Budget <- PeerBudget
SYMMETRY Symmetry
CONSTRAINT InView
INVARIANTS RetainedSound AckedDurable
PROPERTIES AckedNeverRegress
