SPECIFICATION Spec
CONSTANTS
  r1 = r1
  r2 = r2
  NoState = NoState
  NoSample = NoSample
  NoEpoch = NoEpoch
  Requests <- TwoRequests
  Ms = 2
  MaxStep = 1
  U64Max = 4
  Boots <- MCBoots
  MaxUp = 3
  MaxSets = 1
SYMMETRY Symmetry
INVARIANTS TypeOK SamplerExact NoSpuriousRollback
PROPERTIES FloorNeverDecreases ForwardBounded
