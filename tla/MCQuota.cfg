SPECIFICATION Spec
CONSTANTS
  r1 = r1
  r2 = r2
  r3 = r3
  r4 = r4
  Requests <- MCRequests
  ReadOnly <- MCReadOnly
  Slots = 1
  Limit <- MCLimit
  Window <- MCWindow
  MaxTime = 3
  MaxLag = 1
  MaxLead = 1
  MaxDelay = 1
SYMMETRY Symmetry
INVARIANTS TypeOK SlotsConserved GatesBounded WindowBound
CHECK_DEADLOCK FALSE
