CONSTANTS
  Events = {"e1", "e2"}
  Processes = {"service"}
  ProcOf <- OneProcess
  MaxFiles = 1
  MaxFaults = 2
SPECIFICATION Spec
CHECK_DEADLOCK FALSE
INVARIANTS JsonLines
