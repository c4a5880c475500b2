CONSTANTS
  Starts = {"a", "b"}
  Pids = {"p1", "p2"}
  PidOf <- FreshPids
  MaxFaults = 0
SPECIFICATION Spec
CHECK_DEADLOCK FALSE
PROPERTY LiveNeverReplaced
