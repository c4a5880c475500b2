CONSTANTS
  Starts = {"a", "b", "c"}
  Pids = {"p1", "p2"}
  PidOf <- ReusedPids
  MaxFaults = 2
  Threads = {"a", "b", "c", "d"}
  NameOf <- NamesAsked
  ListenerNames = {"rpc", "control", "other", "spare"}
  Invalid = "nul"
  Environments <- AnyEnvironment
  MaxCount = 3
  MaxUnconfigured = 1
  Events = {"e1", "e2", "e3"}
  Processes = {"service", "helper"}
  ProcOf <- WrittenBy
  MaxFiles = 2
  MaxBadWrites = 2
  Checks = {"c"}
  MaximumAge = 2
  Skew = 1
  MaxTime = 3
  MaxSetback = 1
  Base = 3
  Max64 = 10
  Max128 = 29
  Max256 = 64
  Longest = 4
  MaxReceived = 5
  Values <- NestedValues
  FrameMax = 16
  MaxDepth = 3
  MaxString = 1
  MaxList = 2
SPECIFICATION HostSpec
CHECK_DEADLOCK FALSE
INVARIANTS ServiceTypeOK DirectoryInOrder ServingReachable SoleOwner AllAsAnnounced LogFaithful
           OneEncoding
PROPERTIES ChecksAreRight Recovers TakesEnd
