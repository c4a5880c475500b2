CONSTANTS
  Client <- MCClient
  Server <- MCServer
  Versions <- MCVersions
  Ops = {"move", "pay", "sign", "list"}
  ReadOnly = {"list"}
  Calls = {"m1", "m2", "m3", "p", "s", "r"}
  OpOf <- MCOpOf
  Timeout = 1
  Deployments <- MCDeployments
SPECIFICATION FairSpec
CHECK_DEADLOCK FALSE
INVARIANTS TypeOK OkCoversEffect EffectFollowsCheckpoint
PROPERTIES OkNeverBehind CallsEnd Reconciles
