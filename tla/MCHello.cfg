CONSTANTS
  ClientConfigs <- MCClientConfigs
  ServerConfigs <- MCServerConfigs
  MaxCancels = 1
SPECIFICATION FairSpec
CHECK_DEADLOCK FALSE
INVARIANT TypeOK
INVARIANT Agreement
PROPERTY AbstractSpec
PROPERTY BothEnd
PROPERTY CompatibleSucceed
