\* Two production chains and a testnet, settings and builds that change, runs cut short.
CONSTANTS
  Networks = {"base", "bsc", "baseSepolia", "localhost"}
  Overrides = {""}
  Contracts <- Contracts2
  Unconfigured = {}
  b1 = b1
  b2 = b2
  Builds <- TwoBuilds
  DotEnv <- DotEnv2
  o1 = o1
  Unset = Unset
  LocalDefault = LocalDefault
  None = None
  OwnerChanges <- OneRewiring
  MaxUpsets = 2
SPECIFICATION ExploredSpec

INVARIANT RecordsAgree
PROPERTIES RecordedAsDeployed ReleasedIsFrozen ChainsJoin
CHECK_DEADLOCK FALSE
