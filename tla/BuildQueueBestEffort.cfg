\* rosmake -k with package markers; rospack is the first package and prebuilt.
SPECIFICATION FairSpec
CONSTANTS
  Package = {1, 2, 3, 4}
  Deps <- Diamond
  N = 4
  T = 3
  Rospack = 1
  Waits <- Diamond
  Priors <- AnyPrior
  Prebuilts = {{1}, {}}
  NoBuild = {}
  NoMakefile = {3}
  Blacklist = {2}
  Unsupported = {3}
  UseWhitelist = TRUE
  UseWhitelistRecursive = FALSE
  UseBlacklist = FALSE
  RobustQueue = TRUE
  RobustEngine = FALSE
  IsTest = FALSE
  MayRaise = FALSE
  MaxInterrupts = 2
INVARIANTS
  NoMakeOnFailedDeps
  ContractKept
  SuccessMeansBuilt
PROPERTIES
  EveryPackageSettles
