\* A queue that stops at the first failure, interrupted up to twice; a build may
\* raise an exception nobody catches.
SPECIFICATION Spec
CONSTANTS
  Package = {1, 2, 3, 4}
  Deps <- Diamond
  N = 4
  T = 3
  Rospack = 0
  Waits <- Diamond
  Priors <- NoPrior
  Prebuilts = {{}}
  NoBuild = {}
  NoMakefile = {}
  Blacklist = {}
  Unsupported = {}
  UseWhitelist = FALSE
  UseWhitelistRecursive = FALSE
  UseBlacklist = FALSE
  RobustQueue = FALSE
  RobustEngine = FALSE
  IsTest = FALSE
  MayRaise = TRUE
  MaxInterrupts = 2
INVARIANTS
  FailureExplained
PROPERTIES
  NoStartAfterStop
  ImplementsParallelBuild
