\* A thread ended by an exception leaves its package in _started.
SPECIFICATION FairSpec
CONSTANTS
  Package = {1, 2, 3, 4}
  Deps <- Diamond
  N = 4
  T = 2
  Rospack = 0
  Waits <- Diamond
  Priors <- NoPrior
  Prebuilts = {{}}
  NoBuild = {}
  NoMakefile = {}
  Blacklist = {}
  Unsupported = {}
  UseWhitelist = FALSE
  UseWhitelistRecursive = FALSE
  UseBlacklist = FALSE
  RobustQueue = FALSE
  RobustEngine = FALSE
  IsTest = FALSE
  MayRaise = TRUE
  MaxInterrupts = 0
PROPERTIES
  WaitingEnds
