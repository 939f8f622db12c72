SPECIFICATION Spec
CONSTANTS
  a = a
  b = b
  c = c
  m = m
  x = x
  y = y
  rospack = rospack
  lost = lost
  Package <- MCPackage
  Deps1 <- MCDeps1
  Deps <- MCDeps
  Rospack = rospack
  Lost <- MCLost
  NoBuild <- MCNoBuild
  NoMakefile <- MCNoMakefile
  Commands <- MCCommands
  RecursionLimit = 6
  Cycles = 2
  MaxInterrupts = 1
CHECK_DEADLOCK FALSE
INVARIANTS
  DepsFirst
  StatusTruthful
  MarkedWhenPassed
