\* rosdep with and without -r on machines with rules of every kind.
SPECIFICATION Spec
CONSTANTS
  Package <- MCPackage
  Manifests <- MCManifests
  Worlds <- MCWorlds
  Robust = {TRUE, FALSE}
  LoadLimit = 2
  EmptyLimit = 3
  RecursionLimit = 4
CHECK_DEADLOCK FALSE
INVARIANTS
  AnswersTruthful
  RulesOrderFree
  NothingForgotten
  AllFound
  OneSystem
