\* One client of a monitor with two processes, in two programs.
SPECIFICATION FairSpec
CONSTANTS
  a = a
  b = b
  u1 = u1
  k1 = k1
  k2 = k2
  monitor = monitor
  Proc = {a, b}
  Client = {u1}
  Killer = {k1, k2}
  Monitor = monitor
  Thread = {u1, k1, k2, monitor}
  Setups <- MCSetups
INVARIANTS
  NoneLeft
  CoreLast
  BuriedStopped
  DeathsTold
PROPERTIES
  ShutdownEnds
  DeathsAnswered
