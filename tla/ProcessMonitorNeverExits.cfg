\* registrations_complete is called after the last process has died.
SPECIFICATION FairSpec
CONSTANTS
  a = a
  b = b
  u1 = u1
  k1 = k1
  k2 = k2
  monitor = monitor
  Proc = {a, b}
  Client = {u1}
  Killer = {k1, k2}
  Monitor = monitor
  Thread = {u1, k1, k2, monitor}
  Setups <- Late
PROPERTIES
  ExitsWhenEmpty
