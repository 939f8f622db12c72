\* A Python process with two rospack processes of its own, for two environments,
\* and a third rospack process that uses the same cache file.
SPECIFICATION LFairSpec
CONSTANTS
  overlay = overlay
  base = base
  nav = nav
  p1 = p1
  p2 = p2
  p3 = p3
  Process = {p1, p2, p3}
  Path = {overlay, base}
  Name = {nav}
  NameOf <- Names
  Visible <- Environments
  CacheTimeout = "positive"
  MaxChanges = 1
  Child = {p1, p2}
  Shell = {p3}
  Unset = {p1}
  Home = p1
  Depth = 2
  Contents <- OneOfEach
  MaxCalls = 1
INVARIANTS
  CacheWhole
  AnswerHonest
  LookupHonest
PROPERTIES
  CallReturns
