\* Two threads ask about a chain of three packages, two of them blacklisted.
SPECIFICATION Spec
CONSTANTS
  a = a
  b = b
  c = c
  t1 = t1
  t2 = t2
  Package = {a, b, c}
  Deps <- ChainDeps
  NoBuild = {b}
  NoMakefile = {a}
  Blacklist = {a, b}
  Unsupported = {}
  UseWhitelist = FALSE
  UseWhitelistRecursive = FALSE
  UseBlacklist = TRUE
  Thread = {t1, t2}
SYMMETRY Symmetry
INVARIANTS
  TestedMeansKnown
  AnswersRight
