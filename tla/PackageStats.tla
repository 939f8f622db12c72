---------------------------- MODULE PackageStats ----------------------------
(***************************************************************************)
(* The decision rosmake takes before it runs make in a package:            *)
(* PackageFlagTracker.can_build of tools/rosmake/src/rosmake/              *)
(* package_stats.py.  The marker files of a package and the command line   *)
(* options are constants: rosmake reads them and never changes them while  *)
(* it builds.                                                              *)
(***************************************************************************)
EXTENDS FiniteSets

CONSTANTS
  Package,               \* the packages rosmake knows
  Deps,                  \* Deps[p]: every package p depends on, transitively
  NoBuild,               \* packages that hold a ROS_NOBUILD file
  NoMakefile,            \* packages without a Makefile
  Blacklist,             \* packages that hold a ROS_BUILD_BLACKLIST file
  Unsupported,           \* packages whose manifest lists other platforms only
  UseWhitelist,          \* --require-platform or --require-platform-recursive
  UseWhitelistRecursive, \* --require-platform-recursive
  UseBlacklist           \* --skip-blacklist

ASSUME FlagsAssumption ==
  /\ Deps \in [Package -> SUBSET Package]
  /\ NoBuild \subseteq Package
  /\ NoMakefile \subseteq Package
  /\ Blacklist \subseteq Package
  /\ Unsupported \subseteq Package
  /\ UseWhitelist \in BOOLEAN
  /\ UseWhitelistRecursive \in BOOLEAN
  /\ UseBlacklist \in BOOLEAN
  /\ UseWhitelistRecursive => UseWhitelist

-----------------------------------------------------------------------------

\* What is_blacklisted returns once the files of p and of everything p
\* depends on have been looked at: the blacklisted packages p rests on.
BlacklistedBy(p) == Blacklist \cap ({p} \cup Deps[p])

\* The packages the platform test reports for p.
NonWhitelisted(p) ==
  (Unsupported \cap {p})
    \cup (IF UseWhitelistRecursive THEN Unsupported \cap Deps[p] ELSE {})

\* can_build looks at the failed dependencies, the platform, the blacklist,
\* ROS_NOBUILD and the Makefile, in that order.  The last two turn the state
\* reported to the dependents back to TRUE, and an unsupported dependency
\* clears that state without clearing "buildable".
CanBuild(p, failedPackages) ==
  LET failedDeps == failedPackages \cap Deps[p]
      supported  == UseWhitelist => p \notin Unsupported
      allowed    == UseWhitelist => NonWhitelisted(p) = {}
      listed     == UseBlacklist /\ BlacklistedBy(p) # {}
      nothingToDo == p \in NoBuild \cup NoMakefile
  IN [buildable |-> failedDeps = {} /\ supported /\ ~listed /\ ~nothingToDo,
      state     |-> nothingToDo \/ (failedDeps = {} /\ allowed)]
=============================================================================
