# A TLA+ model of the ROS core stack

This directory holds a verification project for the ROS core stack (package
`rosstacks`, 2011): TLA+ modules translated from its source, TLC configurations
that check them on small instances, and theorems that the TLA+ proof system
(TLAPS) proves for every value of the constants. Paths below are relative to
`src/`.

Contents: 1 the system, 2 the modules, 3 the runs, 4 fairness, 5 the proofs,
6 abstractions, 7 where code and documentation disagree, 8 the plan, 9 what is
not modelled.

To repeat a check: `tlc -config BuildQueueStop.cfg MCBuildQueue.tla`,
`tlapm BuildQueueProofs.tla`. The configuration of a run and its module are in
`PROJECT.json`, with the source lines of every definition.

## 1. The system

| part | source | state | hard behaviour |
|---|---|---|---|
| rosmake build queue | `tools/rosmake/src/rosmake/parallel_build.py`, `engine.py` | `to_build`, `_started`, `built`, `failed`, `_done`, `_hack_end_counter`; `RosMakeAll.result` | several CompileThreads and a joining thread, one condition variable, `_done` written without the lock, Ctrl-C, exceptions |
| rosmake package flags | `package_stats.py` | `packages_tested`, `blacklisted`, `nobuild`, `nomakefile` | filled lazily by all threads without a lock |
| rosmake engine, printer | `engine.py` | `build_list`, `result`, phases, options, status line | a recursion that may not end, phases that share their results, marks in the file system, a printer thread |
| rosunit process monitor | `tools/rosunit/src/rosunit/pmon.py` | `procs`, `core_procs`, `dead_list`, `is_shutdown`, `_registrations_complete` | monitor thread, users, killer threads, two locks |
| rosunit local process | `baretest.py`, `LocalProcess` | `started`, `stopped`, `popen`, a lock | the child exits, is polled and is killed at the same time |
| rosunit test runner | `baretest.py`, `BareTestCase`; `rosunit_main.py` | one test process, its file of results, a time limit, retries | a timeout against a late exit, a retry under the same name and with the same file |
| rospack cache | `tools/rospack/rospack.cpp` | the file `~/.ros/rospack_cache`, the package list in memory | several processes share a file that is replaced by remove and rename |
| rospack queries and commands | `rospack.cpp` | `_deps`, `_direct_deps`, `deps_calculated`, `Package::pkgs` | recursion with caching, cycles, recrawls in the middle of a query |
| rosstack | `tools/rospack/rosstack.cpp` | like rospack, for stacks | like rospack; a recrawl deletes the objects a query works on |
| rosdep lookup and install | `tools/rosdep/src/rosdep/core.py`, `main.py`, `installers.py` | the rule map, `YamlCache`, installed packages | conflicting definitions, overriding, scripts, rules that depend on rules, partial failure |
| operating systems | `core/roslib/src/roslib/os_detect.py`, rosdep's `debian.py` and neighbours | | systems derived from each other, detected in turn |
| messages | `core/roslib/src/roslib/msgs.py`, `gentools.py`, `genpy_electric.py` | `REGISTERED_TYPES`, `_loaded_packages` | answers that depend on what was asked before; classes generated from another machine's text |

How the parts interact:

- `rosmake` (`engine.py`) asks `rospack` for the order and the dependencies of
  packages through subprocesses, checks and installs system packages with
  `rosdep`, and hands the package list to a `BuildQueue`. `CompileThread`s take
  packages from it, ask the shared `PackageFlagTracker` whether each can be
  built, run `make` and report back. `RosMakeAll.result` and `BuildQueue` both
  record what happened; the former decides what can still be built, the latter
  what is started next.
- `rosunit` starts one test program as a `LocalProcess` under a
  `ProcessMonitor` thread. The main thread polls it for its time limit and
  shuts the monitor down; the monitor then stops all processes, using a pool of
  killer threads. All of them call `start`, `stop` and `is_alive` on the same
  objects.
- `rospack` processes, started by shells, by `rosmake` and by each other, share
  one cache file. `rosstack` has a file of its own and calls rospack's code for
  the packages inside a stack.
- `rosdep` collects the rosdeps of packages through roslib's `ROSPackages`, and
  picks rules and installers by the system that `OSDetect` names.
- The message generators ask `roslib.msgs` for the types a package declares and
  `gentools` for dependencies and md5 sums; `generate_dynamic` rebuilds the
  classes from the text that a recorder stored.

What makes each part correct:

- *build queue*: every package is built at most once, by one thread, after all
  it depends on; nothing is built on a failed dependency; once the queue is
  stopped nothing is started; all threads end; what is reported is what
  happened.
- *package flags*: an answer is the one the marker files give, whoever else is
  looking up at the time.
- *rosmake*: dependencies come before their dependents; exit status 0 means that
  all phases passed; `ROS_NOBUILD` marks are given only to what was built.
- *process monitor*: a process that was started is stopped in the end; core
  processes go last and in reverse order; every death is reported once;
  shutdown ends.
- *test runner*: the status is that of the results, and the results are those of
  the round that counts, not of a process that was given up.
- *rospack cache*: whoever interferes, the file is whole, an answer is a package
  that was there, and "not found" is said only of packages that were not.
- *rospack, rosstack*: an answer is the one the manifests give, whatever the
  cached lists, the order of commands and the cache file; an error is
  justified; a crawl misses nothing and prefers the first root.
- *rosdep*: "installed" is said only when it is so; an answer does not depend on
  the order of packages; nothing asked for is forgotten; it
  takes the machine for what roslib takes it.
- *messages*: dependencies are exactly the types that occur; answers do not
  depend on earlier calls; types of one md5 sum have one layout on the wire; a
  full text is enough to rebuild the classes elsewhere.

The hazards of the code, each at its line and with the properties that watch
over it, are in `PROJECT.json`.

## 2. The modules

| module | models | extends |
|---|---|---|
| `PackageStats` | the decision of `PackageFlagTracker.can_build` as an operator | |
| `PhaseContract` | what a phase of rosmake may leave behind, for the two sides of it | |
| `BuildQueue` | `BuildQueue`, `CompileThread`, `RosMakeAll.build` and `parallel_build_pkgs` | `PackageStats`, `PhaseContract` |
| `ParallelBuild` | abstract specification: what a parallel build promises | |
| `BuildQueueProofs` | theorems about `BuildQueue`; that it implements `ParallelBuild` and keeps `PhaseContract` | `BuildQueue` |
| `PackageFlags`, `PackageFlagsProofs` | the lazily filled flag tracker under several threads | `PackageStats` |
| `RosMake`, `RosMakeProofs` | `RosMakeAll.main` with its phases, `build_or_recurse`, `Printer` | `PhaseContract` |
| `LocalProcess` | one child process and its `start`, `stop`, `is_alive` as sequences of steps | |
| `ProcessMonitor`, `ProcessMonitorProofs` | the monitor, its clients and its killers | `LocalProcess` |
| `BareTest`, `BareTestProofs` | `BareTestCase.runTest` and `rosunitmain` | |
| `RospackCache` | rospack processes, the cache file, `get_pkg` | |
| `PackageLookup` | roslib's reader of that file: `get_pkg_dir`, `find_node`, `find_resource` | `RospackCache` |
| `RospackCrawl` | the crawl through directories and its profile, step by step | |
| `RospackProofs` | theorems about the cache, its reader and the crawl | `PackageLookup`, `RospackCrawl` |
| `RospackQueries` | a `ROSPack` object and its commands | `RospackCrawl` |
| `RosstackQueries` | rosstack, the copied and diverged code | `RospackQueries` |
| `RoslibListing` | `list_pkgs_by_path` and `list_stacks_by_path` of roslib, beside the two crawls | `RosstackQueries` |
| `RosPackages` | `ROSPackages` of `packages.py` | |
| `OsDetect` | `os_detect.py` and the systems of rosdep | |
| `RosdepRules` | `rosdep.yaml` files, and what the installers find | `OsDetect` |
| `RosdepInstall`, `RosdepProofs` | `rosdep install`, `check` and `satisfy` | `RosPackages`, `RosdepRules` |
| `Messages`, `MessagesProofs` | message registry, dependencies, full text; a process that uses them; theorems about it | |
| `Genpy` | md5 text, generated serializers; the process, generating classes too | `Messages` |
| `MC...` | constants of the instances that TLC checks | the module |

**BuildQueue.** The variables `to_build`, `started`, `built`, `failed`, `done`,
`counter` are the fields of the class, `result` is
`RosMakeAll.result[argument]`. A package is its position in the list. `pc[t]`
is the place of a thread, `pkg[t]` what it builds. One step is one critical
section of `condition`, or one statement outside it that touches shared state:

    loop -> enter -> scan -> Take -> check -> make -> report -> loop
                       |  \-> waiting (condition.wait) -> scan
                       \-> gaveup (the hang test)      report -> stop -> notify -> halt

`get_valid_package` is cut at `scan`: the thread holds the lock, but `stop()`
does not need it to set `_done`, so the test of `is_done()` may be outdated when
a package is taken. The wait may end at any time, for its timeout of a second
may: a notify and a timeout need no distinction. The joining thread is `main`,
with `Interrupt` for Ctrl-C while it joins and `Abort` for a second one. In the
build phase rospack may be prebuilt (`Prebuilts`), in the others nothing is;
results of an earlier phase of the same target may be there already (`Priors`).
`Waits` is what the tracker of the queue says a package depends on, which in the
tests and with `--specified-only` is less than `Deps`, what `can_build` looks at.

**PhaseContract** says of an outcome (what was given back as built, what as
failed, and whether the user interrupted): nothing was started before what it
waits for has settled (`InTurn`); what is left over has a reason (`Accounted`);
and nothing that needs `make` passed on top of a failure (`Judged`). `BuildQueue`
keeps it at the end of `parallel_build_pkgs` (`ContractKept`), `RosMake` takes
the outcomes of its phases from it (`PhaseEnds`).

**PackageStats** turns `can_build` into one operator with two results, since the
code has two: whether `make` runs (`buildable`) and what the dependents are told
(`state`). They differ: ROS_NOBUILD or a missing Makefile sets `state` back to
TRUE after an earlier test has cleared it.

**PackageFlags** shows why `BuildQueue` may use the marker files as constants:
the tracker's answers are always theirs. A look-up is a step per access to
shared state; `register_blacklisted` tests for an entry and then stores one, and
two threads may do so at once.

**RosMake** composes the phases. `stack` holds the calls of `build_or_recurse`;
a frame is a package and the dependencies still to visit, and the depth at which
Python gives up is a constant. A phase is one step with any
outcome in `PhaseEnds`, so a run of rosmake is a
sequence of builds with the marks, the prebuild of rospack and the shared
`result` between them. An interrupt inside the loop that joins is part of the
outcome (`cut`); one that comes elsewhere, or a second one, ends `main`
(`Interrupt`). `Printer` is a thread that `main` waits for a bounded
number of times.

**LocalProcess / ProcessMonitor.** A thread that calls an operation of a process
names it in `call[t]` and goes on when it is `"none"` again. `is_alive` is two
steps because it reads `popen` twice without a lock; `stop` is SIGINT, SIGTERM,
SIGKILL, and each may be answered or not. The monitor's loop is `Copy`,
`CheckCopy`, a round of `PollNext` / `Judge...` / `Listeners` / `PollDone`, then
`Unregister` / `Buried` and `RespawnStop` / `RespawnStart`; `_post_run` is
`Enqueue`, the killers' `TakeVictim` / `TaskDone`, `KillersDone`, `KillCore` and
`CleanUp`. `polling`, `dead`, `respawn`, `cores` are its local lists.

**BareTest.** The test program writes results, dies, hangs or ends when it
likes; `runTest` polls it, stops it after the time limit, removes the old file
and starts the next round; the monitor's thread forgets a dead process in a step
of its own. The file records, for the properties only, the round whose process
wrote it.

**RospackCache.** An environment is the list of directories a process crawls.
Each process checks the cache file, opens it a second time, loads or crawls,
writes a temporary file, removes the old one and renames the new one, and then
answers `get_pkg`. Meanwhile packages come and go, the file ages, and processes
end or are killed at any step (`End`), which leaves their temporary file, and
start again. `steady`, `seen`, `from` and the field `there` of a file are history
that no action reads; they only serve the properties. A list is `Whole` for an
environment when it has only its directories and misses no package that was
there all the time, up to the name by which an earlier directory shadows it.

**PackageLookup** adds a Python process. `at` is where its call is: `read` the
file into the `table` kept in memory, `lookup` in it, `popen` and `wait` for a
rospack of its own, then `walk` and `stat` over the directories of the package.
It may ask in its own environment or in another, for each of which there is one
child process; other rospack processes (`Shell`) work on the same file
meanwhile, and packages and their files come and go. Every step of it is a step
of `RospackCache` or leaves that untouched.

**RospackCrawl** takes a *world*, a record of what is on the disk. Its steps are
those of `crawl_for_packages`: a root is queued (`QueueRoot`), the entry at the
front of the queue is refused (`TooDeep`), listed (`VisitPackage`), put into the
profile (`Profiled`) or opened (`OpenDirectory`), and `readdir` finds one more
directory (`ReadEntry`), which is listed or pushed in front of the queue.
`reading` and `entries` are the locals of the inner loop. The field `root` of a
queue entry, the root it is below, is history that no step reads.

**RospackQueries, RosstackQueries** add manifests and a cache to the world. The
crawl is made first. Since the disk does not change, a crawl in the middle of a
command gives the same list again, and `Recrawl` takes it from there; the
command `profile` is run when that crawl was profiled. The memory of a ROSPack object is a record
`m`: the package list and, for every Package object, its cached lists. Operators
that may change it or throw return the new memory with the error or the value,
so a recrawl in the middle of a query is part of what the query computes. A
manifest that cannot be parsed throws once; later looks at the same object use what
TinyXML has kept of it, if that has a root element (`ManifestRoot`), and rosstack
removes its cache file as well (`StackRoot`). The
behaviour is then the sequence of commands on one object. rosstack's recrawl deletes
the Stack objects; going on with one is undefined and ends the command.
`RoslibListing` walks through the same worlds as roslib does, with links and
hidden directories, and compares what the four crawls find.

**RosPackages, OsDetect, RosdepRules, RosdepInstall.** The recursive `_depends`
and `_rosdeps` are a stack of calls over a cache that they share: a step visits
one dependency, and a package in progress is in the cache already. Python's stack
ends in one of three ways, and each has a limit: so far down that `load_manifest`
fails, its bare `except` takes that for a missing package and an empty manifest is
kept (`blank`); a little further the empty manifest cannot be made either, and
further still there is no next call; then the RuntimeError comes out (`TooDeep`)
and ends the run (`Overflow`). Then the loop
over the rosdeps runs, which looks up the rules of a package file by file, in any
order, as Python's set gives them. `install_rosdep` is a stack of frames again;
a step is one call of a package manager or one decision, and the package manager
may fail, or succeed without installing. What a file says on this system is an
operator of `RosdepRules`, and so is what an installer finds missing.

**Messages, Genpy.** A message is the sequence of its fields, a type a pair. The
globals of the library are a record that every operation takes and returns. The
recursion of `_add_msgs_depends` is a stack in that record, of the fields that
each call has still to look at; a step (`Look`) takes the next field, and the
context stays the package of the message that was asked about. Loading packages
and clearing the registry are one step each. `twin` is a second process, which
no code reads: it begins with the same call and has done nothing before. `Genpy`
goes along with every step of `Messages`, and adds the md5, what is recorded,
and the classes that are generated from a text recorded on a better or worse
equipped machine. Generated serializers are
sequences of operations, compared with the layout on the wire; `Refers` and
`Imports` are the classes and packages that the generated code names. `upset`
remembers that `generate_dynamic` has raised and left its types behind; a text
recorded by such a process is left out.

Definitions introduced by "Fault:" are deliberate bugs. No action uses them: each
takes the place of one definition to show that a property notices.

## 3. The runs

| run | instance | shows |
|---|---|---|
| `queue_stop` | 3 threads, diamond of 4 packages, up to 2 interrupts, exceptions | `NoStartAfterStop`: a stopped queue starts nothing; `FailureExplained`: an unfinished build has a cause; `ImplementsParallelBuild`, the refinement |
| `queue_best_effort` | the same with `-k`: rospack prebuilt or not, one package unsupported and without Makefile, interrupts | `NoMakeOnFailedDeps`; `ContractKept`: the outcome is one that `RosMake` counts with; `SuccessMeansBuilt`; `EveryPackageSettles`: every package is dealt with and every thread ends |
| `package_flags` | 2 threads, a chain of 3 packages, 2 blacklisted, 1 ROS_NOBUILD, 1 without Makefile | `TestedMeansKnown`, `AnswersRight` |
| `rosmake_main` | 14 command lines; a chain, a circle of two packages, a package that depends on another through one that cannot be found; 1 interrupt | `DepsFirst`, `StatusTruthful` (0 only when all phases passed; a failure is explained), `MarkedWhenPassed` |
| `pmon` | 1 client, 2 processes, three programs: core processes, one of them respawned, that the client kills and registers again; an ordinary and a required core process with 2 killers and listeners that may raise; an ordinary process that is respawned and a core process | `NoneLeft`, `CoreLast`, `BuriedStopped`, `DeathsTold`, `ShutdownEnds`, `DeathsAnswered` |
| `bare_test` | 0, 1 or 2 retries, both modes | `StatusTruthful`, `ResultOfThisRound`, `TestEnds` |
| `rospack_cache` | one call of roslib, in either of two environments, with a rospack process for each; a third rospack process; an overlay that shadows a directory of the same name; 1 change; processes killed at any time | `CacheWhole`, `AnswerHonest`, `LookupHonest`, `CallReturns` |
| `rospack_queries` | a crawl step by step, with and without profile, then up to 2 commands of one ROSPack object; every command of rosstack and the listing functions of roslib, over small trees, with every kind of dependency and of cache | `DependsRight`, `UsersRight`, `ErrorsJustified`, `CrawlExact` (the list and the zombies at the end of the crawl), `PackagesFound` (of all four crawls, and the owners that rosstack prints) |
| `rosdep` | install, check and satisfy, with and without `-r`, for rules of every kind, all systems and machines with the files of two; a diamond, a circle and chains that end near Python's limit and beyond it | `AnswersTruthful`, `RulesOrderFree`, `NothingForgotten` (what the cache holds of a package), `AllFound` (what a run starts from), `OneSystem` |
| `roslib_messages` | five machines: a robot that lacks a dependency and the package roslib, one with everything, one with a newer message, a station with std_msgs only, one without; messages that embed two types of one name; 2 calls, 2 recordings | `DepsExact`, `HistoryFree`, `SameMd5SameWire`, `SelfContained`, `LayoutRight` |
| `queue_raise_hangs`, `pmon_never_exits` | | a disagreement each, see 7 |

A run takes up to two minutes and up to 440 000 states. Why the bounds are
enough to be interesting:

- The diamond has two packages that can be built side by side and one that waits
  for both. With three threads one waits while two build, so a failure, an
  interrupt or a stop finds threads in every position. Two interrupts are one
  for `parallel_build_pkgs` to handle and one in its handler; the code has no
  further handler. The counter of the hang test is only compared with 2, so it
  stays at 3 once it is there.
- In the chain of three packages a package is registered both for itself and as
  a dependency of another, and two threads may register for the same dependent,
  which is the one race of the tracker.
- The recursion limits of `rosmake_main` (6), `rosdep` (2, 3 and 4, see
  `RosPackages`) and
  `roslib_messages` (6) stand for Python's 1000: in the first and the last they
  are deeper than every acyclic chain of the instance, so only circles reach
  them; in `rosdep` one chain loses its last manifests, or ends in the RuntimeError,
  unless a part of it was gathered or loaded before. `MaxDirectoryDepth` and
  `MaxDepth` of `rospack_queries` (5 each) stand for 1000 and 100 in the same
  way, and its `MaxLinks` (2) for the 40 links that Linux follows in one path. The
  status thread may miss its two looks (`Cycles`) as it may miss ten.
- Two processes are the least for an order of core processes, for an ordinary
  process that must go first, and for one that is dying while another is
  polled. The monitor, a client and the killers may all be in `stop` at the same
  time.
- With two retries a process of the first round may be alive in the third, so
  "the previous" and "an earlier" round differ.
- In the rospack instance the two environments differ in the overlay, so the
  right answer depends on which file was read, and one change is enough to make
  a list in the file, in a process or in the table outdated, foreign or absent
  between any two steps of another process. A second call of the reader would
  differ from the first only in the table it starts with, and `Update` may fill
  that before the first one. Two files of the package suffice for an order in
  which the walk meets them.
- The trees of `rospack_queries` have duplicates, a link back to a parent, an
  unreadable directory, two hidden ones with a package in the second, missing, broken and circular dependencies,
  manifests that a query meets again after they could not be parsed,
  and one that only a recrawl finds; the second command meets every cache that
  the first may have left half filled. rosstack runs one command per process, as
  its `main` does.
- The rules of `rosdep` include one that depends on itself, two that depend on
  each other, an override in ROS home that replaces a line by an installer, and
  a conflict between two packages.

`CHECK_DEADLOCK FALSE` stands where a program ends: rosmake, rosunit, rosdep and
the commands of rospack. In the other runs a program that is over stutters, and anything else
that cannot move is reported.

## 4. Fairness

- **BuildQueue**: each thread is scheduled (weak fairness) and gets the lock
  that is free again and again (strong fairness of the four steps that take it;
  a waiting thread releases the lock at least once a second, so it is never
  held for ever). `make` ends. Nothing makes the user press Ctrl-C or a build
  raise.
- **RosMake**: the main thread runs, and the status thread comes to the end of
  its loop, in time or not. No interrupt has to come.
- **ProcessMonitor**: strong fairness of the monitor, because clients may take
  `plock` for `kill_process` again and again; weak fairness of calls in progress
  and of killers. A child may ignore SIGINT and SIGTERM: `stop()` ends because
  it goes on to SIGKILL and does not wait after that. Clients call what they
  like and need not call anything.
- **BareTest**: the main thread and the monitor run. The test program may hang:
  `TestEnds` holds because of the time limit.
- **PackageLookup**: weak fairness of one action, the progress of the call: the
  reader runs, or the rospack that it waits for does. Nothing forces a package to
  come, a file to age, another process to run or one to be killed.

Safety is checked and proved without fairness.

## 5. The proofs

Assumed throughout are the types of the constants and what the options of
`engine.py` guarantee: `FlagsAssumption`, `QueueAssumption`, `WaitsAssumption`,
`PrebuiltAssumption`, `PriorAssumption`, `RosMakeAssumption`,
`MonitorAssumption`, `BareTestAssumption`, `CacheAssumption`, `LookupAssumption`,
`ManifestsAssumption` (also the order of the three limits of the stack), `WorldsAssumption`, `NamesAssumption`, `MachinesAssumption`
(the files of a machine have legal places, std_msgs has its `Header`, and roslib
has no messages of its own), `TargetsAssumption`, `MaxDepthAssumption` and
`WorldAssumption` (`inside` is closed under what a directory has below it); and
that `rospack depends` answers with all that can be reached through direct dependencies, or fails
(`DepsAssumption`). TLC evaluates them in the runs.

**BuildQueueProofs** proves the safety properties for every list of packages,
dependency relation, number of threads, and combination of options:

| theorem | property | argument |
|---|---|---|
| `TypeCorrect` | `TypeOK` | with `JoinInv` (all threads are joined exactly when `main` is done) and `BusyInv` (a thread has a package exactly while it builds) |
| `Exclusive` | `ExclusiveBuild` | with `OwnerInv`: what a thread has is in `started`. Without it the step `Report` could return a package that was never taken |
| `Ordered` | `OrderedBuild` | a met dependency stays met (`MetIsStable`): `built` and `failed` only grow |
| `ResultsAgree` | `ResultInv` | `built` and `failed` never disagree with `RosMakeAll.result`, because the result is stored before the queue hears of it |
| `GoodDeps` | `NoMakeOnFailedDeps` | from `ResultInv`: what `can_build` reads covers every failure that made a package ready |
| `NoStart` | `NoStartAfterStop` | after a `stop()` has returned, `_done` is set and no thread is past its test of `is_done()`: a thread in its scan holds the lock that `stop()` must have had to notify |
| `Success` | `SuccessMeansBuilt` | counting: N packages in `built` are all of them (`CountMeans`) |
| `Reasons` | | `ReasonInv`: a thread ends or gives up only over a failure, an interrupt, a dead thread, the end of the work, or a package that waits for one outside the list |
| `Explained` | `FailureExplained` | the hang test can only fire when a failure, an interrupt or a dead thread holds a package back: in a healthy queue the first package is ready (`LeftOver`) |

`Reasons` and `Explained` assume `InOrder`, that a package whose dependencies are
all in the list stands behind them, or `Alone`, that there is one thread and no circle
among the packages; `Explained` also that nobody waits for a package outside the
list. See 7 for why these cannot be dropped. `PhasesInTurn` (below) shows
that rosmake's phases satisfy the first one.

It also proves `Refines`: `BuildQueue` implements
`ParallelBuild` (a package moves from waiting to building to built or failed,
starts when its dependencies are settled, and not after the build is closed).
The build counts as closed when `_done` is set *and* nobody holds the lock: the
thread whose scan missed `_done` is thereby allowed its one last package.

`Contract` says: for whatever a phase begins with, when
`parallel_build_pkgs` has returned and no thread has died of an exception, the
outcome is in `PhaseEnds`; `KeepsContract` is the invariant `ContractKept`.
`TurnInv` says that what is built or started has seen its dependencies settle,
`VerdictInv` that a package on its way to a good result had no failure below it when
`can_build` looked: such a failure stays in `result` unless the package that
failed is built in this phase, which must then have settled before
(`NoFailureBelow`).

**PackageFlagsProofs** proves `Known` and `Right`, for every package graph and
number of threads. The inductive invariant `IInv` adds: an entry in
`blacklisted` is never unfounded (`Sound`), what a look-up has passed is known
(`Progress`), and what a question needs is still to be done or is tested
(`Covered`). The lost update of `register_blacklisted` is harmless because an
entry is never emptied.

**RosMakeProofs** proves, for every package graph (circles included), every
command line and recursion limit: `OrderIsRight` (`DepsFirst`), `StatusIsTrue`
(`StatusTruthful`: exit status 0 only when the marks were removed, or all that
was asked for and what it rests on was built and tested; after any other status a
package has failed, or what stopped the run is known), `MarksAreEarned`
(`MarkedWhenPassed`) and `PhasesInTurn` (the list of the build is `InOrder`, the
tests are `Alone`, so `Contract` holds for the phases; packages are cleaned in any
order). The order needs a picture of the recursion: a dependency
that a call of `build_or_recurse` has dealt with is in the list, cannot be
found, or is the package of the call in progress above it (`CallsOK`); packages
that cannot be found have had their dependencies dealt with too (`DealtWith`),
which puts a package also behind those that it needs through them; every
package asked for is still to be visited, being visited or listed (`Visited`).
When a call is done, nothing is above it, so its dependencies are listed before
it; a circle ends at the recursion limit and never in the list. No call below is for
the same package, for the first one above that call whose package can be found
would be listed already (`CalledOnce`): the list has no duplicates. For status and
marks, `PhasesTold` says what `main` knows after each phase that passed, `Kept`
and `Listed` that the selection of packages has lost none, `GoodEnd` and
`MarksLast` what the last steps may rely on. A failure is explained
(`FailureExplained`) because a phase fails only over a package of its own list
(`ResultsListed`), or over a dependency that is in none: one that was not
selected (`NotSelected`), or, since a list has dependencies first
(`EarlierFirst`), one that has failed itself.

**BareTestProofs** proves `StatusTruth` and `ResultsAreOfThisRound` for any
number of retries: a process that is alive and not of this round was given up
(`OnlyExpiredLeft`), what `runTest` has seen of the process is so (`Judging`),
a file that is there while no process was given up is of this round
(`FileOfThisRound`), and results are stored at the very end, exactly for a test
that has passed to it (`StoredLast`).

**RospackProofs** proves `WholeCache`, `HonestAnswers` and `CompleteCrawl`
for any number of processes, directories, changes and crashes. The strengthening
says of each stage of a process what it knows: a package that was there all the
time is there, and what is there has been seen (`Witnessed`); a crawl under way
has the packages of the directories it has passed, the first of each name, and
no name twice (`Crawling`), and a finished one misses nothing (`Crawled`); what
is written and what is still to be written make up the whole list (`Writing`);
and "not found" is said only of names that no lasting package has (`Honest`).
`ReaderIsHarmless` is the step-by-step proof that `PackageLookup` implements
`RospackCache`, so all of this holds next to the reader too; `HonestLookups`
(`LookupHonest`) builds on it. What was there during the call is compared with
what its child has seen (`Meeting`, `Asking`: the child began later and ends
earlier), and the walk through the package with what its files have been
(`Looking`). No package is lost between the two programs although the table
keeps the last path of a name and a crawl the first: a file has no name twice.

The same module proves `CrawlsAreExact` (`CrawlExact`) for all directories,
links, roots and marks. The queue is sorted by root although directories are
pushed to its front, since what is read is never of a later root than what waits
(`InOrder`). So each package of a queued root is listed under its name or still
to be found below an entry of the queue or of the open directory (`Covered`),
and when one is listed, no earlier root can have another of its name
(`FirstRoot`). For zombies, no package waits in front of an entry that was
put back, so what is listed from there is counted; as long as none was counted, every package below it is
still in front of it or in the open directory (`Marks`), and when it comes to
the front again there is nowhere left. The set `inside` of what can be reached
is used by its equation alone (`WorldAssumption`), so nothing is assumed of
circles: a crawl that runs into one ends in the error, of which `CrawlExact`
says nothing beyond the zombies. The steps of `RospackQueries` leave the
crawl alone or are steps of it; since its queries are recursive operators, that
is not a theorem.

**RosdepProofs** proves `NothingIsForgotten`, `RulesAreOrderFree`,
`AnswersAreTrue`, `EverythingIsFound` (`AllFound`) and `SystemsAreOne` for any packages, manifests, rules and machines. For the first,
a call that has ended is complete up to what calls still in progress will bring;
without a circle below a package nothing below it can be in progress (`Frames`,
`Ended`), and `Below`, defined as the least closed set, is what the recursion
walks through, as long as no manifest below is empty for lack of stack. For the second, the rules read so far are those of the files read
so far (`Lookups`): two files of one key agree or the lookup ends. For the third,
each rosdep that is dealt with has a verdict (`Verdicts`): what its rule asks for
is there, it is among the failed ones, or the rule is a script that ran; what is
installed only grows, and the result of an inner call is never needed. For
`AllFound`, circles must not matter: what a package in progress lacks is still to
come in a call above it (`Searching`: the dependencies of what was seen are seen or
still in the list of a call, and the rosdeps of a call that has ended are saved in
the cache of a package that was asked for or of a call in progress). When no call is left, all that was
seen is closed under dependencies, so it contains `Below`, and all of it is saved
with a package that was asked for (`Found`). For the
last, rosdep's classes are present exactly when those of roslib that they derive
from are (`RoslibAnswers`, `RosdepAnswers`), the four that ask `lsb_release` exclude each other by what
they read there, and the rest stand in the same order in both lists, but
for Arch and OS X (`Orders`): so the first that is present is the same, whatever else
is (`FirstFound`).

**ProcessMonitorProofs** proves `BuriedStoppedAlways`, `DeathsToldAlways` and,
for one client, `NoneLeftAlways`, from one inductive invariant (`Invariance`),
for any number of processes and killers and any mix of their kinds. Its parts:
who may be calling which operation, where (`ClientCalls`, `KillerCalls`,
`MonitorCalls`); the local lists of a round belong to that round, with one
verdict for each process (`Rounds`, `OneVerdict`); a process is watched or
buried and never both, and a started one is one of them (`Watched`,
`Registered`); what has not been started has no handle and was not seen by the
monitor (`Unstarted`, `NoHandle`); what `stop` has come to is true of the child
(`Stopping`); the count of reports follows the round (`Telling`). A buried
process stays stopped because only a client about to start it, or the monitor in
the middle of a respawn, can revive it. For `NoneLeft`, every process still
running after the shutdown began is in the queue of the killers, with a killer,
among the cores to come, or yet to be queued (`Covered`), and the killers that
are waited for are counted as they are (`Counted`, `Closed`).

`CoreLastAlways`, also for one client, needs a second invariant. `CoreLast` looks at `procs`, the code counts down a copy
of `core_procs`; the invariant relates the two. The lists agree on the order
(`InOrder`), `core_procs` lacks no core process but the one being registered
(`Filed`), and none is being registered once the monitor shuts down (`Silent`,
which needs `Owned`: a registering client still has to start its process). What
is still to be stopped was registered before what is being stopped
(`Countdown`), the killers leave core processes alone, and everything that runs
is still to be killed (`Doomed`).

**MessagesProofs** proves, for all files, packages, depths and sequences of calls:
`DependenciesExact` (`DepsExact`), `HistoryDoesNotMatter` (`HistoryFree`) and
`RegistryIsTrue`. What is registered is what a file says (`Sound`, `True`): a type
is registered under its full name only, so the package in whose context it was
read leaves no trace. In a call (`Covers`), the types found and those still to be looked at
together contain what the message names and what each type found names, and
hold nothing else; a type is put behind one that names it. A step takes a type
from the second set to the first and adds what it names to the second
(`CoversMore`), and at the end the second is empty. `HistoryFree` is a statement about two
processes: as long as the fresh one has not failed, both have the same stack and
the same list, and the older one has registered at least as much (`Ahead`). A
type is refused only when it is not registered, so what the older one refuses,
the fresh one refuses too (`LookAhead`). The texts agree because both registries
are true. `Genpy` constrains each step of `Messages` and adds none that changes
its variables, so the theorems hold of it as well; since its own algorithms are
recursive operators, that last remark is not a theorem.

Only model-checked: all liveness properties (beyond the prover); the queries of
`RospackQueries`, `RosstackQueries` and `RoslibListing` (`DependsRight`,
`UsersRight`, `ErrorsJustified`, `PackagesFound`), and of `Genpy` the properties of md5 texts, recorded texts and generated code
(`SameMd5SameWire`, `SelfContained`, `LayoutRight`): their algorithms are
recursive operators, which the prover does not take, and induction over nested
messages is beyond it.

## 6. Abstractions

- *Build queue.* The package list has no duplicates, as `engine.py` builds it
  (`DepsFirst`);
  packages are numbers in list order. `rospack depends` answers what the constant
  `Deps` says, the transitive dependencies. `is_done()` and each critical section
  of the queue are one step; between `is_done()` of the loop and the lock of
  `get_valid_package` other threads may run. An exception (`Raise`) may end a
  build before `make` has a result or when it has stored one.
- *Package flags.* The platform markers are constants. `add_nobuild` and
  `remove_nobuild` happen while no look-up is under way, as the main thread
  calls them. Blacklists are sets: only emptiness and membership are used.
- *rosmake.* A phase is one step, in which no thread dies of an exception
  (`ContractKept` says nothing of such a phase, and rosmake may then hang, see 7).
  Packages without Makefile stay so. The results of a phase are kept by target, as
  in the code, so phases share them. Log files, profile and screen are left out.
- *Processes.* A child is none, running, exited or killed; a killed one may
  still be running for a moment. Exit codes, logging, spawn counts and what
  `start` and `stop` return are left out. The count of reports of a death stops
  at 2. A client registers a process under a name of its own, then starts it, and
  shuts the monitor down once, as `rosunit` does; its `join(20.0)` may end early.
- *Test runner.* A file of results is good, bad or unreadable.
- *rospack cache.* A file is read and checked in one step each, but not in the
  same one; every line is written in a step of its own. Writing does not fail,
  creating and renaming may. A directory holds at most one package.
- *roslib's reader.* ROS_BUILD is not set, and the variant for Windows is left
  out. With `required=False` a package that cannot be located is None where the
  model has an exception. A child that is killed prints nothing and looks to the
  caller like a missing package; `LookupHonest` makes no claim of that. Other
  rospack processes that are killed are ones that stop.
- *rospack, rosstack.* The disk does not change while a process crawls (in
  `RospackCache` it does). The depth of a directory is counted from its root and
  not from `/`. Which elements of a manifest that does not parse come before
  the error is not modelled: the parser keeps all of them or not even the root. A cached
  directory is one that a crawl would choose, or it is gone. The length and the
  times of a profile, compiler flags as strings, and `rosstack depends-on1` are
  left out.
- *rosdep.* A script succeeds or fails as a whole; a download has an outcome and
  no content. How deep Python still gets in `load_manifest` depends on the manifest
  and on the call; the model has one limit for all manifests and both kinds of
  calls. The commands `depdb`, `what_needs` and `where_defined` print and
  change nothing.
- *messages.* An md5 sum is the text it hashes. A duplicate field name stands for
  every text that is rejected. Constants, numpy variants and names that
  are Python keywords are left out, std_msgs always has `Header`, names with more
  than one slash and keys `P/P/Name` of the registry are not asked for, and the
  order of a dictionary does not matter.

Conditions in the properties that a reader might not expect:

- `CoreLast` is claimed when no process is required: the death of a required one
  shuts the monitor down, perhaps between the two steps of `register_core_proc`
  (see 7). `DeathsTold` is claimed when no client kills, `NoneLeft` for one client: with two, a
  process that is registered before a shutdown and started after it survives.
- After a listener has raised, a process may be buried, respawned and no longer
  watched ("don't respawn as this is an internal error", `pmon.py`, line 441, is
  not what happens): the properties of `pmon` promise nothing of it.
- `PackagesFound` allows roslib names that only hidden directories have, and with
  links says only which names it lists; a package whose directory cannot be
  listed is not expected of it.
- `DepsExact` and `HistoryFree` are claimed until `generate_dynamic` has raised in
  the process, and `SelfContained` lets it raise for a message that needs two
  types of one name (see 7).
- `SameMd5SameWire` excepts messages embedded as arrays, for the md5 text drops
  the array suffix of a type that is a message.
- `AnswersTruthful` excepts scripts and some version locks, for the reasons in 7;
  `NothingForgotten` excepts packages with a circle at or below them, since the
  inner packages of a circle keep incomplete lists, and packages with one below
  them whose manifest was lost to Python's limit, and `AllFound` runs in which one
  was lost: rosdep then goes on with too little and says nothing (see 7).
- `UsersRight` allows `depends-on` packages whose manifest cannot be parsed, and
  their users: what is printed depends on whether another query, or a package of the same tree,
  has looked at the manifest before (see 7).
- `OneSystem` lets rosdep and roslib differ on Mint, Mandriva, and on machines that
  look like Arch or OS X and like another system too.
- The owners of `PackagesFound` (`OwnerRight`) except stacks that are entries of `ROS_PACKAGE_PATH` themselves.

## 7. Where code and documentation disagree

Each of these two runs finds a behaviour that contradicts a sentence in the
source.

- `queue_raise_hangs`: "if we're here too often we will quit"
  (`parallel_build.py`, line 263). The count matters only while nothing is
  started; an exception that `build()` does not catch ends a thread with its
  package in `_started`, and the others wait for ever.
- `pmon_never_exits`: "process monitor will exit if there are no processes left"
  (`pmon.py`, line 302). The test needs a process that died in this very round;
  `registrations_complete` after the last death comes too late.

Seen while modelling, without a run of their own. In rosmake:

- `get_valid_package` gives up although
  packages are left, if two threads share a list that is not in dependency order,
  or one with a package that waits for one outside it: the threads raise the
  count of the hang test for each other before one has scanned the list again
  (its docstring promises `None` only when done). rosmake orders its lists;
  dependencies outside it are packages that cannot be found. `--require-platform-recursive` builds a
  package on an unsupported dependency (`package_stats.py`, line 203).
- Exit status 0 is possible although some names were rejected; packages of
  `--skip-blacklist` count as passed and are marked; a package that depends on
  one that cannot be found fails its phase without any failed result; a status
  thread that does not end in time turns success into status 1.

In rosunit:

- Core processes "are killed after all other processes" (`pmon.py`, line 290):
  `register_core_proc` appends to two lists in two steps, and a shutdown in
  between kills the core process with the ordinary ones.
- Listeners hear of "processes that die during normal process monitor execution"
  (`pmon.py`, line 226): `is_alive` reads `popen` twice, and if `kill_process`
  clears it in between, the process is buried without a word.
- A process started after `_post_run` survives it (comment at line 483).
- A retry is refused while the monitor still knows the last process; a process
  that was given up may write results after their removal; an unreadable or
  empty file counts as no failures; in text mode a retry ends in an
  UnboundLocalError, and the status is 0 whatever the test says.

In rospack and rosstack:

- A cache must be of the process's own environment (`rospack.cpp`, line 1627;
  `roslib/packages.py`, line 311): the file is checked and then opened again, and
  may have been replaced. A cache file truncated by a full disk is put in place
  (line 2011).
- "don't add things twice" (`rospack.cpp`, line 176): after a recrawl in the
  middle of a query a package may be printed twice. "recursion is safe"
  (`rosstack.cpp`, line 496): `direct_deps` goes on with a deleted Stack.
- A manifest that cannot be parsed is an error at the first look, "Only want this
  warning printed once" (`rospack.cpp`, line 647); at later looks the parsed part of it
  counts as the manifest, so `depends-on` may print packages that name the
  argument in a broken manifest, or not, depending on the order of the packages.
- `plugins` and `langs` answer from an outdated cache without a crawl; `/` as an
  entry of ROS_PACKAGE_PATH throws; `depends-why` and `depends-indent` overflow
  the stack in a circle; `direct_deps` with warnings caches a list without the
  missing dependency; `direct_flags` may prefer the flags of another system to
  generic ones; the search for duplicates among zombies compares path strings by
  prefix; with assertions on, descendants in a circle of stacks abort.

In rosdep and roslib:

- rosdep prints "Cannot check scripts for presence. rosdep check will always
  fail" (`core.py`, line 438) and then runs them; a RosdepException ends a run
  even with `-r`; rejected names do not change the status of `check`; only the
  rules of the first package and its stacks are used, results of the rules that a
  rule depends on are ignored; `depends([p])` changes the cache it returns from.
- The classes of OpenSuse, Gentoo, Cygwin and FreeBSD have no installers
  (AttributeError, `core.py`, line 345); an unknown release of Mint is a
  KeyError; of two version locks on one package one never counts as installed.
- A failed rospack is an empty list for `rospackexec`, which looks for "rospack:"
  on the wrong stream. `list_pkgs_by_path` lists a package twice below symbolic
  links, which its docstring says are ignored.
- An upper bound of a 64-bit constant is accepted (`msgs.py`, docstring near line
  533); types are registered as `P/Name` and `P/P/Name` rather than "under both
  local and fully-qualified key"; `load_package_dependencies` that raises leaves
  packages marked as loaded but not registered; an undeclared dependency is
  accepted when something has registered it; the md5 of a service does not
  separate request from response; nested field names that are Python keywords
  give code that does not parse; `gendeps -s` calls a function that does not
  exist; `generate_dynamic` takes `Header` from the local machine.
- Renamed classes "can safely co-exist with messages of the same name"
  (`genpy_electric.py`, line 1131), but two types of one name in two packages make
  `generate_dynamic` raise, and text is replaced where one package name ends in
  another. When it raises, recorded types stay in the registry, and later
  answers of the process depend on them.
- `_safe_load_manifest` "returns None if the calls raises an Exception (i.e. invalid
  package)" (`packages.py`, line 522): it returns an empty manifest, and for a
  RuntimeError near Python's limit, too, so that a very deep chain of packages is cut
  off without a word.
- "Only one version of this class should return for any version"
  (`os_detect.py`, line 130): a machine with the file of another system has several, and
  then the order of the classes decides, which for Arch and OS X is not the same in
  rosdep.
- `gendeps` needs the package of a dependency even for the registered types of
  `roslib/Header`, and raises where that package is missing.
- "remove hidden dirs" (`stacks.py`, line 164) removes from the list that it goes
  through and keeps the second of two; `list_pkgs_by_path` leaves out only one of
  `.svn` and `.git`. roslib may thus list packages that rospack never sees. A link
  below a later root replaces the path of a package in the cache. The stack
  listing obeys `rospack_nosubdirs` where rosstack obeys `rosstack_nosubdirs`.

## 8. The plan

Done: the build queue with its abstract specification and proofs; package flags
with proofs; rosmake over the contract that the queue is proved to keep, with proofs; processes and
their monitor, with proofs; the test runner with proofs; the rospack cache and
roslib's reader next to it, with proofs; the crawl of rospack, with proofs, and
the queries of rospack and rosstack, with roslib's own crawls; rosdep with the detection of systems, with proofs; messages and the
generated serializers.

What would come next:

1. An abstract `Supervisor` (registered, running, dying, gone) that
   ProcessMonitor implements, and BareTest over it.
2. The caches of the dependency tracker in the queue; phases in which a thread
   dies of an exception.
3. Steps in place of the recursive operators of RospackQueries, as in
   RospackCrawl, which would open them to the prover.
4. Names of roslib as a pure algorithm.

## 9. Not modelled

- XML of manifests and results, names and substitution arguments: string
  processing without state. The models take a manifest as its dependencies and
  a file of results as one of a few outcomes.
- The caches of the dependency tracker: a package is asked about only by the
  thread that has taken it, so a list that is being filled is not seen by
  another; what a failed rospack leaves is in the hazards.
- The text of the status line, of summaries and logs; command lines beyond the
  options that change what happens.
- `get_pkg_subdir` of roslib, and its functions on stacks that only call rospkg;
  its environment, network and logging helpers.
- `message.py`, the runtime class of messages: checks of the values that a caller
  assigns, without shared state.
- `rp.cpp`, a prototype that is not built; `tinyxml`, which is vendored;
  rosboost_cfg, rosclean and roscreate, one-shot tools over the file system;
  shell, editor and CMake integration.

`PROJECT.json` gives the reason for each part.
