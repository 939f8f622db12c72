----------------------------- MODULE BuildQueue -----------------------------
(***************************************************************************)
(* The parallel build of rosmake: BuildQueue and CompileThread of          *)
(* tools/rosmake/src/rosmake/parallel_build.py, the build of one package   *)
(* (RosMakeAll.build) and the thread that starts and joins the             *)
(* CompileThreads (RosMakeAll.parallel_build_pkgs), both of engine.py.     *)
(*                                                                         *)
(* A package is its position in the package_list given to BuildQueue, so   *)
(* the scan of to_build in list order is a scan by increasing number.      *)
(* to_build, built and failed are sets: the lists rosmake passes have no   *)
(* duplicates and nothing reads the order of built and failed.             *)
(*                                                                         *)
(* One step is one critical section of BuildQueue.condition, or one        *)
(* statement outside it that touches shared state.  get_valid_package is   *)
(* cut in two, because stop() sets _done without the lock: a thread that   *)
(* is in "scan" holds the lock.                                            *)
(***************************************************************************)
EXTENDS PackageStats, PhaseContract, Integers

CONSTANTS
  N,            \* len(package_list)
  T,            \* number of CompileThreads
  Rospack,      \* position of the package rospack, 0 when it is not listed
  Waits,        \* Waits[p]: what the tracker of the queue says p depends on;
                \* with --specified-only, when cleaning and testing it knows
                \* only some packages
  Prebuilts,    \* what register_prebuilt may be given: rospack when packages
                \* are built, nothing when they are cleaned or tested
  Priors,       \* what RosMakeAll.result[argument] may hold at the start
  RobustQueue,  \* BuildQueue.robust_build: go on after a failed package
  RobustEngine, \* RosMakeAll.robust_build: make even what cannot be built
  IsTest,       \* the argument of the phase is "test"
  MayRaise,     \* a build may raise an exception that build() does not catch
  MaxInterrupts \* bound: interrupts of the joining thread that are modelled

Packages == 1 .. N
Threads == 1 .. T

ASSUME QueueAssumption ==
  /\ N \in Nat
  /\ T \in Nat \ {0}
  /\ Rospack \in 0 .. N
  /\ RobustQueue \in BOOLEAN
  /\ RobustEngine \in BOOLEAN
  /\ IsTest \in BOOLEAN
  /\ MayRaise \in BOOLEAN
  /\ MaxInterrupts \in Nat
  /\ RobustEngine => RobustQueue

ASSUME WaitsAssumption ==
  /\ Packages \subseteq Package
  /\ Waits \in [Packages -> SUBSET Package]
  /\ \A p \in Packages : Waits[p] \subseteq Deps[p]

ASSUME PrebuiltAssumption ==
  \A prebuilt \in Prebuilts : prebuilt \subseteq Packages \cap {Rospack}

\* build() writes no result for rospack, and register_prebuilt goes with True.
ASSUME PriorAssumption ==
  \A prior \in Priors :
    /\ prior \in [Packages -> {"none", "true", "false"}]
    /\ Rospack \in Packages => prior[Rospack] # "false"

HangLimit == 2   \* the literal of get_valid_package

VARIABLES
  to_build, started, built, failed, done,  \* the fields of BuildQueue
  counter,     \* _hack_end_counter, which no test tells apart above HangLimit
  result,      \* RosMakeAll.result[argument], "none" where it has no entry
  pc,          \* pc[t]: where CompileThread t is
  pkg,         \* pkg[t]: the package t is building, 0 for none
  ok,          \* ok[t]: the result t got from build()
  main,        \* where parallel_build_pkgs is
  joined,      \* how many threads it has joined
  interrupts   \* how many KeyboardInterrupts it has taken

queue == <<to_build, started, built, failed, done, counter>>
mainVars == <<main, joined, interrupts>>
vars == <<queue, result, pc, pkg, ok, mainVars>>

-----------------------------------------------------------------------------
(* The tests of BuildQueue.                                                *)

Completed == Cardinality(built) + Cardinality(failed) = N

IsDone == Completed \/ done

Succeeded == Cardinality(built) = N

LockFree == \A t \in Threads : pc[t] # "scan"

\* Fault: a dependency that has been started counts as met.
MetWhenStarted(d) == d \in started \/ d \in built

\* Fault: the robust queue waits for packages that have failed.
MetWhenBuilt(d) == d \in built

Met(d) == d \in built \/ (RobustQueue /\ d \in failed)

Ready(p) == \A d \in Waits[p] : Met(d)

\* "we're hung with broken dependencies"
Hung == started = {} /\ counter > HangLimit

-----------------------------------------------------------------------------

InitWith(prebuilt, prior) ==
  /\ to_build = Packages \ prebuilt
  /\ started = {}
  /\ built = prebuilt
  /\ failed = {}
  /\ done = (prebuilt # {} /\ Completed)
  /\ counter = 0
  /\ result = prior
  /\ pc = [t \in Threads |-> "loop"]
  /\ pkg = [t \in Threads |-> 0]
  /\ ok = [t \in Threads |-> FALSE]
  /\ main = "join"
  /\ joined = 0
  /\ interrupts = 0

Init == \E prebuilt \in Prebuilts, prior \in Priors : InitWith(prebuilt, prior)

Goto(t, l) == pc' = [pc EXCEPT ![t] = l]

-----------------------------------------------------------------------------
(* CompileThread.run and get_valid_package.                                *)

\* while not self.build_queue.is_done()
Loop(t) ==
  /\ pc[t] = "loop"
  /\ Goto(t, IF IsDone THEN "exit" ELSE "enter")
  /\ UNCHANGED <<queue, result, pkg, ok, mainVars>>

\* get_valid_package takes the lock and tests its while condition; without a
\* package the thread leaves its loop.
Enter(t) ==
  /\ pc[t] = "enter"
  /\ LockFree
  /\ Goto(t, IF IsDone \/ to_build = {} THEN "exit" ELSE "scan")
  /\ UNCHANGED <<queue, result, pkg, ok, mainVars>>

\* The scan reaches p, the first package whose dependencies are met.
Take(t, p) ==
  /\ pc[t] = "scan"
  /\ p \in to_build
  /\ Ready(p)
  /\ \A q \in to_build : q < p => ~Ready(q) /\ ~Hung
  /\ to_build' = to_build \ {p}
  /\ started' = started \cup {p}
  /\ counter' = 0
  /\ pkg' = [pkg EXCEPT ![t] = p]
  /\ Goto(t, "check")
  /\ UNCHANGED <<built, failed, done, result, ok, mainVars>>

\* The first package of the scan is not ready and nothing is being built.
GiveUp(t) ==
  /\ pc[t] = "scan"
  /\ Hung
  /\ \E p \in to_build : ~Ready(p) /\ \A q \in to_build : p <= q
  /\ Goto(t, "gaveup")
  /\ UNCHANGED <<queue, result, pkg, ok, mainVars>>

\* condition.wait(1.0) releases the lock.
Wait(t) ==
  /\ pc[t] = "scan"
  /\ ~Hung
  /\ \A p \in to_build : ~Ready(p)
  /\ Goto(t, "waiting")
  /\ UNCHANGED <<queue, result, pkg, ok, mainVars>>

\* A notify or the timeout of one second ends the wait.  The timeout can come
\* at any time, so who is notified makes no difference to what can happen.
Wake(t) ==
  /\ pc[t] = "waiting"
  /\ LockFree
  /\ counter' = IF counter > HangLimit THEN counter ELSE counter + 1
  /\ Goto(t, IF IsDone \/ to_build = {} THEN "exit" ELSE "scan")
  /\ UNCHANGED <<to_build, started, built, failed, done,
                 result, pkg, ok, mainVars>>

-----------------------------------------------------------------------------
(* RosMakeAll.build.                                                       *)

\* Fault: can_build is not told what has failed, as in the test phase.
NoFailedPackages == {}

\* The packages whose make has failed so far; tests do not look at them.
FailedPackages == IF IsTest THEN {} ELSE {p \in Packages : result[p] = "false"}

AsResult(b) == IF b THEN "true" ELSE "false"

\* rospack itself is never made here.
Skip(t) ==
  /\ pc[t] = "check"
  /\ pkg[t] = Rospack
  /\ ok' = [ok EXCEPT ![t] = TRUE]
  /\ Goto(t, "report")
  /\ UNCHANGED <<queue, result, pkg, mainVars>>

\* can_build decides whether make runs; if not, its state is the result.
Check(t) ==
  LET verdict == CanBuild(pkg[t], FailedPackages)
  IN /\ pc[t] = "check"
     /\ pkg[t] # Rospack
     /\ \/ /\ verdict.buildable \/ RobustEngine
           /\ Goto(t, "make")
           /\ UNCHANGED <<result, ok>>
        \/ /\ ~(verdict.buildable \/ RobustEngine)
           /\ result' = [result EXCEPT ![pkg[t]] = AsResult(verdict.state)]
           /\ ok' = [ok EXCEPT ![t] = verdict.state]
           /\ Goto(t, "report")
     /\ UNCHANGED <<queue, pkg, mainVars>>

\* make passes or has no such target (TRUE), or it fails, is interrupted or
\* cannot be found (FALSE).
Make(t) ==
  /\ pc[t] = "make"
  /\ \E b \in BOOLEAN :
       /\ result' = [result EXCEPT ![pkg[t]] = AsResult(b)]
       /\ ok' = [ok EXCEPT ![t] = b]
  /\ Goto(t, "report")
  /\ UNCHANGED <<queue, pkg, mainVars>>

\* Anything but rospkg.ResourceNotFound leaves build() and ends the thread,
\* before the result of make is stored or, writing the log, after it.
Raise(t) ==
  /\ MayRaise
  /\ pc[t] \in {"check", "make"}
  /\ pkg[t] # Rospack
  /\ \/ result' = result
     \/ /\ pc[t] = "make"
        /\ \E b \in BOOLEAN :
             result' = [result EXCEPT ![pkg[t]] = AsResult(b)]
  /\ Goto(t, "raised")
  /\ UNCHANGED <<queue, pkg, ok, mainVars>>

-----------------------------------------------------------------------------
(* return_built and stop, called by the CompileThread.                     *)

\* Fault: every package that comes back ends the queue.
ReportAndFinish(t) ==
  /\ pc[t] = "report"
  /\ LockFree
  /\ built' = IF ok[t] THEN built \cup {pkg[t]} ELSE built
  /\ failed' = IF ok[t] THEN failed ELSE failed \cup {pkg[t]}
  /\ started' = started \ {pkg[t]}
  /\ done' = TRUE
  /\ pkg' = [pkg EXCEPT ![t] = 0]
  /\ Goto(t, IF ok[t] \/ RobustQueue THEN "loop" ELSE "stop")
  /\ UNCHANGED <<to_build, counter, result, ok, mainVars>>

Report(t) ==
  /\ pc[t] = "report"
  /\ LockFree
  /\ built' = IF ok[t] THEN built \cup {pkg[t]} ELSE built
  /\ failed' = IF ok[t] THEN failed ELSE failed \cup {pkg[t]}
  /\ started' = started \ {pkg[t]}
  /\ done' = (done \/ Completed')
  /\ pkg' = [pkg EXCEPT ![t] = 0]
  /\ Goto(t, IF ok[t] \/ RobustQueue THEN "loop" ELSE "stop")
  /\ UNCHANGED <<to_build, counter, result, ok, mainVars>>

\* stop() sets _done before it takes the lock to notify.
Stop(t) ==
  /\ pc[t] = "stop"
  /\ done' = TRUE
  /\ Goto(t, "notify")
  /\ UNCHANGED <<to_build, started, built, failed, counter,
                 result, pkg, ok, mainVars>>

\* Fault: stop() returns without having held the lock.
NotifyUnlocked(t) ==
  /\ pc[t] = "notify"
  /\ Goto(t, "halt")
  /\ UNCHANGED <<queue, result, pkg, ok, mainVars>>

Notify(t) ==
  /\ pc[t] = "notify"
  /\ LockFree
  /\ Goto(t, "halt")
  /\ UNCHANGED <<queue, result, pkg, ok, mainVars>>

-----------------------------------------------------------------------------
(* parallel_build_pkgs, in the thread that runs rosmake.                   *)

\* The control points a thread does not leave: its loop ended, it stopped the
\* queue, it was given no package, or an exception ended it.
Ended == {"exit", "halt", "gaveup", "raised"}

\* join returns for the next thread, inside or outside the except clause.
Join ==
  /\ main \in {"join", "rejoin"}
  /\ pc[joined + 1] \in Ended
  /\ joined' = joined + 1
  /\ main' = IF joined + 1 = T THEN "done" ELSE "join"
  /\ UNCHANGED <<queue, result, pc, pkg, ok, interrupts>>

Interrupt ==
  /\ interrupts < MaxInterrupts
  /\ main = "join"
  /\ main' = "stop"
  /\ interrupts' = interrupts + 1
  /\ UNCHANGED <<queue, result, pc, pkg, ok, joined>>

MainStop ==
  /\ main = "stop"
  /\ done' = TRUE
  /\ main' = "notify"
  /\ UNCHANGED <<to_build, started, built, failed, counter,
                 result, pc, pkg, ok, joined, interrupts>>

MainNotify ==
  /\ main = "notify"
  /\ LockFree
  /\ main' = "rejoin"
  /\ UNCHANGED <<queue, result, pc, pkg, ok, joined, interrupts>>

\* A second interrupt, in the except clause, leaves parallel_build_pkgs.
Abort ==
  /\ interrupts < MaxInterrupts
  /\ main \in {"stop", "notify", "rejoin"}
  /\ main' = "aborted"
  /\ interrupts' = interrupts + 1
  /\ UNCHANGED <<queue, result, pc, pkg, ok, joined>>

\* Fault: the results alone decide, as if every package had one.
PassedByResults == main = "done" /\ \A p \in Packages : result[p] # "false"

\* What parallel_build_pkgs returns.
Passed == main = "done" /\ Succeeded /\ \A p \in Packages : result[p] # "false"

-----------------------------------------------------------------------------

Thread(t) ==
  \/ Loop(t) \/ Enter(t)
  \/ \E p \in Packages : Take(t, p)
  \/ GiveUp(t) \/ Wait(t) \/ Wake(t)
  \/ Skip(t) \/ Check(t) \/ Make(t) \/ Raise(t)
  \/ Report(t) \/ Stop(t) \/ Notify(t)

Main == Join \/ Interrupt \/ MainStop \/ MainNotify \/ Abort

\* rosmake is over: nothing is left to do.
Terminated ==
  /\ main \in {"done", "aborted"}
  /\ \A t \in Threads : pc[t] \in Ended
  /\ UNCHANGED vars

Next == (\E t \in Threads : Thread(t)) \/ Main \/ Terminated

Spec == Init /\ [][Next]_vars

\* Threads are scheduled, make ends, and a lock that is free again and again
\* is had in the end.  Nothing makes a user press Ctrl-C or a build raise.
Acquire(t) == Enter(t) \/ Wake(t) \/ Report(t) \/ Notify(t)

Fairness ==
  /\ \A t \in Threads : WF_vars(Thread(t)) /\ SF_vars(Acquire(t))
  /\ WF_vars(Join) /\ WF_vars(MainStop) /\ SF_vars(MainNotify)

FairSpec == Spec /\ Fairness

-----------------------------------------------------------------------------
(* Properties.                                                             *)

Positions == {"loop", "enter", "scan", "waiting", "check", "make",
              "report", "stop", "notify"} \cup Ended

TypeOK ==
  /\ to_build \subseteq Packages
  /\ started \subseteq Packages
  /\ built \subseteq Packages
  /\ failed \subseteq Packages
  /\ done \in BOOLEAN
  /\ counter \in 0 .. HangLimit + 1
  /\ result \in [Packages -> {"none", "true", "false"}]
  /\ pc \in [Threads -> Positions]
  /\ pkg \in [Threads -> 0 .. N]
  /\ ok \in [Threads -> BOOLEAN]
  /\ main \in {"join", "stop", "notify", "rejoin", "done", "aborted"}
  /\ joined \in 0 .. T
  /\ interrupts \in 0 .. MaxInterrupts

\* A package is at one place only, and no two threads build the same one: it
\* leaves to_build and enters _started in one critical section.
ExclusiveBuild ==
  /\ to_build \cup started \cup built \cup failed = Packages
  /\ to_build \cap (started \cup built \cup failed) = {}
  /\ started \cap (built \cup failed) = {}
  /\ built \cap failed = {}
  /\ \A t, u \in Threads : t # u /\ pkg[t] = pkg[u] => pkg[t] = 0

\* While a package is built everything it depends on is finished, and has
\* passed unless the queue goes on after failures.
OrderedBuild ==
  \A t \in Threads : pkg[t] # 0 => Ready(pkg[t])

\* make runs only on top of packages whose own make has passed, although a
\* robust queue hands out the dependents of failed packages: the failure is
\* in RosMakeAll.result before the queue hears of it.  (Only
\* --build-everything and the tests run make regardless.)
NoMakeOnFailedDeps ==
  \A t \in Threads :
    pc[t] = "make" /\ ~RobustEngine /\ ~IsTest =>
      \A d \in Waits[pkg[t]] : result[d] = "true" \/ d = Rospack

\* rosmake does not report a failure it cannot account for: when the threads
\* are joined and the build has not passed, a package failed, the user
\* interrupted it or an exception ended a thread.  In particular the hang
\* test of get_valid_package never ends a healthy build.
FailureExplained ==
  main = "done" /\ ~Passed =>
    failed # {} \/ interrupts > 0 \/ \E t \in Threads : pc[t] = "raised"

\* And it does not report success with a package left out or failed.
SuccessMeansBuilt ==
  Passed =>
    /\ \A t \in Threads : pc[t] \in Ended \ {"raised", "halt"}
    /\ built = Packages
    /\ \A p \in Packages \ {Rospack} : result[p] = "true"

\* stop() has returned in some thread.
StopReturned ==
  \/ \E t \in Threads : pc[t] = "halt"
  \/ main = "rejoin"
  \/ main \in {"join", "done"} /\ interrupts > 0

\* Once stop() has returned no thread starts another package, although stop()
\* writes _done without the lock while another thread may be in its scan.
NoStartAfterStop == [][StopReturned => started' \subseteq started]_vars

\* The phase as the rest of rosmake sees it, and how it ends.
Phase(prebuilt, prior) ==
  [queue |-> Packages, waits |-> Waits, deps |-> Deps, tolerant |-> RobustQueue,
   regardless |-> RobustEngine, test |-> IsTest, prebuilt |-> prebuilt, rospack |-> Rospack,
   idle |-> NoBuild \cup NoMakefile, stale |-> {p \in Packages : prior[p] = "false"}]

Outcome == [built |-> built, failed |-> failed, cut |-> interrupts > 0]

Returned == main = "done" /\ \A t \in Threads : pc[t] # "raised"

\* When parallel_build_pkgs returns and no exception has ended a thread, the
\* packages that were built, that failed and that are left over are among the
\* outcomes that main of rosmake (module RosMake) reckons with.
ContractKept ==
  Returned => \E prebuilt \in Prebuilts, prior \in Priors :
                Outcome \in PhaseEnds(Phase(prebuilt, prior))

\* The queue is a parallel build: it is closed from the moment _done is set
\* and no scan that missed it is under way.
Place(p) ==
  IF p \in to_build THEN "waiting"
  ELSE IF p \in started THEN "building"
  ELSE IF p \in built THEN "built" ELSE "failed"

PB == INSTANCE ParallelBuild WITH
        Package <- Packages,
        Deps <- Waits,
        Tolerant <- RobustQueue,
        status <- [p \in Packages |-> Place(p)],
        open <- ~(done /\ LockFree)

ImplementsParallelBuild == PB!Spec

\* Unless the user interrupts it, a robust queue deals with every package.
EveryPackageSettles == <>(built \cup failed = Packages \/ interrupts > 0)

\* "if we're here too often we will quit" (get_valid_package): a waiting
\* thread does not wait for ever.
WaitingEnds ==
  \A t \in Threads : pc[t] = "waiting" ~> pc[t] \in {"check"} \cup Ended
=============================================================================
