------------------------------- MODULE RosMake ------------------------------
(***************************************************************************)
(* One run of rosmake: RosMakeAll.main of tools/rosmake/src/rosmake/       *)
(* engine.py inside the "with rosmake.Printer()" of bin/rosmake.           *)
(*                                                                         *)
(* A phase (clean, build, test) is one step whose outcome is any that the  *)
(* contract admits which module BuildQueue keeps: see PhaseContract. The   *)
(* order of dependencies is computed step by step, as the recursion of     *)
(* build_or_recurse does it.  Printer is the thread that draws the status  *)
(* line, and main ends by waiting for it.                                  *)
(***************************************************************************)
EXTENDS Integers, Sequences, FiniteSets, PhaseContract

CONSTANTS
  Package,         \* the packages rospack lists
  Deps1,           \* Deps1[p]: direct dependencies, as rospack answers
  Deps,            \* Deps[p]: all dependencies, as rospack answers
  Rospack,         \* the package rospack
  Lost,            \* packages rospack lists and rospkg does not find
  NoBuild,         \* packages with a ROS_NOBUILD file at the start
  NoMakefile,      \* packages without a Makefile
  Commands,        \* bound: the command lines that are modelled
  RecursionLimit,  \* depth at which Python gives up
  Cycles,          \* how often Printer.shutdown looks for the thread
  MaxInterrupts    \* bound: interrupts that are modelled

Targets == {"none", "clean", "test"}   \* "none": make without a target
Phases == Targets

\* A command line after it has been parsed and its names were resolved.
Command == [specified : SUBSET Package,  \* packages named, or in a named stack
            extra : SUBSET Package,      \* in stacks a named stack depends on
            stacks : BOOLEAN,            \* was a stack named?
            bootstrap : BOOLEAN, unmark_installed : BOOLEAN,
            rosdep_install : BOOLEAN, specified_only : BOOLEAN,
            pre_clean : BOOLEAN, building : BOOLEAN, testing : BOOLEAN,
            robust : BOOLEAN, best_effort : BOOLEAN, mark_installed : BOOLEAN,
            target : Targets, log_dir_is_file : BOOLEAN, no_status : BOOLEAN]

ASSUME RosMakeAssumption ==
  /\ Deps1 \in [Package -> SUBSET Package]
  /\ Deps \in [Package -> SUBSET Package]
  /\ Rospack \in Package
  /\ Lost \subseteq Package
  /\ NoBuild \subseteq Package \ Lost
  /\ NoMakefile \subseteq Package \ Lost
  /\ Commands \subseteq Command
  /\ \A c \in Commands : (c.specified \cup c.extra) \cap Lost = {}
  /\ RecursionLimit \in Nat \ {0}
  /\ Cycles \in Nat
  /\ MaxInterrupts \in Nat

\* rospack's answer to "deps" is all that can be reached from a package
\* through direct dependencies, or nothing, when it fails.
ASSUME DepsAssumption ==
  \A p \in Package :
    Deps[p] # {} =>
      /\ Deps1[p] \subseteq Deps[p]
      /\ \A q \in Deps[p] : Deps1[q] \subseteq Deps[p]
      /\ \A S \in SUBSET Deps[p] :
           (Deps1[p] \subseteq S /\ \A q \in S : Deps1[q] \subseteq S) => S = Deps[p]

VARIABLES
  options,     \* the command line
  pc,          \* where main is
  todo,        \* packages main's loop has still to visit or to mark
  stack,       \* the calls of build_or_recurse in progress, innermost first
  build_list,
  unread,      \* --specified-only: what of the list has still to be looked at
  new_list,    \* and what was kept of it
  result,      \* result[k][p] for the phases that have begun
  passed,      \* <<build_passed, tests_passed>>
  nobuild,     \* packages with a ROS_NOBUILD file
  outcome,     \* how main ended: "true", "false", "none", "exit", "raise"
  running, done,  \* the fields of Printer
  polls,       \* how often shutdown has looked
  status,      \* exit status of the process: -1 while it runs, 0 good
  interrupts

selection == <<unread, new_list>>
mainVars == <<options, selection, todo, stack, build_list, result, passed, nobuild, outcome>>
printer == <<running, done, polls>>
vars == <<mainVars, pc, printer, status, interrupts>>

Elements(s) == {s[i] : i \in DOMAIN s}

Required == options.specified \cup options.extra

-----------------------------------------------------------------------------

Init ==
  /\ options \in Commands
  /\ pc = "start"
  /\ todo = {}
  /\ stack = <<>>
  /\ build_list = <<>>
  /\ unread = <<>>
  /\ new_list = <<>>
  /\ result = <<>>
  /\ passed = <<TRUE, TRUE>>
  /\ nobuild = NoBuild
  /\ outcome = "none"
  /\ running = TRUE
  /\ done = FALSE
  /\ polls = 0
  /\ status = -1
  /\ interrupts = 0

\* main ends: it returns, or an exception reaches the "with" of bin/rosmake.
\* Only some of the returns stop the printer themselves.
Leave(how, stopsPrinter) ==
  /\ outcome' = how
  /\ pc' = "shutdown"
  /\ running' = (running /\ ~stopsPrinter)

\* Up to the point where the packages are known.
Start ==
  /\ pc = "start"
  /\ \/ /\ options.log_dir_is_file          \* sys.exit(1)
        /\ Leave("exit", FALSE)
        /\ UNCHANGED todo
     \/ /\ ~options.log_dir_is_file
        /\ options.specified = {} /\ ~options.stacks /\ ~options.bootstrap
        /\ Leave("false", TRUE)
        /\ UNCHANGED todo
     \/ /\ ~options.log_dir_is_file
        /\ options.specified # {} \/ options.stacks \/ options.bootstrap
        /\ pc' = IF options.unmark_installed THEN "unmark" ELSE "rosdep"
        /\ todo' = IF options.unmark_installed THEN options.specified ELSE Required
        /\ UNCHANGED <<outcome, running>>
  /\ UNCHANGED <<options, selection, stack, build_list, result, passed, nobuild, done,
                 polls, status, interrupts>>

\* --unmark-installed: remove_nobuild answers FALSE when the file cannot be
\* removed, which only suppresses a message; then main returns TRUE.
Unmark ==
  /\ pc = "unmark"
  /\ IF todo = {}
     THEN /\ Leave("true", TRUE)
          /\ UNCHANGED <<todo, nobuild>>
     ELSE \E p \in todo :
            /\ todo' = todo \ {p}
            /\ nobuild' \in {nobuild, nobuild \ {p}}
            /\ UNCHANGED <<pc, outcome, running>>
  /\ UNCHANGED <<options, selection, stack, build_list, result, passed, done, polls,
                 status, interrupts>>

\* A failed rosdep installation ends the run; a failed rosdep check does not.
Rosdep ==
  /\ pc = "rosdep"
  /\ \/ /\ pc' = "order"
        /\ UNCHANGED <<outcome, running>>
     \/ /\ options.rosdep_install
        /\ Leave("false", FALSE)
  /\ UNCHANGED <<options, selection, todo, stack, build_list, result, passed, nobuild,
                 done, polls, status, interrupts>>

-----------------------------------------------------------------------------
(* build_or_recurse                                                        *)

\* A call for p returns at once when p is in the list; otherwise it asks for
\* the direct dependencies of p.
CallsOf(p) ==
  IF p \in Elements(build_list) THEN <<>> ELSE <<[pkg |-> p, rest |-> Deps1[p]]>>

Overflow ==
  /\ Len(stack) = RecursionLimit
  /\ Leave("raise", FALSE)
  /\ UNCHANGED <<todo, stack, build_list>>

Visit ==
  /\ pc = "order" /\ stack = <<>>
  /\ \E p \in todo :
       /\ todo' = todo \ {p}
       /\ stack' = CallsOf(p)
  /\ UNCHANGED <<options, selection, build_list, result, passed, nobuild, outcome, pc,
                 printer, status, interrupts>>

VisitDependency ==
  /\ pc = "order" /\ stack # <<>>
  /\ \E d \in Head(stack).rest :
       LET calls == CallsOf(d)
       IN IF calls # <<>> /\ Len(stack) = RecursionLimit
          THEN Overflow
          ELSE /\ stack' = calls \o <<[Head(stack) EXCEPT !.rest = @ \ {d}]>> \o Tail(stack)
               /\ UNCHANGED <<todo, build_list, outcome, pc, running>>
  /\ UNCHANGED <<options, selection, result, passed, nobuild, done, polls, status,
                 interrupts>>

\* Fault: the package is put in front of its dependencies.
AppendFirst ==
  /\ pc = "order" /\ stack # <<>> /\ Head(stack).rest = {}
  /\ LET p == Head(stack).pkg
     IN IF p \in Lost /\ ~options.robust
        THEN /\ Leave("exit", FALSE)
             /\ UNCHANGED <<stack, build_list>>
        ELSE /\ stack' = Tail(stack)
             /\ build_list' = IF p \in Lost THEN build_list ELSE <<p>> \o build_list
             /\ UNCHANGED <<outcome, pc, running>>
  /\ UNCHANGED <<options, selection, todo, result, passed, nobuild, done, polls,
                 status, interrupts>>

\* All dependencies have been visited: the package comes after them, unless
\* rospkg does not find it.
AppendPackage ==
  /\ pc = "order" /\ stack # <<>> /\ Head(stack).rest = {}
  /\ LET p == Head(stack).pkg
     IN IF p \in Lost /\ ~options.robust
        THEN /\ Leave("exit", FALSE)
             /\ UNCHANGED <<stack, build_list>>
        ELSE /\ stack' = Tail(stack)
             /\ build_list' = IF p \in Lost THEN build_list ELSE Append(build_list, p)
             /\ UNCHANGED <<outcome, pc, running>>
  /\ UNCHANGED <<options, selection, todo, result, passed, nobuild, done, polls,
                 status, interrupts>>

Ordered ==
  /\ pc = "order" /\ stack = <<>> /\ todo = {}
  /\ pc' = IF options.specified_only THEN "select" ELSE "clean"
  /\ unread' = IF options.specified_only THEN build_list ELSE <<>>
  /\ UNCHANGED <<options, new_list, todo, stack, build_list, result, passed, nobuild,
                 outcome, printer, status, interrupts>>

\* --specified-only drops every other package from the list.
Select ==
  /\ pc = "select"
  /\ IF unread # <<>>
     THEN /\ unread' = Tail(unread)
          /\ new_list' = IF Head(unread) \in options.specified
                         THEN Append(new_list, Head(unread)) ELSE new_list
          /\ UNCHANGED <<build_list, pc>>
     ELSE /\ build_list' = new_list
          /\ pc' = "clean"
          /\ UNCHANGED selection
  /\ UNCHANGED <<options, todo, stack, result, passed, nobuild, outcome, printer,
                 status, interrupts>>

-----------------------------------------------------------------------------
(* The phases.                                                             *)

\* The dependencies the tracker of the build reports.
TrackedDeps ==
  [p \in Package |-> Deps[p] \cap (IF options.specified_only THEN options.specified ELSE Package)]

NoDeps == [p \in Package |-> {}]

\* Of the tests' tracker: only packages of the command line count.
TestDeps == [p \in Package |-> Deps[p] \cap options.specified]

Prior(key) == IF key \in DOMAIN result THEN result[key] ELSE <<>>

FailedIn(r) == {p \in DOMAIN r : ~r[p]}

\* A phase as parallel_build_pkgs is asked to run it.
Phase(queue, depsOf, tolerant, prebuilt, key) ==
  [queue |-> queue, waits |-> depsOf, deps |-> Deps, tolerant |-> tolerant,
   regardless |-> options.robust, test |-> key = "test", prebuilt |-> prebuilt,
   rospack |-> Rospack, idle |-> NoBuild \cup NoMakefile, stale |-> FailedIn(Prior(key))]

\* build() stores a result for every package but rospack; the entries of an
\* earlier phase under the same key stay.
Results(key, e, registered) ==
  LET now == (e.built \cup e.failed) \ ({Rospack} \ registered)
  IN [p \in DOMAIN Prior(key) \cup now |->
        IF p \in now THEN p \in e.built ELSE Prior(key)[p]]

Store(key, r) ==
  result' = [k \in DOMAIN result \cup {key} |-> IF k = key THEN r ELSE result[k]]

\* Fault: only the packages that were given back are looked at.
PassesByResults(queue, e, r) == FailedIn(r) = {}

\* build_queue.succeeded() and all results
Passes(queue, e, r) == e.built = queue /\ FailedIn(r) = {}

Cut(e) ==
  /\ e.cut => interrupts < MaxInterrupts
  /\ interrupts' = interrupts + (IF e.cut THEN 1 ELSE 0)

\* make in the directory of rospack: "skip" when it has a ROS_NOBUILD file.
AssertPrebuildBuilt ==
  IF Rospack \in NoBuild THEN {"built"} ELSE {"built", "exit", "interrupted"}

Clean ==
  /\ pc = "clean"
  /\ IF ~options.pre_clean
     THEN /\ pc' = "prebuild"
          /\ UNCHANGED <<result, outcome, running, interrupts>>
     ELSE LET queue == Elements(build_list)
          IN \E e \in PhaseEnds(Phase(queue, NoDeps, TRUE, {}, "clean")) :
             \E pre \in IF Rospack \in queue THEN AssertPrebuildBuilt ELSE {"built"} :
               /\ Cut(e)
               /\ Store("clean", Results("clean", e, {}))
               /\ IF pre = "exit"
                  THEN Leave("exit", FALSE)
                  ELSE pc' = "prebuild" /\ UNCHANGED <<outcome, running>>
  /\ UNCHANGED <<options, selection, todo, stack, build_list, passed, nobuild,
                 done, polls, status>>

\* rospack itself is made first; main returns None when that is interrupted.
Prebuild ==
  /\ pc = "prebuild"
  /\ IF ~options.building
     THEN pc' = "test" /\ UNCHANGED <<outcome, running>>
     ELSE \E pre \in AssertPrebuildBuilt :
            CASE pre = "built" -> pc' = "build" /\ UNCHANGED <<outcome, running>>
              [] pre = "exit" -> Leave("exit", FALSE)
              [] pre = "interrupted" -> Leave("none", TRUE)
  /\ UNCHANGED <<options, selection, todo, stack, build_list, result, passed, nobuild, done,
                 polls, status, interrupts>>

Build ==
  /\ pc = "build"
  /\ LET queue == Elements(build_list)
         key == options.target
         prebuilt == queue \cap {Rospack}
         none == [p \in prebuilt |-> TRUE]
     IN \E e \in PhaseEnds(Phase(queue, TrackedDeps, options.robust \/ options.best_effort,
                                 prebuilt, key)) :
        \E pre \in IF key = "clean" /\ prebuilt # {} THEN AssertPrebuildBuilt ELSE {"built"} :
          LET r == Results(key, e, IF key = "none" THEN prebuilt ELSE {})
          IN /\ Cut(e)
             /\ result' = [k \in DOMAIN result \cup {"none", key} |->
                             CASE k = key -> r
                               [] k # key /\ k = "none" -> none
                               [] OTHER -> result[k]]
             /\ passed' = <<Passes(queue, e, r), TRUE>>
             /\ IF pre = "exit"
                THEN Leave("exit", FALSE)
                ELSE pc' = "test" /\ UNCHANGED <<outcome, running>>
  /\ UNCHANGED <<options, selection, todo, stack, build_list, nobuild, done, polls,
                 status>>

\* The tests of the packages on the command line, one at a time.
Test ==
  /\ pc = "test"
  /\ pc' = "mark"
  /\ todo' = options.specified
  /\ IF passed[1] /\ options.testing
     THEN \E e \in PhaseEnds(Phase(options.specified, TestDeps, TRUE, {}, "test")) :
            LET r == Results("test", e, {})
            IN /\ Cut(e)
               /\ Store("test", r)
               /\ passed' = [passed EXCEPT ![2] = Passes(options.specified, e, r)]
     ELSE UNCHANGED <<result, passed, interrupts>>
  /\ UNCHANGED <<options, selection, stack, build_list, nobuild, outcome, printer,
                 status>>

\* Fault: the tests are not looked at.
MarkBuilt ==
  /\ pc = "mark"
  /\ options.mark_installed /\ passed[1]
  /\ \E p \in todo :
       /\ todo' = todo \ {p}
       /\ \/ nobuild' = nobuild \cup {p} /\ UNCHANGED <<pc, outcome, running>>
          \/ p \notin NoBuild /\ Leave("raise", FALSE) /\ UNCHANGED nobuild
  /\ UNCHANGED <<options, selection, stack, build_list, result, passed, done,
                 polls, status, interrupts>>

\* --mark-installed, one package after the other; a file that cannot be
\* written ends main with an exception.
Mark ==
  /\ pc = "mark"
  /\ options.mark_installed /\ passed[1] /\ passed[2]
  /\ \E p \in todo :
       /\ todo' = todo \ {p}
       /\ \/ nobuild' = nobuild \cup {p} /\ UNCHANGED <<pc, outcome, running>>
          \/ p \notin NoBuild /\ Leave("raise", FALSE) /\ UNCHANGED nobuild
  /\ UNCHANGED <<options, selection, stack, build_list, result, passed, done,
                 polls, status, interrupts>>

\* The summary is written and main returns.
Finish ==
  /\ pc = "mark"
  /\ todo = {} \/ ~(options.mark_installed /\ passed[1] /\ passed[2])
  /\ Leave(IF passed[1] /\ passed[2] THEN "true" ELSE "false", TRUE)
  /\ UNCHANGED <<options, selection, todo, stack, build_list, result, passed, nobuild, done,
                 polls, status, interrupts>>

\* buildfailures.txt and testfailures.txt: generate_summary_output
Reported(key) == Elements(build_list) \cap FailedIn(Prior(key))

\* A KeyboardInterrupt leaves main, in the phases too when it does not come
\* where they wait for it, or comes twice.
Interrupt ==
  /\ pc \notin {"shutdown", "poll", "exit"}
  /\ interrupts < MaxInterrupts
  /\ interrupts' = interrupts + 1
  /\ Leave("raise", FALSE)
  /\ UNCHANGED <<options, selection, todo, stack, build_list, result, passed, nobuild,
                 done, polls, status>>

-----------------------------------------------------------------------------
(* The thread of Printer, and the end of the program.                      *)

\* The loop of Printer.run ends when running is off or the status rate is 0.
DrawEnds ==
  /\ ~done
  /\ ~running \/ (options.no_status /\ pc # "start")
  /\ running' = FALSE
  /\ done' = TRUE
  /\ UNCHANGED <<mainVars, pc, polls, status, interrupts>>

\* Printer.__exit__ calls shutdown, whatever has happened in main.
Shutdown ==
  /\ pc = "shutdown"
  /\ running' = FALSE
  /\ pc' = "poll"
  /\ UNCHANGED <<mainVars, done, polls, status, interrupts>>

\* shutdown looks a few times whether the thread has ended; then it raises.
Poll ==
  /\ pc = "poll"
  /\ \/ done /\ pc' = "exit" /\ UNCHANGED <<polls, outcome>>
     \/ ~done /\ polls < Cycles /\ polls' = polls + 1 /\ UNCHANGED <<pc, outcome>>
     \/ ~done /\ polls = Cycles /\ pc' = "exit" /\ outcome' = "raise" /\ UNCHANGED polls
  /\ UNCHANGED <<options, selection, todo, stack, build_list, result, passed, nobuild,
                 running, done, status, interrupts>>

\* Fault: whatever main returned, the status is good unless it raised.
ExitGood ==
  /\ pc = "exit" /\ done /\ status = -1
  /\ status' = IF outcome \in {"true", "false"} THEN 0 ELSE 1
  /\ UNCHANGED <<mainVars, pc, printer, interrupts>>

\* Every way out waits for the thread; only a TRUE from main gives status 0.
Exit ==
  /\ pc = "exit" /\ done /\ status = -1
  /\ status' = IF outcome = "true" THEN 0 ELSE 1
  /\ UNCHANGED <<mainVars, pc, printer, interrupts>>

Main ==
  \/ Start \/ Unmark \/ Rosdep
  \/ Visit \/ VisitDependency \/ AppendPackage \/ Ordered \/ Select
  \/ Clean \/ Prebuild \/ Build \/ Test \/ Mark \/ Finish
  \/ Shutdown \/ Poll \/ Exit

Next == Main \/ Interrupt \/ DrawEnds

\* Both threads are scheduled; nobody has to interrupt.
Spec == Init /\ [][Next]_vars /\ WF_vars(Main) /\ WF_vars(DrawEnds)

-----------------------------------------------------------------------------
(* Properties.                                                             *)

TypeOK ==
  /\ options \in Commands
  /\ pc \in {"start", "unmark", "rosdep", "order", "select", "clean", "prebuild",
             "build", "test", "mark", "shutdown", "poll", "exit"}
  /\ todo \subseteq Package
  /\ stack \in Seq([pkg : Package, rest : SUBSET Package])
  /\ build_list \in Seq(Package)
  /\ unread \in Seq(Package) /\ new_list \in Seq(Package)
  /\ DOMAIN result \subseteq Phases
  /\ passed \in BOOLEAN \X BOOLEAN
  /\ nobuild \subseteq Package
  /\ outcome \in {"true", "false", "none", "exit", "raise"}
  /\ running \in BOOLEAN /\ done \in BOOLEAN
  /\ polls \in 0 .. Cycles
  /\ status \in {-1, 0, 1}
  /\ interrupts \in 0 .. MaxInterrupts

\* What stands in front of position i.
Before(s, i) == {s[j] : j \in 1 .. i - 1}

\* S holds all that p rests on directly, and what packages that do not exist
\* and stand between p and S rest on.
Behind(p, S) ==
  \E between \in SUBSET Lost :
    \A q \in {p} \cup between : Deps1[q] \subseteq S \cup between

\* build_or_recurse (engine.py:344) puts a package behind all it depends on,
\* also where it depends on it through packages that do not exist, and puts no
\* package into the list twice, which is_completed of the queue relies on.
DepsFirst ==
  pc = "order" =>
    \A i \in DOMAIN build_list :
      /\ Behind(build_list[i], Before(build_list, i))
      /\ build_list[i] \notin Before(build_list, i) \cup Lost

Good(key, p) == p = Rospack \/ (key \in DOMAIN result /\ p \in DOMAIN result[key] /\ result[key][p])

Asked == IF options.specified_only THEN options.specified ELSE Required

\* A process that ends with status 0 has removed the marks, or has built all
\* it was asked for and what that rests on, and tested all it was to test.
SuccessTruthful ==
  status = 0 =>
    \/ options.unmark_installed
    \/ /\ options.building =>
            \A p \in Asked \cup Elements(build_list) : Good(options.target, p)
       /\ options.testing => \A p \in options.specified : Good("test", p)

\* When main returns FALSE after the phases and nobody has interrupted it, one
\* of the files of failures names a package, or a package rests on one that
\* rospkg cannot find.
FailureReported ==
  /\ pc = "exit" /\ outcome = "false"
  /\ interrupts = 0
  /\ passed # <<TRUE, TRUE>>
  /\ options.target # "clean"
  => \/ Reported("none") \cup Reported("test") # {}
     \/ \E p \in Elements(build_list) : Deps[p] \cap Lost # {}

\* The exit status and the files of failures say what has happened in the
\* phases, whichever way main ends.
StatusTruthful == SuccessTruthful /\ FailureReported

\* --mark-installed: a package gets its ROS_NOBUILD file only when everything
\* that was to be built and tested in this run has passed.
MarkedWhenPassed ==
  \A p \in nobuild \ NoBuild :
    /\ options.mark_installed
    /\ options.building => Good(options.target, p)
    /\ options.testing => \A q \in options.specified : Good("test", q)

=============================================================================
