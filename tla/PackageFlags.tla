---------------------------- MODULE PackageFlags ----------------------------
(***************************************************************************)
(* PackageFlagTracker of tools/rosmake/src/rosmake/package_stats.py: the   *)
(* marker files of a package are looked up the first time somebody asks.   *)
(* All CompileThreads share one tracker and it has no lock, so two threads *)
(* may look up the same package at the same time.                          *)
(*                                                                         *)
(* The lists in "blacklisted" are sets: only whether they are empty and    *)
(* which packages they name is ever used.                                  *)
(***************************************************************************)
EXTENDS PackageStats

CONSTANTS Thread

VARIABLES
  onDisk,       \* packages with a ROS_NOBUILD file at this moment
  blacklisted, nobuild, nomakefile, packages_tested,  \* the tracker's fields
  pc,           \* where thread t is
  goal,         \* goal[t]: the question of t, <<kind, package>>
  todo,         \* todo[t]: dependencies t still has to look up
  cur,          \* cur[t]: the package t is looking up
  regs,         \* regs[t]: dependents of cur[t] to register as blacklisted
  seen,         \* seen[t]: the dependent in hand and whether it had an entry
  answer        \* answer[t]: what the last question of t was answered

local == <<goal, todo, cur, regs, seen>>
tracker == <<blacklisted, nobuild, nomakefile, packages_tested>>
vars == <<onDisk, tracker, pc, local, answer>>

None == <<>>
Kinds == {"is_blacklisted", "has_nobuild", "has_makefile"}

\* rospack_depends_on
DependsOn(p) == {q \in Package : p \in Deps[q]}

Init ==
  /\ onDisk = NoBuild
  /\ blacklisted = [p \in Package |-> {}]
  /\ nobuild = {}
  /\ nomakefile = {}
  /\ packages_tested = {}
  /\ pc = [t \in Thread |-> "idle"]
  /\ goal = [t \in Thread |-> None]
  /\ todo = [t \in Thread |-> {}]
  /\ cur = [t \in Thread |-> None]
  /\ regs = [t \in Thread |-> {}]
  /\ seen = [t \in Thread |-> None]
  /\ answer = [t \in Thread |-> "none"]

Goto(t, l) == pc' = [pc EXCEPT ![t] = l]

\* A question about p; is_blacklisted looks at the dependencies as well.
Ask(t, k, p) ==
  /\ pc[t] = "idle"
  /\ goal' = [goal EXCEPT ![t] = <<k, p>>]
  /\ todo' = [todo EXCEPT ![t] = IF k = "is_blacklisted" THEN Deps[p] ELSE {}]
  /\ cur' = [cur EXCEPT ![t] = p]
  /\ answer' = [answer EXCEPT ![t] = "none"]
  /\ Goto(t, "check")
  /\ UNCHANGED <<onDisk, tracker, regs, seen>>

\* Fault: the package counts as tested before its files have been looked at.
CheckMarkFirst(t) ==
  /\ pc[t] = "check"
  /\ Goto(t, IF cur[t] \in packages_tested THEN "next" ELSE "register")
  /\ regs' = [regs EXCEPT ![t] =
                IF cur[t] \in Blacklist THEN {cur[t]} \cup DependsOn(cur[t]) ELSE {}]
  /\ packages_tested' = packages_tested \cup {cur[t]}
  /\ UNCHANGED <<onDisk, blacklisted, nobuild, nomakefile, goal, todo, cur, seen, answer>>

\* _check_package_flags returns at once for a package that has been tested.
Check(t) ==
  /\ pc[t] = "check"
  /\ Goto(t, IF cur[t] \in packages_tested THEN "next" ELSE "register")
  /\ regs' = [regs EXCEPT ![t] =
                IF cur[t] \in Blacklist THEN {cur[t]} \cup DependsOn(cur[t]) ELSE {}]
  /\ UNCHANGED <<onDisk, tracker, goal, todo, cur, seen, answer>>

\* register_blacklisted tests for the entry of d ...
Look(t, d) ==
  /\ pc[t] = "register"
  /\ d \in regs[t]
  /\ seen' = [seen EXCEPT ![t] = <<d, blacklisted[d] # {}>>]
  /\ Goto(t, "store")
  /\ UNCHANGED <<onDisk, tracker, goal, todo, cur, regs, answer>>

\* ... and then extends it or makes a new one: of two threads that both found
\* no entry the second wipes out what the first has stored.
Store(t) ==
  LET d == seen[t][1]
  IN /\ pc[t] = "store"
     /\ blacklisted' = [blacklisted EXCEPT ![d] =
                          IF seen[t][2] THEN @ \cup {cur[t]} ELSE {cur[t]}]
     /\ regs' = [regs EXCEPT ![t] = @ \ {d}]
     /\ seen' = [seen EXCEPT ![t] = None]
     /\ Goto(t, "register")
     /\ UNCHANGED <<onDisk, nobuild, nomakefile, packages_tested,
                    goal, todo, cur, answer>>

LookForNoBuild(t) ==
  /\ pc[t] = "register"
  /\ regs[t] = {}
  /\ nobuild' = nobuild \cup (onDisk \cap {cur[t]})
  /\ Goto(t, "makefile")
  /\ UNCHANGED <<onDisk, blacklisted, nomakefile, packages_tested, local, answer>>

LookForMakefile(t) ==
  /\ pc[t] = "makefile"
  /\ nomakefile' = nomakefile \cup (NoMakefile \cap {cur[t]})
  /\ Goto(t, "tested")
  /\ UNCHANGED <<onDisk, blacklisted, nobuild, packages_tested, local, answer>>


MarkTested(t) ==
  /\ pc[t] = "tested"
  /\ packages_tested' = packages_tested \cup {cur[t]}
  /\ Goto(t, "next")
  /\ UNCHANGED <<onDisk, blacklisted, nobuild, nomakefile, local, answer>>

\* The loop of is_blacklisted over the dependencies.
NextDependency(t, d) ==
  /\ pc[t] = "next"
  /\ d \in todo[t]
  /\ todo' = [todo EXCEPT ![t] = @ \ {d}]
  /\ cur' = [cur EXCEPT ![t] = d]
  /\ Goto(t, "check")
  /\ UNCHANGED <<onDisk, tracker, goal, regs, seen, answer>>

Verdict(k, p) ==
  CASE k = "is_blacklisted" -> blacklisted[p] # {}
    [] k = "has_nobuild" -> p \in nobuild
    [] k = "has_makefile" -> p \notin nomakefile

Answer(t) ==
  /\ pc[t] = "next"
  /\ todo[t] = {}
  /\ answer' = [answer EXCEPT ![t] =
                IF Verdict(goal[t][1], goal[t][2]) THEN "yes" ELSE "no"]
  /\ cur' = [cur EXCEPT ![t] = None]
  /\ Goto(t, "idle")
  /\ UNCHANGED <<onDisk, tracker, goal, todo, regs, seen>>

\* add_nobuild and remove_nobuild: the main thread calls them when it has
\* asked has_nobuild and no CompileThread is left.  The file operation may
\* fail; then neither the file nor the set changes.
Quiescent == \A t \in Thread : pc[t] = "idle"

AddNoBuild(p) ==
  /\ Quiescent
  /\ p \in packages_tested \ nobuild
  /\ onDisk' = onDisk \cup {p}
  /\ nobuild' = nobuild \cup {p}
  /\ answer' = [t \in Thread |-> "none"]
  /\ UNCHANGED <<blacklisted, nomakefile, packages_tested, pc, local>>

\* Fault: the file is removed but the tracker is not told.
RemoveNoBuildFile(p) ==
  /\ Quiescent
  /\ p \in packages_tested \cap nobuild
  /\ onDisk' = onDisk \ {p}
  /\ answer' = [t \in Thread |-> "none"]
  /\ UNCHANGED <<nobuild, blacklisted, nomakefile, packages_tested, pc, local>>

RemoveNoBuild(p) ==
  /\ Quiescent
  /\ p \in packages_tested \cap nobuild
  /\ onDisk' = onDisk \ {p}
  /\ nobuild' = nobuild \ {p}
  /\ answer' = [t \in Thread |-> "none"]
  /\ UNCHANGED <<blacklisted, nomakefile, packages_tested, pc, local>>

Step(t) ==
  \/ \E k \in Kinds, p \in Package : Ask(t, k, p)
  \/ Check(t)
  \/ \E d \in Package : Look(t, d)
  \/ Store(t) \/ LookForNoBuild(t) \/ LookForMakefile(t) \/ MarkTested(t)
  \/ \E d \in Package : NextDependency(t, d)
  \/ Answer(t)

Next ==
  \/ \E t \in Thread : Step(t)
  \/ \E p \in Package : AddNoBuild(p) \/ RemoveNoBuild(p)

Spec == Init /\ [][Next]_vars

-----------------------------------------------------------------------------
(* Properties.                                                             *)

TypeOK ==
  /\ onDisk \subseteq Package
  /\ blacklisted \in [Package -> SUBSET Package]
  /\ nobuild \subseteq Package
  /\ nomakefile \subseteq Package
  /\ packages_tested \subseteq Package
  /\ pc \in [Thread -> {"idle", "check", "register", "store", "makefile", "tested", "next"}]
  /\ answer \in [Thread -> {"none", "yes", "no"}]
  /\ \A t \in Thread : todo[t] \subseteq Package /\ regs[t] \subseteq Package

\* A package is marked as tested only when all that its files say is known,
\* whatever other threads are looking up at the same time: the mark comes
\* last, and losing an update of a list leaves the list non-empty.
TestedMeansKnown ==
  \A p \in packages_tested :
    /\ p \in Blacklist => \A d \in {p} \cup DependsOn(p) : blacklisted[d] # {}
    /\ p \in nobuild <=> p \in onDisk
    /\ p \in nomakefile <=> p \in NoMakefile

\* Every answer is the one the files give: concurrent lookups neither hide a
\* blacklisted dependency nor report one that is not there.
AnswersRight ==
  \A t \in Thread :
    answer[t] # "none" =>
      LET p == goal[t][2]
      IN answer[t] = "yes" <=>
           CASE goal[t][1] = "is_blacklisted" -> BlacklistedBy(p) # {}
             [] goal[t][1] = "has_nobuild" -> p \in onDisk
             [] goal[t][1] = "has_makefile" -> p \notin NoMakefile
=============================================================================
