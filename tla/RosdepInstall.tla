---------------------------- MODULE RosdepInstall ----------------------------
(***************************************************************************)
(* One run of rosdep (tools/rosdep/src/rosdep/main.py, core.py and         *)
(* installers.py) for the commands install, check and satisfy: gathering   *)
(* the rosdeps of the packages, reading the rules for each file by file,   *)
(* and install_rosdep with its recursion, the calls of which are frames of *)
(* a stack.                                                                *)
(***************************************************************************)
EXTENDS RosPackages, RosdepRules

CONSTANTS
  Worlds,          \* bound: the machines that are modelled, see RosdepRules
  Robust           \* bound: values of the option -r

ASSUME WorldsAssumption ==
  /\ \A w \in Worlds : "machine" \in DOMAIN w
  /\ \A w \in {Detected(v) : v \in Worlds} :
       /\ w.packages \in Seq(Package)
       \* The package that a name with a lock is about is named without one.
       /\ \A n \in DOMAIN w.base : w.base[n] \notin DOMAIN w.base

VARIABLES
  world,
  op,        \* "install", "check" or "satisfy"
  robust,
  pc,        \* "start", "rosdeps", "next", "depends", "read", "looked",
             \* "call", "finish", "done"
  listing,   \* in the loop of get_packages_and_scripts?
  todo,      \* rosdeps the loop has not come to
  current,   \* the rosdep it is at
  paths,     \* RosdepLookupPackage: the files of its package,
  unread,    \* those that have still to be read,
  rules,     \* and rosdep_map
  lookups,   \* rdlp_cache: records of a package, its paths and rules
  used,      \* used[r]: the rule that has decided about r; nobody reads it
  stack,     \* the calls of install_rosdep in progress, innermost first
  present,   \* native packages that are installed
  scripts,   \* rosdeps whose scripts have been run with success
  failed,    \* failed rosdeps
  raised,    \* the exception that ended the run, or "none"
  status     \* exit status, -1 while rosdep runs

command == <<world, op, robust>>
loop == <<listing, todo, current>>
lookup == <<paths, unread, rules, lookups>>
installing == <<used, stack, present, scripts, failed>>
ending == <<raised, status>>
vars == <<command, gathering, pc, loop, lookup, installing, ending>>

AllRosdeps == UNION {ManifestOf(p).rosdeps : p \in Package}

\* get_rosdeps
Rosdeps == UNION {cache["rosdeps"][p] : p \in ToSet(world.packages)}

\* The package whose rules decide: the first that needs r
First(r) ==
  world.packages[Min({i \in DOMAIN world.packages : r \in cache["rosdeps"][world.packages[i]]})]

Frame(r, step, rest, installer, pkgs) ==
  [rosdep |-> r, step |-> step, rest |-> rest, installer |-> installer, pkgs |-> pkgs]

Raise(e) ==
  /\ raised' = e
  /\ pc' = "done"
  /\ status' = 1

\* A call returns: the caller ignores the result, and install() ends with the
\* first failure unless it is robust.
Return(ok) ==
  /\ stack' = Tail(stack)
  /\ IF Len(stack) > 1 THEN UNCHANGED <<failed, pc>>
     ELSE /\ failed' = IF ok THEN failed ELSE failed \cup {current}
          /\ pc' = IF ok \/ op # "install" \/ robust THEN "next" ELSE "finish"

Init ==
  /\ world \in {Detected(w) : w \in Worlds}
  /\ op \in {"install", "check", "satisfy"}
  /\ robust \in Robust
  /\ NothingGathered
  /\ pc = "start"
  /\ listing = FALSE /\ todo = {} /\ current = "none"
  /\ paths = {} /\ unread = {} /\ rules = <<>> /\ lookups = {}
  /\ used = [r \in AllRosdeps |-> Nothing]
  /\ stack = <<>>
  /\ present = world.present
  /\ scripts = {} /\ failed = {}
  /\ raised = "none" /\ status = -1

\* main: names that are no packages only lead to a warning, if others are.
Start ==
  /\ pc = "start"
  /\ IF world.packages = <<>> /\ ~world.stack
     THEN pc' = "done" /\ status' = 2 /\ UNCHANGED <<asked, raised>>
     ELSE IF world.err # "none" THEN Raise("undetected") /\ UNCHANGED asked
     ELSE /\ pc' = "rosdeps"
          /\ asked' = world.packages
          /\ UNCHANGED ending
  /\ Load("rosdeps", ToSet(asked'), 0)
  /\ UNCHANGED <<command, known, cache, calls, loop, lookup, installing>>

\* Rosdep.__init__ gathers the rosdeps of the packages ...
GatherRosdeps ==
  /\ pc = "rosdeps"
  /\ Gathering("rosdeps")
  /\ UNCHANGED <<command, pc, loop, lookup, installing, ending>>

\* ... and check() first lists what would be installed.
Plan ==
  /\ pc = "rosdeps" /\ Idle
  /\ pc' = "next"
  /\ listing' = (op # "install")
  /\ todo' = Rosdeps
  /\ UNCHANGED <<command, gathering, current, lookup, installing, ending>>

\* Nobody catches the RuntimeError.
Overflow ==
  /\ \/ pc = "rosdeps" /\ TooDeep("rosdeps")
     \/ pc = "depends" /\ TooDeep("depends")
  /\ Raise("RuntimeError")
  /\ UNCHANGED <<command, gathering, loop, lookup, installing>>

-----------------------------------------------------------------------------
(* The loops over the rosdeps, and RosdepLookupPackage.                    *)

\* The next rosdep of the dictionary. Only check() keeps what it has read.
Begin ==
  /\ pc = "next" /\ todo # {}
  /\ \E r \in todo :
       /\ todo' = todo \ {r}
       /\ current' = r
       /\ LET kept == {l \in lookups : op # "install" /\ l.pkg = First(r)}
          IN \/ /\ kept = {}
                /\ pc' = "depends"
                /\ asked' = <<First(r)>>
                /\ UNCHANGED <<paths, rules>>
             \/ \E l \in kept :
                  /\ pc' = "looked"
                  /\ paths' = l.paths
                  /\ rules' = l.rules
                  /\ UNCHANGED asked
  /\ Load("depends", ToSet(asked'), 0)
  /\ UNCHANGED <<command, known, cache, calls, listing, unread, lookups, installing, ending>>

\* _load_for_package asks for the dependencies of the package,
GatherDepends ==
  /\ pc = "depends"
  /\ Gathering("depends")
  /\ UNCHANGED <<command, pc, loop, lookup, installing, ending>>

\* adds the package to the list, which is the one in the cache, and looks for
\* the files.
Locate ==
  /\ pc = "depends" /\ Idle
  /\ LET p == First(current)
         found == Paths(world, cache["depends"][p] \cup {p})
     IN /\ Add("depends", p, {p})
        /\ IF found \cap world.lost # {}
           THEN Raise("ResourceNotFound") /\ UNCHANGED <<paths, unread, rules>>
           ELSE /\ paths' = found
                /\ unread' = found
                /\ rules' = <<>>
                /\ pc' = "read"
                /\ UNCHANGED ending
  /\ UNCHANGED <<command, manifests, known, asked, calls, loop, lookups, installing>>

\* Two files have different rules for r.
Conflict(have, new) == \E r \in DOMAIN have \cap DOMAIN new : have[r] # new[r]

\* have, and what new adds to it
Merged(have, new) ==
  [r \in DOMAIN have \cup DOMAIN new |-> IF r \in DOMAIN have THEN have[r] ELSE new[r]]

\* Fault: what is there already is kept.
ReadKept ==
  /\ pc = "read"
  /\ \E u \in unread :
       /\ unread' = unread \ {u}
       /\ rules' = Merged(rules, SpecificRosdeps(world, u))
  /\ UNCHANGED <<command, gathering, pc, loop, paths, lookups, installing, ending>>

\* The next file of the set, in any order: _insert_map. The exception of a
\* conflict ends the listing, which is all, or the run.
Read ==
  /\ pc = "read"
  /\ \E u \in unread :
       IF Conflict(rules, SpecificRosdeps(world, u))
       THEN IF listing
            THEN /\ listing' = FALSE /\ todo' = Rosdeps /\ pc' = "next"
                 /\ UNCHANGED <<unread, rules, ending>>
            ELSE Raise("conflict") /\ UNCHANGED <<listing, todo, unread, rules>>
       ELSE /\ unread' = unread \ {u}
            /\ rules' = Merged(rules, SpecificRosdeps(world, u))
            /\ UNCHANGED <<listing, todo, pc, ending>>
  /\ UNCHANGED <<command, gathering, current, paths, lookups, installing>>

\* The rules in ROS home override the others.
ReadHome ==
  /\ pc = "read" /\ unread = {}
  /\ rules' = Merged(SpecificRosdeps(world, "home"), rules)
  /\ lookups' = IF op = "install" THEN lookups
                ELSE lookups \cup {[pkg |-> First(current), paths |-> paths, rules |-> rules']}
  /\ pc' = "looked"
  /\ UNCHANGED <<command, gathering, loop, paths, unread, installing, ending>>

\* The listing only looks the rule up; otherwise install_rosdep is called.
Looked ==
  /\ pc = "looked"
  /\ IF listing
     THEN pc' = "next" /\ UNCHANGED <<used, stack>>
     ELSE /\ pc' = "call"
          /\ used' = [used EXCEPT ![current] =
                        IF current \in DOMAIN rules THEN rules[current] ELSE Nothing]
          /\ stack' = <<Frame(current, "lookup", <<>>, "none", <<>>)>>
  /\ UNCHANGED <<command, gathering, loop, lookup, present, scripts, failed, ending>>

\* Whatever the listing has found, check() goes on.
Listed ==
  /\ pc = "next" /\ todo = {} /\ listing
  /\ listing' = FALSE
  /\ todo' = Rosdeps
  /\ UNCHANGED <<command, gathering, pc, current, lookup, installing, ending>>

-----------------------------------------------------------------------------
(* install_rosdep                                                          *)

Looking == pc = "call" /\ Head(stack).step = "lookup"

Ready == pc = "call" /\ Head(stack).step = "depends" /\ Head(stack).rest = <<>>

\* lookup_rosdep fails, or the rule names no installer or several.
NoRule ==
  /\ Looking
  /\ Head(stack).rosdep \in DOMAIN rules =>
       LET rule == rules[Head(stack).rosdep]
       IN rule.kind = "map" /\ ~Single(rule)
  /\ Return(FALSE)
  /\ UNCHANGED <<command, gathering, loop, lookup, used, present, scripts, ending>>

\* A rule of several lines is run, whatever the command.
Script ==
  /\ Looking
  /\ Head(stack).rosdep \in DOMAIN rules /\ rules[Head(stack).rosdep].kind = "script"
  /\ \E ok \in BOOLEAN :
       /\ Return(ok)
       /\ scripts' = IF ok THEN scripts \cup {Head(stack).rosdep} ELSE scripts
  /\ UNCHANGED <<command, gathering, loop, lookup, used, present, ending>>

\* get_installer, the installer's constructor and the first check_presence.
\* The installer for sources fetches its manifest, which may fail.
Choose ==
  /\ Looking
  /\ Head(stack).rosdep \in DOMAIN rules /\ Single(rules[Head(stack).rosdep])
  /\ LET rule == rules[Head(stack).rosdep]
         mode == ModeOf(rule)
         pkgs == ArgsOf(rule).pkgs
         depends == IF mode \in {"pip", "source"} THEN ArgsOf(rule).depends ELSE <<>>
         installers == world.installers
     IN \/ /\ mode \notin DOMAIN installers \/ mode = "source"
           /\ Raise("RosdepException")
           /\ UNCHANGED <<stack, failed>>
        \/ /\ mode \in DOMAIN installers /\ Unheard(installers[mode], pkgs)
           /\ Raise("KeyError")
           /\ UNCHANGED <<stack, failed>>
        \/ /\ mode \in DOMAIN installers /\ ~Unheard(installers[mode], pkgs)
           /\ Missing(world, installers[mode], pkgs, present) = {}
           /\ Return(TRUE)
           /\ UNCHANGED ending
        \/ /\ mode \in DOMAIN installers
           /\ Missing(world, installers[mode], pkgs, present) # {}
           /\ stack' = <<Frame(Head(stack).rosdep, "depends", depends, installers[mode], pkgs)>>
                         \o Tail(stack)
           /\ UNCHANGED <<failed, pc, ending>>
  /\ UNCHANGED <<command, gathering, loop, lookup, used, present, scripts>>

\* install_rosdep calls itself for what the rule depends on.
Depend ==
  /\ pc = "call" /\ Head(stack).step = "depends" /\ Head(stack).rest # <<>>
  /\ IF Len(stack) = RecursionLimit
     THEN Raise("RuntimeError") /\ UNCHANGED stack
     ELSE /\ LET f == Head(stack)
             IN stack' = <<Frame(Head(f.rest), "lookup", <<>>, "none", <<>>),
                           Frame(f.rosdep, "depends", Tail(f.rest), f.installer, f.pkgs)>>
                           \o Tail(stack)
          /\ UNCHANGED <<pc, ending>>
  /\ UNCHANGED <<command, gathering, loop, lookup, used, present, scripts, failed>>

\* The packages that generate_package_install_command asks for.
Wanted(f) ==
  {Installs(world, f.installer, n) : n \in Missing(world, f.installer, f.pkgs, present)} \ present

\* Fault: the package manager is believed.
ExecuteTrusted ==
  /\ Ready /\ op = "install"
  /\ \E ok \in BOOLEAN, got \in SUBSET Wanted(Head(stack)) :
       /\ present' = present \cup got
       /\ Return(ok)
  /\ UNCHANGED <<command, gathering, loop, lookup, used, scripts, ending>>

\* The package manager runs; only if it reports success is the presence
\* checked again.
Execute ==
  /\ Ready /\ op = "install"
  /\ \E ok \in BOOLEAN, got \in SUBSET Wanted(Head(stack)) :
       /\ present' = present \cup got
       /\ Return(ok /\ Missing(world, Head(stack).installer, Head(stack).pkgs, present') = {})
  /\ UNCHANGED <<command, gathering, loop, lookup, used, scripts, ending>>

\* The installer for sources may find a wrong checksum, also when it is only
\* to say what it would do.
WrongSum ==
  /\ Ready /\ Head(stack).installer = "Source"
  /\ Raise("RosdepException")
  /\ UNCHANGED <<command, gathering, loop, lookup, installing>>

\* check and satisfy say what would be executed.
Display ==
  /\ Ready /\ op # "install"
  /\ Return(FALSE)
  /\ UNCHANGED <<command, gathering, loop, lookup, used, present, scripts, ending>>

\* The exit status of main
Finish ==
  /\ pc = "finish" \/ (pc = "next" /\ todo = {} /\ ~listing)
  /\ status' = IF failed = {} THEN 0 ELSE 1
  /\ pc' = "done"
  /\ UNCHANGED <<command, gathering, loop, lookup, installing, raised>>

Next ==
  \/ Start \/ GatherRosdeps \/ Plan \/ Overflow
  \/ Begin \/ GatherDepends \/ Locate \/ Read \/ ReadHome \/ Looked \/ Listed
  \/ NoRule \/ Script \/ Choose \/ Depend
  \/ Execute \/ WrongSum \/ Display \/ Finish

Spec == Init /\ [][Next]_vars

-----------------------------------------------------------------------------
(* Properties.                                                             *)

\* What the rule that has decided about r asks for is there.
Met(r) ==
  LET rule == used[r]
      mode == ModeOf(rule)
  IN \/ rule.kind = "script" /\ r \in scripts
     \/ /\ Single(rule)
        /\ mode \in DOMAIN world.installers
        /\ \A n \in ToSet(ArgsOf(rule).pkgs) : Installs(world, world.installers[mode], n) \in present

\* A rule that asks apt for one package under two names, or yum for a version
Confusing(r) ==
  LET rule == used[r]
      mode == ModeOf(rule)
  IN /\ Single(rule)
     /\ mode \in DOMAIN world.installers
     /\ \E m, n \in ToSet(ArgsOf(rule).pkgs) :
          /\ m \in DOMAIN world.base /\ BaseOf(world, m) = BaseOf(world, n)
          /\ \/ world.installers[mode] = "Apt" /\ m # n
             \/ world.installers[mode] = "Yum"

\* "rosdep install" (main.py:150) ends with status 0 only when everything that
\* the packages need is there, whatever the package manager said, whatever
\* became of the dependencies of rules, whose results nobody looks at.  A check
\* (core.py:424) that is not ended by an exception reports exactly what is
\* missing, except for scripts, which are run, and for packages with a version
\* lock in a rule that is yum's, or apt's and names them twice.
AnswersTruthful ==
  /\ status = 0 => \A r \in Rosdeps : Met(r)
  /\ status \in {0, 1} /\ raised = "none" /\ op # "install" =>
       \A r \in Rosdeps :
         used[r].kind # "script" /\ ~Confusing(r) => (r \in failed <=> ~Met(r))

Sources(r) == {u \in paths : r \in DOMAIN SpecificRosdeps(world, u)}

\* The set of files is read in any order (core.py:270): what has been looked up
\* for a package, or the exception, is that of the set, and the files are those
\* of the package and of all that it depends on, but for circles and lost manifests.
RulesOrderFree ==
  /\ pc \in {"looked", "call"} =>
       LET home == SpecificRosdeps(world, "home")
           p == First(current)
       IN /\ \A r \in AllRosdeps \cup DOMAIN rules :
               IF r \in DOMAIN home THEN r \in DOMAIN rules /\ rules[r] = home[r]
               ELSE /\ r \in DOMAIN rules <=> Sources(r) # {}
                    /\ \A u \in Sources(r) : rules[r] = SpecificRosdeps(world, u)[r]
          /\ Whole("depends", p) => paths = Paths(world, Below[p])
  /\ raised = "conflict" =>
       \E u, v \in paths : Conflict(SpecificRosdeps(world, u), SpecificRosdeps(world, v))

\* When rosdep comes to its loops, the packages have together all the rosdeps that
\* one of them needs through others, in circles too: what one package of a circle
\* lacks in the cache (packages.py:689) another one that was asked for has.
AllFound ==
  pc = "next" /\ blank["rosdeps"] = {} =>
    Rosdeps = UNION {Needed(p) : p \in ToSet(world.packages)}

\* rosdep takes the machine for what roslib takes it, up to Mint, which it takes
\* for Ubuntu, and Mandriva, which it does not know. The two ask their classes in
\* different orders (os_detect.py:493, core.py:338): only for Arch and OS X can that
\* matter, and only where another class claims the machine too, against "Only one
\* version of this class should return for any version" (os_detect.py:130).
OneSystem ==
  LET m == world.machine
      systems == RoslibSystems(m)
      found == DetectOs(systems, m).name
  IN m.test = <<>> /\ m.override = <<>> =>
       /\ found \notin {"mint", "mandriva", "arch", "osx"} => world.os = found
       /\ found = "mint" => world.os = "ubuntu"
       /\ found \in {"arch", "osx"} /\ world.os # found =>
            \E i, j \in DOMAIN systems : i # j /\ systems[i].present /\ systems[j].present
=============================================================================
