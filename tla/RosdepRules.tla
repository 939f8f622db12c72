----------------------------- MODULE RosdepRules -----------------------------
(***************************************************************************)
(* What the rosdep.yaml files say and what the installers find: YamlCache  *)
(* of tools/rosdep/src/rosdep/core.py and installers.py.                   *)
(*                                                                         *)
(* A world w describes the machine:                                        *)
(*   w.packages   the packages that were verified, in order                *)
(*   w.stack      was a stack named?                                       *)
(*   w.stackOf    w.stackOf[p]: the stack of package p, or "none"          *)
(*   w.stackDeps  w.stackDeps[s]: the stacks that stack s depends on       *)
(*   w.lost       stacks that rospkg does not find                         *)
(*   w.yaml       w.yaml[u][r]: what the rosdep.yaml of the stack or       *)
(*                package u says of rosdep r; "home" is the one in ROS     *)
(*                home; unreadable files are not in the domain             *)
(*   w.machine    see OsDetect                                             *)
(*   w.base       w.base[n]: the package that n, a name with a version     *)
(*                lock, is about                                           *)
(*   w.present    the native packages that are installed                   *)
(*                                                                         *)
(* A rule is a record of one of these kinds: "text", a line with the       *)
(* native packages pkgs, in order; "script", several lines; "map", whose   *)
(* field of maps release names to rules and installer names to arguments;  *)
(* "args", the arguments of an installer: pkgs and depends.                *)
(***************************************************************************)
EXTENDS OsDetect

Nothing == [kind |-> "nothing", pkgs |-> <<>>, depends |-> <<>>, of |-> <<>>]

\* What Python takes for false.
Empty(rule) == rule.kind # "script" /\ rule.pkgs = <<>> /\ rule.of = <<>>

\* The names by which REP 111 knows some releases
Rep111 == ("lucid" :> "10.04") @@ ("maverick" :> "10.10") @@ ("natty" :> "11.04")

\* get_version_from_yaml
ForVersion(w, rule) ==
  IF rule.kind # "map" THEN rule
  ELSE IF w.version \in DOMAIN rule.of THEN rule.of[w.version]
  ELSE IF w.version \in DOMAIN Rep111 /\ Rep111[w.version] \in DOMAIN rule.of
  THEN rule.of[Rep111[w.version]]
  ELSE IF DOMAIN rule.of \subseteq DOMAIN w.installers THEN rule ELSE Nothing

\* get_os_from_yaml
ForOS(w, entry) ==
  IF w.os \in DOMAIN entry THEN ForVersion(w, entry[w.os])
  ELSE IF w.os = "osx" /\ "macports" \in DOMAIN entry THEN ForVersion(w, entry["macports"])
  ELSE Nothing

\* get_specific_rosdeps
SpecificRosdeps(w, u) ==
  IF u \notin DOMAIN w.yaml THEN <<>>
  ELSE LET rule == [r \in DOMAIN w.yaml[u] |-> ForOS(w, w.yaml[u][r])]
       IN [r \in {x \in DOMAIN rule : ~Empty(rule[x])} |-> rule[r]]

\* The stacks and packages whose files are read: the stack of every package
\* with the stacks it depends on; a package that is in no stack by itself.
Paths(w, pkgs) ==
  UNION {IF w.stackOf[q] = "none" THEN {q}
         ELSE {w.stackOf[q]} \cup w.stackDeps[w.stackOf[q]] : q \in pkgs}

\* Rosdep(): a world with the system that is detected
Detected(w) ==
  LET system == RosdepDetect(w.machine)
      found == [os |-> system.name, version |-> system.version, err |-> system.err,
                installers |-> system.installers]
  IN [x \in DOMAIN w \cup DOMAIN found |-> IF x \in DOMAIN found THEN found[x] ELSE w[x]]

-----------------------------------------------------------------------------
(* The installers: which packages of a list do they not find?              *)

BaseOf(w, n) == IF n \in DOMAIN w.base THEN w.base[n] ELSE n

\* dpkg is asked about packages, not about versions. Of several names for one
\* package the last counts as found.
AptMissing(w, pkgs, have) ==
  {n \in ToSet(pkgs) :
     \/ BaseOf(w, n) \notin have
     \/ \A k \in DOMAIN pkgs : pkgs[k] = n =>
          \E l \in DOMAIN pkgs : l > k /\ pkgs[l] # n /\ BaseOf(w, pkgs[l]) = BaseOf(w, n)}

\* dpkg that is asked about nothing lists all that is installed, and a package that
\* is not in the list of names is a KeyError.
Unheard(installer, pkgs) == installer = "Apt" /\ pkgs = <<>>

\* rpm answers with the name of the package.
YumMissing(w, pkgs, have) ==
  ToSet(pkgs) \ {BaseOf(w, n) : n \in {x \in ToSet(pkgs) : BaseOf(w, x) \in have}}

\* pip, pacman and port list what is installed.
ListMissing(pkgs, have) == ToSet(pkgs) \ have

\* check_presence; the installer for sources runs a script.
Missing(w, installer, pkgs, have) ==
  CASE installer = "Apt" -> AptMissing(w, pkgs, have)
    [] installer = "Yum" -> YumMissing(w, pkgs, have)
    [] OTHER -> ListMissing(pkgs, have)

\* What is there when n has been installed: only these two know of versions.
Installs(w, installer, n) == IF installer \in {"Apt", "Yum"} THEN BaseOf(w, n) ELSE n

\* The arguments of a rule: its installer and what that is to install
ModeOf(rule) == IF rule.kind = "map" THEN CHOOSE m \in DOMAIN rule.of : TRUE ELSE "default"

ArgsOf(rule) == IF rule.kind = "map" THEN rule.of[ModeOf(rule)] ELSE rule

\* A rule for one installer
Single(rule) ==
  rule.kind = "text" \/ (rule.kind = "map" /\ \E m \in DOMAIN rule.of : DOMAIN rule.of = {m})
=============================================================================
