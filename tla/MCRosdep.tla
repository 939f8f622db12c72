------------------------------ MODULE MCRosdep ------------------------------
(* nav depends on tf and geo, both on base; loop1 and loop2 on each other.  *)
(* Too far down from deep there is no stack to load tf and geo, unless nav  *)
(* has been gathered before, or to go on if tf is asked for as well.        *)
EXTENDS RosdepInstall

Text(pkgs) == [Nothing EXCEPT !.kind = "text", !.pkgs = pkgs]
Lines == [Nothing EXCEPT !.kind = "script"]
Map(of) == [Nothing EXCEPT !.kind = "map", !.of = of]
Args(pkgs, depends) == [Nothing EXCEPT !.kind = "args", !.pkgs = pkgs, !.depends = depends]

Manifest(depends, rosdeps) == [depends |-> depends, rosdeps |-> rosdeps]

MCManifests ==
  ("nav" :> Manifest(<<"tf", "geo", "gone">>, {"eigen"})) @@
  ("tf" :> Manifest(<<"base">>, {"yaml"})) @@
  ("geo" :> Manifest(<<"base">>, {"eigen"})) @@
  ("base" :> Manifest(<<>>, {"boost"})) @@
  ("deep" :> Manifest(<<"app">>, {"python"})) @@
  ("app" :> Manifest(<<"nav">>, {})) @@
  ("loop1" :> Manifest(<<"loop2">>, {"yaml"})) @@
  ("loop2" :> Manifest(<<"loop1", "base">>, {}))

MCPackage == DOMAIN MCManifests \cup {"gone"}

OnUbuntu(rule) == "ubuntu" :> rule

Eigen == OnUbuntu(Map(("lucid" :> Text(<<"eigen2">>)) @@ ("11.04" :> Text(<<"eigen3=3.0", "blas">>))))

Yamls ==
  {("common" :> (("boost" :> OnUbuntu(boost)) @@ ("eigen" :> Eigen))) @@
   ("tf" :> (("yaml" :> OnUbuntu(yaml)) @@ ("boost" :> OnUbuntu(Text(<<"libboost">>))))) :
     boost \in {Text(<<"libboost">>), Map("pip" :> Args(<<"boost">>, <<"yaml">>)), Text(<<>>)},
     yaml \in {Lines, Map("source" :> Args(<<"yaml">>, <<"boost", "eigen">>)),
               Map("pip" :> Args(<<"yaml">>, <<"yaml">>)), Map("brew" :> Args(<<"yaml">>, <<>>)),
               Map(("pip" :> Args(<<"yaml">>, <<>>)) @@ ("apt" :> Args(<<"yaml">>, <<>>)))}}

Homes == {<<>>, "home" :> ("boost" :> OnUbuntu(Map("natty" :> Map("brew" :> Args(<<"b">>, <<>>)))))}

\* Machines
Linux(lsb, codename, release, files) ==
  [lsb |-> [os |-> lsb, codename |-> codename, release |-> release], files |-> files,
   uname |-> <<"Linux", "2.6", "x86_64">>, override |-> <<>>, test |-> <<>>]

Natty == Linux("Ubuntu", "natty", "11.04", <<>>)
Lucid == Linux("Ubuntu", "lucid", "10.04", <<>>)
F14 == Linux("none", "none", "none", ("redhat-release" :> <<"Fedora", "release", "14">>) @@
                                     ("issue" :> <<"Fedora", "release", "14">>))

OtherMachines ==
  {Linux("Debian", "squeeze", "6.0", <<>>), Linux("MandrivaLinux", "x", "2010.0", <<>>),
   Linux("LinuxMint", "julia", "10", <<>>), Linux("LinuxMint", "lisa", "12", <<>>),
   Linux("none", "none", "none", "SuSE-brand" :> <<"openSUSE", "VERSION", "=", "11.4">>),
   Linux("none", "none", "none", ("redhat-release" :> <<"Red", "Hat", "Enterprise", "Linux">>) @@
         ("issue" :> <<"Red", "Hat", "Enterprise", "Linux", "Server", "release", "5.5">>)),
   Linux("none", "none", "none", "arch-release" :> <<>>),
   Linux("none", "none", "none", "gentoo-release" :> <<"Gentoo", "Base", "System", "release", "2.0">>),
   Linux("none", "none", "none", "cygwin1.dll" :> <<>>),
   Linux("none", "none", "none", "sw_vers" :> <<"10.6">>),
   Linux("none", "none", "none", "sw_vers" :> <<"10.8">>),
   Linux("none", "none", "none", <<>>),
   \* Files of two systems
   Linux("Debian", "squeeze", "6.0", "SuSE-brand" :> <<"openSUSE", "VERSION", "=", "11.4">>),
   Linux("LinuxMint", "julia", "10", "arch-release" :> <<>>),
   Linux("none", "none", "none", "redhat-release" :> <<"Fedora", "release", "Enterprise">>),
   Linux("none", "none", "none", ("arch-release" :> <<>>) @@
         ("redhat-release" :> <<"Fedora", "release", "14">>) @@ ("issue" :> <<"Fedora", "release", "14">>)),
   Linux("none", "none", "none", ("sw_vers" :> <<"10.6">>) @@ ("arch-release" :> <<>>)),
   [Linux("none", "none", "none", <<>>) EXCEPT !.uname = <<"FreeBSD", "8.2", "amd64">>],
   [F14 EXCEPT !.override = <<"ubuntu", "lucid">>], [F14 EXCEPT !.override = <<"beos", "5">>],
   [Natty EXCEPT !.override = <<"gentoo", "2.0">>], [Natty EXCEPT !.override = <<"ubuntu">>],
   [Natty EXCEPT !.test = <<"ubuntu", "lucid">>]}

World(packages, yaml, machine, lost) ==
  [packages |-> packages, stack |-> packages = <<>> /\ machine = Lucid,
   stackOf |-> [p \in MCPackage |->
                  CASE p \in {"base", "geo"} -> "common" [] p = "nav" -> "navigation" [] OTHER -> "none"],
   stackDeps |-> ("common" :> {}) @@ ("navigation" :> {"common"}),
   lost |-> lost, yaml |-> yaml, machine |-> machine, present |-> {"blas"},
   base |-> [n \in {"eigen3=3.0", "eigen3=3.1"} |-> "eigen3"]]

\* A rule for eigen on every system
Everywhere ==
  "common" :> (("boost" :> [o \in {"ubuntu", "debian", "fedora", "rhel", "arch", "osx"} |->
                             IF o = "debian" THEN Map("apt" :> Args(<<>>, <<>>)) ELSE Text(<<"boost">>)]) @@
               ("eigen" :> (("ubuntu" :> Text(<<"eigen3=3.0", "eigen3=3.1", "eigen3=3.0">>)) @@
                            ("fedora" :> Text(<<"eigen3=3.0">>)) @@ ("rhel" :> Text(<<"eigen3">>)) @@
                            ("debian" :> Map("apt" :> Args(<<"eigen3">>, <<>>))) @@
                            ("arch" :> Map("pip" :> Args(<<"eigen">>, <<>>))) @@
                            ("macports" :> Map("snow" :> Text(<<"eigen3">>))))))

MCWorlds ==
  {World(packages, home @@ yaml, Natty, {}) :
     packages \in {<<"tf">>, <<"base", "nav">>, <<"loop1", "loop2">>}, yaml \in Yamls, home \in Homes}
    \cup {World(packages, yaml, Lucid, lost) :
            packages \in {<<>>, <<"nav">>}, yaml \in Yamls, lost \in {{}, {"common"}}}
    \cup {World(<<"geo">>, Everywhere, machine, {}) : machine \in OtherMachines \cup {Natty, F14}}
    \cup {World(packages, Everywhere, Natty, {}) :
            packages \in {<<"deep">>, <<"nav", "deep">>, <<"deep", "app", "nav", "tf">>,
                         <<"deep", "app", "nav", "tf", "base">>}}
    \cup {[World(<<>>, <<>>, Natty, {}) EXCEPT !.stack = FALSE]}
=============================================================================
