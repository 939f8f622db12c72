------------------------------ MODULE OsDetect ------------------------------
(***************************************************************************)
(* How the operating system is detected: the classes of                    *)
(* core/roslib/src/roslib/os_detect.py, those that rosdep derives from     *)
(* them (tools/rosdep/src/rosdep/debian.py and its neighbours) with their  *)
(* installers, and OSDetect, which asks a list of them in turn.            *)
(*                                                                         *)
(* A machine m:                                                            *)
(*   m.lsb       what lsb_release answers: os, codename, release           *)
(*   m.files     the words of the files that tell a system, by file name   *)
(*   m.uname     the words uname prints: system, release, machine          *)
(*   m.override  ROS_OS_OVERRIDE split at its colons                       *)
(*   m.test      ROSDEP_TEST_OS and ROSDEP_TEST_VERSION, if set            *)
(***************************************************************************)
EXTENDS Integers, FiniteSets, SequencesExt

Word(m, file, i) ==
  IF file \in DOMAIN m.files /\ i <= Len(m.files[file]) THEN m.files[file][i] ELSE "missing"

\* The answers of a class, which has no installers unless they are added.
System(name, present, version) ==
  [name |-> name, present |-> present, version |-> version, err |-> "none",
   bare |-> TRUE, installers |-> <<>>]

Debian(m) == System("debian", m.lsb.os = "Debian", m.lsb.codename)

Mandriva(m) == System("mandriva", m.lsb.os = "MandrivaLinux", <<m.lsb.release, m.uname[3]>>)

Ubuntu(m) == System("ubuntu", m.lsb.os = "Ubuntu", m.lsb.codename)

Mint(m) == System("mint", m.lsb.os = "LinuxMint", m.lsb.release)

OpenSuse(m) ==
  System("opensuse", Word(m, "SuSE-brand", 1) = "openSUSE",
         IF Word(m, "SuSE-brand", 2) = "VERSION" THEN Word(m, "SuSE-brand", 4) ELSE "no version")

\* The release is looked up in another file than the name.
Fedora(m) ==
  System("fedora", Word(m, "redhat-release", 1) = "Fedora" /\ Word(m, "redhat-release", 2) = "release",
         IF Word(m, "issue", 1) = "Fedora" /\ Word(m, "issue", 2) = "release"
         THEN Word(m, "issue", 3) ELSE "no version")

Rhel(m) ==
  System("rhel", Word(m, "redhat-release", 3) = "Enterprise",
         IF Word(m, "issue", 3) = "Enterprise" /\ Word(m, "issue", 7) # "missing"
         THEN Word(m, "issue", 7) ELSE "no version")

\* REP 111 calls the releases of OS X by name; the others are an error.
OsxName == ("10.4" :> "tiger") @@ ("10.5" :> "leopard") @@ ("10.6" :> "snow") @@ ("10.7" :> "lion")

Osx(m) ==
  LET product == Word(m, "sw_vers", 1)
      answer == System("osx", "sw_vers" \in DOMAIN m.files, "no version")
  IN IF product \in DOMAIN OsxName THEN [answer EXCEPT !.version = OsxName[product]]
     ELSE [answer EXCEPT !.err = "OSDetectException"]

Arch(m) == System("arch", "arch-release" \in DOMAIN m.files, "no version")

Cygwin(m) == System("cygwin", "cygwin1.dll" \in DOMAIN m.files, m.uname[2])

Gentoo(m) ==
  System("gentoo", Word(m, "gentoo-release", 1) = "Gentoo" /\ Word(m, "gentoo-release", 2) = "Base",
         IF Word(m, "gentoo-release", 5) # "missing" THEN Word(m, "gentoo-release", 5) ELSE "no version")

FreeBSD(m) == System("freebsd", m.uname[1] = "FreeBSD", m.uname[2])

\* The classes roslib asks, in order
RoslibSystems(m) ==
  <<Debian(m), Mandriva(m), Ubuntu(m), Mint(m), Osx(m), Arch(m), OpenSuse(m), Fedora(m),
    Rhel(m), Gentoo(m), Cygwin(m), FreeBSD(m)>>

\* OSDetect.detect_os: the override if a class has that name, else the first
\* class that finds its system.
DetectOs(systems, m) ==
  LET named == {i \in DOMAIN systems : Len(m.override) = 2 /\ systems[i].name = m.override[1]}
      found == {i \in DOMAIN systems : systems[i].present}
  IN IF named # {} THEN [systems[Min(named)] EXCEPT !.version = m.override[2], !.err = "none"]
     ELSE IF found # {} THEN systems[Min(found)]
     ELSE [System("none", FALSE, "no version") EXCEPT !.err = "OSDetectException"]

-----------------------------------------------------------------------------
(* rosdep's classes                                                        *)

AptInstallers == ("apt" :> "Apt") @@ ("source" :> "Source") @@ ("default" :> "Apt")

With(system, installers) == [system EXCEPT !.bare = FALSE, !.installers = installers]

RosdepDebian(m) == With(Debian(m), ("pip" :> "Pip") @@ AptInstallers)

RosdepUbuntu(m) == With(Ubuntu(m), ("pip" :> "Pip") @@ AptInstallers)

\* Mint passes itself off as the Ubuntu it is made from.
MintVersion ==
  ("11" :> "11.04") @@ ("10" :> "10.10") @@ ("9" :> "10.04") @@ ("8" :> "9.10") @@
  ("7" :> "9.04") @@ ("6" :> "8.10") @@ ("5" :> "8.04")

RosdepMint(m) ==
  LET answer == [With(Mint(m), AptInstallers) EXCEPT !.name = "ubuntu"]
  IN IF m.lsb.release \in DOMAIN MintVersion
     THEN [answer EXCEPT !.version = MintVersion[m.lsb.release]]
     ELSE [answer EXCEPT !.err = "KeyError"]

YumInstallers == ("yum" :> "Yum") @@ ("pip" :> "Pip") @@ ("source" :> "Source") @@ ("default" :> "Yum")

RosdepArch(m) ==
  [With(Arch(m), ("pacman" :> "Pacman") @@ ("default" :> "Pacman")) EXCEPT !.version = "arch"]

RosdepOsx(m) ==
  With(Osx(m), ("pip" :> "Pip") @@ ("macports" :> "Macports") @@ ("default" :> "Macports") @@
               ("source" :> "Source"))

RosdepTestOS(m) ==
  With(IF m.test = <<>> THEN System("rosdep_test_os", FALSE, "rosdep_test_version")
       ELSE System(m.test[1], TRUE, m.test[2]), <<>>)

\* Fault: OpenSuse comes first.
SuseFirst(m) ==
  <<RosdepTestOS(m), OpenSuse(m), RosdepDebian(m), RosdepUbuntu(m), RosdepMint(m),
    With(Fedora(m), YumInstallers), With(Rhel(m), YumInstallers), RosdepArch(m), RosdepOsx(m),
    Gentoo(m), Cygwin(m), FreeBSD(m)>>

\* The classes rosdep asks, in order
RosdepSystems(m) ==
  <<RosdepTestOS(m), RosdepDebian(m), RosdepUbuntu(m), RosdepMint(m), OpenSuse(m),
    With(Fedora(m), YumInstallers), With(Rhel(m), YumInstallers), RosdepArch(m), RosdepOsx(m),
    Gentoo(m), Cygwin(m), FreeBSD(m)>>

\* What Rosdep() finds. It reads the attribute installers, which some classes
\* do not have.
RosdepDetect(m) ==
  LET system == DetectOs(RosdepSystems(m), m)
  IN IF system.err = "none" /\ system.bare THEN [system EXCEPT !.err = "AttributeError"] ELSE system
=============================================================================
