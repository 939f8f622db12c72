---------------------------- MODULE MCBuildQueue ----------------------------
(***************************************************************************)
(* Instances of BuildQueue for TLC.                                        *)
(***************************************************************************)
EXTENDS BuildQueue

\* 1 <- {2, 3} <- 4: two packages can be built side by side.
Diamond == <<{}, {1}, {1}, {1, 2, 3}>>

\* The first phase of a process, with or without the mark of rospack.
NoPrior == {<<"none", "none", "none", "none">>}
AnyPrior == NoPrior \cup {<<"true", "none", "none", "none">>}
=============================================================================
