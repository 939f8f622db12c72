--------------------------- MODULE PhaseContract ---------------------------
(***************************************************************************)
(* What a phase of rosmake (clean, build, test) may leave behind when      *)
(* RosMakeAll.parallel_build_pkgs of tools/rosmake/src/rosmake/engine.py   *)
(* returns: module RosMake relies on it, and BuildQueue keeps it.          *)
(*                                                                         *)
(* A phase:                                                                *)
(*   queue       the packages it is given                                  *)
(*   waits       waits[p]: what the tracker of its queue says p depends on *)
(*   deps        deps[p]: all that p depends on, for can_build             *)
(*   tolerant    the queue goes on after a failure                         *)
(*   regardless  make runs even where can_build says no                    *)
(*   test        is it the test phase?                                     *)
(*   prebuilt    what is registered as built from the start                *)
(*   rospack     the package rospack, never made in a phase                *)
(*   idle        packages with a ROS_NOBUILD file or without Makefile      *)
(*   stale       failures of an earlier phase under the same argument      *)
(*                                                                         *)
(* An outcome has the packages that were given back as built and as        *)
(* failed, and tells whether the user has interrupted the phase.           *)
(***************************************************************************)

Outcomes(queue) == [built : SUBSET queue, failed : SUBSET queue, cut : BOOLEAN]

\* No package is started before its dependencies have settled.
InTurn(phase, e) ==
  \A p \in (e.built \cup e.failed) \ phase.prebuilt : \A d \in phase.waits[p] :
    d \in e.built \/ (phase.tolerant /\ d \in e.failed)

\* What is left over has a reason: the user, a failure, or a package that waits
\* for one outside the queue.
Accounted(phase, e) ==
  \/ e.cut
  \/ ~phase.tolerant /\ e.failed # {}
  \/ e.built \cup e.failed = phase.queue
  \/ \E p \in phase.queue \ (e.built \cup e.failed) : ~(phase.waits[p] \subseteq phase.queue)

\* can_build passes what needs no make, and nothing else that rests on a
\* failure of this phase or on one of an earlier phase that still stands.
Judged(phase, e) ==
  /\ e.failed \cap phase.idle = {}
  /\ ~phase.test =>
       \A p \in e.built \ (phase.idle \cup {phase.rospack}) :
         /\ phase.waits[p] \cap e.failed = {}
         /\ phase.deps[p] \cap (phase.stale \ (e.built \cup e.failed)) = {}

PhaseEnds(phase) ==
  {e \in Outcomes(phase.queue) :
     /\ phase.prebuilt \subseteq e.built
     /\ e.built \cap e.failed = {}
     /\ phase.rospack \notin e.failed
     /\ InTurn(phase, e)
     /\ Accounted(phase, e)
     /\ phase.regardless \/ Judged(phase, e)}
=============================================================================
