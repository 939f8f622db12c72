---------------------------- MODULE ParallelBuild ---------------------------
(***************************************************************************)
(* What a parallel build promises, whatever threads and locks carry it     *)
(* out: every package is built at most once, after the packages it depends *)
(* on, and nothing is started once the build has been closed.              *)
(***************************************************************************)
CONSTANTS
  Package,
  Deps,        \* Deps[p]: what comes before p, perhaps no package of this build
  Prebuilts,   \* the sets of packages that may be in place before the build
  Tolerant     \* TRUE: a failed dependency does not hold its dependents back

VARIABLES
  status,      \* status[p]: where p is on its way
  open         \* may a package still be started?

vars == <<status, open>>

Status == {"waiting", "building", "built", "failed"}

Init ==
  /\ \E prebuilt \in Prebuilts :
       status = [p \in Package |-> IF p \in prebuilt THEN "built" ELSE "waiting"]
  /\ open \in BOOLEAN

Settled(p) ==
  /\ p \in Package
  /\ status[p] = "built" \/ (Tolerant /\ status[p] = "failed")

\* The last start or the end of a build may also close the whole build.
Start(p) ==
  /\ open
  /\ status[p] = "waiting"
  /\ \A d \in Deps[p] : Settled(d)
  /\ status' = [status EXCEPT ![p] = "building"]
  /\ open' \in {open, FALSE}

Finish(p) ==
  /\ status[p] = "building"
  /\ \E s \in {"built", "failed"} : status' = [status EXCEPT ![p] = s]
  /\ open' \in {open, FALSE}

Close ==
  /\ open
  /\ open' = FALSE
  /\ status' = status

Next ==
  \/ \E p \in Package : Start(p) \/ Finish(p)
  \/ Close

Spec == Init /\ [][Next]_vars
=============================================================================
