----------------------------- MODULE RosPackages -----------------------------
(***************************************************************************)
(* ROSPackages of core/roslib/src/roslib/packages.py: depends() and        *)
(* rosdeps() of packages, gathered recursively and cached.  The calls of   *)
(* _depends or _rosdeps in progress are frames of a stack.  rosdep keeps   *)
(* one ROSPackages for each of the two kinds.                              *)
(***************************************************************************)
EXTENDS Integers, SequencesExt

CONSTANTS
  Package,         \* the names of packages, of those that do not exist too
  Manifests,       \* Manifests[p]: what manifest.xml says, if it can be loaded
  LoadLimit,       \* number of calls below which there is stack enough to load a manifest,
  EmptyLimit,      \* to make an empty one in its place,
  RecursionLimit   \* or at all to go on: Python's limit, in calls

ASSUME ManifestsAssumption ==
  /\ DOMAIN Manifests \subseteq Package
  /\ \A p \in DOMAIN Manifests :
       /\ Manifests[p].depends \in Seq(Package)  \* package names, in order
       /\ IsFiniteSet(Manifests[p].rosdeps)      \* rosdep names
  /\ LoadLimit \in Nat \ {0} /\ EmptyLimit \in Nat /\ RecursionLimit \in Nat
  /\ LoadLimit <= EmptyLimit /\ EmptyLimit <= RecursionLimit

VARIABLES
  held,    \* held[kind]: the packages in self.manifests,
  blank,   \* and those of them that have an empty Manifest for lack of stack
  known,   \* known[kind]: the packages that are in the cache
  cache,   \* cache[kind][p]: what has been gathered for p
  asked,   \* the packages depends() or rosdeps() has still to answer for
  calls    \* the calls of _depends or _rosdeps, innermost first

manifests == <<held, blank>>
gathering == <<manifests, known, cache, asked, calls>>

Kinds == {"depends", "rosdeps"}

NoManifest == [depends |-> <<>>, rosdeps |-> {}]

\* A package that cannot be loaded has no dependencies.
ManifestOf(p) == IF p \in DOMAIN Manifests THEN Manifests[p] ELSE NoManifest

DependsOn(p) == ToSet(ManifestOf(p).depends)

\* self.manifests
Held(kind, p) == IF p \in blank[kind] THEN NoManifest ELSE ManifestOf(p)

\* What _depends and _rosdeps add for the package itself.
Own(kind, p) == IF kind = "depends" THEN ToSet(Held(kind, p).depends) ELSE Held(kind, p).rosdeps

NothingGathered ==
  /\ held = [kind \in Kinds |-> {}] /\ blank = held
  /\ known = [kind \in Kinds |-> {}]
  /\ cache = [kind \in Kinds |-> [p \in Package |-> {}]]
  /\ asked = <<>>
  /\ calls = <<>>

-----------------------------------------------------------------------------

Add(kind, p, S) == cache' = [cache EXCEPT ![kind][p] = @ \cup S]

\* load_manifests, with a number of calls of _depends or _rosdeps in progress.
\* _safe_load_manifest takes Python's RuntimeError for a package that does not
\* exist.
Load(kind, pkgs, depth) ==
  LET new == pkgs \ held[kind]
  IN /\ held' = [held EXCEPT ![kind] = @ \cup new]
     /\ blank' = IF depth <= LoadLimit THEN blank
                 ELSE [blank EXCEPT ![kind] = @ \cup (new \cap DOMAIN Manifests)]

\* Is there stack enough for a call for p, and for what it loads?
Fits(kind, p) ==
  /\ Len(calls) < RecursionLimit
  /\ Len(calls) < EmptyLimit \/ ToSet(Held(kind, p).depends) \subseteq held[kind]

\* The set that will be filled is put into the cache before the dependencies
\* are loaded and visited, so that a circle ends.
Enter(kind, p) ==
  /\ known' = [known EXCEPT ![kind] = @ \cup {p}]
  /\ calls' = <<[pkg |-> p, rest |-> Held(kind, p).depends]>> \o calls
  /\ Load(kind, ToSet(Held(kind, p).depends), Len(calls) + 1)
  /\ UNCHANGED cache

\* The loop of depends() and rosdeps()
Answer(kind) ==
  /\ calls = <<>> /\ asked # <<>>
  /\ asked' = Tail(asked)
  /\ IF Head(asked) \in known[kind]
     THEN UNCHANGED <<manifests, known, cache, calls>>
     ELSE Enter(kind, Head(asked))

\* Fault: what is in the cache counts as dealt with.
GatherOnce(kind) ==
  /\ calls # <<>>
  /\ LET p == Head(calls).pkg
         rest == Head(calls).rest
     IN /\ rest # <<>>
        /\ IF Head(rest) \in known[kind]
           THEN /\ UNCHANGED <<manifests, known, cache>>
                /\ calls' = <<[pkg |-> p, rest |-> Tail(rest)]>> \o Tail(calls)
           ELSE Fits(kind, Head(rest)) /\ Enter(kind, Head(rest))
  /\ UNCHANGED asked

\* Fault: the loop ends at a circle.
GatherUntilCircle(kind) ==
  /\ calls # <<>>
  /\ LET p == Head(calls).pkg
         rest == Head(calls).rest
     IN /\ rest # <<>>
        /\ IF Head(rest) \in known[kind]
           THEN /\ Add(kind, p, cache[kind][Head(rest)])
                /\ calls' = <<[pkg |-> p,
                               rest |-> IF \E i \in DOMAIN calls : calls[i].pkg = Head(rest)
                                        THEN <<>> ELSE Tail(rest)]>> \o Tail(calls)
                /\ UNCHANGED <<manifests, known>>
           ELSE Fits(kind, Head(rest)) /\ Enter(kind, Head(rest))
  /\ UNCHANGED asked

\* The next dependency: a call for it, and then what the cache has of it,
\* which is unfinished if its own call is in progress.
Gather(kind) ==
  /\ calls # <<>>
  /\ LET p == Head(calls).pkg
         rest == Head(calls).rest
     IN /\ rest # <<>>
        /\ IF Head(rest) \in known[kind]
           THEN /\ Add(kind, p, cache[kind][Head(rest)])
                /\ calls' = <<[pkg |-> p, rest |-> Tail(rest)]>> \o Tail(calls)
                /\ UNCHANGED <<manifests, known>>
           ELSE Fits(kind, Head(rest)) /\ Enter(kind, Head(rest))
  /\ UNCHANGED asked

\* The call ends.
Gathered(kind) ==
  /\ calls # <<>> /\ Head(calls).rest = <<>>
  /\ Add(kind, Head(calls).pkg, Own(kind, Head(calls).pkg))
  /\ calls' = Tail(calls)
  /\ UNCHANGED <<manifests, known, asked>>

Gathering(kind) == Answer(kind) \/ Gather(kind) \/ Gathered(kind)

\* There is no stack for the next call, or not for an empty Manifest in it: the
\* RuntimeError comes out of it.
TooDeep(kind) ==
  /\ calls # <<>> /\ Head(calls).rest # <<>>
  /\ LET next == Head(Head(calls).rest)
     IN next \notin known[kind] /\ ~Fits(kind, next)

Idle == asked = <<>> /\ calls = <<>>

-----------------------------------------------------------------------------
(* Properties.                                                             *)

Closed(S) == \A q \in S : DependsOn(q) \subseteq S

\* Below[p]: p and the packages it depends on, however far down.
Below ==
  [p \in Package |->
     {q \in Package : \A S \in SUBSET Package : p \in S /\ Closed(S) => q \in S}]

Circular(p) == \E d \in DependsOn(p) : p \in Below[d]

\* A circle nowhere below p
Straight(p) == \A q \in Below[p] : ~Circular(q)

\* What packages below p need
Needed(p) == UNION {ManifestOf(q).rosdeps : q \in Below[p]}

InProgress(p) == \E i \in DOMAIN calls : calls[i].pkg = p

\* No circle, and no manifest that could not be loaded so far down
Whole(kind, p) == Straight(p) /\ Below[p] \cap blank[kind] = {}

\* Whatever was asked before it, and whatever is in progress, the cache has
\* nothing for a package that does not come from below it, and once its call has
\* ended it forgets nothing that the package needs through others
\* (packages.py:632, 699), unless there is a circle below it or a manifest was
\* lost to Python's limit.  To rosdep, which adds the package to the list it was
\* given (core.py:236), that list is the cache.
NothingForgotten ==
  \A p \in Package :
    /\ cache["rosdeps"][p] \subseteq Needed(p)
    /\ cache["depends"][p] \subseteq Below[p]
    /\ ~InProgress(p) =>
         /\ p \in known["rosdeps"] /\ Whole("rosdeps", p) => Needed(p) \subseteq cache["rosdeps"][p]
         /\ p \in known["depends"] /\ Whole("depends", p) =>
              Below[p] \subseteq cache["depends"][p] \cup {p}
=============================================================================
