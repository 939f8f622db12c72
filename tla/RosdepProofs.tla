---------------------------- MODULE RosdepProofs ----------------------------
(***************************************************************************)
(* What rosdep answers is true, whatever the packages, their manifests,    *)
(* the rules and the machines are.                                         *)
(***************************************************************************)
EXTENDS RosdepInstall, SequenceTheorems, FiniteSetTheorems, WellFoundedInduction, TLAPS

-----------------------------------------------------------------------------
(* Stacks: sequences whose first element is the innermost call.            *)

LEMMA Pushed ==
  ASSUME NEW S, NEW s \in Seq(S), NEW e \in S
  PROVE  /\ <<e>> \o s \in Seq(S)
         /\ Len(<<e>> \o s) = Len(s) + 1
         /\ (<<e>> \o s)[1] = e
         /\ \A i \in 2 .. Len(s) + 1 : (<<e>> \o s)[i] = s[i - 1]
  OBVIOUS

LEMMA Popped ==
  ASSUME NEW S, NEW s \in Seq(S), s # <<>>
  PROVE  /\ Tail(s) \in Seq(S)
         /\ Len(Tail(s)) = Len(s) - 1
         /\ \A i \in 1 .. Len(s) - 1 : Tail(s)[i] = s[i + 1]
         /\ Head(s) \in S /\ Head(s) = s[1]
         /\ Len(s) >= 1
  OBVIOUS

\* A new innermost call in the place of the old one.
LEMMA Replaced ==
  ASSUME NEW S, NEW s \in Seq(S), s # <<>>, NEW e \in S
  PROVE  /\ <<e>> \o Tail(s) \in Seq(S)
         /\ Len(<<e>> \o Tail(s)) = Len(s)
         /\ (<<e>> \o Tail(s))[1] = e
         /\ \A i \in 2 .. Len(s) : (<<e>> \o Tail(s))[i] = s[i]
<1>1. Tail(s) \in Seq(S) /\ Len(Tail(s)) = Len(s) - 1 /\ \A i \in 1 .. Len(s) - 1 : Tail(s)[i] = s[i + 1]
  BY Popped
<1>2. QED
  <2>1. \A i \in 2 .. Len(s) : (<<e>> \o Tail(s))[i] = Tail(s)[i - 1]
    BY <1>1, Pushed
  <2>2. \A i \in 2 .. Len(s) : Tail(s)[i - 1] = s[i]
    BY <1>1
  <2>3. Len(s) \in Nat
    OBVIOUS
  <2>4. Len(<<e>> \o Tail(s)) = Len(s)
    BY <1>1, <2>3, Pushed
  <2>5. QED
    BY <1>1, <2>1, <2>2, <2>4, Pushed

\* What is in a stack is its head or deeper.
LEMMA HeadOrTail ==
  ASSUME NEW S, NEW s \in Seq(S), s # <<>>
  PROVE  Head(s) \in S /\ Tail(s) \in Seq(S) /\ ToSet(s) = {Head(s)} \cup ToSet(Tail(s))
<1>1. /\ Tail(s) \in Seq(S) /\ Head(s) = s[1] /\ Len(Tail(s)) = Len(s) - 1 /\ Head(s) \in S
      /\ Len(s) >= 1 /\ \A i \in 1 .. Len(s) - 1 : Tail(s)[i] = s[i + 1]
  BY Popped
<1>2. DOMAIN s = 1 .. Len(s) /\ DOMAIN Tail(s) = 1 .. Len(s) - 1 /\ Len(s) \in Nat
  BY <1>1
<1>3. ASSUME NEW j \in DOMAIN s, j # 1
      PROVE  j - 1 \in DOMAIN Tail(s) /\ Tail(s)[j - 1] = s[j]
  <2>1. j - 1 \in 1 .. Len(s) - 1 /\ (j - 1) + 1 = j
    BY <1>2, <1>3
  <2>2. QED
    BY <1>1, <1>2, <2>1
<1>4. \A x \in ToSet(s) : x = Head(s) \/ x \in ToSet(Tail(s))
  BY <1>1, <1>3 DEF ToSet
<1>5. Head(s) \in ToSet(s) /\ \A x \in ToSet(Tail(s)) : x \in ToSet(s)
  <2>1. \A i \in DOMAIN Tail(s) : i + 1 \in DOMAIN s /\ Tail(s)[i] = s[i + 1]
    BY <1>1, <1>2
  <2>2. 1 \in DOMAIN s
    BY <1>1, <1>2
  <2>3. QED
    BY <1>1, <2>1, <2>2 DEF ToSet
<1>6. QED
  BY <1>1, <1>4, <1>5

-----------------------------------------------------------------------------
(* What is below a package.                                                *)

LEMMA Dependencies ==
  ASSUME NEW p \in Package
  PROVE  /\ ManifestOf(p).depends \in Seq(Package)
         /\ DependsOn(p) \subseteq Package
         /\ ManifestOf(p).rosdeps \subseteq AllRosdeps
<1>1. ManifestOf(p).depends \in Seq(Package)
  BY ManifestsAssumption DEF ManifestOf, NoManifest
<1>2. DependsOn(p) \subseteq Package
  BY <1>1 DEF DependsOn, ToSet
<1>3. QED
  BY <1>1, <1>2 DEF AllRosdeps

LEMMA BelowSelf ==
  ASSUME NEW p \in Package
  PROVE  p \in Below[p] /\ Below[p] \subseteq Package /\ Closed(Below[p])
<1>1. Below[p] = {q \in Package : \A S \in SUBSET Package : p \in S /\ Closed(S) => q \in S}
  BY DEF Below
<1>2. Closed(Below[p])
  <2> SUFFICES ASSUME NEW q \in Below[p], NEW d \in DependsOn(q) PROVE d \in Below[p]
    BY DEF Closed
  <2>1. q \in Package /\ d \in Package
    BY <1>1, Dependencies
  <2>2. ASSUME NEW S \in SUBSET Package, p \in S, Closed(S) PROVE d \in S
    BY <1>1, <2>2 DEF Closed
  <2>3. QED
    BY <1>1, <2>1, <2>2
<1>3. QED
  BY <1>1, <1>2

LEMMA BelowLeast ==
  ASSUME NEW p \in Package, NEW S \in SUBSET Package, p \in S, Closed(S)
  PROVE  Below[p] \subseteq S
  BY DEF Below

LEMMA BelowMonotone ==
  ASSUME NEW p \in Package, NEW q \in Below[p]
  PROVE  q \in Package /\ Below[q] \subseteq Below[p]
  BY BelowSelf, BelowLeast

LEMMA BelowDirect ==
  ASSUME NEW p \in Package, NEW d \in DependsOn(p)
  PROVE  d \in Package /\ d \in Below[p] /\ Below[d] \subseteq Below[p]
<1>1. d \in Below[p]
  BY BelowSelf DEF Closed
<1>2. QED
  BY <1>1, BelowMonotone

LEMMA BelowUnion ==
  ASSUME NEW p \in Package
  PROVE  Below[p] = {p} \cup UNION {Below[d] : d \in DependsOn(p)}
<1> DEFINE U == {p} \cup UNION {Below[d] : d \in DependsOn(p)}
<1>1. U \subseteq Below[p]
  BY BelowSelf, BelowDirect
<1>2. Closed(U)
  <2> SUFFICES ASSUME NEW q \in U, NEW e \in DependsOn(q) PROVE e \in U
    BY DEF Closed
  <2>1. CASE q = p
    <3>1. e \in Below[e]
      BY <2>1, BelowDirect, BelowSelf
    <3>2. QED
      BY <2>1, <3>1
  <2>2. CASE q # p
    <3>1. PICK d \in DependsOn(p) : q \in Below[d]
      BY <2>2
    <3>2. e \in Below[d]
      BY <3>1, BelowDirect, BelowSelf DEF Closed
    <3>3. QED
      BY <3>1, <3>2
  <2>3. QED
    BY <2>1, <2>2
<1>3. Below[p] \subseteq U
  <2>1. U \subseteq Package /\ p \in U
    BY <1>1, BelowSelf
  <2>2. QED
    BY <1>2, <2>1, BelowLeast
<1>4. QED
  BY <1>1, <1>3

LEMMA NeededUnion ==
  ASSUME NEW p \in Package
  PROVE  Needed(p) = ManifestOf(p).rosdeps \cup UNION {Needed(d) : d \in DependsOn(p)}
  BY BelowUnion DEF Needed

LEMMA StraightBelow ==
  ASSUME NEW p \in Package, Straight(p), NEW d \in DependsOn(p)
  PROVE  Straight(d)
  BY BelowDirect DEF Straight

-----------------------------------------------------------------------------
(* Gathering.                                                              *)

Call == [pkg : Package, rest : Seq(Package)]

GatherTypes ==
  /\ known \in [Kinds -> SUBSET Package]
  /\ cache \in [Kinds -> [Package -> SUBSET (Package \cup AllRosdeps)]]
  /\ asked \in Seq(Package)
  /\ calls \in Seq(Call)
  /\ held \in [Kinds -> SUBSET Package]
  /\ blank \in [Kinds -> SUBSET Package]

\* All there is to be gathered for p, what of it is p's own, and what of it is not gathered but p itself
All(kind, p) == IF kind = "depends" THEN Below[p] ELSE Needed(p)

Full(kind, p) == IF kind = "depends" THEN DependsOn(p) ELSE ManifestOf(p).rosdeps

Self(kind, p) == IF kind = "depends" THEN {p} ELSE {}

\* Nothing is gathered that is not below the package.
Sound == \A kind \in Kinds, p \in Package : cache[kind][p] \subseteq All(kind, p)

\* A call has gathered what the dependencies need that it has dealt with. Every
\* package in progress is below those further out.
Frames(kind) ==
  /\ \A i \in DOMAIN calls :
       LET p == calls[i].pkg
       IN /\ p \in known[kind]
          /\ ToSet(calls[i].rest) \subseteq DependsOn(p)
          /\ Whole(kind, p) =>
               \A d \in DependsOn(p) \ ToSet(calls[i].rest) :
                 All(kind, d) \subseteq cache[kind][p] \cup Self(kind, d)
  /\ \A i, j \in DOMAIN calls : i <= j => calls[i].pkg \in Below[calls[j].pkg]

Complete(kind, p) == Whole(kind, p) => All(kind, p) \subseteq cache[kind][p] \cup Self(kind, p)

Ended(kind) == \A p \in known[kind] : ~InProgress(p) => Complete(kind, p)

LEMMA AllOf ==
  ASSUME NEW kind \in Kinds, NEW p \in Package
  PROVE  /\ All(kind, p) = Self(kind, p) \cup Full(kind, p) \cup UNION {All(kind, d) : d \in DependsOn(p)}
         /\ All(kind, p) \subseteq Package \cup AllRosdeps
         /\ \A d \in DependsOn(p) : Self(kind, d) \subseteq Full(kind, p)
<1>1. CASE kind = "depends"
  <2>1. DependsOn(p) \subseteq UNION {Below[d] : d \in DependsOn(p)}
    BY BelowDirect, BelowSelf
  <2>2. QED
    BY <1>1, <2>1, BelowUnion, BelowSelf DEF All, Self, Full
<1>2. CASE kind = "rosdeps"
  <2>1. Needed(p) \subseteq AllRosdeps
    BY BelowSelf, Dependencies DEF Needed
  <2>2. QED
    BY <1>2, <2>1, NeededUnion DEF All, Self, Full
<1>3. QED
  BY <1>1, <1>2 DEF Kinds

\* What is held of a package is its manifest or nothing.
LEMMA HeldOf ==
  ASSUME NEW kind \in Kinds, NEW p \in Package
  PROVE  /\ Held(kind, p).depends \in Seq(Package)
         /\ ToSet(Held(kind, p).depends) \subseteq DependsOn(p)
         /\ Own(kind, p) \subseteq Full(kind, p)
         /\ p \notin blank[kind] =>
              ToSet(Held(kind, p).depends) = DependsOn(p) /\ Own(kind, p) = Full(kind, p)
<1>1. CASE p \in blank[kind]
  <2>1. Held(kind, p) = [depends |-> <<>>, rosdeps |-> {}]
    BY <1>1 DEF Held, NoManifest
  <2>2. Held(kind, p).depends = <<>> /\ Held(kind, p).rosdeps = {} /\ ToSet(<<>>) = {}
    BY <2>1 DEF ToSet
  <2>3. Own(kind, p) = {}
    BY <2>2 DEF Own
  <2>4. QED
    BY <1>1, <2>2, <2>3
<1>2. CASE p \notin blank[kind]
  <2>1. Held(kind, p) = ManifestOf(p)
    BY <1>2 DEF Held
  <2>2. QED
    BY <1>2, <2>1, Dependencies DEF DependsOn, Own, Full
<1>3. QED
  BY <1>1, <1>2

\* Loading is only ever about packages.
LEMMA LoadStep ==
  ASSUME NEW kind \in Kinds, NEW pkgs \in SUBSET Package, NEW depth,
         held \in [Kinds -> SUBSET Package], blank \in [Kinds -> SUBSET Package],
         Load(kind, pkgs, depth)
  PROVE  /\ held' \in [Kinds -> SUBSET Package] /\ blank' \in [Kinds -> SUBSET Package]
         /\ \A k \in Kinds : blank[k] \subseteq blank'[k]
         /\ \A k \in Kinds : k # kind => blank'[k] = blank[k]
         /\ depth = 0 => blank' = blank
  BY ManifestsAssumption DEF Load

LEMMA WholeBelow ==
  ASSUME NEW kind \in Kinds, NEW p \in Package, Whole(kind, p), NEW d \in DependsOn(p)
  PROVE  Whole(kind, d)
  BY BelowDirect, StraightBelow DEF Whole

LEMMA WholeSelf ==
  ASSUME NEW kind \in Kinds, NEW p \in Package, Whole(kind, p)
  PROVE  Straight(p) /\ p \notin blank[kind]
  BY BelowSelf DEF Whole

\* What is whole has been so before.
LEMMA WholeBefore ==
  ASSUME NEW kind \in Kinds, NEW p, blank[kind] \subseteq blank'[kind], Whole(kind, p)'
  PROVE  Whole(kind, p)
  BY DEF Whole

\* A new call.
LEMMA EnterStep ==
  ASSUME NEW kind \in Kinds, GatherTypes, Frames(kind), Ended(kind), Sound,
         NEW p \in Package, p \notin known[kind],
         calls = <<>> \/ p \in DependsOn(Head(calls).pkg),
         Enter(kind, p)
  PROVE  /\ known' \in [Kinds -> SUBSET Package] /\ calls' \in Seq(Call)
         /\ held' \in [Kinds -> SUBSET Package] /\ blank' \in [Kinds -> SUBSET Package]
         /\ Frames(kind)' /\ Ended(kind)'
         /\ \A k \in Kinds : k # kind => known'[k] = known[k] /\ blank'[k] = blank[k]
         /\ p \in known'[kind] /\ cache' = cache
<1> DEFINE new == [pkg |-> p, rest |-> Held(kind, p).depends]
<1>0. /\ held' \in [Kinds -> SUBSET Package] /\ blank' \in [Kinds -> SUBSET Package]
      /\ \A k \in Kinds : blank[k] \subseteq blank'[k]
      /\ \A k \in Kinds : k # kind => blank'[k] = blank[k]
  <2>1. ToSet(Held(kind, p).depends) \in SUBSET Package
    BY HeldOf, Dependencies
  <2>2. Load(kind, ToSet(Held(kind, p).depends), Len(calls) + 1)
    BY DEF Enter
  <2>3. held \in [Kinds -> SUBSET Package] /\ blank \in [Kinds -> SUBSET Package]
    BY DEF GatherTypes
  <2>4. QED
    BY <2>1, <2>2, <2>3, LoadStep
<1>1. /\ new \in Call /\ calls \in Seq(Call) /\ known \in [Kinds -> SUBSET Package]
      /\ ToSet(new.rest) \subseteq DependsOn(p)
      /\ p \notin blank[kind] => ToSet(new.rest) = DependsOn(p)
  BY HeldOf DEF GatherTypes, Call
<1>2. /\ calls' = <<new>> \o calls /\ cache' = cache
      /\ known' = [known EXCEPT ![kind] = @ \cup {p}]
  BY DEF Enter
<1>3. known' \in [Kinds -> SUBSET Package] /\ p \in known'[kind] /\ known[kind] \subseteq known'[kind]
      /\ \A k \in Kinds : k # kind => known'[k] = known[k]
  BY <1>1, <1>2
<1>4. /\ calls' \in Seq(Call)
      /\ Len(calls') = Len(calls) + 1
      /\ calls'[1] = new
      /\ \A i \in 2 .. Len(calls) + 1 : calls'[i] = calls[i - 1]
  <2> HIDE DEF new
  <2>1. QED
    BY <1>1, <1>2, Pushed
<1>5. Len(calls) \in Nat /\ DOMAIN calls = 1 .. Len(calls) /\ DOMAIN calls' = 1 .. Len(calls) + 1
  BY <1>1, <1>4
<1>6. \A i \in DOMAIN calls' : i = 1 \/ (i - 1 \in DOMAIN calls /\ calls'[i] = calls[i - 1])
  BY <1>4, <1>5
<1>7. \A i \in DOMAIN calls : p \in Below[calls[i].pkg]
  <2> SUFFICES ASSUME NEW i \in DOMAIN calls PROVE p \in Below[calls[i].pkg]
    OBVIOUS
  <2>1. calls # <<>> /\ 1 \in DOMAIN calls /\ 1 <= i
    BY <1>1, <1>5
  <2>2. Head(calls) = calls[1] /\ calls[1].pkg \in Package /\ calls[i].pkg \in Package
    <3>1. \A k \in DOMAIN calls : calls[k] \in Call
      BY <1>1
    <3>2. Head(calls) = calls[1]
      BY <1>1, <2>1, Popped
    <3>3. QED
      BY <2>1, <3>1, <3>2 DEF Call
  <2>3. p \in Below[calls[1].pkg]
    BY <2>1, <2>2, BelowDirect
  <2>4. calls[1].pkg \in Below[calls[i].pkg]
    BY <2>1 DEF Frames
  <2>5. QED
    BY <2>2, <2>3, <2>4, BelowMonotone
<1>8. Frames(kind)'
  <2>1. ASSUME NEW i \in DOMAIN calls'
        PROVE  LET q == calls'[i].pkg
               IN /\ q \in known'[kind]
                  /\ ToSet(calls'[i].rest) \subseteq DependsOn(q)
                  /\ Straight(q) /\ Below[q] \cap blank'[kind] = {} =>
                       \A d \in DependsOn(q) \ ToSet(calls'[i].rest) :
                         All(kind, d) \subseteq cache'[kind][q] \cup Self(kind, d)
    <3>1. CASE i = 1
      <4>1. Straight(p) /\ Below[p] \cap blank'[kind] = {} => p \notin blank[kind]
        BY <1>0, BelowSelf
      <4>2. QED
        BY <1>1, <1>3, <1>4, <3>1, <4>1
    <3>2. CASE i # 1
      <4>1. \A T : T \cap blank'[kind] = {} => T \cap blank[kind] = {}
        BY <1>0
      <4>2. PICK q : q = calls'[i].pkg
        OBVIOUS
      <4>3. i - 1 \in DOMAIN calls /\ calls'[i] = calls[i - 1] /\ q = calls[i - 1].pkg
        BY <1>6, <3>2, <4>2
      <4>4. /\ q \in known[kind] /\ ToSet(calls[i - 1].rest) \subseteq DependsOn(q)
            /\ Whole(kind, q) =>
                 \A d \in DependsOn(q) \ ToSet(calls[i - 1].rest) :
                   All(kind, d) \subseteq cache[kind][q] \cup Self(kind, d)
        BY <4>3 DEF Frames
      <4>5. Straight(q) /\ Below[q] \cap blank'[kind] = {} => Whole(kind, q)
        BY <4>1 DEF Whole
      <4>6. QED
        BY <1>2, <1>3, <4>2, <4>3, <4>4, <4>5
    <3>3. QED
      BY <3>1, <3>2
  <2>2. ASSUME NEW i \in DOMAIN calls', NEW j \in DOMAIN calls', i <= j
        PROVE  calls'[i].pkg \in Below[calls'[j].pkg]
    <3>1. CASE i = 1 /\ j = 1
      BY <1>4, <3>1, BelowSelf
    <3>2. CASE i = 1 /\ j # 1
      BY <1>4, <1>6, <1>7, <3>2
    <3>3. CASE i # 1
      BY <1>5, <1>6, <2>2, <3>3 DEF Frames
    <3>4. QED
      BY <3>1, <3>2, <3>3
  <2>3. QED
    BY <2>1, <2>2 DEF Frames, Whole
<1>9. Ended(kind)'
  <2> SUFFICES ASSUME NEW q \in known'[kind], ~InProgress(q)' PROVE Complete(kind, q)'
    BY DEF Ended
  <2>1. q # p
    BY <1>4, <1>5 DEF InProgress
  <2>2. q \in known[kind]
    BY <1>1, <1>2, <2>1
  <2>3. ~InProgress(q)
    <3>1. \A i \in DOMAIN calls : i + 1 \in DOMAIN calls' /\ calls'[i + 1] = calls[i]
      BY <1>4, <1>5
    <3>2. QED
      BY <3>1 DEF InProgress
  <2>4. Complete(kind, q)
    BY <2>2, <2>3 DEF Ended
  <2>5. QED
    BY <1>0, <1>2, <2>4, WholeBefore DEF Complete
<1>10. QED
  BY <1>0, <1>2, <1>3, <1>4, <1>8, <1>9

LEMMA Adding ==
  ASSUME NEW kind \in Kinds, NEW p \in Package, NEW S \in SUBSET (Package \cup AllRosdeps),
         cache \in [Kinds -> [Package -> SUBSET (Package \cup AllRosdeps)]],
         Add(kind, p, S)
  PROVE  /\ cache' \in [Kinds -> [Package -> SUBSET (Package \cup AllRosdeps)]]
         /\ cache'[kind][p] = cache[kind][p] \cup S
         /\ \A q \in Package : q # p => cache'[kind][q] = cache[kind][q]
         /\ \A k \in Kinds : k # kind => cache'[k] = cache[k]
         /\ \A k \in Kinds, q \in Package : cache[k][q] \subseteq cache'[k][q]
  BY DEF Add

\* What is complete stays complete when more is added.
LEMMA StaysComplete ==
  ASSUME NEW kind \in Kinds, NEW p \in Package, Complete(kind, p),
         cache[kind][p] \subseteq cache'[kind][p], blank[kind] \subseteq blank'[kind]
  PROVE  Complete(kind, p)'
  BY WholeBefore DEF Complete

\* The next dependency of the innermost call is in the cache.
LEMMA VisitStep ==
  ASSUME NEW kind \in Kinds, GatherTypes, Frames(kind), Ended(kind), Sound,
         calls # <<>>, Head(calls).rest # <<>>, Head(Head(calls).rest) \in known[kind],
         Gather(kind)
  PROVE  /\ GatherTypes' /\ Frames(kind)' /\ Ended(kind)' /\ Sound'
         /\ known' = known /\ asked' = asked /\ UNCHANGED <<held, blank>>
         /\ \A k \in Kinds : k # kind => cache'[k] = cache[k]
<1> DEFINE p == Head(calls).pkg
           rest == Head(calls).rest
           d == Head(rest)
           new == [pkg |-> p, rest |-> Tail(rest)]
<1>1. /\ calls \in Seq(Call) /\ Head(calls) = calls[1] /\ Head(calls) \in Call
      /\ DOMAIN calls = 1 .. Len(calls) /\ Len(calls) \in Nat /\ 1 \in DOMAIN calls
  <2>1. calls \in Seq(Call)
    BY DEF GatherTypes
  <2>2. QED
    BY <2>1, Popped
<1>2. /\ p \in Package /\ rest \in Seq(Package) /\ rest # <<>>
      /\ p \in known[kind] /\ ToSet(rest) \subseteq DependsOn(p)
  <2>1. p \in Package /\ rest \in Seq(Package)
    BY <1>1 DEF Call
  <2>2. QED
    BY <1>1, <2>1 DEF Frames
<1>3. /\ d \in ToSet(rest) /\ Tail(rest) \in Seq(Package)
      /\ ToSet(rest) = {d} \cup ToSet(Tail(rest))
  <2> HIDE DEF rest
  <2>1. QED
    BY <1>2, HeadOrTail
<1>4. d \in Package /\ d \in DependsOn(p) /\ d \in known[kind]
  BY <1>2, <1>3, Dependencies
<1>5. /\ Add(kind, p, cache[kind][d]) /\ calls' = <<new>> \o Tail(calls)
      /\ known' = known /\ asked' = asked /\ UNCHANGED <<held, blank>>
      /\ \A q : Whole(kind, q)' <=> Whole(kind, q)
  <2>1. /\ Add(kind, p, cache[kind][d]) /\ calls' = <<new>> \o Tail(calls)
        /\ known' = known /\ asked' = asked /\ UNCHANGED <<held, blank>>
    BY DEF Gather, manifests
  <2>2. QED
    BY <2>1 DEF Whole
<1>6. /\ cache' \in [Kinds -> [Package -> SUBSET (Package \cup AllRosdeps)]]
      /\ cache'[kind][p] = cache[kind][p] \cup cache[kind][d]
      /\ \A q \in Package : q # p => cache'[kind][q] = cache[kind][q]
      /\ \A k \in Kinds : k # kind => cache'[k] = cache[k]
      /\ \A k \in Kinds, q \in Package : cache[k][q] \subseteq cache'[k][q]
  <2>1. cache[kind][d] \in SUBSET (Package \cup AllRosdeps)
    BY <1>4 DEF GatherTypes
  <2>2. cache \in [Kinds -> [Package -> SUBSET (Package \cup AllRosdeps)]]
    BY DEF GatherTypes
  <2> HIDE DEF p, d
  <2>3. QED
    BY <1>2, <1>5, <2>1, <2>2, Adding
<1>7. /\ calls' \in Seq(Call) /\ Len(calls') = Len(calls) /\ calls'[1] = new
      /\ \A i \in 2 .. Len(calls) : calls'[i] = calls[i]
      /\ DOMAIN calls' = DOMAIN calls
  <2>1. new \in Call
    BY <1>2, <1>3 DEF Call
  <2> HIDE DEF new
  <2>2. /\ calls' \in Seq(Call) /\ Len(calls') = Len(calls) /\ calls'[1] = new
        /\ \A i \in 2 .. Len(calls) : calls'[i] = calls[i]
    BY <1>1, <1>5, <2>1, Replaced
  <2>3. QED
    BY <1>1, <2>2
<1>8. \A i \in DOMAIN calls : calls'[i].pkg = calls[i].pkg
  BY <1>1, <1>7
<1>9. GatherTypes'
  BY <1>5, <1>6, <1>7 DEF GatherTypes
<1>10. Sound'
  <2> SUFFICES ASSUME NEW k \in Kinds, NEW q \in Package PROVE cache'[k][q] \subseteq All(k, q)
    BY DEF Sound
  <2>1. CASE k = kind /\ q = p
    BY <1>2, <1>4, <1>6, <2>1, AllOf DEF Sound
  <2>2. CASE ~(k = kind /\ q = p)
    BY <1>6, <2>2 DEF Sound
  <2>3. QED
    BY <2>1, <2>2
<1>11. Ended(kind)'
  <2> SUFFICES ASSUME NEW q \in known[kind], ~InProgress(q)' PROVE Complete(kind, q)'
    BY <1>5 DEF Ended
  <2>1. ~InProgress(q) /\ q \in Package
    BY <1>7, <1>8 DEF InProgress, GatherTypes
  <2>2. QED
    BY <1>5, <1>6, <2>1, StaysComplete DEF Ended
<1>12. Frames(kind)'
  <2>1. ASSUME NEW i \in DOMAIN calls'
        PROVE  LET q == calls'[i].pkg
               IN /\ q \in known'[kind]
                  /\ ToSet(calls'[i].rest) \subseteq DependsOn(q)
                  /\ Straight(q) /\ Below[q] \cap blank'[kind] = {} =>
                       \A e \in DependsOn(q) \ ToSet(calls'[i].rest) :
                         All(kind, e) \subseteq cache'[kind][q] \cup Self(kind, e)
    <3>1. CASE i = 1
      <4>1. ASSUME Whole(kind, p) PROVE All(kind, d) \subseteq cache[kind][d] \cup Self(kind, d)
        <5>1. ~InProgress(d)
          <6>1. SUFFICES ASSUME NEW j \in DOMAIN calls, calls[j].pkg = d PROVE FALSE
            BY DEF InProgress
          <6>2. p \in Below[d]
            BY <1>1, <6>1 DEF Frames
          <6>3. Circular(p) /\ p \in Below[p]
            BY <1>2, <1>4, <6>2, BelowSelf DEF Circular
          <6>4. QED
            BY <1>2, <4>1, <6>3, WholeSelf DEF Straight
        <5>2. Whole(kind, d)
          BY <1>2, <1>4, <4>1, WholeBelow
        <5>3. QED
          BY <1>4, <5>1, <5>2 DEF Ended, Complete
      <4>2. ASSUME Whole(kind, p), NEW e \in DependsOn(p) \ ToSet(rest)
            PROVE  All(kind, e) \subseteq cache[kind][p] \cup Self(kind, e)
        BY <1>1, <4>2 DEF Frames
      <4>3. calls'[i] = new
        BY <1>7, <3>1
      <4>4. ASSUME Whole(kind, p), NEW e \in DependsOn(p) \ ToSet(Tail(rest))
            PROVE  All(kind, e) \subseteq cache'[kind][p] \cup Self(kind, e)
        <5>1. CASE e = d
          BY <1>6, <4>1, <4>4, <5>1
        <5>2. CASE e # d
          BY <1>3, <1>6, <4>2, <4>4, <5>2
        <5>3. QED
          BY <5>1, <5>2
      <4>5. calls'[i].pkg = p /\ calls'[i].rest = Tail(rest)
        BY <4>3
      <4>6. p \in known'[kind] /\ ToSet(Tail(rest)) \subseteq DependsOn(p)
        BY <1>2, <1>3, <1>5
      <4>7. QED
        BY <1>5, <4>4, <4>5, <4>6 DEF Whole
    <3>2. CASE i # 1
      <4>1. i \in DOMAIN calls /\ calls'[i] = calls[i]
        BY <1>1, <1>7, <3>2
      <4>2. calls[i].pkg \in Package
        <5>1. calls[i] \in Call
          BY <1>1, <4>1
        <5>2. QED
          BY <5>1 DEF Call
      <4>3. QED
        BY <1>5, <1>6, <4>1, <4>2 DEF Frames, Whole
    <3>3. QED
      BY <3>1, <3>2
  <2>2. ASSUME NEW i \in DOMAIN calls', NEW j \in DOMAIN calls', i <= j
        PROVE  calls'[i].pkg \in Below[calls'[j].pkg]
    BY <1>7, <1>8, <2>2 DEF Frames
  <2>3. QED
    BY <2>1, <2>2 DEF Frames, Whole
<1>13. QED
  BY <1>5, <1>6, <1>9, <1>10, <1>11, <1>12

\* The innermost call has dealt with all dependencies.
LEMMA GatheredStep ==
  ASSUME NEW kind \in Kinds, GatherTypes, Frames(kind), Ended(kind), Sound, Gathered(kind)
  PROVE  /\ GatherTypes' /\ Frames(kind)' /\ Ended(kind)' /\ Sound'
         /\ known' = known /\ asked' = asked /\ UNCHANGED <<held, blank>>
         /\ \A k \in Kinds : k # kind => cache'[k] = cache[k]
<1>1. /\ calls \in Seq(Call) /\ calls # <<>> /\ Head(calls) = calls[1] /\ Head(calls) \in Call
      /\ DOMAIN calls = 1 .. Len(calls) /\ Len(calls) \in Nat /\ 1 \in DOMAIN calls
      /\ calls' = Tail(calls) /\ Head(calls).rest = <<>>
  <2>1. calls \in Seq(Call) /\ calls # <<>> /\ calls' = Tail(calls) /\ Head(calls).rest = <<>>
    BY DEF GatherTypes, Gathered
  <2>2. QED
    BY <2>1, Popped
<1> PICK p \in Package : p = Head(calls).pkg
  BY <1>1 DEF Call
<1>2. p \in Package /\ p \in known[kind] /\ Add(kind, p, Own(kind, p))
      /\ known' = known /\ asked' = asked /\ UNCHANGED <<held, blank>>
      /\ \A q : Whole(kind, q)' <=> Whole(kind, q)
  <2>1. /\ p \in Package /\ p \in known[kind] /\ Add(kind, p, Own(kind, p))
        /\ known' = known /\ asked' = asked /\ UNCHANGED <<held, blank>>
    BY <1>1 DEF Call, Frames, Gathered, manifests
  <2>2. QED
    BY <2>1 DEF Whole
<1>3. /\ calls' \in Seq(Call) /\ DOMAIN calls' = 1 .. Len(calls) - 1
      /\ \A i \in DOMAIN calls' : i + 1 \in DOMAIN calls /\ calls'[i] = calls[i + 1]
  <2>1. /\ calls' \in Seq(Call) /\ Len(calls') = Len(calls) - 1
        /\ \A i \in 1 .. Len(calls) - 1 : calls'[i] = calls[i + 1]
    BY <1>1, Popped
  <2>2. QED
    BY <1>1, <2>1
<1>4. Own(kind, p) \subseteq All(kind, p) /\ Own(kind, p) \in SUBSET (Package \cup AllRosdeps)
  BY <1>2, AllOf, HeldOf
<1>5. /\ cache' \in [Kinds -> [Package -> SUBSET (Package \cup AllRosdeps)]]
      /\ cache'[kind][p] = cache[kind][p] \cup Own(kind, p)
      /\ \A q \in Package : q # p => cache'[kind][q] = cache[kind][q]
      /\ \A k \in Kinds : k # kind => cache'[k] = cache[k]
      /\ \A k \in Kinds, q \in Package : cache[k][q] \subseteq cache'[k][q]
  <2>1. cache \in [Kinds -> [Package -> SUBSET (Package \cup AllRosdeps)]]
    BY DEF GatherTypes
  <2>2. QED
    BY <1>2, <1>4, <2>1, Adding
<1>6. GatherTypes'
  BY <1>2, <1>3, <1>5 DEF GatherTypes
<1>7. Sound'
  <2> SUFFICES ASSUME NEW k \in Kinds, NEW q \in Package PROVE cache'[k][q] \subseteq All(k, q)
    BY DEF Sound
  <2>1. CASE k = kind /\ q = p
    BY <1>4, <1>5, <2>1 DEF Sound
  <2>2. CASE ~(k = kind /\ q = p)
    BY <1>5, <2>2 DEF Sound
  <2>3. QED
    BY <2>1, <2>2
<1>8. Frames(kind)'
  <2>1. ASSUME NEW i \in DOMAIN calls'
        PROVE  LET q == calls'[i].pkg
               IN /\ q \in known'[kind]
                  /\ ToSet(calls'[i].rest) \subseteq DependsOn(q)
                  /\ Straight(q) /\ Below[q] \cap blank'[kind] = {} =>
                       \A e \in DependsOn(q) \ ToSet(calls'[i].rest) :
                         All(kind, e) \subseteq cache'[kind][q] \cup Self(kind, e)
    <3>1. i + 1 \in DOMAIN calls /\ calls'[i] = calls[i + 1]
      BY <1>3
    <3>2. calls[i + 1].pkg \in Package
      <4>1. calls[i + 1] \in Call
        BY <1>1, <3>1
      <4>2. QED
        BY <4>1 DEF Call
    <3>3. PICK q \in Package : q = calls'[i].pkg /\ q = calls[i + 1].pkg
      BY <3>1, <3>2
    <3>4. /\ q \in known[kind] /\ ToSet(calls[i + 1].rest) \subseteq DependsOn(q)
          /\ Whole(kind, q) =>
               \A e \in DependsOn(q) \ ToSet(calls[i + 1].rest) :
                 All(kind, e) \subseteq cache[kind][q] \cup Self(kind, e)
      BY <3>1, <3>3 DEF Frames
    <3>5. Straight(q) /\ Below[q] \cap blank'[kind] = {} => Whole(kind, q)
      BY <1>2 DEF Whole
    <3>6. QED
      BY <1>2, <1>5, <3>1, <3>3, <3>4, <3>5
  <2>2. ASSUME NEW i \in DOMAIN calls', NEW j \in DOMAIN calls', i <= j
        PROVE  calls'[i].pkg \in Below[calls'[j].pkg]
    <3>1. i + 1 <= j + 1
      BY <1>1, <1>3, <2>2
    <3>2. QED
      BY <1>3, <3>1 DEF Frames
  <2>3. QED
    BY <2>1, <2>2 DEF Frames, Whole
<1>9. Complete(kind, p)'
  <2>1. SUFFICES ASSUME Whole(kind, p) PROVE All(kind, p) \subseteq cache'[kind][p] \cup Self(kind, p)
    BY <1>2 DEF Complete
  <2>0. Own(kind, p) = Full(kind, p)
    BY <2>1, WholeSelf, HeldOf
  <2>2. ToSet(Head(calls).rest) = {}
    BY <1>1 DEF ToSet
  <2>3. ASSUME NEW d \in DependsOn(p) PROVE All(kind, d) \subseteq cache[kind][p] \cup Self(kind, d)
    BY <1>1, <2>1, <2>2 DEF Frames
  <2>4. ASSUME NEW d \in DependsOn(p) PROVE All(kind, d) \subseteq cache'[kind][p]
    BY <1>2, <1>5, <2>0, <2>3, AllOf
  <2>5. QED
    BY <1>2, <1>5, <2>0, <2>4, AllOf
<1>10. Ended(kind)'
  <2> SUFFICES ASSUME NEW q \in known[kind], ~InProgress(q)' PROVE Complete(kind, q)'
    BY <1>2 DEF Ended
  <2>1. CASE q = p
    BY <1>9, <2>1
  <2>2. CASE q # p
    <3>1. ~InProgress(q)
      <4>1. SUFFICES ASSUME NEW i \in DOMAIN calls, calls[i].pkg = q PROVE FALSE
        BY DEF InProgress
      <4>2. i # 1
        BY <1>1, <2>2, <4>1
      <4>3. i - 1 \in DOMAIN calls' /\ (i - 1) + 1 = i
        BY <1>1, <1>3, <4>2
      <4>4. calls'[i - 1] = calls[i]
        BY <1>3, <4>3
      <4>5. QED
        BY <4>1, <4>3, <4>4 DEF InProgress
    <3>2. q \in Package
      BY DEF GatherTypes
    <3>3. QED
      BY <1>2, <1>5, <3>1, <3>2, StaysComplete DEF Ended
  <2>3. QED
    BY <2>1, <2>2
<1>11. QED
  BY <1>2, <1>5, <1>6, <1>7, <1>8, <1>10

\* Whatever the next step of gathering is.
LEMMA GatherStep ==
  ASSUME NEW kind \in Kinds, GatherTypes, Frames(kind), Ended(kind), Sound, Gathering(kind)
  PROVE  /\ GatherTypes' /\ Frames(kind)' /\ Ended(kind)' /\ Sound'
         /\ \A k \in Kinds : k # kind => known'[k] = known[k] /\ cache'[k] = cache[k] /\ blank'[k] = blank[k]
         /\ known[kind] \subseteq known'[kind]
         /\ asked' = asked \/ (asked # <<>> /\ asked' = Tail(asked) /\ Head(asked) \in known'[kind])
<1>1. CASE Answer(kind)
  <2>1. /\ asked # <<>> /\ asked' = Tail(asked) /\ asked \in Seq(Package) /\ calls = <<>>
        /\ asked' \in Seq(Package) /\ Head(asked) \in Package
    <3>1. asked # <<>> /\ asked' = Tail(asked) /\ asked \in Seq(Package) /\ calls = <<>>
      BY <1>1 DEF Answer, GatherTypes
    <3>2. QED
      BY <3>1, Popped
  <2>2. CASE Head(asked) \in known[kind]
    <3>1. known' = known /\ cache' = cache /\ calls' = calls /\ UNCHANGED <<held, blank>>
      BY <1>1, <2>2 DEF Answer, manifests
    <3>2. \A q : Whole(kind, q)' <=> Whole(kind, q)
      BY <3>1 DEF Whole
    <3>3. QED
      BY <2>1, <2>2, <3>1, <3>2 DEF GatherTypes, Frames, Ended, Sound, Complete, InProgress
  <2>3. CASE Head(asked) \notin known[kind]
    <3>1. Enter(kind, Head(asked))
      BY <1>1, <2>3 DEF Answer
    <3>2. /\ known' \in [Kinds -> SUBSET Package] /\ calls' \in Seq(Call)
          /\ Frames(kind)' /\ Ended(kind)'
          /\ held' \in [Kinds -> SUBSET Package] /\ blank' \in [Kinds -> SUBSET Package]
          /\ \A k \in Kinds : k # kind => known'[k] = known[k] /\ blank'[k] = blank[k]
          /\ Head(asked) \in known'[kind] /\ cache' = cache
      BY <2>1, <2>3, <3>1, EnterStep
    <3>3. known[kind] \subseteq known'[kind]
      BY <3>1 DEF Enter, GatherTypes
    <3>4. QED
      BY <2>1, <3>2, <3>3 DEF GatherTypes, Sound
  <2>4. QED
    BY <2>2, <2>3
<1>2. CASE Gather(kind)
  <2> DEFINE d == Head(Head(calls).rest)
  <2>1. calls # <<>> /\ Head(calls).rest # <<>> /\ asked' = asked
    BY <1>2 DEF Gather
  <2>2. CASE d \in known[kind]
    BY <1>2, <2>1, <2>2, VisitStep
  <2>3. CASE d \notin known[kind]
    <3>1. Enter(kind, d)
      BY <1>2, <2>3 DEF Gather
    <3>2. d \in DependsOn(Head(calls).pkg) /\ d \in Package
      <4>1. calls \in Seq(Call)
        BY DEF GatherTypes
      <4>2. Head(calls) = calls[1] /\ Head(calls) \in Call /\ 1 \in DOMAIN calls
        BY <2>1, <4>1, Popped
      <4>3. /\ Head(calls).rest \in Seq(Package) /\ Head(calls).pkg \in Package
            /\ ToSet(Head(calls).rest) \subseteq DependsOn(Head(calls).pkg)
        BY <4>2 DEF Call, Frames
      <4>4. d = Head(calls).rest[1] /\ 1 \in DOMAIN Head(calls).rest
        BY <2>1, <4>3, Popped
      <4>5. QED
        BY <4>3, <4>4, Dependencies DEF ToSet
    <3>3. /\ known' \in [Kinds -> SUBSET Package] /\ calls' \in Seq(Call)
          /\ Frames(kind)' /\ Ended(kind)'
          /\ held' \in [Kinds -> SUBSET Package] /\ blank' \in [Kinds -> SUBSET Package]
          /\ \A k \in Kinds : k # kind => known'[k] = known[k] /\ blank'[k] = blank[k]
          /\ cache' = cache
      BY <2>3, <3>1, <3>2, EnterStep
    <3>4. known[kind] \subseteq known'[kind]
      BY <3>1 DEF Enter, GatherTypes
    <3>5. QED
      BY <2>1, <3>3, <3>4 DEF GatherTypes, Sound
  <2>4. QED
    BY <2>2, <2>3
<1>3. CASE Gathered(kind)
  BY <1>3, GatheredStep
<1>4. QED
  BY <1>1, <1>2, <1>3 DEF Gathering

-----------------------------------------------------------------------------
(* The steps of a run.                                                     *)

LEMMA Least ==
  ASSUME NEW T, T \subseteq Nat, T # {}
  PROVE  \E x \in T : \A y \in T : x <= y
<1> DEFINE U == {0 .. x : x \in T}
<1>1. U # {} /\ U \subseteq FiniteSubsetsOf(Nat)
  <2>1. ASSUME NEW x \in T PROVE 0 .. x \subseteq Nat /\ IsFiniteSet(0 .. x)
    BY FS_Interval
  <2>2. QED
    BY <2>1 DEF FiniteSubsetsOf
<1>2. PICK u \in U : \A v \in U : <<v, u>> \notin StrictSubsetOrdering(Nat)
  <2> HIDE DEF U
  <2>1. QED
    BY <1>1, FS_StrictSubsetOrderingWellFounded, WFMin
<1>3. PICK x \in T : u = 0 .. x
  OBVIOUS
<1>4. ASSUME NEW y \in T, y < x PROVE FALSE
  <2>1. x \in 0 .. x /\ x \notin 0 .. y /\ 0 .. y \subseteq 0 .. x
    BY <1>4
  <2>2. <<0 .. y, 0 .. x>> \in StrictSubsetOrdering(Nat)
    BY <2>1 DEF StrictSubsetOrdering
  <2>3. QED
    BY <1>2, <1>3, <2>2
<1>5. QED
  BY <1>4

Places ==
  /\ world \in {Detected(w) : w \in Worlds}
  /\ pc \in {"start", "rosdeps", "next", "depends", "read", "looked", "call", "finish", "done"}
  /\ todo \subseteq Rosdeps
  /\ pc \in {"start", "rosdeps"} => todo = {}
  /\ pc \in {"depends", "read", "looked", "call"} => current \in Rosdeps \ todo
  /\ pc = "depends" =>
       asked = <<First(current)>> \/ (asked = <<>> /\ First(current) \in known["depends"])

\* Gathering is over, or it is about one of the two kinds.
Gatherings ==
  /\ GatherTypes /\ Sound
  /\ pc \in {"start", "rosdeps"} =>
       known["depends"] = {} /\ Frames("rosdeps") /\ Ended("rosdeps")
  /\ pc = "depends" =>
       /\ Frames("depends") /\ Ended("depends")
       /\ \A p \in known["rosdeps"] : Complete("rosdeps", p)
  /\ pc \notin {"start", "rosdeps", "depends", "done"} =>
       calls = <<>> /\ \A kind \in Kinds : \A p \in known[kind] : Complete(kind, p)
  /\ pc = "done" => \A kind \in Kinds : Ended(kind)

\* The package whose rules decide is one of the packages.
LEMMA FirstIsPackage ==
  ASSUME Places, NEW r \in Rosdeps
  PROVE  First(r) \in Package
<1>1. world.packages \in Seq(Package)
  BY WorldsAssumption DEF Places
<1> DEFINE I == {i \in DOMAIN world.packages : r \in cache["rosdeps"][world.packages[i]]}
<1>2. I \subseteq Nat /\ I # {}
  <2>1. PICK p \in ToSet(world.packages) : r \in cache["rosdeps"][p]
    BY DEF Rosdeps
  <2>2. PICK i \in DOMAIN world.packages : world.packages[i] = p
    BY DEF ToSet
  <2>3. i \in I
    BY <2>1, <2>2
  <2>4. QED
    BY <1>1, <2>3
<1>3. Min(I) \in I
  <2> HIDE DEF I
  <2>1. \E x \in I : \A y \in I : x =< y
    BY <1>2, Least
  <2>2. QED
    BY <2>1 DEF Min
<1>4. First(r) = world.packages[Min(I)]
  BY DEF First
<1>5. Min(I) \in DOMAIN world.packages
  BY <1>3
<1> HIDE DEF I
<1>6. QED
  BY <1>1, <1>4, <1>5

LEMMA SameRosdeps ==
  ASSUME world' = world, cache'["rosdeps"] = cache["rosdeps"]
  PROVE  Rosdeps' = Rosdeps /\ \A r : First(r)' = First(r)
<1>1. Rosdeps' = Rosdeps
  BY DEF Rosdeps
<1>2. ASSUME NEW r PROVE First(r)' = First(r)
  BY DEF First
<1>3. QED
  BY <1>1, <1>2

\* The rosdeps have been gathered: nothing changes them any more.
LEMMA KeepsRosdeps ==
  ASSUME GatherTypes, Places, pc \notin {"start", "rosdeps"}, [Next]_vars
  PROVE  /\ world' = world /\ cache'["rosdeps"] = cache["rosdeps"]
         /\ blank'["rosdeps"] = blank["rosdeps"]
<1>1. CASE GatherDepends
  <2>0. \A k, p : Load("depends", k, p) => blank'["rosdeps"] = blank["rosdeps"]
    BY DEF Load, GatherTypes, Kinds
  <2>1. world' = world /\ blank'["rosdeps"] = blank["rosdeps"]
    <3>1. blank' = blank \/ \E k, n : Load("depends", k, n)
      BY <1>1 DEF GatherDepends, Gathering, Answer, Gather, Gathered, Enter, manifests
    <3>2. QED
      BY <1>1, <2>0, <3>1 DEF GatherDepends, command
  <2>2. cache' = cache \/ \E p, S : Add("depends", p, S)
    BY <1>1 DEF GatherDepends, Gathering, Answer, Gather, Gathered, Enter
  <2>3. QED
    BY <2>1, <2>2 DEF Add, GatherTypes, Kinds
<1>2. CASE Locate
  <2>1. world' = world /\ blank' = blank /\ Add("depends", First(current), {First(current)})
    BY <1>2 DEF Locate, command, manifests
  <2>2. QED
    BY <2>1 DEF Add, GatherTypes, Kinds
<1>3. CASE Begin
  <2>1. world' = world /\ cache' = cache /\ Load("depends", ToSet(asked'), 0)
    BY <1>3 DEF Begin, command
  <2>2. blank'["rosdeps"] = blank["rosdeps"]
    BY <2>1 DEF Load, GatherTypes, Kinds
  <2>3. QED
    BY <2>1, <2>2
<1>4. CASE Overflow \/ Read \/ ReadHome \/ Looked \/ Listed
  BY <1>4 DEF Overflow, Read, ReadHome, Looked, Listed, command, gathering, manifests
<1>5. CASE NoRule \/ Script \/ Choose \/ Depend
  BY <1>5 DEF NoRule, Script, Choose, Depend, command, gathering, manifests
<1>6. CASE Execute \/ WrongSum \/ Display \/ Finish
  BY <1>6 DEF Execute, WrongSum, Display, Finish, command, gathering, manifests
<1>7. CASE UNCHANGED vars
  BY <1>7 DEF vars, command, gathering, manifests
<1>8. QED
  BY <1>1, <1>2, <1>3, <1>4, <1>5, <1>6, <1>7 DEF Next, Start, GatherRosdeps, Plan

\* What the steps after the lookup have in common.
LEMMA CallSteps ==
  ASSUME pc = "call", NoRule \/ Script \/ Choose \/ Depend \/ Execute \/ WrongSum \/ Display
  PROVE  /\ pc' \in {"call", "next", "finish", "done"}
         /\ UNCHANGED <<gathering, loop, lookup, used, command>>
<1>1. CASE NoRule \/ Script \/ Display
  BY <1>1 DEF NoRule, Script, Display, Return
<1>2. CASE Choose \/ Depend
  BY <1>2 DEF Choose, Depend, Return, Raise
<1>3. CASE Execute
  BY <1>3 DEF Execute, Return
<1>4. CASE WrongSum
  BY <1>4 DEF WrongSum, Raise, installing
<1>5. QED
  BY <1>1, <1>2, <1>3, <1>4

LEMMA AtCall ==
  ASSUME NoRule \/ Script \/ Choose \/ Depend \/ Execute \/ WrongSum \/ Display
  PROVE  pc = "call"
  BY DEF NoRule, Script, Choose, Depend, Execute, WrongSum, Display, Looking, Ready

LEMMA PlacesStep ==
  ASSUME Places, Gatherings, [Next]_vars
  PROVE  Places'
<1> DEFINE After == pc \notin {"start", "rosdeps"}
<1>1. CASE Start
  <2>1. /\ world' = world /\ pc' \in {"rosdeps", "done"} /\ todo' = todo /\ todo = {}
        /\ cache' = cache
    BY <1>1 DEF Start, Raise, command, loop, Places
  <2>2. QED
    BY <2>1 DEF Places
<1>2. CASE GatherRosdeps
  <2>1. world' = world /\ pc' = "rosdeps" /\ todo' = {}
    BY <1>2 DEF GatherRosdeps, command, loop, Places
  <2>2. QED
    BY <2>1 DEF Places
<1>3. CASE Plan
  <2>1. world' = world /\ pc' = "next" /\ todo' = Rosdeps /\ cache' = cache
    BY <1>3 DEF Plan, command, gathering
  <2>2. Rosdeps' = Rosdeps
    BY <2>1, SameRosdeps
  <2>3. QED
    BY <2>1, <2>2 DEF Places
<1>4. ASSUME After
      PROVE  /\ world' = world /\ Rosdeps' = Rosdeps /\ \A r : First(r)' = First(r)
             /\ cache'["rosdeps"] = cache["rosdeps"]
  <2>1. world' = world /\ cache'["rosdeps"] = cache["rosdeps"]
    BY <1>4, KeepsRosdeps DEF Gatherings
  <2>2. QED
    BY <2>1, SameRosdeps
<1>5. CASE Overflow
  <2>1. /\ world' = world /\ pc' = "done" /\ todo' = todo /\ cache' = cache
    BY <1>5 DEF Overflow, Raise, command, loop, gathering
  <2>2. Rosdeps' = Rosdeps
    BY <2>1, SameRosdeps
  <2>3. QED
    BY <2>1, <2>2 DEF Places
<1>6. CASE Begin
  <2>1. PICK r \in todo :
          /\ todo' = todo \ {r} /\ current' = r
          /\ (pc' = "depends" /\ asked' = <<First(r)>>) \/ pc' = "looked"
    BY <1>6 DEF Begin
  <2>2. After
    BY <1>6 DEF Begin
  <2>3. QED
    BY <1>4, <2>1, <2>2 DEF Places
<1>7. CASE GatherDepends
  <2>1. /\ pc = "depends" /\ pc' = "depends" /\ todo' = todo /\ current' = current
        /\ Gathering("depends")
    BY <1>7 DEF GatherDepends, loop
  <2>2. /\ known["depends"] \subseteq known'["depends"]
        /\ asked' = asked \/ (asked # <<>> /\ asked' = Tail(asked) /\ Head(asked) \in known'["depends"])
    BY <2>1, GatherStep DEF Gatherings, Kinds
  <2>3. asked = <<First(current)>> => Head(asked) = First(current) /\ Tail(asked) = <<>>
    OBVIOUS
  <2>4. asked' = <<First(current)>> \/ (asked' = <<>> /\ First(current) \in known'["depends"])
    BY <2>1, <2>2, <2>3 DEF Places
  <2>5. QED
    BY <1>4, <2>1, <2>4 DEF Places
<1>8. CASE Locate
  <2>1. After /\ pc = "depends" /\ pc' \in {"read", "done"} /\ todo' = todo /\ current' = current
    BY <1>8 DEF Locate, Raise, loop
  <2>2. QED
    BY <1>4, <2>1 DEF Places
<1>9. CASE Read
  <2>1. /\ After /\ pc = "read" /\ current' = current
        /\ \/ pc' \in {"read", "done"} /\ todo' = todo
           \/ pc' = "next" /\ todo' = Rosdeps
    BY <1>9 DEF Read, Raise
  <2>2. QED
    BY <1>4, <2>1 DEF Places
<1>10. CASE ReadHome \/ Looked
  <2>1. /\ After /\ pc \in {"read", "looked"} /\ pc' \in {"looked", "next", "call"}
        /\ todo' = todo /\ current' = current
    BY <1>10 DEF ReadHome, Looked, loop
  <2>2. QED
    BY <1>4, <2>1 DEF Places
<1>11. CASE Listed
  <2>1. After /\ pc' = "next" /\ todo' = Rosdeps
    BY <1>11 DEF Listed
  <2>2. QED
    BY <1>4, <2>1 DEF Places
<1>12. CASE NoRule \/ Script \/ Choose \/ Depend \/ Execute \/ WrongSum \/ Display
  <2>1. /\ After /\ pc = "call" /\ pc' \in {"call", "next", "finish", "done"}
        /\ todo' = todo /\ current' = current
    BY <1>12, AtCall, CallSteps DEF loop
  <2>2. QED
    BY <1>4, <2>1 DEF Places
<1>13. CASE Finish
  <2>1. After /\ pc' = "done" /\ todo' = todo
    BY <1>13 DEF Finish, loop
  <2>2. QED
    BY <1>4, <2>1 DEF Places
<1>14. CASE UNCHANGED vars
  <2>1. UNCHANGED <<world, pc, cache, todo, current, asked, known>>
    BY <1>14 DEF vars, command, gathering, loop
  <2>2. Rosdeps' = Rosdeps /\ \A r : First(r)' = First(r)
    BY <2>1, SameRosdeps
  <2>3. QED
    BY <2>1, <2>2 DEF Places
<1>15. QED
  BY <1>1, <1>2, <1>3, <1>5, <1>6, <1>7, <1>8, <1>9, <1>10, <1>11, <1>12, <1>13, <1>14 DEF Next

\* Nothing is being gathered and nothing is added.
LEMMA GatheringsKept ==
  ASSUME Gatherings, UNCHANGED <<known, cache, calls, blank>>, asked' \in Seq(Package),
         held' \in [Kinds -> SUBSET Package],
         \/ pc' = pc
         \/ pc = "start" /\ pc' = "rosdeps"
         \/ pc \notin {"start", "rosdeps", "depends", "done"} /\ pc' \notin {"start", "rosdeps"}
         \/ pc' = "done"
  PROVE  Gatherings'
<1>0. \A kind, p : Whole(kind, p)' <=> Whole(kind, p)
  BY DEF Whole
<1>1. GatherTypes' /\ Sound' /\ \A kind \in Kinds : (Frames(kind)' <=> Frames(kind)) /\ (Ended(kind)' <=> Ended(kind))
  BY <1>0 DEF Gatherings, GatherTypes, Sound, Frames, Ended, Complete, InProgress
<1>2. \A kind \in Kinds : \A p \in known[kind] : Complete(kind, p)' <=> Complete(kind, p)
  BY <1>0 DEF Complete
<1>3. calls = <<>> => \A kind \in Kinds : (\A p \in known[kind] : Complete(kind, p)) <=> Ended(kind)
  BY DEF Ended, InProgress
<1>4. calls = <<>> => \A kind \in Kinds : Frames(kind)
  BY DEF Frames
<1>5. known["depends"] = {} => Ended("depends")
  BY DEF Ended
<1>6. (\A p \in known["rosdeps"] : Complete("rosdeps", p)) => Ended("rosdeps")
  BY DEF Ended
<1>7. "rosdeps" \in Kinds /\ "depends" \in Kinds /\ \A kind \in Kinds : kind \in {"rosdeps", "depends"}
  BY DEF Kinds
<1>8. CASE pc' = pc
  BY <1>1, <1>2, <1>7, <1>8 DEF Gatherings
<1>9. CASE pc = "start" /\ pc' = "rosdeps"
  BY <1>1, <1>7, <1>9 DEF Gatherings
<1>10. CASE pc \notin {"start", "rosdeps", "depends", "done"} /\ pc' \notin {"start", "rosdeps"}
  BY <1>1, <1>2, <1>3, <1>4, <1>7, <1>10 DEF Gatherings
<1>11. CASE pc' = "done"
  <2>1. \A kind \in Kinds : Ended(kind)
    BY <1>3, <1>5, <1>6, <1>7 DEF Gatherings
  <2>2. QED
    BY <1>1, <1>11, <2>1 DEF Gatherings
<1>12. QED
  BY <1>8, <1>9, <1>10, <1>11

LEMMA GatheringsStep ==
  ASSUME Places, Gatherings, [Next]_vars
  PROVE  Gatherings'
<1>1. asked \in Seq(Package) /\ world.packages \in Seq(Package) /\ "rosdeps" \in Kinds /\ "depends" \in Kinds
      /\ \A kind \in Kinds : kind \in {"rosdeps", "depends"}
      /\ held \in [Kinds -> SUBSET Package] /\ blank \in [Kinds -> SUBSET Package]
  BY WorldsAssumption DEF Gatherings, GatherTypes, Kinds, Places
<1>2. CASE Start
  <2>1. /\ UNCHANGED <<known, cache, calls>> /\ pc = "start" /\ pc' \in {"rosdeps", "done"}
        /\ asked' \in {asked, world.packages} /\ Load("rosdeps", ToSet(asked'), 0)
    BY <1>2 DEF Start, Raise
  <2>2. ToSet(asked') \in SUBSET Package
    BY <1>1, <2>1 DEF ToSet
  <2>3. blank' = blank /\ held' \in [Kinds -> SUBSET Package]
    BY <1>1, <2>1, <2>2, LoadStep
  <2>4. QED
    BY <1>1, <2>1, <2>3, GatheringsKept
<1>3. CASE GatherRosdeps
  <2>1. pc = "rosdeps" /\ pc' = "rosdeps" /\ Gathering("rosdeps")
    BY <1>3 DEF GatherRosdeps
  <2>2. /\ GatherTypes' /\ Frames("rosdeps")' /\ Ended("rosdeps")' /\ Sound'
        /\ known'["depends"] = known["depends"]
    BY <1>1, <2>1, GatherStep DEF Gatherings
  <2>3. QED
    BY <2>1, <2>2 DEF Gatherings
<1>4. CASE Plan
  <2>1. /\ pc = "rosdeps" /\ pc' = "next" /\ calls = <<>> /\ UNCHANGED <<known, cache, calls, asked, held, blank>>
    BY <1>4 DEF Plan, Idle, gathering, manifests
  <2>2. \A kind \in Kinds : \A p \in known[kind] : Complete(kind, p)
    <3>1. \A p \in known["rosdeps"] : Complete("rosdeps", p)
      BY <2>1 DEF Gatherings, Ended, InProgress
    <3>2. QED
      BY <1>1, <2>1, <3>1 DEF Gatherings
  <2>3. \A kind, p : Whole(kind, p)' <=> Whole(kind, p)
    BY <2>1 DEF Whole
  <2>4. QED
    BY <2>1, <2>2, <2>3 DEF Gatherings, GatherTypes, Sound, Complete
<1>5. CASE Begin
  <2>1. /\ UNCHANGED <<known, cache, calls>> /\ pc = "next" /\ pc' \in {"depends", "looked"}
        /\ asked' = asked \/ \E r \in todo : asked' = <<First(r)>>
        /\ Load("depends", ToSet(asked'), 0)
    BY <1>5 DEF Begin
  <2>2. \A r \in todo : First(r) \in Package
    BY FirstIsPackage DEF Places
  <2>3. asked' \in Seq(Package)
    <3>1. ASSUME NEW p \in Package PROVE <<p>> \in Seq(Package)
      OBVIOUS
    <3>2. CASE \E r \in todo : asked' = <<First(r)>>
      BY <2>2, <3>1, <3>2
    <3>3. QED
      BY <1>1, <2>1, <3>2
  <2>4. ToSet(asked') \in SUBSET Package
    BY <2>3 DEF ToSet
  <2>5. blank' = blank /\ held' \in [Kinds -> SUBSET Package]
    BY <1>1, <2>1, <2>4, LoadStep
  <2>6. QED
    BY <2>1, <2>3, <2>5, GatheringsKept
<1>6. CASE GatherDepends
  <2>1. pc = "depends" /\ pc' = "depends" /\ Gathering("depends")
    BY <1>6 DEF GatherDepends
  <2>2. /\ GatherTypes' /\ Frames("depends")' /\ Ended("depends")' /\ Sound'
        /\ known'["rosdeps"] = known["rosdeps"] /\ cache'["rosdeps"] = cache["rosdeps"]
        /\ blank'["rosdeps"] = blank["rosdeps"]
    BY <1>1, <2>1, GatherStep DEF Gatherings
  <2>3. \A p \in known'["rosdeps"] : Complete("rosdeps", p)'
    <3>1. \A p : Whole("rosdeps", p)' <=> Whole("rosdeps", p)
      BY <2>2 DEF Whole
    <3>2. QED
      BY <2>1, <2>2, <3>1 DEF Gatherings, Complete
  <2>4. QED
    BY <2>1, <2>2, <2>3 DEF Gatherings
<1>7. CASE Locate
  <2>1. PICK p \in Package : p = First(current)
    BY <1>7, FirstIsPackage DEF Locate, Places
  <2>2. /\ pc = "depends" /\ calls = <<>> /\ Add("depends", p, {p}) /\ UNCHANGED <<known, asked, calls>>
        /\ pc' \in {"read", "done"} /\ UNCHANGED <<held, blank>>
    BY <1>7, <2>1 DEF Locate, Idle, Raise, manifests
  <2>3. /\ cache' \in [Kinds -> [Package -> SUBSET (Package \cup AllRosdeps)]]
        /\ cache'["depends"][p] = cache["depends"][p] \cup {p}
        /\ \A q \in Package : q # p => cache'["depends"][q] = cache["depends"][q]
        /\ cache'["rosdeps"] = cache["rosdeps"]
        /\ \A k \in Kinds, q \in Package : cache[k][q] \subseteq cache'[k][q]
    <3>1. cache \in [Kinds -> [Package -> SUBSET (Package \cup AllRosdeps)]]
      BY DEF Gatherings, GatherTypes
    <3>2. QED
      BY <1>1, <2>2, <3>1, Adding
  <2>4. GatherTypes'
    BY <2>2, <2>3 DEF Gatherings, GatherTypes
  <2>5. Sound'
    <3> SUFFICES ASSUME NEW k \in Kinds, NEW q \in Package PROVE cache'[k][q] \subseteq All(k, q)
      BY DEF Sound
    <3>1. CASE k = "depends" /\ q = p
      BY <1>1, <2>3, <3>1, BelowSelf DEF Gatherings, Sound, All
    <3>2. CASE ~(k = "depends" /\ q = p)
      BY <1>1, <2>3, <3>2 DEF Gatherings, Sound
    <3>3. QED
      BY <3>1, <3>2
  <2>6. \A kind \in Kinds : \A q \in known[kind] : Complete(kind, q)
    <3>1. \A q \in known["depends"] : Complete("depends", q)
      BY <2>2 DEF Gatherings, Ended, InProgress
    <3>2. QED
      BY <1>1, <2>2, <3>1 DEF Gatherings
  <2>7. ASSUME NEW kind \in Kinds, NEW q \in known[kind] PROVE Complete(kind, q)'
    <3>1. q \in Package
      BY DEF Gatherings, GatherTypes
    <3>2. QED
      BY <2>2, <2>3, <2>6, <3>1, StaysComplete
  <2>8. QED
    BY <2>2, <2>4, <2>5, <2>7 DEF Gatherings, Ended
<1>8. CASE Overflow
  <2>1. pc' = "done" /\ UNCHANGED <<known, cache, calls, asked, held, blank>>
    BY <1>8 DEF Overflow, Raise, gathering, manifests
  <2>2. QED
    BY <1>1, <2>1, GatheringsKept
<1>9. CASE Read \/ ReadHome \/ Looked \/ Listed
  <2>1. /\ pc \in {"read", "looked", "next"} /\ UNCHANGED <<known, cache, calls, asked, held, blank>>
        /\ pc' \in {"read", "looked", "next", "call", "done"}
    BY <1>9 DEF Read, ReadHome, Looked, Listed, Raise, gathering, manifests
  <2>2. QED
    BY <1>1, <2>1, GatheringsKept
<1>10. CASE NoRule \/ Script \/ Choose \/ Depend \/ Execute \/ WrongSum \/ Display
  <2>1. /\ pc = "call" /\ pc' \in {"call", "next", "finish", "done"}
        /\ UNCHANGED <<known, cache, calls, asked, held, blank>>
    BY <1>10, AtCall, CallSteps DEF gathering, manifests
  <2>2. QED
    BY <1>1, <2>1, GatheringsKept
<1>11. CASE Finish
  <2>1. pc' = "done" /\ UNCHANGED <<known, cache, calls, asked, held, blank>>
    BY <1>11 DEF Finish, gathering, manifests
  <2>2. QED
    BY <1>1, <2>1, GatheringsKept
<1>12. CASE UNCHANGED vars
  <2>1. pc' = pc /\ UNCHANGED <<known, cache, calls, asked, held, blank>>
    BY <1>12 DEF vars, gathering, manifests
  <2>2. QED
    BY <1>1, <2>1, GatheringsKept
<1>13. QED
  BY <1>2, <1>3, <1>4, <1>5, <1>6, <1>7, <1>8, <1>9, <1>10, <1>11, <1>12 DEF Next

LEMMA GatheringsInit ==
  ASSUME Init
  PROVE  Places /\ Gatherings
<1>1. /\ known = [kind \in Kinds |-> {}] /\ cache = [kind \in Kinds |-> [p \in Package |-> {}]]
      /\ asked = <<>> /\ calls = <<>> /\ pc = "start" /\ todo = {}
      /\ held = [kind \in Kinds |-> {}] /\ blank = [kind \in Kinds |-> {}]
      /\ world \in {Detected(w) : w \in Worlds}
  BY DEF Init, NothingGathered
<1>2. Places
  BY <1>1 DEF Places
<1>3. GatherTypes /\ Sound /\ Frames("rosdeps") /\ Ended("rosdeps") /\ known["depends"] = {}
  BY <1>1 DEF GatherTypes, Sound, Frames, Ended, Kinds
<1>4. QED
  BY <1>1, <1>2, <1>3 DEF Gatherings

LEMMA GatheringsForgetNothing ==
  ASSUME Gatherings
  PROVE  NothingForgotten
<1> SUFFICES ASSUME NEW p \in Package
             PROVE  /\ cache["rosdeps"][p] \subseteq Needed(p)
                    /\ cache["depends"][p] \subseteq Below[p]
                    /\ ~InProgress(p) =>
                         /\ p \in known["rosdeps"] /\ Whole("rosdeps", p) =>
                              Needed(p) \subseteq cache["rosdeps"][p]
                         /\ p \in known["depends"] /\ Whole("depends", p) =>
                              Below[p] \subseteq cache["depends"][p] \cup {p}
  BY DEF NothingForgotten
<1>1. "rosdeps" \in Kinds /\ "depends" \in Kinds
  BY DEF Kinds
<1>2. ASSUME NEW kind \in Kinds, p \in known[kind], ~InProgress(p), Whole(kind, p)
      PROVE  All(kind, p) \subseteq cache[kind][p] \cup Self(kind, p)
  <2>1. Ended(kind)
    BY <1>2 DEF Gatherings, Ended, Kinds
  <2>2. QED
    BY <1>2, <2>1 DEF Ended, Complete
<1>3. \A kind \in Kinds : cache[kind][p] \subseteq All(kind, p)
  BY DEF Gatherings, Sound
<1>4. cache["rosdeps"][p] \subseteq Needed(p) /\ cache["depends"][p] \subseteq Below[p]
  BY <1>1, <1>3 DEF All
<1>5. ~InProgress(p) /\ p \in known["rosdeps"] /\ Whole("rosdeps", p) =>
        Needed(p) \subseteq cache["rosdeps"][p]
  BY <1>1, <1>2 DEF All, Self
<1>6. ~InProgress(p) /\ p \in known["depends"] /\ Whole("depends", p) =>
        Below[p] \subseteq cache["depends"][p] \cup {p}
  BY <1>1, <1>2 DEF All, Self
<1>7. QED
  BY <1>4, <1>5, <1>6

LEMMA GatheringsInvariant == Spec => [](Places /\ Gatherings)
<1>1. Places /\ Gatherings /\ [Next]_vars => (Places /\ Gatherings)'
  BY PlacesStep, GatheringsStep
<1>2. QED
  BY <1>1, GatheringsInit, PTL DEF Spec

\* Whatever the packages, Python's limits and the order of the questions are, the
\* caches of dependencies and of rosdeps have nothing for a package that is not
\* from below it, and when its call has ended they have all of it, if there is no
\* circle below the package and every manifest below it could be loaded where it
\* was met (packages.py:526, 608, 678).
THEOREM NothingIsForgotten == Spec => []NothingForgotten
  BY GatheringsInvariant, GatheringsForgetNothing, PTL

-----------------------------------------------------------------------------
(* The rules that are read for a package.                                  *)

\* rls is what the files say, none of which contradicts another.
FromFiles(w, files, rls) ==
  /\ DOMAIN rls = UNION {DOMAIN SpecificRosdeps(w, u) : u \in files}
  /\ \A u \in files : \A r \in DOMAIN SpecificRosdeps(w, u) : rls[r] = SpecificRosdeps(w, u)[r]

\* rls is what the files say where ROS home does not say otherwise.
WithHome(w, files, rls) ==
  LET home == SpecificRosdeps(w, "home")
  IN /\ DOMAIN rls = DOMAIN home \cup UNION {DOMAIN SpecificRosdeps(w, u) : u \in files}
     /\ \A r \in DOMAIN home : rls[r] = home[r]
     /\ \A u \in files : \A r \in DOMAIN SpecificRosdeps(w, u) \ DOMAIN home :
          rls[r] = SpecificRosdeps(w, u)[r]

\* The files of a package below which nothing is lost
FilesOf(w, p, files, lost) ==
  Straight(p) /\ Below[p] \cap lost = {} => files = Paths(w, Below[p])

Lookups ==
  /\ pc = "read" =>
       /\ unread \subseteq paths
       /\ FromFiles(world, paths \ unread, rules)
       /\ FilesOf(world, First(current), paths, blank["depends"])
  /\ pc \in {"looked", "call"} =>
       WithHome(world, paths, rules) /\ FilesOf(world, First(current), paths, blank["depends"])
  /\ \A l \in lookups : WithHome(world, l.paths, l.rules) /\ FilesOf(world, l.pkg, l.paths, blank["depends"])
  /\ raised = "conflict" =>
       /\ pc = "done"
       /\ \E u, v \in paths : Conflict(SpecificRosdeps(world, u), SpecificRosdeps(world, v))

LEMMA ReadOne ==
  ASSUME NEW w, NEW files, NEW rls, NEW u, FromFiles(w, files, rls),
         ~Conflict(rls, SpecificRosdeps(w, u))
  PROVE  FromFiles(w, files \cup {u}, Merged(rls, SpecificRosdeps(w, u)))
<1> DEFINE new == SpecificRosdeps(w, u)
           both == Merged(rls, new)
<1>1. /\ DOMAIN both = DOMAIN rls \cup DOMAIN new
      /\ \A r \in DOMAIN rls : both[r] = rls[r]
      /\ \A r \in DOMAIN new : r \notin DOMAIN rls => both[r] = new[r]
  BY DEF Merged
<1>2. \A r \in DOMAIN new : both[r] = new[r]
  BY <1>1 DEF Conflict
<1> HIDE DEF both
<1>3. DOMAIN both = UNION {DOMAIN SpecificRosdeps(w, v) : v \in files \cup {u}}
  BY <1>1 DEF FromFiles
<1>4. ASSUME NEW v \in files \cup {u}, NEW r \in DOMAIN SpecificRosdeps(w, v)
      PROVE  both[r] = SpecificRosdeps(w, v)[r]
  BY <1>1, <1>2 DEF FromFiles
<1>5. FromFiles(w, files \cup {u}, both)
  BY <1>3, <1>4 DEF FromFiles
<1>6. QED
  BY <1>5 DEF both

LEMMA ReadLast ==
  ASSUME NEW w, NEW files, NEW rls, FromFiles(w, files, rls)
  PROVE  WithHome(w, files, Merged(SpecificRosdeps(w, "home"), rls))
<1> DEFINE home == SpecificRosdeps(w, "home")
           both == Merged(home, rls)
<1>1. /\ DOMAIN both = DOMAIN home \cup DOMAIN rls
      /\ \A r \in DOMAIN home : both[r] = home[r]
      /\ \A r \in DOMAIN rls : r \notin DOMAIN home => both[r] = rls[r]
  BY DEF Merged
<1> HIDE DEF both
<1>2. WithHome(w, files, both)
  BY <1>1 DEF WithHome, FromFiles
<1>3. QED
  BY <1>2 DEF both

LEMMA ConflictFound ==
  ASSUME NEW w, NEW files, NEW rls, NEW u, FromFiles(w, files, rls),
         Conflict(rls, SpecificRosdeps(w, u))
  PROVE  \E v \in files : Conflict(SpecificRosdeps(w, v), SpecificRosdeps(w, u))
<1>1. PICK r \in DOMAIN rls \cap DOMAIN SpecificRosdeps(w, u) : rls[r] # SpecificRosdeps(w, u)[r]
  BY DEF Conflict
<1>2. PICK v \in files : r \in DOMAIN SpecificRosdeps(w, v)
  BY DEF FromFiles
<1>3. rls[r] = SpecificRosdeps(w, v)[r]
  BY <1>2 DEF FromFiles
<1>4. QED
  BY <1>1, <1>2, <1>3 DEF Conflict

\* The more is lost, the less is said.
LEMMA FilesKept ==
  ASSUME NEW w, NEW p, NEW files, NEW lost, NEW more, lost \subseteq more, FilesOf(w, p, files, lost)
  PROVE  FilesOf(w, p, files, more)
  BY DEF FilesOf

LEMMA BlankGrows ==
  ASSUME Gatherings, [Next]_vars
  PROVE  \A kind \in Kinds : blank[kind] \subseteq blank'[kind]
<1>1. blank \in [Kinds -> SUBSET Package] /\ "depends" \in Kinds /\ "rosdeps" \in Kinds
  BY DEF Gatherings, GatherTypes, Kinds
<1>2. \A S, n, k : (k \in Kinds /\ Load(k, S, n)) => \A kind \in Kinds : blank[kind] \subseteq blank'[kind]
  BY <1>1 DEF Load
<1>3. CASE Start \/ Begin
  BY <1>1, <1>2, <1>3 DEF Start, Begin
<1>4. CASE GatherRosdeps \/ GatherDepends
  <2>1. PICK k \in Kinds : Gathering(k)
    BY <1>1, <1>4 DEF GatherRosdeps, GatherDepends
  <2>2. UNCHANGED blank \/ \E S, n : Load(k, S, n)
    BY <2>1 DEF Gathering, Answer, Gather, Gathered, Enter, manifests
  <2>3. QED
    BY <1>2, <2>2
<1>5. CASE Plan \/ Overflow \/ Locate \/ Read \/ ReadHome \/ Looked \/ Listed \/ Finish
  BY <1>5 DEF Plan, Overflow, Locate, Read, ReadHome, Looked, Listed, Finish, gathering, manifests
<1>6. CASE NoRule \/ Script \/ Choose \/ Depend \/ Execute \/ WrongSum \/ Display
  BY <1>6, AtCall, CallSteps DEF gathering, manifests
<1>7. CASE UNCHANGED vars
  BY <1>7 DEF vars, gathering, manifests
<1>8. QED
  BY <1>3, <1>4, <1>5, <1>6, <1>7 DEF Next

\* The lookups in progress, and no other, are not touched.
LEMMA LookupsKept ==
  ASSUME Lookups, world' = world, blank["depends"] \subseteq blank'["depends"], UNCHANGED lookup, First(current)' = First(current),
         \/ pc' = pc /\ raised' = raised
         \/ pc' = "call" /\ pc = "looked" /\ raised' = raised
         \/ pc' \notin {"read", "looked", "call"} /\ pc # "done" /\ raised' \in {raised, "undetected", "RuntimeError", "RosdepException", "KeyError"}
  PROVE  Lookups'
  BY FilesKept DEF Lookups, lookup

LEMMA LookupsStep ==
  ASSUME Places, Gatherings, Lookups, [Next]_vars
  PROVE  Lookups'
<1>0. blank["depends"] \subseteq blank'["depends"]
  BY BlankGrows DEF Kinds
<1>1. CASE Start
  <2>1. /\ world' = world /\ UNCHANGED lookup /\ pc = "start" /\ pc' \in {"rosdeps", "done"}
        /\ raised' \in {raised, "undetected"}
    BY <1>1 DEF Start, Raise, command, lookup, ending
  <2>2. QED
    BY <1>0, <2>1, FilesKept DEF Lookups, lookup
<1>2. CASE GatherRosdeps \/ Plan
  <2>1. /\ world' = world /\ UNCHANGED lookup /\ pc = "rosdeps" /\ pc' \in {"rosdeps", "next"}
        /\ raised' = raised
    BY <1>2 DEF GatherRosdeps, Plan, command, lookup, ending
  <2>2. QED
    BY <1>0, <2>1, FilesKept DEF Lookups, lookup
<1>3. CASE Overflow
  <2>1. /\ world' = world /\ UNCHANGED lookup /\ pc # "done" /\ pc' = "done" /\ raised' = "RuntimeError"
    BY <1>3 DEF Overflow, Raise, command, lookup
  <2>2. QED
    BY <1>0, <2>1, FilesKept DEF Lookups, lookup
<1>4. ASSUME pc \notin {"start", "rosdeps"}
      PROVE  /\ world' = world
             /\ \A r : First(r)' = First(r)
             /\ cache'["rosdeps"] = cache["rosdeps"]
  <2>1. world' = world /\ cache'["rosdeps"] = cache["rosdeps"]
    BY <1>4, KeepsRosdeps DEF Gatherings
  <2>2. QED
    BY <2>1, SameRosdeps
<1>5. CASE Begin
  <2>1. pc = "next" /\ lookups' = lookups /\ raised' = raised
    BY <1>5 DEF Begin, ending
  <2>2. PICK r \in todo :
          /\ current' = r
          /\ \/ pc' = "depends"
             \/ pc' = "looked" /\ \E l \in lookups : l.pkg = First(r) /\ paths' = l.paths /\ rules' = l.rules
    BY <1>5 DEF Begin
  <2>3. CASE pc' = "depends"
    BY <1>0, <1>4, <2>1, <2>3, FilesKept DEF Lookups
  <2>4. CASE pc' = "looked"
    <3>1. PICK l \in lookups : l.pkg = First(r) /\ paths' = l.paths /\ rules' = l.rules
      BY <2>2, <2>4
    <3>2. First(current)' = First(r)
      BY <1>4, <2>1, <2>2 DEF First
    <3>3. WithHome(world, paths', rules') /\ FilesOf(world, First(r), paths', blank["depends"])
      BY <1>0, <3>1, FilesKept DEF Lookups
    <3>4. QED
      BY <1>0, <1>4, <2>1, <2>4, <3>2, <3>3, FilesKept DEF Lookups
  <2>5. QED
    BY <2>2, <2>3, <2>4
<1>6. CASE GatherDepends
  <2>1. pc = "depends" /\ pc' = pc /\ UNCHANGED <<paths, unread, rules, lookups>> /\ raised' = raised
    BY <1>6 DEF GatherDepends, lookup, ending
  <2>2. QED
    BY <1>0, <1>4, <2>1, FilesKept DEF Lookups
<1>7. CASE Locate
  <2>1. PICK p \in Package : p = First(current)
    BY <1>7, FirstIsPackage DEF Locate, Places
  <2> DEFINE found == Paths(world, cache["depends"][p] \cup {p})
  <2>2. /\ pc = "depends" /\ calls = <<>> /\ asked = <<>> /\ lookups' = lookups /\ current' = current
        /\ \/ raised' = "ResourceNotFound" /\ pc' = "done"
           \/ raised' = raised /\ pc' = "read" /\ paths' = found /\ unread' = found /\ rules' = <<>>
    BY <1>7, <2>1 DEF Locate, Idle, Raise, ending, loop
  <2>3. First(current)' = p
    BY <1>4, <2>1, <2>2 DEF First
  <2>4. Straight(p) /\ Below[p] \cap blank["depends"] = {} => cache["depends"][p] \cup {p} = Below[p]
    <3>1. p \in known["depends"]
      <4>1. asked # <<First(current)>>
        BY <2>2
      <4>2. QED
        BY <2>1, <2>2, <4>1 DEF Places
    <3>2. ~InProgress(p)
      BY <2>2 DEF InProgress
    <3>3. QED
      BY <3>1, <3>2, GatheringsForgetNothing, BelowSelf DEF NothingForgotten, Whole
  <2>5. CASE pc' = "done"
    BY <1>0, <1>4, <2>2, <2>5, FilesKept DEF Lookups
  <2>6. CASE pc' = "read"
    <3>1. unread' \subseteq paths' /\ paths' \ unread' = {} /\ rules' = <<>>
      BY <2>2, <2>6
    <3>2. FromFiles(world, {}, <<>>)
      BY DEF FromFiles
    <3>3. FilesOf(world, p, paths', blank["depends"])
      BY <2>2, <2>4, <2>6 DEF FilesOf
    <3>4. FilesOf(world, p, paths', blank'["depends"])
      BY <1>0, <3>3, FilesKept
    <3>5. raised' = raised /\ world' = world /\ FromFiles(world, paths' \ unread', rules')
      BY <1>4, <2>2, <2>6, <3>1, <3>2
    <3>6. \A l \in lookups : FilesOf(world, l.pkg, l.paths, blank'["depends"]) /\ WithHome(world, l.paths, l.rules)
      BY <1>0, FilesKept DEF Lookups
    <3>7. QED
      BY <1>4, <2>2, <2>3, <2>6, <3>1, <3>4, <3>5, <3>6 DEF Lookups
  <2>7. QED
    BY <2>2, <2>5, <2>6
<1>8. CASE Read
  <2>1. PICK u \in unread :
          IF Conflict(rules, SpecificRosdeps(world, u))
          THEN IF listing
               THEN pc' = "next" /\ raised' = raised
               ELSE pc' = "done" /\ raised' = "conflict"
          ELSE /\ unread' = unread \ {u} /\ rules' = Merged(rules, SpecificRosdeps(world, u))
               /\ pc' = pc /\ raised' = raised
    BY <1>8 DEF Read, Raise, ending
  <2>2. /\ pc = "read" /\ paths' = paths /\ lookups' = lookups /\ current' = current
    BY <1>8 DEF Read
  <2>3. unread \subseteq paths /\ FromFiles(world, paths \ unread, rules) /\ FilesOf(world, First(current), paths, blank["depends"])
    BY <1>0, <2>2, FilesKept DEF Lookups
  <2>4. First(current)' = First(current) /\ world' = world
    BY <1>4, <2>2 DEF First
  <2>5. CASE ~Conflict(rules, SpecificRosdeps(world, u))
    <3>1. FromFiles(world, (paths \ unread) \cup {u}, rules')
      BY <2>1, <2>3, <2>5, ReadOne
    <3>2. (paths \ unread) \cup {u} = paths' \ unread' /\ unread' \subseteq paths'
      BY <2>1, <2>2, <2>3, <2>5
    <3>3. FromFiles(world', paths' \ unread', rules')
      BY <2>4, <3>1, <3>2
    <3>4. QED
      BY <1>0, <2>1, <2>2, <2>3, <2>4, <2>5, <3>2, <3>3, FilesKept DEF Lookups
  <2>6. CASE Conflict(rules, SpecificRosdeps(world, u)) /\ listing
    BY <1>0, <2>1, <2>2, <2>4, <2>6, FilesKept DEF Lookups
  <2>7. CASE Conflict(rules, SpecificRosdeps(world, u)) /\ ~listing
    <3>1. PICK v \in paths \ unread : Conflict(SpecificRosdeps(world, v), SpecificRosdeps(world, u))
      BY <2>3, <2>7, ConflictFound
    <3>2. u \in paths /\ v \in paths
      BY <2>3
    <3>3. QED
      BY <1>0, <2>1, <2>2, <2>4, <2>7, <3>1, <3>2, FilesKept DEF Lookups
  <2>8. QED
    BY <2>5, <2>6, <2>7
<1>9. CASE ReadHome
  <2>1. /\ pc = "read" /\ unread = {} /\ paths' = paths /\ current' = current
        /\ rules' = Merged(SpecificRosdeps(world, "home"), rules) /\ raised' = raised /\ pc' = "looked"
        /\ \A l \in lookups' : l \in lookups \/ l = [pkg |-> First(current), paths |-> paths, rules |-> rules']
    BY <1>9 DEF ReadHome, ending, loop
  <2>2. paths \ unread = paths
    BY <2>1
  <2>3. FromFiles(world, paths, rules) /\ FilesOf(world, First(current), paths, blank["depends"])
    BY <1>0, <2>1, <2>2, FilesKept DEF Lookups
  <2>4. WithHome(world, paths, rules')
    BY <2>1, <2>3, ReadLast
  <2>5. First(current)' = First(current) /\ world' = world
    BY <1>4, <2>1 DEF First
  <2>6. ASSUME NEW l \in lookups' PROVE WithHome(world, l.paths, l.rules) /\ FilesOf(world, l.pkg, l.paths, blank["depends"])
    BY <1>0, <2>1, <2>3, <2>4, FilesKept DEF Lookups
  <2>7. QED
    BY <1>0, <2>1, <2>3, <2>4, <2>5, <2>6, FilesKept DEF Lookups
<1>10. CASE Looked \/ Listed
  <2>1. /\ pc \in {"looked", "next"} /\ UNCHANGED lookup /\ raised' = raised
        /\ pc' = "next" \/ (pc = "looked" /\ pc' = "call")
    BY <1>10 DEF Looked, Listed, ending
  <2>2. world' = world
    BY <1>4, <2>1
  <2>3. current' = current
    BY <1>10 DEF Looked, Listed, loop
  <2>4. First(current)' = First(current)
    BY <1>4, <2>1, <2>3 DEF First
  <2>5. QED
    BY <1>0, <2>1, <2>2, <2>4, LookupsKept
<1>11. CASE NoRule \/ Script \/ Choose \/ Depend \/ Execute \/ WrongSum \/ Display
  <2>1. /\ pc = "call" /\ pc' \in {"call", "next", "finish", "done"}
        /\ UNCHANGED lookup /\ current' = current
    BY <1>11, AtCall, CallSteps DEF loop
  <2>2. First(current)' = First(current) /\ world' = world
    BY <1>4, <2>1 DEF First
  <2>3. raised' = raised \/ (pc' = "done" /\ raised' \in {"RuntimeError", "RosdepException", "KeyError"})
    <3>1. CASE NoRule \/ Script \/ Execute \/ Display
      BY <3>1 DEF NoRule, Script, Execute, Display, ending
    <3>2. CASE Choose
      BY <3>2 DEF Choose, Raise, ending
    <3>3. CASE Depend \/ WrongSum
      BY <3>3 DEF Depend, WrongSum, Raise, ending
    <3>4. QED
      BY <1>11, <3>1, <3>2, <3>3
  <2>4. QED
    BY <1>0, <2>1, <2>2, <2>3, LookupsKept
<1>12. CASE Finish
  <2>1. /\ pc \in {"next", "finish"} /\ pc' = "done" /\ UNCHANGED lookup /\ raised' = raised
    BY <1>12 DEF Finish
  <2>2. QED
    BY <1>0, <1>4, <2>1, FilesKept DEF Lookups, lookup
<1>13. CASE UNCHANGED vars
  <2>1. UNCHANGED <<world, cache, current, lookup, pc, raised>>
    BY <1>13 DEF vars, command, gathering, loop, ending
  <2>2. First(current)' = First(current)
    BY <2>1 DEF First
  <2>3. QED
    BY <1>0, <2>1, <2>2, LookupsKept
<1>14. QED
  BY <1>1, <1>2, <1>3, <1>5, <1>6, <1>7, <1>8, <1>9, <1>10, <1>11, <1>12, <1>13 DEF Next

LEMMA LookupsAreRight ==
  ASSUME Lookups
  PROVE  RulesOrderFree
<1> DEFINE home == SpecificRosdeps(world, "home")
           p == First(current)
<1>1. ASSUME pc \in {"looked", "call"}
      PROVE  /\ \A r \in AllRosdeps \cup DOMAIN rules :
                  IF r \in DOMAIN home THEN r \in DOMAIN rules /\ rules[r] = home[r]
                  ELSE /\ r \in DOMAIN rules <=> Sources(r) # {}
                       /\ \A u \in Sources(r) : rules[r] = SpecificRosdeps(world, u)[r]
             /\ Whole("depends", p) => paths = Paths(world, Below[p])
  <2>1. WithHome(world, paths, rules) /\ FilesOf(world, p, paths, blank["depends"])
    BY <1>1 DEF Lookups
  <2>2. ASSUME NEW r, r \in DOMAIN home PROVE r \in DOMAIN rules /\ rules[r] = home[r]
    BY <2>1, <2>2 DEF WithHome
  <2>3. ASSUME NEW r, r \notin DOMAIN home
        PROVE  /\ r \in DOMAIN rules <=> Sources(r) # {}
               /\ \A u \in Sources(r) : rules[r] = SpecificRosdeps(world, u)[r]
    BY <2>1, <2>3 DEF WithHome, Sources
  <2>4. QED
    BY <2>1, <2>2, <2>3 DEF FilesOf, Whole
<1>2. QED
  BY <1>1 DEF RulesOrderFree, Lookups

LEMMA LookupsInvariant == Spec => []Lookups
<1>1. Init => Lookups
  BY DEF Init, Lookups
<1>2. Places /\ Gatherings /\ Lookups /\ [Next]_vars => Lookups'
  BY LookupsStep
<1>3. QED
  BY <1>1, <1>2, GatheringsInvariant, PTL DEF Spec

\* The rules that decide do not depend on the order in which the files are
\* read, and the files are those of all that the package depends on, whatever
\* has been looked up before (core.py:269).
THEOREM RulesAreOrderFree == Spec => []RulesOrderFree
  BY LookupsInvariant, LookupsAreRight, PTL

-----------------------------------------------------------------------------
(* What the installers find.                                               *)

LEMMA BaseOfBase ==
  ASSUME Places, NEW n
  PROVE  /\ BaseOf(world, BaseOf(world, n)) = BaseOf(world, n)
         /\ BaseOf(world, n) # n => n \in DOMAIN world.base
  BY WorldsAssumption DEF Places, BaseOf

LEMMA MissingNone ==
  ASSUME Places, NEW installer, NEW pkgs, NEW have, Missing(world, installer, pkgs, have) = {}
  PROVE  \A n \in ToSet(pkgs) : Installs(world, installer, n) \in have
<1>1. CASE installer = "Apt"
  <2>1. AptMissing(world, pkgs, have) = {}
    BY <1>1 DEF Missing
  <2>2. \A n \in ToSet(pkgs) : BaseOf(world, n) \in have
    BY <2>1 DEF AptMissing
  <2>3. QED
    BY <1>1, <2>2 DEF Installs
<1>2. CASE installer = "Yum"
  <2>1. YumMissing(world, pkgs, have) = {}
    BY <1>2 DEF Missing
  <2>2. ASSUME NEW n \in ToSet(pkgs) PROVE BaseOf(world, n) \in have
    <3>1. PICK x \in ToSet(pkgs) : n = BaseOf(world, x) /\ BaseOf(world, x) \in have
      BY <2>1 DEF YumMissing
    <3>2. QED
      BY <3>1, BaseOfBase
  <2>3. QED
    BY <1>2, <2>2 DEF Installs
<1>3. CASE installer \notin {"Apt", "Yum"}
  <2>1. ListMissing(pkgs, have) = {}
    BY <1>3 DEF Missing
  <2>2. QED
    BY <1>3, <2>1 DEF ListMissing, Installs
<1>4. QED
  BY <1>1, <1>2, <1>3

\* The names that confuse an installer
Doubtful(installer, pkgs) ==
  \E m, n \in ToSet(pkgs) :
    /\ m \in DOMAIN world.base /\ BaseOf(world, m) = BaseOf(world, n)
    /\ \/ installer = "Apt" /\ m # n
       \/ installer = "Yum"

LEMMA MissingSome ==
  ASSUME Places, NEW installer, NEW pkgs, NEW have, Missing(world, installer, pkgs, have) # {},
         ~Doubtful(installer, pkgs)
  PROVE  \E n \in ToSet(pkgs) : Installs(world, installer, n) \notin have
<1>1. CASE installer = "Apt"
  <2>1. PICK n \in AptMissing(world, pkgs, have) : TRUE
    BY <1>1 DEF Missing
  <2>2. n \in ToSet(pkgs)
    BY <2>1 DEF AptMissing
  <2>3. PICK k \in DOMAIN pkgs : pkgs[k] = n
    BY <2>2 DEF ToSet
  <2>4. ASSUME NEW l \in DOMAIN pkgs, pkgs[l] # n, BaseOf(world, pkgs[l]) = BaseOf(world, n)
        PROVE  FALSE
    <3>1. pkgs[l] \in ToSet(pkgs)
      BY DEF ToSet
    <3>2. pkgs[l] \in DOMAIN world.base \/ n \in DOMAIN world.base
      BY <2>4, BaseOfBase
    <3>3. QED
      BY <1>1, <2>2, <2>4, <3>1, <3>2 DEF Doubtful
  <2>5. BaseOf(world, n) \notin have
    BY <2>1, <2>3, <2>4 DEF AptMissing
  <2>6. QED
    BY <1>1, <2>2, <2>5 DEF Installs
<1>2. CASE installer = "Yum"
  <2>1. PICK n \in ToSet(pkgs) : n \notin {BaseOf(world, x) : x \in {y \in ToSet(pkgs) : BaseOf(world, y) \in have}}
    BY <1>2 DEF Missing, YumMissing
  <2>2. BaseOf(world, n) = n
    BY <1>2, BaseOfBase DEF Doubtful
  <2>3. BaseOf(world, n) \notin have
    BY <2>1, <2>2
  <2>4. QED
    BY <1>2, <2>3 DEF Installs
<1>3. CASE installer \notin {"Apt", "Yum"}
  BY <1>3 DEF Missing, ListMissing, Installs
<1>4. QED
  BY <1>1, <1>2, <1>3

-----------------------------------------------------------------------------
(* What becomes of the rosdeps.                                            *)

Turn == {"depends", "read", "looked", "call"}

\* What has been found out about r is true.
Verdict(r) ==
  /\ r \in failed \/ Met(r)
  /\ op # "install" => used[r].kind = "script" \/ Confusing(r) \/ (r \in failed => ~Met(r))

\* The loop has dealt with r.
Dealt(r) ==
  /\ r \in Rosdeps \ todo /\ ~listing
  /\ pc \notin {"start", "rosdeps"} /\ raised = "none" /\ status # 2
  /\ pc \in Turn => r # current

\* The outermost call is about the current rosdep; in a check its packages are
\* still missing.
Outermost ==
  LET rule == used[current]
      f == stack[Len(stack)]
  IN /\ stack # <<>> /\ \E S : stack \in Seq(S)
     /\ rule = IF current \in DOMAIN rules THEN rules[current] ELSE Nothing
     /\ f.rosdep = current
     /\ f.step = "depends" =>
          /\ Single(rule)
          /\ ModeOf(rule) \in DOMAIN world.installers
          /\ f.installer = world.installers[ModeOf(rule)]
          /\ f.pkgs = ArgsOf(rule).pkgs
          /\ op # "install" => Missing(world, f.installer, f.pkgs, present) # {}

Verdicts ==
  /\ DOMAIN used = AllRosdeps
  /\ failed \subseteq Rosdeps \ todo
  /\ pc \in {"start", "rosdeps"} \/ listing => failed = {}
  /\ pc \in Turn => current \notin failed
  /\ pc = "call" => Outermost /\ ~listing
  /\ \A r \in Rosdeps : Dealt(r) => Verdict(r)
  /\ pc = "finish" => failed # {} /\ op = "install"
  /\ pc # "done" => status = -1 /\ raised = "none"
  /\ status \in {0, 1} /\ raised = "none" =>
       (todo = {} /\ ~listing) \/ (failed # {} /\ op = "install")
  /\ status = 0 => raised = "none" /\ failed = {}

LEMMA VerdictKept ==
  ASSUME NEW r, Verdict(r), UNCHANGED <<world, op>>, used'[r] = used[r],
         present \subseteq present', op # "install" => present' = present,
         scripts \subseteq scripts', r \in failed' <=> r \in failed
  PROVE  Verdict(r)'
<1>1. Met(r) => Met(r)'
  BY DEF Met
<1>2. used[r].kind # "script" /\ present' = present /\ Met(r)' => Met(r)
  BY DEF Met
<1>3. Confusing(r) => Confusing(r)'
  BY DEF Confusing
<1>4. QED
  BY <1>1, <1>2, <1>3 DEF Verdict

\* When the outermost call is about a rule whose packages are all there, the
\* rosdep is met; when one is missing, it is not.
LEMMA MetWhenPresent ==
  ASSUME Places, Single(used[current]), ModeOf(used[current]) \in DOMAIN world.installers,
         NEW have, have = present,
         Missing(world, world.installers[ModeOf(used[current])], ArgsOf(used[current]).pkgs, have) = {}
  PROVE  Met(current)
  BY MissingNone DEF Met

LEMMA UnmetWhenMissing ==
  ASSUME Places, Single(used[current]), ModeOf(used[current]) \in DOMAIN world.installers,
         Missing(world, world.installers[ModeOf(used[current])], ArgsOf(used[current]).pkgs, present) # {}
  PROVE  Confusing(current) \/ ~Met(current)
<1> DEFINE installer == world.installers[ModeOf(used[current])]
           pkgs == ArgsOf(used[current]).pkgs
<1>1. CASE Doubtful(installer, pkgs)
  BY <1>1 DEF Doubtful, Confusing
<1>2. CASE ~Doubtful(installer, pkgs)
  <2>1. \E n \in ToSet(pkgs) : Installs(world, installer, n) \notin present
    BY <1>2, MissingSome
  <2>2. used[current].kind # "script"
    BY DEF Single
  <2>3. QED
    BY <2>1, <2>2 DEF Met
<1>3. QED
  BY <1>1, <1>2

\* The step of a call has left the loop where it was, or the loop goes on with
\* a true verdict, or it ends.
CallResult ==
  \/ pc' = "call" /\ failed' = failed /\ Outermost' /\ UNCHANGED ending
  \/ /\ pc' \in {"next", "finish"} /\ failed' \in {failed, failed \cup {current}}
     /\ \A r \in {current} : Verdict(r)'
     /\ pc' = "finish" => current \in failed' /\ op = "install"
     /\ UNCHANGED ending
  \/ pc' = "done" /\ raised' # "none" /\ status' = 1 /\ failed' = failed

OnlyGrows ==
  /\ present \subseteq present' /\ scripts \subseteq scripts'
  /\ op # "install" => present' = present

LEMMA LoneCall ==
  ASSUME NEW S, stack \in Seq(S), stack # <<>>
  PROVE  /\ Head(stack) \in S /\ Len(stack) \in Nat /\ Len(stack) >= 1
         /\ ~(Len(stack) > 1) => Len(stack) = 1 /\ Head(stack) = stack[Len(stack)]
<1>1. Head(stack) \in S /\ Head(stack) = stack[1] /\ Len(stack) >= 1
  BY Popped
<1>2. Len(stack) \in Nat
  OBVIOUS
<1>3. ~(Len(stack) > 1) => Len(stack) = 1
  <2>1. \A n \in Nat : n >= 1 /\ ~(n > 1) => n = 1
    OBVIOUS
  <2>2. QED
    BY <1>1, <1>2, <2>1
<1>4. QED
  BY <1>1, <1>2, <1>3

\* The outermost call has the same rule and packages as before.
LEMMA OutermostKept ==
  ASSUME Outermost, UNCHANGED <<world, op, current, used, rules>>,
         op # "install" => present' = present,
         NEW S, stack' \in Seq(S), stack' # <<>>,
         NEW f, NEW g, f = stack[Len(stack)], g = stack'[Len(stack')],
         g.rosdep = f.rosdep, g.step = f.step, g.installer = f.installer, g.pkgs = f.pkgs
  PROVE  Outermost'
<1>1. g.rosdep = current
  BY DEF Outermost
<1>2. g.step = "depends" =>
        /\ Single(used[current])
        /\ ModeOf(used[current]) \in DOMAIN world.installers
        /\ g.installer = world.installers[ModeOf(used[current])]
        /\ g.pkgs = ArgsOf(used[current]).pkgs
        /\ op # "install" => Missing(world, g.installer, g.pkgs, present) # {}
  BY DEF Outermost
<1>3. used[current] = IF current \in DOMAIN rules THEN rules[current] ELSE Nothing
  BY DEF Outermost
<1>4. QED
  BY <1>1, <1>2, <1>3 DEF Outermost

\* A call returns: an inner one has no consequence, the outermost one settles
\* its rosdep.
LEMMA Returned ==
  ASSUME pc = "call", Outermost, OnlyGrows, UNCHANGED <<world, op, current, used, rules, ending>>,
         NEW ok \in BOOLEAN,
         stack' = Tail(stack),
         Len(stack) > 1 => UNCHANGED <<failed, pc>>,
         ~(Len(stack) > 1) =>
           /\ failed' = IF ok THEN failed ELSE failed \cup {current}
           /\ pc' = IF ok \/ op # "install" \/ robust THEN "next" ELSE "finish",
         current \notin failed,
         NEW c, c = current,
         Head(stack) = stack[Len(stack)] => (ok => Met(c)'),
         Head(stack) = stack[Len(stack)] /\ ~ok /\ op # "install" =>
           used[c].kind = "script" \/ Confusing(c) \/ ~Met(c)'
  PROVE  CallResult
<1>1. PICK S : stack \in Seq(S)
  BY DEF Outermost
<1>2. stack # <<>>
  BY DEF Outermost
<1>3. CASE Len(stack) > 1
  <2>1. /\ stack' \in Seq(S) /\ Len(stack') = Len(stack) - 1
        /\ \A i \in 1 .. Len(stack) - 1 : stack'[i] = stack[i + 1]
    BY <1>1, <1>2, Popped
  <2>2. Len(stack) \in Nat
    BY <1>1
  <2>3. stack' # <<>> /\ stack'[Len(stack')] = stack[Len(stack)]
    <3>1. Len(stack) - 1 \in 1 .. Len(stack) - 1 /\ (Len(stack) - 1) + 1 = Len(stack)
      BY <1>3, <2>2
    <3>2. stack'[Len(stack) - 1] = stack[Len(stack)]
      BY <2>1, <3>1
    <3>3. stack' # <<>>
      <4>1. Len(stack') # 0 /\ Len(<<>>) = 0
        BY <1>3, <2>1, <2>2
      <4>2. QED
        BY <4>1
    <3>4. QED
      BY <2>1, <3>2, <3>3
  <2>4. Outermost'
    BY <2>1, <2>3, OutermostKept DEF OnlyGrows
  <2>5. QED
    BY <1>3, <2>4 DEF CallResult
<1>4. CASE ~(Len(stack) > 1)
  <2>1. Head(stack) = stack[Len(stack)]
    BY <1>1, <1>2, <1>4, LoneCall
  <2>2. Confusing(c) => Confusing(c)'
    BY DEF Confusing
  <2>3. Verdict(c)'
    BY <1>4, <2>1, <2>2 DEF Verdict
  <2>4. QED
    BY <1>4, <2>3 DEF CallResult
<1>5. QED
  BY <1>3, <1>4

LEMMA Pushed2 ==
  ASSUME NEW S, NEW s \in Seq(S), s # <<>>, NEW a \in S, NEW b \in S
  PROVE  /\ <<a, b>> \o Tail(s) \in Seq(S)
         /\ Len(<<a, b>> \o Tail(s)) = Len(s) + 1
         /\ (<<a, b>> \o Tail(s))[Len(s) + 1] = IF Len(s) > 1 THEN s[Len(s)] ELSE b
<1>1. /\ Tail(s) \in Seq(S) /\ Len(Tail(s)) = Len(s) - 1 /\ Len(s) >= 1 /\ Len(s) \in Nat
      /\ \A i \in 1 .. Len(s) - 1 : Tail(s)[i] = s[i + 1]
  BY Popped
<1>2. /\ <<a, b>> \o Tail(s) \in Seq(S) /\ Len(<<a, b>> \o Tail(s)) = Len(s) + 1
      /\ <<a, b>>[2] = b
  BY <1>1
<1>3. CASE Len(s) > 1
  <2>1. Len(s) - 1 \in 1 .. Len(s) - 1 /\ (Len(s) - 1) + 1 = Len(s)
    BY <1>1, <1>3
  <2>2. (<<a, b>> \o Tail(s))[Len(s) + 1] = Tail(s)[Len(s) - 1]
    BY <1>1, <1>3
  <2>3. QED
    BY <1>1, <1>2, <1>3, <2>1, <2>2
<1>4. CASE ~(Len(s) > 1)
  <2>1. Len(s) = 1
    <3>1. \A n \in Nat : n >= 1 /\ ~(n > 1) => n = 1
      OBVIOUS
    <3>2. QED
      BY <1>1, <1>4, <3>1
  <2>2. (<<a, b>> \o Tail(s))[2] = b
    BY <1>1
  <2>3. QED
    BY <1>2, <1>4, <2>1, <2>2
<1>5. QED
  BY <1>3, <1>4

LEMMA CallVerdict ==
  ASSUME Places, Verdicts, pc = "call",
         NoRule \/ Script \/ Choose \/ Depend \/ Execute \/ WrongSum \/ Display
  PROVE  CallResult /\ OnlyGrows
<1>1. UNCHANGED <<world, op, current, used, rules>>
  BY CallSteps DEF loop, lookup, command
<1>2. Outermost /\ current \notin failed /\ stack # <<>>
  BY DEF Verdicts, Turn, Outermost
<1>3. PICK S : stack \in Seq(S)
  BY <1>2 DEF Outermost
<1>4. PICK c : c = current
  OBVIOUS
<1>5. PICK f : f = Head(stack)
  OBVIOUS
<1>6. used[c] = IF c \in DOMAIN rules THEN rules[c] ELSE Nothing
  BY <1>2, <1>4 DEF Outermost
<1>7. Head(stack) = stack[Len(stack)] =>
        /\ f.rosdep = c
        /\ f.step = "depends" =>
             /\ Single(used[c])
             /\ ModeOf(used[c]) \in DOMAIN world.installers
             /\ f.installer = world.installers[ModeOf(used[c])]
             /\ f.pkgs = ArgsOf(used[c]).pkgs
             /\ op # "install" => Missing(world, f.installer, f.pkgs, present) # {}
  BY <1>2, <1>4, <1>5 DEF Outermost
<1>8. CASE NoRule
  <2>1. /\ f.rosdep \in DOMAIN rules => rules[f.rosdep].kind = "map" /\ ~Single(rules[f.rosdep])
        /\ Return(FALSE) /\ UNCHANGED <<present, scripts, ending>>
    BY <1>5, <1>8 DEF NoRule
  <2>2. OnlyGrows
    BY <2>1 DEF OnlyGrows
  <2>3. Nothing.kind = "nothing"
    BY DEF Nothing
  <2>4. Head(stack) = stack[Len(stack)] => ~Met(c)'
    <3>1. SUFFICES ASSUME Head(stack) = stack[Len(stack)] PROVE ~Met(c)'
      OBVIOUS
    <3>2. ~Single(used[c]) /\ used[c].kind # "script"
      <4>1. CASE c \in DOMAIN rules
        BY <1>6, <1>7, <2>1, <3>1, <4>1
      <4>2. CASE c \notin DOMAIN rules
        BY <1>6, <2>3, <4>2 DEF Single
      <4>3. QED
        BY <4>1, <4>2
    <3>3. QED
      BY <1>1, <3>2 DEF Met
  <2>5. CallResult
    BY <1>1, <1>2, <1>4, <2>1, <2>2, <2>4, Returned DEF Return
  <2>6. QED
    BY <2>2, <2>5
<1>9. CASE Script
  <2>1. PICK ok \in BOOLEAN :
          /\ Return(ok)
          /\ scripts' = IF ok THEN scripts \cup {f.rosdep} ELSE scripts
    BY <1>5, <1>9 DEF Script
  <2>2. f.rosdep \in DOMAIN rules /\ rules[f.rosdep].kind = "script" /\ UNCHANGED <<present, ending>>
    BY <1>5, <1>9 DEF Script
  <2>3. OnlyGrows
    BY <2>1, <2>2 DEF OnlyGrows
  <2>4. Head(stack) = stack[Len(stack)] => used[c].kind = "script" /\ (ok => Met(c)')
    BY <1>1, <1>6, <1>7, <2>1, <2>2 DEF Met
  <2>5. CallResult
    BY <1>1, <1>2, <1>4, <2>1, <2>2, <2>3, <2>4, Returned DEF Return
  <2>6. QED
    BY <2>3, <2>5
<1>10. CASE Choose
  <2> DEFINE rule == rules[f.rosdep]
             mode == ModeOf(rule)
             pkgs == ArgsOf(rule).pkgs
             installer == world.installers[mode]
             depends == IF mode \in {"pip", "source"} THEN ArgsOf(rule).depends ELSE <<>>
  <2>1. /\ f.rosdep \in DOMAIN rules /\ Single(rule) /\ UNCHANGED <<present, scripts>>
    BY <1>5, <1>10 DEF Choose
  <2>2. OnlyGrows
    BY <2>1 DEF OnlyGrows
  <2>3. \/ (Raise("RosdepException") \/ Raise("KeyError")) /\ failed' = failed
        \/ /\ mode \in DOMAIN world.installers /\ Missing(world, installer, pkgs, present) = {}
           /\ Return(TRUE) /\ UNCHANGED ending
        \/ /\ mode \in DOMAIN world.installers /\ Missing(world, installer, pkgs, present) # {}
           /\ stack' = <<Frame(f.rosdep, "depends", depends, installer, pkgs)>> \o Tail(stack)
           /\ UNCHANGED <<failed, pc, ending>>
    BY <1>5, <1>10 DEF Choose
  <2>4. Head(stack) = stack[Len(stack)] => used[c] = rule
    BY <1>6, <1>7, <2>1
  <2>5. CASE (Raise("RosdepException") \/ Raise("KeyError")) /\ failed' = failed
    BY <2>2, <2>5 DEF Raise, CallResult
  <2>6. CASE /\ mode \in DOMAIN world.installers /\ Missing(world, installer, pkgs, present) = {}
             /\ Return(TRUE) /\ UNCHANGED ending
    <3>1. Head(stack) = stack[Len(stack)] => Met(c)
      BY <1>4, <2>1, <2>4, <2>6, MetWhenPresent
    <3>2. Head(stack) = stack[Len(stack)] => Met(c)'
      BY <1>1, <2>1, <3>1 DEF Met
    <3>3. CallResult
      BY <1>1, <1>2, <1>4, <2>2, <2>6, <3>2, Returned DEF Return
    <3>4. QED
      BY <2>2, <3>3
  <2>7. CASE /\ mode \in DOMAIN world.installers /\ Missing(world, installer, pkgs, present) # {}
             /\ stack' = <<Frame(f.rosdep, "depends", depends, installer, pkgs)>> \o Tail(stack)
             /\ UNCHANGED <<failed, pc, ending>>
    <3>1. PICK g : g = Frame(f.rosdep, "depends", depends, installer, pkgs)
      OBVIOUS
    <3>2. g.rosdep = f.rosdep /\ g.step = "depends" /\ g.installer = installer /\ g.pkgs = pkgs
      BY <3>1 DEF Frame
    <3>3. stack \in Seq(S \cup {g}) /\ g \in S \cup {g}
      BY <1>3
    <3>4. stack' = <<g>> \o Tail(stack)
      BY <2>7, <3>1
    <3>5. /\ stack' \in Seq(S \cup {g}) /\ Len(stack') = Len(stack) /\ stack'[1] = g
          /\ \A i \in 2 .. Len(stack) : stack'[i] = stack[i]
      BY <1>2, <3>3, <3>4, Replaced
    <3>6. Len(stack) \in Nat /\ Len(stack) >= 1
          /\ (~(Len(stack) > 1) => Len(stack) = 1 /\ Head(stack) = stack[Len(stack)])
      BY <1>2, <1>3, LoneCall
    <3>7. stack' # <<>>
      <4>1. Len(stack') # 0 /\ Len(<<>>) = 0
        BY <3>5, <3>6
      <4>2. QED
        BY <4>1
    <3>8. CASE Len(stack) > 1
      <4>1. stack'[Len(stack')] = stack[Len(stack)]
        BY <3>5, <3>6, <3>8
      <4>2. Outermost'
        BY <1>1, <1>2, <2>2, <3>5, <3>7, <4>1, OutermostKept DEF OnlyGrows
      <4>3. QED
        BY <2>2, <2>7, <4>2 DEF CallResult
    <3>9. CASE ~(Len(stack) > 1)
      <4>1. stack'[Len(stack')] = g /\ Head(stack) = stack[Len(stack)]
        BY <3>5, <3>6, <3>9
      <4>2. used[c] = rule /\ f.rosdep = c
        BY <1>7, <2>4, <4>1
      <4>3. Outermost'
        BY <1>1, <1>4, <1>6, <2>1, <2>7, <3>2, <3>5, <3>7, <4>1, <4>2 DEF Outermost
      <4>4. QED
        BY <2>2, <2>7, <4>3 DEF CallResult
    <3>10. QED
      BY <3>8, <3>9
  <2>8. QED
    BY <2>3, <2>5, <2>6, <2>7
<1>11. CASE Depend
  <2>1. /\ UNCHANGED <<present, scripts, failed>> /\ f.step = "depends"
        /\ \/ Raise("RuntimeError")
           \/ /\ stack' = <<Frame(Head(f.rest), "lookup", <<>>, "none", <<>>),
                            Frame(f.rosdep, "depends", Tail(f.rest), f.installer, f.pkgs)>> \o Tail(stack)
              /\ UNCHANGED <<pc, ending>>
    BY <1>5, <1>11 DEF Depend
  <2>2. OnlyGrows
    BY <2>1 DEF OnlyGrows
  <2>3. CASE Raise("RuntimeError")
    BY <2>1, <2>2, <2>3 DEF Raise, CallResult
  <2>4. CASE ~Raise("RuntimeError")
    <3>1. PICK a : a = Frame(Head(f.rest), "lookup", <<>>, "none", <<>>)
      OBVIOUS
    <3>2. PICK b : b = Frame(f.rosdep, "depends", Tail(f.rest), f.installer, f.pkgs)
      OBVIOUS
    <3>3. b.rosdep = f.rosdep /\ b.step = f.step /\ b.installer = f.installer /\ b.pkgs = f.pkgs
      BY <2>1, <3>2 DEF Frame
    <3>4. stack \in Seq(S \cup {a, b}) /\ a \in S \cup {a, b} /\ b \in S \cup {a, b}
      BY <1>3
    <3>5. stack' = <<a, b>> \o Tail(stack) /\ UNCHANGED <<pc, ending>>
      BY <2>1, <2>4, <3>1, <3>2
    <3>6. /\ stack' \in Seq(S \cup {a, b}) /\ Len(stack') = Len(stack) + 1
          /\ stack'[Len(stack) + 1] = IF Len(stack) > 1 THEN stack[Len(stack)] ELSE b
      BY <1>2, <3>4, <3>5, Pushed2
    <3>7. Len(stack) \in Nat /\ (~(Len(stack) > 1) => Head(stack) = stack[Len(stack)])
      BY <1>2, <1>3, LoneCall
    <3>8. stack' # <<>>
      <4>1. Len(stack') # 0 /\ Len(<<>>) = 0
        BY <3>6, <3>7
      <4>2. QED
        BY <4>1
    <3>9. Outermost'
      <4>1. PICK h : h = stack[Len(stack)]
        OBVIOUS
      <4>2. PICK g : g = stack'[Len(stack')]
        OBVIOUS
      <4>3. g.rosdep = h.rosdep /\ g.step = h.step /\ g.installer = h.installer /\ g.pkgs = h.pkgs
        BY <1>5, <3>3, <3>6, <3>7, <4>1, <4>2
      <4>4. QED
        BY <1>1, <1>2, <2>2, <3>6, <3>8, <4>1, <4>2, <4>3, OutermostKept DEF OnlyGrows
    <3>10. QED
      BY <2>1, <2>2, <3>5, <3>9 DEF CallResult
  <2>5. QED
    BY <2>3, <2>4
<1>12. CASE Execute
  <2>1. PICK ok \in BOOLEAN, got \in SUBSET Wanted(f) :
          /\ present' = present \cup got
          /\ Return(ok /\ Missing(world, f.installer, f.pkgs, present') = {})
    BY <1>5, <1>12 DEF Execute
  <2>2. op = "install" /\ f.step = "depends" /\ UNCHANGED <<scripts, ending>>
    BY <1>5, <1>12 DEF Execute, Ready
  <2>3. OnlyGrows
    BY <2>1, <2>2 DEF OnlyGrows
  <2>4. PICK good \in BOOLEAN : good = (ok /\ Missing(world, f.installer, f.pkgs, present') = {})
    OBVIOUS
  <2>5. Head(stack) = stack[Len(stack)] => (good => Met(c)')
    <3>1. SUFFICES ASSUME Head(stack) = stack[Len(stack)], good PROVE Met(c)'
      OBVIOUS
    <3>2. Missing(world, world.installers[ModeOf(used[c])], ArgsOf(used[c]).pkgs, present') = {}
      BY <1>7, <2>2, <2>4, <3>1
    <3>3. \A n \in ToSet(ArgsOf(used[c]).pkgs) :
            Installs(world, world.installers[ModeOf(used[c])], n) \in present'
      BY <3>2, MissingNone
    <3>4. QED
      BY <1>1, <1>7, <2>2, <3>1, <3>3 DEF Met
  <2>6. /\ stack' = Tail(stack)
        /\ Len(stack) > 1 => UNCHANGED <<failed, pc>>
        /\ ~(Len(stack) > 1) =>
             /\ failed' = IF good THEN failed ELSE failed \cup {current}
             /\ pc' = IF good \/ op # "install" \/ robust THEN "next" ELSE "finish"
    BY <2>1, <2>4 DEF Return
  <2>7. CallResult
    BY <1>1, <1>2, <1>4, <2>2, <2>3, <2>5, <2>6, Returned
  <2>8. QED
    BY <2>3, <2>7
<1>13. CASE WrongSum
  <2>1. Raise("RosdepException") /\ UNCHANGED <<present, scripts, failed>>
    BY <1>13 DEF WrongSum, installing
  <2>2. QED
    BY <2>1 DEF Raise, CallResult, OnlyGrows
<1>14. CASE Display
  <2>1. /\ Return(FALSE) /\ UNCHANGED <<present, scripts, ending>> /\ f.step = "depends" /\ op # "install"
    BY <1>5, <1>14 DEF Display, Ready
  <2>2. OnlyGrows
    BY <2>1 DEF OnlyGrows
  <2>3. Head(stack) = stack[Len(stack)] => Confusing(c) \/ ~Met(c)
    BY <1>4, <1>7, <2>1, UnmetWhenMissing
  <2>4. Head(stack) = stack[Len(stack)] => Confusing(c) \/ ~Met(c)'
    BY <1>1, <2>1, <2>3 DEF Met
  <2>5. CallResult
    BY <1>1, <1>2, <1>4, <2>1, <2>2, <2>4, Returned DEF Return
  <2>6. QED
    BY <2>2, <2>5
<1>15. QED
  BY <1>8, <1>9, <1>10, <1>11, <1>12, <1>13, <1>14

\* A step that finds nothing out leaves the verdicts as they are.
LEMMA VerdictsKept ==
  ASSUME Verdicts, UNCHANGED <<world, op, used, present, scripts, failed>>,
         \A r \in Rosdeps' : Dealt(r)' => r \in Rosdeps /\ Dealt(r)
  PROVE  \A r \in Rosdeps' : Dealt(r)' => Verdict(r)'
<1> SUFFICES ASSUME NEW r \in Rosdeps', Dealt(r)' PROVE Verdict(r)'
  OBVIOUS
<1>1. Verdict(r)
  BY DEF Verdicts
<1>2. QED
  BY <1>1, VerdictKept

LEMMA VerdictsStep ==
  ASSUME Places, Gatherings, Verdicts, [Next]_vars
  PROVE  Verdicts'
<1>1. CASE Start
  <2>1. /\ UNCHANGED <<world, op, used, present, scripts, failed, listing, todo, cache>>
        /\ pc = "start"
        /\ \/ pc' = "rosdeps" /\ UNCHANGED <<raised, status>>
           \/ pc' = "done" /\ status' = 2
           \/ pc' = "done" /\ raised' # "none" /\ status' = 1
    BY <1>1 DEF Start, Raise, command, loop, installing, ending
  <2>2. Rosdeps' = Rosdeps /\ failed = {}
    BY <2>1, SameRosdeps DEF Verdicts
  <2>3. \A r \in Rosdeps' : ~Dealt(r)'
    BY <2>1 DEF Dealt
  <2>4. QED
    BY <2>1, <2>2, <2>3 DEF Verdicts, Turn
<1>2. CASE GatherRosdeps \/ Plan
  <2>1. /\ UNCHANGED <<world, op, used, present, scripts, failed, raised, status>>
        /\ pc = "rosdeps" /\ pc' \in {"rosdeps", "next"}
        /\ pc' = "next" => todo' = Rosdeps /\ cache' = cache
    BY <1>2 DEF GatherRosdeps, Plan, command, gathering, installing, ending
  <2>2. pc' = "next" => Rosdeps' = Rosdeps
    BY <2>1, SameRosdeps
  <2>3. failed = {}
    BY <2>1 DEF Verdicts
  <2>4. \A r \in Rosdeps' : ~Dealt(r)'
    BY <2>1, <2>2 DEF Dealt
  <2>5. QED
    BY <2>1, <2>3, <2>4 DEF Verdicts, Turn
<1>3. CASE Overflow
  <2>1. /\ UNCHANGED <<world, op, used, present, scripts, failed, todo, listing, cache>>
        /\ pc' = "done" /\ raised' # "none" /\ status' = 1
    BY <1>3 DEF Overflow, Raise, command, gathering, installing, loop
  <2>2. Rosdeps' = Rosdeps
    BY <2>1, SameRosdeps
  <2>3. \A r \in Rosdeps' : ~Dealt(r)'
    BY <2>1 DEF Dealt
  <2>4. QED
    BY <2>1, <2>2, <2>3 DEF Verdicts, Turn
<1>4. ASSUME pc \notin {"start", "rosdeps"}
      PROVE  world' = world /\ Rosdeps' = Rosdeps
  <2>1. world' = world /\ cache'["rosdeps"] = cache["rosdeps"]
    BY <1>4, KeepsRosdeps DEF Gatherings
  <2>2. QED
    BY <2>1, SameRosdeps
<1>5. CASE Begin
  <2>1. /\ UNCHANGED <<op, used, present, scripts, failed, listing, raised, status>>
        /\ pc = "next" /\ pc' \in {"depends", "looked"}
    BY <1>5 DEF Begin, command, installing, ending
  <2>2. PICK r \in todo : todo' = todo \ {r} /\ current' = r
    BY <1>5 DEF Begin
  <2>3. world' = world /\ Rosdeps' = Rosdeps
    BY <1>4, <2>1
  <2>4. r \notin failed /\ failed \subseteq Rosdeps \ todo'
    BY <2>2 DEF Verdicts
  <2>5. \A q \in Rosdeps' : Dealt(q)' => q \in Rosdeps /\ Dealt(q)
    BY <2>1, <2>2, <2>3 DEF Dealt, Turn
  <2>6. \A q \in Rosdeps' : Dealt(q)' => Verdict(q)'
    BY <2>1, <2>3, <2>5, VerdictsKept
  <2>7. QED
    BY <2>1, <2>2, <2>3, <2>4, <2>6 DEF Verdicts, Turn
<1>6. CASE GatherDepends \/ Locate \/ ReadHome
  <2>1. /\ UNCHANGED <<op, used, present, scripts, failed, listing, todo, current>>
        /\ pc \in {"depends", "read"}
        /\ \/ pc' \in {"depends", "read", "looked"} /\ UNCHANGED <<raised, status>>
           \/ pc' = "done" /\ raised' # "none" /\ status' = 1
    BY <1>6 DEF GatherDepends, Locate, ReadHome, Raise, command, installing, ending, loop
  <2>2. world' = world /\ Rosdeps' = Rosdeps
    BY <1>4, <2>1
  <2>3. \A q \in Rosdeps' : Dealt(q)' => q \in Rosdeps /\ Dealt(q)
    BY <2>1, <2>2 DEF Dealt, Turn, Verdicts
  <2>4. \A q \in Rosdeps' : Dealt(q)' => Verdict(q)'
    BY <2>1, <2>2, <2>3, VerdictsKept
  <2>5. QED
    BY <2>1, <2>2, <2>4 DEF Verdicts, Turn
<1>7. CASE Read
  <2>1. /\ UNCHANGED <<op, used, present, scripts, failed, current>> /\ pc = "read"
        /\ \/ pc' = "read" /\ UNCHANGED <<raised, status, listing, todo>>
           \/ pc' = "done" /\ raised' # "none" /\ status' = 1 /\ UNCHANGED <<listing, todo>>
           \/ listing /\ listing' = FALSE /\ pc' = "next" /\ todo' = Rosdeps /\ UNCHANGED <<raised, status>>
    BY <1>7 DEF Read, Raise, command, installing, ending
  <2>2. world' = world /\ Rosdeps' = Rosdeps
    BY <1>4, <2>1
  <2>3. \A q \in Rosdeps' : Dealt(q)' => q \in Rosdeps /\ Dealt(q)
    BY <2>1, <2>2 DEF Dealt, Turn, Verdicts
  <2>4. \A q \in Rosdeps' : Dealt(q)' => Verdict(q)'
    BY <2>1, <2>2, <2>3, VerdictsKept
  <2>5. QED
    BY <2>1, <2>2, <2>4 DEF Verdicts, Turn
<1>8. CASE Looked
  <2>1. /\ UNCHANGED <<op, present, scripts, failed, todo, current, rules, listing, raised, status>>
        /\ pc = "looked"
    BY <1>8 DEF Looked, command, ending, loop, lookup
  <2>2. world' = world /\ Rosdeps' = Rosdeps
    BY <1>4, <2>1
  <2>3. CASE listing
    <3>1. pc' = "next" /\ used' = used
      BY <1>8, <2>3 DEF Looked
    <3>2. \A q \in Rosdeps' : ~Dealt(q)'
      BY <2>1, <2>3 DEF Dealt
    <3>3. QED
      BY <2>1, <2>2, <3>1, <3>2 DEF Verdicts, Turn
  <2>4. CASE ~listing
    <3>1. PICK c : c = current
      OBVIOUS
    <3>2. PICK f : f = Frame(c, "lookup", <<>>, "none", <<>>)
      OBVIOUS
    <3>3. f.rosdep = c /\ f.step = "lookup"
      BY <3>2 DEF Frame
    <3>4. /\ pc' = "call" /\ stack' = <<f>>
          /\ used' = [used EXCEPT ![c] = IF c \in DOMAIN rules THEN rules[c] ELSE Nothing]
      BY <1>8, <2>4, <3>1, <3>2 DEF Looked
    <3>5. c \in AllRosdeps
      <4>1. c \in Rosdeps
        BY <2>1, <3>1 DEF Places
      <4>2. PICK p \in ToSet(world.packages) : c \in cache["rosdeps"][p]
        BY <4>1 DEF Rosdeps
      <4>3. p \in Package
        BY WorldsAssumption DEF Places, ToSet
      <4>4. c \in Needed(p)
        BY <4>2, <4>3 DEF Gatherings, Sound, All, Kinds
      <4>5. PICK q \in Below[p] : c \in ManifestOf(q).rosdeps
        BY <4>4 DEF Needed
      <4>6. q \in Package
        BY <4>3, BelowSelf
      <4>7. QED
        BY <4>5, <4>6 DEF AllRosdeps
    <3>6. /\ DOMAIN used' = AllRosdeps
          /\ used'[c] = IF c \in DOMAIN rules THEN rules[c] ELSE Nothing
          /\ \A q \in AllRosdeps : q # c => used'[q] = used[q]
      BY <3>4, <3>5 DEF Verdicts
    <3>7. Outermost'
      <4>1. stack' # <<>> /\ Len(stack') = 1 /\ stack'[1] = f /\ stack' \in Seq({f})
        BY <3>4
      <4>2. QED
        BY <2>1, <3>1, <3>3, <3>6, <4>1 DEF Outermost
    <3>8. ASSUME NEW q \in Rosdeps', Dealt(q)' PROVE Verdict(q)'
      <4>1. q # c /\ Dealt(q)
        BY <2>1, <2>2, <3>1, <3>4, <3>8 DEF Dealt, Turn
      <4>2. used'[q] = used[q]
        BY <3>4, <4>1
      <4>3. QED
        BY <2>1, <2>2, <3>8, <4>1, <4>2, VerdictKept DEF Verdicts
    <3>9. QED
      BY <2>1, <2>2, <2>4, <3>4, <3>6, <3>7, <3>8 DEF Verdicts, Turn
  <2>5. QED
    BY <2>3, <2>4
<1>9. CASE Listed
  <2>1. /\ UNCHANGED <<op, used, present, scripts, failed, raised, status>> /\ listing
        /\ pc = "next" /\ pc' = "next" /\ todo' = Rosdeps /\ listing' = FALSE
    BY <1>9 DEF Listed, command, installing, ending
  <2>2. Rosdeps' = Rosdeps
    BY <1>4, <2>1
  <2>3. \A q \in Rosdeps' : ~Dealt(q)'
    BY <2>1, <2>2 DEF Dealt
  <2>4. QED
    BY <2>1, <2>2, <2>3 DEF Verdicts, Turn
<1>10. CASE NoRule \/ Script \/ Choose \/ Depend \/ Execute \/ WrongSum \/ Display
  <2>1. /\ pc = "call" /\ UNCHANGED <<op, used, listing, todo, current>>
    BY <1>10, AtCall, CallSteps DEF loop, command
  <2>2. world' = world /\ Rosdeps' = Rosdeps
    BY <1>4, <2>1
  <2>3. CallResult /\ OnlyGrows
    BY <1>10, <2>1, CallVerdict
  <2>4. current \in Rosdeps \ todo /\ current \notin failed /\ ~listing /\ raised = "none" /\ status = -1
    BY <2>1 DEF Places, Verdicts, Turn
  <2>5. failed' \subseteq Rosdeps \ todo /\ failed' \subseteq failed \cup {current}
        /\ failed \subseteq failed'
    BY <2>3, <2>4 DEF CallResult, Verdicts
  <2>6. ASSUME NEW q \in Rosdeps', Dealt(q)' PROVE Verdict(q)'
    <3>1. CASE q # current
      <4>1. Dealt(q)
        BY <2>1, <2>2, <2>4, <2>6, <3>1 DEF Dealt
      <4>2. Verdict(q) /\ (q \in failed' <=> q \in failed)
        BY <2>2, <2>5, <3>1, <4>1 DEF Verdicts
      <4>3. QED
        BY <2>1, <2>2, <2>3, <4>2, VerdictKept DEF OnlyGrows
    <3>2. CASE q = current
      <4>1. pc' \in {"next", "finish"}
        BY <2>1, <2>3, <2>6, <3>2 DEF Dealt, Turn, CallResult
      <4>2. QED
        BY <2>3, <3>2, <4>1 DEF CallResult
    <3>3. QED
      BY <3>1, <3>2
  <2>7. CASE pc' = "call" /\ failed' = failed /\ Outermost' /\ UNCHANGED ending
    BY <2>1, <2>2, <2>4, <2>5, <2>6, <2>7 DEF Verdicts, Turn, ending
  <2>8. CASE /\ pc' \in {"next", "finish"} /\ UNCHANGED ending
             /\ pc' = "finish" => current \in failed' /\ op = "install"
    BY <2>1, <2>2, <2>4, <2>5, <2>6, <2>8 DEF Verdicts, Turn, ending
  <2>9. CASE pc' = "done" /\ raised' # "none" /\ status' = 1 /\ failed' = failed
    BY <2>1, <2>2, <2>4, <2>5, <2>6, <2>9 DEF Verdicts, Turn
  <2>10. QED
    BY <2>3, <2>7, <2>8, <2>9 DEF CallResult
<1>11. CASE Finish
  <2>1. /\ UNCHANGED <<op, used, present, scripts, failed, todo, listing, current, raised>>
        /\ pc = "finish" \/ (pc = "next" /\ todo = {} /\ ~listing)
        /\ status' = IF failed = {} THEN 0 ELSE 1
        /\ pc' = "done"
    BY <1>11 DEF Finish, command, loop, installing
  <2>2. pc \in {"finish", "next"} /\ raised = "none" /\ status = -1
    BY <2>1 DEF Verdicts
  <2>3. world' = world /\ Rosdeps' = Rosdeps
    BY <1>4, <2>2
  <2>4. (todo = {} /\ ~listing) \/ (failed # {} /\ op = "install")
    BY <2>1 DEF Verdicts
  <2>5. \A q \in Rosdeps' : Dealt(q)' => q \in Rosdeps /\ Dealt(q)
    BY <2>1, <2>2, <2>3 DEF Dealt, Turn
  <2>6. \A q \in Rosdeps' : Dealt(q)' => Verdict(q)'
    BY <2>1, <2>3, <2>5, VerdictsKept
  <2>7. QED
    BY <2>1, <2>2, <2>3, <2>4, <2>6 DEF Verdicts, Turn
<1>12. CASE UNCHANGED vars
  <2>1. UNCHANGED <<world, op, pc, cache, listing, todo, current, used, stack, rules, present,
                    scripts, failed, raised, status>>
    BY <1>12 DEF vars, command, gathering, loop, lookup, installing, ending
  <2>2. Rosdeps' = Rosdeps
    BY <2>1, SameRosdeps
  <2>3. \A q \in Rosdeps' : Dealt(q)' => q \in Rosdeps /\ Dealt(q)
    BY <2>1, <2>2 DEF Dealt
  <2>4. \A q \in Rosdeps' : Dealt(q)' => Verdict(q)'
    BY <2>1, <2>3, VerdictsKept
  <2>5. Outermost => Outermost'
    BY <2>1 DEF Outermost
  <2>6. QED
    BY <2>1, <2>2, <2>4, <2>5 DEF Verdicts
<1>13. QED
  BY <1>1, <1>2, <1>3, <1>5, <1>6, <1>7, <1>8, <1>9, <1>10, <1>11, <1>12 DEF Next

LEMMA VerdictsInvariant == Spec => []Verdicts
<1>1. Init => Verdicts
  BY DEF Init, Verdicts, Turn, Dealt
<1>2. Places /\ Gatherings /\ Verdicts /\ [Next]_vars => Verdicts'
  BY VerdictsStep
<1>3. QED
  BY <1>1, <1>2, GatheringsInvariant, PTL DEF Spec

LEMMA VerdictsAreTruthful ==
  ASSUME Places, Verdicts
  PROVE  AnswersTruthful
<1>1. ASSUME status = 0 PROVE \A r \in Rosdeps : Met(r)
  <2>1. pc = "done" /\ raised = "none" /\ failed = {} /\ todo = {} /\ ~listing
    BY <1>1 DEF Verdicts
  <2>2. \A r \in Rosdeps : Dealt(r)
    BY <1>1, <2>1 DEF Dealt, Turn
  <2>3. QED
    BY <2>1, <2>2 DEF Verdicts, Verdict
<1>2. ASSUME status \in {0, 1}, raised = "none", op # "install"
      PROVE  \A r \in Rosdeps : used[r].kind # "script" /\ ~Confusing(r) => (r \in failed <=> ~Met(r))
  <2>1. pc = "done" /\ todo = {} /\ ~listing
    BY <1>2 DEF Verdicts
  <2>2. \A r \in Rosdeps : Dealt(r)
    BY <1>2, <2>1 DEF Dealt, Turn
  <2>3. QED
    BY <1>2, <2>2 DEF Verdicts, Verdict
<1>3. QED
  BY <1>1, <1>2 DEF AnswersTruthful

\* Exit status 0 of rosdep install means that everything the packages need is
\* there, and a check reports exactly what is not (main.py:150, core.py:424).
THEOREM AnswersAreTrue == Spec => []AnswersTruthful
  BY GatheringsInvariant, VerdictsInvariant, VerdictsAreTruthful, PTL

-----------------------------------------------------------------------------
(* Every rosdep is found.                                                  *)

Seen == known["rosdeps"]

Asked == ToSet(world.packages)

\* p is one of the packages, or a call waits for it.
Open(p) == p \in Asked \/ \E i \in DOMAIN calls : calls[i].rest # <<>> /\ Head(calls[i].rest) = p

\* Somebody who has r will still be asked for it.
Saved(r) == \E p \in Package : Open(p) /\ r \in cache["rosdeps"][p]

\* Each call has been made for the next dependency of the one further out, and
\* what a package needs is saved once its call has ended.
Searching ==
  /\ \A i \in DOMAIN calls :
       /\ DependsOn(calls[i].pkg) \subseteq Seen \cup ToSet(calls[i].rest)
       /\ IF i = Len(calls) THEN calls[i].pkg \in Asked
          ELSE calls[i + 1].rest # <<>> /\ Head(calls[i + 1].rest) = calls[i].pkg
  /\ \A q \in Seen : ~InProgress(q) =>
       DependsOn(q) \subseteq Seen /\ \A r \in ManifestOf(q).rosdeps : Saved(r)
  /\ ToSet(asked) \subseteq Asked /\ Asked \subseteq Seen \cup ToSet(asked)

LEMMA CallTypes ==
  ASSUME GatherTypes
  PROVE  /\ calls \in Seq(Call) /\ Len(calls) \in Nat /\ DOMAIN calls = 1 .. Len(calls)
         /\ \A i \in DOMAIN calls : calls[i].pkg \in Package /\ calls[i].rest \in Seq(Package)
         /\ calls # <<>> => Head(calls) = calls[1] /\ 1 \in DOMAIN calls
         /\ "rosdeps" \in Kinds /\ Seen \subseteq Package
<1>1. calls \in Seq(Call)
  BY DEF GatherTypes
<1>2. \A i \in DOMAIN calls : calls[i].pkg \in Package /\ calls[i].rest \in Seq(Package)
  <2>1. \A i \in DOMAIN calls : calls[i] \in Call
    BY <1>1
  <2>2. QED
    BY <2>1 DEF Call
<1>3. calls # <<>> => Head(calls) = calls[1] /\ 1 \in DOMAIN calls
  BY <1>1, Popped
<1>4. QED
  BY <1>1, <1>2, <1>3 DEF GatherTypes, Kinds, Seen

\* A call is for a package that somebody asks about.
LEMMA CallsOpen ==
  ASSUME GatherTypes, Searching, NEW i \in DOMAIN calls
  PROVE  Open(calls[i].pkg)
<1>1. CASE i = Len(calls)
  BY <1>1 DEF Searching, Open
<1>2. CASE i # Len(calls)
  <2>1. i + 1 \in DOMAIN calls
    BY <1>2, CallTypes
  <2>2. QED
    BY <1>2, <2>1 DEF Searching, Open
<1>3. QED
  BY <1>1, <1>2

LEMMA SearchEnter ==
  ASSUME GatherTypes, Searching, blank["rosdeps"] = {}, world' = world,
         NEW p \in Package, Enter("rosdeps", p),
         calls = <<>> => p \in Asked,
         calls # <<>> => Head(calls).rest # <<>> /\ Head(Head(calls).rest) = p,
         ToSet(asked') \subseteq ToSet(asked), ToSet(asked) \subseteq ToSet(asked') \cup {p}
  PROVE  Searching'
<1> DEFINE new == [pkg |-> p, rest |-> ManifestOf(p).depends]
<1>1. /\ calls' = <<new>> \o calls /\ cache' = cache /\ Asked' = Asked
      /\ Seen' = Seen \cup {p} /\ new \in Call /\ new.pkg = p /\ ToSet(new.rest) = DependsOn(p)
  <2>1. Held("rosdeps", p) = ManifestOf(p)
    BY DEF Held
  <2>2. calls' = <<new>> \o calls /\ cache' = cache /\ Seen' = Seen \cup {p}
    BY <2>1, CallTypes DEF Enter, Seen, GatherTypes
  <2>3. QED
    BY <2>2, Dependencies DEF Call, DependsOn, Asked
<1> HIDE DEF new
<1>2. /\ DOMAIN calls' = 1 .. Len(calls) + 1 /\ Len(calls') = Len(calls) + 1 /\ calls'[1] = new
      /\ \A i \in 2 .. Len(calls) + 1 : calls'[i] = calls[i - 1]
  <2>1. /\ calls' \in Seq(Call) /\ Len(calls') = Len(calls) + 1 /\ calls'[1] = new
        /\ \A i \in 2 .. Len(calls) + 1 : calls'[i] = calls[i - 1]
    BY <1>1, CallTypes, Pushed
  <2>2. QED
    BY <2>1
<1>3. /\ Len(calls) \in Nat /\ DOMAIN calls = 1 .. Len(calls)
      /\ \A i \in DOMAIN calls : i + 1 \in DOMAIN calls' /\ calls'[i + 1] = calls[i]
      /\ \A i \in DOMAIN calls' : i = 1 \/ (i - 1 \in DOMAIN calls /\ calls'[i] = calls[i - 1])
  <2>1. Len(calls) \in Nat /\ DOMAIN calls = 1 .. Len(calls)
    BY CallTypes
  <2>2. ASSUME NEW i \in DOMAIN calls
        PROVE  i + 1 \in DOMAIN calls' /\ calls'[i + 1] = calls[i]
    <3>1. i + 1 \in 2 .. Len(calls) + 1 /\ (i + 1) - 1 = i
      BY <2>1
    <3>2. QED
      BY <1>2, <3>1
  <2>3. ASSUME NEW i \in DOMAIN calls', i # 1
        PROVE  i - 1 \in DOMAIN calls /\ calls'[i] = calls[i - 1]
    BY <1>2, <2>1, <2>3
  <2>4. QED
    BY <2>1, <2>2, <2>3
<1>4. /\ \A q : InProgress(q) => InProgress(q)'
      /\ InProgress(p)'
  <2>1. \A q : InProgress(q) => InProgress(q)'
    BY <1>3 DEF InProgress
  <2>2. 1 \in DOMAIN calls' /\ calls'[1].pkg = p
    BY <1>1, <1>2, <1>3
  <2>3. QED
    BY <2>1, <2>2 DEF InProgress
<1>5. \A r : Saved(r) => Saved(r)'
  <2>1. \A q : Open(q) => Open(q)'
    BY <1>1, <1>3 DEF Open
  <2>2. QED
    BY <1>1, <2>1 DEF Saved
<1>6. ASSUME NEW i \in DOMAIN calls'
      PROVE  /\ DependsOn(calls'[i].pkg) \subseteq Seen' \cup ToSet(calls'[i].rest)
             /\ IF i = Len(calls') THEN calls'[i].pkg \in Asked'
                ELSE calls'[i + 1].rest # <<>> /\ Head(calls'[i + 1].rest) = calls'[i].pkg
  <2>1. CASE i = 1
    <3>1. calls = <<>> <=> i = Len(calls')
      BY <1>2, <2>1, CallTypes
    <3>2. calls # <<>> => calls'[i + 1] = Head(calls)
      BY <1>3, <2>1, CallTypes
    <3>3. QED
      BY <1>1, <1>2, <2>1, <3>1, <3>2
  <2>2. CASE i # 1
    <3>1. i - 1 \in DOMAIN calls /\ calls'[i] = calls[i - 1] /\ (i = Len(calls') <=> i - 1 = Len(calls))
      BY <1>2, <1>3, <2>2
    <3>2. i # Len(calls') => calls'[i + 1] = calls[(i - 1) + 1]
      BY <1>2, <1>3, <3>1
    <3>3. QED
      BY <1>1, <3>1, <3>2 DEF Searching
  <2>3. QED
    BY <2>1, <2>2
<1>7. ASSUME NEW q \in Seen', ~InProgress(q)'
      PROVE  DependsOn(q) \subseteq Seen' /\ \A r \in ManifestOf(q).rosdeps : Saved(r)'
  <2>1. q \in Seen /\ ~InProgress(q)
    BY <1>1, <1>4, <1>7
  <2>2. QED
    BY <1>1, <1>5, <2>1 DEF Searching
<1>8. ToSet(asked') \subseteq Asked' /\ Asked' \subseteq Seen' \cup ToSet(asked')
  BY <1>1 DEF Searching
<1>9. QED
  BY <1>6, <1>7, <1>8 DEF Searching

LEMMA SearchVisit ==
  ASSUME GatherTypes, Searching, world' = world, calls # <<>>, Head(calls).rest # <<>>,
         Head(Head(calls).rest) \in Seen, Gather("rosdeps")
  PROVE  Searching'
<1> PICK p : p = Head(calls).pkg
  OBVIOUS
<1> PICK rest : rest = Head(calls).rest
  OBVIOUS
<1> DEFINE new == [pkg |-> p, rest |-> Tail(rest)]
<1>1. /\ calls' = <<new>> \o Tail(calls) /\ known' = known /\ asked' = asked
      /\ Add("rosdeps", p, cache["rosdeps"][Head(rest)])
  BY DEF Gather, Seen
<1>2. /\ p \in Package /\ rest \in Seq(Package) /\ rest # <<>> /\ Head(calls) = calls[1]
      /\ Head(rest) \in Package /\ Tail(rest) \in Seq(Package)
      /\ ToSet(rest) = {Head(rest)} \cup ToSet(Tail(rest)) /\ 1 \in DOMAIN calls
  <2>1. p \in Package /\ rest \in Seq(Package) /\ rest # <<>> /\ Head(calls) = calls[1] /\ 1 \in DOMAIN calls
    BY CallTypes
  <2>2. /\ Tail(rest) \in Seq(Package) /\ Head(rest) = rest[1] /\ Len(Tail(rest)) = Len(rest) - 1
        /\ Len(rest) >= 1 /\ \A i \in 1 .. Len(rest) - 1 : Tail(rest)[i] = rest[i + 1]
        /\ Head(rest) \in Package
    BY <2>1, Popped
  <2>3. ToSet(rest) = {Head(rest)} \cup ToSet(Tail(rest))
    BY <2>1, HeadOrTail
  <2>4. QED
    BY <2>1, <2>2, <2>3
<1>3. new \in Call /\ new.pkg = p /\ new.rest = Tail(rest)
  BY <1>2 DEF Call
<1>4. /\ Seen' = Seen /\ Asked' = Asked /\ ToSet(asked') = ToSet(asked)
      /\ \A q \in Package : cache["rosdeps"][q] \subseteq cache'["rosdeps"][q]
      /\ cache["rosdeps"][Head(rest)] \subseteq cache'["rosdeps"][p]
  <2>1. Seen' = Seen /\ Asked' = Asked /\ ToSet(asked') = ToSet(asked)
    BY <1>1 DEF Seen, Asked
  <2>2. \A q \in Package : cache["rosdeps"][q] \subseteq cache'["rosdeps"][q]
    BY <1>1, <1>2 DEF Add, GatherTypes, Kinds
  <2>3. cache["rosdeps"][Head(rest)] \subseteq cache'["rosdeps"][p]
    BY <1>1, <1>2 DEF Add, GatherTypes, Kinds
  <2>4. QED
    BY <2>1, <2>2, <2>3
<1> HIDE DEF new
<1>5. /\ Len(calls') = Len(calls) /\ DOMAIN calls' = DOMAIN calls /\ calls'[1] = new
      /\ \A i \in DOMAIN calls : i # 1 => calls'[i] = calls[i]
      /\ \A i \in DOMAIN calls : calls'[i].pkg = calls[i].pkg
  <2>1. /\ calls' \in Seq(Call) /\ Len(calls') = Len(calls) /\ calls'[1] = new
        /\ \A i \in 2 .. Len(calls) : calls'[i] = calls[i]
    BY <1>1, <1>3, CallTypes, Replaced
  <2>2. DOMAIN calls' = 1 .. Len(calls) /\ \A i \in DOMAIN calls : i # 1 => calls'[i] = calls[i]
    BY <2>1, CallTypes
  <2>3. calls[1].pkg = p
    BY <1>2
  <2>4. QED
    BY <1>3, <2>1, <2>2, <2>3, CallTypes
<1>6. \A i \in DOMAIN calls : i # Len(calls) => i + 1 \in DOMAIN calls /\ i + 1 # 1
  BY CallTypes
<1>7. ASSUME NEW i \in DOMAIN calls'
      PROVE  /\ DependsOn(calls'[i].pkg) \subseteq Seen' \cup ToSet(calls'[i].rest)
             /\ IF i = Len(calls') THEN calls'[i].pkg \in Asked'
                ELSE calls'[i + 1].rest # <<>> /\ Head(calls'[i + 1].rest) = calls'[i].pkg
  <2>1. DependsOn(calls'[i].pkg) \subseteq Seen' \cup ToSet(calls'[i].rest)
    <3>1. CASE i = 1
      <4>1. DependsOn(p) \subseteq Seen \cup ToSet(rest) /\ Head(rest) \in Seen
        BY <1>2 DEF Searching
      <4>2. QED
        BY <1>2, <1>3, <1>4, <1>5, <3>1, <4>1
    <3>2. CASE i # 1
      BY <1>4, <1>5, <3>2 DEF Searching
    <3>3. QED
      BY <3>1, <3>2
  <2>2. i # Len(calls) => calls'[i + 1] = calls[i + 1]
    BY <1>5, <1>6
  <2>3. QED
    BY <1>4, <1>5, <2>1, <2>2 DEF Searching
<1>8. \A q : InProgress(q)' <=> InProgress(q)
  BY <1>5 DEF InProgress
<1>9. Open(p)'
  <2>1. CASE Len(calls) = 1
    <3>1. 1 \in DOMAIN calls' /\ 1 = Len(calls')
      BY <1>2, <1>5, <2>1
    <3>2. calls'[1].pkg \in Asked'
      BY <1>7, <3>1
    <3>3. QED
      BY <1>3, <1>5, <3>2 DEF Open
  <2>2. CASE Len(calls) # 1
    <3>1. 1 + 1 \in DOMAIN calls' /\ 1 \in DOMAIN calls' /\ 1 # Len(calls')
      BY <1>2, <1>5, <1>6, <2>2
    <3>2. calls'[1 + 1].rest # <<>> /\ Head(calls'[1 + 1].rest) = calls'[1].pkg
      BY <1>7, <3>1
    <3>3. calls'[1].pkg = p
      BY <1>3, <1>5
    <3>4. \E i \in DOMAIN calls' : calls'[i].rest # <<>> /\ Head(calls'[i].rest) = p
      BY <3>1, <3>2, <3>3
    <3>5. QED
      BY <3>4 DEF Open
  <2>3. QED
    BY <2>1, <2>2
<1>10. ASSUME NEW r, Saved(r) PROVE Saved(r)'
  <2>1. PICK q \in Package : Open(q) /\ r \in cache["rosdeps"][q]
    BY <1>10 DEF Saved
  <2>2. CASE q = Head(rest)
    BY <1>2, <1>4, <1>9, <2>1, <2>2 DEF Saved
  <2>3. CASE q # Head(rest)
    <3>1. Open(q)'
      <4>1. CASE q \in Asked
        BY <1>4, <4>1 DEF Open
      <4>2. CASE q \notin Asked
        <5>1. PICK i \in DOMAIN calls : calls[i].rest # <<>> /\ Head(calls[i].rest) = q
          BY <2>1, <4>2 DEF Open
        <5>2. i # 1
          BY <1>2, <2>3, <5>1
        <5>3. QED
          BY <1>5, <5>1, <5>2 DEF Open
      <4>3. QED
        BY <4>1, <4>2
    <3>2. QED
      BY <1>4, <2>1, <3>1 DEF Saved
  <2>4. QED
    BY <2>2, <2>3
<1>11. ASSUME NEW q \in Seen', ~InProgress(q)'
       PROVE  DependsOn(q) \subseteq Seen' /\ \A r \in ManifestOf(q).rosdeps : Saved(r)'
  BY <1>4, <1>8, <1>10, <1>11 DEF Searching
<1>12. ToSet(asked') \subseteq Asked' /\ Asked' \subseteq Seen' \cup ToSet(asked')
  BY <1>4 DEF Searching
<1>13. QED
  BY <1>7, <1>11, <1>12 DEF Searching

LEMMA SearchGathered ==
  ASSUME GatherTypes, Searching, blank["rosdeps"] = {}, world' = world, Gathered("rosdeps")
  PROVE  Searching'
<1>1. /\ calls # <<>> /\ Head(calls).rest = <<>> /\ calls' = Tail(calls) /\ known' = known
      /\ asked' = asked /\ Add("rosdeps", Head(calls).pkg, Own("rosdeps", Head(calls).pkg))
      /\ Head(calls) = calls[1] /\ 1 \in DOMAIN calls
  BY CallTypes DEF Gathered
<1> PICK p \in Package : p = Head(calls).pkg
  BY <1>1, CallTypes
<1>2. Own("rosdeps", p) = ManifestOf(p).rosdeps
  BY DEF Own, Held
<1>3. /\ Seen' = Seen /\ Asked' = Asked /\ ToSet(asked') = ToSet(asked)
      /\ \A q \in Package : cache["rosdeps"][q] \subseteq cache'["rosdeps"][q]
      /\ ManifestOf(p).rosdeps \subseteq cache'["rosdeps"][p]
  <2>1. Seen' = Seen /\ Asked' = Asked /\ ToSet(asked') = ToSet(asked)
    BY <1>1 DEF Seen, Asked
  <2>2. \A q \in Package : cache["rosdeps"][q] \subseteq cache'["rosdeps"][q]
    BY <1>1 DEF Add, GatherTypes, Kinds
  <2>3. ManifestOf(p).rosdeps \subseteq cache'["rosdeps"][p]
    BY <1>1, <1>2 DEF Add, GatherTypes, Kinds
  <2>4. QED
    BY <2>1, <2>2, <2>3
<1>4. /\ Len(calls) \in Nat /\ Len(calls') = Len(calls) - 1 /\ DOMAIN calls' = 1 .. Len(calls) - 1
      /\ \A i \in DOMAIN calls' : i + 1 \in DOMAIN calls /\ calls'[i] = calls[i + 1]
      /\ \A i \in DOMAIN calls : i = 1 \/ (i - 1 \in DOMAIN calls' /\ calls'[i - 1] = calls[i])
  <2>1. /\ calls' \in Seq(Call) /\ Len(calls') = Len(calls) - 1
        /\ \A i \in 1 .. Len(calls) - 1 : calls'[i] = calls[i + 1]
    BY <1>1, CallTypes, Popped
  <2>2. DOMAIN calls' = 1 .. Len(calls) - 1
    BY <2>1
  <2>3. \A i \in DOMAIN calls : i = 1 \/ (i - 1 \in DOMAIN calls' /\ calls'[i - 1] = calls[i])
    <3> SUFFICES ASSUME NEW i \in DOMAIN calls, i # 1
                 PROVE  i - 1 \in DOMAIN calls' /\ calls'[i - 1] = calls[i]
      OBVIOUS
    <3>1. i - 1 \in 1 .. Len(calls) - 1 /\ (i - 1) + 1 = i
      BY CallTypes
    <3>2. QED
      BY <2>1, <2>2, <3>1
  <2>4. QED
    BY <2>1, <2>2, <2>3, CallTypes
<1>5. \A q : InProgress(q) => q = p \/ InProgress(q)'
  BY <1>1, <1>4 DEF InProgress
<1>6. \A q : Open(q) => Open(q)'
  <2> SUFFICES ASSUME NEW q, Open(q), q \notin Asked PROVE Open(q)'
    BY <1>3 DEF Open
  <2>1. PICK i \in DOMAIN calls : calls[i].rest # <<>> /\ Head(calls[i].rest) = q
    BY DEF Open
  <2>2. i # 1
    BY <1>1, <2>1
  <2>3. QED
    BY <1>4, <2>1, <2>2 DEF Open
<1>7. Open(p)'
  BY <1>1, <1>6, CallsOpen
<1>8. ASSUME NEW i \in DOMAIN calls'
      PROVE  /\ DependsOn(calls'[i].pkg) \subseteq Seen' \cup ToSet(calls'[i].rest)
             /\ IF i = Len(calls') THEN calls'[i].pkg \in Asked'
                ELSE calls'[i + 1].rest # <<>> /\ Head(calls'[i + 1].rest) = calls'[i].pkg
  <2>1. i + 1 \in DOMAIN calls /\ calls'[i] = calls[i + 1] /\ (i = Len(calls') <=> i + 1 = Len(calls))
    BY <1>4
  <2>2. i # Len(calls') => calls'[i + 1] = calls[(i + 1) + 1]
    BY <1>4
  <2>3. QED
    BY <1>3, <2>1, <2>2 DEF Searching
<1>9. \A r : Saved(r) => Saved(r)'
  BY <1>3, <1>6 DEF Saved
<1>10. ASSUME NEW q \in Seen', ~InProgress(q)'
       PROVE  DependsOn(q) \subseteq Seen' /\ \A r \in ManifestOf(q).rosdeps : Saved(r)'
  <2>1. CASE q = p
    <3>1. DependsOn(p) \subseteq Seen \cup ToSet(<<>>) /\ ToSet(<<>>) = {}
      BY <1>1 DEF Searching, ToSet
    <3>2. QED
      BY <1>3, <1>7, <2>1, <3>1 DEF Saved
  <2>2. CASE q # p
    BY <1>3, <1>5, <1>9, <1>10, <2>2 DEF Searching
  <2>3. QED
    BY <2>1, <2>2
<1>11. ToSet(asked') \subseteq Asked' /\ Asked' \subseteq Seen' \cup ToSet(asked')
  BY <1>3 DEF Searching
<1>12. QED
  BY <1>8, <1>10, <1>11 DEF Searching

LEMMA SearchStep ==
  ASSUME GatherTypes, Searching, blank["rosdeps"] = {}, world' = world, Gathering("rosdeps")
  PROVE  Searching'
<1>1. CASE Answer("rosdeps")
  <2>1. /\ calls = <<>> /\ asked \in Seq(Package) /\ asked # <<>> /\ asked' = Tail(asked)
        /\ Head(asked) \in Package
    <3>1. calls = <<>> /\ asked \in Seq(Package) /\ asked # <<>> /\ asked' = Tail(asked)
      BY <1>1 DEF Answer, GatherTypes
    <3>2. QED
      BY <3>1, Popped
  <2>2. ToSet(asked) = {Head(asked)} \cup ToSet(asked')
    BY <2>1, HeadOrTail
  <2>3. CASE Head(asked) \in Seen
    <3>1. UNCHANGED <<known, cache, calls>>
      BY <1>1, <2>3 DEF Answer, Seen
    <3>2. Seen' = Seen /\ Asked' = Asked /\ (\A q : InProgress(q)' <=> InProgress(q)) /\ \A r : Saved(r)' <=> Saved(r)
      BY <3>1 DEF Seen, Asked, InProgress, Saved, Open
    <3>3. QED
      BY <2>1, <2>2, <2>3, <3>1, <3>2 DEF Searching
  <2>4. CASE Head(asked) \notin Seen
    <3>1. Enter("rosdeps", Head(asked))
      BY <1>1, <2>4 DEF Answer, Seen
    <3>2. Head(asked) \in Asked
      BY <2>2 DEF Searching
    <3>3. QED
      BY <2>1, <2>2, <3>1, <3>2, SearchEnter
  <2>5. QED
    BY <2>3, <2>4
<1>2. CASE Gather("rosdeps")
  <2>1. calls # <<>> /\ Head(calls).rest # <<>> /\ asked' = asked
    BY <1>2 DEF Gather
  <2>2. CASE Head(Head(calls).rest) \in Seen
    BY <1>2, <2>1, <2>2, SearchVisit
  <2>3. CASE Head(Head(calls).rest) \notin Seen
    <3>1. Enter("rosdeps", Head(Head(calls).rest))
      BY <1>2, <2>3 DEF Gather, Seen
    <3>2. Head(Head(calls).rest) \in Package
      <4>1. Head(calls).rest \in Seq(Package)
        BY <2>1, CallTypes
      <4>2. QED
        BY <2>1, <4>1, Popped
    <3>3. QED
      BY <2>1, <3>1, <3>2, SearchEnter
  <2>4. QED
    BY <2>2, <2>3
<1>3. QED
  BY <1>1, <1>2, SearchGathered DEF Gathering

\* The search is over.
LEMMA SearchEnds ==
  ASSUME Places, Gatherings, Searching, Idle
  PROVE  Rosdeps = UNION {Needed(p) : p \in Asked}
<1>1. calls = <<>> /\ asked = <<>> /\ ToSet(asked) = {} /\ \A q : ~InProgress(q)
  BY DEF Idle, InProgress, ToSet
<1>2. Asked \subseteq Package /\ Asked \subseteq Seen /\ Seen \subseteq Package
  <2>1. world.packages \in Seq(Package)
    BY WorldsAssumption DEF Places
  <2>2. QED
    BY <1>1, <2>1, CallTypes DEF Gatherings, Searching, Asked, ToSet
<1>3. Closed(Seen)
  BY <1>1 DEF Searching, Closed
<1>4. \A r : Saved(r) => r \in Rosdeps
  BY <1>1 DEF Saved, Open, Asked, Rosdeps
<1>5. ASSUME NEW p \in Asked PROVE Needed(p) \subseteq Rosdeps
  <2>1. Below[p] \subseteq Seen
    BY <1>2, <1>3, BelowLeast
  <2>2. QED
    BY <1>1, <1>4, <2>1 DEF Needed, Searching
<1>6. ASSUME NEW p \in Asked PROVE cache["rosdeps"][p] \subseteq Needed(p)
  BY <1>2 DEF Gatherings, Sound, All, Kinds
<1>7. Rosdeps = UNION {cache["rosdeps"][p] : p \in Asked}
  BY DEF Rosdeps, Asked
<1>8. QED
  BY <1>5, <1>6, <1>7

Found ==
  /\ pc = "start" => known["rosdeps"] = {} /\ calls = <<>> /\ asked = <<>>
  /\ pc = "rosdeps" /\ blank["rosdeps"] = {} => Searching
  /\ pc \notin {"start", "rosdeps", "done"} /\ blank["rosdeps"] = {} =>
       Rosdeps = UNION {Needed(p) : p \in Asked}

LEMMA FoundStep ==
  ASSUME Places, Gatherings, Found, [Next]_vars
  PROVE  Found'
<1>1. CASE pc \notin {"start", "rosdeps"}
  <2>1. /\ world' = world /\ cache'["rosdeps"] = cache["rosdeps"] /\ blank'["rosdeps"] = blank["rosdeps"]
    BY <1>1, KeepsRosdeps DEF Gatherings
  <2>2. pc' \notin {"start", "rosdeps"} /\ (pc = "done" => pc' = "done")
    <3>1. CASE NoRule \/ Script \/ Choose \/ Depend \/ Execute \/ WrongSum \/ Display
      BY <3>1, AtCall, CallSteps
    <3>2. CASE Overflow \/ Begin \/ GatherDepends \/ Locate \/ Read \/ ReadHome \/ Looked \/ Listed \/ Finish
      BY <1>1, <3>2 DEF Overflow, Begin, GatherDepends, Locate, Read, ReadHome, Looked, Listed, Finish, Raise
    <3>3. CASE UNCHANGED vars
      BY <1>1, <3>3 DEF vars
    <3>4. QED
      BY <1>1, <3>1, <3>2, <3>3 DEF Next, Start, GatherRosdeps, Plan
  <2>3. Rosdeps' = Rosdeps /\ Asked' = Asked
    BY <2>1, SameRosdeps DEF Asked
  <2>4. QED
    BY <1>1, <2>1, <2>2, <2>3 DEF Found
<1>2. CASE Start
  <2>1. /\ world' = world /\ UNCHANGED <<known, cache, calls>> /\ pc = "start"
        /\ pc' = "done" \/ (pc' = "rosdeps" /\ asked' = world.packages)
    BY <1>2 DEF Start, Raise, command
  <2>2. calls = <<>> /\ Seen' = {} /\ Asked' = Asked
    BY <2>1 DEF Found, Seen, Asked
  <2>3. pc' = "rosdeps" => Searching'
    <3>1. pc' = "rosdeps" => ToSet(asked') = Asked
      BY <2>1 DEF Asked
    <3>2. QED
      BY <2>1, <2>2, <3>1 DEF Searching
  <2>4. QED
    BY <2>1, <2>3 DEF Found
<1>3. CASE GatherRosdeps
  <2>0. \A kind \in Kinds : blank[kind] \subseteq blank'[kind]
    BY BlankGrows
  <2>1. /\ pc = "rosdeps" /\ pc' = "rosdeps" /\ world' = world /\ Gathering("rosdeps")
        /\ blank["rosdeps"] \subseteq blank'["rosdeps"]
    BY <1>3, <2>0 DEF GatherRosdeps, command, Kinds
  <2>2. blank'["rosdeps"] = {} => Searching'
    BY <2>1, SearchStep DEF Found, Gatherings
  <2>3. QED
    BY <2>1, <2>2 DEF Found
<1>4. CASE Plan
  <2>1. pc = "rosdeps" /\ pc' = "next" /\ Idle /\ UNCHANGED <<world, cache, blank>>
    BY <1>4 DEF Plan, command, gathering, manifests
  <2>2. Rosdeps' = Rosdeps /\ Asked' = Asked
    BY <2>1, SameRosdeps DEF Asked
  <2>3. QED
    BY <2>1, <2>2, SearchEnds DEF Found
<1>5. CASE pc \in {"start", "rosdeps"} /\ Overflow
  BY <1>5 DEF Overflow, Raise, Found
<1>6. CASE UNCHANGED vars
  <2>1. UNCHANGED <<world, pc, known, cache, calls, asked, blank>>
    BY <1>6 DEF vars, command, gathering, manifests
  <2>2. /\ Seen' = Seen /\ Asked' = Asked /\ Rosdeps' = Rosdeps
        /\ (\A q : InProgress(q)' <=> InProgress(q)) /\ \A r : Saved(r)' <=> Saved(r)
    BY <2>1, SameRosdeps DEF Seen, Asked, InProgress, Saved, Open
  <2>3. Searching' <=> Searching
    BY <2>1, <2>2 DEF Searching
  <2>4. QED
    BY <2>1, <2>2, <2>3 DEF Found
<1>7. QED
  <2>1. CASE pc \in {"start", "rosdeps"}
    <3>1. ~(NoRule \/ Script \/ Choose \/ Depend \/ Execute \/ WrongSum \/ Display)
      BY <2>1, AtCall
    <3>2. ~(Begin \/ GatherDepends \/ Locate \/ Read \/ ReadHome \/ Looked \/ Listed \/ Finish)
      BY <2>1 DEF Begin, GatherDepends, Locate, Read, ReadHome, Looked, Listed, Finish
    <3>3. QED
      BY <1>2, <1>3, <1>4, <1>5, <1>6, <2>1, <3>1, <3>2 DEF Next
  <2>2. QED
    BY <1>1, <2>1

\* When rosdep comes to the rosdeps it has all those that the packages need, also
\* those below a circle, whatever order the packages and their dependencies have,
\* unless the stack was too short for a manifest (core.py:545, packages.py:678).
THEOREM EverythingIsFound == Spec => []AllFound
<1>1. Init => Found
  BY DEF Init, NothingGathered, Found, Kinds
<1>2. Places /\ Gatherings /\ Found /\ [Next]_vars => Found'
  BY FoundStep
<1>3. Found => AllFound
  BY DEF Found, AllFound, Asked
<1>4. QED
  BY <1>1, <1>2, <1>3, GatheringsInvariant, PTL DEF Spec

-----------------------------------------------------------------------------
(* The systems.                                                            *)

\* What roslib's classes find, each from a trace of its own but for the four
\* of lsb_release and the two of redhat-release.
RoslibAre(m, S) ==
  /\ DOMAIN S = 1 .. 12
  /\ S[1].name = "debian" /\ S[1].present = (m.lsb.os = "Debian")
  /\ S[2].name = "mandriva" /\ S[2].present = (m.lsb.os = "MandrivaLinux")
  /\ S[3].name = "ubuntu" /\ S[3].present = (m.lsb.os = "Ubuntu")
  /\ S[4].name = "mint" /\ S[4].present = (m.lsb.os = "LinuxMint")
  /\ S[5].name = "osx" /\ S[5].present = ("sw_vers" \in DOMAIN m.files)
  /\ S[6].name = "arch" /\ S[6].present = ("arch-release" \in DOMAIN m.files)
  /\ S[7].name = "opensuse" /\ S[7].present = (Word(m, "SuSE-brand", 1) = "openSUSE")
  /\ S[8].name = "fedora" /\ S[8].present = (/\ Word(m, "redhat-release", 1) = "Fedora"
                                                    /\ Word(m, "redhat-release", 2) = "release")
  /\ S[9].name = "rhel" /\ S[9].present = (Word(m, "redhat-release", 3) = "Enterprise")
  /\ S[10].name = "gentoo" /\ S[10].present = (/\ Word(m, "gentoo-release", 1) = "Gentoo"
                                                      /\ Word(m, "gentoo-release", 2) = "Base")
  /\ S[11].name = "cygwin" /\ S[11].present = ("cygwin1.dll" \in DOMAIN m.files)
  /\ S[12].name = "freebsd" /\ S[12].present = (m.uname[1] = "FreeBSD")

LEMMA RoslibAnswers ==
  ASSUME NEW m
  PROVE  RoslibAre(m, RoslibSystems(m))
<1> DEFINE S == RoslibSystems(m)
<1>1. /\ DOMAIN S = 1 .. 12
      /\ S[1] = Debian(m) /\ S[2] = Mandriva(m) /\ S[3] = Ubuntu(m) /\ S[4] = Mint(m)
      /\ S[5] = Osx(m) /\ S[6] = Arch(m) /\ S[7] = OpenSuse(m) /\ S[8] = Fedora(m)
      /\ S[9] = Rhel(m) /\ S[10] = Gentoo(m) /\ S[11] = Cygwin(m) /\ S[12] = FreeBSD(m)
  BY DEF RoslibSystems
<1>2. /\ Debian(m).name = "debian" /\ Debian(m).present = (m.lsb.os = "Debian")
      /\ Mandriva(m).name = "mandriva" /\ Mandriva(m).present = (m.lsb.os = "MandrivaLinux")
      /\ Ubuntu(m).name = "ubuntu" /\ Ubuntu(m).present = (m.lsb.os = "Ubuntu")
      /\ Mint(m).name = "mint" /\ Mint(m).present = (m.lsb.os = "LinuxMint")
  BY DEF Debian, Mandriva, Ubuntu, Mint, System
<1>3. Osx(m).name = "osx" /\ Osx(m).present = ("sw_vers" \in DOMAIN m.files)
  BY DEF Osx, System
<1>4. /\ Arch(m).name = "arch" /\ Arch(m).present = ("arch-release" \in DOMAIN m.files)
      /\ Cygwin(m).name = "cygwin" /\ Cygwin(m).present = ("cygwin1.dll" \in DOMAIN m.files)
      /\ FreeBSD(m).name = "freebsd" /\ FreeBSD(m).present = (m.uname[1] = "FreeBSD")
  BY DEF Arch, Cygwin, FreeBSD, System
<1>5. /\ OpenSuse(m).name = "opensuse" /\ OpenSuse(m).present = (Word(m, "SuSE-brand", 1) = "openSUSE")
      /\ Fedora(m).name = "fedora" /\ Fedora(m).present = (/\ Word(m, "redhat-release", 1) = "Fedora"
                                                           /\ Word(m, "redhat-release", 2) = "release")
      /\ Rhel(m).name = "rhel" /\ Rhel(m).present = (Word(m, "redhat-release", 3) = "Enterprise")
      /\ Gentoo(m).name = "gentoo" /\ Gentoo(m).present = (/\ Word(m, "gentoo-release", 1) = "Gentoo"
                                                           /\ Word(m, "gentoo-release", 2) = "Base")
  BY DEF OpenSuse, Fedora, Rhel, Gentoo, System
<1>6. QED
  BY <1>1, <1>2, <1>3, <1>4, <1>5 DEF RoslibAre

\* What else is wrong leaves the name alone.
KeepsName(s) == [s EXCEPT !.err = "AttributeError"].name = s.name

\* rosdep's classes agree with those of roslib that they derive from.
RosdepAre(S, R) ==
  /\ DOMAIN R = 1 .. 12
  /\ ~R[1].present
  /\ R[2].name = "debian" /\ R[2].present = S[1].present
  /\ R[3].name = "ubuntu" /\ R[3].present = S[3].present
  /\ R[4].name = "ubuntu" /\ R[4].present = S[4].present
  /\ R[5].name = "opensuse" /\ R[5].present = S[7].present
  /\ R[6].name = "fedora" /\ R[6].present = S[8].present
  /\ R[7].name = "rhel" /\ R[7].present = S[9].present
  /\ R[8].name = "arch" /\ R[8].present = S[6].present
  /\ R[9].name = "osx" /\ R[9].present = S[5].present
  /\ R[10].name = "gentoo" /\ R[10].present = S[10].present
  /\ R[11].name = "cygwin" /\ R[11].present = S[11].present
  /\ R[12].name = "freebsd" /\ R[12].present = S[12].present
  /\ \A k \in 1 .. 12 : KeepsName(R[k])

LEMMA RosdepAnswers ==
  ASSUME NEW m, m.test = <<>>
  PROVE  RosdepAre(RoslibSystems(m), RosdepSystems(m))
<1> DEFINE S == RoslibSystems(m)
           R == RosdepSystems(m)
<1>1. /\ DOMAIN R = 1 .. 12
      /\ R[1] = RosdepTestOS(m) /\ R[2] = RosdepDebian(m) /\ R[3] = RosdepUbuntu(m) /\ R[4] = RosdepMint(m)
      /\ R[5] = OpenSuse(m) /\ R[6] = With(Fedora(m), YumInstallers) /\ R[7] = With(Rhel(m), YumInstallers)
      /\ R[8] = RosdepArch(m) /\ R[9] = RosdepOsx(m)
      /\ R[10] = Gentoo(m) /\ R[11] = Cygwin(m) /\ R[12] = FreeBSD(m)
  BY DEF RosdepSystems
<1>2. /\ S[1] = Debian(m) /\ S[3] = Ubuntu(m) /\ S[4] = Mint(m) /\ S[5] = Osx(m) /\ S[6] = Arch(m)
      /\ S[7] = OpenSuse(m) /\ S[8] = Fedora(m) /\ S[9] = Rhel(m) /\ S[10] = Gentoo(m)
      /\ S[11] = Cygwin(m) /\ S[12] = FreeBSD(m)
  BY DEF RoslibSystems
<1>3. ~RosdepTestOS(m).present /\ KeepsName(RosdepTestOS(m))
  BY DEF RosdepTestOS, With, System, KeepsName
<1>4. /\ RosdepDebian(m).name = "debian" /\ RosdepDebian(m).present = Debian(m).present
      /\ KeepsName(RosdepDebian(m))
  BY DEF RosdepDebian, With, Debian, System, KeepsName
<1>5. /\ RosdepUbuntu(m).name = "ubuntu" /\ RosdepUbuntu(m).present = Ubuntu(m).present
      /\ KeepsName(RosdepUbuntu(m))
  BY DEF RosdepUbuntu, With, Ubuntu, System, KeepsName
<1>6. /\ RosdepMint(m).name = "ubuntu" /\ RosdepMint(m).present = Mint(m).present
      /\ KeepsName(RosdepMint(m))
  BY DEF RosdepMint, With, Mint, System, KeepsName
<1>7. /\ With(Fedora(m), YumInstallers).name = "fedora"
      /\ With(Fedora(m), YumInstallers).present = Fedora(m).present
      /\ KeepsName(With(Fedora(m), YumInstallers))
      /\ With(Rhel(m), YumInstallers).name = "rhel"
      /\ With(Rhel(m), YumInstallers).present = Rhel(m).present
      /\ KeepsName(With(Rhel(m), YumInstallers))
  BY DEF Fedora, Rhel, With, System, KeepsName
<1>8. /\ RosdepArch(m).name = "arch" /\ RosdepArch(m).present = Arch(m).present
      /\ KeepsName(RosdepArch(m))
  BY DEF RosdepArch, With, Arch, System, KeepsName
<1>9. /\ RosdepOsx(m).name = "osx" /\ RosdepOsx(m).present = Osx(m).present
      /\ KeepsName(RosdepOsx(m))
  BY DEF RosdepOsx, With, Osx, System, KeepsName
<1>10. /\ OpenSuse(m).name = "opensuse" /\ KeepsName(OpenSuse(m))
       /\ Gentoo(m).name = "gentoo" /\ KeepsName(Gentoo(m))
       /\ Cygwin(m).name = "cygwin" /\ KeepsName(Cygwin(m))
       /\ FreeBSD(m).name = "freebsd" /\ KeepsName(FreeBSD(m))
  BY DEF OpenSuse, Gentoo, Cygwin, FreeBSD, System, KeepsName
<1>11. \A k \in 1 .. 12 : KeepsName(R[k])
  BY <1>1, <1>3, <1>4, <1>5, <1>6, <1>7, <1>8, <1>9, <1>10
<1>12. DOMAIN R = 1 .. 12 /\ ~R[1].present
  BY <1>1, <1>3
<1>13. /\ R[2].name = "debian" /\ R[2].present = S[1].present
       /\ R[3].name = "ubuntu" /\ R[3].present = S[3].present
       /\ R[4].name = "ubuntu" /\ R[4].present = S[4].present
  BY <1>1, <1>2, <1>4, <1>5, <1>6
<1>14. /\ R[5].name = "opensuse" /\ R[5].present = S[7].present
       /\ R[10].name = "gentoo" /\ R[10].present = S[10].present
       /\ R[11].name = "cygwin" /\ R[11].present = S[11].present
       /\ R[12].name = "freebsd" /\ R[12].present = S[12].present
  BY <1>1, <1>2, <1>10
<1>15. /\ R[6].name = "fedora" /\ R[6].present = S[8].present
       /\ R[7].name = "rhel" /\ R[7].present = S[9].present
  BY <1>1, <1>2, <1>7
<1>16. /\ R[8].name = "arch" /\ R[8].present = S[6].present
       /\ R[9].name = "osx" /\ R[9].present = S[5].present
  BY <1>1, <1>2, <1>8, <1>9
<1> HIDE DEF S, R
<1>17. RosdepAre(S, R)
  BY <1>11, <1>12, <1>13, <1>14, <1>15, <1>16 DEF RosdepAre
<1>18. QED
  BY <1>17 DEF S, R

\* Without an override the first class that finds its system is taken.
LEMMA DetectsFirst ==
  ASSUME NEW m, m.override = <<>>, NEW S, DOMAIN S = 1 .. 12, NEW i \in 1 .. 12, S[i].present,
         \A j \in 1 .. 12 : S[j].present => i <= j
  PROVE  DetectOs(S, m) = S[i]
<1> DEFINE F == {k \in DOMAIN S : S[k].present}
<1>1. {k \in DOMAIN S : Len(m.override) = 2 /\ S[k].name = m.override[1]} = {}
  OBVIOUS
<1>2. i \in F /\ \A j \in F : i <= j /\ j \in Int
  OBVIOUS
<1>3. Min(F) = i
  <2> HIDE DEF F
  <2>1. \A x \in F : (\A y \in F : x =< y) => x =< i /\ i <= x /\ x \in Int /\ i \in Int
    BY <1>2
  <2>2. Min(F) = CHOOSE x \in F : \A y \in F : x =< y
    BY DEF Min
  <2>3. \A x \in F : (\A y \in F : x =< y) => x = i
    BY <2>1
  <2>4. \A y \in F : i =< y
    BY <1>2
  <2>5. QED
    BY <1>2, <2>2, <2>3, <2>4
<1>4. F # {}
  BY <1>2
<1>5. QED
  BY <1>1, <1>3, <1>4 DEF DetectOs

LEMMA FirstFound ==
  ASSUME NEW S, \E j \in 1 .. 12 : S[j].present
  PROVE  \E i \in 1 .. 12 : S[i].present /\ \A j \in 1 .. 12 : S[j].present => i <= j
<1> DEFINE F == {k \in 1 .. 12 : S[k].present}
<1>1. F # {} /\ F \subseteq Nat
  OBVIOUS
<1>2. \E i \in F : \A j \in F : i <= j
  <2> HIDE DEF F
  <2>1. QED
    BY <1>1, Least
<1>3. QED
  BY <1>2

LEMMA DetectsNone ==
  ASSUME NEW m, m.override = <<>>, NEW S, DOMAIN S = 1 .. 12, \A j \in 1 .. 12 : ~S[j].present
  PROVE  DetectOs(S, m).name = "none" /\ KeepsName(DetectOs(S, m))
<1>1. {k \in DOMAIN S : Len(m.override) = 2 /\ S[k].name = m.override[1]} = {}
  BY DEF DetectOs
<1>2. {k \in DOMAIN S : S[k].present} = {}
  OBVIOUS
<1>3. DetectOs(S, m) = [System("none", FALSE, "no version") EXCEPT !.err = "OSDetectException"]
  BY <1>1, <1>2 DEF DetectOs
<1>4. QED
  BY <1>3 DEF System, KeepsName

\* What two lists of classes say if the i-th and the k-th are the first that find
\* their system
Agree(S, R, i, k) ==
  /\ S[i].name \notin {"mint", "mandriva", "arch", "osx"} => R[k].name = S[i].name
  /\ S[i].name = "mint" => R[k].name = "ubuntu"
  /\ S[i].name \in {"arch", "osx"} /\ R[k].name # S[i].name =>
       \E j \in 1 .. 12 : j # i /\ S[j].present

\* The lists have the same classes in different orders.
LEMMA Orders ==
  ASSUME NEW m, NEW S, NEW R, RoslibAre(m, S), RosdepAre(S, R),
         NEW i \in 1 .. 12, S[i].present, \A j \in 1 .. 12 : S[j].present => i <= j,
         NEW k \in 1 .. 12, R[k].present, \A j \in 1 .. 12 : R[j].present => k <= j
  PROVE  Agree(S, R, i, k)
<1> DEFINE s(j) == S[j].present
           r(j) == R[j].present
<1>1. /\ ~r(1) /\ r(2) = s(1) /\ r(3) = s(3) /\ r(4) = s(4) /\ r(5) = s(7) /\ r(6) = s(8)
      /\ r(7) = s(9) /\ r(8) = s(6) /\ r(9) = s(5) /\ r(10) = s(10) /\ r(11) = s(11) /\ r(12) = s(12)
  BY DEF RosdepAre
<1>2. s(i) /\ r(k) /\ (\A j \in 1 .. 12 : s(j) => i <= j) /\ (\A j \in 1 .. 12 : r(j) => k <= j)
  OBVIOUS
<1> HIDE DEF s, r
<1>3. ASSUME i = 1 PROVE k = 2
  BY <1>1, <1>2, <1>3
<1>4. ASSUME i = 3 PROVE k = 3
  BY <1>1, <1>2, <1>4
<1>5. ASSUME i = 4 PROVE k = 4
  BY <1>1, <1>2, <1>5
<1>6. ASSUME i = 7 PROVE k = 5
  BY <1>1, <1>2, <1>6
<1>7. ASSUME i = 8 PROVE k = 6
  BY <1>1, <1>2, <1>7
<1>8. ASSUME i = 9 PROVE k = 7
  BY <1>1, <1>2, <1>8
<1>9. ASSUME i = 10 PROVE k = 10
  BY <1>1, <1>2, <1>9
<1>10. ASSUME i = 11 PROVE k = 11
  BY <1>1, <1>2, <1>10
<1>11. ASSUME i = 12 PROVE k = 12
  BY <1>1, <1>2, <1>11
<1>12. ASSUME i \in {5, 6} PROVE k \in {8, 9} \/ \E j \in 1 .. 12 : j # i /\ s(j)
  <2>1. \A j \in {7, 8, 9} : j # i
    BY <1>12
  <2>2. k \in {5, 6, 7, 8, 9}
    BY <1>1, <1>2, <1>12
  <2>3. QED
    BY <1>1, <1>2, <2>1, <2>2
<1>13. ASSUME i = 5 PROVE k = 9 \/ \E j \in 1 .. 12 : j # i /\ s(j)
  BY <1>1, <1>2, <1>12, <1>13
<1>14. ASSUME i = 6 PROVE k = 8 \/ \E j \in 1 .. 12 : j # i /\ s(j)
  BY <1>1, <1>2, <1>12, <1>14
<1>15. i \in {1, 3, 4} => R[k].name = IF i = 1 THEN "debian" ELSE "ubuntu"
  BY <1>3, <1>4, <1>5 DEF RosdepAre
<1>16. i \in {7, 8, 9, 10, 11, 12} => R[k].name = S[i].name
  BY <1>6, <1>7, <1>8, <1>9, <1>10, <1>11 DEF RosdepAre, RoslibAre
<1>17. i \in {5, 6} => R[k].name = S[i].name \/ \E j \in 1 .. 12 : j # i /\ S[j].present
  BY <1>13, <1>14 DEF RosdepAre, RoslibAre, s
<1>18. /\ S[1].name = "debian" /\ S[2].name = "mandriva" /\ S[3].name = "ubuntu" /\ S[4].name = "mint"
      /\ S[5].name = "osx" /\ S[6].name = "arch"
      /\ \A j \in 7 .. 12 : S[j].name \notin {"mint", "mandriva", "arch", "osx"}
  BY DEF RoslibAre
<1>19. CASE i <= 4
  BY <1>15, <1>18, <1>19 DEF Agree
<1>20. CASE i \in {5, 6}
  BY <1>17, <1>18, <1>20 DEF Agree
<1>21. CASE i \in 7 .. 12
  BY <1>16, <1>18, <1>21 DEF Agree
<1>22. QED
  BY <1>19, <1>20, <1>21

LEMMA SystemsAgree ==
  ASSUME Places
  PROVE  OneSystem
<1> DEFINE m == world.machine
           S == RoslibSystems(m)
           R == RosdepSystems(m)
<1>1. PICK w \in Worlds : world = Detected(w)
  BY DEF Places
<1>2. m = w.machine /\ world.os = RosdepDetect(m).name
  BY <1>1, WorldsAssumption DEF Detected
<1> SUFFICES ASSUME m.test = <<>>, m.override = <<>>
             PROVE  LET found == DetectOs(S, m).name
                    IN /\ found \notin {"mint", "mandriva", "arch", "osx"} => world.os = found
                       /\ found = "mint" => world.os = "ubuntu"
                       /\ found \in {"arch", "osx"} /\ world.os # found =>
                            \E i, j \in DOMAIN S : i # j /\ S[i].present /\ S[j].present
  BY DEF OneSystem
<1>3. RoslibAre(m, S) /\ DOMAIN S = 1 .. 12
  <2>1. RoslibAre(m, S)
    BY RoslibAnswers
  <2>2. QED
    BY <2>1 DEF RoslibAre
<1>4. RosdepAre(S, R) /\ DOMAIN R = 1 .. 12
  <2>1. RosdepAre(S, R)
    BY RosdepAnswers
  <2>2. QED
    BY <2>1 DEF RosdepAre
<1>5. KeepsName(DetectOs(R, m)) => world.os = DetectOs(R, m).name
  BY <1>2 DEF RosdepDetect, KeepsName
<1> HIDE DEF m, S, R
<1>6. CASE \E k \in 1 .. 12 : R[k].present
  <2>1. PICK k \in 1 .. 12 : R[k].present /\ \A j \in 1 .. 12 : R[j].present => k <= j
    BY <1>6, FirstFound
  <2>2. DetectOs(R, m) = R[k] /\ KeepsName(R[k])
    BY <1>4, <2>1, DetectsFirst DEF RosdepAre
  <2>3. \E j \in 1 .. 12 : S[j].present
    BY <1>4, <2>1 DEF RosdepAre
  <2>4. PICK i \in 1 .. 12 : S[i].present /\ \A j \in 1 .. 12 : S[j].present => i <= j
    BY <2>3, FirstFound
  <2>5. DetectOs(S, m) = S[i]
    BY <1>3, <2>4, DetectsFirst
  <2>6. Agree(S, R, i, k)
    BY <1>3, <1>4, <2>1, <2>4, Orders
  <2>7. world.os = R[k].name
    BY <1>5, <2>2
  <2>8. QED
    BY <1>3, <2>4, <2>5, <2>6, <2>7 DEF Agree
<1>7. CASE \A k \in 1 .. 12 : ~R[k].present
  <2>1. world.os = "none"
    BY <1>4, <1>5, <1>7, DetectsNone
  <2>2. CASE S[2].present
    <3>1. \A j \in 1 .. 12 : S[j].present => 2 <= j
      BY <1>4, <1>7 DEF RosdepAre
    <3>2. DetectOs(S, m) = S[2]
      BY <1>3, <2>2, <3>1, DetectsFirst
    <3>3. QED
      BY <1>3, <3>2 DEF RoslibAre
  <2>3. CASE ~S[2].present
    <3>1. \A j \in 1 .. 12 : ~S[j].present
      BY <1>4, <1>7, <2>3 DEF RosdepAre
    <3>2. DetectOs(S, m).name = "none"
      BY <1>3, <3>1, DetectsNone
    <3>3. QED
      BY <2>1, <3>2
  <2>4. QED
    BY <2>2, <2>3
<1>8. QED
  BY <1>6, <1>7

\* Whatever files there are on the machine, rosdep takes it for what roslib takes
\* it, up to Mint and Mandriva, although the two ask their classes in different
\* orders (os_detect.py:493, core.py:338); for Arch and OS X only if no other class
\* claims the machine too.
THEOREM SystemsAreOne == Spec => []OneSystem
  BY GatheringsInvariant, SystemsAgree, PTL
=============================================================================
