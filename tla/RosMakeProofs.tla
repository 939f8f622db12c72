---------------------------- MODULE RosMakeProofs ----------------------------
(***************************************************************************)
(* Proofs about RosMake: whatever the packages, their dependencies and the *)
(* command lines, packages are ordered behind their dependencies, the exit *)
(* status and the files of failures are truthful, and only what has passed *)
(* is marked.                                                              *)
(***************************************************************************)
EXTENDS RosMake, TLAPS, SequenceTheorems, FiniteSetTheorems, WellFoundedInduction

Frame == [pkg : Package, rest : SUBSET Package]

\* Until the packages are known nothing is ordered.
NotOrdered ==
  /\ pc \in {"start", "rosdep"} => build_list = <<>> /\ stack = <<>>
  /\ pc = "rosdep" => todo = Required
  /\ pc = "unmark" => options.unmark_installed

\* The packages of gone do not exist, and their dependencies are dealt with.
DealtWith(gone) == \A v \in gone : Deps1[v] \subseteq Elements(build_list) \cup gone

\* A dependency a call of build_or_recurse has dealt with is in the list, in
\* gone, or the package of the call that is in progress for it.
Calls(gone) ==
  \A i \in 1 .. Len(stack) :
    /\ stack[i].pkg \notin Elements(build_list)
    /\ stack[i].rest \subseteq Deps1[stack[i].pkg]
    /\ i > 1 => stack[i - 1].pkg \in Deps1[stack[i].pkg]
    /\ \A d \in Deps1[stack[i].pkg] \ stack[i].rest :
         d \in Elements(build_list) \cup gone \/ (i > 1 /\ stack[i - 1].pkg = d)

CallsOK == pc = "order" => \E gone \in SUBSET Lost : DealtWith(gone) /\ Calls(gone)

\* Every package asked for is still to be visited, being visited or listed.
Visited ==
  pc = "order" =>
    \A p \in Required :
      p \in todo \/ p \in Elements(build_list) \/ \E i \in 1 .. Len(stack) : stack[i].pkg = p

Kept ==
  pc = "select" =>
    options.specified_only /\ options.specified \subseteq Elements(unread) \cup Elements(new_list)

Listed ==
  pc \in {"clean", "prebuild", "build", "test", "mark"} => Asked \subseteq Elements(build_list)

BuiltOK == options.building => \A p \in Asked \cup Elements(build_list) : Good(options.target, p)
TestedOK == options.testing => \A p \in options.specified : Good("test", p)

\* What main knows after the phases.
PhasesTold ==
  /\ pc = "test" /\ passed[1] => BuiltOK
  /\ pc = "mark" /\ passed[1] /\ passed[2] => BuiltOK /\ TestedOK
  /\ pc = "mark" => todo \subseteq options.specified

\* A good end is one of a run that has removed marks or passed.
GoodEnd ==
  /\ outcome = "true" =>
       /\ pc \in {"shutdown", "poll", "exit"}
       /\ options.unmark_installed \/ (BuiltOK /\ TestedOK)
  /\ status # -1 => pc = "exit" /\ (status = 0 => outcome = "true")

\* Marks are set last.
MarksLast ==
  /\ nobuild \subseteq NoBuild \/ pc \in {"mark", "shutdown", "poll", "exit"}
  /\ MarkedWhenPassed

\* p exists, is not in S, and nothing that exists holds it back once S has
\* been built.
InPlace(p, S) == p \notin S \cup Lost /\ TrackedDeps[p] \subseteq S \cup Lost

OrderedBy(s, seen) == \A i \in DOMAIN s : InPlace(s[i], seen \cup Before(s, i))

NotSelected == pc \in {"start", "unmark", "rosdep", "order"} => new_list = <<>>

\* The list the phases work on has every package behind all its dependencies,
\* and --specified-only keeps it so.
EarlierFirst ==
  /\ pc = "select" =>
       options.specified_only /\ OrderedBy(new_list, {}) /\ OrderedBy(unread, Elements(new_list))
  /\ pc \in {"clean", "prebuild", "build", "test"} => OrderedBy(build_list, {})

\* Results are those of packages of the list; before the phases there are none.
ResultsListed ==
  /\ pc \in {"start", "unmark", "rosdep", "order", "select"} =>
       DOMAIN result = {} /\ passed = <<TRUE, TRUE>>
  /\ \A k \in DOMAIN result : DOMAIN result[k] \subseteq Elements(build_list)

\* FailureReported from the moment the phase that failed has ended.
FailureExplained ==
  interrupts = 0 /\ passed # <<TRUE, TRUE>> /\ options.target # "clean" =>
    \/ Reported("none") \cup Reported("test") # {}
    \/ \E p \in Elements(build_list) : Deps[p] \cap Lost # {}

IInv ==
  /\ TypeOK
  /\ NotOrdered
  /\ CallsOK
  /\ DepsFirst
  /\ Visited
  /\ Kept
  /\ Listed
  /\ PhasesTold
  /\ GoodEnd
  /\ MarksLast
  /\ NotSelected
  /\ EarlierFirst
  /\ ResultsListed
  /\ FailureExplained

-----------------------------------------------------------------------------
(* Sequences.                                                              *)

\* What a list holds after an append, and before its head is taken.
LEMMA ElementsOf ==
  /\ Elements(<<>>) = {}
  /\ \A S : \A s \in Seq(S) : \A x \in S :
       Append(s, x) \in Seq(S) /\ Elements(Append(s, x)) = Elements(s) \cup {x}
  /\ \A S : \A s \in Seq(S) :
       s # <<>> => /\ Head(s) \in S /\ Tail(s) \in Seq(S)
                   /\ Elements(s) = {Head(s)} \cup Elements(Tail(s))
<1>1. Elements(<<>>) = {}
  BY DEF Elements
<1>2. ASSUME NEW S, NEW s \in Seq(S), NEW x \in S
      PROVE  Append(s, x) \in Seq(S) /\ Elements(Append(s, x)) = Elements(s) \cup {x}
  <2>1. /\ Append(s, x) \in Seq(S)
        /\ Len(Append(s, x)) = Len(s) + 1
        /\ \A i \in 1 .. Len(s) : Append(s, x)[i] = s[i]
        /\ Append(s, x)[Len(s) + 1] = x
    BY AppendProperties
  <2>2. DOMAIN s = 1 .. Len(s) /\ DOMAIN Append(s, x) = 1 .. Len(s) + 1 /\ Len(s) \in Nat
    BY <2>1, LenProperties
  <2>3. ASSUME NEW i \in 1 .. Len(s) + 1 PROVE Append(s, x)[i] \in Elements(s) \cup {x}
    BY <2>1, <2>2 DEF Elements
  <2>4. ASSUME NEW y \in Elements(s) PROVE \E i \in 1 .. Len(s) + 1 : y = Append(s, x)[i]
    <3>1. PICK i \in 1 .. Len(s) : y = s[i]
      BY <2>2 DEF Elements
    <3>2. i \in 1 .. Len(s) + 1 /\ y = Append(s, x)[i]
      BY <3>1, <2>1, <2>2
    <3>3. QED
      BY <3>2
  <2>5. \E i \in 1 .. Len(s) + 1 : x = Append(s, x)[i]
    BY <2>1, <2>2
  <2>6. QED
    BY <2>1, <2>2, <2>3, <2>4, <2>5 DEF Elements
<1>3. ASSUME NEW S, NEW s \in Seq(S), s # <<>>
      PROVE  /\ Head(s) \in S /\ Tail(s) \in Seq(S)
             /\ Elements(s) = {Head(s)} \cup Elements(Tail(s))
  <2>1. /\ Head(s) \in S /\ Tail(s) \in Seq(S) /\ Len(Tail(s)) = Len(s) - 1
        /\ \A i \in 1 .. Len(Tail(s)) : Tail(s)[i] = s[i + 1]
        /\ Head(s) = s[1]
    BY <1>3, HeadTailProperties
  <2>2. Len(s) \in Nat /\ Len(s) # 0 /\ DOMAIN s = 1 .. Len(s) /\ DOMAIN Tail(s) = 1 .. Len(s) - 1
    BY <1>3, <2>1, LenProperties, EmptySeq
  <2>3. ASSUME NEW i \in 1 .. Len(s) PROVE s[i] \in {Head(s)} \cup Elements(Tail(s))
    <3>1. CASE i = 1
      BY <3>1, <2>1
    <3>2. CASE i # 1
      <4>1. i - 1 \in 1 .. Len(s) - 1 /\ Tail(s)[i - 1] = s[i]
        BY <3>2, <2>1, <2>2
      <4>2. QED
        BY <4>1, <2>2 DEF Elements
    <3>3. QED
      BY <3>1, <3>2
  <2>4. ASSUME NEW y \in Elements(Tail(s)) PROVE \E i \in 1 .. Len(s) : y = s[i]
    <3>1. PICK i \in 1 .. Len(s) - 1 : y = Tail(s)[i]
      BY <2>2 DEF Elements
    <3>2. i + 1 \in 1 .. Len(s) /\ y = s[i + 1]
      BY <3>1, <2>1, <2>2
    <3>3. QED
      BY <3>2
  <2>5. 1 \in 1 .. Len(s) /\ Head(s) = s[1]
    BY <2>1, <2>2
  <2>6. QED
    BY <2>1, <2>2, <2>3, <2>4, <2>5 DEF Elements
<1>4. QED
  BY <1>1, <1>2, <1>3

\* A sequence with one more element in front.
LEMMA Pushed ==
  ASSUME NEW S, NEW s \in Seq(S), NEW x \in S
  PROVE  /\ <<x>> \o s \in Seq(S)
         /\ Len(<<x>> \o s) = Len(s) + 1
         /\ (<<x>> \o s)[1] = x
         /\ \A i \in 1 .. Len(s) : (<<x>> \o s)[i + 1] = s[i]
<1>1. <<x>> \in Seq(S) /\ Len(<<x>>) = 1 /\ <<x>>[1] = x
  OBVIOUS
<1>2. Len(s) \in Nat
  BY LenProperties
<1>3. /\ <<x>> \o s \in Seq(S)
      /\ Len(<<x>> \o s) = Len(<<x>>) + Len(s)
      /\ \A i \in 1 .. Len(<<x>>) + Len(s) :
           (<<x>> \o s)[i] = IF i <= Len(<<x>>) THEN <<x>>[i] ELSE s[i - Len(<<x>>)]
  BY <1>1, ConcatProperties
<1>4. ASSUME NEW i \in 1 .. Len(s) PROVE (<<x>> \o s)[i + 1] = s[i]
  <2>1. i + 1 \in 1 .. 1 + Len(s) /\ ~(i + 1 <= 1) /\ (i + 1) - 1 = i
    BY <1>2
  <2>2. QED
    BY <1>1, <1>3, <2>1
<1>5. (<<x>> \o s)[1] = x
  <2>1. 1 \in 1 .. 1 + Len(s) /\ 1 <= 1
    BY <1>2
  <2>2. QED
    BY <1>1, <1>3, <2>1
<1>6. QED
  BY <1>1, <1>2, <1>3, <1>4, <1>5

-----------------------------------------------------------------------------
(* The calls of build_or_recurse.                                          *)

\* A call for a listed package leaves only the caller changed; another one
\* comes in front of it.
LEMMA VisitDependencyCases ==
  ASSUME TypeOK, VisitDependency
  PROVE  /\ pc = "order" /\ Len(stack) \in Nat \ {0} /\ build_list' = build_list
         /\ todo' = todo /\ new_list' = new_list /\ unread' = unread /\ options' = options
         /\ result' = result /\ passed' = passed /\ nobuild' = nobuild
         /\ done' = done /\ polls' = polls /\ status' = status /\ interrupts' = interrupts
         /\ \/ pc' = "shutdown" /\ outcome' = "raise" /\ running' = running /\ stack' = stack
            \/ /\ pc' = "order" /\ outcome' = outcome /\ running' = running
               /\ stack' \in Seq(Frame)
               /\ \E d \in stack[1].rest, h \in Frame :
                    /\ d \in Package
                    /\ h.pkg = stack[1].pkg /\ h.rest = stack[1].rest \ {d}
                    /\ \/ /\ d \in Elements(build_list)
                          /\ Len(stack') = Len(stack)
                          /\ stack'[1] = h
                          /\ \A i \in 2 .. Len(stack) : stack'[i] = stack[i]
                       \/ /\ d \notin Elements(build_list)
                          /\ Len(stack') = Len(stack) + 1
                          /\ stack'[1].pkg = d /\ stack'[1].rest = Deps1[d]
                          /\ stack'[2] = h
                          /\ \A i \in 2 .. Len(stack) : stack'[i + 1] = stack[i]
<1>1. /\ stack \in Seq(Frame) /\ stack # <<>> /\ pc = "order" /\ running \in BOOLEAN
      /\ options' = options /\ selection' = selection
      /\ result' = result /\ passed' = passed /\ nobuild' = nobuild
      /\ done' = done /\ polls' = polls /\ status' = status /\ interrupts' = interrupts
  BY DEF VisitDependency, TypeOK, Frame
<1>2. PICK d \in Head(stack).rest :
        LET calls == CallsOf(d)
        IN IF calls # <<>> /\ Len(stack) = RecursionLimit
           THEN Overflow
           ELSE /\ stack' = calls \o <<[Head(stack) EXCEPT !.rest = @ \ {d}]>> \o Tail(stack)
                /\ UNCHANGED <<todo, build_list, outcome, pc, running>>
  BY DEF VisitDependency
<1>3. /\ Len(stack) \in Nat \ {0} /\ Head(stack) = stack[1] /\ stack[1] \in Frame
      /\ Tail(stack) \in Seq(Frame) /\ Len(Tail(stack)) = Len(stack) - 1
      /\ \A i \in 1 .. Len(Tail(stack)) : Tail(stack)[i] = stack[i + 1]
  BY <1>1, LenProperties, EmptySeq, HeadTailProperties
<1> DEFINE h == [Head(stack) EXCEPT !.rest = @ \ {d}]
           c == [pkg |-> d, rest |-> Deps1[d]]
           t == <<h>> \o Tail(stack)
<1>4. /\ h \in Frame /\ h.pkg = stack[1].pkg /\ h.rest = stack[1].rest \ {d} /\ d \in Package
  BY <1>3 DEF Frame
<1>5. c \in Frame
  BY <1>4, RosMakeAssumption DEF Frame
<1>6. /\ t \in Seq(Frame) /\ Len(t) = Len(stack) /\ t[1] = h
      /\ \A i \in 2 .. Len(stack) : t[i] = stack[i]
  <2> HIDE DEF h
  <2>1. /\ t \in Seq(Frame) /\ Len(t) = Len(Tail(stack)) + 1 /\ t[1] = h
        /\ \A i \in 1 .. Len(Tail(stack)) : t[i + 1] = Tail(stack)[i]
    BY <1>3, <1>4, Pushed
  <2>2. ASSUME NEW i \in 2 .. Len(stack) PROVE t[i] = stack[i]
    <3>1. i - 1 \in 1 .. Len(Tail(stack)) /\ (i - 1) + 1 = i
      BY <1>3
    <3>2. QED
      BY <1>3, <2>1, <3>1
  <2>3. QED
    BY <1>3, <2>1, <2>2
<1>7. CASE CallsOf(d) # <<>> /\ Len(stack) = RecursionLimit
  BY <1>1, <1>2, <1>3, <1>7 DEF Overflow, Leave, selection
<1>8. CASE CallsOf(d) = <<>>
  <2>1. stack' = (<<>> \o <<h>>) \o Tail(stack)
    BY <1>2, <1>8
  <2>2. <<h>> \in Seq(Frame)
    BY <1>4
  <2>3. stack' = t
    BY <2>1, <2>2, ConcatEmptySeq
  <2>4. d \in Elements(build_list)
    BY <1>8 DEF CallsOf
  <2>5. pc' = pc /\ UNCHANGED <<todo, build_list, outcome, running>>
    BY <1>2, <1>8
  <2> HIDE DEF h, t
  <2>6. QED
    BY <1>1, <1>3, <1>4, <1>6, <2>3, <2>4, <2>5 DEF selection
<1>9. CASE CallsOf(d) # <<>> /\ Len(stack) # RecursionLimit
  <2>1. CallsOf(d) = <<c>> /\ d \notin Elements(build_list)
    BY <1>9 DEF CallsOf
  <2>2. <<h>> \in Seq(Frame) /\ <<c>> \in Seq(Frame)
    BY <1>4, <1>5
  <2>3. stack' = <<c>> \o t
    <3>1. stack' = (<<c>> \o <<h>>) \o Tail(stack)
      BY <1>2, <1>9, <2>1
    <3> HIDE DEF h, c
    <3>2. QED
      BY <3>1, <2>2, <1>3, ConcatAssociative
  <2>4. pc' = pc /\ UNCHANGED <<todo, build_list, outcome, running>>
    BY <1>2, <1>9
  <2>5. c.pkg = d /\ c.rest = Deps1[d]
    OBVIOUS
  <2> HIDE DEF h, c, t
  <2>6. /\ stack' \in Seq(Frame) /\ Len(stack') = Len(stack) + 1 /\ stack'[1] = c
        /\ \A i \in 1 .. Len(stack) : stack'[i + 1] = t[i]
    BY <1>5, <1>6, <2>3, Pushed
  <2>7. stack'[2] = h
    <3>1. 1 \in 1 .. Len(stack) /\ 1 + 1 = 2
      BY <1>3
    <3>2. QED
      BY <1>6, <2>6, <3>1
  <2>8. ASSUME NEW i \in 2 .. Len(stack) PROVE stack'[i + 1] = stack[i]
    <3>1. i \in 1 .. Len(stack)
      BY <1>3
    <3>2. QED
      BY <1>6, <2>6, <3>1
  <2>9. QED
    BY <1>1, <1>3, <1>4, <2>1, <2>4, <2>5, <2>6, <2>7, <2>8 DEF selection
<1>10. QED
  BY <1>7, <1>8, <1>9

\* A call that is done puts its package at the end of the list, if it is found.
LEMMA AppendCases ==
  ASSUME TypeOK, AppendPackage
  PROVE  /\ pc = "order" /\ Len(stack) \in Nat \ {0}
         /\ stack[1] \in Frame /\ stack[1].rest = {}
         /\ todo' = todo /\ new_list' = new_list /\ unread' = unread /\ options' = options
         /\ result' = result /\ passed' = passed /\ nobuild' = nobuild
         /\ done' = done /\ polls' = polls /\ status' = status /\ interrupts' = interrupts
         /\ \/ /\ pc' = "shutdown" /\ outcome' = "exit" /\ running' = running
               /\ stack' = stack /\ build_list' = build_list
            \/ /\ pc' = "order" /\ outcome' = outcome /\ running' = running
               /\ stack' \in Seq(Frame) /\ Len(stack') = Len(stack) - 1
               /\ \A i \in 1 .. Len(stack') : stack'[i] = stack[i + 1]
               /\ \/ stack[1].pkg \in Lost /\ build_list' = build_list
                  \/ stack[1].pkg \notin Lost /\ build_list' = Append(build_list, stack[1].pkg)
<1>1. stack \in Seq(Frame) /\ stack # <<>> /\ running \in BOOLEAN
  BY DEF AppendPackage, TypeOK, Frame
<1>2. /\ Len(stack) \in Nat \ {0} /\ Head(stack) = stack[1] /\ stack[1] \in Frame
      /\ Tail(stack) \in Seq(Frame) /\ Len(Tail(stack)) = Len(stack) - 1
      /\ \A i \in 1 .. Len(Tail(stack)) : Tail(stack)[i] = stack[i + 1]
  BY <1>1, LenProperties, EmptySeq, HeadTailProperties
<1>3. QED
  BY <1>1, <1>2 DEF AppendPackage, Leave, selection

-----------------------------------------------------------------------------
(* The types.                                                              *)

\* The results of a phase, and whether it passes.
LEMMA StoreTypes ==
  ASSUME TypeOK, NEW key \in Phases, NEW r, Store(key, r)
  PROVE  DOMAIN result' \subseteq Phases
  BY DEF TypeOK, Store

LEMMA CutTypes ==
  ASSUME TypeOK, NEW e, e.cut \in BOOLEAN, Cut(e)
  PROVE  interrupts' \in 0 .. MaxInterrupts
  BY RosMakeAssumption DEF TypeOK, Cut

\* What every outcome of a phase is.
LEMMA Ends ==
  ASSUME NEW queue, NEW depsOf, NEW tolerant, NEW prebuilt, NEW key,
         NEW e \in PhaseEnds(Phase(queue, depsOf, tolerant, prebuilt, key))
  PROVE  e.built \subseteq queue /\ e.failed \subseteq queue /\ e.cut \in BOOLEAN
BY DEF PhaseEnds, Outcomes, Phase

\* Every step keeps the types.
LEMMA TypeStep == TypeOK /\ [Next]_vars => TypeOK'
<1> SUFFICES ASSUME TypeOK, [Next]_vars PROVE TypeOK'
  OBVIOUS
<1>0. options \in Command
  BY RosMakeAssumption DEF TypeOK
<1>1. CASE Start
  <2>1. todo' \subseteq Package
    BY <1>0, <1>1 DEF Start, TypeOK, Required, Command
  <2>2. QED
    BY <1>1, <2>1 DEF Start, Leave, TypeOK, selection
<1>2. CASE Unmark
  BY <1>2 DEF Unmark, Leave, TypeOK, selection
<1>3. CASE Rosdep
  BY <1>3 DEF Rosdep, Leave, TypeOK, selection
<1>4. CASE Visit
  <2>1. PICK p \in todo : todo' = todo \ {p} /\ stack' = CallsOf(p)
    BY <1>4 DEF Visit
  <2>2. CallsOf(p) \in Seq(Frame)
    <3>1. [pkg |-> p, rest |-> Deps1[p]] \in Frame
      BY RosMakeAssumption DEF TypeOK, Frame
    <3>2. <<>> \in Seq(Frame) /\ <<[pkg |-> p, rest |-> Deps1[p]]>> \in Seq(Frame)
      BY <3>1
    <3>3. QED
      BY <3>2 DEF CallsOf
  <2>3. QED
    BY <1>4, <2>1, <2>2 DEF Visit, TypeOK, selection, printer, Frame
<1>5. CASE VisitDependency
  <2>1. stack' \in Seq(Frame)
    BY <1>5, VisitDependencyCases DEF TypeOK, Frame
  <2>2. pc' \in {"order", "shutdown"} /\ outcome' \in {outcome, "raise"} /\ running' = running
    BY <1>5, VisitDependencyCases
  <2>3. QED
    BY <1>5, <2>1, <2>2, VisitDependencyCases DEF TypeOK, Frame
<1>6. CASE AppendPackage
  <2>1. stack' \in Seq(Frame)
    BY <1>6, AppendCases DEF TypeOK, Frame
  <2>2. pc' \in {"order", "shutdown"} /\ outcome' \in {outcome, "exit"} /\ running' = running
    BY <1>6, AppendCases
  <2>3. build_list' \in Seq(Package)
    <3>1. build_list \in Seq(Package)
      BY DEF TypeOK
    <3>2. stack[1].pkg \in Package
      BY <1>6, AppendCases DEF Frame
    <3>3. Append(build_list, stack[1].pkg) \in Seq(Package)
      BY <3>1, <3>2, ElementsOf
    <3>4. build_list' \in {build_list, Append(build_list, stack[1].pkg)}
      BY <1>6, AppendCases
    <3>5. QED
      BY <3>1, <3>3, <3>4
  <2>4. QED
    BY <1>6, <2>1, <2>2, <2>3, AppendCases DEF TypeOK, Frame
<1>7. CASE Ordered
  BY <1>7 DEF Ordered, TypeOK, printer
<1>8. CASE Select
  <2>1. unread # <<>> => Head(unread) \in Package /\ Tail(unread) \in Seq(Package)
    BY ElementsOf DEF TypeOK
  <2>2. unread # <<>> => Append(new_list, Head(unread)) \in Seq(Package)
    BY <2>1, ElementsOf DEF TypeOK
  <2>3. QED
    BY <1>8, <2>1, <2>2 DEF Select, TypeOK, printer, selection
<1>9. CASE Clean
  <2>1. CASE options.pre_clean
    <3>1. PICK e \in PhaseEnds(Phase(Elements(build_list), NoDeps, TRUE, {}, "clean")) :
            /\ Cut(e)
            /\ Store("clean", Results("clean", e, {}))
      BY <1>9, <2>1 DEF Clean
    <3>2. e.cut \in BOOLEAN
      BY Ends
    <3>3. DOMAIN result' \subseteq Phases /\ interrupts' \in 0 .. MaxInterrupts
      BY <3>1, <3>2, StoreTypes, CutTypes DEF Phases, Targets
    <3>4. pc' \in {"prebuild", "shutdown"} /\ outcome' \in {outcome, "exit"} /\ running' \in BOOLEAN
      BY <1>9, <2>1 DEF Clean, Leave, TypeOK
    <3>5. QED
      BY <1>9, <3>3, <3>4 DEF Clean, TypeOK, selection
  <2>2. CASE ~options.pre_clean
    BY <1>9, <2>2 DEF Clean, TypeOK, selection
  <2>3. QED
    BY <2>1, <2>2
<1>10. CASE Prebuild
  <2>1. /\ pc' \in {"test", "build", "shutdown"} /\ outcome' \in {outcome, "exit", "none"}
        /\ running' \in BOOLEAN
    BY <1>10 DEF Prebuild, Leave, TypeOK, AssertPrebuildBuilt
  <2>2. QED
    BY <1>10, <2>1 DEF Prebuild, TypeOK, selection
<1>11. CASE Build
  <2>1. options.target \in Phases
    BY <1>0 DEF Command, Phases
  <2>2. PICK e \in PhaseEnds(Phase(Elements(build_list), TrackedDeps,
                                   options.robust \/ options.best_effort,
                                   Elements(build_list) \cap {Rospack}, options.target)) :
          /\ Cut(e)
          /\ DOMAIN result' = DOMAIN result \cup {"none", options.target}
          /\ \E r : passed' = <<Passes(Elements(build_list), e, r), TRUE>>
          /\ \/ Leave("exit", FALSE)
             \/ pc' = "test" /\ UNCHANGED <<outcome, running>>
    BY <1>11 DEF Build
  <2>3. interrupts' \in 0 .. MaxInterrupts
    <3>1. e.cut \in BOOLEAN
      BY Ends
    <3>2. QED
      BY <2>2, <3>1, CutTypes
  <2>4. passed' \in BOOLEAN \X BOOLEAN
    <3>1. PICK r : passed' = <<Passes(Elements(build_list), e, r), TRUE>>
      BY <2>2
    <3>2. Passes(Elements(build_list), e, r) \in BOOLEAN
      BY DEF Passes
    <3>3. QED
      BY <3>1, <3>2
  <2>5. DOMAIN result' \subseteq Phases
    BY <2>1, <2>2 DEF TypeOK, Phases, Targets
  <2>6. /\ pc' \in {"test", "shutdown"} /\ outcome' \in {outcome, "exit"}
        /\ running' \in BOOLEAN
    BY <2>2 DEF Leave, TypeOK
  <2>7. QED
    BY <1>11, <2>3, <2>4, <2>5, <2>6 DEF Build, TypeOK, selection
<1>12. CASE Test
  <2>1. CASE passed[1] /\ options.testing
    <3>1. PICK e \in PhaseEnds(Phase(options.specified, TestDeps, TRUE, {}, "test")) :
            /\ Cut(e)
            /\ Store("test", Results("test", e, {}))
            /\ passed' = [passed EXCEPT ![2] = Passes(options.specified, e, Results("test", e, {}))]
      BY <1>12, <2>1 DEF Test
    <3>2. e.cut \in BOOLEAN
      BY Ends
    <3>3. DOMAIN result' \subseteq Phases /\ interrupts' \in 0 .. MaxInterrupts
      BY <3>1, <3>2, StoreTypes, CutTypes DEF Phases, Targets
    <3>4. passed' \in BOOLEAN \X BOOLEAN
      <4>1. Passes(options.specified, e, Results("test", e, {})) \in BOOLEAN
        BY DEF Passes
      <4>2. passed \in BOOLEAN \X BOOLEAN
        BY DEF TypeOK
      <4>3. QED
        BY <3>1, <4>1, <4>2
    <3>5. options.specified \subseteq Package
      BY <1>0 DEF Command
    <3>6. QED
      BY <1>12, <3>3, <3>4, <3>5 DEF Test, TypeOK, selection, printer
  <2>2. CASE ~(passed[1] /\ options.testing)
    BY <1>0, <1>12, <2>2 DEF Test, TypeOK, selection, printer, Command
  <2>3. QED
    BY <2>1, <2>2
<1>13. CASE Mark
  BY <1>13 DEF Mark, Leave, TypeOK, selection
<1>14. CASE Finish
  BY <1>14 DEF Finish, Leave, TypeOK, selection
<1>15. CASE Interrupt
  BY <1>15, RosMakeAssumption DEF Interrupt, Leave, TypeOK, selection
<1>16. CASE DrawEnds
  BY <1>16 DEF DrawEnds, TypeOK, mainVars, selection
<1>17. CASE Shutdown
  BY <1>17 DEF Shutdown, TypeOK, mainVars, selection
<1>18. CASE Poll
  BY <1>18, RosMakeAssumption DEF Poll, TypeOK, selection
<1>19. CASE Exit
  BY <1>19 DEF Exit, TypeOK, mainVars, selection, printer
<1>20. CASE UNCHANGED vars
  BY <1>20 DEF vars, TypeOK, mainVars, selection, printer
<1>21. QED
  BY <1>1, <1>2, <1>3, <1>4, <1>5, <1>6, <1>7, <1>8, <1>9, <1>10, <1>11, <1>12, <1>13,
     <1>14, <1>15, <1>16, <1>17, <1>18, <1>19, <1>20 DEF Next, Main

-----------------------------------------------------------------------------
(* The order.                                                              *)

\* A call of build_or_recurse for a dependency keeps the order.
LEMMA OrderVisitDependency ==
  ASSUME IInv, VisitDependency, pc' = "order"
  PROVE  CallsOK' /\ DepsFirst' /\ Visited'
<1>1. /\ TypeOK /\ pc = "order" /\ build_list' = build_list /\ todo' = todo /\ options' = options
      /\ Len(stack) \in Nat \ {0} /\ stack' \in Seq(Frame)
  BY VisitDependencyCases DEF IInv
<1>2. PICK d \in stack[1].rest, h \in Frame :
        /\ d \in Package
        /\ h.pkg = stack[1].pkg /\ h.rest = stack[1].rest \ {d}
        /\ \/ /\ d \in Elements(build_list)
              /\ Len(stack') = Len(stack)
              /\ stack'[1] = h
              /\ \A i \in 2 .. Len(stack) : stack'[i] = stack[i]
           \/ /\ d \notin Elements(build_list)
              /\ Len(stack') = Len(stack) + 1
              /\ stack'[1].pkg = d /\ stack'[1].rest = Deps1[d]
              /\ stack'[2] = h
              /\ \A i \in 2 .. Len(stack) : stack'[i + 1] = stack[i]
  BY <1>1, VisitDependencyCases
<1>3. PICK gone \in SUBSET Lost : DealtWith(gone) /\ Calls(gone)
  BY <1>1 DEF IInv, CallsOK
<1>d. DealtWith(gone)'
  BY <1>1, <1>3 DEF DealtWith
<1> DEFINE F == Elements(build_list) \cup gone
<1>c. \A i \in 1 .. Len(stack) :
        /\ stack[i].pkg \notin Elements(build_list)
        /\ stack[i].rest \subseteq Deps1[stack[i].pkg]
        /\ i > 1 => stack[i - 1].pkg \in Deps1[stack[i].pkg]
        /\ \A x \in Deps1[stack[i].pkg] \ stack[i].rest :
             x \in F \/ (i > 1 /\ stack[i - 1].pkg = x)
  BY <1>3 DEF Calls
<1>e. 1 \in 1 .. Len(stack)
  BY <1>1
<1> HIDE DEF F
<1>4. \A p \in Required :
        p \in todo \/ p \in Elements(build_list) \/ \E i \in 1 .. Len(stack) : stack[i].pkg = p
  BY <1>1 DEF IInv, Visited
<1>5. CASE /\ d \in Elements(build_list) /\ Len(stack') = Len(stack) /\ stack'[1] = h
           /\ \A i \in 2 .. Len(stack) : stack'[i] = stack[i]
  <2>1. ASSUME NEW i \in 1 .. Len(stack)
        PROVE  /\ stack'[i].pkg = stack[i].pkg
               /\ stack'[i].rest \subseteq stack[i].rest
               /\ stack[i].rest \subseteq stack'[i].rest \cup F
    <3>1. i = 1 \/ i \in 2 .. Len(stack)
      BY <1>1
    <3>2. d \in F
      BY <1>5 DEF F
    <3>3. QED
      BY <1>2, <1>5, <3>1, <3>2
  <2>2. ASSUME NEW i \in 1 .. Len(stack)
        PROVE  /\ stack'[i].pkg \notin Elements(build_list)
               /\ stack'[i].rest \subseteq Deps1[stack'[i].pkg]
               /\ i > 1 => stack'[i - 1].pkg \in Deps1[stack'[i].pkg]
               /\ \A x \in Deps1[stack'[i].pkg] \ stack'[i].rest :
                    x \in F \/ (i > 1 /\ stack'[i - 1].pkg = x)
    <3>1. i > 1 => i - 1 \in 1 .. Len(stack)
      BY <1>1
    <3>2. QED
      BY <1>c, <2>1, <3>1
  <2>3. CallsOK'
    BY <1>1, <1>d, <1>5, <2>2 DEF CallsOK, Calls, F
  <2>4. Visited'
    BY <1>1, <1>4, <1>5, <2>1 DEF Visited, Required
  <2>5. QED
    BY <1>1, <2>3, <2>4 DEF IInv, DepsFirst
<1>6. CASE /\ d \notin Elements(build_list) /\ Len(stack') = Len(stack) + 1
           /\ stack'[1].pkg = d /\ stack'[1].rest = Deps1[d] /\ stack'[2] = h
           /\ \A i \in 2 .. Len(stack) : stack'[i + 1] = stack[i]
  <2>1. ASSUME NEW i \in 1 .. Len(stack)
        PROVE  /\ stack'[i + 1].pkg = stack[i].pkg
               /\ stack'[i + 1].rest \subseteq stack[i].rest
               /\ stack[i].rest \subseteq stack'[i + 1].rest \cup (IF i = 1 THEN {d} ELSE {})
    <3>1. i = 1 \/ i \in 2 .. Len(stack)
      BY <1>1
    <3>2. QED
      BY <1>2, <1>6, <3>1
  <2>2. ASSUME NEW i \in 1 .. Len(stack')
        PROVE  /\ stack'[i].pkg \notin Elements(build_list)
               /\ stack'[i].rest \subseteq Deps1[stack'[i].pkg]
               /\ i > 1 => stack'[i - 1].pkg \in Deps1[stack'[i].pkg]
               /\ \A x \in Deps1[stack'[i].pkg] \ stack'[i].rest :
                    x \in F \/ (i > 1 /\ stack'[i - 1].pkg = x)
    <3>1. CASE i = 1
      BY <1>6, <3>1
    <3>2. CASE i # 1
      <4>1. PICK j \in 1 .. Len(stack) : i = j + 1
        <5>1. i - 1 \in 1 .. Len(stack) /\ i = (i - 1) + 1
          BY <1>1, <1>6, <3>2
        <5>2. QED
          BY <5>1
      <4>2. i - 1 = j /\ i > 1
        BY <4>1
      <4>3. /\ stack'[i].pkg = stack[j].pkg /\ stack'[i].rest \subseteq stack[j].rest
            /\ stack[j].rest \subseteq stack'[i].rest \cup (IF j = 1 THEN {d} ELSE {})
        BY <2>1, <4>1
      <4>4. CASE j = 1
        <5>1. stack'[i - 1].pkg = d /\ d \in stack[j].rest
          BY <1>2, <1>6, <4>2, <4>4
        <5>2. QED
          BY <1>c, <4>2, <4>3, <4>4, <5>1
      <4>5. CASE j # 1
        <5>1. j - 1 \in 1 .. Len(stack) /\ (j - 1) + 1 = j /\ j > 1
          BY <1>1, <4>5
        <5>2. stack'[i - 1].pkg = stack[j - 1].pkg
          BY <2>1, <4>2, <5>1
        <5>3. QED
          BY <1>c, <4>2, <4>3, <4>5, <5>1, <5>2
      <4>6. QED
        BY <4>4, <4>5
    <3>3. QED
      BY <3>1, <3>2
  <2>3. CallsOK'
    BY <1>1, <1>d, <2>2 DEF CallsOK, Calls, F
  <2>4. ASSUME NEW i \in 1 .. Len(stack) PROVE \E j \in 1 .. Len(stack') : stack'[j].pkg = stack[i].pkg
    <3>1. i + 1 \in 1 .. Len(stack')
      BY <1>1, <1>6
    <3>2. QED
      BY <2>1, <3>1
  <2>5. Visited'
    BY <1>1, <1>4, <2>4 DEF Visited, Required
  <2>6. QED
    BY <1>1, <2>3, <2>5 DEF IInv, DepsFirst
<1>7. QED
  BY <1>2, <1>5, <1>6

\* A set of natural numbers that is not empty has a least element.
LEMMA Least ==
  ASSUME NEW T, T \subseteq Nat, T # {}
  PROVE  \E x \in T : \A y \in T : x <= y
<1> DEFINE U == {0 .. x : x \in T}
<1>1. U \subseteq FiniteSubsetsOf(Nat)
  <2>1. ASSUME NEW x \in T PROVE 0 .. x \subseteq Nat /\ IsFiniteSet(0 .. x)
    BY FS_Interval
  <2>2. QED
    BY <2>1 DEF FiniteSubsetsOf
<1>2. U # {}
  OBVIOUS
<1>3. PICK u \in U : \A v \in U : <<v, u>> \notin StrictSubsetOrdering(Nat)
  <2> HIDE DEF U
  <2>1. IsWellFoundedOn(StrictSubsetOrdering(Nat), FiniteSubsetsOf(Nat))
    BY FS_StrictSubsetOrderingWellFounded
  <2>2. QED
    BY <1>1, <1>2, <2>1, WFMin
<1>4. PICK x \in T : u = 0 .. x
  OBVIOUS
<1>5. ASSUME NEW y \in T, y < x PROVE FALSE
  <2>1. 0 .. y \subseteq 0 .. x /\ 0 .. y # 0 .. x /\ 0 .. y \subseteq Nat /\ 0 .. x \subseteq Nat
    <3>1. x \in 0 .. x /\ x \notin 0 .. y
      BY <1>5
    <3>2. QED
      BY <1>5, <3>1
  <2>2. <<0 .. y, 0 .. x>> \in StrictSubsetOrdering(Nat)
    BY <2>1 DEF StrictSubsetOrdering
  <2>3. QED
    BY <1>3, <1>4, <2>2
<1>6. QED
  BY <1>5

\* When all direct dependencies of the innermost call are dealt with, no other
\* call in progress is for its package.
LEMMA CalledOnce ==
  ASSUME NEW gone \in SUBSET Lost, DealtWith(gone), Calls(gone), Len(stack) \in Nat \ {0},
         stack[1].pkg \notin Lost,
         Deps1[stack[1].pkg] \subseteq Elements(build_list) \cup gone,
         NEW j \in 2 .. Len(stack)
  PROVE  stack[j].pkg # stack[1].pkg
<1> SUFFICES ASSUME stack[j].pkg = stack[1].pkg PROVE FALSE
  OBVIOUS
<1>1. \A i \in 1 .. Len(stack) :
        /\ stack[i].pkg \notin Elements(build_list)
        /\ i > 1 => stack[i - 1].pkg \in Deps1[stack[i].pkg]
  BY DEF Calls
\* How far above j the calls are that are not for packages of gone.
<1> DEFINE D == {n \in 1 .. j - 1 : stack[j - n].pkg \notin gone}
<1>2. D # {} /\ D \subseteq Nat
  <2>1. j - 1 \in 1 .. j - 1 /\ j - (j - 1) = 1
    OBVIOUS
  <2>2. j - 1 \in D
    BY <2>1
  <2>3. 1 .. j - 1 \subseteq Nat
    OBVIOUS
  <2>4. D \subseteq 1 .. j - 1
    OBVIOUS
  <2> HIDE DEF D
  <2>5. QED
    BY <2>2, <2>3, <2>4
<1>3. PICK n \in D : \A k \in D : n <= k
  <2> HIDE DEF D
  <2>1. QED
    BY <1>2, Least
<1>4. /\ j - n \in 1 .. Len(stack) /\ j - (n - 1) \in 1 .. Len(stack)
      /\ j - (n - 1) > 1 /\ (j - (n - 1)) - 1 = j - n
  OBVIOUS
<1>5. stack[j - n].pkg \in Deps1[stack[j - (n - 1)].pkg]
  BY <1>1, <1>4
<1>6. Deps1[stack[j - (n - 1)].pkg] \subseteq Elements(build_list) \cup gone
  <2>1. CASE n = 1
    BY <2>1
  <2>2. CASE n # 1
    <3>1. n - 1 \in 1 .. j - 1 /\ ~(n <= n - 1)
      BY <2>2
    <3>2. n - 1 \notin D
      BY <1>3, <3>1
    <3>3. stack[j - (n - 1)].pkg \in gone
      BY <3>1, <3>2
    <3>4. QED
      BY <3>3 DEF DealtWith
  <2>3. QED
    BY <2>1, <2>2
<1>7. QED
  BY <1>1, <1>4, <1>5, <1>6

\* The order is one of the list alone.
LEMMA SameOrder ==
  ASSUME pc = "order", build_list' = build_list, DepsFirst
  PROVE  DepsFirst'
<1>1. ASSUME NEW i \in DOMAIN build_list
      PROVE  /\ Behind(build_list[i], Before(build_list, i))
             /\ build_list[i] \notin Before(build_list, i) \cup Lost
  BY DEF DepsFirst
<1>2. QED
  BY <1>1 DEF DepsFirst, Behind, Before

\* The package of the call that is done is behind its dependencies.
LEMMA OrderAppend ==
  ASSUME IInv, AppendPackage, pc' = "order"
  PROVE  CallsOK' /\ DepsFirst' /\ Visited'
<1>1. /\ TypeOK /\ pc = "order" /\ todo' = todo /\ options' = options
      /\ Len(stack) \in Nat \ {0} /\ stack[1] \in Frame /\ stack[1].rest = {}
      /\ stack' \in Seq(Frame) /\ Len(stack') = Len(stack) - 1
      /\ \A i \in 1 .. Len(stack') : stack'[i] = stack[i + 1]
  BY AppendCases DEF IInv
<1> DEFINE p == stack[1].pkg
<1>2. \/ p \in Lost /\ build_list' = build_list
      \/ p \notin Lost /\ build_list' = Append(build_list, p)
  BY <1>1, AppendCases
<1>3. p \in Package /\ build_list \in Seq(Package)
  BY <1>1 DEF TypeOK, Frame
<1>4. /\ Elements(build_list) \subseteq Elements(build_list')
      /\ Elements(build_list') = Elements(build_list) \cup ({p} \ Lost)
  <2>1. Elements(Append(build_list, p)) = Elements(build_list) \cup {p}
    BY <1>3, ElementsOf
  <2>2. QED
    BY <1>2, <2>1
<1>5. PICK gone \in SUBSET Lost : DealtWith(gone) /\ Calls(gone)
  BY <1>1 DEF IInv, CallsOK
<1> DEFINE F == Elements(build_list) \cup gone
           gone2 == gone \cup ({p} \cap Lost)
<1>c. \A i \in 1 .. Len(stack) :
        /\ stack[i].pkg \notin Elements(build_list)
        /\ stack[i].rest \subseteq Deps1[stack[i].pkg]
        /\ i > 1 => stack[i - 1].pkg \in Deps1[stack[i].pkg]
        /\ \A x \in Deps1[stack[i].pkg] \ stack[i].rest :
             x \in F \/ (i > 1 /\ stack[i - 1].pkg = x)
  BY <1>5 DEF Calls
<1>e. 1 \in 1 .. Len(stack) /\ ~(1 > 1)
  BY <1>1
<1>f. Deps1[p] \subseteq F
  BY <1>1, <1>c, <1>e
<1>g. /\ Elements(build_list') \cup gone2 = F \cup {p}
      /\ gone2 \in SUBSET Lost
  BY <1>4
<1>h. \A v \in gone : Deps1[v] \subseteq F
  BY <1>5 DEF DealtWith
<1>o. p \notin Lost => \A j \in 2 .. Len(stack) : stack[j].pkg # p
  BY <1>1, <1>5, <1>f, CalledOnce
<1>6. CallsOK'
  <2>1. ASSUME NEW i \in 1 .. Len(stack')
        PROVE  /\ stack'[i].pkg \notin Elements(build_list')
               /\ stack'[i].rest \subseteq Deps1[stack'[i].pkg]
               /\ i > 1 => stack'[i - 1].pkg \in Deps1[stack'[i].pkg]
               /\ \A x \in Deps1[stack'[i].pkg] \ stack'[i].rest :
                    x \in F \cup {p} \/ (i > 1 /\ stack'[i - 1].pkg = x)
    <3>1. i + 1 \in 2 .. Len(stack) /\ i + 1 \in 1 .. Len(stack) /\ i + 1 > 1 /\ (i + 1) - 1 = i
      BY <1>1
    <3>2. stack'[i] = stack[i + 1]
      BY <1>1
    <3>3. stack'[i].pkg \notin Elements(build_list')
      BY <1>4, <1>c, <1>o, <3>1, <3>2
    <3>4. i > 1 => stack'[i - 1] = stack[i]
      <4>1. i > 1 => i - 1 \in 1 .. Len(stack') /\ (i - 1) + 1 = i
        BY <1>1
      <4>2. QED
        BY <1>1, <4>1
    <3>5. i = 1 \/ i > 1
      OBVIOUS
    <3> HIDE DEF F
    <3>6. QED
      BY <1>c, <3>1, <3>2, <3>3, <3>4, <3>5
  <2>2. \A v \in gone2 : Deps1[v] \subseteq F \cup {p}
    BY <1>f, <1>h
  <2> HIDE DEF F, gone2, p
  <2>3. PICK g \in SUBSET Lost : g = gone2
    BY <1>g
  <2>4. DealtWith(g)'
    BY <1>g, <2>2, <2>3 DEF DealtWith
  <2>5. Calls(g)'
    BY <1>g, <2>1, <2>3 DEF Calls
  <2>6. QED
    BY <2>4, <2>5 DEF CallsOK
<1>7. DepsFirst'
  <2>1. DepsFirst
    BY DEF IInv
  <2>2. CASE build_list' = build_list
    BY <1>1, <2>1, <2>2, SameOrder
  <2>3. CASE p \notin Lost /\ build_list' = Append(build_list, p)
    <3>1. /\ Len(build_list) \in Nat /\ DOMAIN build_list = 1 .. Len(build_list)
          /\ DOMAIN build_list' = 1 .. Len(build_list) + 1
          /\ \A i \in 1 .. Len(build_list) : build_list'[i] = build_list[i]
          /\ build_list'[Len(build_list) + 1] = p
      BY <1>3, <2>3, LenProperties, AppendProperties
    <3>2. ASSUME NEW i \in 1 .. Len(build_list) + 1
          PROVE  Before(build_list', i) = Before(build_list, i)
      <4>1. \A j \in 1 .. i - 1 : build_list'[j] = build_list[j]
        BY <3>1
      <4>2. QED
        BY <4>1 DEF Before
    <3>3. ASSUME NEW i \in 1 .. Len(build_list) + 1
          PROVE  /\ Behind(build_list'[i], Before(build_list', i))
                 /\ build_list'[i] \notin Before(build_list', i) \cup Lost
      <4>1. CASE i \in 1 .. Len(build_list)
        BY <1>1, <2>1, <3>1, <3>2, <4>1 DEF DepsFirst
      <4>2. CASE i = Len(build_list) + 1
        <5>1. Before(build_list', i) = Elements(build_list)
          BY <3>1, <3>2, <4>2 DEF Before, Elements
        <5>2. \A q \in {p} \cup gone : Deps1[q] \subseteq Elements(build_list) \cup gone
          BY <1>f, <1>h
        <5>3. Behind(p, Elements(build_list))
          BY <5>2 DEF Behind
        <5>4. p \notin Elements(build_list)
          BY <1>c, <1>e
        <5>5. QED
          BY <2>3, <3>1, <4>2, <5>1, <5>3, <5>4
      <4>3. QED
        BY <3>1, <4>1, <4>2
    <3>4. QED
      BY <3>1, <3>3 DEF DepsFirst
  <2>4. QED
    BY <1>2, <2>2, <2>3
<1>8. Visited'
  <2>1. options.specified \cap Lost = {} /\ options.extra \cap Lost = {}
    BY <1>1, RosMakeAssumption DEF TypeOK
  <2>2. ASSUME NEW r \in Required
        PROVE  r \in todo \/ r \in Elements(build_list') \/ \E j \in 1 .. Len(stack') : stack'[j].pkg = r
    <3>1. r \in todo \/ r \in Elements(build_list) \/ \E i \in 1 .. Len(stack) : stack[i].pkg = r
      BY <1>1 DEF IInv, Visited
    <3>2. ASSUME NEW i \in 1 .. Len(stack), stack[i].pkg = r
          PROVE  r \in Elements(build_list') \/ \E j \in 1 .. Len(stack') : stack'[j].pkg = r
      <4>1. CASE i = 1
        BY <1>4, <2>1, <3>2, <4>1 DEF Required
      <4>2. CASE i # 1
        <5>1. i - 1 \in 1 .. Len(stack') /\ (i - 1) + 1 = i
          BY <1>1, <4>2
        <5>2. QED
          BY <1>1, <3>2, <5>1
      <4>3. QED
        BY <4>1, <4>2
    <3>3. QED
      BY <1>4, <3>1, <3>2
  <2>3. QED
    BY <1>1, <2>2 DEF Visited, Required
<1>9. QED
  BY <1>6, <1>7, <1>8

\* Every step keeps the order.
LEMMA OrderStep == IInv /\ [Next]_vars => CallsOK' /\ DepsFirst' /\ Visited'
<1> SUFFICES ASSUME IInv, [Next]_vars PROVE CallsOK' /\ DepsFirst' /\ Visited'
  OBVIOUS
<1>1. CASE pc' # "order"
  BY <1>1 DEF CallsOK, DepsFirst, Visited
<1>2. ASSUME pc = "order", pc' = "order", UNCHANGED mainVars
      PROVE  CallsOK' /\ DepsFirst' /\ Visited'
  <2>1. stack' = stack /\ build_list' = build_list /\ todo' = todo /\ options' = options
    BY <1>2 DEF mainVars
  <2>2. CallsOK /\ DepsFirst /\ Visited
    BY DEF IInv
  <2>3. CallsOK'
    BY <1>2, <2>1, <2>2 DEF CallsOK, Calls, DealtWith
  <2>4. DepsFirst'
    BY <1>2, <2>1, <2>2, SameOrder
  <2>5. Visited'
    BY <1>2, <2>1, <2>2 DEF Visited, Required
  <2>6. QED
    BY <2>3, <2>4, <2>5
<1>3. ASSUME Rosdep, pc' = "order" PROVE CallsOK' /\ DepsFirst' /\ Visited'
  <2>1. /\ stack' = <<>> /\ build_list' = <<>> /\ todo' = Required /\ options' = options
        /\ Len(stack') = 0 /\ DOMAIN build_list' = {}
    BY <1>3 DEF Rosdep, IInv, NotOrdered
  <2>2. CallsOK'
    <3>1. DealtWith({})' /\ Calls({})'
      BY <2>1 DEF DealtWith, Calls
    <3>2. QED
      BY <3>1 DEF CallsOK
  <2>3. QED
    BY <2>1, <2>2 DEF DepsFirst, Visited, Required
<1>4. ASSUME Visit PROVE CallsOK' /\ DepsFirst' /\ Visited'
  <2>1. PICK p \in todo : todo' = todo \ {p} /\ stack' = CallsOf(p)
    BY <1>4 DEF Visit
  <2>2. /\ pc = "order" /\ stack = <<>> /\ build_list' = build_list /\ options' = options
        /\ Len(stack) = 0
    BY <1>4 DEF Visit
  <2>3. \/ stack' = <<>> /\ p \in Elements(build_list) /\ Len(stack') = 0
        \/ stack' = <<[pkg |-> p, rest |-> Deps1[p]]>>
    BY <2>1 DEF CallsOf
  <2>4. stack' = <<[pkg |-> p, rest |-> Deps1[p]]>> =>
          Len(stack') = 1 /\ stack'[1].pkg = p /\ stack'[1].rest = Deps1[p] /\ 1 \in 1 .. Len(stack')
    OBVIOUS
  <2>5. CallsOK'
    <3>1. PICK gone \in SUBSET Lost : DealtWith(gone) /\ Calls(gone)
      BY <2>2 DEF IInv, CallsOK
    <3>2. DealtWith(gone)'
      BY <2>2, <3>1 DEF DealtWith
    <3>3. stack' = <<[pkg |-> p, rest |-> Deps1[p]]>> => p \notin Elements(build_list)
      BY <2>1 DEF CallsOf
    <3>4. Calls(gone)'
      BY <2>2, <2>3, <2>4, <3>3 DEF Calls
    <3>5. QED
      BY <3>2, <3>4 DEF CallsOK
  <2>6. DepsFirst'
    BY <2>2, SameOrder DEF IInv
  <2>7. Visited'
    BY <2>1, <2>2, <2>3, <2>4 DEF IInv, Visited, Required
  <2>8. QED
    BY <2>5, <2>6, <2>7
<1>5. CASE pc' = "order"
  <2>1. CASE Start \/ Unmark
    BY <1>5, <2>1 DEF Start, Unmark, Leave
  <2>2. CASE Rosdep
    BY <1>3, <1>5, <2>2
  <2>3. CASE Visit
    BY <1>4, <2>3
  <2>4. CASE VisitDependency
    BY <1>5, <2>4, OrderVisitDependency
  <2>5. CASE AppendPackage
    BY <1>5, <2>5, OrderAppend
  <2>6. CASE Ordered \/ Select
    BY <1>5, <2>6 DEF Ordered, Select
  <2>7. CASE Clean \/ Prebuild
    BY <1>5, <2>7 DEF Clean, Prebuild, Leave, AssertPrebuildBuilt
  <2>8. CASE Build
    BY <1>5, <2>8 DEF Build, Leave
  <2>9. CASE Test
    BY <1>5, <2>9 DEF Test
  <2>10. CASE Mark \/ Finish \/ Interrupt
    BY <1>5, <2>10 DEF Mark, Finish, Interrupt, Leave
  <2>11. CASE Shutdown \/ Poll \/ Exit
    BY <1>5, <2>11 DEF Shutdown, Poll, Exit
  <2>12. CASE DrawEnds \/ UNCHANGED vars
    BY <1>2, <1>5, <2>12 DEF DrawEnds, vars
  <2>13. QED
    BY <2>1, <2>2, <2>3, <2>4, <2>5, <2>6, <2>7, <2>8, <2>9, <2>10, <2>11, <2>12 DEF Next, Main
<1>6. QED
  BY <1>1, <1>5

-----------------------------------------------------------------------------
(* Why a phase has failed.                                                 *)

\* When the direct dependencies stand in front of each package, all do.
LEMMA Transitively ==
  ASSUME build_list \in Seq(Package), pc = "order", DepsFirst
  PROVE  OrderedBy(build_list, {})
<1> SUFFICES ASSUME NEW i \in DOMAIN build_list
             PROVE  TrackedDeps[build_list[i]] \subseteq Before(build_list, i) \cup Lost
  BY DEF OrderedBy, InPlace, DepsFirst
<1>1. DOMAIN build_list = 1 .. Len(build_list) /\ Len(build_list) \in Nat
  BY LenProperties
\* The packages B do not exist, stand between package j and the ones in front
\* of it, and rest on nothing else.
<1> DEFINE Link(j, B) == \A q \in {build_list[j]} \cup B :
                           Deps1[q] \subseteq Before(build_list, j) \cup B
           p == build_list[i]
           S == {d \in Deps[p] : \/ d \in Before(build_list, i)
                                 \/ \E j \in 1 .. i, B \in SUBSET Lost : d \in B /\ Link(j, B)}
<1>2. p \in Package
  BY <1>1
<1>3. TrackedDeps[p] \subseteq Deps[p]
  BY <1>2 DEF TrackedDeps
<1>4. CASE Deps[p] = {}
  BY <1>3, <1>4
<1>5. CASE Deps[p] # {}
  <2>1. /\ Deps1[p] \subseteq Deps[p]
        /\ \A q \in Deps[p] : Deps1[q] \subseteq Deps[p]
        /\ \A T \in SUBSET Deps[p] :
             (Deps1[p] \subseteq T /\ \A q \in T : Deps1[q] \subseteq T) => T = Deps[p]
    BY <1>2, <1>5, DepsAssumption
  <2>2. ASSUME NEW j \in 1 .. i
        PROVE  Before(build_list, j) \subseteq Before(build_list, i)
    BY <1>1 DEF Before
  <2>3. ASSUME NEW j \in 1 .. i, NEW d \in Deps1[build_list[j]], d \in Deps[p] PROVE d \in S
    <3>1. PICK B \in SUBSET Lost : Link(j, B)
      <4>1. j \in DOMAIN build_list
        BY <1>1
      <4>2. Behind(build_list[j], Before(build_list, j))
        BY <4>1 DEF DepsFirst
      <4>3. QED
        BY <4>2 DEF Behind
    <3>2. d \in Before(build_list, j) \/ d \in B
      BY <3>1
    <3> HIDE DEF Link
    <3>3. QED
      BY <2>2, <2>3, <3>1, <3>2
  <2>4. Deps1[p] \subseteq S
    <3>1. i \in 1 .. i
      BY <1>1
    <3> HIDE DEF S
    <3>2. QED
      BY <2>1, <2>3, <3>1
  <2>5. ASSUME NEW q \in S, NEW d \in Deps1[q] PROVE d \in S
    <3>1. d \in Deps[p]
      BY <2>1
    <3>2. CASE q \in Before(build_list, i)
      <4>1. PICK j \in 1 .. i - 1 : q = build_list[j]
        BY <3>2 DEF Before
      <4>2. j \in 1 .. i
        BY <1>1
      <4> HIDE DEF S
      <4>3. QED
        BY <2>3, <3>1, <4>1, <4>2
    <3>3. CASE q \notin Before(build_list, i)
      <4>1. PICK j \in 1 .. i, B \in SUBSET Lost : q \in B /\ Link(j, B)
        BY <3>3
      <4>2. d \in Before(build_list, j) \/ d \in B
        BY <4>1
      <4> HIDE DEF Link
      <4>3. QED
        BY <2>2, <3>1, <4>1, <4>2
    <3>4. QED
      BY <3>2, <3>3
  <2>6. S = Deps[p]
    <3>1. S \in SUBSET Deps[p]
      OBVIOUS
    <3> HIDE DEF S
    <3>2. QED
      BY <2>1, <2>4, <2>5, <3>1
  <2>7. S \subseteq Before(build_list, i) \cup Lost
    <3> HIDE DEF Link
    <3>1. QED
      OBVIOUS
  <2> HIDE DEF S
  <2>8. QED
    BY <1>3, <2>6, <2>7
<1>6. QED
  BY <1>4, <1>5

\* Taking the head of an ordered list, and putting a package at the end of one.
LEMMA OrderedLists ==
  ASSUME NEW s \in Seq(Package), NEW seen
  PROVE  /\ s # <<>> /\ OrderedBy(s, seen) =>
              InPlace(Head(s), seen) /\ OrderedBy(Tail(s), seen \cup {Head(s)})
         /\ \A p \in Package :
              OrderedBy(s, {}) /\ InPlace(p, Elements(s)) => OrderedBy(Append(s, p), {})
<1>1. DOMAIN s = 1 .. Len(s) /\ Len(s) \in Nat
  BY LenProperties
<1>2. ASSUME s # <<>>, OrderedBy(s, seen)
      PROVE  InPlace(Head(s), seen) /\ OrderedBy(Tail(s), seen \cup {Head(s)})
  <2>1. /\ Tail(s) \in Seq(Package) /\ Len(Tail(s)) = Len(s) - 1 /\ Head(s) = s[1]
        /\ \A i \in 1 .. Len(Tail(s)) : Tail(s)[i] = s[i + 1]
        /\ 1 \in DOMAIN s /\ DOMAIN Tail(s) = 1 .. Len(s) - 1
    <3>1. /\ Tail(s) \in Seq(Package) /\ Len(Tail(s)) = Len(s) - 1 /\ Head(s) = s[1]
          /\ \A i \in 1 .. Len(Tail(s)) : Tail(s)[i] = s[i + 1]
      BY <1>2, HeadTailProperties
    <3>2. DOMAIN Tail(s) = 1 .. Len(s) - 1
      BY <3>1, LenProperties
    <3>3. Len(s) # 0
      BY <1>2, EmptySeq
    <3>4. QED
      BY <1>1, <3>1, <3>2, <3>3
  <2>2. InPlace(Head(s), seen)
    <3>1. Before(s, 1) = {}
      BY DEF Before
    <3>2. InPlace(s[1], seen \cup Before(s, 1))
      BY <1>2, <2>1 DEF OrderedBy
    <3>3. QED
      BY <2>1, <3>1, <3>2
  <2>3. ASSUME NEW i \in DOMAIN Tail(s)
        PROVE  InPlace(Tail(s)[i], (seen \cup {Head(s)}) \cup Before(Tail(s), i))
    <3>1. i + 1 \in DOMAIN s /\ Tail(s)[i] = s[i + 1]
      BY <1>1, <2>1
    <3>2. InPlace(s[i + 1], seen \cup Before(s, i + 1))
      BY <1>2, <3>1 DEF OrderedBy
    <3>3. Before(s, i + 1) = {Head(s)} \cup Before(Tail(s), i)
      <4>1. ASSUME NEW j \in 1 .. (i + 1) - 1 PROVE s[j] \in {Head(s)} \cup Before(Tail(s), i)
        <5>1. CASE j = 1
          BY <2>1, <5>1
        <5>2. CASE j # 1
          <6>1. j - 1 \in 1 .. i - 1 /\ j - 1 \in 1 .. Len(Tail(s)) /\ (j - 1) + 1 = j
            BY <1>1, <2>1, <5>2
          <6>2. s[j] = Tail(s)[j - 1]
            BY <2>1, <6>1
          <6>3. QED
            BY <6>1, <6>2 DEF Before
        <5>3. QED
          BY <5>1, <5>2
      <4>2. ASSUME NEW k \in 1 .. i - 1 PROVE Tail(s)[k] = s[k + 1] /\ k + 1 \in 1 .. (i + 1) - 1
        BY <1>1, <2>1
      <4>3. 1 \in 1 .. (i + 1) - 1
        BY <2>1
      <4>4. QED
        BY <2>1, <4>1, <4>2, <4>3 DEF Before
    <3>4. QED
      <4>1. (seen \cup {Head(s)}) \cup Before(Tail(s), i) = seen \cup Before(s, i + 1)
        BY <3>3
      <4>2. QED
        BY <3>1, <3>2, <4>1
  <2>4. QED
    BY <2>2, <2>3 DEF OrderedBy
<1>3. ASSUME NEW p \in Package, OrderedBy(s, {}), InPlace(p, Elements(s))
      PROVE  OrderedBy(Append(s, p), {})
  <2>1. /\ DOMAIN Append(s, p) = 1 .. Len(s) + 1
        /\ \A i \in 1 .. Len(s) : Append(s, p)[i] = s[i]
        /\ Append(s, p)[Len(s) + 1] = p
    BY AppendProperties, LenProperties
  <2>2. ASSUME NEW i \in 1 .. Len(s) + 1
        PROVE  InPlace(Append(s, p)[i], {} \cup Before(Append(s, p), i))
    <3>1. Before(Append(s, p), i) = Before(s, i)
      BY <1>1, <2>1 DEF Before
    <3>2. CASE i \in 1 .. Len(s)
      BY <1>1, <1>3, <2>1, <3>1, <3>2 DEF OrderedBy
    <3>3. CASE i = Len(s) + 1
      <4>1. Before(s, i) = Elements(s)
        BY <1>1, <3>3 DEF Before, Elements
      <4>2. QED
        BY <1>3, <2>1, <3>1, <3>3, <4>1
    <3>4. QED
      BY <1>1, <3>2, <3>3
  <2>3. QED
    BY <2>1, <2>2 DEF OrderedBy
<1>4. QED
  BY <1>2, <1>3

\* A phase that fails without having been cut short leaves a failed package,
\* unless a package of its waits for one outside the queue.
LEMMA PhaseFails ==
  ASSUME NEW queue, NEW depsOf, NEW tolerant \in BOOLEAN, NEW prebuilt, NEW key, NEW reg,
         NEW e \in PhaseEnds(Phase(queue, depsOf, tolerant, prebuilt, key)), ~e.cut,
         ~Passes(queue, e, Results(key, e, reg)),
         \A p \in queue : depsOf[p] \subseteq queue
  PROVE  FailedIn(Results(key, e, reg)) # {}
<1> SUFFICES ASSUME FailedIn(Results(key, e, reg)) = {} PROVE FALSE
  OBVIOUS
<1> DEFINE phase == Phase(queue, depsOf, tolerant, prebuilt, key)
<1>1. /\ phase.queue = queue /\ phase.waits = depsOf /\ phase.tolerant = tolerant
      /\ phase.rospack = Rospack
  BY DEF Phase
<1>2. /\ e \in Outcomes(queue)
      /\ e.built \cap e.failed = {} /\ Rospack \notin e.failed
      /\ Accounted(phase, e)
  <2> HIDE DEF phase
  <2>1. e \in PhaseEnds(phase)
    BY DEF phase
  <2>2. QED
    BY <1>1, <2>1 DEF PhaseEnds
<1>3. e.failed = {}
  <2>1. ASSUME NEW p \in e.failed PROVE p \in FailedIn(Results(key, e, reg))
    <3>1. p \in (e.built \cup e.failed) \ ({Rospack} \ reg) /\ p \notin e.built
      BY <1>2
    <3>2. p \in DOMAIN Results(key, e, reg) /\ ~Results(key, e, reg)[p]
      BY <3>1, Zenon DEF Results
    <3>3. QED
      BY <3>2 DEF FailedIn
  <2>2. QED
    BY <2>1
<1>4. e.built # queue
  BY DEF Passes
<1>5. e.built \cup e.failed = queue
  <2> HIDE DEF phase
  <2>1. QED
    BY <1>1, <1>2, <1>3 DEF Accounted
<1>6. QED
  BY <1>3, <1>4, <1>5

\* The results of a phase are those of its packages and of the earlier ones.
LEMMA ResultsOfPhase ==
  ASSUME ResultsListed, NEW key, NEW reg, NEW queue, queue \subseteq Elements(build_list),
         NEW e, e.built \subseteq queue, e.failed \subseteq queue
  PROVE  DOMAIN Results(key, e, reg) \subseteq Elements(build_list)
BY DEF ResultsListed, Results, Prior

\* The steps that order the packages and select among them.
LEMMA OrderFirst ==
  ASSUME IInv, Ordered \/ Select
  PROVE  EarlierFirst'
<1> USE DEF IInv
<1>1. CASE Ordered
  <2>1. /\ pc = "order" /\ build_list' = build_list /\ new_list' = new_list
        /\ pc' = IF options.specified_only THEN "select" ELSE "clean"
        /\ options.specified_only => unread' = build_list
        /\ options' = options /\ new_list = <<>>
    BY <1>1 DEF Ordered, NotSelected
  <2>2. OrderedBy(build_list, {})
    BY <2>1, Transitively DEF TypeOK
  <2>3. TrackedDeps' = TrackedDeps
    BY <2>1 DEF TrackedDeps
  <2>4. CASE options.specified_only
    <3>1. OrderedBy(new_list, {}) /\ Elements(new_list) = {}
      BY <2>1, ElementsOf DEF OrderedBy
    <3>2. QED
      BY <2>1, <2>2, <2>3, <2>4, <3>1 DEF EarlierFirst, OrderedBy, InPlace, Before
  <2>5. CASE ~options.specified_only
    BY <2>1, <2>2, <2>3, <2>5 DEF EarlierFirst, OrderedBy, InPlace, Before
  <2>6. QED
    BY <2>4, <2>5
<1>2. CASE Select
  <2>1. /\ pc = "select" /\ options' = options /\ options.specified_only
        /\ OrderedBy(new_list, {}) /\ OrderedBy(unread, Elements(new_list))
        /\ unread \in Seq(Package) /\ new_list \in Seq(Package)
    BY <1>2 DEF Select, EarlierFirst, TypeOK
  <2>2. TrackedDeps' = TrackedDeps
    BY <2>1 DEF TrackedDeps
  <2>3. CASE unread = <<>>
    <3>1. pc' = "clean" /\ build_list' = new_list
      BY <1>2, <2>3 DEF Select
    <3>2. QED
      BY <2>1, <2>2, <3>1 DEF EarlierFirst, OrderedBy, InPlace, Before
  <2>4. CASE unread # <<>>
    <3>1. /\ pc' = "select" /\ unread' = Tail(unread)
          /\ new_list' = IF Head(unread) \in options.specified
                         THEN Append(new_list, Head(unread)) ELSE new_list
      BY <1>2, <2>4 DEF Select
    <3>2. /\ InPlace(Head(unread), Elements(new_list))
          /\ OrderedBy(Tail(unread), Elements(new_list) \cup {Head(unread)})
      BY <2>1, <2>4, OrderedLists
    <3>3. Head(unread) \in Package /\ Tail(unread) \in Seq(Package)
      BY <2>1, <2>4, ElementsOf
    <3>4. OrderedBy(new_list', {}) /\ OrderedBy(unread', Elements(new_list'))
      <4>1. CASE Head(unread) \in options.specified
        <5>1. Elements(Append(new_list, Head(unread))) = Elements(new_list) \cup {Head(unread)}
          BY <2>1, <3>3, ElementsOf
        <5>2. OrderedBy(Append(new_list, Head(unread)), {})
          BY <2>1, <3>2, <3>3, OrderedLists
        <5>3. new_list' = Append(new_list, Head(unread)) /\ unread' = Tail(unread)
          BY <3>1, <4>1
        <5>4. QED
          BY <3>2, <5>1, <5>2, <5>3
      <4>2. CASE Head(unread) \notin options.specified
        <5>1. ASSUME NEW i \in DOMAIN Tail(unread)
              PROVE  InPlace(Tail(unread)[i], Elements(new_list) \cup Before(Tail(unread), i))
          <6>1. InPlace(Tail(unread)[i],
                          (Elements(new_list) \cup {Head(unread)}) \cup Before(Tail(unread), i))
            BY <3>2 DEF OrderedBy
          <6>2. Head(unread) \notin TrackedDeps[Tail(unread)[i]]
            <7>1. Tail(unread)[i] \in Package
              BY <3>3, LenProperties
            <7>2. QED
              BY <2>1, <4>2, <7>1 DEF TrackedDeps
          <6>3. QED
            BY <6>1, <6>2 DEF InPlace
        <5>2. OrderedBy(Tail(unread), Elements(new_list))
          BY <5>1 DEF OrderedBy
        <5>3. QED
          BY <2>1, <3>1, <4>2, <5>2
      <4>3. QED
        BY <4>1, <4>2
    <3>5. QED
      BY <2>1, <2>2, <3>1, <3>4 DEF EarlierFirst, OrderedBy, InPlace, Before
  <2>5. QED
    BY <2>3, <2>4
<1>3. QED
  BY <1>1, <1>2

-----------------------------------------------------------------------------
(* The phases and the end.                                                 *)

\* What the results say does not change while they and the list stay.
LEMMA Same ==
  ASSUME options' = options, build_list' = build_list, result' = result
  PROVE  /\ BuiltOK' <=> BuiltOK
         /\ TestedOK' <=> TestedOK
         /\ Asked' = Asked /\ Required' = Required
         /\ \A key, p : Good(key, p)' <=> Good(key, p)
<1>1. Asked' = Asked /\ Required' = Required
  BY DEF Asked, Required
<1>2. \A key, p : Good(key, p)' <=> Good(key, p)
  BY DEF Good
<1>3. Elements(build_list)' = Elements(build_list)
  OBVIOUS
<1>4. BuiltOK' <=> BuiltOK
  BY <1>1, <1>3 DEF BuiltOK, Good
<1>5. TestedOK' <=> TestedOK
  BY DEF TestedOK, Good
<1>6. QED
  BY <1>1, <1>2, <1>4, <1>5

\* When the build passes, every package of the list has been built.
LEMMA BuildTells ==
  ASSUME Build, passed'[1], NEW p \in Elements(build_list)
  PROVE  Good(options.target, p)'
<1>1. PICK e \in PhaseEnds(Phase(Elements(build_list), TrackedDeps,
                                 options.robust \/ options.best_effort,
                                 Elements(build_list) \cap {Rospack}, options.target)) :
        LET key == options.target
            r == Results(key, e, IF key = "none" THEN Elements(build_list) \cap {Rospack} ELSE {})
        IN /\ result' = [k \in DOMAIN result \cup {"none", key} |->
                           CASE k = key -> r
                             [] k # key /\ k = "none" -> [q \in Elements(build_list) \cap {Rospack} |-> TRUE]
                             [] OTHER -> result[k]]
           /\ passed' = <<Passes(Elements(build_list), e, r), TRUE>>
  BY DEF Build
<1> DEFINE key == options.target
           reg == IF key = "none" THEN Elements(build_list) \cap {Rospack} ELSE {}
           r == Results(key, e, reg)
<1>2. options' = options
  BY DEF Build
<1>3. key \in DOMAIN result' /\ result'[key] = r
  <2> HIDE DEF r
  <2>1. result' = [k \in DOMAIN result \cup {"none", key} |->
                     CASE k = key -> r
                       [] k # key /\ k = "none" -> [q \in Elements(build_list) \cap {Rospack} |-> TRUE]
                       [] OTHER -> result[k]]
    BY <1>1 DEF r
  <2> HIDE DEF key
  <2>2. QED
    BY <2>1
<1>4. Passes(Elements(build_list), e, r)
  BY <1>1
<1>5. e.built = Elements(build_list) /\ FailedIn(r) = {}
  BY <1>4 DEF Passes
<1>6. p # Rospack => p \in DOMAIN r
  BY <1>5 DEF Results
<1>7. p # Rospack => r[p]
  BY <1>5, <1>6 DEF FailedIn
<1>8. QED
  BY <1>2, <1>3, <1>6, <1>7 DEF Good

\* A phase of tests that passes leaves no failure under its key, and what was
\* good stays so.
LEMMA TestTells ==
  ASSUME Test, passed[1], options.testing, passed \in BOOLEAN \X BOOLEAN, passed'[2]
  PROVE  /\ \A p \in options.specified : Good("test", p)'
         /\ \A k, p : Good(k, p) => Good(k, p)'
<1>1. PICK e \in PhaseEnds(Phase(options.specified, TestDeps, TRUE, {}, "test")) :
        /\ Store("test", Results("test", e, {}))
        /\ passed' = [passed EXCEPT ![2] = Passes(options.specified, e, Results("test", e, {}))]
  BY DEF Test
<1> DEFINE r == Results("test", e, {})
<1>2. "test" \in DOMAIN result' /\ result'["test"] = r
  BY <1>1 DEF Store
<1>3. ASSUME NEW k \in DOMAIN result, k # "test" PROVE k \in DOMAIN result' /\ result'[k] = result[k]
  BY <1>1, <1>3 DEF Store
<1>4. e.built = options.specified /\ FailedIn(r) = {}
  <2>1. Passes(options.specified, e, r)
    BY <1>1
  <2>2. QED
    BY <2>1 DEF Passes
<1>5. \A p \in DOMAIN r : r[p]
  BY <1>4 DEF FailedIn
<1>6. \A p \in options.specified : p # Rospack => p \in DOMAIN r
  BY <1>4 DEF Results
<1>7. DOMAIN Prior("test") \subseteq DOMAIN r
  BY DEF Results
<1>8. ASSUME NEW k, NEW p, Good(k, p) PROVE Good(k, p)'
  <2>1. CASE p = Rospack
    BY <2>1 DEF Good
  <2>2. CASE p # Rospack /\ k = "test"
    BY <1>2, <1>5, <1>7, <1>8, <2>2 DEF Good, Prior
  <2>3. CASE p # Rospack /\ k # "test"
    BY <1>3, <1>8, <2>3 DEF Good
  <2>4. QED
    BY <2>1, <2>2, <2>3
<1>9. \A p \in options.specified : Good("test", p)'
  BY <1>2, <1>5, <1>6 DEF Good
<1>10. QED
  BY <1>8, <1>9

\* Every step before the phases keeps what is known of them.
LEMMA BeforePhases ==
  ASSUME IInv,
         \/ Start \/ Unmark \/ Rosdep
         \/ Visit \/ VisitDependency \/ AppendPackage \/ Ordered \/ Select
  PROVE  NotOrdered' /\ Kept' /\ Listed' /\ PhasesTold' /\ GoodEnd' /\ MarksLast'
<1> USE DEF IInv
<1>0. /\ pc \in {"start", "unmark", "rosdep", "order", "select"}
      /\ options' = options /\ result' = result /\ status' = status /\ status = -1
      /\ outcome # "true" /\ nobuild \subseteq NoBuild /\ nobuild' \subseteq nobuild
  BY VisitDependencyCases, AppendCases
  DEF Start, Unmark, Rosdep, Visit, Ordered, Select, GoodEnd, MarksLast, printer
<1>1. MarksLast'
  BY <1>0 DEF MarksLast, MarkedWhenPassed
<1>2. CASE Start
  <2>1. /\ pc' \in {"shutdown", "unmark", "rosdep"} /\ outcome' # "true"
        /\ pc' = "unmark" => options.unmark_installed
        /\ pc' = "rosdep" => todo' = Required
        /\ build_list' = <<>> /\ stack' = <<>>
    BY <1>0, <1>2 DEF Start, Leave, NotOrdered
  <2>2. QED
    BY <1>0, <1>1, <2>1 DEF NotOrdered, Kept, Listed, PhasesTold, GoodEnd, Required
<1>3. CASE Unmark
  <2>1. /\ pc' \in {"shutdown", "unmark"} /\ options.unmark_installed
        /\ outcome' = "true" => pc' = "shutdown"
    BY <1>0, <1>3 DEF Unmark, Leave, NotOrdered
  <2>2. QED
    BY <1>0, <1>1, <2>1 DEF NotOrdered, Kept, Listed, PhasesTold, GoodEnd
<1>4. CASE Rosdep
  <2>1. pc' \in {"shutdown", "order"} /\ outcome' # "true"
    BY <1>0, <1>4 DEF Rosdep, Leave
  <2>2. QED
    BY <1>0, <1>1, <2>1 DEF NotOrdered, Kept, Listed, PhasesTold, GoodEnd
<1>5. CASE Visit \/ VisitDependency \/ AppendPackage
  <2>1. pc' \in {"shutdown", "order"} /\ outcome' # "true"
    BY <1>0, <1>5, VisitDependencyCases, AppendCases DEF Visit
  <2>2. QED
    BY <1>0, <1>1, <2>1 DEF NotOrdered, Kept, Listed, PhasesTold, GoodEnd
<1>6. CASE Ordered
  <2>1. /\ pc' = IF options.specified_only THEN "select" ELSE "clean"
        /\ options.specified_only => unread' = build_list
        /\ build_list' = build_list /\ outcome' = outcome
        /\ pc = "order" /\ stack = <<>> /\ todo = {} /\ Len(stack) = 0
    BY <1>6 DEF Ordered
  <2>2. Required \subseteq Elements(build_list)
    BY <2>1 DEF Visited
  <2>3. Kept'
    BY <1>0, <2>1, <2>2 DEF Kept, Required
  <2>4. Listed'
    BY <1>0, <2>1, <2>2 DEF Listed, Asked, Required
  <2>5. QED
    BY <1>0, <1>1, <2>1, <2>3, <2>4 DEF NotOrdered, PhasesTold, GoodEnd
<1>7. CASE Select
  <2>1. /\ pc = "select" /\ unread \in Seq(Package) /\ new_list \in Seq(Package)
        /\ options.specified_only /\ outcome' = outcome
        /\ options.specified \subseteq Elements(unread) \cup Elements(new_list)
    BY <1>7 DEF Select, Kept, TypeOK
  <2>2. CASE unread # <<>>
    <3>1. /\ Head(unread) \in Package
          /\ Elements(unread) = {Head(unread)} \cup Elements(Tail(unread))
      BY <2>1, <2>2, ElementsOf
    <3>2. Elements(Append(new_list, Head(unread))) = Elements(new_list) \cup {Head(unread)}
      BY <2>1, <3>1, ElementsOf
    <3>3. /\ pc' = "select" /\ unread' = Tail(unread)
          /\ new_list' = IF Head(unread) \in options.specified
                         THEN Append(new_list, Head(unread)) ELSE new_list
      BY <1>7, <2>1, <2>2 DEF Select
    <3>4. options.specified \subseteq Elements(unread') \cup Elements(new_list')
      BY <2>1, <3>1, <3>2, <3>3
    <3>5. QED
      BY <1>0, <1>1, <2>1, <3>3, <3>4 DEF NotOrdered, Kept, Listed, PhasesTold, GoodEnd
  <2>3. CASE unread = <<>>
    <3>1. pc' = "clean" /\ build_list' = new_list
      BY <1>7, <2>3 DEF Select
    <3>2. options.specified \subseteq Elements(new_list)
      BY <2>1, <2>3, ElementsOf
    <3>3. Listed'
      BY <1>0, <2>1, <3>1, <3>2 DEF Listed, Asked
    <3>4. QED
      BY <1>0, <1>1, <2>1, <3>1, <3>3 DEF NotOrdered, Kept, PhasesTold, GoodEnd
  <2>4. QED
    BY <2>2, <2>3
<1>8. QED
  BY <1>2, <1>3, <1>4, <1>5, <1>6, <1>7

\* So does every step of the phases ...
LEMMA InPhases ==
  ASSUME IInv, Clean \/ Prebuild \/ Build \/ Test
  PROVE  NotOrdered' /\ Kept' /\ Listed' /\ PhasesTold' /\ GoodEnd' /\ MarksLast'
<1> USE DEF IInv
<1>0. /\ pc \in {"clean", "prebuild", "build", "test"}
      /\ options' = options /\ build_list' = build_list /\ nobuild' = nobuild
      /\ status' = status /\ status = -1 /\ outcome # "true" /\ nobuild \subseteq NoBuild
      /\ Asked \subseteq Elements(build_list) /\ passed \in BOOLEAN \X BOOLEAN
  BY DEF Clean, Prebuild, Build, Test, GoodEnd, MarksLast, Listed, TypeOK, printer
<1>1. /\ pc' \in {"prebuild", "build", "test", "mark", "shutdown"}
      /\ outcome' # "true"
  <2>1. CASE Clean
    BY <1>0, <2>1 DEF Clean, Leave
  <2>2. CASE Prebuild
    BY <1>0, <2>2 DEF Prebuild, Leave, AssertPrebuildBuilt
  <2>3. CASE Build
    BY <1>0, <2>3 DEF Build, Leave
  <2>4. CASE Test
    BY <1>0, <2>4 DEF Test
  <2>5. QED
    BY <2>1, <2>2, <2>3, <2>4
<1>2. NotOrdered' /\ Kept' /\ GoodEnd' /\ MarksLast'
  BY <1>0, <1>1 DEF NotOrdered, Kept, GoodEnd, MarksLast, MarkedWhenPassed
<1>3. Listed'
  BY <1>0 DEF Listed, Asked, Required
<1>4. CASE Clean
  <2>1. pc' \in {"prebuild", "shutdown"}
    BY <1>4 DEF Clean, Leave
  <2>2. QED
    BY <1>2, <1>3, <2>1 DEF PhasesTold
<1>5. CASE Prebuild
  <2>1. pc' = "test" => ~options.building
    BY <1>5 DEF Prebuild, Leave, AssertPrebuildBuilt
  <2>2. pc' # "mark"
    BY <1>5 DEF Prebuild, Leave, AssertPrebuildBuilt
  <2>3. QED
    BY <1>0, <1>2, <1>3, <2>1, <2>2 DEF PhasesTold, BuiltOK
<1>6. CASE Build
  <2>1. pc' \in {"test", "shutdown"}
    BY <1>6 DEF Build, Leave
  <2>2. passed'[1] => \A p \in Elements(build_list) : Good(options.target, p)'
    BY <1>6, BuildTells
  <2>3. Asked' = Asked
    BY <1>0 DEF Asked, Required
  <2>4. passed'[1] => BuiltOK'
    BY <1>0, <2>2, <2>3 DEF BuiltOK
  <2>5. QED
    BY <1>2, <1>3, <2>1, <2>4 DEF PhasesTold
<1>7. CASE Test
  <2>1. pc = "test" /\ pc' = "mark" /\ todo' = options.specified
    BY <1>7 DEF Test
  <2>2. Asked' = Asked
    BY <1>0 DEF Asked, Required
  <2>3. CASE passed[1] /\ options.testing
    <3>1. ASSUME passed'[2] PROVE BuiltOK' /\ TestedOK'
      <4>1. /\ \A p \in options.specified : Good("test", p)'
            /\ \A k, p : Good(k, p) => Good(k, p)'
        BY <1>0, <1>7, <2>3, <3>1, TestTells
      <4>2. BuiltOK
        BY <2>1, <2>3 DEF PhasesTold
      <4>3. BuiltOK'
        BY <1>0, <2>2, <4>1, <4>2 DEF BuiltOK
      <4>4. TestedOK'
        BY <1>0, <4>1 DEF TestedOK
      <4>5. QED
        BY <4>3, <4>4
    <3>2. QED
      BY <1>0, <1>2, <1>3, <2>1, <3>1 DEF PhasesTold
  <2>4. CASE ~(passed[1] /\ options.testing)
    <3>1. passed' = passed /\ result' = result
      BY <1>7, <2>4 DEF Test
    <3>2. passed[1] => BuiltOK' /\ TestedOK'
      <4>1. passed[1] => BuiltOK /\ ~options.testing
        BY <2>1, <2>4 DEF PhasesTold
      <4>2. QED
        BY <1>0, <3>1, <4>1, Same DEF TestedOK
    <3>3. QED
      BY <1>0, <1>2, <1>3, <2>1, <3>1, <3>2 DEF PhasesTold
  <2>5. QED
    BY <2>3, <2>4
<1>8. QED
  BY <1>4, <1>5, <1>6, <1>7

\* ... and every step after them, of the status thread and of an interrupt.
LEMMA AfterPhases ==
  ASSUME IInv, TypeOK',
         \/ Mark \/ Finish \/ Shutdown \/ Poll \/ Exit
         \/ Interrupt \/ DrawEnds \/ UNCHANGED vars
  PROVE  NotOrdered' /\ Kept' /\ Listed' /\ PhasesTold' /\ GoodEnd' /\ MarksLast'
<1> USE DEF IInv
<1>0. /\ options' = options /\ build_list' = build_list /\ result' = result
      /\ passed' = passed /\ stack' = stack /\ unread' = unread /\ new_list' = new_list
  BY DEF Mark, Finish, Shutdown, Poll, Exit, Interrupt, DrawEnds, vars, mainVars, selection
<1>1. /\ BuiltOK' <=> BuiltOK
      /\ TestedOK' <=> TestedOK
      /\ Asked' = Asked /\ Required' = Required
      /\ \A key, p : Good(key, p)' <=> Good(key, p)
  BY <1>0, Same
<1>2. \/ pc' = pc /\ (todo' = todo \/ (pc = "mark" /\ todo' \subseteq todo))
      \/ pc' \in {"shutdown", "poll", "exit"}
  BY DEF Mark, Finish, Shutdown, Poll, Exit, Interrupt, DrawEnds, vars, mainVars, selection, Leave
<1>3. NotOrdered' /\ Kept' /\ Listed'
  BY <1>0, <1>1, <1>2 DEF NotOrdered, Kept, Listed
<1>4. PhasesTold'
  BY <1>0, <1>1, <1>2 DEF PhasesTold
<1>5. GoodEnd'
  <2>1. CASE Mark \/ Interrupt
    BY <1>0, <2>1 DEF Mark, Interrupt, Leave, GoodEnd
  <2>2. CASE Finish
    <3>1. outcome' = "true" => passed[1] /\ passed[2] /\ pc = "mark" /\ pc' = "shutdown"
      BY <2>2 DEF Finish, Leave
    <3>2. outcome' = "true" => BuiltOK /\ TestedOK
      BY <3>1 DEF PhasesTold
    <3>3. status' = status /\ status = -1
      BY <2>2 DEF Finish, GoodEnd
    <3>4. QED
      BY <1>1, <3>1, <3>2, <3>3 DEF GoodEnd
  <2>3. CASE Shutdown \/ Poll
    BY <1>0, <1>1, <2>3 DEF Shutdown, Poll, GoodEnd, mainVars
  <2>4. CASE Exit
    BY <1>0, <1>1, <2>4 DEF Exit, GoodEnd, mainVars
  <2>5. CASE DrawEnds \/ UNCHANGED vars
    BY <1>0, <1>1, <2>5 DEF DrawEnds, vars, GoodEnd, mainVars
  <2>6. QED
    BY <2>1, <2>2, <2>3, <2>4, <2>5
<1>6. MarksLast'
  <2>1. CASE Mark
    <3>1. PICK p \in todo : nobuild' = nobuild \cup {p} \/ nobuild' = nobuild
      BY <2>1 DEF Mark
    <3>2. /\ pc = "mark" /\ pc' \in {"mark", "shutdown"} /\ options.mark_installed
          /\ passed[1] /\ passed[2]
      BY <2>1 DEF Mark, Leave
    <3>3. /\ options.building => Good(options.target, p)
          /\ options.testing => \A q \in options.specified : Good("test", q)
      <4>1. BuiltOK /\ TestedOK /\ p \in options.specified
        BY <3>1, <3>2 DEF PhasesTold
      <4>2. p \in Asked
        BY <4>1 DEF Asked, Required
      <4>3. QED
        BY <4>1, <4>2 DEF BuiltOK, TestedOK
    <3>4. MarkedWhenPassed'
      BY <1>0, <1>1, <3>1, <3>2, <3>3 DEF MarksLast, MarkedWhenPassed
    <3>5. QED
      BY <3>2, <3>4 DEF MarksLast
  <2>2. CASE ~Mark
    <3>1. nobuild' = nobuild
      BY <2>2 DEF Finish, Shutdown, Poll, Exit, Interrupt, DrawEnds, vars, mainVars
    <3>2. MarkedWhenPassed'
      BY <1>0, <1>1, <3>1 DEF MarksLast, MarkedWhenPassed
    <3>3. QED
      BY <1>2, <3>1, <3>2 DEF MarksLast
  <2>3. QED
    BY <2>1, <2>2
<1>7. QED
  BY <1>3, <1>4, <1>5, <1>6

\* What the steps that are no phase leave of it.
LEMMA OutsidePhases ==
  ASSUME IInv, TypeOK',
         \/ Start \/ Unmark \/ Rosdep \/ Visit \/ VisitDependency \/ AppendPackage
         \/ Ordered \/ Select \/ Prebuild
         \/ Mark \/ Finish \/ Shutdown \/ Poll \/ Exit
         \/ Interrupt \/ DrawEnds \/ UNCHANGED vars
  PROVE  NotSelected' /\ EarlierFirst' /\ ResultsListed' /\ FailureExplained'
<1> USE DEF IInv
<1>1. /\ options' = options /\ result' = result /\ passed' = passed
      /\ interrupts' = 0 => interrupts = 0
  <2>1. CASE VisitDependency \/ AppendPackage
    BY <2>1, VisitDependencyCases, AppendCases
  <2>2. CASE Interrupt
    BY <2>2 DEF Interrupt, TypeOK
  <2>3. CASE \/ Start \/ Unmark \/ Rosdep \/ Visit \/ Ordered \/ Select \/ Prebuild
             \/ Mark \/ Finish \/ Shutdown \/ Poll \/ Exit \/ DrawEnds \/ UNCHANGED vars
    BY <2>3 DEF Start, Unmark, Rosdep, Visit, Ordered, Select, Prebuild, Mark, Finish, Shutdown,
                Poll, Exit, DrawEnds, vars, mainVars, selection, printer
  <2>4. QED
    BY <2>1, <2>2, <2>3
<1>2. TrackedDeps' = TrackedDeps
  BY <1>1 DEF TrackedDeps
<1>3. CASE Ordered \/ Select
  <2>1. /\ pc \in {"order", "select"} /\ pc' \in {"select", "clean"}
    BY <1>3 DEF Ordered, Select
  <2>2. passed = <<TRUE, TRUE>> /\ DOMAIN result = {}
    BY <2>1 DEF ResultsListed
  <2>3. EarlierFirst'
    BY <1>3, OrderFirst
  <2>4. QED
    BY <1>1, <2>1, <2>2, <2>3 DEF NotSelected, ResultsListed, FailureExplained
<1>4. CASE Start \/ Unmark \/ Rosdep \/ Visit \/ VisitDependency \/ AppendPackage
  <2>1. /\ pc \in {"start", "unmark", "rosdep", "order"}
        /\ pc' \in {"unmark", "rosdep", "order", "shutdown"} /\ new_list' = new_list
    BY <1>4, VisitDependencyCases, AppendCases DEF Start, Unmark, Rosdep, Visit, Leave, selection
  <2>2. passed = <<TRUE, TRUE>> /\ DOMAIN result = {}
    BY <2>1 DEF ResultsListed
  <2>3. QED
    BY <1>1, <2>1, <2>2 DEF NotSelected, EarlierFirst, ResultsListed, FailureExplained
<1>5. CASE \/ Prebuild \/ Mark \/ Finish \/ Shutdown \/ Poll \/ Exit
           \/ Interrupt \/ DrawEnds \/ UNCHANGED vars
  <2>1. build_list' = build_list /\ unread' = unread /\ new_list' = new_list
    BY <1>5 DEF Prebuild, Mark, Finish, Shutdown, Poll, Exit, Interrupt, DrawEnds, vars,
                mainVars, selection
  <2>2. \/ pc' = pc
        \/ pc = "prebuild" /\ pc' \in {"build", "test"}
        \/ pc' \in {"shutdown", "poll", "exit"}
    BY <1>5 DEF Prebuild, Mark, Finish, Shutdown, Poll, Exit, Interrupt, DrawEnds, vars,
                mainVars, Leave, AssertPrebuildBuilt
  <2>3. NotSelected' /\ ResultsListed'
    BY <1>1, <2>1, <2>2 DEF NotSelected, ResultsListed, Elements
  <2>4. EarlierFirst'
    BY <1>1, <1>2, <2>1, <2>2 DEF EarlierFirst, OrderedBy, InPlace, Before, Elements
  <2>5. Reported("none")' = Reported("none") /\ Reported("test")' = Reported("test")
    BY <1>1, <2>1 DEF Reported, Prior, Elements
  <2>6. Elements(build_list)' = Elements(build_list)
    BY <2>1
  <2>7. FailureExplained'
    BY <1>1, <2>5, <2>6 DEF FailureExplained
  <2>8. QED
    BY <2>3, <2>4, <2>7
<1>6. QED
  BY <1>3, <1>4, <1>5

\* The phases.
LEMMA OfPhases ==
  ASSUME IInv, TypeOK', Clean \/ Build \/ Test
  PROVE  NotSelected' /\ EarlierFirst' /\ ResultsListed' /\ FailureExplained'
<1> USE DEF IInv
<1>1. /\ pc \in {"clean", "build", "test"}
      /\ pc' \in {"prebuild", "test", "mark", "shutdown"}
      /\ options' = options /\ build_list' = build_list
      /\ unread' = unread /\ new_list' = new_list
  BY DEF Clean, Build, Test, Leave, selection
<1>2. TrackedDeps' = TrackedDeps
  BY <1>1 DEF TrackedDeps
<1>3. NotSelected' /\ EarlierFirst'
  BY <1>1, <1>2 DEF NotSelected, EarlierFirst, OrderedBy, InPlace, Before
<1>4. /\ build_list \in Seq(Package) /\ interrupts \in Nat
      /\ OrderedBy(build_list, {})
      /\ options.specified \subseteq Elements(build_list)
  BY <1>1 DEF TypeOK, EarlierFirst, Listed, Asked, Required
<1>5. CASE Clean
  <2>1. CASE options.pre_clean
    <3>1. PICK e \in PhaseEnds(Phase(Elements(build_list), NoDeps, TRUE, {}, "clean")) :
            /\ Cut(e)
            /\ Store("clean", Results("clean", e, {}))
      BY <1>5, <2>1 DEF Clean
    <3>2. DOMAIN Results("clean", e, {}) \subseteq Elements(build_list)
      BY Ends, ResultsOfPhase
    <3>3. ResultsListed'
      BY <1>1, <3>1, <3>2 DEF ResultsListed, Store
    <3>4. interrupts' = 0 => interrupts = 0
      BY <1>4, <3>1 DEF Cut
    <3>5. \A k \in {"none", "test"} : Prior(k)' = Prior(k)
      BY <3>1 DEF Store, Prior
    <3>6. Reported("none")' = Reported("none") /\ Reported("test")' = Reported("test")
      BY <1>1, <3>5 DEF Reported
    <3>7. passed' = passed
      BY <1>5 DEF Clean
    <3>8. FailureExplained'
      BY <1>1, <3>4, <3>6, <3>7 DEF FailureExplained
    <3>9. QED
      BY <1>3, <3>3, <3>8
  <2>2. CASE ~options.pre_clean
    <3>1. result' = result /\ passed' = passed /\ interrupts' = interrupts
      BY <1>5, <2>2 DEF Clean
    <3>2. Reported("none")' = Reported("none") /\ Reported("test")' = Reported("test")
      BY <1>1, <3>1 DEF Reported, Prior
    <3>3. QED
      BY <1>1, <1>3, <3>1, <3>2 DEF ResultsListed, FailureExplained
  <2>3. QED
    BY <2>1, <2>2
<1>6. CASE Build
  <2> DEFINE key == options.target
             queue == Elements(build_list)
             reg == IF key = "none" THEN queue \cap {Rospack} ELSE {}
  <2>1. PICK e \in PhaseEnds(Phase(queue, TrackedDeps, options.robust \/ options.best_effort,
                                   queue \cap {Rospack}, key)) :
          /\ Cut(e)
          /\ result' = [k \in DOMAIN result \cup {"none", key} |->
                           CASE k = key -> Results(key, e, reg)
                             [] k # key /\ k = "none" -> [q \in queue \cap {Rospack} |-> TRUE]
                             [] OTHER -> result[k]]
          /\ passed' = <<Passes(queue, e, Results(key, e, reg)), TRUE>>
    BY <1>6 DEF Build
  <2> DEFINE r == Results(key, e, reg)
  <2>2. DOMAIN r \subseteq queue
    BY Ends, ResultsOfPhase
  <2>3. key \in DOMAIN result' /\ result'[key] = r
    <3> HIDE DEF r, key, queue
    <3>1. result' = [k \in DOMAIN result \cup {"none", key} |->
                       CASE k = key -> r
                         [] k # key /\ k = "none" -> [q \in queue \cap {Rospack} |-> TRUE]
                         [] OTHER -> result[k]]
      BY <2>1 DEF r
    <3>2. QED
      BY <3>1
  <2>4. ResultsListed'
    <3>1. ASSUME NEW k \in DOMAIN result' PROVE DOMAIN result'[k] \subseteq queue
      <4>1. CASE k = key
        BY <2>2, <2>3, <4>1
      <4>2. CASE k # key /\ k = "none"
        <5>1. result'[k] = [q \in queue \cap {Rospack} |-> TRUE]
          <6> HIDE DEF queue, key
          <6>1. QED
            BY <2>1, <4>2
        <5>2. QED
          BY <5>1
      <4>3. CASE k # key /\ k # "none"
        <5>1. k \in DOMAIN result /\ result'[k] = result[k]
          <6> HIDE DEF queue, key
          <6>1. QED
            BY <2>1, <4>3
        <5>2. QED
          BY <5>1 DEF ResultsListed
      <4>4. QED
        BY <4>1, <4>2, <4>3
    <3>2. QED
      BY <1>1, <3>1 DEF ResultsListed
  <2>5. ASSUME interrupts' = 0, passed' # <<TRUE, TRUE>>, key # "clean"
        PROVE  \/ Reported("none")' \cup Reported("test")' # {}
               \/ \E p \in queue : Deps[p] \cap Lost # {}
    <3>1. ~e.cut
      BY <1>4, <2>1, <2>5 DEF Cut
    <3>2. ~Passes(queue, e, r)
      <4> HIDE DEF r, queue
      <4>1. passed' = <<Passes(queue, e, r), TRUE>>
        BY <2>1 DEF r
      <4>2. Passes(queue, e, r) \in BOOLEAN
        BY DEF Passes
      <4>3. QED
        BY <2>5, <4>1, <4>2
    <3>3. ASSUME NEW p \in queue, Deps[p] \cap Lost = {} PROVE TrackedDeps[p] \subseteq queue
      <4>1. PICK i \in DOMAIN build_list : p = build_list[i]
        BY DEF Elements
      <4>2. TrackedDeps[p] \subseteq ({} \cup Before(build_list, i)) \cup Lost
        BY <1>4, <4>1 DEF OrderedBy, InPlace
      <4>3. Before(build_list, i) \subseteq queue
        BY <1>4, <4>1, LenProperties DEF Before, Elements
      <4>4. TrackedDeps[p] \subseteq Deps[p]
        BY <1>4, <4>1, LenProperties DEF TrackedDeps
      <4>5. QED
        BY <3>3, <4>2, <4>3, <4>4
    <3>4. FailedIn(r) # {} \/ \E p \in queue : Deps[p] \cap Lost # {}
      <4>1. SUFFICES ASSUME \A p \in queue : Deps[p] \cap Lost = {}
                     PROVE  FailedIn(r) # {}
        OBVIOUS
      <4>2. \A p \in queue : TrackedDeps[p] \subseteq queue
        BY <3>3, <4>1
      <4>3. (options.robust \/ options.best_effort) \in BOOLEAN
        OBVIOUS
      <4>4. QED
        BY <3>1, <3>2, <4>2, <4>3, PhaseFails
    <3>5. FailedIn(r) # {} => Reported(key)' # {}
      <4>1. FailedIn(r) \subseteq queue
        BY <2>2 DEF FailedIn
      <4>2. Reported(key)' = queue \cap FailedIn(r)
        BY <1>1, <2>3 DEF Reported, Prior
      <4>3. QED
        BY <4>1, <4>2
    <3>6. key = "none" \/ key = "test"
      BY <2>5, RosMakeAssumption DEF TypeOK, Command, Targets
    <3>7. Reported(key)' \subseteq Reported("none")' \cup Reported("test")'
      <4>1. CASE key = "none"
        BY <1>1, <4>1 DEF Reported, Prior
      <4>2. CASE key = "test"
        BY <1>1, <4>2 DEF Reported, Prior
      <4>3. QED
        BY <3>6, <4>1, <4>2
    <3>8. QED
      BY <3>4, <3>5, <3>7
  <2>6. FailureExplained'
    BY <1>1, <2>5 DEF FailureExplained
  <2>7. QED
    BY <1>3, <2>4, <2>6
<1>7. CASE Test
  <2>1. CASE passed[1] /\ options.testing
    <3> DEFINE queue == options.specified
               r(e) == Results("test", e, {})
    <3>1. PICK e \in PhaseEnds(Phase(queue, TestDeps, TRUE, {}, "test")) :
            /\ Cut(e) /\ Store("test", r(e))
            /\ passed' = [passed EXCEPT ![2] = Passes(queue, e, r(e))]
      BY <1>7, <2>1 DEF Test
    <3>2. DOMAIN r(e) \subseteq Elements(build_list)
      BY <1>4, Ends, ResultsOfPhase
    <3>3. "test" \in DOMAIN result' /\ result'["test"] = r(e)
      BY <3>1 DEF Store
    <3>4. ResultsListed'
      BY <1>1, <3>1, <3>2 DEF ResultsListed, Store
    <3>5. ASSUME interrupts' = 0, passed' # <<TRUE, TRUE>>
          PROVE  Reported("test")' # {} \/ \E p \in Elements(build_list) : Deps[p] \cap Lost # {}
      <4>1. ~e.cut
        BY <1>4, <3>1, <3>5 DEF Cut
      <4>2. ~Passes(queue, e, r(e))
        <5>1. passed \in BOOLEAN \X BOOLEAN /\ passed' \in BOOLEAN \X BOOLEAN
          BY DEF TypeOK
        <5>2. passed'[1] = passed[1] /\ passed'[2] = Passes(queue, e, r(e))
          <6> HIDE DEF r
          <6>1. QED
            BY <3>1, <5>1
        <5>3. passed'[1]
          BY <2>1, <5>2
        <5>4. passed' = <<TRUE, TRUE>> \/ ~passed'[1] \/ ~passed'[2]
          <6>1. PICK x \in BOOLEAN, y \in BOOLEAN : passed' = <<x, y>>
            BY <5>1
          <6>2. passed'[1] = x /\ passed'[2] = y
            BY <6>1
          <6>3. CASE x = TRUE /\ y = TRUE
            BY <6>1, <6>3
          <6>4. CASE x = FALSE \/ y = FALSE
            BY <6>2, <6>4
          <6>5. QED
            BY <6>3, <6>4
        <5>5. QED
          BY <3>5, <5>2, <5>3, <5>4
      <4>3. \A p \in queue : TestDeps[p] \subseteq queue
        BY RosMakeAssumption DEF TestDeps, TypeOK, Command
      <4>4. FailedIn(r(e)) # {} \/ \E p \in Elements(build_list) : Deps[p] \cap Lost # {}
        BY <4>1, <4>2, <4>3, PhaseFails
      <4>5. FailedIn(r(e)) \subseteq Elements(build_list)
        BY <3>2 DEF FailedIn
      <4>6. Reported("test")' = Elements(build_list) \cap FailedIn(r(e))
        BY <1>1, <3>3 DEF Reported, Prior
      <4>7. QED
        BY <4>4, <4>5, <4>6
    <3>6. FailureExplained'
      BY <1>1, <3>5 DEF FailureExplained
    <3>7. QED
      BY <1>3, <3>4, <3>6
  <2>2. CASE ~(passed[1] /\ options.testing)
    <3>1. result' = result /\ passed' = passed /\ interrupts' = interrupts
      BY <1>7, <2>2 DEF Test
    <3>2. Reported("none")' = Reported("none") /\ Reported("test")' = Reported("test")
      BY <1>1, <3>1 DEF Reported, Prior
    <3>3. QED
      BY <1>1, <1>3, <3>1, <3>2 DEF ResultsListed, FailureExplained
  <2>3. QED
    BY <2>1, <2>2
<1>8. QED
  BY <1>5, <1>6, <1>7

\* The initial states satisfy the invariant.
LEMMA InitInv == Init => IInv
<1> SUFFICES ASSUME Init PROVE IInv
  OBVIOUS
<1>1. TypeOK
  <2>1. /\ <<>> \in Seq([pkg : Package, rest : SUBSET Package]) /\ <<>> \in Seq(Package)
        /\ DOMAIN <<>> = {}
    BY EmptySeq
  <2>2. NoBuild \subseteq Package /\ 0 \in 0 .. Cycles /\ 0 \in 0 .. MaxInterrupts
    BY RosMakeAssumption
  <2>3. QED
    BY <2>1, <2>2 DEF Init, TypeOK
<1>2. QED
  BY <1>1
  DEF Init, IInv, NotOrdered, CallsOK, DepsFirst, Visited, Kept, Listed, PhasesTold,
      GoodEnd, MarksLast, MarkedWhenPassed, NotSelected, EarlierFirst, ResultsListed,
      FailureExplained

\* The invariant holds in every reachable state.
LEMMA Invariance == Spec => []IInv
<1>1. IInv /\ [Next]_vars => IInv'
  <2> SUFFICES ASSUME IInv, [Next]_vars PROVE IInv'
    OBVIOUS
  <2>1. TypeOK'
    BY TypeStep DEF IInv
  <2>2. NotOrdered' /\ Kept' /\ Listed' /\ PhasesTold' /\ GoodEnd' /\ MarksLast'
    BY <2>1, BeforePhases, InPhases, AfterPhases DEF Next, Main
  <2>3. NotSelected' /\ EarlierFirst' /\ ResultsListed' /\ FailureExplained'
    BY <2>1, OutsidePhases, OfPhases DEF Next, Main
  <2>4. QED
    BY <2>1, <2>2, <2>3, OrderStep DEF IInv
<1>2. QED
  BY InitInv, <1>1, PTL DEF Spec

\* The types of the state.
THEOREM TypeCorrect == Spec => []TypeOK
<1>1. IInv => TypeOK
  BY DEF IInv
<1>2. QED
  BY Invariance, <1>1, PTL

\* build_or_recurse puts every package behind all its dependencies, also where
\* lost packages stand between them, and lists none twice, whatever the graph.
THEOREM OrderIsRight == Spec => []DepsFirst
<1>1. IInv => DepsFirst
  BY DEF IInv
<1>2. QED
  BY Invariance, <1>1, PTL

\* Status 0 says that what was asked for has been built and tested, and a run
\* of main that ends with FALSE after the phases has its reason in a file.
THEOREM StatusIsTrue == Spec => []StatusTruthful
<1>1. IInv => SuccessTruthful
  BY DEF IInv, GoodEnd, SuccessTruthful, BuiltOK, TestedOK
<1>2. IInv => FailureReported
  BY DEF IInv, FailureExplained, FailureReported
<1>3. QED
  BY Invariance, <1>1, <1>2, PTL DEF StatusTruthful

\* The queue of the build is InOrder in the sense of BuildQueueProofs: a package
\* that waits for nothing outside the list waits only for ones in front of it.
BuildInOrder ==
  pc = "build" =>
    \A i \in DOMAIN build_list :
      /\ build_list[i] \notin Before(build_list, i)
      /\ TrackedDeps[build_list[i]] \subseteq Elements(build_list)
           => TrackedDeps[build_list[i]] \subseteq Before(build_list, i)

\* The tests, which have one thread, are Alone in the sense of BuildQueueProofs:
\* among any of them there is one that waits for none of them, and none waits
\* for a package without tests to run.
TestsAlone ==
  pc = "test" =>
    /\ \A p \in options.specified : TestDeps[p] \subseteq options.specified
    /\ \A S \in SUBSET options.specified : S # {} => \E p \in S : TestDeps[p] \cap S = {}

\* build_or_recurse and --specified-only give every phase a queue for which
\* BuildQueueRefinement!Contract holds (engine.py:344, 829, 886), which is what
\* the steps Build and Test take their outcomes from.
THEOREM PhasesInTurn == Spec => [](BuildInOrder /\ TestsAlone)
<1>1. IInv => BuildInOrder
  <2> SUFFICES ASSUME IInv, pc = "build", NEW i \in DOMAIN build_list
               PROVE  /\ build_list[i] \notin Before(build_list, i)
                      /\ TrackedDeps[build_list[i]] \subseteq Elements(build_list)
                           => TrackedDeps[build_list[i]] \subseteq Before(build_list, i)
    BY DEF BuildInOrder
  <2>1. \A j \in DOMAIN build_list :
          /\ build_list[j] \notin Before(build_list, j) \cup Lost
          /\ TrackedDeps[build_list[j]] \subseteq Before(build_list, j) \cup Lost
    BY DEF IInv, EarlierFirst, OrderedBy, InPlace
  <2>2. Elements(build_list) \cap Lost = {}
    BY <2>1 DEF Elements
  <2>3. QED
    BY <2>1, <2>2
<1>2. IInv => TestsAlone
  <2> SUFFICES ASSUME IInv, pc = "test"
               PROVE  /\ \A p \in options.specified : TestDeps[p] \subseteq options.specified
                      /\ \A S \in SUBSET options.specified :
                           S # {} => \E p \in S : TestDeps[p] \cap S = {}
    BY DEF TestsAlone
  <2>1. /\ build_list \in Seq(Package) /\ options \in Commands
        /\ options.specified \subseteq Elements(build_list)
    BY DEF IInv, TypeOK, Listed, Asked, Required
  <2>2. options.specified \subseteq Package /\ options.specified \cap Lost = {}
    BY <2>1, RosMakeAssumption DEF Command
  <2>3. ASSUME NEW p \in options.specified
        PROVE  TestDeps[p] \subseteq options.specified /\ TestDeps[p] \subseteq TrackedDeps[p]
    BY <2>2, RosMakeAssumption DEF TestDeps, TrackedDeps
  <2>4. ASSUME NEW S \in SUBSET options.specified, S # {} PROVE \E p \in S : TestDeps[p] \cap S = {}
    <3> DEFINE I == {i \in DOMAIN build_list : build_list[i] \in S}
    <3>1. DOMAIN build_list \subseteq Nat
      <4>1. DOMAIN build_list = 1 .. Len(build_list) /\ Len(build_list) \in Nat
        BY <2>1, LenProperties
      <4>2. QED
        BY <4>1
    <3>2. I \subseteq Nat /\ I # {}
      BY <2>1, <2>4, <3>1 DEF Elements
    <3>3. PICK i \in I : \A j \in I : i <= j
      <4> HIDE DEF I
      <4>1. QED
        BY <3>2, Least
    <3>4. Before(build_list, i) \cap S = {}
      <4>1. ASSUME NEW j \in 1 .. i - 1, build_list[j] \in S PROVE FALSE
        <5>1. DOMAIN build_list = 1 .. Len(build_list) /\ Len(build_list) \in Nat
          BY <2>1, LenProperties
        <5>2. j \in I /\ ~(i <= j)
          BY <4>1, <5>1
        <5>3. QED
          BY <3>3, <5>2
      <4>2. QED
        BY <4>1 DEF Before
    <3>5. TrackedDeps[build_list[i]] \subseteq Before(build_list, i) \cup Lost
      BY DEF IInv, EarlierFirst, OrderedBy, InPlace
    <3>6. TestDeps[build_list[i]] \cap S = {}
      BY <2>2, <2>3, <3>4, <3>5
    <3>7. QED
      BY <3>6
  <2>5. QED
    BY <2>3, <2>4
<1>3. QED
  BY Invariance, <1>1, <1>2, PTL

\* --mark-installed marks nothing but what has passed in this run.
THEOREM MarksAreEarned == Spec => []MarkedWhenPassed
<1>1. IInv => MarkedWhenPassed
  BY DEF IInv, MarksLast
<1>2. QED
  BY Invariance, <1>1, PTL
=============================================================================
