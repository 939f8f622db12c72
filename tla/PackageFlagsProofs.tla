------------------------- MODULE PackageFlagsProofs -------------------------
(***************************************************************************)
(* Proofs about PackageFlags: whatever the packages, their marker files    *)
(* and the number of threads, a tested package is a known one and every    *)
(* answer is right.                                                        *)
(***************************************************************************)
EXTENDS PackageFlags, TLAPS

\* Thread t is in the middle of _check_package_flags.
LookingUp(t) == pc[t] \in {"register", "store", "makefile", "tested"}

\* What the question of t needs to be looked up.
Needed(t) ==
  {goal[t][2]} \cup (IF goal[t][1] = "is_blacklisted" THEN Deps[goal[t][2]] ELSE {})

\* The types, those of the local variables included.
Types ==
  /\ onDisk \subseteq Package
  /\ blacklisted \in [Package -> SUBSET Package]
  /\ nobuild \subseteq onDisk
  /\ nomakefile \subseteq NoMakefile
  /\ packages_tested \subseteq Package
  /\ pc \in [Thread -> {"idle", "check", "register", "store", "makefile", "tested", "next"}]
  /\ todo \in [Thread -> SUBSET Package]
  /\ regs \in [Thread -> SUBSET Package]
  /\ answer \in [Thread -> {"none", "yes", "no"}]
  /\ DOMAIN goal = Thread /\ DOMAIN cur = Thread /\ DOMAIN seen = Thread

\* What a thread knows of its own question.
LocalOK(t) ==
  /\ pc[t] # "idle" \/ answer[t] # "none" => goal[t] \in Kinds \X Package
  /\ pc[t] # "idle" =>
       /\ cur[t] \in Needed(t)
       /\ todo[t] \subseteq Needed(t)
  /\ LookingUp(t) =>
       regs[t] \subseteq {d \in Package : cur[t] \in Blacklist /\ cur[t] \in BlacklistedBy(d)}
  /\ pc[t] = "store" => \E d \in regs[t], b \in BOOLEAN : seen[t] = <<d, b>>
  /\ pc[t] \in {"makefile", "tested"} => regs[t] = {}

\* An entry names blacklisted packages only ...
Sound == \A p \in Package : blacklisted[p] # {} => BlacklistedBy(p) # {}

\* ... a package whose lookup has come this far is known that far ...
Progress(t) ==
  /\ LookingUp(t) /\ cur[t] \in Blacklist =>
       \A d \in ({cur[t]} \cup DependsOn(cur[t])) \ regs[t] : blacklisted[d] # {}
  /\ pc[t] \in {"makefile", "tested"} => (cur[t] \in nobuild <=> cur[t] \in onDisk)
  /\ pc[t] = "tested" => (cur[t] \in nomakefile <=> cur[t] \in NoMakefile)

\* ... and everything a question needs is either still to do or tested.
Covered(t) ==
  pc[t] # "idle" =>
    \A d \in Needed(t) :
      d \in todo[t] \/ d \in packages_tested \/ (d = cur[t] /\ pc[t] # "next")

IInv ==
  /\ Types
  /\ \A t \in Thread : LocalOK(t)
  /\ Sound
  /\ \A t \in Thread : Progress(t)
  /\ TestedMeansKnown
  /\ \A t \in Thread : Covered(t)
  /\ AnswersRight

-----------------------------------------------------------------------------
(* The steps keep each part of the invariant.                              *)

\* Every step keeps the types.
LEMMA TypesStep == IInv /\ [Next]_vars => Types'
<1> SUFFICES ASSUME IInv, [Next]_vars PROVE Types'
  OBVIOUS
<1>1. ASSUME NEW t \in Thread, NEW k \in Kinds, NEW p \in Package, Ask(t, k, p) PROVE Types'
  BY <1>1, FlagsAssumption DEF IInv, Ask, Goto, local, tracker, None, Types, LocalOK, LookingUp, Needed
<1>2. ASSUME NEW t \in Thread, Check(t) PROVE Types'
  <2>1. {cur[t]} \cup DependsOn(cur[t]) \in SUBSET Package
    BY <1>2, FlagsAssumption DEF IInv, Check, Types, LocalOK, Needed, DependsOn, Kinds
  <2>2. regs' \in [Thread -> SUBSET Package]
    BY <1>2, <2>1 DEF IInv, Check, Types
  <2>3. pc' \in [Thread -> {"idle", "check", "register", "store", "makefile", "tested", "next"}]
    BY <1>2 DEF IInv, Check, Goto, Types
  <2>4. QED
    BY <1>2, <2>2, <2>3 DEF IInv, Check, tracker, Types
<1>3. ASSUME NEW t \in Thread, NEW d \in Package, Look(t, d) PROVE Types'
  BY <1>3, FlagsAssumption DEF IInv, Look, Goto, local, tracker, None, Types, LocalOK, LookingUp, Needed
<1>4. ASSUME NEW t \in Thread, Store(t) PROVE Types'
  BY <1>4, FlagsAssumption DEF IInv, Store, Goto, local, tracker, None, Types, LocalOK, LookingUp, Needed
<1>5. ASSUME NEW t \in Thread, LookForNoBuild(t) PROVE Types'
  BY <1>5, FlagsAssumption DEF IInv, LookForNoBuild, Goto, local, tracker, None, Types, LocalOK, LookingUp, Needed
<1>6. ASSUME NEW t \in Thread, LookForMakefile(t) PROVE Types'
  BY <1>6, FlagsAssumption DEF IInv, LookForMakefile, Goto, local, tracker, None, Types, LocalOK, LookingUp, Needed
<1>7. ASSUME NEW t \in Thread, MarkTested(t) PROVE Types'
  BY <1>7, FlagsAssumption DEF IInv, MarkTested, Goto, local, tracker, None, Types, LocalOK, LookingUp, Needed
<1>8. ASSUME NEW t \in Thread, NEW d \in Package, NextDependency(t, d) PROVE Types'
  BY <1>8, FlagsAssumption DEF IInv, NextDependency, Goto, local, tracker, None, Types, LocalOK, LookingUp, Needed
<1>9. ASSUME NEW t \in Thread, Answer(t) PROVE Types'
  BY <1>9, FlagsAssumption DEF IInv, Answer, Goto, Verdict, local, tracker, None, Types, LocalOK, LookingUp, Needed
<1>10. ASSUME NEW p \in Package, AddNoBuild(p) PROVE Types'
  BY <1>10, FlagsAssumption DEF IInv, AddNoBuild, Quiescent, local, tracker, None, Types, LocalOK, LookingUp, Needed
<1>11. ASSUME NEW p \in Package, RemoveNoBuild(p) PROVE Types'
  BY <1>11, FlagsAssumption DEF IInv, RemoveNoBuild, Quiescent, local, tracker, None, Types, LocalOK, LookingUp, Needed
<1>12. ASSUME UNCHANGED vars PROVE Types'
  BY <1>12, FlagsAssumption DEF IInv, vars, local, tracker, None, Types, LocalOK, LookingUp, Needed
<1>13. QED
  BY <1>1, <1>2, <1>3, <1>4, <1>5, <1>6, <1>7, <1>8, <1>9, <1>10, <1>11, <1>12 DEF Next, Step

\* Every step keeps what the threads know of their questions.
LEMMA LocalStep == IInv /\ [Next]_vars => (\A t \in Thread : LocalOK(t))'
<1> SUFFICES ASSUME IInv, [Next]_vars, NEW u \in Thread PROVE LocalOK(u)'
  OBVIOUS
<1>1. ASSUME NEW t \in Thread, NEW k \in Kinds, NEW p \in Package, Ask(t, k, p) PROVE LocalOK(u)'
  BY <1>1, FlagsAssumption DEF IInv, Ask, Goto, local, tracker, None, Types, LocalOK, LookingUp, Needed, DependsOn, BlacklistedBy, Kinds
<1>2. ASSUME NEW t \in Thread, Check(t) PROVE LocalOK(u)'
  BY <1>2, FlagsAssumption DEF IInv, Check, Goto, local, tracker, None, Types, LocalOK, LookingUp, Needed, DependsOn, BlacklistedBy, Kinds
<1>3. ASSUME NEW t \in Thread, NEW d \in Package, Look(t, d) PROVE LocalOK(u)'
  <2>1. CASE u = t
    <3>1. seen'[u] = <<d, blacklisted[d] # {}>> /\ d \in regs'[u] /\ pc'[u] = "store"
      BY <1>3, <2>1 DEF IInv, Look, Goto, Types
    <3>2. goal'[u] = goal[u] /\ cur'[u] = cur[u] /\ todo'[u] = todo[u] /\ regs'[u] = regs[u]
      BY <1>3 DEF Look
    <3>3. LookingUp(u) /\ pc[u] # "idle" /\ LocalOK(u)
      BY <1>3, <2>1 DEF IInv, Look, LookingUp
    <3>4. \E e \in regs'[u], b \in BOOLEAN : seen'[u] = <<e, b>>
      <4>1. (blacklisted[d] # {}) \in BOOLEAN
        OBVIOUS
      <4>2. QED
        BY <3>1, <4>1
    <3>5. QED
      BY <3>1, <3>2, <3>3, <3>4 DEF LocalOK, LookingUp, Needed
  <2>2. CASE u # t
    <3>1. pc'[u] = pc[u] /\ seen'[u] = seen[u]
      BY <1>3, <2>2 DEF IInv, Look, Goto, Types
    <3>2. QED
      BY <1>3, <3>1 DEF IInv, Look, LocalOK, LookingUp, Needed
  <2>3. QED
    BY <2>1, <2>2
<1>4. ASSUME NEW t \in Thread, Store(t) PROVE LocalOK(u)'
  BY <1>4, FlagsAssumption DEF IInv, Store, Goto, local, tracker, None, Types, LocalOK, LookingUp, Needed, DependsOn, BlacklistedBy, Kinds
<1>5. ASSUME NEW t \in Thread, LookForNoBuild(t) PROVE LocalOK(u)'
  BY <1>5, FlagsAssumption DEF IInv, LookForNoBuild, Goto, local, tracker, None, Types, LocalOK, LookingUp, Needed, DependsOn, BlacklistedBy, Kinds
<1>6. ASSUME NEW t \in Thread, LookForMakefile(t) PROVE LocalOK(u)'
  BY <1>6, FlagsAssumption DEF IInv, LookForMakefile, Goto, local, tracker, None, Types, LocalOK, LookingUp, Needed, DependsOn, BlacklistedBy, Kinds
<1>7. ASSUME NEW t \in Thread, MarkTested(t) PROVE LocalOK(u)'
  BY <1>7, FlagsAssumption DEF IInv, MarkTested, Goto, local, tracker, None, Types, LocalOK, LookingUp, Needed, DependsOn, BlacklistedBy, Kinds
<1>8. ASSUME NEW t \in Thread, NEW d \in Package, NextDependency(t, d) PROVE LocalOK(u)'
  BY <1>8, FlagsAssumption DEF IInv, NextDependency, Goto, local, tracker, None, Types, LocalOK, LookingUp, Needed, DependsOn, BlacklistedBy, Kinds
<1>9. ASSUME NEW t \in Thread, Answer(t) PROVE LocalOK(u)'
  BY <1>9, FlagsAssumption DEF IInv, Answer, Goto, Verdict, local, tracker, None, Types, LocalOK, LookingUp, Needed, DependsOn, BlacklistedBy, Kinds
<1>10. ASSUME NEW p \in Package, AddNoBuild(p) PROVE LocalOK(u)'
  BY <1>10, FlagsAssumption DEF IInv, AddNoBuild, Quiescent, local, tracker, None, Types, LocalOK, LookingUp, Needed, DependsOn, BlacklistedBy, Kinds
<1>11. ASSUME NEW p \in Package, RemoveNoBuild(p) PROVE LocalOK(u)'
  BY <1>11, FlagsAssumption DEF IInv, RemoveNoBuild, Quiescent, local, tracker, None, Types, LocalOK, LookingUp, Needed, DependsOn, BlacklistedBy, Kinds
<1>12. ASSUME UNCHANGED vars PROVE LocalOK(u)'
  BY <1>12, FlagsAssumption DEF IInv, vars, local, tracker, None, Types, LocalOK, LookingUp, Needed, DependsOn, BlacklistedBy, Kinds
<1>13. QED
  BY <1>1, <1>2, <1>3, <1>4, <1>5, <1>6, <1>7, <1>8, <1>9, <1>10, <1>11, <1>12 DEF Next, Step

\* No step makes an entry for a package that rests on no blacklisted one.
LEMMA SoundStep == IInv /\ [Next]_vars => Sound'
<1> SUFFICES ASSUME IInv, [Next]_vars PROVE Sound'
  OBVIOUS
<1>1. ASSUME NEW t \in Thread, NEW k \in Kinds, NEW p \in Package, Ask(t, k, p) PROVE Sound'
  BY <1>1, FlagsAssumption DEF IInv, Ask, Goto, local, tracker, None, Types, LocalOK, Sound, LookingUp, BlacklistedBy
<1>2. ASSUME NEW t \in Thread, Check(t) PROVE Sound'
  BY <1>2, FlagsAssumption DEF IInv, Check, Goto, local, tracker, None, Types, LocalOK, Sound, LookingUp, BlacklistedBy
<1>3. ASSUME NEW t \in Thread, NEW d \in Package, Look(t, d) PROVE Sound'
  BY <1>3, FlagsAssumption DEF IInv, Look, Goto, local, tracker, None, Types, LocalOK, Sound, LookingUp, BlacklistedBy
<1>4. ASSUME NEW t \in Thread, Store(t) PROVE Sound'
  BY <1>4, FlagsAssumption DEF IInv, Store, Goto, local, tracker, None, Types, LocalOK, Sound, LookingUp, BlacklistedBy
<1>5. ASSUME NEW t \in Thread, LookForNoBuild(t) PROVE Sound'
  BY <1>5, FlagsAssumption DEF IInv, LookForNoBuild, Goto, local, tracker, None, Types, LocalOK, Sound, LookingUp, BlacklistedBy
<1>6. ASSUME NEW t \in Thread, LookForMakefile(t) PROVE Sound'
  BY <1>6, FlagsAssumption DEF IInv, LookForMakefile, Goto, local, tracker, None, Types, LocalOK, Sound, LookingUp, BlacklistedBy
<1>7. ASSUME NEW t \in Thread, MarkTested(t) PROVE Sound'
  BY <1>7, FlagsAssumption DEF IInv, MarkTested, Goto, local, tracker, None, Types, LocalOK, Sound, LookingUp, BlacklistedBy
<1>8. ASSUME NEW t \in Thread, NEW d \in Package, NextDependency(t, d) PROVE Sound'
  BY <1>8, FlagsAssumption DEF IInv, NextDependency, Goto, local, tracker, None, Types, LocalOK, Sound, LookingUp, BlacklistedBy
<1>9. ASSUME NEW t \in Thread, Answer(t) PROVE Sound'
  BY <1>9, FlagsAssumption DEF IInv, Answer, Goto, Verdict, local, tracker, None, Types, LocalOK, Sound, LookingUp, BlacklistedBy
<1>10. ASSUME NEW p \in Package, AddNoBuild(p) PROVE Sound'
  BY <1>10, FlagsAssumption DEF IInv, AddNoBuild, Quiescent, local, tracker, None, Types, LocalOK, Sound, LookingUp, BlacklistedBy
<1>11. ASSUME NEW p \in Package, RemoveNoBuild(p) PROVE Sound'
  BY <1>11, FlagsAssumption DEF IInv, RemoveNoBuild, Quiescent, local, tracker, None, Types, LocalOK, Sound, LookingUp, BlacklistedBy
<1>12. ASSUME UNCHANGED vars PROVE Sound'
  BY <1>12, FlagsAssumption DEF IInv, vars, local, tracker, None, Types, LocalOK, Sound, LookingUp, BlacklistedBy
<1>13. QED
  BY <1>1, <1>2, <1>3, <1>4, <1>5, <1>6, <1>7, <1>8, <1>9, <1>10, <1>11, <1>12 DEF Next, Step

\* Every step keeps what a lookup has found out.
LEMMA ProgressStep == IInv /\ [Next]_vars => (\A t \in Thread : Progress(t))'
<1> SUFFICES ASSUME IInv, [Next]_vars, NEW u \in Thread PROVE Progress(u)'
  OBVIOUS
<1>1. ASSUME NEW t \in Thread, NEW k \in Kinds, NEW p \in Package, Ask(t, k, p) PROVE Progress(u)'
  BY <1>1, FlagsAssumption DEF IInv, Ask, Goto, local, tracker, None, Types, LocalOK, Progress, LookingUp, DependsOn
<1>2. ASSUME NEW t \in Thread, Check(t) PROVE Progress(u)'
  BY <1>2, FlagsAssumption DEF IInv, Check, Goto, local, tracker, None, Types, LocalOK, Progress, LookingUp, DependsOn
<1>3. ASSUME NEW t \in Thread, NEW d \in Package, Look(t, d) PROVE Progress(u)'
  BY <1>3, FlagsAssumption DEF IInv, Look, Goto, local, tracker, None, Types, LocalOK, Progress, LookingUp, DependsOn
<1>4. ASSUME NEW t \in Thread, Store(t) PROVE Progress(u)'
  BY <1>4, FlagsAssumption DEF IInv, Store, Goto, local, tracker, None, Types, LocalOK, Progress, LookingUp, DependsOn
<1>5. ASSUME NEW t \in Thread, LookForNoBuild(t) PROVE Progress(u)'
  BY <1>5, FlagsAssumption DEF IInv, LookForNoBuild, Goto, local, tracker, None, Types, LocalOK, Progress, LookingUp, DependsOn
<1>6. ASSUME NEW t \in Thread, LookForMakefile(t) PROVE Progress(u)'
  BY <1>6, FlagsAssumption DEF IInv, LookForMakefile, Goto, local, tracker, None, Types, LocalOK, Progress, LookingUp, DependsOn
<1>7. ASSUME NEW t \in Thread, MarkTested(t) PROVE Progress(u)'
  BY <1>7, FlagsAssumption DEF IInv, MarkTested, Goto, local, tracker, None, Types, LocalOK, Progress, LookingUp, DependsOn
<1>8. ASSUME NEW t \in Thread, NEW d \in Package, NextDependency(t, d) PROVE Progress(u)'
  BY <1>8, FlagsAssumption DEF IInv, NextDependency, Goto, local, tracker, None, Types, LocalOK, Progress, LookingUp, DependsOn
<1>9. ASSUME NEW t \in Thread, Answer(t) PROVE Progress(u)'
  BY <1>9, FlagsAssumption DEF IInv, Answer, Goto, Verdict, local, tracker, None, Types, LocalOK, Progress, LookingUp, DependsOn
<1>10. ASSUME NEW p \in Package, AddNoBuild(p) PROVE Progress(u)'
  BY <1>10, FlagsAssumption DEF IInv, AddNoBuild, Quiescent, local, tracker, None, Types, LocalOK, Progress, LookingUp, DependsOn
<1>11. ASSUME NEW p \in Package, RemoveNoBuild(p) PROVE Progress(u)'
  BY <1>11, FlagsAssumption DEF IInv, RemoveNoBuild, Quiescent, local, tracker, None, Types, LocalOK, Progress, LookingUp, DependsOn
<1>12. ASSUME UNCHANGED vars PROVE Progress(u)'
  BY <1>12, FlagsAssumption DEF IInv, vars, local, tracker, None, Types, LocalOK, Progress, LookingUp, DependsOn
<1>13. QED
  BY <1>1, <1>2, <1>3, <1>4, <1>5, <1>6, <1>7, <1>8, <1>9, <1>10, <1>11, <1>12 DEF Next, Step

\* Every step keeps what is known of the tested packages.
LEMMA KnownStep == IInv /\ [Next]_vars => TestedMeansKnown'
<1> SUFFICES ASSUME IInv, [Next]_vars PROVE TestedMeansKnown'
  OBVIOUS
<1>1. ASSUME NEW t \in Thread, NEW k \in Kinds, NEW p \in Package, Ask(t, k, p) PROVE TestedMeansKnown'
  BY <1>1, FlagsAssumption DEF IInv, Ask, Goto, local, tracker, None, Types, LocalOK, Progress, TestedMeansKnown, LookingUp, DependsOn
<1>2. ASSUME NEW t \in Thread, Check(t) PROVE TestedMeansKnown'
  BY <1>2, FlagsAssumption DEF IInv, Check, Goto, local, tracker, None, Types, LocalOK, Progress, TestedMeansKnown, LookingUp, DependsOn
<1>3. ASSUME NEW t \in Thread, NEW d \in Package, Look(t, d) PROVE TestedMeansKnown'
  BY <1>3, FlagsAssumption DEF IInv, Look, Goto, local, tracker, None, Types, LocalOK, Progress, TestedMeansKnown, LookingUp, DependsOn
<1>4. ASSUME NEW t \in Thread, Store(t) PROVE TestedMeansKnown'
  BY <1>4, FlagsAssumption DEF IInv, Store, Goto, local, tracker, None, Types, LocalOK, Progress, TestedMeansKnown, LookingUp, DependsOn
<1>5. ASSUME NEW t \in Thread, LookForNoBuild(t) PROVE TestedMeansKnown'
  BY <1>5, FlagsAssumption DEF IInv, LookForNoBuild, Goto, local, tracker, None, Types, LocalOK, Progress, TestedMeansKnown, LookingUp, DependsOn
<1>6. ASSUME NEW t \in Thread, LookForMakefile(t) PROVE TestedMeansKnown'
  BY <1>6, FlagsAssumption DEF IInv, LookForMakefile, Goto, local, tracker, None, Types, LocalOK, Progress, TestedMeansKnown, LookingUp, DependsOn
<1>7. ASSUME NEW t \in Thread, MarkTested(t) PROVE TestedMeansKnown'
  BY <1>7, FlagsAssumption DEF IInv, MarkTested, Goto, local, tracker, None, Types, LocalOK, Progress, TestedMeansKnown, LookingUp, DependsOn
<1>8. ASSUME NEW t \in Thread, NEW d \in Package, NextDependency(t, d) PROVE TestedMeansKnown'
  BY <1>8, FlagsAssumption DEF IInv, NextDependency, Goto, local, tracker, None, Types, LocalOK, Progress, TestedMeansKnown, LookingUp, DependsOn
<1>9. ASSUME NEW t \in Thread, Answer(t) PROVE TestedMeansKnown'
  BY <1>9, FlagsAssumption DEF IInv, Answer, Goto, Verdict, local, tracker, None, Types, LocalOK, Progress, TestedMeansKnown, LookingUp, DependsOn
<1>10. ASSUME NEW p \in Package, AddNoBuild(p) PROVE TestedMeansKnown'
  BY <1>10, FlagsAssumption DEF IInv, AddNoBuild, Quiescent, local, tracker, None, Types, LocalOK, Progress, TestedMeansKnown, LookingUp, DependsOn
<1>11. ASSUME NEW p \in Package, RemoveNoBuild(p) PROVE TestedMeansKnown'
  BY <1>11, FlagsAssumption DEF IInv, RemoveNoBuild, Quiescent, local, tracker, None, Types, LocalOK, Progress, TestedMeansKnown, LookingUp, DependsOn
<1>12. ASSUME UNCHANGED vars PROVE TestedMeansKnown'
  BY <1>12, FlagsAssumption DEF IInv, vars, local, tracker, None, Types, LocalOK, Progress, TestedMeansKnown, LookingUp, DependsOn
<1>13. QED
  BY <1>1, <1>2, <1>3, <1>4, <1>5, <1>6, <1>7, <1>8, <1>9, <1>10, <1>11, <1>12 DEF Next, Step

\* No step loses sight of a package that a question needs.
LEMMA CoveredStep == IInv /\ [Next]_vars => (\A t \in Thread : Covered(t))'
<1> SUFFICES ASSUME IInv, [Next]_vars, NEW u \in Thread PROVE Covered(u)'
  OBVIOUS
<1>1. ASSUME NEW t \in Thread, NEW k \in Kinds, NEW p \in Package, Ask(t, k, p) PROVE Covered(u)'
  BY <1>1, FlagsAssumption DEF IInv, Ask, Goto, local, tracker, None, Types, LocalOK, Covered, LookingUp, Needed
<1>2. ASSUME NEW t \in Thread, Check(t) PROVE Covered(u)'
  BY <1>2, FlagsAssumption DEF IInv, Check, Goto, local, tracker, None, Types, LocalOK, Covered, LookingUp, Needed
<1>3. ASSUME NEW t \in Thread, NEW d \in Package, Look(t, d) PROVE Covered(u)'
  BY <1>3, FlagsAssumption DEF IInv, Look, Goto, local, tracker, None, Types, LocalOK, Covered, LookingUp, Needed
<1>4. ASSUME NEW t \in Thread, Store(t) PROVE Covered(u)'
  BY <1>4, FlagsAssumption DEF IInv, Store, Goto, local, tracker, None, Types, LocalOK, Covered, LookingUp, Needed
<1>5. ASSUME NEW t \in Thread, LookForNoBuild(t) PROVE Covered(u)'
  BY <1>5, FlagsAssumption DEF IInv, LookForNoBuild, Goto, local, tracker, None, Types, LocalOK, Covered, LookingUp, Needed
<1>6. ASSUME NEW t \in Thread, LookForMakefile(t) PROVE Covered(u)'
  BY <1>6, FlagsAssumption DEF IInv, LookForMakefile, Goto, local, tracker, None, Types, LocalOK, Covered, LookingUp, Needed
<1>7. ASSUME NEW t \in Thread, MarkTested(t) PROVE Covered(u)'
  BY <1>7, FlagsAssumption DEF IInv, MarkTested, Goto, local, tracker, None, Types, LocalOK, Covered, LookingUp, Needed
<1>8. ASSUME NEW t \in Thread, NEW d \in Package, NextDependency(t, d) PROVE Covered(u)'
  BY <1>8, FlagsAssumption DEF IInv, NextDependency, Goto, local, tracker, None, Types, LocalOK, Covered, LookingUp, Needed
<1>9. ASSUME NEW t \in Thread, Answer(t) PROVE Covered(u)'
  BY <1>9, FlagsAssumption DEF IInv, Answer, Goto, Verdict, local, tracker, None, Types, LocalOK, Covered, LookingUp, Needed
<1>10. ASSUME NEW p \in Package, AddNoBuild(p) PROVE Covered(u)'
  BY <1>10, FlagsAssumption DEF IInv, AddNoBuild, Quiescent, local, tracker, None, Types, LocalOK, Covered, LookingUp, Needed
<1>11. ASSUME NEW p \in Package, RemoveNoBuild(p) PROVE Covered(u)'
  BY <1>11, FlagsAssumption DEF IInv, RemoveNoBuild, Quiescent, local, tracker, None, Types, LocalOK, Covered, LookingUp, Needed
<1>12. ASSUME UNCHANGED vars PROVE Covered(u)'
  BY <1>12, FlagsAssumption DEF IInv, vars, local, tracker, None, Types, LocalOK, Covered, LookingUp, Needed
<1>13. QED
  BY <1>1, <1>2, <1>3, <1>4, <1>5, <1>6, <1>7, <1>8, <1>9, <1>10, <1>11, <1>12 DEF Next, Step

\* Every step keeps the answers right.
LEMMA AnswersStep == IInv /\ [Next]_vars => AnswersRight'
<1> SUFFICES ASSUME IInv, [Next]_vars PROVE AnswersRight'
  OBVIOUS
<1>1. ASSUME NEW t \in Thread, NEW k \in Kinds, NEW p \in Package, Ask(t, k, p) PROVE AnswersRight'
  BY <1>1, FlagsAssumption DEF IInv, Ask, Goto, local, tracker, None, Types, LocalOK, Sound, TestedMeansKnown, Covered, AnswersRight, LookingUp, Needed, BlacklistedBy, DependsOn, Kinds
<1>2. ASSUME NEW t \in Thread, Check(t) PROVE AnswersRight'
  BY <1>2, FlagsAssumption DEF IInv, Check, Goto, local, tracker, None, Types, LocalOK, Sound, TestedMeansKnown, Covered, AnswersRight, LookingUp, Needed, BlacklistedBy, DependsOn, Kinds
<1>3. ASSUME NEW t \in Thread, NEW d \in Package, Look(t, d) PROVE AnswersRight'
  BY <1>3, FlagsAssumption DEF IInv, Look, Goto, local, tracker, None, Types, LocalOK, Sound, TestedMeansKnown, Covered, AnswersRight, LookingUp, Needed, BlacklistedBy, DependsOn, Kinds
<1>4. ASSUME NEW t \in Thread, Store(t) PROVE AnswersRight'
  BY <1>4, FlagsAssumption DEF IInv, Store, Goto, local, tracker, None, Types, LocalOK, Sound, TestedMeansKnown, Covered, AnswersRight, LookingUp, Needed, BlacklistedBy, DependsOn, Kinds
<1>5. ASSUME NEW t \in Thread, LookForNoBuild(t) PROVE AnswersRight'
  BY <1>5, FlagsAssumption DEF IInv, LookForNoBuild, Goto, local, tracker, None, Types, LocalOK, Sound, TestedMeansKnown, Covered, AnswersRight, LookingUp, Needed, BlacklistedBy, DependsOn, Kinds
<1>6. ASSUME NEW t \in Thread, LookForMakefile(t) PROVE AnswersRight'
  BY <1>6, FlagsAssumption DEF IInv, LookForMakefile, Goto, local, tracker, None, Types, LocalOK, Sound, TestedMeansKnown, Covered, AnswersRight, LookingUp, Needed, BlacklistedBy, DependsOn, Kinds
<1>7. ASSUME NEW t \in Thread, MarkTested(t) PROVE AnswersRight'
  BY <1>7, FlagsAssumption DEF IInv, MarkTested, Goto, local, tracker, None, Types, LocalOK, Sound, TestedMeansKnown, Covered, AnswersRight, LookingUp, Needed, BlacklistedBy, DependsOn, Kinds
<1>8. ASSUME NEW t \in Thread, NEW d \in Package, NextDependency(t, d) PROVE AnswersRight'
  BY <1>8, FlagsAssumption DEF IInv, NextDependency, Goto, local, tracker, None, Types, LocalOK, Sound, TestedMeansKnown, Covered, AnswersRight, LookingUp, Needed, BlacklistedBy, DependsOn, Kinds
<1>9. ASSUME NEW t \in Thread, Answer(t) PROVE AnswersRight'
  <2> DEFINE p == goal[t][2]
             k == goal[t][1]
             true(j, q) == CASE j = "is_blacklisted" -> BlacklistedBy(q) # {}
                             [] j = "has_nobuild" -> q \in onDisk
                             [] j = "has_makefile" -> q \notin NoMakefile
  <2>1. k \in Kinds /\ p \in Package
    BY <1>9 DEF IInv, Answer, LocalOK
  <2>2. Needed(t) \subseteq packages_tested
    BY <1>9 DEF IInv, Answer, Covered
  <2>3. p \in packages_tested
    BY <2>2 DEF Needed
  <2>4. ASSUME k = "is_blacklisted" PROVE blacklisted[p] # {} <=> BlacklistedBy(p) # {}
    <3>1. Deps[p] \subseteq packages_tested
      BY <2>2, <2>4 DEF Needed
    <3>2. ASSUME BlacklistedBy(p) # {} PROVE blacklisted[p] # {}
      <4>1. PICK q \in ({p} \cup Deps[p]) \cap Blacklist : TRUE
        BY <3>2 DEF BlacklistedBy
      <4>2. q \in packages_tested /\ p \in {q} \cup DependsOn(q)
        BY <2>1, <2>3, <3>1, <4>1 DEF DependsOn
      <4>3. QED
        BY <4>1, <4>2 DEF IInv, TestedMeansKnown
    <3>3. QED
      BY <2>1, <3>2 DEF IInv, Sound
  <2>5. Verdict(k, p) <=> true(k, p)
    BY <2>1, <2>3, <2>4, FlagsAssumption DEF IInv, TestedMeansKnown, Verdict, Kinds
  <2>6. ASSUME NEW u \in Thread, answer'[u] # "none"
        PROVE answer'[u] = "yes" <=> true(goal[u][1], goal[u][2])
    <3>1. CASE u = t
      BY <1>9, <2>5, <3>1 DEF IInv, Answer, Types
    <3>2. CASE u # t
      BY <1>9, <2>6, <3>2 DEF IInv, Answer, Types, AnswersRight
    <3>3. QED
      BY <3>1, <3>2
  <2>7. goal' = goal /\ onDisk' = onDisk
    BY <1>9 DEF Answer
  <2>8. QED
    BY <2>6, <2>7 DEF AnswersRight, BlacklistedBy
<1>10. ASSUME NEW p \in Package, AddNoBuild(p) PROVE AnswersRight'
  BY <1>10, FlagsAssumption DEF IInv, AddNoBuild, Quiescent, local, tracker, None, Types, LocalOK, Sound, TestedMeansKnown, Covered, AnswersRight, LookingUp, Needed, BlacklistedBy, DependsOn, Kinds
<1>11. ASSUME NEW p \in Package, RemoveNoBuild(p) PROVE AnswersRight'
  BY <1>11, FlagsAssumption DEF IInv, RemoveNoBuild, Quiescent, local, tracker, None, Types, LocalOK, Sound, TestedMeansKnown, Covered, AnswersRight, LookingUp, Needed, BlacklistedBy, DependsOn, Kinds
<1>12. ASSUME UNCHANGED vars PROVE AnswersRight'
  BY <1>12, FlagsAssumption DEF IInv, vars, local, tracker, None, Types, LocalOK, Sound, TestedMeansKnown, Covered, AnswersRight, LookingUp, Needed, BlacklistedBy, DependsOn, Kinds
<1>13. QED
  BY <1>1, <1>2, <1>3, <1>4, <1>5, <1>6, <1>7, <1>8, <1>9, <1>10, <1>11, <1>12 DEF Next, Step

-----------------------------------------------------------------------------
(* The theorems.                                                           *)

LEMMA InitIInv == Init => IInv
  BY FlagsAssumption DEF Init, IInv, Types, LocalOK, LookingUp, Sound, Progress,
     TestedMeansKnown, Covered, AnswersRight, None

LEMMA Invariant == Spec => []IInv
<1>1. IInv /\ [Next]_vars => IInv'
  BY TypesStep, LocalStep, SoundStep, ProgressStep, KnownStep, CoveredStep, AnswersStep DEF IInv
<1>2. QED
  BY <1>1, InitIInv, PTL DEF Spec

\* A tested package is a known one, whatever other threads are looking up.
THEOREM Known == Spec => []TestedMeansKnown
<1>1. IInv => TestedMeansKnown
  BY DEF IInv
<1>2. QED
  BY <1>1, Invariant, PTL

\* Every answer is the one that the marker files give.
THEOREM Right == Spec => []AnswersRight
<1>1. IInv => AnswersRight
  BY DEF IInv
<1>2. QED
  BY <1>1, Invariant, PTL
=============================================================================
