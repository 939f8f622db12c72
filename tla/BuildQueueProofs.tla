-------------------------- MODULE BuildQueueProofs --------------------------
(***************************************************************************)
(* Proofs about BuildQueue, for every package list, dependency relation,   *)
(* number of threads and combination of options.                           *)
(***************************************************************************)
EXTENDS BuildQueue, FiniteSetTheorems, TLAPS

USE DEF Packages, Threads

-----------------------------------------------------------------------------

\* can_build answers with two Booleans.
LEMMA CanBuildType ==
  ASSUME NEW p, NEW F
  PROVE  /\ CanBuild(p, F).buildable \in BOOLEAN
         /\ CanBuild(p, F).state \in BOOLEAN
  BY DEF CanBuild

(* Type correctness.                                                       *)

\* The thread that joins has joined everybody exactly when it is done.
JoinInv == joined = T <=> main = "done"

\* The control points at which a thread has a package.
Busy == {"check", "make", "report", "raised"}

BusyInv == \A t \in Threads : pkg[t] # 0 <=> pc[t] \in Busy

TypeInv == TypeOK /\ JoinInv /\ BusyInv

\* Spec => []TypeOK: every variable of the build queue keeps its type.
\* (JoinInv and BusyInv make it inductive: parallel_build_pkgs joins only
\* threads there are, and only real packages are reported.)
THEOREM TypeCorrect == Spec => [](TypeOK /\ TypeInv)
<1> USE QueueAssumption, FlagsAssumption DEF TypeInv, JoinInv, BusyInv, Busy, TypeOK, Positions, Ended, HangLimit, Goto
<1>1. Init => TypeInv
  BY PrebuiltAssumption, PriorAssumption DEF Init, InitWith, IsDone, Completed
<1>2. TypeInv /\ [Next]_vars => TypeInv'
  <2> SUFFICES ASSUME TypeInv, [Next]_vars
               PROVE  TypeInv'
    OBVIOUS
  <2> USE DEF queue, mainVars
  <2>1. ASSUME NEW t \in Threads, Loop(t) PROVE TypeInv'
    BY <2>1 DEF Loop
  <2>2. ASSUME NEW t \in Threads, Enter(t) PROVE TypeInv'
    BY <2>2 DEF Enter
  <2>3. ASSUME NEW t \in Threads, NEW p \in Packages, Take(t, p) PROVE TypeInv'
    <3>1. /\ to_build' \subseteq Packages /\ started' \subseteq Packages
          /\ counter' = 0
          /\ pkg' = [pkg EXCEPT ![t] = p]
          /\ pc' = [pc EXCEPT ![t] = "check"]
      BY <2>3 DEF Take
    <3>2. BusyInv'
      BY <3>1
    <3> QED
      BY <2>3, <3>1, <3>2 DEF Take
  <2>4. ASSUME NEW t \in Threads, GiveUp(t) PROVE TypeInv'
    BY <2>4 DEF GiveUp
  <2>5. ASSUME NEW t \in Threads, Wait(t) PROVE TypeInv'
    BY <2>5 DEF Wait
  <2>6. ASSUME NEW t \in Threads, Wake(t) PROVE TypeInv'
    <3>1. counter' \in 0 .. HangLimit + 1
      BY <2>6 DEF Wake
    <3>2. pc'[t] \in {"exit", "scan"} /\ pc' = [pc EXCEPT ![t] = pc'[t]]
      BY <2>6 DEF Wake
    <3> QED
      BY <2>6, <3>1, <3>2 DEF Wake
  <2>7. ASSUME NEW t \in Threads, Skip(t) PROVE TypeInv'
    BY <2>7 DEF Skip
  <2>8. ASSUME NEW t \in Threads, Check(t) PROVE TypeInv'
    <3> DEFINE verdict == CanBuild(pkg[t], FailedPackages)
    <3>1. verdict.state \in BOOLEAN
      BY CanBuildType
    <3> HIDE DEF verdict
    <3>2. CASE UNCHANGED <<result, ok>>
      BY <2>8, <3>2 DEF Check
    <3>3. CASE /\ result' = [result EXCEPT ![pkg[t]] = AsResult(verdict.state)]
               /\ ok' = [ok EXCEPT ![t] = verdict.state]
      <4>1. AsResult(verdict.state) \in {"none", "true", "false"}
        BY DEF AsResult
      <4>2. result' \in [Packages -> {"none", "true", "false"}]
        BY <3>3, <4>1
      <4>3. ok' \in [Threads -> BOOLEAN]
        BY <3>1, <3>3
      <4> QED
        BY <2>8, <4>2, <4>3 DEF Check
    <3> QED
      BY <2>8, <3>2, <3>3 DEF Check, verdict
  <2>9. ASSUME NEW t \in Threads, Make(t) PROVE TypeInv'
    BY <2>9 DEF Make, AsResult
  <2>10. ASSUME NEW t \in Threads, Raise(t) PROVE TypeInv'
    BY <2>10 DEF Raise, AsResult
  <2>11. ASSUME NEW t \in Threads, Report(t) PROVE TypeInv'
    <3>1. pkg[t] \in Packages
      BY <2>11 DEF Report
    <3>2. built' \subseteq Packages /\ failed' \subseteq Packages
      BY <2>11, <3>1 DEF Report
    <3>3. /\ done' \in BOOLEAN
          /\ pkg' = [pkg EXCEPT ![t] = 0]
          /\ pc'[t] \in {"loop", "stop"}
          /\ \A u \in Threads \ {t} : pc'[u] = pc[u]
          /\ pc' \in [Threads -> Positions]
      BY <2>11 DEF Report
    <3>4. BusyInv'
      BY <3>3
    <3>5. UNCHANGED <<to_build, counter, result, ok, mainVars>> /\ started' \subseteq Packages
      BY <2>11 DEF Report
    <3>6. pkg' \in [Threads -> 0 .. N]
      BY <3>3
    <3> QED
      BY <3>2, <3>3, <3>4, <3>5, <3>6
  <2>12. ASSUME NEW t \in Threads, Stop(t) PROVE TypeInv'
    BY <2>12 DEF Stop
  <2>13. ASSUME NEW t \in Threads, Notify(t) PROVE TypeInv'
    BY <2>13 DEF Notify
  <2>14. ASSUME Main PROVE TypeInv'
    <3>1. CASE Join
      BY <3>1 DEF Join
    <3>2. CASE Interrupt
      <4>1. interrupts' \in 0 .. MaxInterrupts
        BY <3>2 DEF Interrupt
      <4> QED
        BY <3>2, <4>1 DEF Interrupt
    <3>3. CASE MainStop
      BY <3>3 DEF MainStop
    <3>4. CASE MainNotify
      BY <3>4 DEF MainNotify
    <3>5. CASE Abort
      <4>1. interrupts' \in 0 .. MaxInterrupts
        BY <3>5 DEF Abort
      <4> QED
        BY <3>5, <4>1 DEF Abort
    <3> QED
      BY <2>14, <3>1, <3>2, <3>3, <3>4, <3>5 DEF Main
  <2>15. ASSUME UNCHANGED vars PROVE TypeInv'
    BY <2>15 DEF vars
  <2> QED
    BY <2>1, <2>2, <2>3, <2>4, <2>5, <2>6, <2>7, <2>8, <2>9, <2>10, <2>11,
       <2>12, <2>13, <2>14, <2>15 DEF Next, Thread, Terminated
<1>3. TypeInv => TypeOK
  BY DEF TypeInv
<1>4. QED
  BY <1>1, <1>2, <1>3, PTL DEF Spec

-----------------------------------------------------------------------------
(* Who builds what.                                                        *)

\* The steps that move no package.
Quiet == UNCHANGED <<to_build, started, built, failed, pkg>>

\* Only Take and Report move packages.
LEMMA Moves ==
  ASSUME [Next]_vars
  PROVE  \/ Quiet
         \/ \E t \in Threads : Report(t) \/ \E p \in Packages : Take(t, p)
  <1> USE DEF queue, mainVars, Quiet
  <1>1. ASSUME NEW t \in Threads,
               Loop(t) \/ Enter(t) \/ GiveUp(t) \/ Wait(t) \/ Wake(t)
        PROVE  Quiet
    BY <1>1 DEF Loop, Enter, GiveUp, Wait, Wake
  <1>2. ASSUME NEW t \in Threads, Skip(t) \/ Check(t) \/ Make(t) \/ Raise(t)
        PROVE  Quiet
    BY <1>2 DEF Skip, Check, Make, Raise
  <1>3. ASSUME NEW t \in Threads, Stop(t) \/ Notify(t)
        PROVE  Quiet
    BY <1>3 DEF Stop, Notify
  <1>4. ASSUME Main PROVE Quiet
    BY <1>4 DEF Main, Join, Interrupt, MainStop, MainNotify, Abort
  <1>5. ASSUME UNCHANGED vars PROVE Quiet
    BY <1>5 DEF vars
  <1> QED
    BY <1>1, <1>2, <1>3, <1>4, <1>5 DEF Next, Thread, Terminated

\* _started holds exactly the packages the threads have.
HoldInv ==
  /\ \A t \in Threads : pkg[t] # 0 => pkg[t] \in started
  /\ \A p \in started : \E t \in Threads : pkg[t] = p

OwnerInv == ExclusiveBuild /\ HoldInv

\* No package is lost, built twice or built by two threads at once, however
\* the critical sections of the threads are interleaved.
THEOREM Exclusive == Spec => [](ExclusiveBuild /\ OwnerInv)
<1> USE QueueAssumption DEF OwnerInv, ExclusiveBuild, HoldInv
<1>1. Init => OwnerInv
  BY PrebuiltAssumption DEF Init, InitWith
<1>2. TypeInv /\ OwnerInv /\ [Next]_vars => OwnerInv'
  <2> SUFFICES ASSUME TypeInv, OwnerInv, [Next]_vars
               PROVE  OwnerInv'
    OBVIOUS
  <2> USE DEF TypeInv, TypeOK
  <2>1. CASE Quiet
    BY <2>1 DEF Quiet
  <2>2. ASSUME NEW t \in Threads, NEW p \in Packages, Take(t, p)
        PROVE  OwnerInv'
    <3>1. /\ p \in to_build
          /\ pkg[t] = 0
          /\ to_build' = to_build \ {p}
          /\ started' = started \cup {p}
          /\ pkg' = [pkg EXCEPT ![t] = p]
          /\ UNCHANGED <<built, failed>>
      BY <2>2 DEF Take, BusyInv, Busy
    <3>2. \A u \in Threads : pkg[u] # p
      BY <3>1
    <3>3. ExclusiveBuild'
      BY <3>1, <3>2
    <3>4. HoldInv'
      BY <3>1
    <3> QED
      BY <3>3, <3>4
  <2>3. ASSUME NEW t \in Threads, Report(t)
        PROVE  OwnerInv'
    <3>1. /\ pkg[t] \in started
          /\ started' = started \ {pkg[t]}
          /\ pkg' = [pkg EXCEPT ![t] = 0]
          /\ UNCHANGED to_build
      BY <2>3 DEF Report, BusyInv, Busy
    <3>2. \/ built' = built \cup {pkg[t]} /\ failed' = failed
          \/ failed' = failed \cup {pkg[t]} /\ built' = built
      BY <2>3 DEF Report
    <3>3. ExclusiveBuild'
      BY <3>1, <3>2
    <3>4. HoldInv'
      BY <3>1
    <3> QED
      BY <3>3, <3>4
  <2> QED
    BY <2>1, <2>2, <2>3, Moves
<1>3. QED
  BY <1>1, <1>2, TypeCorrect, PTL DEF Spec

-----------------------------------------------------------------------------
(* What is built when.                                                     *)

\* A dependency that is met stays met.
LEMMA MetIsStable ==
  ASSUME NEW d, Met(d), [Next]_vars
  PROVE  Met(d)'
  <1>1. built \subseteq built' /\ failed \subseteq failed'
    BY Moves DEF Quiet, Report, Take
  <1> QED
    BY <1>1 DEF Met

\* A package is built only when everything it depends on is finished.
THEOREM Ordered == Spec => []OrderedBuild
<1> USE DEF OrderedBuild, Ready
<1>1. Init => OrderedBuild
  BY PrebuiltAssumption DEF Init, InitWith
<1>2. TypeInv /\ OrderedBuild /\ [Next]_vars => OrderedBuild'
  <2> SUFFICES ASSUME TypeInv, OrderedBuild, [Next]_vars,
                      NEW u \in Threads, pkg'[u] # 0,
                      NEW d \in Waits[pkg'[u]]
               PROVE  Met(d)'
    BY DEF Met
  <2>1. CASE pkg'[u] = pkg[u]
    BY <2>1, MetIsStable
  <2>2. CASE pkg'[u] # pkg[u]
    <3>1. PICK p \in Packages : Take(u, p)
      BY <2>2, Moves, QueueAssumption DEF Quiet, Take, Report, TypeInv, TypeOK
    <3>2. pkg'[u] = p /\ Ready(p)
      BY <3>1 DEF Take, TypeInv, TypeOK
    <3> QED
      BY <3>2, MetIsStable
  <2> QED
    BY <2>1, <2>2
<1>3. QED
  BY <1>1, <1>2, TypeCorrect, PTL DEF Spec

-----------------------------------------------------------------------------
(* The results of make.                                                    *)

\* RosMakeAll.result agrees with what the queue has been told, or is about
\* to be told; rospack never gets a bad result because it is never made.
ResultInv ==
  /\ \A p \in built \ {Rospack} : result[p] = "true"
  /\ \A p \in failed : result[p] = "false"
  /\ Rospack \in Packages => result[Rospack] # "false"
  /\ \A t \in Threads : pc[t] = "make" => pkg[t] # Rospack
  /\ \A t \in Threads : pc[t] = "report" =>
       IF pkg[t] = Rospack THEN ok[t] ELSE result[pkg[t]] = AsResult(ok[t])

\* The steps that write no result and leave no build() call.
Silent ==
  /\ UNCHANGED <<result, ok, built, failed>>
  /\ \A t \in Threads : pc'[t] \in {"make", "report"} => pc'[t] = pc[t] /\ pkg'[t] = pkg[t]
  /\ \A t \in Threads : pkg'[t] # 0 /\ pkg[t] # 0 => pkg'[t] = pkg[t]

LEMMA SilentSteps ==
  ASSUME TypeInv, [Next]_vars
  PROVE  \/ Silent
         \/ \E t \in Threads : Skip(t) \/ Check(t) \/ Make(t) \/ Raise(t) \/ Report(t)
  <1> USE DEF queue, mainVars, Silent, TypeInv, TypeOK, Goto, BusyInv, Busy
  <1>1. ASSUME NEW t \in Threads, Loop(t) \/ Enter(t) \/ GiveUp(t) \/ Wait(t)
        PROVE  Silent
    BY <1>1 DEF Loop, Enter, GiveUp, Wait
  <1>2. ASSUME NEW t \in Threads, Wake(t)
        PROVE  Silent
    BY <1>2 DEF Wake
  <1>3. ASSUME NEW t \in Threads, NEW p \in Packages, Take(t, p)
        PROVE  Silent
    BY <1>3 DEF Take
  <1>4. ASSUME NEW t \in Threads, Stop(t) \/ Notify(t)
        PROVE  Silent
    BY <1>4 DEF Stop, Notify
  <1>5. ASSUME Main PROVE Silent
    BY <1>5 DEF Main, Join, Interrupt, MainStop, MainNotify, Abort
  <1>6. ASSUME UNCHANGED vars PROVE Silent
    BY <1>6 DEF vars
  <1> QED
    BY <1>1, <1>2, <1>3, <1>4, <1>5, <1>6 DEF Next, Thread, Terminated

\* A result is written for the package of the thread that writes it, which
\* is neither built nor failed and belongs to no other thread.
LEMMA ResultWritten ==
  ASSUME TypeInv, OwnerInv, NEW t \in Threads, pc[t] \in Busy
  PROVE  /\ pkg[t] \in Packages
         /\ pkg[t] \notin built \cup failed
         /\ \A u \in Threads \ {t} : pkg[u] # pkg[t]
  BY DEF TypeInv, TypeOK, BusyInv, OwnerInv, ExclusiveBuild, HoldInv

\* A thread stores the result of its package and goes on to report it.
LEMMA StoredResult ==
  ASSUME TypeInv, OwnerInv, ResultInv, NEW t \in Threads, NEW b \in BOOLEAN,
         pc[t] \in {"check", "make"}, pkg[t] # Rospack,
         result' = [result EXCEPT ![pkg[t]] = AsResult(b)],
         ok' = [ok EXCEPT ![t] = b],
         pc' = [pc EXCEPT ![t] = "report"],
         UNCHANGED <<built, failed, pkg>>
  PROVE  ResultInv'
  <1> DEFINE p == pkg[t]
  <1>1. /\ p \in Packages /\ p \notin built \cup failed
        /\ \A u \in Threads \ {t} : pkg[u] # p
    BY ResultWritten DEF Busy
  <1>2. /\ result'[p] = AsResult(b)
        /\ \A q \in Packages \ {p} : result'[q] = result[q]
    BY <1>1 DEF TypeInv, TypeOK
  <1>3. /\ pc'[t] = "report" /\ ok'[t] = b
        /\ \A u \in Threads \ {t} : pc'[u] = pc[u] /\ ok'[u] = ok[u]
    BY DEF TypeInv, TypeOK
  <1>4. built \subseteq Packages /\ failed \subseteq Packages
    BY DEF TypeInv, TypeOK
  <1>5. /\ \A q \in built' \ {Rospack} : result'[q] = "true"
        /\ \A q \in failed' : result'[q] = "false"
        /\ Rospack \in Packages => result'[Rospack] # "false"
    BY <1>1, <1>2, <1>4 DEF ResultInv
  <1>6. \A u \in Threads : pc'[u] = "make" => pkg'[u] # Rospack
    BY <1>3 DEF ResultInv
  <1>7. ASSUME NEW u \in Threads, pc'[u] = "report"
        PROVE  IF pkg'[u] = Rospack THEN ok'[u] ELSE result'[pkg'[u]] = AsResult(ok'[u])
    <2>1. CASE u = t
      BY <2>1, <1>2, <1>3
    <2>2. CASE u # t
      <3>1. pc[u] = "report" /\ ok'[u] = ok[u] /\ pkg'[u] = pkg[u] /\ pkg[u] # p
        BY <2>2, <1>1, <1>3, <1>7
      <3>2. pkg[u] \in Packages
        BY <3>1, ResultWritten DEF Busy
      <3> QED
        BY <3>1, <3>2, <1>2 DEF ResultInv
    <2> QED
      BY <2>1, <2>2
  <1> QED
    BY <1>5, <1>6, <1>7 DEF ResultInv

LEMMA ResultStep ==
  ASSUME TypeInv, OwnerInv, ResultInv, [Next]_vars
  PROVE  ResultInv'
  <1> USE QueueAssumption DEF TypeInv, TypeOK, ResultInv, queue, mainVars, Goto
  <1>1. CASE Silent
    BY <1>1 DEF Silent
  <1>2. ASSUME NEW t \in Threads, Skip(t) PROVE ResultInv'
    BY <1>2 DEF Skip
  <1>3. ASSUME NEW t \in Threads, Check(t) PROVE ResultInv'
    <2>1. CASE UNCHANGED <<result, ok>> /\ Goto(t, "make")
      BY <1>3, <2>1 DEF Check
    <2>2. CASE \E b \in BOOLEAN : /\ result' = [result EXCEPT ![pkg[t]] = AsResult(b)]
                                  /\ ok' = [ok EXCEPT ![t] = b]
                                  /\ Goto(t, "report")
      <3>1. PICK b \in BOOLEAN : /\ result' = [result EXCEPT ![pkg[t]] = AsResult(b)]
                                 /\ ok' = [ok EXCEPT ![t] = b]
                                 /\ pc' = [pc EXCEPT ![t] = "report"]
        BY <2>2
      <3>2. pkg[t] # Rospack /\ pc[t] = "check" /\ UNCHANGED <<built, failed, pkg>>
        BY <1>3 DEF Check
      <3> QED
        BY <3>1, <3>2, StoredResult
    <2> QED
      BY <1>3, <2>1, <2>2, CanBuildType DEF Check
  <1>4. ASSUME NEW t \in Threads, Make(t) PROVE ResultInv'
    <2>1. PICK b \in BOOLEAN : /\ result' = [result EXCEPT ![pkg[t]] = AsResult(b)]
                               /\ ok' = [ok EXCEPT ![t] = b]
      BY <1>4 DEF Make
    <2>2. /\ pkg[t] # Rospack /\ pc[t] = "make" /\ UNCHANGED <<built, failed, pkg>>
          /\ pc' = [pc EXCEPT ![t] = "report"]
      BY <1>4 DEF Make
    <2> QED
      BY <2>1, <2>2, StoredResult
  <1>5. ASSUME NEW t \in Threads, Raise(t) PROVE ResultInv'
    <2>1. /\ pkg[t] # Rospack /\ pc[t] \in {"check", "make"}
          /\ UNCHANGED <<built, failed, pkg, ok>>
          /\ pc' = [pc EXCEPT ![t] = "raised"]
      BY <1>5 DEF Raise
    <2>2. \A p \in Packages \ {pkg[t]} : result'[p] = result[p]
      BY <1>5 DEF Raise
    <2> QED
      BY <2>1, <2>2, ResultWritten DEF Busy
  <1>6. ASSUME NEW t \in Threads, Report(t) PROVE ResultInv'
    <2>1. /\ UNCHANGED <<result, ok>> /\ pc[t] = "report"
          /\ pkg' = [pkg EXCEPT ![t] = 0]
          /\ pc'[t] \in {"loop", "stop"}
          /\ \A u \in Threads \ {t} : pc'[u] = pc[u] /\ pkg'[u] = pkg[u]
      BY <1>6 DEF Report
    <2>2. CASE ok[t]
      <3>1. built' = built \cup {pkg[t]} /\ failed' = failed
        BY <1>6, <2>2 DEF Report
      <3>2. pkg[t] # Rospack => result[pkg[t]] = "true"
        BY <2>1, <2>2 DEF AsResult
      <3> QED
        BY <2>1, <3>1, <3>2
    <2>3. CASE ~ok[t]
      <3>1. built' = built /\ failed' = failed \cup {pkg[t]}
        BY <1>6, <2>3 DEF Report
      <3>2. pkg[t] # Rospack /\ result[pkg[t]] = "false"
        BY <2>1, <2>3 DEF AsResult
      <3> QED
        BY <2>1, <3>1, <3>2
    <2> QED
      BY <2>2, <2>3
  <1> QED
    BY <1>1, <1>2, <1>3, <1>4, <1>5, <1>6, SilentSteps

\* Results and queue never disagree.
THEOREM ResultsAgree == Spec => []ResultInv
<1>1. Init => ResultInv
  BY QueueAssumption, PrebuiltAssumption, PriorAssumption DEF Init, InitWith, ResultInv
<1>2. QED
  BY <1>1, ResultStep, TypeCorrect, Exclusive, PTL DEF Spec

\* With -k, make is never run on top of a package whose make failed: the
\* results of all dependencies are final when can_build reads them.
THEOREM GoodDeps == Spec => []NoMakeOnFailedDeps
<1> USE QueueAssumption DEF TypeInv, TypeOK, queue, mainVars, Goto
<1>1. Init => NoMakeOnFailedDeps
  BY PrebuiltAssumption DEF Init, InitWith, NoMakeOnFailedDeps
<1>2. TypeInv /\ OwnerInv /\ ResultInv /\ OrderedBuild /\ NoMakeOnFailedDeps
        /\ [Next]_vars => NoMakeOnFailedDeps'
  <2> SUFFICES ASSUME TypeInv, OwnerInv, ResultInv, OrderedBuild,
                      NoMakeOnFailedDeps, [Next]_vars, ~RobustEngine, ~IsTest,
                      NEW u \in Threads, pc'[u] = "make",
                      NEW d \in Waits[pkg'[u]], d # Rospack
               PROVE  result'[d] = "true"
    BY DEF NoMakeOnFailedDeps
  <2>1. CASE pc[u] # "make"
    <3>1. Check(u) /\ pc[u] = "check" /\ pkg'[u] = pkg[u] /\ result' = result
      BY <2>1, SilentSteps DEF Silent, Skip, Check, Make, Raise, Report
    <3>2. pkg[u] \in Packages
      BY <3>1, ResultWritten DEF Busy
    <3>3. CanBuild(pkg[u], FailedPackages).buildable
      BY <3>1 DEF Check
    <3>4. FailedPackages \cap Deps[pkg[u]] = {}
      BY <3>3 DEF CanBuild
    <3>5. d \in built \cup failed
      <4>1. pkg[u] # 0
        BY <3>2
      <4>2. Ready(pkg[u])
        BY <4>1 DEF OrderedBuild
      <4>3. d \in Waits[pkg[u]]
        BY <3>1
      <4> QED
        BY <4>2, <4>3 DEF Ready, Met
    <3>6. d \in Packages /\ d \in Deps[pkg[u]]
      BY <3>1, <3>2, <3>5, WaitsAssumption
    <3>7. result[d] # "false"
      BY <3>4, <3>6 DEF FailedPackages
    <3> QED
      BY <3>1, <3>5, <3>7 DEF ResultInv
  <2>2. CASE pc[u] = "make"
    <3>1. pkg[u] \in Packages /\ pkg'[u] = pkg[u]
      BY <2>2, SilentSteps, ResultWritten DEF Silent, Skip, Check, Make, Raise, Report, Busy
    <3>2. result[d] = "true" /\ d \in built \cup failed
      BY <2>2, <3>1 DEF NoMakeOnFailedDeps, OrderedBuild, Ready, Met
    <3>3. d \in built
      BY <3>2 DEF ResultInv
    <3>4. d \in built'
      BY <3>3, Moves DEF Quiet, Take, Report
    <3>5. ResultInv'
      BY ResultStep
    <3> QED
      BY <3>4, <3>5 DEF ResultInv
  <2> QED
    BY <2>1, <2>2
<1>3. QED
  BY <1>1, <1>2, TypeCorrect, Exclusive, ResultsAgree, Ordered, PTL DEF Spec

-----------------------------------------------------------------------------
(* Stopping.                                                               *)

\* Whoever is past the first statement of stop() has set _done, and once
\* stop() has returned no scan is left that began before.
StopInv ==
  /\ \A t \in Threads : pc[t] = "notify" => done
  /\ main = "notify" => done
  /\ StopReturned => done /\ LockFree

LEMMA StopStep ==
  ASSUME TypeInv, StopInv, [Next]_vars
  PROVE  StopInv'
  <1> USE DEF StopInv, StopReturned, LockFree, TypeInv, TypeOK, queue, mainVars, Goto
  <1>1. ASSUME NEW t \in Threads, Loop(t) \/ Enter(t) PROVE StopInv'
    BY <1>1 DEF Loop, Enter, IsDone
  <1>2. ASSUME NEW t \in Threads, NEW p \in Packages, Take(t, p) PROVE StopInv'
    BY <1>2 DEF Take
  <1>3. ASSUME NEW t \in Threads, GiveUp(t) \/ Wait(t) PROVE StopInv'
    BY <1>3 DEF GiveUp, Wait
  <1>4. ASSUME NEW t \in Threads, Wake(t) PROVE StopInv'
    BY <1>4 DEF Wake, IsDone
  <1>5. ASSUME NEW t \in Threads, Skip(t) \/ Check(t) \/ Make(t) \/ Raise(t) PROVE StopInv'
    BY <1>5 DEF Skip, Check, Make, Raise
  <1>6. ASSUME NEW t \in Threads, Report(t) PROVE StopInv'
    BY <1>6 DEF Report
  <1>7. ASSUME NEW t \in Threads, Stop(t) PROVE StopInv'
    BY <1>7 DEF Stop
  <1>8. ASSUME NEW t \in Threads, Notify(t) PROVE StopInv'
    BY <1>8 DEF Notify
  <1>9. CASE Main
    <2>1. CASE Join
      BY <2>1 DEF Join
    <2>2. CASE Interrupt \/ MainStop
      BY <2>2 DEF Interrupt, MainStop
    <2>3. CASE MainNotify \/ Abort
      BY <2>3 DEF MainNotify, Abort
    <2> QED
      BY <1>9, <2>1, <2>2, <2>3 DEF Main
  <1>10. CASE UNCHANGED vars
    BY <1>10 DEF vars
  <1> QED
    BY <1>1, <1>2, <1>3, <1>4, <1>5, <1>6, <1>7, <1>8, <1>9, <1>10
       DEF Next, Thread, Terminated

\* stop() writes _done without the lock, yet when it returns no thread can
\* start a package any more: its second half waits for the scan under way.
THEOREM NoStart == Spec => NoStartAfterStop
<1>1. Init => StopInv
  BY PrebuiltAssumption DEF Init, InitWith, StopInv, StopReturned, LockFree
<1>2. StopInv /\ [Next]_vars => [StopReturned => started' \subseteq started]_vars
  <2> SUFFICES ASSUME StopInv, [Next]_vars, StopReturned
               PROVE  started' \subseteq started
    BY DEF vars, queue
  <2>1. LockFree
    BY DEF StopInv
  <2> QED
    BY <2>1, Moves DEF Quiet, Take, Report, LockFree
<1>3. QED
  BY <1>1, <1>2, StopStep, TypeCorrect, PTL DEF Spec, NoStartAfterStop

-----------------------------------------------------------------------------
(* What the verdict of parallel_build_pkgs means.                          *)

\* Counting tells whether a set of packages holds them all.
LEMMA AllPackages ==
  ASSUME NEW S \in SUBSET Packages
  PROVE  IsFiniteSet(S) /\ (Cardinality(S) = N <=> S = Packages)
  <1>1. IsFiniteSet(1 .. N) /\ Cardinality(1 .. N) = N
    BY QueueAssumption, FS_Interval
  <1>2. IsFiniteSet(S) /\ (Cardinality(1 .. N) = Cardinality(S) => 1 .. N = S)
    BY <1>1, FS_Subset
  <1> QED
    BY <1>1, <1>2

\* is_completed counts right.
LEMMA CountMeans ==
  ASSUME NEW B \in SUBSET Packages, NEW F \in SUBSET Packages, B \cap F = {}
  PROVE  Cardinality(B) + Cardinality(F) = N <=> B \cup F = Packages
  <1>1. IsFiniteSet(B) /\ IsFiniteSet(F) /\ B \cup F \in SUBSET Packages
    BY AllPackages
  <1>2. /\ Cardinality(B) \in Nat /\ Cardinality(F) \in Nat
        /\ Cardinality(B \cap F) = 0
    BY <1>1, FS_EmptySet, FS_CardinalityType
  <1>3. Cardinality(B \cup F)
          = Cardinality(B) + Cardinality(F) - Cardinality(B \cap F)
    BY <1>1, FS_Union
  <1>4. Cardinality(B \cup F) = Cardinality(B) + Cardinality(F)
    BY <1>2, <1>3
  <1> QED
    BY <1>1, <1>4, AllPackages

LEMMA CompletedMeans ==
  ASSUME TypeOK, ExclusiveBuild
  PROVE  Completed <=> built \cup failed = Packages
  BY CountMeans DEF TypeOK, ExclusiveBuild, Completed

LEMMA SucceededMeans ==
  ASSUME TypeOK
  PROVE  Succeeded <=> built = Packages
  BY AllPackages DEF TypeOK, Succeeded

\* A queue that stops at the first failure has seen one.
Halted == ~RobustQueue /\ failed # {}

\* Nobody else stops the queue, and threads that have been joined have ended.
EndInv ==
  /\ \A t \in Threads : pc[t] \in {"stop", "notify", "halt"} => Halted
  /\ \A t \in Threads : t <= joined => pc[t] \in Ended

LEMMA EndStep ==
  ASSUME TypeInv, EndInv, [Next]_vars
  PROVE  EndInv'
  <1> USE QueueAssumption DEF EndInv, Halted, TypeInv, TypeOK, Ended, queue, mainVars, Goto
  <1>1. ASSUME NEW t \in Threads, Loop(t) \/ Enter(t) PROVE EndInv'
    BY <1>1 DEF Loop, Enter
  <1>2. ASSUME NEW t \in Threads, NEW p \in Packages, Take(t, p) PROVE EndInv'
    BY <1>2 DEF Take
  <1>3. ASSUME NEW t \in Threads, GiveUp(t) \/ Wait(t) PROVE EndInv'
    BY <1>3 DEF GiveUp, Wait
  <1>4. ASSUME NEW t \in Threads, Wake(t) PROVE EndInv'
    BY <1>4 DEF Wake
  <1>5. ASSUME NEW t \in Threads, Skip(t) \/ Check(t) \/ Make(t) \/ Raise(t) PROVE EndInv'
    BY <1>5 DEF Skip, Check, Make, Raise
  <1>6. ASSUME NEW t \in Threads, Report(t) PROVE EndInv'
    <2>1. /\ pc[t] = "report"
          /\ pc'[t] = "stop" => Halted'
          /\ pc'[t] \in {"loop", "stop"}
          /\ failed \subseteq failed'
          /\ \A u \in Threads \ {t} : pc'[u] = pc[u]
          /\ joined' = joined
      BY <1>6 DEF Report
    <2> QED
      BY <2>1
  <1>7. ASSUME NEW t \in Threads, Stop(t) \/ Notify(t) PROVE EndInv'
    BY <1>7 DEF Stop, Notify
  <1>8. CASE Main
    <2>1. CASE Join
      BY <2>1 DEF Join
    <2>2. CASE Interrupt \/ MainStop \/ MainNotify \/ Abort
      BY <2>2 DEF Interrupt, MainStop, MainNotify, Abort
    <2> QED
      BY <1>8, <2>1, <2>2 DEF Main
  <1>9. CASE UNCHANGED vars
    BY <1>9 DEF vars
  <1> QED
    BY <1>1, <1>2, <1>3, <1>4, <1>5, <1>6, <1>7, <1>8, <1>9
       DEF Next, Thread, Terminated

THEOREM Ends == Spec => []EndInv
<1>1. Init => EndInv
  BY QueueAssumption, PrebuiltAssumption DEF Init, InitWith, EndInv
<1>2. QED
  BY <1>1, EndStep, TypeCorrect, PTL DEF Spec

\* rosmake reports success only when every package is built, with a good
\* result, and no thread died or halted on the way.
THEOREM Success == Spec => []SuccessMeansBuilt
<1>1. TypeInv /\ OwnerInv /\ ResultInv /\ EndInv => SuccessMeansBuilt
  <2> SUFFICES ASSUME TypeInv, OwnerInv, ResultInv, EndInv, Passed
               PROVE  /\ \A t \in Threads : pc[t] \in Ended \ {"raised", "halt"}
                      /\ built = Packages
                      /\ \A p \in Packages \ {Rospack} : result[p] = "true"
    BY DEF SuccessMeansBuilt
  <2>1. built = Packages
    BY SucceededMeans DEF Passed, TypeInv
  <2>2. started = {} /\ failed = {}
    BY <2>1 DEF OwnerInv, ExclusiveBuild, TypeInv, TypeOK
  <2>3. ASSUME NEW t \in Threads
        PROVE  pc[t] \in Ended \ {"raised", "halt"}
    <3>1. pc[t] \in Ended
      BY QueueAssumption DEF Passed, EndInv, TypeInv, JoinInv
    <3>2. pc[t] # "halt"
      BY <2>2 DEF EndInv, Halted
    <3>3. pc[t] # "raised"
      BY <2>2 DEF OwnerInv, HoldInv, TypeInv, BusyInv, Busy
    <3> QED
      BY <3>1, <3>2, <3>3
  <2> QED
    BY <2>1, <2>3 DEF ResultInv
<1>2. QED
  BY <1>1, TypeCorrect, Exclusive, ResultsAgree, Ends, PTL

\* The order build_or_recurse gives to build_list: dependencies first.
\* (A package that waits for one outside the list waits for ever.)
InOrder ==
  \A p \in Packages : Waits[p] \subseteq Packages => \A d \in Waits[p] : d < p

\* The tests have one thread, and no order but that nothing depends on itself:
\* among any packages there is one that waits for none of them.
Alone ==
  /\ T = 1
  /\ \A S \in SUBSET Packages : S # {} => \E p \in S : Waits[p] \cap S = {}

\* A package that waits for one outside the list.
Stranded == \E p \in to_build : ~(Waits[p] \subseteq Packages)

\* The ways in which the work of a thread can come to nothing.
ReasonInv ==
  /\ done => built \cup failed = Packages \/ Halted \/ interrupts > 0
  /\ main \in {"stop", "notify", "rejoin"} => interrupts > 0
  /\ \A t \in Threads : pc[t] = "exit" => done \/ to_build = {} \/ built \cup failed = Packages
  /\ \A t \in Threads : pc[t] = "gaveup" => Halted \/ Stranded

\* When nothing is being built, a package that waits for nothing that is left
\* to build waits for a failed package or for one outside the list.
LEMMA NothingStarted ==
  ASSUME TypeOK, ExclusiveBuild, started = {},
         NEW p \in to_build, ~Ready(p),
         Waits[p] \subseteq Packages => Waits[p] \cap to_build = {}
  PROVE  Halted \/ Stranded
  <1>1. CASE ~(Waits[p] \subseteq Packages)
    BY <1>1 DEF Stranded
  <1>2. CASE Waits[p] \subseteq Packages
    <2>1. PICK d \in Waits[p] : ~Met(d)
      BY DEF Ready
    <2>2. d \in Packages /\ d \notin to_build
      BY <1>2, <2>1
    <2>3. d \in failed /\ ~RobustQueue
      BY <2>1, <2>2 DEF Met, ExclusiveBuild
    <2> QED
      BY <2>3 DEF Halted
  <1> QED
    BY <1>1, <1>2

\* Who is stranded is never ready.
LEMMA StrandedStays ==
  ASSUME TypeOK, Stranded, [Next]_vars
  PROVE  Stranded'
  <1>1. PICK p \in to_build : ~(Waits[p] \subseteq Packages)
    BY DEF Stranded
  <1>2. ~Ready(p)
    BY <1>1 DEF Ready, Met, TypeOK
  <1>3. p \in to_build'
    BY <1>1, <1>2, Moves DEF Quiet, Take, Report
  <1> QED
    BY <1>1, <1>3 DEF Stranded

\* A single thread that counts or waits has found nothing ready.
AloneInv ==
  T = 1 =>
    /\ pkg[1] # 0 => counter = 0
    /\ counter > 0 \/ pc[1] = "waiting" => \A p \in to_build : ~Ready(p)

LEMMA AloneStep ==
  ASSUME TypeInv, AloneInv, [Next]_vars
  PROVE  AloneInv'
  <1> SUFFICES ASSUME T = 1
               PROVE  /\ pkg'[1] # 0 => counter' = 0
                      /\ counter' > 0 \/ pc'[1] = "waiting" => \A p \in to_build' : ~Ready(p)'
    BY DEF AloneInv
  <1> USE DEF TypeInv, TypeOK, BusyInv, Busy, queue, mainVars, Goto, Threads
  <1>1. Quiet => \A p : Ready(p)' <=> Ready(p)
    BY DEF Quiet, Ready, Met
  <1> HIDE DEF Ready
  <1>2. CASE Loop(1) \/ Enter(1)
    <2>1. Quiet /\ counter' = counter /\ pc'[1] # "waiting"
      BY <1>2 DEF Loop, Enter, Quiet
    <2> QED
      BY <1>1, <2>1 DEF AloneInv, Quiet
  <1>3. ASSUME NEW p \in Packages, Take(1, p) PROVE AloneInv'
    <2>1. counter' = 0 /\ pc'[1] = "check"
      BY <1>3 DEF Take
    <2> QED
      BY <2>1 DEF AloneInv
  <1>4. CASE GiveUp(1) \/ Wait(1)
    BY <1>1, <1>4 DEF GiveUp, Wait, AloneInv, Quiet
  <1>5. CASE Wake(1)
    BY <1>1, <1>5 DEF Wake, AloneInv, Quiet
  <1>6. CASE Skip(1) \/ Check(1) \/ Make(1) \/ Raise(1)
    <2>1. /\ Quiet /\ counter' = counter
          /\ pc[1] \in Busy /\ pc'[1] # "waiting"
      BY <1>6 DEF Skip, Check, Make, Raise, Quiet
    <2> QED
      BY <1>1, <2>1 DEF AloneInv, Quiet
  <1>7. CASE Report(1)
    <2>1. counter' = counter /\ pc[1] = "report" /\ pc'[1] # "waiting" /\ pkg'[1] = 0
      BY <1>7 DEF Report
    <2> QED
      BY <2>1 DEF AloneInv
  <1>8. CASE Stop(1) \/ Notify(1)
    BY <1>1, <1>8 DEF Stop, Notify, AloneInv, Quiet
  <1>9. CASE Main
    <2>1. Quiet /\ UNCHANGED <<counter, pc>>
      BY <1>9 DEF Main, Join, Interrupt, MainStop, MainNotify, Abort, Quiet
    <2> QED
      BY <1>1, <2>1 DEF AloneInv, Quiet
  <1>10. CASE UNCHANGED vars
    BY <1>1, <1>10 DEF vars, AloneInv, Quiet
  <1> QED
    BY <1>2, <1>3, <1>4, <1>5, <1>6, <1>7, <1>8, <1>9, <1>10
       DEF Next, Thread, Terminated, AloneInv

LEMMA ReasonStep ==
  ASSUME InOrder \/ Alone, TypeInv, OwnerInv, OwnerInv', TypeInv', EndInv, AloneInv,
         ReasonInv, [Next]_vars
  PROVE  ReasonInv'
  <1>a. \A p \in to_build :
           started = {} /\ ~Ready(p) /\ (Waits[p] \subseteq Packages => Waits[p] \cap to_build = {})
             => Halted \/ Stranded
    BY NothingStarted DEF TypeInv, OwnerInv
  <1>0. /\ Stranded => Stranded'
        /\ Halted => Halted'
    <2>1. failed \subseteq failed'
      BY Moves DEF Quiet, Take, Report
    <2> QED
      BY <2>1, StrandedStays DEF Halted, TypeInv
  <1> HIDE DEF Stranded, Halted
  <1> USE <1>0, QueueAssumption DEF ReasonInv, TypeInv, TypeOK, queue, mainVars, Goto
  <1>1. ASSUME NEW t \in Threads, Loop(t) \/ Enter(t) PROVE ReasonInv'
    BY <1>1, CompletedMeans DEF Loop, Enter, IsDone, OwnerInv
  <1>2. ASSUME NEW t \in Threads, NEW p \in Packages, Take(t, p) PROVE ReasonInv'
    BY <1>2 DEF Take
  <1>3. ASSUME NEW t \in Threads, GiveUp(t) PROVE ReasonInv'
    <2>1. started = {} /\ counter > 0
      BY <1>3 DEF GiveUp, Hung, HangLimit
    <2>2. PICK p \in to_build : ~Ready(p) /\ \A q \in to_build : p <= q
      BY <1>3 DEF GiveUp
    <2>3. Halted \/ Stranded
      <3>1. CASE InOrder
        <4>1. Waits[p] \subseteq Packages => \A d \in Waits[p] : d < p
          BY <2>2, <3>1 DEF InOrder
        <4>2. Waits[p] \subseteq Packages => Waits[p] \cap to_build = {}
          <5> SUFFICES ASSUME Waits[p] \subseteq Packages, NEW d \in Waits[p], d \in to_build
                       PROVE  FALSE
            OBVIOUS
          <5>1. d < p /\ p <= d /\ d \in Nat /\ p \in Nat
            BY <2>2, <4>1
          <5> QED
            BY <5>1
        <4> QED
          BY <2>1, <2>2, <4>2, <1>a
      <3>2. CASE Alone
        <4>1. PICK q \in to_build : Waits[q] \cap to_build = {}
          BY <2>2, <3>2 DEF Alone
        <4>2. ~Ready(q)
          BY <2>1, <3>2, <4>1 DEF Alone, AloneInv
        <4> QED
          BY <2>1, <4>1, <4>2, <1>a
      <3> QED
        BY <3>1, <3>2
    <2> QED
      BY <1>3, <2>3 DEF GiveUp
  <1>4. ASSUME NEW t \in Threads, Wait(t) PROVE ReasonInv'
    BY <1>4 DEF Wait
  <1>5. ASSUME NEW t \in Threads, Wake(t) PROVE ReasonInv'
    BY <1>5, CompletedMeans DEF Wake, IsDone, OwnerInv
  <1>6. ASSUME NEW t \in Threads, Skip(t) \/ Check(t) \/ Make(t) \/ Raise(t) PROVE ReasonInv'
    <2>1. /\ UNCHANGED <<to_build, built, failed, done, mainVars>>
          /\ pc'[t] \in {"make", "report", "raised"}
          /\ \A u \in Threads \ {t} : pc'[u] = pc[u]
      BY <1>6 DEF Skip, Check, Make, Raise
    <2> QED
      BY <2>1
  <1>7. ASSUME NEW t \in Threads, Report(t) PROVE ReasonInv'
    <2>1. Completed' <=> (built \cup failed = Packages)'
      BY CountMeans DEF OwnerInv, ExclusiveBuild, Completed
    <2>2. /\ done' <=> done \/ Completed'
          /\ built \subseteq built' /\ failed \subseteq failed'
          /\ pc'[t] \in {"loop", "stop"}
          /\ \A u \in Threads \ {t} : pc'[u] = pc[u]
          /\ UNCHANGED <<to_build, main, interrupts>>
      BY <1>7 DEF Report
    <2>3. built' \cup failed' \subseteq Packages
      OBVIOUS
    <2> QED
      BY <2>1, <2>2, <2>3
  <1>8. ASSUME NEW t \in Threads, Stop(t) \/ Notify(t) PROVE ReasonInv'
    BY <1>8 DEF Stop, Notify, EndInv
  <1>9. CASE Main
    <2>1. CASE Join
      BY <2>1 DEF Join
    <2>2. CASE Interrupt \/ Abort
      <3>1. interrupts' = interrupts + 1 /\ UNCHANGED <<queue, pc>>
        BY <2>2 DEF Interrupt, Abort
      <3>2. interrupts' > 0
        BY <3>1
      <3> QED
        BY <3>1, <3>2
    <2>3. CASE MainStop
      BY <2>3 DEF MainStop
    <2>4. CASE MainNotify
      BY <2>4 DEF MainNotify
    <2> QED
      BY <1>9, <2>1, <2>2, <2>3, <2>4 DEF Main
  <1>10. CASE UNCHANGED vars
    BY <1>10 DEF vars
  <1> QED
    BY <1>1, <1>2, <1>3, <1>4, <1>5, <1>6, <1>7, <1>8, <1>9, <1>10
       DEF Next, Thread, Terminated

\* Whatever the order of the list and the number of threads, what a phase
\* leaves over has a reason.
THEOREM Reasons ==
  ASSUME InOrder \/ Alone
  PROVE  Spec => [](ReasonInv /\ AloneInv)
<1>1. Init => ReasonInv /\ AloneInv
  <2> SUFFICES ASSUME Init PROVE ReasonInv /\ AloneInv
    OBVIOUS
  <2>1. built \in SUBSET Packages /\ failed = {}
    BY QueueAssumption, PrebuiltAssumption DEF Init, InitWith
  <2>2. Completed <=> built \cup failed = Packages
    BY <2>1, CountMeans DEF Completed
  <2>3. ReasonInv
    BY <2>1, <2>2 DEF Init, InitWith, ReasonInv
  <2>4. AloneInv
    BY DEF Init, InitWith, AloneInv
  <2> QED
    BY <2>3, <2>4
<1>2. QED
  BY <1>1, ReasonStep, AloneStep, TypeCorrect, Exclusive, Ends, PTL DEF Spec

\* What has become of the packages when parallel_build_pkgs returns and no
\* exception has ended a thread.
LEMMA LeftOver ==
  ASSUME TypeInv, OwnerInv, EndInv, ReasonInv, Returned
  PROVE  /\ started = {}
         /\ Halted \/ Stranded \/ interrupts > 0 \/ built \cup failed = Packages
  <1>1. \A t \in Threads : pc[t] \in {"exit", "halt", "gaveup"}
    BY QueueAssumption DEF Returned, EndInv, Ended, TypeInv, TypeOK, JoinInv
  <1>2. started = {}
    BY <1>1 DEF OwnerInv, HoldInv, TypeInv, TypeOK, BusyInv, Busy
  <1>3. 1 \in Threads
    BY QueueAssumption
  <1>4. to_build = {} => built \cup failed = Packages
    BY <1>2 DEF OwnerInv, ExclusiveBuild
  <1>5. interrupts > 0 \/ interrupts = 0
    BY QueueAssumption DEF TypeInv, TypeOK
  <1> QED
    BY <1>1, <1>2, <1>3, <1>4 DEF EndInv, ReasonInv

\* A build that does not pass has a failed package, an interrupt or a dead
\* thread to show for it: the hang test never fires in a healthy build and no
\* package is silently left out.  (The list is in dependency order, or there
\* is one thread; and nothing waits for a package outside the list.)
THEOREM Explained ==
  ASSUME InOrder \/ Alone, \A p \in Packages : Waits[p] \subseteq Packages
  PROVE  Spec => []FailureExplained
<1>1. TypeInv /\ OwnerInv /\ ResultInv /\ EndInv /\ ReasonInv => FailureExplained
  <2> SUFFICES ASSUME TypeInv, OwnerInv, ResultInv, EndInv, ReasonInv,
                      main = "done", failed = {}, ~(interrupts > 0),
                      \A t \in Threads : pc[t] # "raised"
               PROVE  Passed
    BY DEF FailureExplained
  <2>1. ~Halted /\ ~Stranded
    BY DEF Halted, Stranded, TypeInv, TypeOK
  <2>2. built = Packages
    BY <2>1, LeftOver DEF Returned
  <2> QED
    BY <2>2, SucceededMeans DEF Passed, TypeInv, ResultInv
<1>2. QED
  BY <1>1, Reasons, TypeCorrect, Exclusive, ResultsAgree, Ends, PTL

-----------------------------------------------------------------------------
(* BuildQueue implements ParallelBuild, for every value of the constants.  *)

\* Closed: _done is set and no scan that has missed it is under way.
Closed == done /\ LockFree

\* A closed queue stays closed.
LEMMA ClosedStays ==
  ASSUME TypeOK, Closed, [Next]_vars
  PROVE  Closed'
  <1> USE DEF Closed, LockFree, TypeOK, IsDone, queue, mainVars, Goto
  <1>1. ASSUME NEW t \in Threads, Loop(t) \/ Enter(t) \/ Wake(t) PROVE Closed'
    BY <1>1 DEF Loop, Enter, Wake
  <1>2. ASSUME NEW t \in Threads,
               GiveUp(t) \/ Wait(t) \/ \E p \in Packages : Take(t, p)
        PROVE  Closed'
    BY <1>2 DEF GiveUp, Wait, Take
  <1>3. ASSUME NEW t \in Threads, Skip(t) \/ Check(t) \/ Make(t) \/ Raise(t) PROVE Closed'
    BY <1>3 DEF Skip, Check, Make, Raise
  <1>4. ASSUME NEW t \in Threads, Report(t) \/ Stop(t) \/ Notify(t) PROVE Closed'
    BY <1>4 DEF Report, Stop, Notify
  <1>5. ASSUME Main PROVE Closed'
    BY <1>5 DEF Main, Join, Interrupt, MainStop, MainNotify, Abort
  <1>6. ASSUME UNCHANGED vars PROVE Closed'
    BY <1>6 DEF vars
  <1> QED
    BY <1>1, <1>2, <1>3, <1>4, <1>5, <1>6 DEF Next, Thread, Terminated

\* The status of the packages, as ParallelBuild sees it.
PlaceOf == [p \in Packages |-> Place(p)]

LEMMA StartStep ==
  ASSUME TypeInv, OwnerInv, NEW t \in Threads, NEW p \in Packages, Take(t, p)
  PROVE  PB!Start(p)
  <1> USE DEF TypeInv, TypeOK
  <1>1. /\ p \in to_build /\ Ready(p) /\ pc[t] = "scan"
        /\ to_build' = to_build \ {p} /\ started' = started \cup {p}
        /\ built' = built /\ failed' = failed
    BY DEF Take
  <1>2. Place(p) = "waiting"
    BY <1>1 DEF Place
  <1>3. PlaceOf' = [PlaceOf EXCEPT ![p] = "building"]
    <2>1. p \notin to_build' /\ p \in started' => Place(p)' = "building"
      BY DEF Place
    <2>2. ASSUME NEW q \in Packages, q # p PROVE Place(q)' = Place(q)
      BY <1>1, <2>2 DEF Place
    <2>3. Place(p)' = "building"
      BY <1>1, <2>1
    <2> QED
      BY <2>2, <2>3 DEF PlaceOf
  <1>4. \A d \in Waits[p] : PB!Settled(d)
    <2> SUFFICES ASSUME NEW d \in Waits[p] PROVE PB!Settled(d)
      OBVIOUS
    <2>1. d \in Packages
      BY <1>1 DEF Ready, Met
    <2>2. d \in built => Place(d) = "built"
      BY DEF Place, OwnerInv, ExclusiveBuild
    <2>3. d \in failed => Place(d) = "failed"
      BY DEF Place, OwnerInv, ExclusiveBuild
    <2> QED
      BY <1>1, <2>1, <2>2, <2>3 DEF PB!Settled, Ready, Met
  <1>5. ~Closed
    BY <1>1 DEF Closed, LockFree
  <1> QED
    BY <1>2, <1>3, <1>4, <1>5 DEF PB!Start, PlaceOf, Closed

LEMMA FinishStep ==
  ASSUME TypeInv, OwnerInv, [Next]_vars, NEW t \in Threads, Report(t)
  PROVE  PB!Finish(pkg[t])
  <1> USE DEF TypeInv, TypeOK
  <1>0. PICK p \in Packages : p = pkg[t]
    BY ResultWritten DEF Report, Busy
  <1>1. p \in started
    BY <1>0, QueueAssumption DEF Packages, OwnerInv, HoldInv
  <1>2. Place(p) = "building"
    BY <1>1 DEF Place, OwnerInv, ExclusiveBuild
  <1>3. /\ to_build' = to_build /\ started' = started \ {p}
        /\ \/ built' = built \cup {p} /\ failed' = failed
           \/ built' = built /\ failed' = failed \cup {p}
    BY <1>0 DEF Report
  <1>4. \E s \in {"built", "failed"} : PlaceOf' = [PlaceOf EXCEPT ![p] = s]
    <2>1. CASE built' = built \cup {p} /\ failed' = failed
      <3>1. Place(p)' = "built"
        BY <1>1, <1>3, <2>1 DEF Place, OwnerInv, ExclusiveBuild
      <3>2. ASSUME NEW q \in Packages, q # p PROVE Place(q)' = Place(q)
        BY <1>3, <2>1, <3>2 DEF Place
      <3>3. PlaceOf' = [PlaceOf EXCEPT ![p] = "built"]
        BY <3>1, <3>2 DEF PlaceOf
      <3> QED
        BY <3>3
    <2>2. CASE built' = built /\ failed' = failed \cup {p}
      <3>1. Place(p)' = "failed"
        BY <1>1, <1>3, <2>2 DEF Place, OwnerInv, ExclusiveBuild
      <3>2. ASSUME NEW q \in Packages, q # p PROVE Place(q)' = Place(q)
        BY <1>3, <2>2, <3>2 DEF Place
      <3>3. PlaceOf' = [PlaceOf EXCEPT ![p] = "failed"]
        BY <3>1, <3>2 DEF PlaceOf
      <3> QED
        BY <3>3
    <2> QED
      BY <1>3, <2>1, <2>2
  <1>5. Closed => Closed'
    BY ClosedStays
  <1> QED
    BY <1>0, <1>2, <1>4, <1>5 DEF PB!Finish, PlaceOf, Closed

\* Every behaviour of the queue, its threads and the thread that joins them
\* is a behaviour of ParallelBuild.
THEOREM Refines == Spec => ImplementsParallelBuild
<1>1. Init => PB!Init
  <2> SUFFICES ASSUME Init PROVE PB!Init
    OBVIOUS
  <2>1. PICK prebuilt \in Prebuilts, prior \in Priors : InitWith(prebuilt, prior)
    BY DEF Init
  <2>2. \A p \in Packages : Place(p) = IF p \in prebuilt THEN "built" ELSE "waiting"
    BY <2>1 DEF InitWith, Place
  <2> QED
    BY <2>1, <2>2 DEF PB!Init
<1>2. TypeInv /\ OwnerInv /\ [Next]_vars => [PB!Next]_(PB!vars)
  <2> SUFFICES ASSUME TypeInv, OwnerInv, [Next]_vars
               PROVE  [PB!Next]_(PB!vars)
    OBVIOUS
  <2>1. CASE Quiet
    <3>1. PlaceOf' = PlaceOf
      <4>1. \A p \in Packages : Place(p)' = Place(p)
        BY <2>1 DEF Quiet, Place
      <4> QED
        BY <4>1 DEF PlaceOf
    <3>2. Closed => Closed'
      BY ClosedStays DEF TypeInv
    <3>3. CASE Closed' = Closed
      BY <3>1, <3>3 DEF PB!vars, PlaceOf, Closed
    <3>4. CASE ~Closed /\ Closed'
      BY <3>1, <3>4 DEF PB!Next, PB!Close, PlaceOf, Closed
    <3> QED
      BY <3>2, <3>3, <3>4 DEF Closed
  <2>2. ASSUME NEW t \in Threads, NEW p \in Packages, Take(t, p)
        PROVE  [PB!Next]_(PB!vars)
    BY <2>2, StartStep DEF PB!Next
  <2>3. ASSUME NEW t \in Threads, Report(t)
        PROVE  [PB!Next]_(PB!vars)
    <3>1. pkg[t] \in Packages
      BY <2>3, ResultWritten DEF Report, Busy
    <3> QED
      BY <2>3, <3>1, FinishStep DEF PB!Next
  <2> QED
    BY <2>1, <2>2, <2>3, Moves
<1>3. QED
  BY <1>1, <1>2, TypeCorrect, Exclusive, PTL DEF Spec, PB!Spec, ImplementsParallelBuild

-----------------------------------------------------------------------------
(* The contract of a phase.                                                *)

\* can_build passes these without make.
Idle == NoBuild \cup NoMakefile

\* p rests on nothing that has failed, in this phase or in an earlier one.
Clear(p, prior) ==
  \/ IsTest
  \/ /\ Waits[p] \subseteq built
     /\ \A d \in Deps[p] \cap to_build : prior[d] # "false"

\* What has been started was ready and still is; the results of what has not
\* been started are those of the beginning.
TurnInv(prebuilt, prior) ==
  /\ prebuilt \subseteq built
  /\ \A p \in started \cup ((built \cup failed) \ prebuilt) : Ready(p)
  /\ \A p \in to_build : result[p] = prior[p]

\* What can_build has decided stays true until the phase is over.
VerdictInv(prior) ==
  \/ RobustEngine
  \/ /\ failed \cap Idle = {}
     /\ \A p \in built \ (Idle \cup {Rospack}) : Clear(p, prior)
     /\ \A t \in Threads : pc[t] = "make" => pkg[t] \notin Idle /\ Clear(pkg[t], prior)
     /\ \A t \in Threads : pc[t] = "report" =>
          IF ok[t] THEN pkg[t] \notin Idle \cup {Rospack} => Clear(pkg[t], prior)
          ELSE pkg[t] \notin Idle

LEMMA TurnStep ==
  ASSUME NEW prebuilt, NEW prior,
         TypeInv, OwnerInv, TurnInv(prebuilt, prior), [Next]_vars
  PROVE  TurnInv(prebuilt, prior)'
  <1>1. \A p \in to_build : result'[p] = result[p]
    <2>1. CASE Silent
      BY <2>1 DEF Silent
    <2>2. ASSUME NEW t \in Threads, Skip(t) \/ Report(t)
          PROVE  \A p \in to_build : result'[p] = result[p]
      BY <2>2 DEF Skip, Report
    <2>3. ASSUME NEW t \in Threads, Check(t) \/ Make(t) \/ Raise(t)
          PROVE  \A p \in to_build : result'[p] = result[p]
      <3>1. pkg[t] \in started
        BY <2>3 DEF Check, Make, Raise, TypeInv, BusyInv, Busy, OwnerInv, HoldInv
      <3>2. \A p \in Packages : p # pkg[t] => result'[p] = result[p]
        BY <2>3 DEF Check, Make, Raise, TypeInv, TypeOK
      <3> QED
        BY <3>1, <3>2 DEF OwnerInv, ExclusiveBuild, TypeInv, TypeOK
    <2> QED
      BY <2>1, <2>2, <2>3, SilentSteps
  <1>2. \A p \in Packages : Ready(p) => Ready(p)'
    BY MetIsStable DEF Ready
  <1>3. started \cup built \cup failed \subseteq Packages
    BY DEF TypeInv, TypeOK
  <1>4. CASE Quiet
    BY <1>1, <1>2, <1>3, <1>4 DEF Quiet, TurnInv
  <1>5. ASSUME NEW t \in Threads, NEW p \in Packages, Take(t, p)
        PROVE  TurnInv(prebuilt, prior)'
    <2>1. /\ Ready(p) /\ built' = built /\ failed' = failed
          /\ started' = started \cup {p} /\ to_build' \subseteq to_build
      BY <1>5 DEF Take
    <2> QED
      BY <1>1, <1>2, <1>3, <2>1 DEF TurnInv
  <1>6. ASSUME NEW t \in Threads, Report(t)
        PROVE  TurnInv(prebuilt, prior)'
    <2>1. pkg[t] \in started
      BY <1>6 DEF Report, TypeInv, BusyInv, Busy, OwnerInv, HoldInv
    <2>2. /\ built \subseteq built' /\ started' \subseteq started /\ to_build' = to_build
          /\ built' \cup failed' \subseteq built \cup failed \cup {pkg[t]}
      BY <1>6 DEF Report
    <2> QED
      BY <1>1, <1>2, <1>3, <2>1, <2>2 DEF TurnInv
  <1> QED
    BY <1>4, <1>5, <1>6, Moves

\* Where can_build finds no failed dependency there is none, and none comes.
LEMMA NoFailureBelow ==
  ASSUME NEW prebuilt, NEW prior, NEW t \in Threads,
         TypeInv, OwnerInv, ResultInv, TurnInv(prebuilt, prior),
         pc[t] = "check", FailedPackages \cap Deps[pkg[t]] = {}
  PROVE  Clear(pkg[t], prior)
  <1> DEFINE p == pkg[t]
  <1>1. p \in Packages /\ p \in started
    <2>1. p \in Packages
      BY ResultWritten DEF Busy
    <2>2. pkg[t] # 0
      BY DEF TypeInv, BusyInv, Busy
    <2> QED
      BY <2>1, <2>2 DEF OwnerInv, HoldInv
  <1>2. CASE IsTest
    BY <1>2 DEF Clear
  <1>3. CASE ~IsTest
    <2>1. \A d \in Deps[p] \cap Packages : result[d] # "false"
      BY <1>3 DEF FailedPackages
    <2>2. \A d \in Waits[p] : d \in built
      <3> SUFFICES ASSUME NEW d \in Waits[p] PROVE d \in built
        OBVIOUS
      <3>1. d \in built \/ d \in failed
        BY <1>1 DEF TurnInv, Ready, Met
      <3>2. d \in Deps[p] /\ d \in Packages
        BY <1>1, <3>1, WaitsAssumption DEF TypeInv, TypeOK
      <3> QED
        BY <2>1, <3>1, <3>2 DEF ResultInv
    <2>3. \A d \in Deps[p] \cap to_build : prior[d] # "false"
      BY <2>1 DEF TurnInv, TypeInv, TypeOK
    <2> QED
      BY <2>2, <2>3 DEF Clear
  <1> QED
    BY <1>2, <1>3

LEMMA VerdictStep ==
  ASSUME NEW prebuilt, NEW prior,
         TypeInv, OwnerInv, ResultInv, TurnInv(prebuilt, prior), VerdictInv(prior),
         [Next]_vars
  PROVE  VerdictInv(prior)'
  <1> SUFFICES ASSUME ~RobustEngine PROVE VerdictInv(prior)'
    BY DEF VerdictInv
  <1>1. \A p : Clear(p, prior) => Clear(p, prior)'
    <2>1. built \subseteq built' /\ to_build' \subseteq to_build
      BY Moves DEF Quiet, Take, Report
    <2> QED
      BY <2>1 DEF Clear
  <1> HIDE DEF Clear
  <1>2. CASE Silent
    BY <1>1, <1>2 DEF Silent, VerdictInv
  <1>3. ASSUME NEW t \in Threads, Skip(t) PROVE VerdictInv(prior)'
    <2>1. /\ pkg' = pkg /\ built' = built /\ failed' = failed /\ pkg[t] = Rospack
          /\ ok'[t] /\ pc'[t] = "report"
          /\ \A u \in Threads \ {t} : pc'[u] = pc[u] /\ ok'[u] = ok[u]
      BY <1>3 DEF Skip, queue, Goto, TypeInv, TypeOK
    <2> QED
      BY <1>1, <2>1 DEF VerdictInv
  <1>4. ASSUME NEW t \in Threads, Check(t) PROVE VerdictInv(prior)'
    <2>1. /\ pc[t] = "check" /\ UNCHANGED <<pkg, built, failed>>
          /\ \A u \in Threads \ {t} : pc'[u] = pc[u] /\ ok'[u] = ok[u]
      BY <1>4 DEF Check, queue, Goto, TypeInv, TypeOK
    <2>2. \/ pc'[t] = "make" /\ CanBuild(pkg[t], FailedPackages).buildable
          \/ pc'[t] = "report" /\ ok'[t] = CanBuild(pkg[t], FailedPackages).state
      BY <1>4 DEF Check, Goto, TypeInv, TypeOK
    <2>3. /\ CanBuild(pkg[t], FailedPackages).buildable =>
               FailedPackages \cap Deps[pkg[t]] = {} /\ pkg[t] \notin Idle
          /\ CanBuild(pkg[t], FailedPackages).state =>
               FailedPackages \cap Deps[pkg[t]] = {} \/ pkg[t] \in Idle
          /\ ~CanBuild(pkg[t], FailedPackages).state => pkg[t] \notin Idle
      BY DEF CanBuild, Idle
    <2>4. FailedPackages \cap Deps[pkg[t]] = {} => Clear(pkg[t], prior)
      BY <2>1, NoFailureBelow
    <2> HIDE DEF CanBuild
    <2>5. \/ pc'[t] = "make" /\ pkg[t] \notin Idle /\ Clear(pkg[t], prior)
          \/ /\ pc'[t] = "report"
             /\ IF ok'[t] THEN pkg[t] \notin Idle => Clear(pkg[t], prior)
                ELSE pkg[t] \notin Idle
      BY <2>2, <2>3, <2>4
    <2> QED
      BY <1>1, <2>1, <2>5 DEF VerdictInv
  <1>5. ASSUME NEW t \in Threads, Make(t) PROVE VerdictInv(prior)'
    <2>1. /\ pc[t] = "make" /\ pc'[t] = "report" /\ UNCHANGED <<pkg, built, failed>>
          /\ \A u \in Threads \ {t} : pc'[u] = pc[u] /\ ok'[u] = ok[u]
      BY <1>5 DEF Make, queue, Goto, TypeInv, TypeOK
    <2> QED
      BY <1>1, <2>1 DEF VerdictInv
  <1>6. ASSUME NEW t \in Threads, Raise(t) PROVE VerdictInv(prior)'
    <2>1. /\ pc'[t] = "raised" /\ UNCHANGED <<pkg, built, failed, ok>>
          /\ \A u \in Threads \ {t} : pc'[u] = pc[u]
      BY <1>6 DEF Raise, queue, Goto, TypeInv, TypeOK
    <2> QED
      BY <1>1, <2>1 DEF VerdictInv
  <1>7. ASSUME NEW t \in Threads, Report(t) PROVE VerdictInv(prior)'
    <2>1. /\ pc[t] = "report" /\ ok' = ok
          /\ built' = IF ok[t] THEN built \cup {pkg[t]} ELSE built
          /\ failed' = IF ok[t] THEN failed ELSE failed \cup {pkg[t]}
      BY <1>7 DEF Report
    <2>2. /\ pc'[t] \notin {"make", "report"}
          /\ \A u \in Threads \ {t} : pc'[u] = pc[u] /\ pkg'[u] = pkg[u]
      BY <1>7 DEF Report, Goto, TypeInv, TypeOK
    <2> QED
      BY <1>1, <2>1, <2>2 DEF VerdictInv
  <1> QED
    BY <1>2, <1>3, <1>4, <1>5, <1>6, <1>7, SilentSteps

LEMMA ContractHolds ==
  ASSUME NEW prebuilt \in Prebuilts, NEW prior \in Priors,
         TypeInv, OwnerInv, ResultInv, EndInv, ReasonInv,
         TurnInv(prebuilt, prior), VerdictInv(prior), Returned
  PROVE  Outcome \in PhaseEnds(Phase(prebuilt, prior))
  <1> DEFINE phase == Phase(prebuilt, prior)
             e == Outcome
  <1>1. /\ phase.queue = Packages /\ phase.waits = Waits /\ phase.deps = Deps
        /\ phase.tolerant = RobustQueue /\ phase.regardless = RobustEngine
        /\ phase.test = IsTest /\ phase.prebuilt = prebuilt /\ phase.rospack = Rospack
        /\ phase.idle = Idle /\ phase.stale = {p \in Packages : prior[p] = "false"}
    BY DEF Phase, Idle
  <1>2. e.built = built /\ e.failed = failed /\ e.cut = (interrupts > 0)
    BY DEF Outcome
  <1>3. e \in Outcomes(Packages)
    BY DEF Outcome, Outcomes, TypeInv, TypeOK
  <1>4. /\ started = {} /\ to_build = Packages \ (built \cup failed)
        /\ Halted \/ Stranded \/ interrupts > 0 \/ built \cup failed = Packages
    BY LeftOver DEF OwnerInv, ExclusiveBuild
  <1>5. built \cap failed = {} /\ built \subseteq Packages /\ failed \subseteq Packages
    BY DEF OwnerInv, ExclusiveBuild, TypeInv, TypeOK
  <1>6. Rospack \notin failed
    BY <1>5 DEF ResultInv
  <1>7. prebuilt \subseteq Packages \cap {Rospack}
    BY PrebuiltAssumption
  <1> HIDE DEF phase, e
  <1>8. InTurn(phase, e)
    BY <1>1, <1>2 DEF InTurn, TurnInv, Ready, Met
  <1>9. Accounted(phase, e)
    BY <1>1, <1>2, <1>4 DEF Accounted, Halted, Stranded
  <1>10. RobustEngine \/ Judged(phase, e)
    <2> SUFFICES ASSUME ~RobustEngine PROVE Judged(phase, e)
      OBVIOUS
    <2>1. failed \cap Idle = {}
      BY DEF VerdictInv
    <2>2. ASSUME ~IsTest, NEW p \in built \ (Idle \cup {Rospack})
          PROVE  /\ Waits[p] \cap failed = {}
                 /\ Deps[p] \cap ({q \in Packages : prior[q] = "false"} \ (built \cup failed)) = {}
      BY <1>4, <1>5, <2>2 DEF VerdictInv, Clear
    <2> QED
      BY <1>1, <1>2, <2>1, <2>2 DEF Judged
  <1> QED
    BY <1>1, <1>2, <1>3, <1>5, <1>6, <1>8, <1>9, <1>10 DEF PhaseEnds, TurnInv, phase, e

\* What a phase has begun with and what follows from it.
PhaseInv(prebuilt, prior) ==
  /\ prebuilt \in Prebuilts
  /\ prior \in Priors
  /\ TurnInv(prebuilt, prior)
  /\ VerdictInv(prior)

LEMMA PhaseStart ==
  ASSUME NEW prebuilt \in Prebuilts, NEW prior \in Priors, InitWith(prebuilt, prior)
  PROVE  PhaseInv(prebuilt, prior)
  BY PrebuiltAssumption DEF PhaseInv, InitWith, TurnInv, VerdictInv

LEMMA PhaseStep ==
  ASSUME NEW prebuilt, NEW prior,
         TypeInv, OwnerInv, ResultInv, PhaseInv(prebuilt, prior), [Next]_vars
  PROVE  PhaseInv(prebuilt, prior)'
  BY TurnStep, VerdictStep DEF PhaseInv

\* The queue, its threads and the thread that joins them keep the contract by
\* which RosMake models a phase, from whatever the phase begins with: a list
\* in dependency order and any number of threads, or one thread.
THEOREM Contract ==
  ASSUME InOrder \/ Alone, NEW prebuilt \in Prebuilts, NEW prior \in Priors
  PROVE  InitWith(prebuilt, prior) /\ [][Next]_vars
           => [](Returned => Outcome \in PhaseEnds(Phase(prebuilt, prior)))
<1>1. InitWith(prebuilt, prior) => Init /\ PhaseInv(prebuilt, prior)
  BY PhaseStart DEF Init
<1>2. TypeInv /\ OwnerInv /\ ResultInv /\ PhaseInv(prebuilt, prior) /\ [Next]_vars
        => PhaseInv(prebuilt, prior)'
  BY PhaseStep
<1>3. TypeInv /\ OwnerInv /\ ResultInv /\ EndInv /\ ReasonInv /\ PhaseInv(prebuilt, prior)
        => (Returned => Outcome \in PhaseEnds(Phase(prebuilt, prior)))
  BY ContractHolds DEF PhaseInv
<1>4. QED
  BY <1>1, <1>2, <1>3, TypeCorrect, Exclusive, ResultsAgree, Ends, Reasons, PTL DEF Spec

\* In every behaviour of the queue the outcome of a phase is among those that
\* the contract admits for something the phase may begin with.
THEOREM KeepsContract ==
  ASSUME InOrder \/ Alone
  PROVE  Spec => []ContractKept
<1> DEFINE SomePhase == \E prebuilt \in Prebuilts, prior \in Priors : PhaseInv(prebuilt, prior)
<1>1. Init => SomePhase
  BY PhaseStart DEF Init
<1>2. TypeInv /\ OwnerInv /\ ResultInv /\ SomePhase /\ [Next]_vars => SomePhase'
  BY PhaseStep
<1>3. TypeInv /\ OwnerInv /\ ResultInv /\ EndInv /\ ReasonInv /\ SomePhase => ContractKept
  BY ContractHolds DEF PhaseInv, ContractKept
<1> HIDE DEF SomePhase
<1>4. QED
  BY <1>1, <1>2, <1>3, TypeCorrect, Exclusive, ResultsAgree, Ends, Reasons, PTL DEF Spec
=============================================================================
