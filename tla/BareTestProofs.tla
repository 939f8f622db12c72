--------------------------- MODULE BareTestProofs ---------------------------
(***************************************************************************)
(* Proofs about BareTest: whatever the number of retries, the status is    *)
(* truthful and the results that count are those of the last round.        *)
(***************************************************************************)
EXTENDS BareTest, TLAPS

\* Only processes that were given up run beside the one of this round, which
\* runs only while it is watched or after the verdict.
OnlyExpiredLeft ==
  /\ alive \subseteq expired \cup {round}
  /\ pc \in {"remove", "register", "launch"} => round \notin alive

\* What runTest knows when it judges a round.
Judging ==
  pc = "judge" =>
    IF timed_out THEN round \in expired /\ retry > 0 ELSE round \notin alive

\* A file that is there while no process was given up is of this round.
FileOfThisRound ==
  expired = {} /\ file # "none" /\ pc # "remove" => writer = round

\* runTest stores results at its very end, and then it has some to store.
StoredLast ==
  /\ verdict = "none" <=> pc \notin {"teardown", "exit"}
  /\ results # "none" => verdict = "passed"
  /\ verdict = "passed" /\ ~text_mode => results # "none"
  /\ status # -1 => pc = "exit" /\ status = StatusOf

IInv ==
  /\ TypeOK
  /\ OnlyExpiredLeft
  /\ Judging
  /\ FileOfThisRound
  /\ StoredLast
  /\ ResultOfThisRound

-----------------------------------------------------------------------------

\* The initial states satisfy the invariant.
LEMMA InitInv == Init => IInv
<1> SUFFICES ASSUME Init PROVE IInv
  OBVIOUS
<1>1. TypeOK
  <2>1. retry \in Nat /\ text_mode \in BOOLEAN /\ timed_out \in BOOLEAN
    BY BareTestAssumption DEF Init
  <2>2. QED
    BY <2>1 DEF Init, TypeOK, Contents
<1>2. QED
  BY <1>1 DEF Init, IInv, OnlyExpiredLeft, Judging, FileOfThisRound, StoredLast,
              ResultOfThisRound

\* Every step keeps the types.
LEMMA TypeStep == TypeOK /\ [Next]_vars => TypeOK'
<1> SUFFICES ASSUME TypeOK, [Next]_vars PROVE TypeOK'
  OBVIOUS
<1> USE DEF TypeOK, run, disk, Contents
<1>1. CASE RemoveResults
  BY <1>1 DEF RemoveResults
<1>2. CASE Register
  <2>1. pc' \in {"teardown", "launch"} /\ verdict' \in {verdict, "duplicate"}
    BY <1>2 DEF Register, Fail
  <2>2. registered' \subseteq 1 .. round
    <3>1. registered' \in {registered, {round}} /\ round \in 1 .. round
      BY <1>2 DEF Register
    <3>2. QED
      BY <3>1
  <2>3. QED
    BY <1>2, <2>1, <2>2 DEF Register
<1>3. CASE Launch
  <2>1. pc' \in {"teardown", "watch"} /\ verdict' \in {verdict, "error", "failure"}
    BY <1>3 DEF Launch, Fail
  <2>2. alive' \subseteq 1 .. round
    <3>1. alive' \in {alive, alive \cup {round}} /\ round \in 1 .. round
      BY <1>3 DEF Launch
    <3>2. QED
      BY <3>1
  <2>3. file' \in Contents \cup {"none"} /\ writer' \in 0 .. round
    BY <1>3 DEF Launch
  <2>4. QED
    BY <1>3, <2>1, <2>2, <2>3 DEF Launch
<1>4. CASE Ended
  BY <1>4 DEF Ended
<1>5. CASE TimeUp
  <2>1. pc' \in {"teardown", "judge"} /\ verdict' \in {verdict, "error"}
    BY <1>5 DEF TimeUp, Fail
  <2>2. timed_out' \in BOOLEAN
    BY <1>5 DEF TimeUp
  <2>3. expired' \subseteq 1 .. round
    <3>1. expired' \in {expired, expired \cup {round}} /\ round \in 1 .. round
      BY <1>5 DEF TimeUp
    <3>2. QED
      BY <3>1
  <2>4. QED
    BY <1>5, <2>1, <2>2, <2>3 DEF TimeUp
<1>6. CASE Judge
  <2>1. CASE retry' = retry - 1 /\ round' = round + 1 /\ retry > 0
    BY <1>6, <2>1 DEF Judge, Fail, Read, TestFails, RetryLeft
  <2>2. CASE retry' = retry /\ round' = round
    BY <1>6, <2>2 DEF Judge, Fail, Read, TestFails, RetryLeft
  <2>3. QED
    BY <1>6, <2>1, <2>2 DEF Judge, Fail, RetryLeft
<1>7. CASE TearDown
  BY <1>7 DEF TearDown
<1>8. CASE Exit
  BY <1>8 DEF Exit, StatusOf
<1>9. ASSUME NEW r \in registered, Bury(r) PROVE TypeOK'
  BY <1>9 DEF Bury
<1>10. ASSUME NEW r \in alive, Write(r) PROVE TypeOK'
  BY <1>10 DEF Write
<1>11. ASSUME NEW r \in alive, Die(r) PROVE TypeOK'
  BY <1>11 DEF Die
<1>12. CASE UNCHANGED vars
  BY <1>12 DEF vars
<1>13. QED
  BY <1>1, <1>2, <1>3, <1>4, <1>5, <1>6, <1>7, <1>8, <1>9, <1>10, <1>11, <1>12
  DEF Next, RunTest, MonitorThread

\* How a round is judged: another round, or the verdict.
LEMMA JudgeCases ==
  ASSUME IInv, Judge
  PROVE  /\ \/ pc' = "remove" /\ round' = round + 1 /\ verdict' = verdict /\ results' = results
            \/ /\ pc' = "teardown" /\ round' = round
               /\ \/ verdict' \in {"error", "failure"} /\ results' = results
                  \/ verdict' = "passed" /\ text_mode /\ results' = results
                  \/ verdict' = "passed" /\ ~text_mode /\ ~timed_out /\ file # "none" /\ results' = file
         /\ pc = "judge"
         /\ UNCHANGED <<text_mode, timed_out, expired, alive, registered, disk, status>>
  BY DEF IInv, TypeOK, Judging, Judge, Fail, Read, TestFails, RetryLeft

\* Every step keeps the rest of the invariant.
LEMMA InvStep == IInv /\ TypeOK' /\ [Next]_vars => IInv'
<1> SUFFICES ASSUME IInv, TypeOK', [Next]_vars PROVE IInv'
  OBVIOUS
<1> USE DEF IInv, TypeOK, OnlyExpiredLeft, Judging, FileOfThisRound, StoredLast,
            ResultOfThisRound, run, disk
<1>1. CASE RemoveResults
  BY <1>1 DEF RemoveResults
<1>2. CASE Register
  BY <1>2 DEF Register, Fail
<1>3. CASE Launch
  BY <1>3 DEF Launch, Fail
<1>4. CASE Ended
  BY <1>4 DEF Ended
<1>5. CASE TimeUp
  BY <1>5 DEF TimeUp, Fail
<1>6. CASE Judge
  BY <1>6, JudgeCases
<1>7. CASE TearDown
  BY <1>7 DEF TearDown
<1>8. CASE Exit
  BY <1>8 DEF Exit, StatusOf
<1>9. ASSUME NEW r \in registered, Bury(r) PROVE IInv'
  BY <1>9 DEF Bury, StatusOf
<1>10. ASSUME NEW r \in alive, Write(r) PROVE IInv'
  BY <1>10 DEF Write, StatusOf
<1>11. ASSUME NEW r \in alive, Die(r) PROVE IInv'
  BY <1>11 DEF Die, StatusOf
<1>12. CASE UNCHANGED vars
  BY <1>12 DEF vars, StatusOf
<1>13. QED
  BY <1>1, <1>2, <1>3, <1>4, <1>5, <1>6, <1>7, <1>8, <1>9, <1>10, <1>11, <1>12
  DEF Next, RunTest, MonitorThread

\* The invariant holds in every reachable state.
LEMMA Invariance == Spec => []IInv
<1>1. IInv /\ [Next]_vars => IInv'
  BY TypeStep, InvStep DEF IInv
<1>2. QED
  BY InitInv, <1>1, PTL DEF Spec

\* The types of the state: rounds are counted from 1, and no process, known to
\* the monitor or not, is of a round that has not begun.
THEOREM TypeCorrect == Spec => []TypeOK
<1>1. IInv => TypeOK
  BY DEF IInv
<1>2. QED
  BY Invariance, <1>1, PTL

\* rosunit says 0 only after it has read results without a failure, or could
\* not read them.
THEOREM StatusTruth == Spec => []StatusTruthful
<1>1. IInv => StatusTruthful
  BY DEF IInv, TypeOK, StoredLast, StatusOf, StatusTruthful, Contents
<1>2. QED
  BY Invariance, <1>1, PTL

\* The results that count are of the last round, unless a round was given up.
THEOREM ResultsAreOfThisRound == Spec => []ResultOfThisRound
<1>1. IInv => ResultOfThisRound
  BY DEF IInv
<1>2. QED
  BY Invariance, <1>1, PTL
=============================================================================
