------------------------------ MODULE BareTest ------------------------------
(***************************************************************************)
(* One test run by rosunit: BareTestCase.runTest of tools/rosunit/src/     *)
(* rosunit/baretest.py, called by rosunitmain of rosunit_main.py.          *)
(*                                                                         *)
(* The test is a program of its own.  It may write the file of results,    *)
(* end, crash or hang as it likes; runTest only watches it, and the thread *)
(* of the process monitor (module ProcessMonitor) forgets it when it has   *)
(* died.  Every round of a retry starts a new process under the same name  *)
(* and with the same file of results.                                      *)
(***************************************************************************)
EXTENDS Integers

CONSTANTS
  Retries,     \* the values of retry that are modelled
  TextModes    \* the values of text_mode that are modelled

ASSUME BareTestAssumption ==
  /\ Retries \subseteq Nat
  /\ TextModes \subseteq BOOLEAN

Contents == {"good", "bad", "unreadable"}

VARIABLES
  retry,       \* rounds that are left
  text_mode,
  round,       \* the round runTest is in
  pc,          \* where runTest and rosunitmain are
  timed_out,   \* timeout_failure of this round
  expired,     \* rounds whose process was left running at the time limit
  alive,       \* rounds whose process is running
  registered,  \* rounds whose process the monitor knows, at most one
  file,        \* content of the file of results, "none" when it does not exist
  writer,      \* the round whose process wrote the file
  results,     \* self.results: "none" until runTest stores it
  verdict,     \* how runTest ended: "passed", "failure", "error", "duplicate"
  status       \* exit status of rosunit, -1 while it runs

run == <<retry, text_mode, round, timed_out, expired>>
disk == <<file, writer>>
vars == <<run, pc, alive, registered, disk, results, verdict, status>>

Init ==
  /\ retry \in Retries
  /\ text_mode \in TextModes
  /\ round = 1
  /\ pc = "remove"
  /\ timed_out = FALSE
  /\ expired = {}
  /\ alive = {}
  /\ registered = {}
  /\ file \in Contents \cup {"none"}       \* a previous run may have left one
  /\ writer = 0
  /\ results = "none"
  /\ verdict = "none"
  /\ status = -1

Fail(how) ==
  /\ verdict' = how
  /\ pc' = "teardown"

-----------------------------------------------------------------------------
(* The rounds of runTest.                                                  *)

\* Fault: the results of the previous run stay.
KeepResults ==
  /\ pc = "remove"
  /\ pc' = "register"
  /\ UNCHANGED <<run, alive, registered, disk, results, verdict, status>>

\* The results of a previous run or round are removed first.
RemoveResults ==
  /\ pc = "remove"
  /\ file' = "none"
  /\ writer' = 0
  /\ pc' = "register"
  /\ UNCHANGED <<run, alive, registered, results, verdict, status>>

\* The monitor refuses a second process of the same name: this ends the test
\* with an exception even though retries are left.
Register ==
  /\ pc = "register"
  /\ IF registered # {}
     THEN /\ Fail("duplicate")
          /\ UNCHANGED registered
     ELSE /\ registered' = {round}
          /\ pc' = "launch"
          /\ UNCHANGED verdict
  /\ UNCHANGED <<run, alive, disk, results, status>>

\* LocalProcess.start: it may raise, it may find the process dead already with
\* a bad exit code, or it returns TRUE.
Launch ==
  /\ pc = "launch"
  /\ \/ Fail("error") /\ UNCHANGED <<alive, disk>>
     \/ Fail("failure") /\ UNCHANGED alive
          /\ \/ UNCHANGED disk
             \/ file' \in Contents /\ writer' = round
     \/ /\ alive' = alive \cup {round}
        /\ pc' = "watch"
        /\ UNCHANGED <<verdict, disk>>
  /\ UNCHANGED <<run, registered, results, status>>

Ended ==
  /\ pc = "watch"
  /\ round \notin alive
  /\ timed_out' = FALSE
  /\ pc' = "judge"
  /\ UNCHANGED <<retry, text_mode, round, expired, alive, registered, disk,
                 results, verdict, status>>

\* Fault: after the time limit runTest goes on waiting.
WaitOn ==
  /\ pc = "watch"
  /\ round \in alive
  /\ UNCHANGED vars

\* The time limit: an error without retries; with retries the round counts as
\* failed, and the process goes on.
TimeUp ==
  /\ pc = "watch"
  /\ round \in alive
  /\ IF retry = 0
     THEN /\ Fail("error")
          /\ UNCHANGED <<timed_out, expired>>
     ELSE /\ timed_out' = TRUE
          /\ expired' = expired \cup {round}
          /\ pc' = "judge"
          /\ UNCHANGED verdict
  /\ UNCHANGED <<retry, text_mode, round, alive, registered, disk, results, status>>

\* junitxml.read: a file it cannot read counts as a result without failures.
Read == file

TestFails == timed_out \/ Read = "bad"

RetryLeft == retry > 0

\* In text mode there are no results to read, and a retry stumbles over a
\* variable that has not been set.
Judge ==
  /\ pc = "judge"
  /\ CASE text_mode /\ retry > 0 ->
            Fail("error") /\ UNCHANGED <<retry, round, results>>
       [] text_mode /\ retry = 0 ->
            Fail("passed") /\ UNCHANGED <<retry, round, results>>
       [] ~text_mode /\ ~timed_out /\ Read = "none" ->
            Fail("failure") /\ UNCHANGED <<retry, round, results>>
       [] ~text_mode /\ (timed_out \/ Read # "none") /\ TestFails /\ RetryLeft ->
            /\ retry' = retry - 1
            /\ round' = round + 1
            /\ pc' = "remove"
            /\ UNCHANGED <<verdict, results>>
       [] OTHER ->
            /\ results' = Read
            /\ Fail("passed")
            /\ UNCHANGED <<retry, round>>
  /\ UNCHANGED <<text_mode, timed_out, expired, alive, registered, disk, status>>

-----------------------------------------------------------------------------
(* The processes of the test and the thread of the process monitor.        *)

Write(r) ==
  /\ r \in alive
  /\ file' \in Contents
  /\ writer' = r
  /\ UNCHANGED <<run, pc, alive, registered, results, verdict, status>>

Die(r) ==
  /\ r \in alive
  /\ alive' = alive \ {r}
  /\ UNCHANGED <<run, pc, registered, disk, results, verdict, status>>

\* The monitor unregisters a process that has been started and is dead.
Bury(r) ==
  /\ r \in registered \ alive
  /\ ~(r = round /\ pc = "launch")
  /\ registered' = registered \ {r}
  /\ UNCHANGED <<run, pc, alive, disk, results, verdict, status>>

-----------------------------------------------------------------------------
(* tearDown, and the end of rosunitmain.                                   *)

\* The monitor stops every process it knows and ends.
TearDown ==
  /\ pc = "teardown"
  /\ alive' = alive \ registered
  /\ registered' = {}
  /\ pc' = "exit"
  /\ UNCHANGED <<run, disk, results, verdict, status>>

\* Fault: the runner's own verdict is not looked at.
StatusOfResults == IF results = "bad" THEN 2 ELSE 0

\* 1: the runner saw a failure or an error; 2: the results name one.  In text
\* mode the runner's verdict is not kept, so the status is always 0.
StatusOf ==
  CASE ~text_mode /\ verdict # "passed" -> 1
    [] results = "bad" -> 2
    [] OTHER -> 0

Exit ==
  /\ pc = "exit"
  /\ status = -1
  /\ status' = StatusOf
  /\ UNCHANGED <<run, pc, alive, registered, disk, results, verdict>>

RunTest ==
  \/ RemoveResults \/ Register \/ Launch \/ Ended \/ TimeUp \/ Judge
  \/ TearDown \/ Exit

MonitorThread == \E r \in registered : Bury(r)

Next ==
  \/ RunTest
  \/ MonitorThread
  \/ \E r \in alive : Write(r) \/ Die(r)

\* The two threads of rosunit are scheduled; the test may hang.
Spec == Init /\ [][Next]_vars /\ WF_vars(RunTest) /\ WF_vars(MonitorThread)

-----------------------------------------------------------------------------
(* Properties.                                                             *)

TypeOK ==
  /\ retry \in Nat
  /\ text_mode \in BOOLEAN
  /\ round \in Nat \ {0}
  /\ pc \in {"remove", "register", "launch", "watch", "judge", "teardown", "exit"}
  /\ timed_out \in BOOLEAN
  /\ expired \subseteq 1 .. round
  /\ alive \subseteq 1 .. round
  /\ registered \subseteq 1 .. round
  /\ file \in Contents \cup {"none"}
  /\ writer \in 0 .. round
  /\ results \in Contents \cup {"none"}
  /\ verdict \in {"none", "passed", "failure", "error", "duplicate"}
  /\ status \in -1 .. 2

\* Status 0 outside text mode means that a file of results was there and named
\* no failure, or could not be read: junitxml.read (junitxml.py:319) takes an
\* unreadable file for one without failures.
StatusTruthful ==
  status = 0 /\ ~text_mode => results \in {"good", "unreadable"}

\* The results that count were written by the process of the last round,
\* unless an earlier round was given up at its time limit: its process goes on
\* and may write after the file was removed (baretest.py:124).
ResultOfThisRound ==
  results # "none" /\ expired = {} => writer = round



\* The test ends, even if its process hangs.
TestEnds == <>(status # -1)
=============================================================================
