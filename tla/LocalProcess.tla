---------------------------- MODULE LocalProcess ----------------------------
(***************************************************************************)
(* LocalProcess of tools/rosunit/src/rosunit/baretest.py: one child        *)
(* process of the operating system and its start(), is_alive() and stop(), *)
(* called by several threads.  start() and stop() hold the lock of the     *)
(* process, is_alive() does not.                                           *)
(*                                                                         *)
(* A thread that makes a call names it in call[t] and goes on when         *)
(* call[t] is "none" again; ret[t] is then what is_alive returned.  What   *)
(* start and stop return is not read by the monitor and left out.          *)
(*                                                                         *)
(* child[p] is the operating system's view of the newest child of p; a     *)
(* child that was sent SIGKILL is "killed", running or not.                *)
(***************************************************************************)
EXTENDS Naturals, Sequences

CONSTANTS
  Thread,
  Proc    \* the Process objects

VARIABLES
  started, stopped, popen,  \* the fields of each process; popen: is not None
  lock,                     \* the thread that holds the lock of p, if any
  child,
  call, on, ret             \* what thread t calls, on which process; what is_alive said

process == <<started, stopped, popen, lock, child>>
calls == <<call, on, ret>>
local == <<process, calls>>

Calls == {"none", "is_alive", "poll", "start", "spawn", "stop", "sigint", "sigterm"}

LocalInit ==
  /\ started = [p \in Proc |-> FALSE]
  /\ stopped = [p \in Proc |-> FALSE]
  /\ popen = [p \in Proc |-> FALSE]
  /\ lock = [p \in Proc |-> {}]
  /\ child = [p \in Proc |-> "none"]
  /\ call = [t \in Thread |-> "none"]
  /\ on = [t \in Thread |-> {}]
  /\ ret = [t \in Thread |-> "none"]

\* Thread t calls operation c on p, or is back from it with result r.
Invoke(t, c, p) ==
  /\ call' = [call EXCEPT ![t] = c]
  /\ on' = [on EXCEPT ![t] = {p}]
  /\ ret' = [ret EXCEPT ![t] = "none"]
  /\ UNCHANGED process

At(t, c, p) == call[t] = c /\ on[t] = {p}

Return(t, r) ==
  /\ call' = [call EXCEPT ![t] = "none"]
  /\ on' = [on EXCEPT ![t] = {}]
  /\ ret' = [ret EXCEPT ![t] = r]

Goto(t, c) == call' = [call EXCEPT ![t] = c] /\ UNCHANGED <<on, ret>>

-----------------------------------------------------------------------------
(* is_alive                                                                *)

IsAlive(t, p) ==
  /\ At(t, "is_alive", p)
  /\ \/ ~started[p] /\ Return(t, "true")
     \/ started[p] /\ (stopped[p] \/ ~popen[p]) /\ Return(t, "false")
     \/ started[p] /\ ~stopped[p] /\ popen[p] /\ Goto(t, "poll")
  /\ UNCHANGED process

\* popen is read a second time: None has no poll().
Poll(t, p) ==
  /\ At(t, "poll", p)
  /\ Return(t, IF ~popen[p] THEN "raise"
               ELSE IF child[p] = "running" THEN "true" ELSE "false")
  /\ UNCHANGED process

-----------------------------------------------------------------------------
(* start                                                                   *)

Start(t, p) ==
  /\ At(t, "start", p)
  /\ lock[p] = {}
  /\ lock' = [lock EXCEPT ![p] = {t}]
  /\ started' = [started EXCEPT ![p] = FALSE]
  /\ stopped' = [stopped EXCEPT ![p] = FALSE]
  /\ Goto(t, "spawn")
  /\ UNCHANGED <<popen, child>>

\* Popen raises or makes a child, which may already have failed when start()
\* looks; started is set in every case, or is_alive would take the process for
\* one that is still to be started.
Spawn(t, p) ==
  /\ At(t, "spawn", p)
  /\ \/ UNCHANGED <<popen, child>>
     \/ /\ popen' = [popen EXCEPT ![p] = TRUE]
        /\ \E c \in {"running", "exited"} : child' = [child EXCEPT ![p] = c]
  /\ Return(t, "none")
  /\ started' = [started EXCEPT ![p] = TRUE]
  /\ lock' = [lock EXCEPT ![p] = {}]
  /\ UNCHANGED stopped

-----------------------------------------------------------------------------
(* stop                                                                    *)

\* The end of stop(): the handle is dropped, the lock given back.
Stopped(t, p) ==
  /\ popen' = [popen EXCEPT ![p] = FALSE]
  /\ stopped' = [stopped EXCEPT ![p] = TRUE]
  /\ lock' = [lock EXCEPT ![p] = {}]
  /\ Return(t, "none")
  /\ UNCHANGED started

\* Fault: a child that is still running is left alone.
StopUnlessRunning(t, p) ==
  /\ At(t, "stop", p)
  /\ lock[p] = {}
  /\ Stopped(t, p) /\ UNCHANGED child

\* Nothing to kill, or a child that has exited already; otherwise SIGINT.
Stop(t, p) ==
  /\ At(t, "stop", p)
  /\ lock[p] = {}
  /\ IF popen[p] /\ child[p] = "running"
     THEN /\ lock' = [lock EXCEPT ![p] = {t}]
          /\ Goto(t, "sigint")
          /\ UNCHANGED <<started, stopped, popen, child>>
     ELSE Stopped(t, p) /\ UNCHANGED child

\* The child answers SIGINT or SIGTERM within its time ...
Answered(t, p) ==
  /\ At(t, "sigint", p) \/ At(t, "sigterm", p)
  /\ child[p] # "running"
  /\ Stopped(t, p)
  /\ UNCHANGED child

\* Fault: a child that does not answer SIGINT is waited for.
WaitsForAnswer(t, p) ==
  /\ At(t, "sigint", p)
  /\ child[p] = "running"
  /\ UNCHANGED <<process, calls>>

\* ... or does not: SIGTERM after SIGINT_TIMEOUT, then SIGKILL, after which
\* stop() does not wait for the child.
Terminate(t, p) ==
  /\ At(t, "sigint", p)
  /\ child[p] = "running"
  /\ Goto(t, "sigterm")
  /\ UNCHANGED process

Kill(t, p) ==
  /\ At(t, "sigterm", p)
  /\ child[p] = "running"
  /\ child' = [child EXCEPT ![p] = "killed"]
  /\ Stopped(t, p)

\* A child exits by itself or because it was asked to.
Exit(p) ==
  /\ child[p] = "running"
  /\ child' = [child EXCEPT ![p] = "exited"]
  /\ UNCHANGED <<started, stopped, popen, lock, calls>>

CallStep(t) ==
  \E p \in Proc :
    \/ IsAlive(t, p) \/ Poll(t, p)
    \/ Start(t, p) \/ Spawn(t, p)
    \/ Stop(t, p) \/ Answered(t, p) \/ Terminate(t, p) \/ Kill(t, p)

=============================================================================
