--------------------------- MODULE ProcessMonitor ---------------------------
(***************************************************************************)
(* ProcessMonitor of tools/rosunit/src/rosunit/pmon.py: a thread that      *)
(* polls the registered processes, respawns or buries the ones that died   *)
(* and, when it is shut down, kills the others: first the ordinary ones,   *)
(* by a pool of killers, then the core processes one after the other.      *)
(*                                                                         *)
(* The clients are the threads of the program that owns the monitor; each  *)
(* may make any sequence of calls.  Every process has a name of its own.   *)
(***************************************************************************)
EXTENDS LocalProcess, FiniteSets, SequencesExt

CONSTANTS
  Client, Killer, Monitor,  \* the threads; _post_run makes the killers
  Setups                    \* bound: the programs that use the monitor

ASSUME MonitorAssumption ==
  /\ Thread = Client \cup Killer \cup {Monitor}
  /\ Monitor \notin Client \cup Killer
  /\ Client \cap Killer = {}
  /\ IsFiniteSet(Killer)
  /\ Setups \subseteq [killers : SUBSET Killer, core : SUBSET Proc, respawn : SUBSET Proc,
                      required : SUBSET Proc, kills : BOOLEAN, completes : BOOLEAN,
                      raises : BOOLEAN]

VARIABLES
  setup,           \* the program: one of Setups, and never changed
  procs, core_procs, dead_list, is_shutdown, done,
  registrations_complete,
  plock,           \* the client that holds the lock during kill_process, if any
  pc,              \* where each thread is
  polling,         \* the monitor's copy of procs, what is left of it
  dead, graves,    \* the processes found dead, and those still to be buried
  respawn,         \* the processes to respawn
  queue, unfinished,  \* the queue of the killers; its count of open tasks
  cores,           \* the core processes that _post_run has still to kill
  told,            \* how often the listeners were told that p died, up to 2
  result           \* what shutdown_process_monitor returned to each client

monitored == <<procs, core_procs, dead_list>>
flags == <<is_shutdown, done, registrations_complete>>
work == <<polling, dead, graves, respawn, told>>
postrun == <<queue, unfinished, cores>>
vars == <<local, monitored, flags, plock, pc, work, postrun, result>>
allvars == <<setup, vars>>

Core == setup.core          \* processes registered by register_core_proc
Respawn == setup.respawn    \* processes with that flag
Required == setup.required  \* processes with that flag

Init ==
  /\ setup \in Setups
  /\ LocalInit
  /\ procs = <<>> /\ core_procs = <<>> /\ dead_list = <<>>
  /\ is_shutdown = FALSE /\ done = FALSE /\ registrations_complete = FALSE
  /\ plock = {}
  /\ pc = [t \in Thread |-> IF t \in Client THEN "idle"
                            ELSE IF t = Monitor THEN "loop" ELSE "unborn"]
  /\ polling = <<>> /\ dead = <<>> /\ graves = <<>> /\ respawn = <<>>
  /\ queue = <<>> /\ unfinished = 0 /\ cores = <<>>
  /\ told = [p \in Proc |-> 0]
  /\ result = [c \in Client |-> "none"]

\* Thread t is at l, and not inside a call.
Here(t, l) == pc[t] = l /\ call[t] = "none"
Goes(t, l) == pc' = [pc EXCEPT ![t] = l]
PlockFree == plock = {}

-----------------------------------------------------------------------------
(* Clients.                                                                *)

\* register; the caller goes on to start the process.  A name that is taken
\* and a monitor that is shut down are refused and nothing changes.
Register(c, p) ==
  /\ Here(c, "idle")
  /\ PlockFree
  /\ p \notin ToSet(procs) \cup ToSet(graves) \cup ToSet(dead_list)
  /\ ~is_shutdown
  /\ procs' = Append(procs, p)
  /\ IF p \in Core
     THEN Goes(c, "core") /\ on' = [on EXCEPT ![c] = {p}] /\ UNCHANGED <<process, call, ret>>
     ELSE pc' = pc /\ Invoke(c, "start", p)
  /\ UNCHANGED <<core_procs, dead_list, flags, plock, work, postrun, result>>

\* The second half of register_core_proc.
AppendCore(c, p) ==
  /\ Here(c, "core")
  /\ on[c] = {p}
  /\ core_procs' = Append(core_procs, p)
  /\ Goes(c, "idle")
  /\ Invoke(c, "start", p)
  /\ UNCHANGED <<procs, dead_list, flags, plock, work, postrun, result>>

\* kill_process holds plock while it stops the process.
KillProcess(c, p) ==
  /\ setup.kills
  /\ Here(c, "idle")
  /\ PlockFree
  /\ p \in ToSet(procs)
  /\ plock' = {c}
  /\ Goes(c, "kill_process")
  /\ Invoke(c, "stop", p)
  /\ UNCHANGED <<monitored, flags, work, postrun, result>>

Killed(c) ==
  /\ Here(c, "kill_process")
  /\ plock' = {}
  /\ Goes(c, "idle")
  /\ UNCHANGED <<local, monitored, flags, work, postrun, result>>

RegistrationsComplete(c) ==
  /\ setup.completes
  /\ Here(c, "idle")
  /\ registrations_complete' = TRUE
  /\ UNCHANGED <<local, monitored, is_shutdown, done, plock, pc, work, postrun, result>>

\* shutdown_process_monitor: the client makes no other call afterwards.
ShutdownMonitor(c) ==
  /\ Here(c, "idle")
  /\ IF is_shutdown
     THEN Goes(c, "gone") /\ result' = [result EXCEPT ![c] = "false"]
     ELSE Goes(c, "shutdown") /\ UNCHANGED result
  /\ UNCHANGED <<local, monitored, flags, plock, work, postrun>>

SetShutdown(c) ==
  /\ Here(c, "shutdown")
  /\ is_shutdown' = TRUE
  /\ Goes(c, "join")
  /\ UNCHANGED <<local, monitored, done, registrations_complete, plock, work, postrun, result>>

\* join(20.0) ends when the monitor has ended or when the time is over.
Join(c) ==
  /\ Here(c, "join")
  /\ result' = [result EXCEPT ![c] = IF pc[Monitor] = "ended" THEN "true" ELSE "false"]
  /\ Goes(c, "gone")
  /\ UNCHANGED <<local, monitored, flags, plock, work, postrun>>

ClientStep(c) ==
  \/ \E p \in Proc : Register(c, p) \/ AppendCore(c, p) \/ KillProcess(c, p)
  \/ Killed(c) \/ RegistrationsComplete(c)
  \/ ShutdownMonitor(c) \/ SetShutdown(c) \/ Join(c)

-----------------------------------------------------------------------------
(* The monitor: _run.                                                      *)

Copy ==
  /\ Here(Monitor, "loop")
  /\ IF is_shutdown
     THEN Goes(Monitor, "post_run") /\ UNCHANGED polling
     ELSE PlockFree /\ polling' = procs /\ Goes(Monitor, "copied")
  /\ UNCHANGED <<local, monitored, flags, plock, dead, graves, respawn, told, postrun, result>>

CheckCopy ==
  /\ Here(Monitor, "copied")
  /\ Goes(Monitor, IF is_shutdown THEN "post_run"
                   ELSE IF polling = <<>> THEN "bury" ELSE "poll")
  /\ polling' = IF is_shutdown THEN <<>> ELSE polling
  /\ UNCHANGED <<local, monitored, flags, plock, dead, graves, respawn, told, postrun, result>>

PollNext ==
  /\ Here(Monitor, "poll")
  /\ Invoke(Monitor, "is_alive", Head(polling))
  /\ Goes(Monitor, "polled")
  /\ UNCHANGED <<monitored, flags, plock, work, postrun, result>>

JudgeAlive ==
  /\ Here(Monitor, "polled")
  /\ ret[Monitor] = "true"
  /\ Goes(Monitor, "next")
  /\ UNCHANGED <<local, monitored, flags, plock, work, postrun, result>>

\* Fault: a process with the flag is respawned after an internal error, too.
JudgeErrorRespawns ==
  LET p == Head(polling)
  IN /\ Here(Monitor, "polled")
     /\ ret[Monitor] = "raise"
     /\ dead' = Append(dead, p)
     /\ respawn' = IF p \in Respawn THEN Append(respawn, p) ELSE respawn
     /\ Goes(Monitor, "next")
     /\ UNCHANGED <<local, monitored, flags, plock, polling, graves, told, postrun, result>>

\* is_alive that raises buries the process without a word to the listeners.
JudgeError ==
  /\ Here(Monitor, "polled")
  /\ ret[Monitor] = "raise"
  /\ dead' = Append(dead, Head(polling))
  /\ Goes(Monitor, "next")
  /\ UNCHANGED <<local, monitored, flags, plock, polling, graves, respawn, told, postrun, result>>

\* A process that has died is buried ...
Mortal(p) == p \notin Respawn \cup Required

\* ... unless it ends the monitor or is respawned.
Fatal(p) == p \in Required \ Respawn

JudgeDead ==
  LET p == Head(polling)
  IN /\ Here(Monitor, "polled")
     /\ ret[Monitor] = "false"
     /\ respawn' = IF p \in Respawn THEN Append(respawn, p) ELSE respawn
     /\ is_shutdown' = (is_shutdown \/ Fatal(p))
     /\ dead' = IF Mortal(p) THEN Append(dead, p) ELSE dead
     /\ Goes(Monitor, "listeners")
     /\ UNCHANGED <<local, monitored, done, registrations_complete, plock,
                    polling, graves, told, postrun, result>>

\* Fault: only the deaths of processes with a flag are reported.
ReportsFlagged(p) == p \in Respawn \cup Required

\* Every death is reported.
Reports(p) == TRUE

\* process_died of the listeners; its exception buries the process, which may
\* be on one of the lists already.
Listeners ==
  LET p == Head(polling)
  IN /\ Here(Monitor, "listeners")
     /\ told' = [told EXCEPT ![p] = IF Reports(p) /\ @ < 2 THEN @ + 1 ELSE @]
     /\ \/ UNCHANGED dead
        \/ setup.raises /\ dead' = Append(dead, p)
     /\ Goes(Monitor, "next")
     /\ UNCHANGED <<local, monitored, flags, plock, polling, graves, respawn, postrun, result>>

\* The end of one round of the polling loop.
PollDone ==
  /\ Here(Monitor, "next")
  /\ polling' = IF is_shutdown THEN <<>> ELSE Tail(polling)
  /\ IF is_shutdown \/ Len(polling) = 1
     THEN Goes(Monitor, "bury") /\ graves' = dead
     ELSE Goes(Monitor, "poll") /\ UNCHANGED graves
  /\ UNCHANGED <<local, monitored, flags, plock, dead, respawn, told, postrun, result>>

\* unregister and stop; a process that was buried before is not in procs.
Unregister ==
  LET d == Head(graves)
  IN /\ Here(Monitor, "bury")
     /\ graves # <<>>
     /\ PlockFree
     /\ IF d \in ToSet(procs)
        THEN /\ \E i \in DOMAIN procs : procs[i] = d /\ procs' = RemoveAt(procs, i)
             /\ Invoke(Monitor, "stop", d)
             /\ Goes(Monitor, "buried")
             /\ UNCHANGED graves
        ELSE /\ graves' = Tail(graves)
             /\ UNCHANGED <<procs, local, pc>>
     /\ UNCHANGED <<core_procs, dead_list, flags, plock,
                    polling, dead, respawn, told, postrun, result>>

Buried ==
  /\ Here(Monitor, "buried")
  /\ PlockFree
  /\ dead_list' = Append(dead_list, Head(graves))
  /\ graves' = Tail(graves)
  /\ Goes(Monitor, "bury")
  /\ UNCHANGED <<local, procs, core_procs, flags, plock, polling, dead, respawn, told, postrun, result>>

\* The last process has died in this round.
AllDead == registrations_complete /\ dead # <<>> /\ procs = <<>> /\ respawn = <<>>

\* Fault: the respawn list is emptied too early.
BuryDoneForgets ==
  /\ Here(Monitor, "bury")
  /\ graves = <<>>
  /\ is_shutdown' = (is_shutdown \/ AllDead)
  /\ dead' = <<>> /\ respawn' = <<>>
  /\ Goes(Monitor, "respawn")
  /\ UNCHANGED <<local, monitored, done, registrations_complete, plock,
                 polling, graves, told, postrun, result>>

BuryDone ==
  /\ Here(Monitor, "bury")
  /\ graves = <<>>
  /\ is_shutdown' = (is_shutdown \/ AllDead)
  /\ dead' = <<>>
  /\ Goes(Monitor, "respawn")
  /\ UNCHANGED <<local, monitored, done, registrations_complete, plock,
                 polling, graves, respawn, told, postrun, result>>

\* r.stop() and r.start(), whatever start() returns or raises.
RespawnStop ==
  /\ Here(Monitor, "respawn")
  /\ respawn # <<>>
  /\ ~is_shutdown
  /\ Invoke(Monitor, "stop", Head(respawn))
  /\ Goes(Monitor, "restart")
  /\ UNCHANGED <<monitored, flags, plock, work, postrun, result>>

RespawnStart ==
  /\ Here(Monitor, "restart")
  /\ Invoke(Monitor, "start", Head(respawn))
  /\ Goes(Monitor, "respawn")
  /\ respawn' = Tail(respawn)
  /\ UNCHANGED <<monitored, flags, plock, polling, dead, graves, told, postrun, result>>

RespawnDone ==
  /\ Here(Monitor, "respawn")
  /\ respawn = <<>> \/ is_shutdown
  /\ respawn' = <<>>
  /\ Goes(Monitor, "loop")
  /\ UNCHANGED <<local, monitored, flags, plock, polling, dead, graves, told, postrun, result>>

-----------------------------------------------------------------------------
(* The monitor: _post_run.                                                 *)

\* Fault: the core processes are killed in the order of their registration.
CoresInOrder == core_procs

\* "in reverse order in which they are added"
CoresReversed == Reverse(core_procs)

\* Everything but the core processes goes to the killers, last one first.
Ordinary == ToSet(procs) \ ToSet(core_procs)

Tasks ==
  {q \in UNION {[1 .. n -> Ordinary] : n \in 0 .. Len(procs)} :
     /\ ToSet(q) = Ordinary
     /\ \A i, j \in DOMAIN q :
          i < j => \E k, l \in DOMAIN procs : l < k /\ procs[k] = q[i] /\ procs[l] = q[j]}

Enqueue ==
  /\ Here(Monitor, "post_run")
  /\ PlockFree
  /\ is_shutdown' = TRUE
  /\ cores' = CoresReversed
  /\ \E q \in Tasks : queue' = q /\ unfinished' = Len(q)
  /\ pc' = [t \in Thread |-> CASE t = Monitor -> "killers"
                               [] t \in setup.killers -> "kill"
                               [] OTHER -> pc[t]]
  /\ UNCHANGED <<local, monitored, done, registrations_complete, plock, work, result>>

KillersDone ==
  /\ Here(Monitor, "killers")
  /\ unfinished = 0
  /\ Goes(Monitor, "cores")
  /\ UNCHANGED <<local, monitored, flags, plock, work, postrun, result>>

KillCore ==
  /\ Here(Monitor, "cores")
  /\ cores # <<>>
  /\ Invoke(Monitor, "stop", Head(cores))
  /\ cores' = Tail(cores)
  /\ UNCHANGED <<monitored, flags, plock, pc, work, queue, unfinished, result>>

CleanUp ==
  /\ Here(Monitor, "cores")
  /\ cores = <<>>
  /\ PlockFree
  /\ procs' = <<>> /\ core_procs' = <<>>
  /\ done' = TRUE
  /\ Goes(Monitor, "ended")
  /\ UNCHANGED <<local, dead_list, is_shutdown, registrations_complete, plock, work, postrun, result>>

MonitorStep ==
  \/ Copy \/ CheckCopy \/ PollNext
  \/ JudgeAlive \/ JudgeError \/ JudgeDead \/ Listeners \/ PollDone
  \/ Unregister \/ Buried \/ BuryDone
  \/ RespawnStop \/ RespawnStart \/ RespawnDone
  \/ Enqueue \/ KillersDone \/ KillCore \/ CleanUp

\* _ProcessKiller.run
TakeVictim(k) ==
  /\ Here(k, "kill")
  /\ queue # <<>>
  /\ Invoke(k, "stop", Head(queue))
  /\ queue' = Tail(queue)
  /\ Goes(k, "task")
  /\ UNCHANGED <<monitored, flags, plock, work, unfinished, cores, result>>

TaskDone(k) ==
  /\ Here(k, "task")
  /\ unfinished' = unfinished - 1
  /\ Goes(k, "kill")
  /\ UNCHANGED <<local, monitored, flags, plock, work, queue, cores, result>>

KillerEnds(k) ==
  /\ Here(k, "kill")
  /\ queue = <<>>
  /\ Goes(k, "ended")
  /\ UNCHANGED <<local, monitored, flags, plock, work, postrun, result>>

KillerStep(k) == TakeVictim(k) \/ TaskDone(k) \/ KillerEnds(k)

-----------------------------------------------------------------------------

others == <<monitored, flags, plock, pc, work, postrun, result>>

Finished ==
  /\ \A t \in Thread : pc[t] \in {"gone", "ended", "unborn"} /\ call[t] = "none"
  /\ UNCHANGED vars

Next ==
  /\ \/ \E c \in Client : ClientStep(c)
     \/ MonitorStep
     \/ \E k \in Killer : KillerStep(k)
     \/ \E t \in Thread : CallStep(t) /\ UNCHANGED others
     \/ \E p \in Proc : Exit(p) /\ UNCHANGED others
     \/ Finished
  /\ UNCHANGED setup

Spec == Init /\ [][Next]_allvars

\* The threads run; the clients call what they like, but a call that has
\* begun goes on.
Fairness ==
  /\ SF_vars(MonitorStep)
  /\ \A k \in Killer : WF_vars(KillerStep(k))
  /\ \A t \in Thread : WF_vars(CallStep(t) /\ UNCHANGED others)
  /\ \A c \in Client : WF_vars(Killed(c))

FairSpec == Spec /\ Fairness

-----------------------------------------------------------------------------
(* Properties.                                                             *)

\* What a listener raises buries a process that is respawned all the same:
\* nothing is promised of such a process.
Safe(p) == setup.raises => p \notin Respawn

\* A client that was told that the monitor has been shut down leaves no child
\* behind: everything registered has been stopped, whatever was dying, being
\* respawned or being killed at the time.
NoneLeft ==
  \A c \in Client : result[c] = "true" => \A p \in Proc : Safe(p) => child[p] # "running"

Dying(t) == on[t] # {} /\ call[t] \in {"stop", "sigint", "sigterm"}

\* register_core_proc: "They are killed after all other processes, in reverse
\* order in which they are added".  A shutdown between the two steps of
\* register_core_proc breaks this.  So it is claimed for programs that cannot be
\* shut down there: no process is required, and a client shuts the monitor down
\* after its registrations.
CoreLast ==
  Required = {} /\ pc[Monitor] \in {"killers", "cores"} =>
    \A t \in Thread \ Client : \A p \in on[t] \cap Core :
      Dying(t) =>
        \A q \in Proc \ {p} :
          Safe(q) /\ child[q] = "running" =>
            /\ q \in Core
            /\ \A i, j \in DOMAIN procs : procs[i] = p /\ procs[j] = q => j < i

\* ProcessListener.process_died: "Notifies listener that process has died",
\* for processes that die while the monitor runs: the processes on the dead
\* list are without a flag, unless a listener has raised, and have been
\* reported, once, unless a client kills processes: is_alive may then raise an
\* exception.
DeathsTold ==
  ~setup.kills =>
    \A p \in ToSet(dead_list) :
      Safe(p) => told[p] = 1 /\ (Mortal(p) \/ setup.raises)

\* "don't respawn as this is an internal error": a process the monitor has
\* given up is not running.
BuriedStopped == \A p \in ToSet(dead_list) : Safe(p) => child[p] # "running"

\* Whoever sets is_shutdown, the monitor comes to its end.
ShutdownEnds == is_shutdown ~> done

\* A process that died is registered, still or again.
Died(p) == started[p] /\ child[p] = "exited" /\ p \in ToSet(procs)

\* The death of a required process shuts the monitor down; a process with the
\* respawn flag that died is started again, or at least tried again, unless the
\* monitor is shut down or has given it up.
DeathsAnswered ==
  /\ (\E p \in Required \ Respawn : Died(p)) ~> is_shutdown
  /\ \A p \in UNION {s.respawn : s \in Setups} :
       p \in Respawn /\ Died(p)
         ~> At(Monitor, "start", p) \/ is_shutdown \/ p \in ToSet(dead_list)

\* registrations_complete: "process monitor will exit if there are no
\* processes left to monitor".
ExitsWhenEmpty ==
  registrations_complete /\ procs = <<>> /\ dead_list # <<>> ~> is_shutdown \/ procs # <<>>
=============================================================================
