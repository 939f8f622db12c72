-------------------------- MODULE MCProcessMonitor --------------------------
(***************************************************************************)
(* Programs that use a ProcessMonitor, for TLC.                            *)
(***************************************************************************)
EXTENDS ProcessMonitor

CONSTANTS a, b, u1, k1, k2, monitor

Plain == [killers |-> {k1}, core |-> {}, respawn |-> {}, required |-> {},
          kills |-> FALSE, completes |-> TRUE, raises |-> FALSE]

\* Two core processes, one of which is respawned; the client kills processes and
\* goes on registering them.
Kills == [Plain EXCEPT !.core = {a, b}, !.respawn = {a}, !.kills = TRUE, !.completes = FALSE]

\* An ordinary process that is buried when it dies and a core process that is
\* required; listeners may raise.
Deaths ==
  [Plain EXCEPT !.killers = {k1, k2}, !.core = {b}, !.required = {b}, !.raises = TRUE]

\* An ordinary process that is respawned and a core process.
Mixed == [Plain EXCEPT !.core = {b}, !.respawn = {a}]

MCSetups == {Kills, Deaths, Mixed}

Late == {Plain}
=============================================================================
