------------------------ MODULE ProcessMonitorProofs ------------------------
(***************************************************************************)
(* Proofs about ProcessMonitor, for every number of clients, killers and   *)
(* processes: what the monitor has buried stays stopped and was told to    *)
(* the listeners, and a shutdown that one client sees through leaves no    *)
(* child behind and stops the core processes last, in the reverse order of *)
(* their registration.                                                     *)
(***************************************************************************)
EXTENDS ProcessMonitor, TLAPS, SequenceTheorems, FiniteSetTheorems

Lists == Seq(Proc)
Stops == {"stop", "sigint", "sigterm"}
Starts == {"start", "spawn"}

Polls == {"poll", "polled", "listeners", "next"}
AtWork == {"loop", "copied"} \cup Polls \cup {"bury", "buried", "respawn", "restart"}
Ending == {"killers", "cores", "ended"}

LocalTypes ==
  /\ started \in [Proc -> BOOLEAN] /\ stopped \in [Proc -> BOOLEAN]
  /\ popen \in [Proc -> BOOLEAN] /\ lock \in [Proc -> SUBSET Thread]
  /\ child \in [Proc -> {"none", "running", "exited", "killed"}]
  /\ call \in [Thread -> Calls] /\ on \in [Thread -> SUBSET Proc]
  /\ ret \in [Thread -> {"none", "true", "false", "raise"}]

OwnTypes ==
  /\ setup \in Setups
  /\ procs \in Lists /\ core_procs \in Lists /\ dead_list \in Lists
  /\ is_shutdown \in BOOLEAN /\ done \in BOOLEAN /\ registrations_complete \in BOOLEAN
  /\ plock \subseteq Client
  /\ pc \in [Thread -> {"idle", "core", "kill_process", "shutdown", "join", "gone",
                        "unborn", "kill", "task", "post_run"} \cup AtWork \cup Ending]
  /\ polling \in Lists /\ dead \in Lists /\ graves \in Lists /\ respawn \in Lists
  /\ queue \in Lists /\ unfinished \in Int /\ cores \in Lists
  /\ told \in [Proc -> 0 .. 2]
  /\ result \in [Client -> {"none", "true", "false"}]

Types == LocalTypes /\ OwnTypes

\* Which calls a client, a killer and the monitor make, and where.
ClientCalls ==
  \A c \in Client :
    /\ pc[c] \in {"idle", "core", "kill_process", "shutdown", "join", "gone"}
    /\ call[c] \in {"none"} \cup Starts \cup Stops
    /\ call[c] \in Starts => pc[c] = "idle"
    /\ call[c] \in Stops => pc[c] = "kill_process"
    /\ pc[c] = "kill_process" => setup.kills

KillerCalls ==
  \A k \in Killer :
    /\ pc[k] \in {"unborn", "kill", "task", "ended"}
    /\ call[k] \in {"none"} \cup Stops
    /\ call[k] # "none" => pc[k] = "task"
    /\ pc[k] # "unborn" => pc[Monitor] \in Ending

MonitorCalls ==
  /\ pc[Monitor] \in AtWork \cup {"post_run"} \cup Ending
  /\ pc[Monitor] \in Polls => polling # <<>>
  /\ pc[Monitor] = "buried" => graves # <<>>
  /\ pc[Monitor] = "restart" => respawn # <<>>
  /\ call[Monitor] \in {"is_alive", "poll"} => pc[Monitor] = "polled" /\ on[Monitor] = {Head(polling)}
  /\ call[Monitor] \in Starts => pc[Monitor] = "respawn"
  /\ call[Monitor] \in Stops =>
       \/ pc[Monitor] = "buried" /\ on[Monitor] = {Head(graves)}
       \/ pc[Monitor] \in {"restart", "cores"}

\* The monitor's lists belong to one round.
Rounds ==
  /\ pc[Monitor] \notin Polls \cup {"copied"} => polling = <<>>
  /\ pc[Monitor] \in {"loop", "copied", "respawn", "restart"} => dead = <<>>
  /\ pc[Monitor] \in AtWork \ {"bury", "buried"} => graves = <<>>
  /\ pc[Monitor] \in {"loop", "copied"} => respawn = <<>>
  /\ pc[Monitor] \notin AtWork => is_shutdown

NoRepeats(s) == \A i, j \in DOMAIN s : s[i] = s[j] => i = j

Restarting == IF call[Monitor] \in Starts THEN on[Monitor] ELSE {}

\* A process is watched or buried, never both, and the lists of a round hold
\* only what is watched or buried.
Watched ==
  /\ NoRepeats(procs) /\ NoRepeats(polling)
  /\ ToSet(procs) \cap ToSet(dead_list) = {}
  /\ ToSet(polling) \subseteq ToSet(procs)
  /\ pc[Monitor] # "ended" =>
       /\ ToSet(dead) \cup ToSet(respawn) \cup Restarting
            \subseteq ToSet(procs) \cup ToSet(graves) \cup ToSet(dead_list)
       /\ ToSet(graves) \subseteq ToSet(procs) \cup ToSet(dead_list)
                                   \cup (IF pc[Monitor] = "buried" THEN {Head(graves)} ELSE {})
  /\ pc[Monitor] = "buried" => Head(graves) \notin ToSet(procs)
  /\ pc[Monitor] \in {"bury", "buried"} => ToSet(dead) \subseteq ToSet(graves) \cup ToSet(dead_list)
  /\ ToSet(graves) \subseteq ToSet(dead)

\* Whatever was started is watched, being buried or buried.
Registered ==
  pc[Monitor] # "ended" =>
    \A p \in Proc : started[p] => p \in ToSet(procs) \cup ToSet(graves) \cup ToSet(dead_list)

\* What of the copy has still to be judged in this round.
Unjudged == IF pc[Monitor] \in {"listeners", "next"} THEN Tail(polling) ELSE polling

OneVerdict ==
  /\ ToSet(Unjudged) \cap (ToSet(dead) \cup ToSet(respawn)) = {}
  /\ ToSet(respawn) \cup Restarting \subseteq Respawn
  /\ ~setup.raises =>
       (ToSet(respawn) \cup Restarting) \cap (ToSet(dead) \cup ToSet(graves) \cup ToSet(dead_list)) = {}

\* The process polled that is_alive has found started ...
Found ==
  IF \/ pc[Monitor] = "listeners"
     \/ pc[Monitor] = "polled" /\ call[Monitor] = "poll"
     \/ pc[Monitor] = "polled" /\ call[Monitor] = "none" /\ ret[Monitor] \in {"false", "raise"}
  THEN {Head(polling)} ELSE {}

\* ... and all those of which the monitor has seen that.
Seen ==
  ToSet(dead) \cup ToSet(respawn) \cup ToSet(graves) \cup ToSet(dead_list) \cup Restarting \cup Found

\* Client c has registered p and has still to start it.
ToStart(c, p) == on[c] = {p} /\ (pc[c] = "core" \/ call[c] \in Starts)

Unstarted ==
  \A c \in Client : \A p \in Proc :
    ToStart(c, p) =>
      /\ ~started[p]
      /\ p \notin Seen
      /\ p \in ToSet(procs) \/ pc[Monitor] = "ended"
      /\ \A d \in Client : ToStart(d, p) => c = d

NoHandle == \A p \in Proc : ~popen[p] => child[p] # "running"

Stopping ==
  /\ BuriedStopped
  /\ pc[Monitor] = "buried" /\ call[Monitor] = "none" => child[Head(graves)] # "running"

\* While the monitor works, nobody but clients and itself stops a process.
Telling ==
  ~setup.kills =>
    /\ call[Monitor] = "poll" => popen[Head(polling)]
    /\ ret[Monitor] # "raise"
    /\ \A p \in ToSet(dead) \cup ToSet(graves) \cup ToSet(dead_list) : Mortal(p) \/ setup.raises
    /\ pc[Monitor] = "listeners" =>
         LET p == Head(polling) IN p \in Respawn \/ p \in ToSet(dead) \/ is_shutdown
    /\ \A p \in Proc \ Respawn :
         /\ p \in ToSet(graves) \cup ToSet(dead_list) => told[p] = 1
         /\ p \in ToSet(dead) =>
              told[p] = 1 \/ (pc[Monitor] = "listeners" /\ p = Head(polling))
         /\ p \in ToSet(IF pc[Monitor] = "next" THEN Tail(polling) ELSE polling) => told[p] = 0
         /\ told[p] # 0 => p \in ToSet(dead) \cup ToSet(dead_list) \/ is_shutdown

Tasked == {k \in Killer : pc[k] = "task"}
Counted == unfinished = Len(queue) + Cardinality(Tasked)

\* Before the monitor ends, what runs is watched or is being buried ...
Running(p) == Safe(p) /\ child[p] = "running"

Covered ==
  pc[Monitor] \in AtWork \cup {"post_run"} =>
    \A p \in Proc : Running(p) =>
      p \in ToSet(procs) \/ (pc[Monitor] = "buried" /\ p = Head(graves))

\* ... and afterwards it is still to be killed or is being killed ...
StoppedBy(t, p) == on[t] = {p} /\ call[t] \in Stops

ToKill(p) ==
  /\ pc[Monitor] = "killers" =>
       \/ p \in ToSet(queue) \cup ToSet(cores)
       \/ \E k \in Killer : StoppedBy(k, p)
  /\ pc[Monitor] = "cores" => p \in ToSet(cores) \/ StoppedBy(Monitor, p)
  /\ pc[Monitor] # "ended"

\* ... once the only client has found the monitor at work and shuts it down.
Closing(c) == pc[c] \in {"shutdown", "join"} \/ result[c] = "true"
Alone(c) == \A d \in Client : c = d

Closed ==
  \A c \in Client :
    /\ result[c] = "true" => pc[c] = "gone" /\ pc[Monitor] = "ended"
    /\ Closing(c) => call[c] = "none"
    /\ Closing(c) /\ Alone(c) => \A p \in Proc : Running(p) => ToKill(p)

IInv ==
  /\ Types
  /\ ClientCalls
  /\ KillerCalls
  /\ MonitorCalls
  /\ Rounds
  /\ Watched
  /\ Registered
  /\ OneVerdict
  /\ Unstarted
  /\ NoHandle
  /\ Stopping
  /\ Telling
  /\ Counted
  /\ Covered
  /\ Closed

-----------------------------------------------------------------------------
(* Lists.                                                                  *)

\* What a list holds, when it is empty and when it is not.
LEMMA HeadAndTail ==
  ASSUME NEW S, NEW s \in Seq(S), s # <<>>
  PROVE  /\ Head(s) \in S /\ Head(s) \in ToSet(s)
         /\ Tail(s) \in Seq(S) /\ Len(Tail(s)) = Len(s) - 1
         /\ ToSet(s) = {Head(s)} \cup ToSet(Tail(s))
         /\ NoRepeats(s) => NoRepeats(Tail(s)) /\ Head(s) \notin ToSet(Tail(s))
<1>1. /\ Head(s) \in S /\ Tail(s) \in Seq(S) /\ Len(Tail(s)) = Len(s) - 1
      /\ \A i \in 1 .. Len(Tail(s)) : Tail(s)[i] = s[i + 1]
      /\ Head(s) = s[1]
  BY HeadTailProperties
<1>2. Len(s) \in Nat /\ Len(s) # 0 /\ DOMAIN s = 1 .. Len(s) /\ DOMAIN Tail(s) = 1 .. Len(s) - 1
  BY <1>1, LenProperties, EmptySeq
<1>3. ASSUME NEW i \in 1 .. Len(s), i # 1
      PROVE  i - 1 \in DOMAIN Tail(s) /\ s[i] = Tail(s)[i - 1]
  <2>1. i - 1 \in 1 .. Len(s) - 1 /\ (i - 1) + 1 = i
    BY <1>2, <1>3
  <2>2. QED
    BY <2>1, <1>1, <1>2
<1>4. ASSUME NEW i \in DOMAIN Tail(s)
      PROVE  i + 1 \in DOMAIN s /\ i \in Int /\ i + 1 # 1 /\ Tail(s)[i] = s[i + 1]
  BY <1>1, <1>2
<1>5. 1 \in DOMAIN s
  BY <1>2
<1>6. ToSet(s) = {Head(s)} \cup ToSet(Tail(s))
  <2>1. ASSUME NEW x \in ToSet(s) PROVE x \in {Head(s)} \cup ToSet(Tail(s))
    <3>1. PICK i \in 1 .. Len(s) : s[i] = x
      BY <1>2 DEF ToSet
    <3>2. CASE i = 1
      BY <3>1, <3>2, <1>1
    <3>3. CASE i # 1
      BY <3>1, <3>3, <1>3 DEF ToSet
    <3>4. QED
      BY <3>2, <3>3
  <2>2. ASSUME NEW x \in ToSet(Tail(s)) PROVE x \in ToSet(s)
    <3>1. PICK i \in DOMAIN Tail(s) : Tail(s)[i] = x
      BY DEF ToSet
    <3>2. QED
      BY <3>1, <1>4 DEF ToSet
  <2>3. Head(s) \in ToSet(s)
    BY <1>1, <1>5 DEF ToSet
  <2>4. QED
    BY <2>1, <2>2, <2>3
<1>7. ASSUME NoRepeats(s) PROVE NoRepeats(Tail(s)) /\ Head(s) \notin ToSet(Tail(s))
  <2>1. ASSUME NEW i \in DOMAIN Tail(s), NEW j \in DOMAIN Tail(s), Tail(s)[i] = Tail(s)[j]
        PROVE  i = j
    <3>1. i + 1 = j + 1 /\ i \in Int /\ j \in Int
      BY <1>4, <1>7, <2>1 DEF NoRepeats
    <3>2. QED
      BY <3>1
  <2>2. ASSUME Head(s) \in ToSet(Tail(s)) PROVE FALSE
    <3>1. PICK i \in DOMAIN Tail(s) : Tail(s)[i] = Head(s)
      BY <2>2 DEF ToSet
    <3>2. s[i + 1] = s[1]
      BY <3>1, <1>1, <1>4
    <3>3. QED
      BY <3>2, <1>4, <1>5, <1>7 DEF NoRepeats
  <2>3. QED
    BY <2>1, <2>2 DEF NoRepeats
<1>8. QED
  BY <1>1, <1>6, <1>7

LEMMA NoElements == ToSet(<<>>) = {} /\ NoRepeats(<<>>)
BY DEF ToSet, NoRepeats

LEMMA Appended ==
  ASSUME NEW S, NEW s \in Seq(S), NEW x \in S
  PROVE  /\ Append(s, x) \in Seq(S) /\ Append(s, x) # <<>>
         /\ ToSet(Append(s, x)) = ToSet(s) \cup {x}
         /\ NoRepeats(s) /\ x \notin ToSet(s) => NoRepeats(Append(s, x))
<1>1. /\ Append(s, x) \in Seq(S)
      /\ Len(Append(s, x)) = Len(s) + 1
      /\ \A i \in 1 .. Len(s) : Append(s, x)[i] = s[i]
      /\ Append(s, x)[Len(s) + 1] = x
  BY AppendProperties
<1>2. DOMAIN s = 1 .. Len(s) /\ DOMAIN Append(s, x) = 1 .. Len(s) + 1 /\ Len(s) \in Nat
  BY <1>1, LenProperties
<1>3. ASSUME NEW i \in DOMAIN Append(s, x)
      PROVE  \/ i \in DOMAIN s /\ Append(s, x)[i] = s[i]
             \/ i = Len(s) + 1 /\ Append(s, x)[i] = x
  BY <1>1, <1>2
<1>4. \A i \in DOMAIN s : i \in DOMAIN Append(s, x) /\ Append(s, x)[i] = s[i]
  BY <1>1, <1>2
<1>5. Len(s) + 1 \in DOMAIN Append(s, x)
  BY <1>2
<1>6. ToSet(Append(s, x)) = ToSet(s) \cup {x}
  BY <1>1, <1>3, <1>4, <1>5 DEF ToSet
<1>7. ASSUME NoRepeats(s), x \notin ToSet(s) PROVE NoRepeats(Append(s, x))
  <2>1. SUFFICES ASSUME NEW i \in DOMAIN Append(s, x), NEW j \in DOMAIN Append(s, x),
                        Append(s, x)[i] = Append(s, x)[j]
                 PROVE  i = j
    BY DEF NoRepeats
  <2>2. \A k \in DOMAIN s : s[k] # x
    BY <1>7 DEF ToSet
  <2>3. QED
    BY <1>3, <1>7, <2>1, <2>2 DEF NoRepeats
<1>8. Append(s, x) # <<>>
  BY <1>1, <1>2, EmptySeq
<1>9. QED
  BY <1>1, <1>6, <1>7, <1>8

LEMMA Removed ==
  ASSUME NEW S, NEW s \in Seq(S), NoRepeats(s), NEW i \in DOMAIN s
  PROVE  /\ RemoveAt(s, i) \in Seq(S)
         /\ ToSet(RemoveAt(s, i)) = ToSet(s) \ {s[i]}
         /\ NoRepeats(RemoveAt(s, i))
         /\ \A k \in DOMAIN RemoveAt(s, i) :
              LET old == IF k < i THEN k ELSE k + 1
              IN k \in Int /\ old \in DOMAIN s /\ RemoveAt(s, i)[k] = s[old]
<1> DEFINE l == SubSeq(s, 1, i - 1)
           r == SubSeq(s, i + 1, Len(s))
           q == RemoveAt(s, i)
<1>1. Len(s) \in Nat /\ DOMAIN s = 1 .. Len(s) /\ i \in 1 .. Len(s)
  BY LenProperties
<1>2. /\ l \in Seq(S) /\ Len(l) = i - 1
      /\ \A k \in 1 .. i - 1 : l[k] = s[k]
  <2>1. \A k \in 1 .. i - 1 : s[k] \in S
    BY <1>1, ElementOfSeq
  <2>2. QED
    BY <1>1, <2>1, SubSeqProperties
<1>3. /\ r \in Seq(S) /\ Len(r) = Len(s) - i
      /\ \A k \in 1 .. Len(s) - i : r[k] = s[i + k]
  <2>1. \A k \in i + 1 .. Len(s) : s[k] \in S
    BY <1>1, ElementOfSeq
  <2>2. QED
    BY <1>1, <2>1, SubSeqProperties
<1>4. /\ q \in Seq(S) /\ Len(q) = Len(s) - 1
      /\ \A k \in 1 .. Len(s) - 1 : q[k] = IF k <= i - 1 THEN l[k] ELSE r[k - (i - 1)]
  <2>1. q = l \o r
    BY DEF RemoveAt
  <2>2. /\ l \o r \in Seq(S) /\ Len(l \o r) = Len(l) + Len(r)
        /\ \A k \in 1 .. Len(l) + Len(r) :
             (l \o r)[k] = IF k <= Len(l) THEN l[k] ELSE r[k - Len(l)]
    BY <1>2, <1>3, ConcatProperties
  <2>3. Len(l) + Len(r) = Len(s) - 1
    BY <1>1, <1>2, <1>3
  <2>4. QED
    BY <2>1, <2>2, <2>3, <1>2
<1>5. \A k \in 1 .. Len(s) - 1 : q[k] = IF k < i THEN s[k] ELSE s[k + 1]
  <2>1. SUFFICES ASSUME NEW k \in 1 .. Len(s) - 1 PROVE q[k] = IF k < i THEN s[k] ELSE s[k + 1]
    OBVIOUS
  <2>2. CASE k < i
    <3>1. k \in 1 .. i - 1 /\ k <= i - 1
      BY <1>1, <2>2
    <3>2. QED
      BY <3>1, <1>2, <1>4, <2>2
  <2>3. CASE ~(k < i)
    <3>1. k - (i - 1) \in 1 .. Len(s) - i /\ ~(k <= i - 1) /\ i + (k - (i - 1)) = k + 1
      BY <1>1, <2>3
    <3>2. QED
      BY <3>1, <1>3, <1>4, <2>3
  <2>4. QED
    BY <2>2, <2>3
<1>6. DOMAIN q = 1 .. Len(s) - 1
  BY <1>1, <1>4, LenProperties
<1> HIDE DEF q
<1> DEFINE Old(k) == IF k < i THEN k ELSE k + 1
<1>7. ASSUME NEW k \in DOMAIN q PROVE Old(k) \in DOMAIN s /\ Old(k) # i /\ q[k] = s[Old(k)] /\ k \in Int
  BY <1>1, <1>5, <1>6
<1>8. ToSet(q) = ToSet(s) \ {s[i]}
  <2>1. ASSUME NEW x \in ToSet(q) PROVE x \in ToSet(s) \ {s[i]}
    <3>1. PICK k \in DOMAIN q : q[k] = x
      BY DEF ToSet
    <3>2. x = s[Old(k)] /\ Old(k) \in DOMAIN s /\ Old(k) # i
      BY <3>1, <1>7
    <3> HIDE DEF Old
    <3>3. QED
      BY <3>2, NoRepeats(s) DEF ToSet, NoRepeats
  <2>2. ASSUME NEW x \in ToSet(s) \ {s[i]} PROVE x \in ToSet(q)
    <3>1. PICK k \in DOMAIN s : s[k] = x
      BY DEF ToSet
    <3>2. k # i
      BY <3>1, <2>2
    <3>3. CASE k < i
      <4>1. k \in DOMAIN q /\ q[k] = s[k]
        BY <1>1, <1>5, <1>6, <3>3
      <4>2. QED
        BY <4>1, <3>1 DEF ToSet
    <3>4. CASE ~(k < i)
      <4>1. k - 1 \in 1 .. Len(s) - 1 /\ ~(k - 1 < i) /\ (k - 1) + 1 = k
        BY <1>1, <3>2, <3>4
      <4>2. q[k - 1] = s[k]
        BY <4>1, <1>5
      <4>3. QED
        BY <4>1, <4>2, <1>6, <3>1 DEF ToSet
    <3>5. QED
      BY <3>3, <3>4
  <2>3. QED
    BY <2>1, <2>2
<1>9. NoRepeats(q)
  <2>1. SUFFICES ASSUME NEW k \in DOMAIN q, NEW m \in DOMAIN q, q[k] = q[m] PROVE k = m
    BY DEF NoRepeats
  <2>2. Old(k) = Old(m)
    <3>1. /\ Old(k) \in DOMAIN s /\ q[k] = s[Old(k)]
          /\ Old(m) \in DOMAIN s /\ q[m] = s[Old(m)]
      BY <1>7
    <3> HIDE DEF Old
    <3>2. QED
      BY <3>1, <2>1, NoRepeats(s) DEF NoRepeats
  <2>3. QED
    BY <2>2, <1>1, <1>7
<1>10. QED
  BY <1>4, <1>7, <1>8, <1>9 DEF q

LEMMA Reversed ==
  ASSUME NEW S, NEW s \in Seq(S)
  PROVE  Reverse(s) \in Seq(S) /\ ToSet(Reverse(s)) = ToSet(s)
<1>1. Len(s) \in Nat /\ DOMAIN s = 1 .. Len(s) /\ \A i \in 1 .. Len(s) : s[i] \in S
  BY LenProperties, ElementOfSeq
<1>2. \A i \in 1 .. Len(s) :
        /\ (Len(s) - i) + 1 \in 1 .. Len(s)
        /\ (Len(s) - ((Len(s) - i) + 1)) + 1 = i
  BY <1>1
<1>3. DOMAIN Reverse(s) = 1 .. Len(s) /\ \A i \in 1 .. Len(s) : Reverse(s)[i] = s[(Len(s) - i) + 1]
  BY DEF Reverse
<1>4. Reverse(s) \in Seq(S)
  <2>1. Reverse(s) \in [1 .. Len(s) -> S]
    BY <1>1, <1>2 DEF Reverse
  <2>2. QED
    BY <2>1, <1>1, SeqDef
<1>5. ToSet(Reverse(s)) = ToSet(s)
  <2>1. ASSUME NEW x \in ToSet(s) PROVE x \in ToSet(Reverse(s))
    <3>1. PICK i \in 1 .. Len(s) : s[i] = x
      BY <1>1 DEF ToSet
    <3>2. Reverse(s)[(Len(s) - i) + 1] = x
      BY <3>1, <1>2, <1>3
    <3>3. QED
      BY <3>2, <1>2, <1>3 DEF ToSet
  <2>2. ASSUME NEW x \in ToSet(Reverse(s)) PROVE x \in ToSet(s)
    <3>1. PICK i \in 1 .. Len(s) : Reverse(s)[i] = x
      BY <1>3 DEF ToSet
    <3>2. s[(Len(s) - i) + 1] = x
      BY <3>1, <1>3
    <3>3. QED
      BY <3>2, <1>1, <1>2 DEF ToSet
  <2>3. QED
    BY <2>1, <2>2
<1>6. QED
  BY <1>4, <1>5

\* The tasks of the killers are all ordinary processes.
LEMMA TasksAreOrdinary ==
  ASSUME Types, NEW q \in Tasks
  PROVE  q \in Lists /\ ToSet(q) = Ordinary
<1>1. PICK n \in 0 .. Len(procs) : q \in [1 .. n -> Ordinary]
  BY DEF Tasks
<1>2. Ordinary \subseteq Proc
  <2>1. procs \in Seq(Proc)
    BY DEF Types, LocalTypes, OwnTypes, Lists
  <2>2. \A i \in DOMAIN procs : procs[i] \in Proc
    BY <2>1, ElementOfSeq, LenProperties
  <2>3. QED
    BY <2>2 DEF Ordinary, ToSet
<1>3. q \in [1 .. n -> Proc] /\ n \in Nat
  <2>1. Len(procs) \in Nat
    BY LenProperties DEF Types, LocalTypes, OwnTypes, Lists
  <2>2. QED
    BY <1>1, <1>2, <2>1
<1>4. q \in Seq(Proc)
  BY <1>3, SeqDef
<1>5. QED
  BY <1>4 DEF Tasks, Lists

-----------------------------------------------------------------------------
(* Types.                                                                  *)

LEMMA InList ==
  ASSUME NEW s \in Lists, s # <<>>
  PROVE  Head(s) \in Proc /\ Tail(s) \in Lists
BY HeadAndTail DEF Lists

LEMMA MoreInList ==
  ASSUME NEW s \in Lists, NEW p \in Proc
  PROVE  Append(s, p) \in Lists
BY Appended DEF Lists

LEMMA LastInList ==
  ASSUME NEW s \in Lists, s # <<>>
  PROVE  Len(s) = 1 <=> Tail(s) = <<>>
<1>1. Len(s) \in Nat /\ Len(Tail(s)) = Len(s) - 1 /\ Tail(s) \in Seq(Proc)
  BY HeadAndTail, LenProperties DEF Lists
<1>2. Len(<<>>) = 0 /\ (Tail(s) # <<>> => Len(Tail(s)) \in Nat \ {0})
  BY <1>1, EmptySeq
<1>3. QED
  BY <1>1, <1>2

LEMMA Threads == Client \subseteq Thread /\ Killer \subseteq Thread /\ Monitor \in Thread
BY MonitorAssumption

LEMMA ClientTypes ==
  ASSUME Types, NEW c \in Client, ClientStep(c), UNCHANGED setup
  PROVE  Types'
<1> USE Threads DEF Types, LocalTypes, OwnTypes, Here, Goes, Invoke, process, calls, local, monitored, flags, work, postrun,
        Calls, AtWork, Polls, Ending
<1>1. ASSUME NEW p \in Proc, Register(c, p) PROVE Types'
  <2>1. Append(procs, p) \in Lists
    BY MoreInList
  <2>2. CASE p \in Core
    <3>1. on' \in [Thread -> SUBSET Proc] /\ UNCHANGED <<process, call, ret>>
      BY <1>1, <2>2 DEF Register
    <3>2. pc' = [pc EXCEPT ![c] = "core"] /\ procs' \in Lists
      BY <1>1, <2>1, <2>2 DEF Register
    <3>3. UNCHANGED <<core_procs, dead_list, flags, plock, work, postrun, result>>
      BY <1>1 DEF Register
    <3>4. QED
      BY <3>1, <3>2, <3>3
  <2>3. CASE p \notin Core
    BY <1>1, <2>1, <2>3 DEF Register
  <2>4. QED
    BY <2>2, <2>3
<1>2. ASSUME NEW p \in Proc, AppendCore(c, p) PROVE Types'
  <2>1. Append(core_procs, p) \in Lists
    BY MoreInList
  <2>2. QED
    BY <1>2, <2>1 DEF AppendCore
<1>3. ASSUME NEW p \in Proc, KillProcess(c, p) PROVE Types'
  BY <1>3 DEF KillProcess
<1>4. CASE Killed(c)
  BY <1>4 DEF Killed
<1>5. CASE RegistrationsComplete(c)
  BY <1>5 DEF RegistrationsComplete
<1>6. CASE ShutdownMonitor(c)
  BY <1>6 DEF ShutdownMonitor
<1>7. CASE SetShutdown(c)
  BY <1>7 DEF SetShutdown
<1>8. CASE Join(c)
  BY <1>8 DEF Join
<1>9. QED
  BY <1>1, <1>2, <1>3, <1>4, <1>5, <1>6, <1>7, <1>8 DEF ClientStep

LEMMA MonitorTypes ==
  ASSUME Types, MonitorCalls, MonitorStep, UNCHANGED setup
  PROVE  Types'
<1> USE Threads DEF Types, LocalTypes, OwnTypes, Here, Goes, Invoke, process, calls, local, monitored, flags, work, postrun,
        Calls, AtWork, Polls, Ending, MonitorCalls
<1>0. <<>> \in Lists
  BY EmptySeq DEF Lists
<1>1. CASE Copy
  BY <1>1 DEF Copy
<1>2. CASE CheckCopy
  BY <1>0, <1>2 DEF CheckCopy
<1>3. CASE PollNext
  BY <1>3, InList DEF PollNext
<1>4. CASE JudgeAlive
  BY <1>4 DEF JudgeAlive
<1>5. CASE JudgeError
  <2>1. Append(dead, Head(polling)) \in Lists
    BY <1>5, InList, MoreInList DEF JudgeError
  <2>2. QED
    BY <1>5, <2>1 DEF JudgeError
<1>6. CASE JudgeDead
  <2>1. Append(dead, Head(polling)) \in Lists /\ Append(respawn, Head(polling)) \in Lists
    BY <1>6, InList, MoreInList DEF JudgeDead
  <2>2. dead' \in Lists /\ respawn' \in Lists /\ is_shutdown' \in BOOLEAN
    BY <1>6, <2>1 DEF JudgeDead
  <2>3. QED
    BY <1>6, <2>2 DEF JudgeDead
<1>7. CASE Listeners
  <2>1. Append(dead, Head(polling)) \in Lists /\ Head(polling) \in Proc
    BY <1>7, InList, MoreInList DEF Listeners
  <2>2. told' \in [Proc -> 0 .. 2]
    BY <1>7, <2>1 DEF Listeners
  <2>3. QED
    BY <1>7, <2>1, <2>2 DEF Listeners
<1>8. CASE PollDone
  <2>1. Tail(polling) \in Lists
    BY <1>8, InList DEF PollDone
  <2>2. QED
    BY <1>0, <1>8, <2>1 DEF PollDone
<1>9. CASE Unregister
  <2>1. graves # <<>> => Head(graves) \in Proc /\ Tail(graves) \in Lists
    BY InList
  <2>2. \A i \in DOMAIN procs : RemoveAt(procs, i) \in Lists
    <3>1. procs \in Seq(Proc)
      BY DEF Lists
    <3>2. \A i \in DOMAIN procs :
            SubSeq(procs, 1, i - 1) \in Seq(Proc) /\ SubSeq(procs, i + 1, Len(procs)) \in Seq(Proc)
      <4>1. /\ Len(procs) \in Nat /\ DOMAIN procs = 1 .. Len(procs)
            /\ \A i \in 1 .. Len(procs) : procs[i] \in Proc
        BY <3>1, LenProperties, ElementOfSeq
      <4>2. SUFFICES ASSUME NEW i \in 1 .. Len(procs)
                     PROVE  /\ SubSeq(procs, 1, i - 1) \in Seq(Proc)
                            /\ SubSeq(procs, i + 1, Len(procs)) \in Seq(Proc)
        BY <4>1
      <4>3. (\A k \in 1 .. i - 1 : procs[k] \in Proc) /\ (\A k \in i + 1 .. Len(procs) : procs[k] \in Proc)
        BY <4>1
      <4>4. QED
        BY <4>1, <4>3, SubSeqProperties
    <3>3. QED
      BY <3>2, ConcatProperties DEF RemoveAt, Lists
  <2>3. CASE Head(graves) \in ToSet(procs)
    BY <1>9, <2>1, <2>2, <2>3 DEF Unregister
  <2>4. CASE Head(graves) \notin ToSet(procs)
    BY <1>9, <2>1, <2>4 DEF Unregister
  <2>5. QED
    BY <2>3, <2>4
<1>10. CASE Buried
  <2>1. Head(graves) \in Proc /\ Tail(graves) \in Lists
    BY <1>10, InList DEF Buried
  <2>2. Append(dead_list, Head(graves)) \in Lists
    BY <2>1, MoreInList
  <2>3. QED
    BY <1>10, <2>1, <2>2 DEF Buried
<1>11. CASE BuryDone
  BY <1>0, <1>11 DEF BuryDone, AllDead
<1>12. CASE RespawnStop
  BY <1>12, InList DEF RespawnStop
<1>13. CASE RespawnStart
  BY <1>13, InList DEF RespawnStart
<1>14. CASE RespawnDone
  BY <1>0, <1>14 DEF RespawnDone
<1>15. CASE Enqueue
  <2>1. PICK q \in Tasks : queue' = q /\ unfinished' = Len(q)
    BY <1>15 DEF Enqueue
  <2>2. q \in Lists /\ Len(q) \in Int
    BY <2>1, TasksAreOrdinary, LenProperties DEF Lists
  <2>3. cores' \in Lists
    BY <1>15, Reversed DEF Enqueue, CoresReversed, Lists
  <2>4. pc' \in [Thread -> {"idle", "core", "kill_process", "shutdown", "join", "gone",
                            "unborn", "kill", "task", "post_run"} \cup AtWork \cup Ending]
    BY <1>15 DEF Enqueue
  <2>5. QED
    BY <1>15, <2>1, <2>2, <2>3, <2>4 DEF Enqueue
<1>16. CASE KillersDone
  BY <1>16 DEF KillersDone
<1>17. CASE KillCore
  BY <1>17, InList DEF KillCore
<1>18. CASE CleanUp
  BY <1>0, <1>18 DEF CleanUp
<1>19. QED
  BY <1>1, <1>2, <1>3, <1>4, <1>5, <1>6, <1>7, <1>8, <1>9, <1>10, <1>11, <1>12, <1>13,
     <1>14, <1>15, <1>16, <1>17, <1>18 DEF MonitorStep

LEMMA KillerTypes ==
  ASSUME Types, NEW k \in Killer, KillerStep(k), UNCHANGED setup
  PROVE  Types'
<1> USE Threads DEF Types, LocalTypes, OwnTypes, Here, Goes, Invoke, process, calls, local, monitored, flags, work, postrun,
        Calls
<1>1. CASE TakeVictim(k)
  BY <1>1, InList DEF TakeVictim
<1>2. CASE TaskDone(k)
  BY <1>2 DEF TaskDone
<1>3. CASE KillerEnds(k)
  BY <1>3 DEF KillerEnds, Ending
<1>4. QED
  BY <1>1, <1>2, <1>3 DEF KillerStep

\* A step of thread t in a call on p.
Calling(t, p) ==
  \/ IsAlive(t, p) \/ Poll(t, p)
  \/ Start(t, p) \/ Spawn(t, p)
  \/ Stop(t, p) \/ Answered(t, p) \/ Terminate(t, p) \/ Kill(t, p)

\* What a call may do to the thread ...
Proceeds(t, p) ==
  /\ on[t] = {p} /\ call[t] # "none"
  /\ \A u \in Thread \ {t} : call'[u] = call[u] /\ on'[u] = on[u] /\ ret'[u] = ret[u]
  /\ \/ /\ on'[t] = {p} /\ ret'[t] = ret[t]
        /\ \/ call[t] = "is_alive" /\ call'[t] = "poll" /\ started[p] /\ popen[p]
           \/ call[t] = "start" /\ call'[t] = "spawn"
           \/ call[t] \in Stops /\ call'[t] \in Stops
     \/ /\ on'[t] = {} /\ call'[t] = "none"
        /\ \/ call[t] = "is_alive" /\ ret'[t] \in {"true", "false"} /\ (ret'[t] = "false" => started[p])
           \/ call[t] = "poll" /\ ret'[t] \in {"true", "false", "raise"} /\ (ret'[t] = "raise" => ~popen[p])
           \/ call[t] \in {"spawn"} \cup Stops /\ ret'[t] = "none"

\* ... and to the process.
Touches(t, p) ==
  /\ \A q \in Proc \ {p} : started'[q] = started[q] /\ popen'[q] = popen[q] /\ child'[q] = child[q]
  /\ call[t] \in {"is_alive", "poll"} => UNCHANGED process
  /\ call[t] \in Stops => started'[p] = started[p] /\ (call'[t] = "none" => child'[p] # "running")
  /\ call[t] = "start" => ~started'[p] /\ popen'[p] = popen[p]
  /\ call[t] = "spawn" => (popen[p] => popen'[p])
  /\ child'[p] = "running" => child[p] = "running" \/ call[t] = "spawn"
  /\ child'[p] = "running" => popen'[p]

LEMMA CallEffect ==
  ASSUME Types, NoHandle, NEW t \in Thread, NEW p \in Proc, Calling(t, p)
  PROVE  Proceeds(t, p) /\ Touches(t, p)
<1> USE DEF Types, LocalTypes, OwnTypes, NoHandle, Proceeds, Touches, Stops, At, Return, Goto, Stopped, process
<1>1. CASE IsAlive(t, p)
  BY <1>1 DEF IsAlive
<1>2. CASE Poll(t, p)
  BY <1>2 DEF Poll
<1>3. CASE Start(t, p)
  BY <1>3 DEF Start
<1>4. CASE Spawn(t, p)
  BY <1>4 DEF Spawn
<1>5. CASE Stop(t, p)
  <2>1. CASE popen[p] /\ child[p] = "running"
    BY <1>5, <2>1 DEF Stop
  <2>2. CASE ~(popen[p] /\ child[p] = "running")
    BY <1>5, <2>2 DEF Stop
  <2>3. QED
    BY <2>1, <2>2
<1>6. CASE Answered(t, p)
  BY <1>6 DEF Answered
<1>7. CASE Terminate(t, p)
  BY <1>7 DEF Terminate
<1>8. CASE Kill(t, p)
  BY <1>8 DEF Kill
<1>9. QED
  BY <1>1, <1>2, <1>3, <1>4, <1>5, <1>6, <1>7, <1>8 DEF Calling

LEMMA CallTypes ==
  ASSUME Types, NEW t \in Thread, NEW p \in Proc, Calling(t, p), UNCHANGED others, UNCHANGED setup
  PROVE  Types'
<1>1. OwnTypes'
  BY DEF Types, OwnTypes, others, monitored, flags, work, postrun
<1>2. LocalTypes'
  <2> USE DEF LocalTypes, At, Return, Goto, Stopped, process, calls, Calls
  <2>0. LocalTypes
    BY DEF Types
  <2>1. CASE IsAlive(t, p)
    BY <2>0, <2>1 DEF IsAlive
  <2>2. CASE Poll(t, p)
    BY <2>0, <2>2 DEF Poll
  <2>3. CASE Start(t, p)
    BY <2>0, <2>3 DEF Start
  <2>4. CASE Spawn(t, p)
    <3>1. started' \in [Proc -> BOOLEAN] /\ lock' \in [Proc -> SUBSET Thread]
      BY <2>0, <2>4 DEF Spawn
    <3>2. popen' \in [Proc -> BOOLEAN]
      BY <2>0, <2>4 DEF Spawn
    <3>3. child' \in [Proc -> {"none", "running", "exited", "killed"}]
      BY <2>0, <2>4 DEF Spawn
    <3>4. QED
      BY <2>0, <2>4, <3>1, <3>2, <3>3 DEF Spawn
  <2>5. CASE Stop(t, p)
    <3>1. CASE popen[p] /\ child[p] = "running"
      BY <2>0, <2>5, <3>1 DEF Stop
    <3>2. CASE ~(popen[p] /\ child[p] = "running")
      <4>1. Stopped(t, p) /\ UNCHANGED child
        BY <2>5, <3>2 DEF Stop
      <4>2. QED
        BY <2>0, <4>1
    <3>3. QED
      BY <3>1, <3>2
  <2>6. CASE Answered(t, p)
    BY <2>0, <2>6 DEF Answered
  <2>7. CASE Terminate(t, p)
    BY <2>0, <2>7 DEF Terminate
  <2>8. CASE Kill(t, p)
    BY <2>0, <2>8 DEF Kill
  <2>9. QED
    BY <2>1, <2>2, <2>3, <2>4, <2>5, <2>6, <2>7, <2>8 DEF Calling
<1>3. QED
  BY <1>1, <1>2 DEF Types

LEMMA ExitTypes ==
  ASSUME Types, NEW p \in Proc, Exit(p), UNCHANGED others, UNCHANGED setup
  PROVE  Types'
BY DEF Types, LocalTypes, OwnTypes, Exit, calls, others, monitored, flags, work, postrun

\* The kinds of step.
LEMMA Steps ==
  ASSUME [Next]_allvars
  PROVE  /\ UNCHANGED setup
         /\ \/ \E c \in Client : ClientStep(c)
            \/ MonitorStep
            \/ \E k \in Killer : KillerStep(k)
            \/ \E t \in Thread : \E p \in Proc : Calling(t, p) /\ UNCHANGED others
            \/ \E p \in Proc : Exit(p) /\ UNCHANGED others
            \/ UNCHANGED vars
BY DEF Next, CallStep, Calling, Finished, allvars

LEMMA TypesStep == IInv /\ [Next]_allvars => Types'
<1> SUFFICES ASSUME IInv, [Next]_allvars PROVE Types'
  OBVIOUS
<1>1. CASE UNCHANGED vars
  BY <1>1, Steps DEF IInv, Types, LocalTypes, OwnTypes, vars, local, process, calls, monitored, flags, work, postrun
<1>2. QED
  BY <1>1, Steps, ClientTypes, MonitorTypes, KillerTypes, CallTypes, ExitTypes DEF IInv

-----------------------------------------------------------------------------
(* Which thread is where.                                                  *)

\* Threads other than t stay where they are.
Stays(t) == call'[t] = call[t] /\ on'[t] = on[t] /\ ret'[t] = ret[t]

LEMMA Apart ==
  /\ Monitor \notin Client /\ Monitor \notin Killer
  /\ \A c \in Client : c \notin Killer
  /\ Thread = Client \cup Killer \cup {Monitor}
BY MonitorAssumption

LEMMA ClientKeeps ==
  ASSUME Types, NEW c \in Client, ClientStep(c)
  PROVE  /\ call[c] = "none"
         /\ \A t \in Thread \ {c} : Stays(t) /\ pc'[t] = pc[t]
         /\ UNCHANGED <<process, dead_list, work, postrun>>
         /\ is_shutdown => is_shutdown'
<1> USE Threads DEF Types, LocalTypes, OwnTypes, Here, Goes, Invoke, calls, local, monitored, flags, Stays
<1>1. ASSUME NEW p \in Proc, Register(c, p)
      PROVE  /\ call[c] = "none"
             /\ \A t \in Thread \ {c} : Stays(t) /\ pc'[t] = pc[t]
             /\ UNCHANGED <<process, dead_list, work, postrun>>
             /\ is_shutdown => is_shutdown'
  BY <1>1 DEF Register
<1>2. ASSUME NEW p \in Proc, AppendCore(c, p)
      PROVE  /\ call[c] = "none"
             /\ \A t \in Thread \ {c} : Stays(t) /\ pc'[t] = pc[t]
             /\ UNCHANGED <<process, dead_list, work, postrun>>
             /\ is_shutdown => is_shutdown'
  BY <1>2 DEF AppendCore
<1>3. ASSUME NEW p \in Proc, KillProcess(c, p)
      PROVE  /\ call[c] = "none"
             /\ \A t \in Thread \ {c} : Stays(t) /\ pc'[t] = pc[t]
             /\ UNCHANGED <<process, dead_list, work, postrun>>
             /\ is_shutdown => is_shutdown'
  BY <1>3 DEF KillProcess
<1>4. CASE Killed(c)
  BY <1>4 DEF Killed
<1>5. CASE RegistrationsComplete(c)
  BY <1>5 DEF RegistrationsComplete
<1>6. CASE ShutdownMonitor(c)
  BY <1>6 DEF ShutdownMonitor
<1>7. CASE SetShutdown(c)
  BY <1>7 DEF SetShutdown
<1>8. CASE Join(c)
  BY <1>8 DEF Join
<1>9. QED
  BY <1>1, <1>2, <1>3, <1>4, <1>5, <1>6, <1>7, <1>8 DEF ClientStep

LEMMA KillerKeeps ==
  ASSUME Types, NEW k \in Killer, KillerStep(k)
  PROVE  /\ call[k] = "none" /\ pc[k] \in {"kill", "task"}
         /\ pc'[k] \in {"kill", "task", "ended"}
         /\ \A t \in Thread \ {k} : Stays(t) /\ pc'[t] = pc[t]
         /\ UNCHANGED <<process, monitored, flags, work, cores, result>>
         /\ \/ call'[k] = "none"
            \/ call'[k] = "stop" /\ on'[k] = {Head(queue)} /\ pc'[k] = "task"
<1> USE Threads DEF Types, LocalTypes, OwnTypes, Here, Goes, Invoke, calls, local, Stays, postrun
<1>1. CASE TakeVictim(k)
  BY <1>1 DEF TakeVictim
<1>2. CASE TaskDone(k)
  BY <1>2 DEF TaskDone
<1>3. CASE KillerEnds(k)
  BY <1>3 DEF KillerEnds
<1>4. QED
  BY <1>1, <1>2, <1>3 DEF KillerStep

LEMMA MonitorKeeps ==
  ASSUME Types, MonitorStep
  PROVE  /\ call[Monitor] = "none"
         /\ \A t \in Thread \ {Monitor} :
              /\ Stays(t)
              /\ pc'[t] = pc[t] \/ (Enqueue /\ t \in setup.killers /\ pc'[t] = "kill")
         /\ UNCHANGED <<process, result>>
         /\ is_shutdown => is_shutdown'
         /\ pc'[Monitor] = "ended" => cores = <<>> /\ pc[Monitor] = "cores"
<1> USE Threads DEF Types, LocalTypes, OwnTypes, Here, Goes, Invoke, calls, local, Stays, flags
<1>1. CASE Copy
  BY <1>1 DEF Copy
<1>2. CASE CheckCopy
  BY <1>2 DEF CheckCopy
<1>3. CASE PollNext
  BY <1>3 DEF PollNext
<1>4. CASE JudgeAlive
  BY <1>4 DEF JudgeAlive
<1>5. CASE JudgeError
  BY <1>5 DEF JudgeError
<1>6. CASE JudgeDead
  BY <1>6 DEF JudgeDead
<1>7. CASE Listeners
  BY <1>7 DEF Listeners
<1>8. CASE PollDone
  BY <1>8 DEF PollDone
<1>9. CASE Unregister
  BY <1>9 DEF Unregister
<1>10. CASE Buried
  BY <1>10 DEF Buried
<1>11. CASE BuryDone
  BY <1>11 DEF BuryDone
<1>12. CASE RespawnStop
  BY <1>12 DEF RespawnStop
<1>13. CASE RespawnStart
  BY <1>13 DEF RespawnStart
<1>14. CASE RespawnDone
  BY <1>14 DEF RespawnDone
<1>15. CASE Enqueue
  BY <1>15 DEF Enqueue
<1>16. CASE KillersDone
  BY <1>16 DEF KillersDone
<1>17. CASE KillCore
  BY <1>17 DEF KillCore
<1>18. CASE CleanUp
  BY <1>18 DEF CleanUp
<1>19. QED
  BY <1>1, <1>2, <1>3, <1>4, <1>5, <1>6, <1>7, <1>8, <1>9, <1>10, <1>11, <1>12, <1>13,
     <1>14, <1>15, <1>16, <1>17, <1>18 DEF MonitorStep

LEMMA SetupTypes ==
  ASSUME Types
  PROVE  /\ setup.killers \subseteq Killer
         /\ setup.raises \in BOOLEAN /\ setup.kills \in BOOLEAN
         /\ Respawn \subseteq Proc /\ Required \subseteq Proc
BY MonitorAssumption DEF Types, OwnTypes, Respawn, Required

LEMMA ClientCallsStep ==
  ASSUME IInv, [Next]_allvars
  PROVE  ClientCalls'
<1> USE DEF IInv, ClientCalls
<1>1. ASSUME NEW c \in Client, ClientStep(c) PROVE ClientCalls'
  <2> SUFFICES ASSUME NEW d \in Client
               PROVE  /\ pc'[d] \in {"idle", "core", "kill_process", "shutdown", "join", "gone"}
                      /\ call'[d] \in {"none"} \cup Starts \cup Stops
                      /\ call'[d] \in Starts => pc'[d] = "idle"
                      /\ call'[d] \in Stops => pc'[d] = "kill_process"
                      /\ pc'[d] = "kill_process" => setup'.kills
    BY DEF ClientCalls
  <2>0. setup' = setup
    BY Steps
  <2>1. CASE d # c
    BY <1>1, <2>0, <2>1, ClientKeeps, Threads DEF Stays
  <2>2. CASE d = c
    <3> USE Threads DEF Types, LocalTypes, OwnTypes, Here, Goes, Invoke, calls, local, Starts, Stops
    <3>1. ASSUME NEW p \in Proc, Register(c, p)
          PROVE  \/ pc'[c] = "core" /\ call'[c] = "none"
                 \/ pc'[c] = "idle" /\ call'[c] = "start"
      BY <3>1 DEF Register
    <3>2. ASSUME NEW p \in Proc, AppendCore(c, p) PROVE pc'[c] = "idle" /\ call'[c] = "start"
      BY <3>2 DEF AppendCore
    <3>3. ASSUME NEW p \in Proc, KillProcess(c, p)
          PROVE  pc'[c] = "kill_process" /\ call'[c] = "stop" /\ setup.kills
      BY <3>3 DEF KillProcess
    <3>4. CASE Killed(c)
      BY <2>0, <2>2, <3>4 DEF Killed
    <3>5. CASE RegistrationsComplete(c)
      BY <2>0, <2>2, <3>5 DEF RegistrationsComplete
    <3>6. CASE ShutdownMonitor(c)
      BY <2>0, <2>2, <3>6 DEF ShutdownMonitor
    <3>7. CASE SetShutdown(c)
      BY <2>0, <2>2, <3>7 DEF SetShutdown
    <3>8. CASE Join(c)
      BY <2>0, <2>2, <3>8 DEF Join
    <3>9. QED
      BY <1>1, <2>0, <2>2, <3>1, <3>2, <3>3, <3>4, <3>5, <3>6, <3>7, <3>8 DEF ClientStep
  <2>3. QED
    BY <2>1, <2>2
<1>2. CASE MonitorStep
  BY <1>2, Steps, MonitorKeeps, SetupTypes, Threads, Apart DEF Stays
<1>3. ASSUME NEW k \in Killer, KillerStep(k) PROVE ClientCalls'
  BY <1>3, Steps, KillerKeeps, Threads, Apart DEF Stays
<1>4. ASSUME NEW t \in Thread, NEW p \in Proc, Calling(t, p), UNCHANGED others PROVE ClientCalls'
  <2>1. Proceeds(t, p)
    BY <1>4, CallEffect
  <2>2. UNCHANGED pc
    BY <1>4 DEF others
  <2>3. QED
    BY <2>1, <2>2, Steps, Threads DEF Proceeds, Starts, Stops
<1>5. ASSUME NEW p \in Proc, Exit(p), UNCHANGED others PROVE ClientCalls'
  BY <1>5, Steps DEF Exit, calls, others
<1>6. CASE UNCHANGED vars
  BY <1>6, Steps DEF vars, local, calls
<1>7. QED
  BY <1>1, <1>2, <1>3, <1>4, <1>5, <1>6, Steps

-----------------------------------------------------------------------------
(* What each step of the monitor does to the monitor itself.               *)

Moves(l, m) == pc[Monitor] = l /\ pc'[Monitor] = m
Asks(c, p) == call'[Monitor] = c /\ on'[Monitor] = {p} /\ ret'[Monitor] = "none"

LEMMA MonitorMoves ==
  ASSUME Types
  PROVE  /\ Copy => Stays(Monitor) /\ Moves("loop", IF is_shutdown THEN "post_run" ELSE "copied")
         /\ CheckCopy => Stays(Monitor) /\
              Moves("copied", IF is_shutdown THEN "post_run" ELSE IF polling = <<>> THEN "bury" ELSE "poll")
         /\ PollNext => Asks("is_alive", Head(polling)) /\ Moves("poll", "polled")
         /\ JudgeAlive => Stays(Monitor) /\ Moves("polled", "next")
         /\ JudgeError => Stays(Monitor) /\ Moves("polled", "next")
         /\ JudgeDead => Stays(Monitor) /\ Moves("polled", "listeners")
         /\ Listeners => Stays(Monitor) /\ Moves("listeners", "next")
         /\ PollDone => Stays(Monitor) /\
              Moves("next", IF is_shutdown \/ Len(polling) = 1 THEN "bury" ELSE "poll")
         /\ Unregister =>
              \/ /\ Head(graves) \in ToSet(procs)
                 /\ Asks("stop", Head(graves)) /\ Moves("bury", "buried")
              \/ /\ Head(graves) \notin ToSet(procs)
                 /\ Stays(Monitor) /\ Moves("bury", "bury")
         /\ Buried => Stays(Monitor) /\ Moves("buried", "bury")
         /\ BuryDone => Stays(Monitor) /\ Moves("bury", "respawn")
         /\ RespawnStop => Asks("stop", Head(respawn)) /\ Moves("respawn", "restart")
         /\ RespawnStart => Asks("start", Head(respawn)) /\ Moves("restart", "respawn")
         /\ RespawnDone => Stays(Monitor) /\ Moves("respawn", "loop")
         /\ Enqueue => Stays(Monitor) /\ Moves("post_run", "killers")
         /\ KillersDone => Stays(Monitor) /\ Moves("killers", "cores")
         /\ KillCore => Asks("stop", Head(cores)) /\ Moves("cores", "cores")
         /\ CleanUp => Stays(Monitor) /\ Moves("cores", "ended")
<1> USE Threads DEF Types, LocalTypes, OwnTypes, Here, Goes, Invoke, calls, local, Stays, Moves, Asks
<1>1. Copy => Stays(Monitor) /\ Moves("loop", IF is_shutdown THEN "post_run" ELSE "copied")
  BY DEF Copy
<1>2. CheckCopy => Stays(Monitor) /\
        Moves("copied", IF is_shutdown THEN "post_run" ELSE IF polling = <<>> THEN "bury" ELSE "poll")
  BY DEF CheckCopy
<1>3. PollNext => Asks("is_alive", Head(polling)) /\ Moves("poll", "polled")
  BY DEF PollNext
<1>4. JudgeAlive => Stays(Monitor) /\ Moves("polled", "next")
  BY DEF JudgeAlive
<1>5. JudgeError => Stays(Monitor) /\ Moves("polled", "next")
  BY DEF JudgeError
<1>6. JudgeDead => Stays(Monitor) /\ Moves("polled", "listeners")
  BY DEF JudgeDead
<1>7. Listeners => Stays(Monitor) /\ Moves("listeners", "next")
  BY DEF Listeners
<1>8. PollDone => Stays(Monitor) /\
        Moves("next", IF is_shutdown \/ Len(polling) = 1 THEN "bury" ELSE "poll")
  BY DEF PollDone
<1>9. Unregister =>
        \/ /\ Head(graves) \in ToSet(procs)
           /\ Asks("stop", Head(graves)) /\ Moves("bury", "buried")
        \/ /\ Head(graves) \notin ToSet(procs)
           /\ Stays(Monitor) /\ Moves("bury", "bury")
  BY DEF Unregister
<1>10. Buried => Stays(Monitor) /\ Moves("buried", "bury")
  BY DEF Buried
<1>11. BuryDone => Stays(Monitor) /\ Moves("bury", "respawn")
  BY DEF BuryDone
<1>12. RespawnStop => Asks("stop", Head(respawn)) /\ Moves("respawn", "restart")
  BY DEF RespawnStop
<1>13. RespawnStart => Asks("start", Head(respawn)) /\ Moves("restart", "respawn")
  BY DEF RespawnStart
<1>14. RespawnDone => Stays(Monitor) /\ Moves("respawn", "loop")
  BY DEF RespawnDone
<1>15. ASSUME Enqueue PROVE Stays(Monitor) /\ Moves("post_run", "killers")
  <2>1. Stays(Monitor) /\ pc[Monitor] = "post_run"
    BY <1>15 DEF Enqueue
  <2>2. pc' = [t \in Thread |-> CASE t = Monitor -> "killers"
                                [] t \in setup.killers -> "kill"
                                [] OTHER -> pc[t]]
    BY <1>15 DEF Enqueue
  <2>3. pc'[Monitor] = "killers"
    BY <2>2, SetupTypes, Apart
  <2>4. QED
    BY <2>1, <2>3
<1>16. KillersDone => Stays(Monitor) /\ Moves("killers", "cores")
  BY DEF KillersDone
<1>17. KillCore => Asks("stop", Head(cores)) /\ Moves("cores", "cores")
  BY DEF KillCore
<1>18. CleanUp => Stays(Monitor) /\ Moves("cores", "ended")
  BY DEF CleanUp
<1>19. QED
  BY <1>1, <1>2, <1>3, <1>4, <1>5, <1>6, <1>7, <1>8, <1>9,
     <1>10, <1>11, <1>12, <1>13, <1>14, <1>15, <1>16, <1>17, <1>18

\* Where the monitor is decides what it calls.
LEMMA MonitorCallsOwn ==
  ASSUME IInv, MonitorStep
  PROVE  MonitorCalls' /\ (pc[Monitor] \in Ending => pc'[Monitor] \in Ending)
<1>0. Types /\ MonitorCalls /\ call[Monitor] = "none"
  BY MonitorKeeps DEF IInv
<1> USE <1>0, MonitorMoves DEF Stays, Moves, Asks, Starts, Stops, MonitorCalls, AtWork, Polls, Ending
<1>1. CASE Copy
  BY <1>1 DEF Copy
<1>2. CASE CheckCopy
  BY <1>2 DEF CheckCopy
<1>3. CASE PollNext
  BY <1>3 DEF PollNext, work
<1>4. CASE JudgeAlive
  BY <1>4 DEF JudgeAlive, work
<1>5. CASE JudgeError
  BY <1>5 DEF JudgeError
<1>6. CASE JudgeDead
  BY <1>6 DEF JudgeDead
<1>7. CASE Listeners
  BY <1>7 DEF Listeners
<1>8. CASE PollDone
  <2>1. polling \in Lists /\ polling # <<>>
    BY <1>8 DEF Types, OwnTypes, PollDone, Here
  <2>2. Len(polling) # 1 => Tail(polling) # <<>>
    BY <2>1, LastInList
  <2>3. QED
    BY <1>8, <2>2 DEF PollDone
<1>9. CASE Unregister
  BY <1>9 DEF Unregister
<1>10. CASE Buried
  BY <1>10 DEF Buried
<1>11. CASE BuryDone
  BY <1>11 DEF BuryDone
<1>12. CASE RespawnStop
  BY <1>12 DEF RespawnStop, work
<1>13. CASE RespawnStart
  BY <1>13 DEF RespawnStart
<1>14. CASE RespawnDone
  BY <1>14 DEF RespawnDone
<1>15. CASE Enqueue
  BY <1>15 DEF Enqueue, work
<1>16. CASE KillersDone
  BY <1>16 DEF KillersDone, work
<1>17. CASE KillCore
  BY <1>17 DEF KillCore, work
<1>18. CASE CleanUp
  BY <1>18 DEF CleanUp, work
<1>19. QED
  BY <1>1, <1>2, <1>3, <1>4, <1>5, <1>6, <1>7, <1>8, <1>9,
     <1>10, <1>11, <1>12, <1>13, <1>14, <1>15, <1>16, <1>17, <1>18 DEF MonitorStep

LEMMA MonitorCallsStep ==
  ASSUME IInv, [Next]_allvars
  PROVE  MonitorCalls'
<1> USE DEF IInv
<1>1. ASSUME NEW c \in Client, ClientStep(c) PROVE MonitorCalls'
  BY <1>1, ClientKeeps, Threads, Apart DEF MonitorCalls, Stays, work
<1>2. CASE MonitorStep
  BY <1>2, MonitorCallsOwn
<1>3. ASSUME NEW k \in Killer, KillerStep(k) PROVE MonitorCalls'
  BY <1>3, KillerKeeps, Threads, Apart DEF MonitorCalls, Stays, work
<1>4. ASSUME NEW t \in Thread, NEW p \in Proc, Calling(t, p), UNCHANGED others PROVE MonitorCalls'
  <2>1. Proceeds(t, p)
    BY <1>4, CallEffect
  <2>2. UNCHANGED <<pc, polling, graves, respawn>>
    BY <1>4 DEF others, work
  <2>3. QED
    BY <2>1, <2>2, Threads DEF Proceeds, Starts, Stops, MonitorCalls
<1>5. ASSUME NEW p \in Proc, Exit(p), UNCHANGED others PROVE MonitorCalls'
  BY <1>5 DEF Exit, calls, others, work, MonitorCalls
<1>6. CASE UNCHANGED vars
  BY <1>6 DEF vars, local, calls, work, MonitorCalls
<1>7. QED
  BY <1>1, <1>2, <1>3, <1>4, <1>5, <1>6, Steps

LEMMA KillerCallsStep ==
  ASSUME IInv, [Next]_allvars
  PROVE  KillerCalls'
<1> USE DEF IInv
<1>1. ASSUME NEW c \in Client, ClientStep(c) PROVE KillerCalls'
  BY <1>1, ClientKeeps, Threads, Apart DEF KillerCalls, Stays
<1>2. CASE MonitorStep
  <2>1. pc[Monitor] \in Ending => pc'[Monitor] \in Ending
    BY <1>2, MonitorCallsOwn
  <2>2. Enqueue => pc'[Monitor] \in Ending
    BY MonitorMoves DEF Moves, Ending
  <2>3. ASSUME NEW k \in Killer
        PROVE  pc'[k] = pc[k] \/ (Enqueue /\ pc'[k] = "kill")
    BY <1>2, MonitorKeeps, Threads, Apart
  <2>4. \A k \in Killer : call'[k] = call[k]
    BY <1>2, MonitorKeeps, Threads, Apart DEF Stays
  <2>5. Enqueue => \A k \in Killer : call[k] = "none"
    BY DEF Enqueue, Here, KillerCalls, Ending
  <2>6. QED
    BY <2>1, <2>2, <2>3, <2>4, <2>5 DEF KillerCalls
<1>3. ASSUME NEW k \in Killer, KillerStep(k) PROVE KillerCalls'
  BY <1>3, KillerKeeps, Threads, Apart DEF KillerCalls, Stays, Stops
<1>4. ASSUME NEW t \in Thread, NEW p \in Proc, Calling(t, p), UNCHANGED others PROVE KillerCalls'
  <2>1. Proceeds(t, p)
    BY <1>4, CallEffect
  <2>2. UNCHANGED pc
    BY <1>4 DEF others
  <2>3. QED
    BY <2>1, <2>2, Threads DEF Proceeds, Stops, KillerCalls
<1>5. ASSUME NEW p \in Proc, Exit(p), UNCHANGED others PROVE KillerCalls'
  BY <1>5 DEF Exit, calls, others, KillerCalls
<1>6. CASE UNCHANGED vars
  BY <1>6 DEF vars, local, calls, KillerCalls
<1>7. QED
  BY <1>1, <1>2, <1>3, <1>4, <1>5, <1>6, Steps

-----------------------------------------------------------------------------
(* The lists of a round.                                                   *)

LEMMA RoundsOwn ==
  ASSUME IInv, MonitorStep
  PROVE  Rounds'
<1>0. \A s \in Lists : s # <<>> /\ Len(s) = 1 => Tail(s) = <<>>
  BY LastInList
<1> USE MonitorMoves DEF IInv, Rounds, Stays, Moves, Asks, AtWork, Polls, Ending, work, flags
<1>1. CASE Copy
  BY <1>1 DEF Copy
<1>2. CASE CheckCopy
  BY <1>2 DEF CheckCopy
<1>3. CASE PollNext
  BY <1>3 DEF PollNext
<1>4. CASE JudgeAlive
  BY <1>4 DEF JudgeAlive
<1>5. CASE JudgeError
  BY <1>5 DEF JudgeError
<1>6. CASE JudgeDead
  BY <1>6 DEF JudgeDead
<1>7. CASE Listeners
  BY <1>7 DEF Listeners
<1>8. CASE PollDone
  <2>1. polling \in Lists /\ polling # <<>>
    BY <1>8 DEF Types, OwnTypes, MonitorCalls
  <2>2. QED
    BY <1>0, <1>8, <2>1 DEF PollDone
<1>9. CASE Unregister
  BY <1>9 DEF Unregister
<1>10. CASE Buried
  BY <1>10 DEF Buried
<1>11. CASE BuryDone
  BY <1>11 DEF BuryDone
<1>12. CASE RespawnStop
  BY <1>12 DEF RespawnStop
<1>13. CASE RespawnStart
  BY <1>13 DEF RespawnStart
<1>14. CASE RespawnDone
  BY <1>14 DEF RespawnDone
<1>15. CASE Enqueue
  BY <1>15 DEF Enqueue
<1>16. CASE KillersDone
  BY <1>16 DEF KillersDone
<1>17. CASE KillCore
  BY <1>17 DEF KillCore
<1>18. CASE CleanUp
  BY <1>18 DEF CleanUp
<1>19. QED
  BY <1>1, <1>2, <1>3, <1>4, <1>5, <1>6, <1>7, <1>8, <1>9,
     <1>10, <1>11, <1>12, <1>13, <1>14, <1>15, <1>16, <1>17, <1>18 DEF MonitorStep

LEMMA RoundsStep ==
  ASSUME IInv, [Next]_allvars
  PROVE  Rounds'
<1> USE DEF IInv
<1>1. ASSUME NEW c \in Client, ClientStep(c) PROVE Rounds'
  BY <1>1, ClientKeeps, Threads, Apart DEF Rounds, work
<1>2. CASE MonitorStep
  BY <1>2, RoundsOwn
<1>3. ASSUME NEW k \in Killer, KillerStep(k) PROVE Rounds'
  BY <1>3, KillerKeeps, Threads, Apart DEF Rounds, work, flags
<1>4. ASSUME NEW t \in Thread, NEW p \in Proc, Calling(t, p), UNCHANGED others PROVE Rounds'
  BY <1>4 DEF Rounds, others, work, flags
<1>5. ASSUME NEW p \in Proc, Exit(p), UNCHANGED others PROVE Rounds'
  BY <1>5 DEF Rounds, others, work, flags
<1>6. CASE UNCHANGED vars
  BY <1>6 DEF Rounds, vars, work, flags
<1>7. QED
  BY <1>1, <1>2, <1>3, <1>4, <1>5, <1>6, Steps

-----------------------------------------------------------------------------
(* What is watched and what is buried.                                     *)

LEMMA ListSets ==
  /\ \A s \in Lists : ToSet(s) \subseteq Proc
  /\ \A s \in Lists : s # <<>> =>
       /\ Head(s) \in Proc /\ Tail(s) \in Lists
       /\ ToSet(s) = {Head(s)} \cup ToSet(Tail(s))
       /\ NoRepeats(s) => NoRepeats(Tail(s)) /\ Head(s) \notin ToSet(Tail(s))
  /\ \A s \in Lists, p \in Proc :
       /\ Append(s, p) \in Lists
       /\ ToSet(Append(s, p)) = ToSet(s) \cup {p}
       /\ NoRepeats(s) /\ p \notin ToSet(s) => NoRepeats(Append(s, p))
  /\ ToSet(<<>>) = {} /\ NoRepeats(<<>>) /\ <<>> \in Lists
<1>1. ASSUME NEW s \in Lists PROVE ToSet(s) \subseteq Proc
  <2>1. \A i \in DOMAIN s : s[i] \in Proc
    BY ElementOfSeq, LenProperties DEF Lists
  <2>2. QED
    BY <2>1 DEF ToSet
<1>2. <<>> \in Lists
  BY EmptySeq DEF Lists
<1>3. QED
  BY <1>1, <1>2, HeadAndTail, Appended, NoElements DEF Lists

LEMMA WatchedOwn ==
  ASSUME IInv, MonitorStep
  PROVE  Watched'
<1>0. /\ Types /\ MonitorCalls /\ Rounds /\ Watched /\ call[Monitor] = "none"
      /\ procs \in Lists /\ dead_list \in Lists
      /\ polling \in Lists /\ dead \in Lists /\ graves \in Lists /\ respawn \in Lists
  BY MonitorKeeps DEF IInv, Types, OwnTypes
<1> USE <1>0, MonitorMoves, ListSets DEF MonitorCalls, Rounds, Watched, Restarting, Starts,
        Stays, Moves, Asks, AtWork, Polls, Ending, work, flags, monitored
<1>1. CASE Copy
  BY <1>1 DEF Copy
<1>2. CASE CheckCopy
  BY <1>2 DEF CheckCopy
<1>3. CASE PollNext
  BY <1>3 DEF PollNext
<1>4. CASE JudgeAlive
  BY <1>4 DEF JudgeAlive
<1>5. CASE JudgeError
  BY <1>5 DEF JudgeError
<1>6. CASE JudgeDead
  BY <1>6 DEF JudgeDead
<1>7. CASE Listeners
  <2>1. Head(polling) \in ToSet(procs) /\ Head(polling) \in Proc
    BY <1>7 DEF Listeners
  <2>2. ToSet(dead) \subseteq ToSet(dead') /\ ToSet(dead') \subseteq ToSet(dead) \cup {Head(polling)}
    <3>1. dead' = dead \/ dead' = Append(dead, Head(polling))
      BY <1>7 DEF Listeners
    <3>2. ToSet(Append(dead, Head(polling))) = ToSet(dead) \cup {Head(polling)}
      BY <2>1
    <3>3. QED
      BY <3>1, <3>2
  <2>3. UNCHANGED <<monitored, polling, graves, respawn>>
    BY <1>7 DEF Listeners
  <2>4. QED
    BY <1>7, <2>1, <2>2, <2>3
<1>8. CASE PollDone
  BY <1>8 DEF PollDone
<1>9. CASE Unregister
  <2>1. CASE Head(graves) \in ToSet(procs)
    <3>1. PICK i \in DOMAIN procs : procs[i] = Head(graves) /\ procs' = RemoveAt(procs, i)
      BY <1>9, <2>1 DEF Unregister
    <3>2. ToSet(procs') = ToSet(procs) \ {Head(graves)} /\ NoRepeats(procs')
      BY <3>1, Removed DEF Lists
    <3>3. QED
      BY <1>9, <2>1, <3>2 DEF Unregister
  <2>2. CASE Head(graves) \notin ToSet(procs)
    <3>1. /\ graves # <<>> /\ graves' = Tail(graves) /\ pc[Monitor] = "bury" /\ pc'[Monitor] = "bury"
          /\ UNCHANGED <<monitored, polling, dead, respawn>> /\ Stays(Monitor)
      BY <1>9, <2>2 DEF Unregister
    <3>2. Head(graves) \in ToSet(dead_list)
      BY <3>1, <2>2
    <3>3. QED
      BY <3>1, <3>2
  <2>3. QED
    BY <2>1, <2>2
<1>10. CASE Buried
  BY <1>10 DEF Buried
<1>11. CASE BuryDone
  BY <1>11 DEF BuryDone
<1>12. CASE RespawnStop
  BY <1>12 DEF RespawnStop
<1>13. CASE RespawnStart
  BY <1>13 DEF RespawnStart
<1>14. CASE RespawnDone
  BY <1>14 DEF RespawnDone
<1>15. CASE Enqueue
  BY <1>15 DEF Enqueue
<1>16. CASE KillersDone
  BY <1>16 DEF KillersDone
<1>17. CASE KillCore
  BY <1>17 DEF KillCore
<1>18. CASE CleanUp
  BY <1>18 DEF CleanUp
<1>19. QED
  BY <1>1, <1>2, <1>3, <1>4, <1>5, <1>6, <1>7, <1>8, <1>9,
     <1>10, <1>11, <1>12, <1>13, <1>14, <1>15, <1>16, <1>17, <1>18 DEF MonitorStep

LEMMA WatchedStep ==
  ASSUME IInv, [Next]_allvars
  PROVE  Watched'
<1> USE DEF IInv
<1>1. ASSUME NEW c \in Client, ClientStep(c) PROVE Watched'
  <2>1. ASSUME NEW p \in Proc, Register(c, p) PROVE Watched'
    <3>1. procs \in Lists
      BY DEF Types, OwnTypes
    <3>2. ToSet(procs') = ToSet(procs) \cup {p} /\ NoRepeats(procs')
      BY <2>1, <3>1, ListSets DEF Register, Watched
    <3>3. p \notin ToSet(dead_list) /\ p \notin ToSet(graves)
      BY <2>1 DEF Register
    <3>4. graves # <<>> => Head(graves) \in ToSet(graves)
      BY HeadAndTail DEF Types, OwnTypes, Lists
    <3>5. QED
      BY <1>1, <3>2, <3>3, <3>4, ClientKeeps, Threads, Apart
         DEF Watched, Restarting, MonitorCalls, Stays, work
  <2>2. ASSUME UNCHANGED procs PROVE Watched'
    BY <1>1, <2>2, ClientKeeps, Threads, Apart DEF Watched, Restarting, Stays, work
  <2>3. (\E p \in Proc : Register(c, p)) \/ UNCHANGED procs
    BY <1>1 DEF ClientStep, AppendCore, KillProcess, Killed, RegistrationsComplete, ShutdownMonitor,
                SetShutdown, Join, monitored
  <2>4. QED
    BY <2>1, <2>2, <2>3
<1>2. CASE MonitorStep
  BY <1>2, WatchedOwn
<1>3. ASSUME NEW k \in Killer, KillerStep(k) PROVE Watched'
  BY <1>3, KillerKeeps, Threads, Apart DEF Watched, Restarting, Stays, work, monitored
<1>4. ASSUME NEW t \in Thread, NEW p \in Proc, Calling(t, p), UNCHANGED others PROVE Watched'
  <2>1. Proceeds(t, p)
    BY <1>4, CallEffect
  <2>2. UNCHANGED <<monitored, work, pc>>
    BY <1>4 DEF others
  <2>3. Restarting' \subseteq Restarting
    BY <2>1, Threads DEF Proceeds, Restarting, Starts, Stops
  <2>4. QED
    BY <2>2, <2>3 DEF Watched, work, monitored
<1>5. ASSUME NEW p \in Proc, Exit(p), UNCHANGED others PROVE Watched'
  BY <1>5 DEF Watched, Restarting, Exit, others, work, monitored, calls
<1>6. CASE UNCHANGED vars
  BY <1>6 DEF Watched, Restarting, vars, local, calls, work, monitored
<1>7. QED
  BY <1>1, <1>2, <1>3, <1>4, <1>5, <1>6, Steps

\* A process is judged once in a round, and never both buried and respawned.
LEMMA OneVerdictOwn ==
  ASSUME IInv, MonitorStep, UNCHANGED setup
  PROVE  OneVerdict'
<1>0. /\ Types /\ MonitorCalls /\ Rounds /\ Watched /\ OneVerdict /\ call[Monitor] = "none"
      /\ procs \in Lists /\ dead_list \in Lists
      /\ polling \in Lists /\ dead \in Lists /\ graves \in Lists /\ respawn \in Lists
  BY MonitorKeeps DEF IInv, Types, OwnTypes
<1>a. ToSet(polling) \cap ToSet(dead_list) = {}
  BY <1>0 DEF Watched
<1>b. ToSet(respawn) \cup Restarting \subseteq Respawn /\ Restarting = {}
  BY <1>0 DEF OneVerdict, Restarting, Starts
<1> USE <1>0, <1>a, <1>b, MonitorMoves, ListSets
        DEF MonitorCalls, Rounds, OneVerdict, Unjudged, Restarting, Starts,
        Stays, Moves, Asks, AtWork, Polls, Ending, work, flags, monitored, Respawn
<1>1. CASE Copy
  BY <1>1 DEF Copy
<1>2. CASE CheckCopy
  BY <1>2 DEF CheckCopy
<1>3. CASE PollNext
  BY <1>3 DEF PollNext
<1>4. CASE JudgeAlive
  BY <1>4 DEF JudgeAlive
<1>5. CASE JudgeError
  <2>1. /\ Head(polling) \in Proc /\ Head(polling) \notin ToSet(Tail(polling))
        /\ ToSet(polling) = {Head(polling)} \cup ToSet(Tail(polling))
    BY <1>5 DEF JudgeError, Watched
  <2>2. QED
    BY <1>5, <2>1 DEF JudgeError
<1>6. CASE JudgeDead
  <2>1. /\ Head(polling) \in Proc /\ Head(polling) \notin ToSet(Tail(polling))
        /\ ToSet(polling) = {Head(polling)} \cup ToSet(Tail(polling))
    BY <1>6 DEF JudgeDead, Watched
  <2>2. ToSet(dead') = ToSet(dead) \cup (IF Mortal(Head(polling)) THEN {Head(polling)} ELSE {})
    BY <1>6, <2>1 DEF JudgeDead
  <2>3. ToSet(respawn') = ToSet(respawn) \cup (IF Head(polling) \in Respawn THEN {Head(polling)} ELSE {})
    BY <1>6, <2>1 DEF JudgeDead
  <2>4. UNCHANGED <<monitored, polling, graves>> /\ graves = <<>>
    BY <1>6 DEF JudgeDead
  <2>5. Mortal(Head(polling)) => Head(polling) \notin Respawn
    BY DEF Mortal
  <2>6. QED
    BY <1>6, <2>1, <2>2, <2>3, <2>4, <2>5
<1>7. CASE Listeners
  <2>1. /\ Head(polling) \in Proc /\ Head(polling) \notin ToSet(Tail(polling))
        /\ ToSet(polling) = {Head(polling)} \cup ToSet(Tail(polling))
    BY <1>7 DEF Listeners, Watched
  <2>2. dead' = dead \/ (setup.raises /\ dead' = Append(dead, Head(polling)))
    BY <1>7 DEF Listeners
  <2>3. ToSet(Append(dead, Head(polling))) = ToSet(dead) \cup {Head(polling)}
    BY <2>1
  <2>4. UNCHANGED <<monitored, polling, graves, respawn>>
    BY <1>7 DEF Listeners
  <2>5. Unjudged = Tail(polling) /\ Unjudged' = Tail(polling) /\ Restarting' = {}
    BY <1>7, <2>4
  <2>6. ToSet(dead') = ToSet(dead) \/ (setup.raises /\ ToSet(dead') = ToSet(dead) \cup {Head(polling)})
    BY <2>2, <2>3
  <2> HIDE <1>0, <1>a, <1>b DEF Unjudged, Restarting
  <2>7. QED
    BY <1>0, <1>b, <2>1, <2>4, <2>5, <2>6
<1>8. CASE PollDone
  BY <1>8 DEF PollDone
<1>9. CASE Unregister
  <2>1. /\ graves' = graves \/ (graves # <<>> /\ graves' = Tail(graves))
        /\ UNCHANGED <<dead_list, polling, dead, respawn>>
    BY <1>9 DEF Unregister
  <2>2. ToSet(graves') \subseteq ToSet(graves)
    <3>1. graves # <<>> => ToSet(Tail(graves)) \subseteq ToSet(graves)
      BY <1>0, HeadAndTail DEF Lists
    <3>2. QED
      BY <2>1, <3>1
  <2>3. Restarting' = {} /\ Unjudged' = Unjudged
    BY <1>9, <2>1
  <2>4. QED
    BY <2>1, <2>2, <2>3
<1>10. CASE Buried
  BY <1>10 DEF Buried
<1>11. CASE BuryDone
  BY <1>11 DEF BuryDone
<1>12. CASE RespawnStop
  BY <1>12 DEF RespawnStop
<1>13. CASE RespawnStart
  BY <1>13 DEF RespawnStart
<1>14. CASE RespawnDone
  BY <1>14 DEF RespawnDone
<1>15. CASE Enqueue
  BY <1>15 DEF Enqueue
<1>16. CASE KillersDone
  BY <1>16 DEF KillersDone
<1>17. CASE KillCore
  BY <1>17 DEF KillCore
<1>18. CASE CleanUp
  BY <1>18 DEF CleanUp
<1>19. QED
  BY <1>1, <1>2, <1>3, <1>4, <1>5, <1>6, <1>7, <1>8, <1>9,
     <1>10, <1>11, <1>12, <1>13, <1>14, <1>15, <1>16, <1>17, <1>18 DEF MonitorStep

LEMMA OneVerdictStep ==
  ASSUME IInv, [Next]_allvars
  PROVE  OneVerdict'
<1> USE DEF IInv
<1>1. ASSUME NEW c \in Client, ClientStep(c) PROVE OneVerdict'
  BY <1>1, Steps, ClientKeeps, Threads, Apart DEF OneVerdict, Unjudged, Restarting, Respawn, work, Stays
<1>2. CASE MonitorStep
  BY <1>2, Steps, OneVerdictOwn
<1>3. ASSUME NEW k \in Killer, KillerStep(k) PROVE OneVerdict'
  BY <1>3, Steps, KillerKeeps, Threads, Apart DEF OneVerdict, Unjudged, Restarting, Respawn, work, monitored, Stays
<1>4. ASSUME NEW t \in Thread, NEW p \in Proc, Calling(t, p), UNCHANGED others PROVE OneVerdict'
  <2>1. Proceeds(t, p)
    BY <1>4, CallEffect
  <2>2. UNCHANGED <<monitored, work, pc, setup>>
    BY <1>4, Steps DEF others
  <2>3. Restarting' \subseteq Restarting
    BY <2>1, Threads DEF Proceeds, Restarting, Starts, Stops
  <2>4. QED
    BY <2>2, <2>3 DEF OneVerdict, Unjudged, Respawn, work, monitored
<1>5. ASSUME NEW p \in Proc, Exit(p), UNCHANGED others PROVE OneVerdict'
  BY <1>5, Steps DEF OneVerdict, Unjudged, Restarting, Respawn, work, Exit, others, monitored, calls
<1>6. CASE UNCHANGED vars
  BY <1>6, Steps DEF OneVerdict, Unjudged, Restarting, Respawn, work, vars, local, calls, monitored
<1>7. QED
  BY <1>1, <1>2, <1>3, <1>4, <1>5, <1>6, Steps

-----------------------------------------------------------------------------
(* Who starts a process.                                                   *)

\* A process that a call sets started was about to be started by a client or
\* is being restarted.
LEMMA Starters ==
  ASSUME IInv, NEW t \in Thread, NEW p \in Proc, Calling(t, p), call[t] \in Starts
  PROVE  \/ t \in Client /\ ToStart(t, p)
         \/ t = Monitor /\ Restarting = {p} /\ pc[Monitor] = "respawn"
<1>1. on[t] = {p}
  BY CallEffect DEF IInv, Proceeds
<1>2. t \notin Killer
  BY DEF IInv, KillerCalls, Starts, Stops
<1>3. CASE t \in Client
  BY <1>1, <1>3 DEF ToStart
<1>4. CASE t = Monitor
  BY <1>1, <1>4 DEF IInv, MonitorCalls, Restarting
<1>5. QED
  BY <1>2, <1>3, <1>4, Apart

LEMMA RegisteredOwn ==
  ASSUME IInv, MonitorStep
  PROVE  Registered'
<1>0. /\ Types /\ Watched /\ Registered /\ started' = started
      /\ procs \in Lists /\ dead_list \in Lists
      /\ graves \in Lists /\ dead \in Lists
  BY MonitorKeeps DEF IInv, Types, OwnTypes, process
<1>1a. graves = <<>> \/ pc[Monitor] \notin AtWork \ {"bury", "buried"}
  BY DEF IInv, Rounds
<1> USE <1>0, <1>1a, MonitorMoves, ListSets DEF Registered, AtWork, Polls, Moves, work, flags, monitored
<1>1. CASE Copy
  BY <1>1 DEF Copy
<1>2. CASE CheckCopy
  BY <1>2 DEF CheckCopy
<1>3. CASE PollNext
  BY <1>3 DEF PollNext
<1>4. CASE JudgeAlive
  BY <1>4 DEF JudgeAlive
<1>5. CASE JudgeError
  BY <1>5 DEF JudgeError
<1>6. CASE JudgeDead
  BY <1>6 DEF JudgeDead
<1>7. CASE Listeners
  BY <1>7 DEF Listeners
<1>8. CASE PollDone
  BY <1>8 DEF PollDone
<1>9. CASE Unregister
  <2>1. CASE Head(graves) \in ToSet(procs)
    <3>1. PICK i \in DOMAIN procs : procs[i] = Head(graves) /\ procs' = RemoveAt(procs, i)
      BY <1>9, <2>1 DEF Unregister
    <3>2. ToSet(procs') = ToSet(procs) \ {Head(graves)}
      BY <3>1, Removed DEF Lists, Watched
    <3>3. graves # <<>> /\ UNCHANGED <<graves, dead_list>>
      BY <1>9, <2>1 DEF Unregister
    <3>4. Head(graves) \in ToSet(graves)
      BY <3>3
    <3>5. QED
      BY <1>9, <3>2, <3>3, <3>4
  <2>2. CASE Head(graves) \notin ToSet(procs)
    <3>1. graves # <<>> /\ graves' = Tail(graves) /\ UNCHANGED monitored /\ pc[Monitor] = "bury"
      BY <1>9, <2>2 DEF Unregister
    <3>2. Head(graves) \in ToSet(dead_list)
      BY <3>1, <2>2 DEF Watched
    <3>3. ToSet(graves) = {Head(graves)} \cup ToSet(graves')
      BY <3>1
    <3>4. QED
      BY <1>9, <3>1, <3>2, <3>3
  <2>3. QED
    BY <2>1, <2>2
<1>10. CASE Buried
  <2>1. graves # <<>>
    BY <1>10 DEF IInv, MonitorCalls
  <2>2. graves' = Tail(graves) /\ dead_list' = Append(dead_list, Head(graves)) /\ procs' = procs
    BY <1>10 DEF Buried
  <2>3. /\ ToSet(graves) = {Head(graves)} \cup ToSet(graves')
        /\ ToSet(dead_list') = ToSet(dead_list) \cup {Head(graves)}
    BY <2>1, <2>2
  <2>4. QED
    BY <1>10, <2>2, <2>3
<1>11. CASE BuryDone
  BY <1>11 DEF BuryDone
<1>12. CASE RespawnStop
  BY <1>12 DEF RespawnStop
<1>13. CASE RespawnStart
  BY <1>13 DEF RespawnStart
<1>14. CASE RespawnDone
  BY <1>14 DEF RespawnDone
<1>15. CASE Enqueue
  BY <1>15 DEF Enqueue
<1>16. CASE KillersDone
  BY <1>16 DEF KillersDone
<1>17. CASE KillCore
  BY <1>17 DEF KillCore
<1>18. CASE CleanUp
  BY <1>18 DEF CleanUp
<1>19. QED
  BY <1>1, <1>2, <1>3, <1>4, <1>5, <1>6, <1>7, <1>8, <1>9,
     <1>10, <1>11, <1>12, <1>13, <1>14, <1>15, <1>16, <1>17, <1>18 DEF MonitorStep

LEMMA RegisteredStep ==
  ASSUME IInv, [Next]_allvars
  PROVE  Registered'
<1> USE DEF IInv
<1>1. ASSUME NEW c \in Client, ClientStep(c) PROVE Registered'
  <2>1. ToSet(procs) \subseteq ToSet(procs')
    <3>1. (\E p \in Proc : Register(c, p)) \/ UNCHANGED procs
      BY <1>1 DEF ClientStep, AppendCore, KillProcess, Killed, RegistrationsComplete, ShutdownMonitor,
                  SetShutdown, Join, monitored
    <3>2. \A p \in Proc : ToSet(procs) \subseteq ToSet(Append(procs, p))
      BY ListSets DEF Types, OwnTypes
    <3>3. QED
      BY <3>1, <3>2 DEF Register
  <2>2. QED
    BY <1>1, <2>1, ClientKeeps, Threads, Apart DEF Registered, process, work
<1>2. CASE MonitorStep
  BY <1>2, RegisteredOwn
<1>3. ASSUME NEW k \in Killer, KillerStep(k) PROVE Registered'
  BY <1>3, KillerKeeps, Threads, Apart DEF Registered, process, work, monitored
<1>4. ASSUME NEW t \in Thread, NEW p \in Proc, Calling(t, p), UNCHANGED others PROVE Registered'
  <2>1. Proceeds(t, p) /\ Touches(t, p)
    BY <1>4, CallEffect
  <2>2. UNCHANGED <<monitored, work, pc>>
    BY <1>4 DEF others
  <2>3. started'[p] => started[p] \/ call[t] \in Starts
    BY <2>1 DEF Proceeds, Touches, Starts, Stops, process
  <2>4. call[t] \in Starts /\ pc[Monitor] # "ended" =>
          p \in ToSet(procs) \cup ToSet(graves) \cup ToSet(dead_list)
    BY <1>4, Starters DEF Unstarted, Watched
  <2>5. QED
    BY <2>1, <2>2, <2>3, <2>4 DEF Registered, Touches, work, monitored
<1>5. ASSUME NEW p \in Proc, Exit(p), UNCHANGED others PROVE Registered'
  BY <1>5 DEF Registered, Exit, others, work, monitored
<1>6. CASE UNCHANGED vars
  BY <1>6 DEF Registered, vars, local, process, work, monitored
<1>7. QED
  BY <1>1, <1>2, <1>3, <1>4, <1>5, <1>6, Steps

-----------------------------------------------------------------------------
(* Processes that a client has registered and not yet started.             *)

LEMMA SeenOwn ==
  ASSUME IInv, MonitorStep
  PROVE  /\ Seen' \subseteq Seen
         /\ ToSet(procs) \ Seen \subseteq ToSet(procs') \/ pc'[Monitor] = "ended"
<1>0. /\ Types /\ Watched /\ MonitorCalls /\ Rounds /\ call[Monitor] = "none" /\ Restarting = {}
      /\ procs \in Lists /\ dead_list \in Lists
      /\ graves \in Lists /\ dead \in Lists /\ respawn \in Lists /\ polling \in Lists
  BY MonitorKeeps DEF IInv, Types, OwnTypes, Restarting, Starts
<1> USE <1>0, MonitorMoves, ListSets
        DEF Seen, Found, Restarting, Starts, MonitorCalls, AtWork, Polls, Moves, Asks, Stays, work, flags, monitored
<1>1. CASE Copy
  BY <1>1 DEF Copy
<1>2. CASE CheckCopy
  BY <1>2 DEF CheckCopy
<1>3. CASE PollNext
  BY <1>3 DEF PollNext
<1>4. CASE JudgeAlive
  BY <1>4 DEF JudgeAlive
<1>5. CASE JudgeError
  <2>1. /\ Head(polling) \in Found /\ Head(polling) \in Proc
    BY <1>5 DEF JudgeError
  <2>2. QED
    BY <1>5, <2>1 DEF JudgeError
<1>6. CASE JudgeDead
  <2>1. /\ Head(polling) \in Found /\ Head(polling) \in Proc
    BY <1>6 DEF JudgeDead
  <2>2. ToSet(dead') \subseteq ToSet(dead) \cup {Head(polling)}
    BY <1>6, <2>1 DEF JudgeDead
  <2>3. ToSet(respawn') \subseteq ToSet(respawn) \cup {Head(polling)}
    BY <1>6, <2>1 DEF JudgeDead
  <2>4. UNCHANGED <<monitored, polling, graves>>
    BY <1>6 DEF JudgeDead
  <2>5. QED
    BY <1>6, <2>1, <2>2, <2>3, <2>4
<1>7. CASE Listeners
  <2>1. /\ Head(polling) \in Found /\ Head(polling) \in Proc
    BY <1>7 DEF Listeners
  <2>2. dead' = dead \/ dead' = Append(dead, Head(polling))
    BY <1>7 DEF Listeners
  <2>3. ToSet(Append(dead, Head(polling))) = ToSet(dead) \cup {Head(polling)}
    BY <2>1
  <2>4. UNCHANGED <<monitored, polling, graves, respawn>>
    BY <1>7 DEF Listeners
  <2>5. QED
    BY <1>7, <2>1, <2>2, <2>3, <2>4
<1>8. CASE PollDone
  BY <1>8 DEF PollDone
<1>9. CASE Unregister
  <2>1. CASE Head(graves) \in ToSet(procs)
    <3>1. PICK i \in DOMAIN procs : procs[i] = Head(graves) /\ procs' = RemoveAt(procs, i)
      BY <1>9, <2>1 DEF Unregister
    <3>2. ToSet(procs') = ToSet(procs) \ {Head(graves)}
      <4>1. NoRepeats(procs) /\ procs \in Seq(Proc)
        BY DEF Lists, Watched
      <4>2. QED
        BY <3>1, <4>1, Removed
    <3>3. graves # <<>> /\ UNCHANGED <<polling, dead, graves, respawn, dead_list>>
      BY <1>9, <2>1 DEF Unregister
    <3>4. Head(graves) \in ToSet(graves)
      BY <3>3
    <3>5. QED
      BY <1>9, <3>2, <3>3, <3>4
  <2>2. CASE Head(graves) \notin ToSet(procs)
    <3>1. graves # <<>> /\ graves' = Tail(graves) /\ UNCHANGED <<monitored, polling, dead, respawn>>
      BY <1>9, <2>2 DEF Unregister
    <3>2. ToSet(graves') \subseteq ToSet(graves)
      BY <3>1
    <3>3. QED
      BY <1>9, <2>2, <3>1, <3>2
  <2>3. QED
    BY <2>1, <2>2
<1>10. CASE Buried
  <2>1. graves # <<>>
    BY <1>10
  <2>2. graves' = Tail(graves) /\ dead_list' = Append(dead_list, Head(graves))
    BY <1>10 DEF Buried
  <2>3. /\ ToSet(graves) = {Head(graves)} \cup ToSet(graves')
        /\ ToSet(dead_list') = ToSet(dead_list) \cup {Head(graves)}
    BY <2>1, <2>2
  <2>4. QED
    BY <1>10, <2>2, <2>3 DEF Buried
<1>11. CASE BuryDone
  BY <1>11 DEF BuryDone
<1>12. CASE RespawnStop
  BY <1>12 DEF RespawnStop
<1>13. CASE RespawnStart
  BY <1>13 DEF RespawnStart
<1>14. CASE RespawnDone
  BY <1>14 DEF RespawnDone
<1>15. CASE Enqueue
  BY <1>15 DEF Enqueue
<1>16. CASE KillersDone
  BY <1>16 DEF KillersDone
<1>17. CASE KillCore
  BY <1>17 DEF KillCore
<1>18. CASE CleanUp
  BY <1>18 DEF CleanUp
<1>19. QED
  BY <1>1, <1>2, <1>3, <1>4, <1>5, <1>6, <1>7, <1>8, <1>9,
     <1>10, <1>11, <1>12, <1>13, <1>14, <1>15, <1>16, <1>17, <1>18 DEF MonitorStep

LEMMA SeenCall ==
  ASSUME IInv, NEW t \in Thread, NEW p \in Proc, Calling(t, p), UNCHANGED others
  PROVE  /\ Seen' \subseteq Seen \cup {q \in Proc : started[q]}
         /\ t \in Client => Seen' = Seen
<1>1. Proceeds(t, p)
  BY CallEffect DEF IInv
<1>2. UNCHANGED <<monitored, work, pc>>
  BY DEF others
<1>3. t # Monitor => Stays(Monitor)
  BY <1>1, Threads DEF Proceeds, Stays
<1>4. Restarting' \subseteq Restarting
  BY <1>1, Threads DEF Proceeds, Restarting, Starts, Stops
<1>5. Found' \subseteq Found \cup {q \in Proc : started[q]}
  <2>1. CASE t # Monitor
    BY <1>2, <1>3, <2>1 DEF Found, Stays, work
  <2>2. CASE t = Monitor
    BY <1>1, <1>2, <2>2 DEF Found, Proceeds, Stops, IInv, MonitorCalls, Polls, work
  <2>3. QED
    BY <2>1, <2>2
<1>6. t \in Client => Found' = Found /\ Restarting' = Restarting
  BY <1>2, <1>3, Apart DEF Found, Restarting, Stays, work
<1>7. QED
  BY <1>2, <1>4, <1>5, <1>6 DEF Seen, work, monitored

\* A client that goes on has registered a new process, or goes on with one
\* it has registered before.
LEMMA ClientStarts ==
  ASSUME Types, NEW c \in Client, ClientStep(c)
  PROVE  \/ \E p \in Proc : /\ Register(c, p) /\ on'[c] = {p}
                             /\ procs' = Append(procs, p)
         \/ UNCHANGED procs /\ \A q \in Proc : ToStart(c, q)' => ToStart(c, q)
<1> USE Threads DEF Types, LocalTypes, OwnTypes, Here, Goes, Invoke, calls, local, monitored, ToStart, Starts
<1>1. ASSUME NEW p \in Proc, Register(c, p) PROVE on'[c] = {p} /\ procs' = Append(procs, p)
  BY <1>1 DEF Register
<1>2. ASSUME NEW p \in Proc, AppendCore(c, p)
      PROVE  UNCHANGED procs /\ \A q \in Proc : ToStart(c, q)' => ToStart(c, q)
  BY <1>2 DEF AppendCore
<1>3. ASSUME NEW p \in Proc, KillProcess(c, p)
      PROVE  UNCHANGED procs /\ \A q \in Proc : ToStart(c, q)' => ToStart(c, q)
  BY <1>3 DEF KillProcess
<1>4. CASE Killed(c)
  BY <1>4 DEF Killed
<1>5. CASE RegistrationsComplete(c)
  BY <1>5 DEF RegistrationsComplete
<1>6. CASE ShutdownMonitor(c)
  BY <1>6 DEF ShutdownMonitor
<1>7. CASE SetShutdown(c)
  BY <1>7 DEF SetShutdown
<1>8. CASE Join(c)
  BY <1>8 DEF Join
<1>9. QED
  BY <1>1, <1>2, <1>3, <1>4, <1>5, <1>6, <1>7, <1>8 DEF ClientStep

LEMMA UnstartedStep ==
  ASSUME IInv, [Next]_allvars
  PROVE  Unstarted'
<1> USE DEF IInv
<1>1. ASSUME NEW c \in Client, ClientStep(c) PROVE Unstarted'
  <2>1. Seen' = Seen /\ pc'[Monitor] = pc[Monitor] /\ UNCHANGED process
    BY <1>1, ClientKeeps, Threads, Apart DEF Seen, Found, Restarting, Stays, work
  <2>2. \A d \in Client \ {c} : \A q \in Proc : ToStart(d, q)' = ToStart(d, q)
    BY <1>1, ClientKeeps, Threads DEF ToStart, Stays
  <2>3. CASE UNCHANGED procs /\ \A q \in Proc : ToStart(c, q)' => ToStart(c, q)
    BY <2>1, <2>2, <2>3 DEF Unstarted, process
  <2>4. ASSUME NEW p \in Proc, Register(c, p), on'[c] = {p}, procs' = Append(procs, p)
        PROVE  Unstarted'
    <3>1. ToSet(procs') = ToSet(procs) \cup {p}
      BY <2>4, ListSets DEF Types, OwnTypes
    <3>2. /\ p \notin ToSet(procs) \cup ToSet(graves) \cup ToSet(dead_list)
          /\ pc[Monitor] # "ended"
      <4>1. ~is_shutdown /\ p \notin ToSet(procs) \cup ToSet(graves) \cup ToSet(dead_list)
        BY <2>4 DEF Register
      <4>2. QED
        BY <4>1 DEF Rounds, AtWork, Polls
    <3>3. p \notin Seen
      <4>1. Found \subseteq ToSet(procs)
        <5>1. Found # {} => pc[Monitor] \in Polls /\ Found = {Head(polling)}
          BY DEF Found, Polls
        <5>2. pc[Monitor] \in Polls => Head(polling) \in ToSet(polling)
          BY HeadAndTail DEF MonitorCalls, Types, OwnTypes, Lists
        <5>3. QED
          BY <5>1, <5>2 DEF Watched
      <4>2. QED
        BY <3>2, <4>1 DEF Seen, Watched
    <3>4. ~started[p]
      BY <3>2 DEF Registered
    <3>5. \A d \in Client : ~ToStart(d, p)
      BY <3>2 DEF Unstarted
    <3>6. \A q \in Proc : ToStart(c, q)' => q = p
      BY <2>4 DEF ToStart
    <3>7. QED
      BY <2>1, <2>2, <3>1, <3>3, <3>4, <3>5, <3>6 DEF Unstarted, process
  <2>5. QED
    BY <1>1, <2>3, <2>4, ClientStarts
<1>2. CASE MonitorStep
  <2>1. \A c \in Client : \A q \in Proc : ToStart(c, q)' = ToStart(c, q)
    BY <1>2, MonitorKeeps, SetupTypes, Threads, Apart DEF ToStart, Stays
  <2>2. /\ Seen' \subseteq Seen /\ UNCHANGED process
        /\ ToSet(procs) \ Seen \subseteq ToSet(procs') \/ pc'[Monitor] = "ended"
    BY <1>2, SeenOwn, MonitorKeeps
  <2>3. pc[Monitor] # "ended"
    BY <1>2, MonitorMoves DEF MonitorStep, Moves
  <2>4. QED
    BY <2>1, <2>2, <2>3 DEF Unstarted, process
<1>3. ASSUME NEW k \in Killer, KillerStep(k) PROVE Unstarted'
  <2>1. \A c \in Client : \A q \in Proc : ToStart(c, q)' = ToStart(c, q)
    BY <1>3, KillerKeeps, Threads, Apart DEF ToStart, Stays
  <2>2. Seen' = Seen /\ pc'[Monitor] = pc[Monitor] /\ UNCHANGED <<process, procs>>
    BY <1>3, KillerKeeps, Threads, Apart DEF Seen, Found, Restarting, Stays, work, monitored
  <2>3. QED
    BY <2>1, <2>2 DEF Unstarted, process
<1>4. ASSUME NEW t \in Thread, NEW p \in Proc, Calling(t, p), UNCHANGED others PROVE Unstarted'
  <2>1. Proceeds(t, p) /\ Touches(t, p)
    BY <1>4, CallEffect
  <2>2. UNCHANGED <<monitored, work, pc>>
    BY <1>4 DEF others
  <2>3. ASSUME NEW c \in Client, NEW q \in Proc, ToStart(c, q)'
        PROVE  ToStart(c, q) /\ (c = t => call[t] = "start" /\ ~started'[p] /\ q = p)
    <3>1. CASE c = t
      BY <2>1, <2>2, <2>3, <3>1 DEF ToStart, Proceeds, Touches, Starts, Stops, ClientCalls
    <3>2. CASE c # t
      BY <2>1, <2>2, <2>3, <3>2, Threads DEF ToStart, Proceeds
    <3>3. QED
      BY <3>1, <3>2
  <2>4. ASSUME NEW c \in Client, NEW q \in Proc, ToStart(c, q)'
        PROVE  ~started'[q] /\ q \notin Seen'
    <3>1. ToStart(c, q) /\ ~started[q] /\ q \notin Seen
      BY <2>3, <2>4 DEF Unstarted
    <3>2. q \notin Seen'
      BY <1>4, <3>1, SeenCall
    <3>3. CASE q # p
      BY <2>1, <3>1, <3>2, <3>3 DEF Touches
    <3>4. CASE q = p /\ call[t] \in Starts
      <4>1. t # Monitor
        BY <3>1, <3>4, <1>4, Starters, Apart DEF Seen
      <4>2. t \in Client /\ ToStart(t, q)
        BY <3>4, <4>1, <1>4, Starters
      <4>3. t = c
        BY <3>1, <4>2 DEF Unstarted
      <4>4. QED
        BY <2>3, <2>4, <3>2, <3>4, <4>3
    <3>5. CASE q = p /\ call[t] \notin Starts
      BY <2>1, <3>1, <3>2, <3>5 DEF Proceeds, Touches, Starts, Stops, process
    <3>6. QED
      BY <3>3, <3>4, <3>5
  <2>5. QED
    BY <2>2, <2>3, <2>4 DEF Unstarted, monitored
<1>5. ASSUME NEW p \in Proc, Exit(p), UNCHANGED others PROVE Unstarted'
  BY <1>5 DEF Unstarted, ToStart, Seen, Found, Restarting, Exit, others, work, monitored, calls
<1>6. CASE UNCHANGED vars
  BY <1>6 DEF Unstarted, ToStart, Seen, Found, Restarting, vars, local, process, calls, work, monitored
<1>7. QED
  BY <1>1, <1>2, <1>3, <1>4, <1>5, <1>6, Steps

-----------------------------------------------------------------------------
(* What is buried stays stopped.                                           *)

LEMMA NoHandleStep ==
  ASSUME IInv, [Next]_allvars
  PROVE  NoHandle'
<1>1. ASSUME NEW t \in Thread, NEW p \in Proc, Calling(t, p) PROVE NoHandle'
  BY <1>1, CallEffect DEF IInv, NoHandle, Touches
<1>2. ASSUME NEW p \in Proc, Exit(p) PROVE NoHandle'
  BY <1>2 DEF IInv, NoHandle, Exit, Types, LocalTypes
<1>3. ASSUME UNCHANGED process PROVE NoHandle'
  BY <1>3 DEF IInv, NoHandle, process
<1>4. QED
  BY <1>1, <1>2, <1>3, Steps, ClientKeeps, MonitorKeeps, KillerKeeps DEF IInv, vars, local

\* A call that makes a process run is made by a client that has just
\* registered it, or by the monitor.
LEMMA Revivers ==
  ASSUME IInv, NEW t \in Thread, NEW p \in Proc, Calling(t, p),
         child[p] # "running", child'[p] = "running"
  PROVE  \/ t \in Client /\ ToStart(t, p) /\ p \notin Seen
         \/ t = Monitor /\ Restarting = {p} /\ pc[Monitor] = "respawn" /\ p \in Respawn
<1>1. call[t] \in Starts
  BY CallEffect DEF IInv, Touches, Starts
<1>2. QED
  BY <1>1, Starters DEF IInv, Unstarted, OneVerdict

LEMMA StoppingOwn ==
  ASSUME IInv, MonitorStep, UNCHANGED setup
  PROVE  Stopping'
<1>0. /\ Types /\ MonitorCalls /\ Stopping /\ UNCHANGED <<process, setup>>
      /\ dead_list \in Lists /\ graves \in Lists
  BY MonitorKeeps DEF IInv, Types, OwnTypes
<1> USE <1>0, MonitorMoves, ListSets
        DEF Stopping, BuriedStopped, Safe, Respawn, MonitorCalls, Moves, Asks, Stays, process, monitored
<1>1. CASE Copy
  BY <1>1 DEF Copy
<1>2. CASE CheckCopy
  BY <1>2 DEF CheckCopy
<1>3. CASE PollNext
  BY <1>3 DEF PollNext
<1>4. CASE JudgeAlive
  BY <1>4 DEF JudgeAlive
<1>5. CASE JudgeError
  BY <1>5 DEF JudgeError
<1>6. CASE JudgeDead
  BY <1>6 DEF JudgeDead
<1>7. CASE Listeners
  BY <1>7 DEF Listeners
<1>8. CASE PollDone
  BY <1>8 DEF PollDone
<1>9. CASE Unregister
  BY <1>9 DEF Unregister
<1>10. CASE Buried
  <2>1. graves # <<>> /\ call[Monitor] = "none"
    BY <1>10, MonitorKeeps
  <2>2. dead_list' = Append(dead_list, Head(graves))
    BY <1>10 DEF Buried
  <2>3. ToSet(dead_list') = ToSet(dead_list) \cup {Head(graves)}
    BY <2>1, <2>2
  <2>4. child[Head(graves)] # "running"
    BY <1>10, <2>1
  <2>5. QED
    BY <1>10, <2>3, <2>4
<1>11. CASE BuryDone
  BY <1>11 DEF BuryDone
<1>12. CASE RespawnStop
  BY <1>12 DEF RespawnStop
<1>13. CASE RespawnStart
  BY <1>13 DEF RespawnStart
<1>14. CASE RespawnDone
  BY <1>14 DEF RespawnDone
<1>15. CASE Enqueue
  BY <1>15 DEF Enqueue
<1>16. CASE KillersDone
  BY <1>16 DEF KillersDone
<1>17. CASE KillCore
  BY <1>17 DEF KillCore
<1>18. CASE CleanUp
  BY <1>18 DEF CleanUp
<1>19. QED
  BY <1>1, <1>2, <1>3, <1>4, <1>5, <1>6, <1>7, <1>8, <1>9,
     <1>10, <1>11, <1>12, <1>13, <1>14, <1>15, <1>16, <1>17, <1>18 DEF MonitorStep

LEMMA StoppingStep ==
  ASSUME IInv, [Next]_allvars
  PROVE  Stopping'
<1> USE DEF IInv
<1>1. ASSUME NEW c \in Client, ClientStep(c) PROVE Stopping'
  BY <1>1, Steps, ClientKeeps, Threads, Apart DEF Stopping, BuriedStopped, Safe, Respawn, Stays, work, process
<1>2. CASE MonitorStep
  BY <1>2, Steps, StoppingOwn
<1>3. ASSUME NEW k \in Killer, KillerStep(k) PROVE Stopping'
  BY <1>3, Steps, KillerKeeps, Threads, Apart DEF Stopping, BuriedStopped, Safe, Respawn, Stays, work, process, monitored
<1>4. ASSUME NEW t \in Thread, NEW p \in Proc, Calling(t, p), UNCHANGED others PROVE Stopping'
  <2>1. Proceeds(t, p) /\ Touches(t, p)
    BY <1>4, CallEffect
  <2>2. UNCHANGED <<monitored, work, pc, setup>>
    BY <1>4, Steps DEF others
  <2>3. ASSUME NEW q \in ToSet(dead_list), Safe(q), child[q] # "running" PROVE child'[q] # "running"
    <3>1. CASE q = p
      BY <1>4, <2>3, <3>1, Revivers DEF Seen, OneVerdict, Safe
    <3>2. CASE q # p
      BY <2>1, <2>3, <3>2, ListSets DEF Touches, Types, OwnTypes
    <3>3. QED
      BY <3>1, <3>2
  <2>4. ASSUME pc[Monitor] = "buried", call'[Monitor] = "none" PROVE child'[Head(graves)] # "running"
    <3>1. graves # <<>> /\ Head(graves) \in ToSet(graves) /\ Head(graves) \in Proc
      BY <2>4, HeadAndTail DEF MonitorCalls, Types, OwnTypes, Lists
    <3>2. CASE t = Monitor
      BY <2>1, <2>4, <3>2 DEF Proceeds, Touches, MonitorCalls, Starts, Stops, Polls
    <3>3. CASE t # Monitor
      <4>1. child[Head(graves)] # "running"
        BY <2>1, <2>4, <3>3, Threads DEF Proceeds, Stopping
      <4>2. QED
        BY <1>4, <2>1, <3>1, <3>3, <4>1, Revivers DEF Touches, Seen
    <3>4. QED
      BY <3>2, <3>3
  <2>5. QED
    BY <2>2, <2>3, <2>4 DEF Stopping, BuriedStopped, Safe, Respawn, work, monitored
<1>5. ASSUME NEW p \in Proc, Exit(p), UNCHANGED others PROVE Stopping'
  BY <1>5, Steps, ListSets DEF Stopping, BuriedStopped, Safe, Respawn, Exit, others, work, monitored, calls, Types, LocalTypes, OwnTypes, MonitorCalls
<1>6. CASE UNCHANGED vars
  BY <1>6, Steps DEF Stopping, BuriedStopped, Safe, Respawn, vars, local, process, calls, work, monitored
<1>7. QED
  BY <1>1, <1>2, <1>3, <1>4, <1>5, <1>6, Steps

-----------------------------------------------------------------------------
(* What the listeners were told.                                           *)

LEMMA TellingOwn ==
  ASSUME IInv, MonitorStep, UNCHANGED setup
  PROVE  Telling'
<1>0. /\ Types /\ MonitorCalls /\ Rounds /\ Watched /\ Telling /\ UNCHANGED <<process, setup>>
      /\ call[Monitor] = "none"
      /\ dead_list \in Lists /\ graves \in Lists /\ polling \in Lists /\ dead \in Lists
      /\ procs \in Lists
      /\ told \in [Proc -> 0 .. 2]
  BY MonitorKeeps DEF IInv, Types, OwnTypes
<1>a. /\ ToSet(polling) \cap ToSet(dead_list) = {} /\ NoRepeats(polling)
      /\ ToSet(procs) \cap ToSet(dead_list) = {}
  BY <1>0 DEF Watched
<1> USE <1>0, <1>a, MonitorMoves, ListSets
        DEF Telling, Mortal, Respawn, Required, MonitorCalls, Rounds, Moves, Asks, Stays, AtWork, Polls,
            work, flags, monitored
<1>1. CASE Copy
  BY <1>1 DEF Copy
<1>2. CASE CheckCopy
  BY <1>2 DEF CheckCopy
<1>3. CASE PollNext
  BY <1>3 DEF PollNext
<1>4. CASE JudgeAlive
  BY <1>4 DEF JudgeAlive
<1>5. CASE JudgeError
  BY <1>5 DEF JudgeError
<1>6. CASE JudgeDead
  <2>1. /\ Head(polling) \in Proc /\ Head(polling) \notin ToSet(Tail(polling))
        /\ ToSet(polling) = {Head(polling)} \cup ToSet(Tail(polling))
    BY <1>6 DEF JudgeDead
  <2>2. ToSet(dead') = ToSet(dead) \cup (IF Mortal(Head(polling)) THEN {Head(polling)} ELSE {})
    BY <1>6, <2>1 DEF JudgeDead
  <2>3. /\ UNCHANGED <<monitored, polling, graves, told>> /\ pc'[Monitor] = "listeners"
        /\ pc[Monitor] = "polled"
        /\ is_shutdown' = (is_shutdown \/ Fatal(Head(polling)))
    BY <1>6 DEF JudgeDead
  <2>4. Stays(Monitor)
    BY <1>6
  <2>5. \/ Head(polling) \in Respawn
        \/ Head(polling) \in ToSet(dead')
        \/ is_shutdown'
    BY <2>2, <2>3 DEF Fatal
  <2>6. ASSUME ~setup.kills, NEW q \in Proc \ Respawn
        PROVE  /\ q \in ToSet(dead') => told[q] = 1 \/ q = Head(polling)
               /\ told[q] # 0 => q \in ToSet(dead') \cup ToSet(dead_list) \/ is_shutdown'
               /\ q \in ToSet(polling) => told[q] = 0
               /\ q \in ToSet(graves) \cup ToSet(dead_list) => told[q] = 1
    BY <2>2, <2>3, <2>6
  <2>7. Respawn' = Respawn
    OBVIOUS
  <2> HIDE DEF Respawn
  <2>8. QED
    BY <2>2, <2>3, <2>4, <2>5, <2>6, <2>7
<1>7. CASE Listeners
  <2>1. /\ Head(polling) \in Proc /\ Head(polling) \notin ToSet(Tail(polling))
        /\ ToSet(polling) = {Head(polling)} \cup ToSet(Tail(polling))
    BY <1>7 DEF Listeners
  <2>2. ToSet(dead') = ToSet(dead) \/ (setup.raises /\ ToSet(dead') = ToSet(dead) \cup {Head(polling)})
    <3>1. dead' = dead \/ (setup.raises /\ dead' = Append(dead, Head(polling)))
      BY <1>7 DEF Listeners
    <3>2. ToSet(Append(dead, Head(polling))) = ToSet(dead) \cup {Head(polling)}
      BY <2>1
    <3>3. QED
      BY <3>1, <3>2
  <2>3. /\ UNCHANGED <<monitored, polling, graves, is_shutdown>> /\ pc'[Monitor] = "next"
        /\ pc[Monitor] = "listeners"
    BY <1>7 DEF Listeners
  <2>4. /\ \A q \in Proc \ {Head(polling)} : told'[q] = told[q]
        /\ told'[Head(polling)] # 0
        /\ told[Head(polling)] = 0 => told'[Head(polling)] = 1
    BY <1>7, <2>1 DEF Listeners, Reports
  <2>5. Stays(Monitor)
    BY <1>7
  <2>6. Head(polling) \notin Respawn /\ ~setup.kills => told[Head(polling)] = 0
    BY <2>1, <2>3
  <2>7. QED
    BY <2>1, <2>2, <2>3, <2>4, <2>5, <2>6
<1>8. CASE PollDone
  <2>1. /\ Head(polling) \in Proc /\ Head(polling) \notin ToSet(Tail(polling))
        /\ ToSet(polling) = {Head(polling)} \cup ToSet(Tail(polling))
    BY <1>8 DEF PollDone
  <2>2. /\ UNCHANGED <<monitored, dead, is_shutdown, told>> /\ pc'[Monitor] \in {"bury", "poll"}
        /\ pc[Monitor] = "next" /\ graves' \in {graves, dead} /\ polling' \in {<<>>, Tail(polling)}
    BY <1>8 DEF PollDone
  <2>3. Stays(Monitor)
    BY <1>8
  <2>4. ToSet(polling') \subseteq ToSet(Tail(polling)) /\ ToSet(graves') \subseteq ToSet(graves) \cup ToSet(dead)
    BY <2>2
  <2>5. QED
    BY <2>1, <2>2, <2>3, <2>4
<1>9. CASE Unregister
  <2>1. /\ graves' = graves \/ (graves # <<>> /\ graves' = Tail(graves))
        /\ UNCHANGED <<dead_list, polling, dead, is_shutdown, told>>
        /\ pc[Monitor] = "bury" /\ pc'[Monitor] \in {"bury", "buried"}
    BY <1>9 DEF Unregister
  <2>2. ToSet(graves') \subseteq ToSet(graves)
    <3>1. graves # <<>> => ToSet(Tail(graves)) \subseteq ToSet(graves)
      BY <1>0, HeadAndTail DEF Lists
    <3>2. QED
      BY <2>1, <3>1
  <2>3. call'[Monitor] \in {"none", "stop"} /\ (ret'[Monitor] = ret[Monitor] \/ ret'[Monitor] = "none")
    BY <1>9
  <2>4. QED
    BY <2>1, <2>2, <2>3
<1>10. CASE Buried
  <2>1. /\ graves # <<>> /\ graves' = Tail(graves) /\ dead_list' = Append(dead_list, Head(graves))
        /\ UNCHANGED <<polling, dead, is_shutdown, told>>
        /\ pc[Monitor] = "buried" /\ pc'[Monitor] = "bury"
    BY <1>10 DEF Buried
  <2>2. /\ ToSet(graves) = {Head(graves)} \cup ToSet(graves')
        /\ ToSet(dead_list') = ToSet(dead_list) \cup {Head(graves)}
    BY <2>1
  <2>3. Stays(Monitor)
    BY <1>10
  <2>4. QED
    BY <2>1, <2>2, <2>3
<1>11. CASE BuryDone
  <2>1. ToSet(dead) \subseteq ToSet(dead_list)
    BY <1>11 DEF BuryDone, Watched
  <2>2. QED
    BY <1>11, <2>1 DEF BuryDone
<1>12. CASE RespawnStop
  BY <1>12 DEF RespawnStop
<1>13. CASE RespawnStart
  BY <1>13 DEF RespawnStart
<1>14. CASE RespawnDone
  BY <1>14 DEF RespawnDone
<1>15. CASE Enqueue
  BY <1>15 DEF Enqueue
<1>16. CASE KillersDone
  BY <1>16 DEF KillersDone
<1>17. CASE KillCore
  BY <1>17 DEF KillCore
<1>18. CASE CleanUp
  BY <1>18 DEF CleanUp
<1>19. QED
  BY <1>1, <1>2, <1>3, <1>4, <1>5, <1>6, <1>7, <1>8, <1>9,
     <1>10, <1>11, <1>12, <1>13, <1>14, <1>15, <1>16, <1>17, <1>18 DEF MonitorStep

LEMMA TellingStep ==
  ASSUME IInv, [Next]_allvars
  PROVE  Telling'
<1> USE DEF IInv
<1>1. ASSUME NEW c \in Client, ClientStep(c) PROVE Telling'
  BY <1>1, Steps, ClientKeeps, Threads, Apart DEF Telling, Mortal, Respawn, Required, work, Stays, process
<1>2. CASE MonitorStep
  BY <1>2, Steps, TellingOwn
<1>3. ASSUME NEW k \in Killer, KillerStep(k) PROVE Telling'
  BY <1>3, Steps, KillerKeeps, Threads, Apart DEF Telling, Mortal, Respawn, Required, work, Stays, process, monitored, flags
<1>4. ASSUME NEW t \in Thread, NEW p \in Proc, Calling(t, p), UNCHANGED others PROVE Telling'
  <2>1. Proceeds(t, p) /\ Touches(t, p)
    BY <1>4, CallEffect
  <2>2. UNCHANGED <<dead_list, polling, dead, graves, told, is_shutdown, pc, setup>>
    BY <1>4, Steps DEF others, work, monitored, flags
  <2>3. ASSUME ~setup.kills, call'[Monitor] = "poll" PROVE popen'[Head(polling)]
    <3>1. CASE t = Monitor
      BY <2>1, <2>3, <3>1, Threads DEF Proceeds, Touches, MonitorCalls, Stops, process
    <3>2. CASE t # Monitor
      <4>1. call[Monitor] = "poll" /\ popen[Head(polling)] /\ pc[Monitor] = "polled"
        BY <2>1, <2>3, <3>2, Threads DEF Proceeds, Telling, MonitorCalls
      <4>2. call[t] \notin Stops
        BY <2>3, <3>2, <4>1, Apart DEF ClientCalls, KillerCalls, Stops, Ending
      <4>3. Head(polling) \in Proc
        BY <4>1, HeadAndTail DEF MonitorCalls, Polls, Types, OwnTypes, Lists
      <4>4. popen[p] => popen'[p]
        BY <2>1, <4>2 DEF Proceeds, Touches, Stops, process
      <4>5. QED
        BY <2>1, <4>1, <4>3, <4>4 DEF Touches
    <3>3. QED
      BY <3>1, <3>2
  <2>4. ~setup.kills => ret'[Monitor] # "raise"
    BY <2>1, Threads DEF Proceeds, Telling, MonitorCalls, Stops
  <2>5. QED
    BY <2>2, <2>3, <2>4 DEF Telling, Mortal, Respawn, Required
<1>5. ASSUME NEW p \in Proc, Exit(p), UNCHANGED others PROVE Telling'
  BY <1>5, Steps DEF Telling, Mortal, Respawn, Required, work, Exit, others, monitored, calls, flags
<1>6. CASE UNCHANGED vars
  BY <1>6, Steps DEF Telling, Mortal, Respawn, Required, work, vars, local, process, calls, monitored, flags
<1>7. QED
  BY <1>1, <1>2, <1>3, <1>4, <1>5, <1>6, Steps

-----------------------------------------------------------------------------
(* The killers' queue.                                                     *)

LEMMA CountedStep ==
  ASSUME IInv, [Next]_allvars
  PROVE  Counted'
<1> USE DEF IInv
<1>0. IsFiniteSet(Tasked) /\ queue \in Lists /\ Cardinality(Tasked) \in Nat /\ Len(queue) \in Nat
  <2>1. IsFiniteSet(Tasked)
    BY MonitorAssumption, FS_Subset DEF Tasked
  <2>2. QED
    BY <2>1, FS_CardinalityType, LenProperties DEF Types, OwnTypes, Lists
<1>1. ASSUME UNCHANGED <<queue, unfinished>>, \A k \in Killer : pc'[k] = "task" <=> pc[k] = "task"
      PROVE  Counted'
  <2>1. Tasked' = Tasked
    BY <1>1 DEF Tasked
  <2>2. QED
    BY <1>1, <2>1 DEF Counted
<1>2. CASE Enqueue
  <2>1. PICK q \in Tasks : queue' = q /\ unfinished' = Len(q)
    BY <1>2 DEF Enqueue
  <2>2. ASSUME NEW k \in Killer PROVE pc'[k] # "task"
    <3>1. pc[k] = "unborn"
      BY <1>2 DEF Enqueue, Here, KillerCalls, Ending
    <3>2. pc'[k] = pc[k] \/ pc'[k] = "kill"
      BY <1>2, MonitorKeeps, Threads, Apart DEF MonitorStep
    <3>3. QED
      BY <3>1, <3>2
  <2>3. Tasked' = {}
    BY <2>2 DEF Tasked
  <2>4. Len(q) \in Nat
    BY TasksAreOrdinary, LenProperties DEF Lists
  <2>5. QED
    BY <2>1, <2>3, <2>4, FS_EmptySet DEF Counted
<1>3. CASE MonitorStep /\ ~Enqueue
  <2>1. UNCHANGED <<queue, unfinished>>
    BY <1>3 DEF MonitorStep, Copy, CheckCopy, PollNext, JudgeAlive, JudgeError, JudgeDead, Listeners,
                PollDone, Unregister, Buried, BuryDone, RespawnStop, RespawnStart, RespawnDone,
                KillersDone, KillCore, CleanUp, postrun
  <2>2. \A k \in Killer : pc'[k] = pc[k]
    BY <1>3, MonitorKeeps, Threads, Apart
  <2>3. QED
    BY <1>1, <2>1, <2>2
<1>4. ASSUME NEW k \in Killer, KillerStep(k) PROVE Counted'
  <2>1. \A j \in Killer \ {k} : pc'[j] = pc[j]
    BY <1>4, KillerKeeps, Threads, Apart
  <2>2. CASE TakeVictim(k)
    <3>1. pc[k] = "kill" /\ pc'[k] = "task"
      BY <2>2, Threads DEF TakeVictim, Here, Goes, Types, OwnTypes
    <3>2. Tasked' = Tasked \cup {k} /\ k \notin Tasked
      BY <2>1, <3>1 DEF Tasked
    <3>3. Cardinality(Tasked') = Cardinality(Tasked) + 1
      BY <1>0, <3>2, FS_AddElement
    <3>4. Len(queue') = Len(queue) - 1 /\ unfinished' = unfinished
      BY <1>0, <2>2, HeadAndTail DEF TakeVictim, Lists
    <3>5. QED
      BY <1>0, <3>3, <3>4 DEF Counted
  <2>3. CASE TaskDone(k)
    <3>1. pc[k] = "task" /\ pc'[k] = "kill"
      BY <2>3, Threads DEF TaskDone, Here, Goes, Types, OwnTypes
    <3>2. Tasked' = Tasked \ {k} /\ k \in Tasked
      BY <2>1, <3>1 DEF Tasked
    <3>3. Cardinality(Tasked') = Cardinality(Tasked) - 1
      BY <1>0, <3>2, FS_RemoveElement
    <3>4. queue' = queue /\ unfinished' = unfinished - 1
      BY <2>3 DEF TaskDone
    <3>5. QED
      BY <1>0, <3>3, <3>4 DEF Counted
  <2>4. CASE KillerEnds(k)
    <3>1. pc[k] = "kill" /\ pc'[k] = "ended"
      BY <2>4, Threads DEF KillerEnds, Here, Goes, Types, OwnTypes
    <3>2. UNCHANGED <<queue, unfinished>>
      BY <2>4 DEF KillerEnds, postrun
    <3>3. QED
      BY <1>1, <2>1, <3>1, <3>2
  <2>5. QED
    BY <1>4, <2>2, <2>3, <2>4 DEF KillerStep
<1>5. ASSUME NEW c \in Client, ClientStep(c) PROVE Counted'
  <2>1. UNCHANGED <<queue, unfinished>> /\ \A k \in Killer : pc'[k] = pc[k]
    BY <1>5, ClientKeeps, Threads, Apart DEF postrun
  <2>2. QED
    BY <1>1, <2>1
<1>6. ASSUME UNCHANGED <<pc, postrun>> PROVE Counted'
  BY <1>1, <1>6 DEF postrun
<1>7. UNCHANGED others => UNCHANGED <<pc, postrun>>
  BY DEF others
<1>8. UNCHANGED vars => UNCHANGED <<pc, postrun>>
  BY DEF vars
<1>9. QED
  BY <1>2, <1>3, <1>4, <1>5, <1>6, <1>7, <1>8, Steps

-----------------------------------------------------------------------------
(* What runs is watched, and killed in the end.                            *)

LEMMA CoveredOwn ==
  ASSUME IInv, MonitorStep, UNCHANGED setup
  PROVE  Covered'
<1>0. /\ Types /\ MonitorCalls /\ Covered /\ Stopping /\ UNCHANGED <<process, setup>>
      /\ call[Monitor] = "none"
      /\ procs \in Lists /\ graves \in Lists /\ NoRepeats(procs)
  BY MonitorKeeps DEF IInv, Types, OwnTypes, Watched
<1> USE <1>0, MonitorMoves, ListSets
        DEF Covered, Running, Safe, Respawn, MonitorCalls, Moves, AtWork, Polls, process, monitored, work
<1>1. CASE Copy
  BY <1>1 DEF Copy
<1>2. CASE CheckCopy
  BY <1>2 DEF CheckCopy
<1>3. CASE PollNext
  BY <1>3 DEF PollNext
<1>4. CASE JudgeAlive
  BY <1>4 DEF JudgeAlive
<1>5. CASE JudgeError
  BY <1>5 DEF JudgeError
<1>6. CASE JudgeDead
  BY <1>6 DEF JudgeDead
<1>7. CASE Listeners
  BY <1>7 DEF Listeners
<1>8. CASE PollDone
  BY <1>8 DEF PollDone
<1>9. CASE Unregister
  <2>1. CASE Head(graves) \in ToSet(procs)
    <3>1. PICK i \in DOMAIN procs : procs[i] = Head(graves) /\ procs' = RemoveAt(procs, i)
      BY <1>9, <2>1 DEF Unregister
    <3>2. ToSet(procs') = ToSet(procs) \ {Head(graves)}
      BY <3>1, Removed DEF Lists
    <3>3. graves' = graves
      BY <1>9, <2>1 DEF Unregister
    <3>4. QED
      BY <1>9, <2>1, <3>2, <3>3
  <2>2. CASE Head(graves) \notin ToSet(procs)
    <3>1. procs' = procs
      BY <1>9, <2>2 DEF Unregister
    <3>2. QED
      BY <1>9, <2>2, <3>1
  <2>3. QED
    BY <2>1, <2>2
<1>10. CASE Buried
  <2>1. child[Head(graves)] # "running" /\ procs' = procs
    BY <1>10 DEF Buried, Stopping
  <2>2. QED
    BY <1>10, <2>1
<1>11. CASE BuryDone
  BY <1>11 DEF BuryDone
<1>12. CASE RespawnStop
  BY <1>12 DEF RespawnStop
<1>13. CASE RespawnStart
  BY <1>13 DEF RespawnStart
<1>14. CASE RespawnDone
  BY <1>14 DEF RespawnDone
<1>15. CASE Enqueue
  BY <1>15 DEF Enqueue
<1>16. CASE KillersDone
  BY <1>16 DEF KillersDone
<1>17. CASE KillCore
  BY <1>17 DEF KillCore
<1>18. CASE CleanUp
  BY <1>18 DEF CleanUp
<1>19. QED
  BY <1>1, <1>2, <1>3, <1>4, <1>5, <1>6, <1>7, <1>8, <1>9,
     <1>10, <1>11, <1>12, <1>13, <1>14, <1>15, <1>16, <1>17, <1>18 DEF MonitorStep

LEMMA CoveredStep ==
  ASSUME IInv, [Next]_allvars
  PROVE  Covered'
<1> USE DEF IInv
<1>1. ASSUME NEW c \in Client, ClientStep(c) PROVE Covered'
  <2>1. ToSet(procs) \subseteq ToSet(procs')
    <3>1. \A p \in Proc : ToSet(procs) \subseteq ToSet(Append(procs, p))
      BY ListSets DEF Types, OwnTypes
    <3>2. QED
      BY <1>1, <3>1, ClientStarts
  <2>2. QED
    BY <1>1, <2>1, Steps, ClientKeeps, Threads, Apart DEF Covered, Running, Safe, Respawn, work, process
<1>2. CASE MonitorStep
  BY <1>2, Steps, CoveredOwn
<1>3. ASSUME NEW k \in Killer, KillerStep(k) PROVE Covered'
  BY <1>3, Steps, KillerKeeps, Threads, Apart DEF Covered, Running, Safe, Respawn, work, process, monitored
<1>4. ASSUME NEW t \in Thread, NEW p \in Proc, Calling(t, p), UNCHANGED others PROVE Covered'
  <2>1. Touches(t, p)
    BY <1>4, CallEffect
  <2>2. UNCHANGED <<procs, graves, pc, setup>>
    BY <1>4, Steps DEF others, monitored, work
  <2>3. ASSUME NEW q \in Proc, Running(q)', pc[Monitor] \in AtWork \cup {"post_run"}
        PROVE  Running(q) \/ q \in ToSet(procs)
    <3>1. Safe(q) /\ child'[q] = "running"
      BY <2>2, <2>3 DEF Running, Safe, Respawn
    <3>2. CASE q # p \/ child[q] = "running"
      BY <2>1, <3>1, <3>2 DEF Running, Touches
    <3>3. CASE q = p /\ child[q] # "running"
      <4>1. pc[Monitor] # "ended"
        BY <2>3 DEF AtWork, Polls
      <4>2. QED
        BY <1>4, <3>1, <3>3, <4>1, Revivers DEF Unstarted, Watched, OneVerdict, Safe
    <3>4. QED
      BY <3>2, <3>3
  <2>4. QED
    BY <2>2, <2>3 DEF Covered
<1>5. ASSUME NEW p \in Proc, Exit(p), UNCHANGED others PROVE Covered'
  BY <1>5, Steps DEF Covered, Running, Safe, Respawn, Exit, others, work, monitored, Types, LocalTypes
<1>6. CASE UNCHANGED vars
  BY <1>6, Steps DEF Covered, Running, Safe, Respawn, vars, local, process, work, monitored
<1>7. QED
  BY <1>1, <1>2, <1>3, <1>4, <1>5, <1>6, Steps

\* A client begins to shut the monitor down while it works, and is told that
\* it did when the monitor has ended.
LEMMA ClientCloses ==
  ASSUME IInv, NEW c \in Client, ClientStep(c)
  PROVE  /\ \A d \in Client \ {c} : result'[d] = result[d]
         /\ result'[c] = "true" => pc'[c] = "gone" /\ pc[Monitor] = "ended"
         /\ Closing(c)' => call'[c] = "none" /\ (Closing(c) \/ pc[Monitor] \in AtWork)
<1>0. Types /\ Rounds /\ (result[c] = "true" => pc[c] = "gone")
  BY DEF IInv, Closed
<1> USE <1>0, Threads DEF Types, LocalTypes, OwnTypes, Here, Goes, Invoke, calls, local, Closing, Rounds
<1>1. ASSUME NEW p \in Proc, Register(c, p)
      PROVE  UNCHANGED result /\ ~Closing(c)'
  BY <1>1 DEF Register
<1>2. ASSUME NEW p \in Proc, AppendCore(c, p)
      PROVE  UNCHANGED result /\ ~Closing(c)'
  BY <1>2 DEF AppendCore
<1>3. ASSUME NEW p \in Proc, KillProcess(c, p)
      PROVE  UNCHANGED result /\ ~Closing(c)'
  BY <1>3 DEF KillProcess
<1>4. CASE Killed(c)
  BY <1>4 DEF Killed
<1>5. CASE RegistrationsComplete(c)
  BY <1>5 DEF RegistrationsComplete
<1>6. CASE ShutdownMonitor(c)
  BY <1>6 DEF ShutdownMonitor
<1>7. CASE SetShutdown(c)
  BY <1>7 DEF SetShutdown
<1>8. CASE Join(c)
  BY <1>8 DEF Join
<1>9. QED
  BY <1>1, <1>2, <1>3, <1>4, <1>5, <1>6, <1>7, <1>8 DEF ClientStep

\* The monitor's way to the end.
LEMMA ToKillOwn ==
  ASSUME IInv, MonitorStep, NEW p \in Proc, child[p] = "running", Safe(p),
         pc[Monitor] \in Ending => ToKill(p)
  PROVE  ToKill(p)'
<1>0. /\ Types /\ MonitorCalls /\ call[Monitor] = "none" /\ Covered /\ Counted
      /\ procs \in Lists /\ core_procs \in Lists /\ queue \in Lists /\ cores \in Lists
  BY MonitorKeeps DEF IInv, Types, OwnTypes
<1>1. CASE Enqueue
  <2>1. p \in ToSet(procs)
    BY <1>0, <1>1, MonitorMoves DEF Covered, Moves, Running
  <2>2. ToSet(queue') = ToSet(procs) \ ToSet(core_procs)
    BY <1>0, <1>1, TasksAreOrdinary DEF Enqueue, Ordinary
  <2>3. ToSet(cores') = ToSet(core_procs)
    BY <1>0, <1>1, Reversed DEF Enqueue, CoresReversed, Lists
  <2>4. pc'[Monitor] = "killers"
    BY <1>0, <1>1, MonitorMoves DEF Moves
  <2>5. QED
    BY <2>1, <2>2, <2>3, <2>4 DEF ToKill
<1>2. CASE KillersDone
  <2>1. pc[Monitor] = "killers" /\ pc'[Monitor] = "cores" /\ ToKill(p) /\ cores' = cores
    BY <1>0, <1>2, MonitorMoves DEF Moves, Ending, KillersDone, postrun
  <2>2. Len(queue) + Cardinality(Tasked) = 0
    BY <1>0, <1>2 DEF KillersDone, Counted
  <2>3. IsFiniteSet(Tasked)
    BY MonitorAssumption, FS_Subset DEF Tasked
  <2>4. Cardinality(Tasked) \in Nat /\ Len(queue) \in Nat
    BY <1>0, <2>3, FS_CardinalityType, LenProperties DEF Lists
  <2>5. Len(queue) = 0 /\ Cardinality(Tasked) = 0
    BY <2>2, <2>4
  <2>6. Tasked = {} /\ queue = <<>>
    BY <1>0, <2>3, <2>5, FS_EmptySet, EmptySeq DEF Lists
  <2>7. \A k \in Killer : ~StoppedBy(k, p)
    BY <2>6 DEF IInv, KillerCalls, StoppedBy, Stops, Tasked
  <2>8. p \in ToSet(cores)
    BY <2>1, <2>6, <2>7, ListSets DEF ToKill
  <2>9. QED
    BY <2>1, <2>8 DEF ToKill
<1>3. CASE KillCore
  <2>1. pc[Monitor] = "cores" /\ pc'[Monitor] = "cores" /\ ToKill(p) /\ ~StoppedBy(Monitor, p)
    BY <1>0, <1>3, MonitorMoves DEF Moves, Ending, StoppedBy, Stops
  <2>2. cores # <<>> /\ cores' = Tail(cores) /\ call'[Monitor] = "stop" /\ on'[Monitor] = {Head(cores)}
    BY <1>0, <1>3, MonitorMoves DEF KillCore, Asks
  <2>3. p = Head(cores) \/ p \in ToSet(cores')
    BY <1>0, <2>1, <2>2, ListSets DEF ToKill
  <2>4. QED
    BY <2>1, <2>2, <2>3 DEF ToKill, StoppedBy, Stops
<1>4. CASE CleanUp
  <2>1. pc[Monitor] = "cores" /\ ToKill(p) /\ ~StoppedBy(Monitor, p) /\ cores = <<>>
    BY <1>0, <1>4, MonitorMoves DEF Moves, Ending, StoppedBy, Stops, CleanUp
  <2>2. QED
    BY <2>1, ListSets DEF ToKill
<1>5. CASE MonitorStep /\ ~Enqueue /\ ~KillersDone /\ ~KillCore /\ ~CleanUp
  <2>1. pc'[Monitor] \notin Ending
    BY <1>0, <1>5, MonitorMoves DEF MonitorStep, Moves, Ending
  <2>2. QED
    BY <2>1 DEF ToKill, Ending
<1>6. QED
  BY <1>1, <1>2, <1>3, <1>4, <1>5

LEMMA ClosedStep ==
  ASSUME IInv, [Next]_allvars
  PROVE  Closed'
<1> USE DEF IInv
<1>1. ASSUME NEW c \in Client, ClientStep(c) PROVE Closed'
  <2>1. /\ UNCHANGED <<process, postrun, setup>> /\ pc'[Monitor] = pc[Monitor]
        /\ \A t \in Killer \cup {Monitor} : Stays(t)
        /\ \A d \in Client \ {c} : Stays(d) /\ pc'[d] = pc[d] /\ result'[d] = result[d]
    BY <1>1, Steps, ClientKeeps, ClientCloses, Threads, Apart
  <2>2. \A p \in Proc : (Running(p)' <=> Running(p)) /\ (ToKill(p) => ToKill(p)')
    BY <2>1 DEF Running, Safe, Respawn, ToKill, StoppedBy, Stays, process, postrun
  <2>3. ASSUME NEW d \in Client
        PROVE  /\ result'[d] = "true" => pc'[d] = "gone" /\ pc'[Monitor] = "ended"
               /\ Closing(d)' => call'[d] = "none"
               /\ Closing(d)' /\ Alone(d) => \A p \in Proc : Running(p)' => ToKill(p)'
    <3>1. CASE d # c
      <4>1. Closing(d)' = Closing(d) /\ ~Alone(d)
        BY <2>1, <3>1 DEF Closing, Alone
      <4>2. QED
        BY <2>1, <3>1, <4>1 DEF Closed, Stays
    <3>2. CASE d = c
      <4>1. /\ result'[c] = "true" => pc'[c] = "gone" /\ pc[Monitor] = "ended"
            /\ Closing(c)' => call'[c] = "none" /\ (Closing(c) \/ pc[Monitor] \in AtWork)
        BY <1>1, ClientCloses
      <4>2. pc[Monitor] \in AtWork => \A p \in Proc : ToKill(p)
        BY DEF ToKill, AtWork, Polls
      <4>3. QED
        BY <2>1, <2>2, <3>2, <4>1, <4>2 DEF Closed
    <3>3. QED
      BY <3>1, <3>2
  <2>4. QED
    BY <2>3 DEF Closed, Alone
<1>2. CASE MonitorStep
  <2>1. UNCHANGED <<process, result, setup>> /\ \A c \in Client : pc'[c] = pc[c] /\ Stays(c)
    BY <1>2, Steps, MonitorKeeps, SetupTypes, Threads, Apart
  <2>2. pc[Monitor] # "ended"
    BY <1>2, MonitorMoves DEF MonitorStep, Moves
  <2>3. ASSUME NEW c \in Client, Closing(c), Alone(c), NEW p \in Proc, Running(p)'
        PROVE  ToKill(p)'
    <3>1. Running(p) /\ ToKill(p)
      BY <2>1, <2>3 DEF Running, Safe, Respawn, process, Closed
    <3>2. QED
      BY <1>2, <3>1, ToKillOwn DEF Running
  <2>4. QED
    BY <2>1, <2>2, <2>3 DEF Closed, Closing, Alone, Stays
<1>3. ASSUME NEW k \in Killer, KillerStep(k) PROVE Closed'
  <2>1. /\ UNCHANGED <<process, cores, result, setup>> /\ pc'[Monitor] = pc[Monitor]
        /\ \A t \in Client \cup {Monitor} : Stays(t) /\ pc'[t] = pc[t]
        /\ \A j \in Killer \ {k} : Stays(j)
        /\ call[k] = "none"
    BY <1>3, Steps, KillerKeeps, Threads, Apart
  <2>2. \A p \in ToSet(queue) : p \in ToSet(queue') \/ (call'[k] = "stop" /\ on'[k] = {p})
    <3>1. CASE TakeVictim(k)
      <4>1. queue # <<>> /\ queue' = Tail(queue) /\ call'[k] = "stop" /\ on'[k] = {Head(queue)}
        BY <3>1, Threads DEF TakeVictim, Invoke, Types, LocalTypes
      <4>2. QED
        BY <4>1, ListSets DEF Types, OwnTypes
    <3>2. CASE ~TakeVictim(k)
      BY <1>3, <3>2 DEF KillerStep, TaskDone, KillerEnds, postrun
    <3>3. QED
      BY <3>1, <3>2
  <2>3. ASSUME NEW p \in Proc, ToKill(p) PROVE ToKill(p)'
    <3>1. \A t \in Killer \cup {Monitor} : StoppedBy(t, p) => StoppedBy(t, p)'
      BY <2>1, Apart DEF StoppedBy, Stays, Stops
    <3>2. \A q \in ToSet(queue) : q \in ToSet(queue') \/ StoppedBy(k, q)'
      BY <2>2 DEF StoppedBy, Stops
    <3>3. QED
      BY <2>1, <2>3, <3>1, <3>2 DEF ToKill
  <2>4. \A p \in Proc : Running(p)' <=> Running(p)
    BY <2>1 DEF Running, Safe, Respawn, process
  <2>5. \A c \in Client : Closing(c)' = Closing(c)
    BY <2>1 DEF Closing
  <2>6. QED
    BY <2>1, <2>3, <2>4, <2>5 DEF Closed, Alone, Stays
<1>4. ASSUME NEW t \in Thread, NEW p \in Proc, Calling(t, p), UNCHANGED others PROVE Closed'
  <2>1. Proceeds(t, p) /\ Touches(t, p)
    BY <1>4, CallEffect
  <2>2. UNCHANGED <<queue, cores, pc, result, setup>>
    BY <1>4, Steps DEF others, postrun
  <2>3. ASSUME NEW c \in Client, Closing(c) PROVE t # c /\ call'[c] = "none"
    BY <2>1, <2>3, Threads DEF Proceeds, Closed
  <2>4. ASSUME NEW c \in Client, Closing(c), Alone(c), NEW q \in Proc, Running(q)'
        PROVE  ToKill(q)'
    <3>1. t \notin Client
      BY <2>3, <2>4 DEF Alone
    <3>2. Safe(q) /\ child'[q] = "running"
      BY <2>2, <2>4 DEF Running, Safe, Respawn
    <3>3. CASE child[q] # "running"
      <4>1. pc[Monitor] = "respawn"
        BY <1>4, <2>1, <3>1, <3>2, <3>3, Revivers DEF Touches
      <4>2. QED
        BY <2>2, <4>1 DEF ToKill
    <3>4. CASE child[q] = "running"
      <4>1. ToKill(q)
        BY <2>4, <3>2, <3>4 DEF Closed, Running
      <4>2. ASSUME NEW u \in Killer \cup {Monitor}, StoppedBy(u, q) PROVE StoppedBy(u, q)'
        <5>1. CASE u # t
          BY <2>1, <4>2, <5>1, Apart DEF Proceeds, StoppedBy
        <5>2. CASE u = t
          BY <2>1, <3>2, <4>2, <5>2 DEF Proceeds, Touches, StoppedBy, Stops
        <5>3. QED
          BY <5>1, <5>2
      <4>3. QED
        BY <2>2, <4>1, <4>2 DEF ToKill
    <3>5. QED
      BY <3>3, <3>4
  <2>5. QED
    BY <2>2, <2>3, <2>4 DEF Closed, Closing, Alone
<1>5. ASSUME NEW p \in Proc, Exit(p), UNCHANGED others PROVE Closed'
  <2>1. UNCHANGED <<call, on, pc, queue, cores, result, setup>>
    BY <1>5, Steps DEF Exit, others, calls, postrun
  <2>2. \A q \in Proc : Running(q)' => Running(q)
    BY <1>5, <2>1 DEF Running, Safe, Respawn, Exit, Types, LocalTypes
  <2>3. \A q \in Proc : ToKill(q)' = ToKill(q)
    BY <2>1 DEF ToKill, StoppedBy
  <2>4. QED
    BY <2>1, <2>2, <2>3 DEF Closed, Closing, Alone
<1>6. CASE UNCHANGED vars
  BY <1>6, Steps DEF Closed, Closing, Alone, Running, Safe, Respawn, ToKill, StoppedBy, vars, local, process, calls, postrun
<1>7. QED
  BY <1>1, <1>2, <1>3, <1>4, <1>5, <1>6, Steps

-----------------------------------------------------------------------------
(* The theorems.                                                           *)

LEMMA InitInv == Init => IInv
<1> SUFFICES ASSUME Init PROVE IInv
  OBVIOUS
<1> USE DEF Init
<1>0. /\ Types /\ call = [t \in Thread |-> "none"] /\ child = [p \in Proc |-> "none"]
      /\ started = [p \in Proc |-> FALSE] /\ ret = [t \in Thread |-> "none"]
      /\ on = [t \in Thread |-> {}]
  <2>1. LocalTypes
    BY DEF LocalInit, LocalTypes, Calls
  <2>2. <<>> \in Lists
    BY ListSets
  <2>3. pc \in [Thread -> {"idle", "core", "kill_process", "shutdown", "join", "gone",
                           "unborn", "kill", "task", "post_run"} \cup AtWork \cup Ending]
    BY DEF AtWork
  <2>4. told \in [Proc -> 0 .. 2] /\ result \in [Client -> {"none", "true", "false"}]
    OBVIOUS
  <2>5. OwnTypes
    <3>0. /\ is_shutdown \in BOOLEAN /\ done \in BOOLEAN /\ registrations_complete \in BOOLEAN
      BY Zenon
    <3>1. setup \in Setups /\ plock \subseteq Client /\ unfinished \in Int
      OBVIOUS
    <3>2. /\ procs \in Lists /\ core_procs \in Lists /\ dead_list \in Lists
          /\ polling \in Lists /\ dead \in Lists /\ graves \in Lists /\ respawn \in Lists
          /\ queue \in Lists /\ cores \in Lists
      BY <2>2
    <3>3. QED
      BY <2>3, <2>4, <3>0, <3>1, <3>2 DEF OwnTypes
  <2>6. QED
    BY <2>1, <2>5 DEF LocalInit, Types
<1>1. /\ pc[Monitor] = "loop" /\ call[Monitor] = "none" /\ ret[Monitor] = "none"
      /\ \A c \in Client : pc[c] = "idle" /\ call[c] = "none"
      /\ \A k \in Killer : pc[k] = "unborn" /\ call[k] = "none"
  BY <1>0, Threads, Apart
<1>2. ClientCalls /\ KillerCalls /\ MonitorCalls /\ Rounds
  BY <1>1 DEF ClientCalls, KillerCalls, MonitorCalls, Rounds, Starts, Stops, Polls, AtWork
<1>3. Restarting = {} /\ Found = {}
  BY <1>1 DEF Restarting, Found, Starts
<1>4. Watched /\ Registered /\ OneVerdict
  BY <1>0, <1>1, <1>3, NoElements DEF Watched, Registered, OneVerdict, Unjudged
<1>5. Unstarted /\ NoHandle /\ Stopping /\ Covered /\ Closed
  BY <1>0, <1>1, NoElements
     DEF Unstarted, ToStart, Starts, NoHandle, Stopping, BuriedStopped, Covered, Running, Closed, Closing
<1>6. Telling
  BY <1>0, <1>1, NoElements DEF Telling
<1>7. Counted
  <2>1. Tasked = {}
    BY <1>1 DEF Tasked
  <2>2. QED
    BY <2>1, FS_EmptySet, EmptySeq DEF Counted
<1>8. QED
  BY <1>0, <1>2, <1>4, <1>5, <1>6, <1>7 DEF IInv

\* The inductive invariant holds in every state.
THEOREM Invariance == Spec => []IInv
<1>1. IInv /\ [Next]_allvars => IInv'
  <2> SUFFICES ASSUME IInv, [Next]_allvars PROVE IInv'
    OBVIOUS
  <2>1. Types'
    BY TypesStep
  <2>2. ClientCalls' /\ KillerCalls' /\ MonitorCalls' /\ Rounds'
    BY ClientCallsStep, KillerCallsStep, MonitorCallsStep, RoundsStep
  <2>3. Watched' /\ Registered' /\ OneVerdict' /\ Unstarted'
    BY WatchedStep, RegisteredStep, OneVerdictStep, UnstartedStep
  <2>4. NoHandle' /\ Stopping' /\ Telling'
    BY NoHandleStep, StoppingStep, TellingStep
  <2>5. Counted' /\ Covered' /\ Closed'
    BY CountedStep, CoveredStep, ClosedStep
  <2>6. QED
    BY <2>1, <2>2, <2>3, <2>4, <2>5 DEF IInv
<1>2. QED
  BY InitInv, <1>1, PTL DEF Spec

\* A process that the monitor has buried stays stopped, however many clients
\* register, start and kill processes meanwhile ("don't respawn as this is an
\* internal error").
THEOREM BuriedStoppedAlways == Spec => []BuriedStopped
<1>1. IInv => BuriedStopped
  BY DEF IInv, Stopping
<1>2. QED
  BY Invariance, <1>1, PTL

\* Without clients that kill processes, each process on the dead list was
\* reported to the listeners, once, and has no flag that keeps it.
THEOREM DeathsToldAlways == Spec => []DeathsTold
<1>1. IInv => DeathsTold
  <2> SUFFICES ASSUME IInv, ~setup.kills, NEW p \in ToSet(dead_list), Safe(p)
               PROVE  told[p] = 1 /\ (Mortal(p) \/ setup.raises)
    BY DEF DeathsTold
  <2>1. p \in Proc /\ (Mortal(p) \/ setup.raises)
    BY ListSets DEF IInv, Telling, Types, OwnTypes
  <2>2. p \notin Respawn
    BY <2>1 DEF Safe, Mortal
  <2>3. QED
    BY <2>1, <2>2 DEF IInv, Telling
<1>2. QED
  BY Invariance, <1>1, PTL

\* The only client that is told that the monitor has been shut down leaves no
\* child behind, whatever the number of processes and killers.
THEOREM NoneLeftAlways ==
  ASSUME \A c, d \in Client : c = d
  PROVE  Spec => []NoneLeft
<1>1. IInv => NoneLeft
  BY DEF IInv, Closed, Closing, Alone, ToKill, Running, NoneLeft
<1>2. QED
  BY Invariance, <1>1, PTL

-----------------------------------------------------------------------------
(* The order in which a shutdown stops the core processes, for the one     *)
(* client whose shutdown it is.                                            *)

OneClient == \A c, d \in Client : c = d

Before(s, x, y) == \E i, j \in DOMAIN s : i < j /\ s[i] = x /\ s[j] = y

\* A client that has registered a process has still to start it.
Registering(c) == pc[c] = "core" \/ call[c] \in Starts

Owned ==
  \A c \in Client :
    /\ Registering(c) => \E p \in Proc : ToStart(c, p)
    /\ pc[c] = "core" => on[c] \subseteq Core

Held == ToSet(procs) \cup ToSet(graves) \cup ToSet(dead_list)

\* core_procs holds the core processes of procs, but for the one that a client
\* is about to append, and nothing that was never registered.
Filed ==
  /\ ToSet(core_procs) \subseteq Core
  /\ pc[Monitor] # "ended" =>
       /\ ToSet(core_procs) \subseteq Held
       /\ \A p \in ToSet(procs) \cap Core :
            p \in ToSet(core_procs) \/ \E c \in Client : pc[c] = "core" /\ on[c] = {p}

\* The two lists agree on the order, and the process in between is the last.
InOrder ==
  /\ \A p, q \in Proc : Before(procs, p, q) => ~Before(core_procs, q, p)
  /\ \A c \in Client : \A p, q \in Proc :
       pc[c] = "core" /\ on[c] = {p} => ~Before(procs, p, q)

\* Whatever is still to be stopped was registered before what is being stopped.
Countdown ==
  pc[Monitor] \in {"killers", "cores"} =>
    /\ ToSet(cores) \subseteq Core
    /\ \A p, q \in Proc : Before(cores, p, q) => Before(core_procs, q, p)
    /\ call[Monitor] \in Stops =>
         \A p \in on[Monitor] : \A q \in ToSet(cores) : Before(core_procs, q, p)

\* Only the client shuts the monitor down, and not before it has started what
\* it has registered; or else nothing was left that it could have registered.
Silent == Required = {} /\ is_shutdown => \A c \in Client : ~Registering(c)

\* Then what runs is still to be killed, and the killers leave the cores alone.
Doomed ==
  Required = {} /\ pc[Monitor] \in {"killers", "cores"} =>
    /\ \A p \in Proc : Running(p) => ToKill(p)
    /\ ToSet(queue) \cap Core = {}
    /\ \A k \in Killer : call[k] \in Stops => on[k] \cap Core = {}

CoreInv ==
  /\ Owned
  /\ Filed
  /\ InOrder
  /\ Countdown
  /\ Silent
  /\ Doomed

-----------------------------------------------------------------------------
(* Order in lists.                                                         *)

LEMMA OrderAppended ==
  ASSUME NEW s \in Lists, NEW x \in Proc, NEW p, NEW q
  PROVE  /\ Before(s, p, q) => Before(Append(s, x), p, q)
         /\ Before(Append(s, x), p, q) => Before(s, p, q) \/ (p \in ToSet(s) /\ q = x)
<1>1. /\ Len(s) \in Nat /\ DOMAIN s = 1 .. Len(s)
      /\ DOMAIN Append(s, x) = 1 .. Len(s) + 1
      /\ \A i \in 1 .. Len(s) : Append(s, x)[i] = s[i]
      /\ Append(s, x)[Len(s) + 1] = x
  BY AppendProperties, LenProperties DEF Lists
<1>2. ASSUME Before(s, p, q) PROVE Before(Append(s, x), p, q)
  <2>1. PICK i, j \in DOMAIN s : i < j /\ s[i] = p /\ s[j] = q
    BY <1>2 DEF Before
  <2>2. i \in DOMAIN Append(s, x) /\ j \in DOMAIN Append(s, x)
    BY <1>1
  <2>3. QED
    BY <1>1, <2>1, <2>2 DEF Before
<1>3. ASSUME Before(Append(s, x), p, q) PROVE Before(s, p, q) \/ (p \in ToSet(s) /\ q = x)
  <2>1. PICK i, j \in DOMAIN Append(s, x) : i < j /\ Append(s, x)[i] = p /\ Append(s, x)[j] = q
    BY <1>3 DEF Before
  <2>2. i \in DOMAIN s /\ s[i] = p
    BY <1>1, <2>1
  <2>3. CASE j = Len(s) + 1
    BY <1>1, <2>1, <2>2, <2>3 DEF ToSet
  <2>4. CASE j # Len(s) + 1
    <3>1. j \in DOMAIN s /\ s[j] = q
      BY <1>1, <2>1, <2>4
    <3>2. QED
      BY <2>1, <2>2, <3>1 DEF Before
  <2>5. QED
    BY <2>3, <2>4
<1>4. QED
  BY <1>2, <1>3

LEMMA OrderTail ==
  ASSUME NEW s \in Lists, s # <<>>, NEW q
  PROVE  /\ \A p : Before(Tail(s), p, q) => Before(s, p, q)
         /\ q \in ToSet(Tail(s)) => Before(s, Head(s), q)
<1>1. /\ Len(s) \in Nat /\ DOMAIN s = 1 .. Len(s) /\ Head(s) = s[1]
      /\ DOMAIN Tail(s) = 1 .. Len(s) - 1
      /\ \A i \in 1 .. Len(s) - 1 : Tail(s)[i] = s[i + 1]
  BY HeadTailProperties, LenProperties DEF Lists
<1>2. ASSUME NEW p, Before(Tail(s), p, q) PROVE Before(s, p, q)
  <2>1. PICK i, j \in DOMAIN Tail(s) : i < j /\ Tail(s)[i] = p /\ Tail(s)[j] = q
    BY <1>2 DEF Before
  <2>2. /\ i + 1 \in DOMAIN s /\ j + 1 \in DOMAIN s /\ i + 1 < j + 1
        /\ s[i + 1] = p /\ s[j + 1] = q
    BY <1>1, <2>1
  <2>3. QED
    BY <2>2 DEF Before
<1>3. ASSUME q \in ToSet(Tail(s)) PROVE Before(s, Head(s), q)
  <2>1. PICK i \in DOMAIN Tail(s) : Tail(s)[i] = q
    BY <1>3 DEF ToSet
  <2>2. 1 \in DOMAIN s /\ i + 1 \in DOMAIN s /\ 1 < i + 1 /\ s[i + 1] = q
    BY <1>1, <2>1
  <2>3. QED
    BY <1>1, <2>2 DEF Before
<1>4. QED
  BY <1>2, <1>3

LEMMA OrderReversed ==
  ASSUME NEW s \in Lists, NEW p, NEW q, Before(Reverse(s), p, q)
  PROVE  Before(s, q, p)
<1>1. Len(s) \in Nat /\ DOMAIN s = 1 .. Len(s)
  BY LenProperties DEF Lists
<1>2. DOMAIN Reverse(s) = 1 .. Len(s) /\ \A i \in 1 .. Len(s) : Reverse(s)[i] = s[(Len(s) - i) + 1]
  BY DEF Reverse
<1>3. PICK i, j \in 1 .. Len(s) : i < j /\ Reverse(s)[i] = p /\ Reverse(s)[j] = q
  BY <1>2 DEF Before
<1>4. /\ (Len(s) - i) + 1 \in DOMAIN s /\ (Len(s) - j) + 1 \in DOMAIN s
      /\ (Len(s) - j) + 1 < (Len(s) - i) + 1
  BY <1>1, <1>3
<1>5. s[(Len(s) - i) + 1] = p /\ s[(Len(s) - j) + 1] = q
  BY <1>2, <1>3
<1>6. QED
  BY <1>4, <1>5 DEF Before

LEMMA OrderRemoved ==
  ASSUME NEW s \in Lists, NoRepeats(s), NEW i \in DOMAIN s, NEW p, NEW q,
         Before(RemoveAt(s, i), p, q)
  PROVE  Before(s, p, q)
<1> DEFINE Old(k) == IF k < i THEN k ELSE k + 1
<1>1. \A k \in DOMAIN RemoveAt(s, i) :
        k \in Int /\ Old(k) \in DOMAIN s /\ RemoveAt(s, i)[k] = s[Old(k)]
  BY Removed DEF Lists
<1>2. PICK k, m \in DOMAIN RemoveAt(s, i) :
        k < m /\ RemoveAt(s, i)[k] = p /\ RemoveAt(s, i)[m] = q
  BY DEF Before
<1>3. Old(k) < Old(m)
  <2>1. i \in Int
    BY LenProperties DEF Lists
  <2>2. QED
    BY <1>1, <1>2, <2>1
<1>4. /\ Old(k) \in DOMAIN s /\ s[Old(k)] = p
      /\ Old(m) \in DOMAIN s /\ s[Old(m)] = q
  BY <1>1, <1>2
<1> HIDE DEF Old
<1>5. QED
  BY <1>3, <1>4 DEF Before

LEMMA OrderOfNone == \A p, q : ~Before(<<>>, p, q)
BY DEF Before

-----------------------------------------------------------------------------
(* The steps that touch the lists.                                         *)

\* What a client does to the lists and to what it is about to start.
LEMMA ClientFiles ==
  ASSUME IInv, NEW c \in Client, ClientStep(c)
  PROVE  \/ \E p \in Proc :
              /\ p \notin Held /\ ~is_shutdown /\ pc[c] = "idle"
              /\ procs' = Append(procs, p) /\ core_procs' = core_procs
              /\ on'[c] = {p} /\ is_shutdown' = is_shutdown
              /\ IF p \in Core THEN pc'[c] = "core" ELSE pc'[c] # "core" /\ call'[c] = "start"
         \/ \E p \in Proc :
              /\ pc[c] = "core" /\ on[c] = {p}
              /\ procs' = procs /\ core_procs' = Append(core_procs, p)
              /\ pc'[c] = "idle" /\ call'[c] = "start" /\ on'[c] = {p}
              /\ is_shutdown' = is_shutdown
         \/ /\ UNCHANGED <<procs, core_procs>> /\ ~Registering(c)' /\ pc[c] # "core"
            /\ is_shutdown' # is_shutdown => pc[c] = "shutdown"
<1> USE Threads DEF IInv, Types, LocalTypes, OwnTypes, Here, Goes, Invoke, calls, local,
                    monitored, flags, Registering, Starts, Held
<1>1. ASSUME NEW p \in Proc, Register(c, p)
      PROVE  /\ p \notin Held /\ ~is_shutdown /\ pc[c] = "idle"
             /\ procs' = Append(procs, p) /\ core_procs' = core_procs
             /\ on'[c] = {p} /\ is_shutdown' = is_shutdown
             /\ IF p \in Core THEN pc'[c] = "core" ELSE pc'[c] # "core" /\ call'[c] = "start"
  BY <1>1 DEF Register
<1>2. ASSUME NEW p \in Proc, AppendCore(c, p)
      PROVE  /\ pc[c] = "core" /\ on[c] = {p}
             /\ procs' = procs /\ core_procs' = Append(core_procs, p)
             /\ pc'[c] = "idle" /\ call'[c] = "start" /\ on'[c] = {p}
             /\ is_shutdown' = is_shutdown
  BY <1>2 DEF AppendCore
<1>3. ASSUME NEW p \in Proc, KillProcess(c, p)
      PROVE  /\ UNCHANGED <<procs, core_procs, is_shutdown>> /\ ~Registering(c)' /\ pc[c] # "core"
  BY <1>3 DEF KillProcess
<1>4. CASE Killed(c)
  BY <1>4 DEF Killed
<1>5. CASE RegistrationsComplete(c)
  BY <1>5 DEF RegistrationsComplete
<1>6. CASE ShutdownMonitor(c)
  BY <1>6 DEF ShutdownMonitor
<1>7. CASE SetShutdown(c)
  BY <1>7 DEF SetShutdown
<1>8. CASE Join(c)
  BY <1>8 DEF Join
<1>9. QED
  BY <1>1, <1>2, <1>3, <1>4, <1>5, <1>6, <1>7, <1>8 DEF ClientStep

\* The monitor forgets nothing that it holds until it ends, and changes procs
\* only by taking one process out.
LEMMA MonitorFiles ==
  ASSUME IInv, MonitorStep
  PROVE  /\ pc'[Monitor] # "ended" => Held \subseteq Held' /\ core_procs' = core_procs
         /\ \/ procs' = procs
            \/ \E i \in DOMAIN procs : procs' = RemoveAt(procs, i)
            \/ procs' = <<>>
         /\ pc'[Monitor] = "ended" => core_procs' = <<>>
<1>0. /\ Types /\ Watched
      /\ procs \in Lists /\ dead_list \in Lists /\ graves \in Lists /\ dead \in Lists
  BY DEF IInv, Types, OwnTypes
<1>1a. graves = <<>> \/ pc[Monitor] \notin AtWork \ {"bury", "buried"}
  BY DEF IInv, Rounds
<1> USE <1>0, <1>1a, MonitorMoves, ListSets DEF Held, AtWork, Polls, Moves, work, flags, monitored
<1>1. CASE Copy
  BY <1>1 DEF Copy
<1>2. CASE CheckCopy
  BY <1>2 DEF CheckCopy
<1>3. CASE PollNext
  BY <1>3 DEF PollNext
<1>4. CASE JudgeAlive
  BY <1>4 DEF JudgeAlive
<1>5. CASE JudgeError
  BY <1>5 DEF JudgeError
<1>6. CASE JudgeDead
  BY <1>6 DEF JudgeDead
<1>7. CASE Listeners
  BY <1>7 DEF Listeners
<1>8. CASE PollDone
  BY <1>8 DEF PollDone
<1>9. CASE Unregister
  <2>1. CASE Head(graves) \in ToSet(procs)
    <3>1. PICK i \in DOMAIN procs : procs[i] = Head(graves) /\ procs' = RemoveAt(procs, i)
      BY <1>9, <2>1 DEF Unregister
    <3>2. ToSet(procs') = ToSet(procs) \ {Head(graves)}
      BY <3>1, Removed DEF Lists, Watched
    <3>3. graves # <<>> /\ UNCHANGED <<graves, dead_list, core_procs>>
      BY <1>9, <2>1 DEF Unregister
    <3>4. Head(graves) \in ToSet(graves)
      BY <3>3
    <3>5. QED
      BY <1>9, <3>1, <3>2, <3>3, <3>4
  <2>2. CASE Head(graves) \notin ToSet(procs)
    <3>1. graves # <<>> /\ graves' = Tail(graves) /\ UNCHANGED monitored /\ pc[Monitor] = "bury"
      BY <1>9, <2>2 DEF Unregister
    <3>2. Head(graves) \in ToSet(dead_list)
      BY <3>1, <2>2 DEF Watched
    <3>3. ToSet(graves) = {Head(graves)} \cup ToSet(graves')
      BY <3>1
    <3>4. QED
      BY <1>9, <3>1, <3>2, <3>3
  <2>3. QED
    BY <2>1, <2>2
<1>10. CASE Buried
  <2>1. graves # <<>>
    BY <1>10 DEF IInv, MonitorCalls
  <2>2. /\ graves' = Tail(graves) /\ dead_list' = Append(dead_list, Head(graves))
        /\ procs' = procs /\ core_procs' = core_procs
    BY <1>10 DEF Buried
  <2>3. /\ ToSet(graves) = {Head(graves)} \cup ToSet(graves')
        /\ ToSet(dead_list') = ToSet(dead_list) \cup {Head(graves)}
    BY <2>1, <2>2
  <2>4. QED
    BY <1>10, <2>2, <2>3
<1>11. CASE BuryDone
  BY <1>11 DEF BuryDone
<1>12. CASE RespawnStop
  BY <1>12 DEF RespawnStop
<1>13. CASE RespawnStart
  BY <1>13 DEF RespawnStart
<1>14. CASE RespawnDone
  BY <1>14 DEF RespawnDone
<1>15. CASE Enqueue
  BY <1>15 DEF Enqueue
<1>16. CASE KillersDone
  BY <1>16 DEF KillersDone
<1>17. CASE KillCore
  BY <1>17 DEF KillCore
<1>18. CASE CleanUp
  BY <1>18 DEF CleanUp
<1>19. QED
  BY <1>1, <1>2, <1>3, <1>4, <1>5, <1>6, <1>7, <1>8, <1>9,
     <1>10, <1>11, <1>12, <1>13, <1>14, <1>15, <1>16, <1>17, <1>18 DEF MonitorStep

\* The other threads leave the lists alone, and start nothing that no client
\* has registered.
LEMMA OthersFile ==
  ASSUME IInv, [Next]_allvars,
         \/ \E k \in Killer : KillerStep(k)
         \/ \E t \in Thread : \E p \in Proc : Calling(t, p) /\ UNCHANGED others
         \/ \E p \in Proc : Exit(p) /\ UNCHANGED others
         \/ UNCHANGED vars
  PROVE  /\ UNCHANGED <<setup, monitored, flags, graves, cores>>
         /\ pc'[Monitor] = pc[Monitor]
         /\ \A c \in Client :
              /\ pc'[c] = pc[c] /\ (pc[c] = "core" => on'[c] = on[c])
              /\ Registering(c)' => Registering(c) /\ on'[c] = on[c]
<1> USE DEF IInv
<1>1. ASSUME NEW k \in Killer, KillerStep(k)
      PROVE  /\ UNCHANGED <<monitored, flags, graves, cores>>
             /\ pc'[Monitor] = pc[Monitor]
             /\ \A c \in Client : pc'[c] = pc[c] /\ Stays(c)
  BY <1>1, KillerKeeps, Threads, Apart DEF work
<1>2. ASSUME NEW t \in Thread, NEW p \in Proc, Calling(t, p), UNCHANGED others
      PROVE  /\ UNCHANGED <<monitored, flags, graves, cores, pc>>
             /\ \A c \in Client :
                  /\ pc[c] = "core" => on'[c] = on[c]
                  /\ Registering(c)' => Registering(c) /\ on'[c] = on[c]
  <2>1. Proceeds(t, p)
    BY <1>2, CallEffect
  <2>2. UNCHANGED <<monitored, flags, graves, cores, pc>>
    BY <1>2 DEF others, work, postrun
  <2>3. ASSUME NEW c \in Client
        PROVE  /\ pc[c] = "core" => on'[c] = on[c]
               /\ Registering(c)' => Registering(c) /\ on'[c] = on[c]
    <3>1. CASE c # t
      BY <2>1, <2>2, <3>1, Threads DEF Proceeds, Registering
    <3>2. CASE c = t
      BY <2>1, <2>2, <3>2 DEF Proceeds, Registering, Starts, Stops, ClientCalls
    <3>3. QED
      BY <3>1, <3>2
  <2>4. QED
    BY <2>2, <2>3
<1>3. ASSUME NEW p \in Proc, Exit(p), UNCHANGED others
      PROVE  UNCHANGED <<monitored, flags, graves, cores, pc, calls>>
  BY <1>3 DEF Exit, others, work, postrun
<1>4. CASE UNCHANGED vars
  BY <1>4, Steps DEF vars, local, calls, work, postrun, Registering
<1>5. QED
  BY <1>1, <1>2, <1>3, <1>4, Steps DEF Registering, Stays, calls

-----------------------------------------------------------------------------
(* The invariant.                                                          *)

LEMMA ClientsStay ==
  ASSUME IInv, MonitorStep
  PROVE  \A c \in Client : pc'[c] = pc[c] /\ Stays(c)
BY MonitorKeeps, SetupTypes, Threads, Apart DEF IInv

LEMMA OwnedStep ==
  ASSUME IInv, Owned, [Next]_allvars
  PROVE  Owned'
<1>0. Core' = Core
  BY Steps DEF Core
<1>1. ASSUME NEW c \in Client, ClientStep(c) PROVE Owned'
  <2>1. \A d \in Client \ {c} : Stays(d) /\ pc'[d] = pc[d]
    BY <1>1, ClientKeeps, Threads DEF IInv
  <2>2. /\ Registering(c)' => \E p \in Proc : ToStart(c, p)'
        /\ pc'[c] = "core" => on'[c] \subseteq Core
    BY <1>1, ClientFiles DEF Registering, ToStart, Starts
  <2>3. QED
    BY <1>0, <2>1, <2>2 DEF Owned, Registering, ToStart, Stays
<1>2. CASE MonitorStep
  BY <1>0, <1>2, ClientsStay DEF Owned, Registering, ToStart, Stays
<1>3. CASE \/ \E k \in Killer : KillerStep(k)
           \/ \E t \in Thread : \E p \in Proc : Calling(t, p) /\ UNCHANGED others
           \/ \E p \in Proc : Exit(p) /\ UNCHANGED others
           \/ UNCHANGED vars
  BY <1>0, <1>3, OthersFile DEF Owned, Registering, ToStart
<1>4. QED
  BY <1>1, <1>2, <1>3, Steps

LEMMA FiledStep ==
  ASSUME IInv, Owned, Filed, [Next]_allvars
  PROVE  Filed'
<1>0. /\ Core' = Core /\ procs \in Lists /\ core_procs \in Lists
      /\ graves \in Lists /\ dead_list \in Lists
  BY Steps DEF Core, IInv, Types, OwnTypes
<1>1. ASSUME NEW c \in Client, ClientStep(c) PROVE Filed'
  <2>1. /\ UNCHANGED <<graves, dead_list>> /\ pc'[Monitor] = pc[Monitor]
        /\ \A d \in Client \ {c} : Stays(d) /\ pc'[d] = pc[d]
    BY <1>1, ClientKeeps, Threads, Apart DEF IInv, work
  <2>2. ASSUME NEW p \in Proc, pc[c] = "idle", procs' = Append(procs, p), core_procs' = core_procs,
               on'[c] = {p}, p \in Core => pc'[c] = "core"
        PROVE  Filed'
    <3>1. ToSet(procs') = ToSet(procs) \cup {p}
      BY <1>0, <2>2, ListSets
    <3>2. \A d \in Client : pc[d] = "core" => pc'[d] = "core" /\ on'[d] = on[d]
      BY <2>1, <2>2 DEF Stays
    <3>3. ASSUME pc[Monitor] # "ended", NEW q \in ToSet(procs') \cap Core
          PROVE  q \in ToSet(core_procs) \/ \E d \in Client : pc'[d] = "core" /\ on'[d] = {q}
      <4>1. CASE q = p
        BY <2>2, <3>3, <4>1
      <4>2. CASE q # p
        BY <3>1, <3>2, <3>3, <4>2 DEF Filed
      <4>3. QED
        BY <4>1, <4>2
    <3>4. Held \subseteq Held'
      BY <2>1, <3>1 DEF Held
    <3>5. QED
      BY <1>0, <2>1, <2>2, <3>3, <3>4 DEF Filed
  <2>3. ASSUME NEW p \in Proc, pc[c] = "core", on[c] = {p}, procs' = procs,
               core_procs' = Append(core_procs, p)
        PROVE  Filed'
    <3>1. ToSet(core_procs') = ToSet(core_procs) \cup {p}
      BY <1>0, <2>3, ListSets
    <3>2. p \in Core /\ (p \in ToSet(procs) \/ pc[Monitor] = "ended")
      BY <2>3 DEF Owned, ToStart, IInv, Unstarted
    <3>3. ASSUME pc[Monitor] # "ended", NEW q \in ToSet(procs) \cap Core
          PROVE  q \in ToSet(core_procs') \/ \E d \in Client : pc'[d] = "core" /\ on'[d] = {q}
      <4>1. CASE q \in ToSet(core_procs) \/ q = p
        BY <3>1, <4>1
      <4>2. CASE ~(q \in ToSet(core_procs) \/ q = p)
        <5>1. PICK d \in Client : pc[d] = "core" /\ on[d] = {q}
          BY <3>3, <4>2 DEF Filed
        <5>2. d # c
          BY <2>3, <4>2, <5>1
        <5>3. QED
          BY <2>1, <5>1, <5>2 DEF Stays
      <4>3. QED
        BY <4>1, <4>2
    <3>4. Held' = Held
      BY <2>1, <2>3 DEF Held
    <3>5. ToSet(core_procs') \subseteq Core
      BY <3>1, <3>2 DEF Filed
    <3>6. pc[Monitor] # "ended" => ToSet(core_procs') \subseteq Held
      BY <3>1, <3>2 DEF Filed, Held
    <3>7. QED
      BY <1>0, <2>1, <2>3, <3>3, <3>4, <3>5, <3>6 DEF Filed
  <2>4. CASE UNCHANGED <<procs, core_procs>> /\ pc[c] # "core"
    BY <1>0, <2>1, <2>4 DEF Filed, Held, Stays
  <2>5. QED
    BY <1>1, <2>2, <2>3, <2>4, ClientFiles
<1>2. CASE MonitorStep
  <2>1. pc[Monitor] # "ended"
    BY <1>2, MonitorMoves DEF MonitorStep, Moves, IInv
  <2>2. ToSet(procs') \subseteq ToSet(procs)
    BY <1>0, <1>2, MonitorFiles, Removed, ListSets DEF IInv, Watched, Lists
  <2>3. CASE pc'[Monitor] = "ended"
    BY <1>2, <2>3, MonitorFiles, ListSets DEF Filed
  <2>4. CASE pc'[Monitor] # "ended"
    BY <1>0, <1>2, <2>1, <2>2, <2>4, MonitorFiles, ClientsStay DEF Filed, Stays
  <2>5. QED
    BY <2>3, <2>4
<1>3. CASE \/ \E k \in Killer : KillerStep(k)
           \/ \E t \in Thread : \E p \in Proc : Calling(t, p) /\ UNCHANGED others
           \/ \E p \in Proc : Exit(p) /\ UNCHANGED others
           \/ UNCHANGED vars
  BY <1>0, <1>3, OthersFile DEF Filed, Held, monitored
<1>4. QED
  BY <1>1, <1>2, <1>3, Steps

LEMMA InOrderStep ==
  ASSUME OneClient, IInv, Owned, Filed, InOrder, [Next]_allvars
  PROVE  InOrder'
<1>0. procs \in Lists /\ core_procs \in Lists
  BY DEF IInv, Types, OwnTypes
<1>1. ASSUME NEW c \in Client, ClientStep(c) PROVE InOrder'
  <2>0. \A d \in Client : d = c
    BY DEF OneClient
  <2>1. ASSUME NEW p \in Proc, p \notin Held, ~is_shutdown, procs' = Append(procs, p),
               core_procs' = core_procs, on'[c] = {p}
        PROVE  InOrder'
    <3>1. p \notin ToSet(core_procs) /\ p \notin ToSet(procs)
      BY <2>1 DEF Filed, Held, IInv, Rounds, AtWork, Polls
    <3>2. \A q, r \in Proc : Before(procs', q, r) => Before(procs, q, r) \/ (q \in ToSet(procs) /\ r = p)
      BY <1>0, <2>1, OrderAppended
    <3>3. \A q, r \in Proc :
            /\ Before(core_procs, q, r) => q \in ToSet(core_procs)
            /\ Before(procs, q, r) => q \in ToSet(procs)
      BY DEF Before, ToSet
    <3>4. QED
      BY <2>0, <2>1, <3>1, <3>2, <3>3 DEF InOrder
  <2>2. ASSUME NEW p \in Proc, pc[c] = "core", on[c] = {p}, procs' = procs,
               core_procs' = Append(core_procs, p), pc'[c] = "idle"
        PROVE  InOrder'
    <3>1. \A q, r \in Proc :
            Before(core_procs', q, r) => Before(core_procs, q, r) \/ r = p
      BY <1>0, <2>2, OrderAppended
    <3>2. \A q \in Proc : ~Before(procs, p, q)
      BY <2>2 DEF InOrder
    <3>3. QED
      BY <2>0, <2>2, <3>1, <3>2 DEF InOrder
  <2>3. CASE UNCHANGED <<procs, core_procs>> /\ ~Registering(c)'
    BY <2>0, <2>3 DEF InOrder, Registering
  <2>4. QED
    BY <1>1, <2>1, <2>2, <2>3, ClientFiles
<1>2. CASE MonitorStep
  <2>1. \A p, q \in Proc : Before(procs', p, q) => Before(procs, p, q)
    BY <1>0, <1>2, MonitorFiles, OrderRemoved, OrderOfNone DEF IInv, Watched
  <2>2. core_procs' = core_procs \/ core_procs' = <<>>
    BY <1>2, MonitorFiles
  <2>3. QED
    BY <1>2, <2>1, <2>2, ClientsStay, OrderOfNone DEF InOrder, Stays
<1>3. CASE \/ \E k \in Killer : KillerStep(k)
           \/ \E t \in Thread : \E p \in Proc : Calling(t, p) /\ UNCHANGED others
           \/ \E p \in Proc : Exit(p) /\ UNCHANGED others
           \/ UNCHANGED vars
  BY <1>3, OthersFile DEF InOrder, monitored
<1>4. QED
  BY <1>1, <1>2, <1>3, Steps

LEMMA CountdownStep ==
  ASSUME IInv, Filed, Countdown, [Next]_allvars
  PROVE  Countdown'
<1>0. Core' = Core /\ Core \subseteq Proc /\ core_procs \in Lists /\ cores \in Lists
  BY Steps, MonitorAssumption DEF Core, IInv, Types, OwnTypes
<1>1. ASSUME NEW c \in Client, ClientStep(c) PROVE Countdown'
  <2>1. UNCHANGED cores /\ pc'[Monitor] = pc[Monitor] /\ Stays(Monitor)
    BY <1>1, ClientKeeps, Threads, Apart DEF IInv, postrun
  <2>2. \A p, q \in Proc : Before(core_procs, p, q) => Before(core_procs', p, q)
    <3>1. core_procs' = core_procs \/ \E x \in Proc : core_procs' = Append(core_procs, x)
      BY <1>1, ClientFiles
    <3>2. CASE core_procs' = core_procs
      BY <3>2
    <3>3. ASSUME NEW x \in Proc, core_procs' = Append(core_procs, x), NEW p \in Proc, NEW q \in Proc
          PROVE  Before(core_procs, p, q) => Before(core_procs', p, q)
      BY <1>0, <3>3, OrderAppended
    <3>4. QED
      BY <3>1, <3>2, <3>3
  <2>3. on[Monitor] \subseteq Proc
    BY Threads DEF IInv, Types, LocalTypes
  <2>4. QED
    BY <1>0, <2>1, <2>2, <2>3 DEF Countdown, Stays
<1>2. CASE MonitorStep
  <2>0. call[Monitor] = "none" /\ Types
    BY <1>2, MonitorKeeps DEF IInv
  <2>1. CASE Enqueue
    <3>1. cores' = Reverse(core_procs) /\ core_procs' = core_procs /\ call'[Monitor] = "none"
      BY <2>0, <2>1, MonitorMoves DEF Enqueue, CoresReversed, monitored, Stays
    <3>2. ToSet(cores') \subseteq Core
      BY <1>0, <3>1, Reversed DEF Filed, Lists
    <3>3. \A p, q \in Proc : Before(cores', p, q) => Before(core_procs, q, p)
      BY <1>0, <3>1, OrderReversed
    <3>4. QED
      BY <1>0, <3>1, <3>2, <3>3 DEF Countdown, Stops
  <2>2. CASE KillersDone
    BY <1>0, <2>0, <2>2, MonitorMoves DEF KillersDone, Countdown, Stays, Moves, Stops, monitored, postrun
  <2>3. CASE KillCore
    <3>1. /\ pc[Monitor] = "cores" /\ cores # <<>> /\ cores' = Tail(cores)
          /\ core_procs' = core_procs /\ on'[Monitor] = {Head(cores)}
      BY <2>0, <2>3, MonitorMoves DEF KillCore, Moves, Asks, monitored
    <3>2. /\ Head(cores) \in Core /\ ToSet(cores') \subseteq ToSet(cores)
          /\ \A q \in ToSet(cores') : Before(core_procs, q, Head(cores))
      BY <1>0, <3>1, ListSets, OrderTail DEF Countdown
    <3>3. \A p, q \in Proc : Before(cores', p, q) => Before(cores, p, q)
      BY <1>0, <3>1, OrderTail
    <3>4. QED
      BY <1>0, <3>1, <3>2, <3>3 DEF Countdown
  <2>4. CASE ~Enqueue /\ ~KillersDone /\ ~KillCore
    BY <1>2, <2>0, <2>4, MonitorMoves DEF MonitorStep, Moves, Countdown
  <2>5. QED
    BY <2>1, <2>2, <2>3, <2>4
<1>3. CASE \/ \E k \in Killer : KillerStep(k)
           \/ \E t \in Thread : \E p \in Proc : Calling(t, p) /\ UNCHANGED others
           \/ \E p \in Proc : Exit(p) /\ UNCHANGED others
           \/ UNCHANGED vars
  <2>1. UNCHANGED <<core_procs, cores>> /\ pc'[Monitor] = pc[Monitor]
    BY <1>3, OthersFile DEF monitored
  <2>2. call'[Monitor] \in Stops => call[Monitor] \in Stops /\ on'[Monitor] = on[Monitor]
    <3>1. ASSUME NEW t \in Thread, NEW p \in Proc, Calling(t, p)
          PROVE  call'[Monitor] \in Stops => call[Monitor] \in Stops /\ on'[Monitor] = on[Monitor]
      BY <3>1, CallEffect, Threads DEF IInv, Proceeds, Stops
    <3>2. ASSUME NEW k \in Killer, KillerStep(k) PROVE Stays(Monitor)
      BY <3>2, KillerKeeps, Threads, Apart DEF IInv
    <3>3. QED
      BY <1>3, <3>1, <3>2 DEF Exit, vars, local, calls, Stays
  <2>3. QED
    BY <1>0, <2>1, <2>2 DEF Countdown
<1>4. QED
  BY <1>1, <1>2, <1>3, Steps

LEMMA SilentStep ==
  ASSUME OneClient, IInv, Owned, Silent, [Next]_allvars
  PROVE  Silent'
<1>0. Required' = Required
  BY Steps DEF Required
<1> SUFFICES ASSUME Required = {} PROVE Silent'
  BY <1>0 DEF Silent
<1>1. ASSUME NEW c \in Client, ClientStep(c) PROVE Silent'
  <2>0. \A d \in Client : d = c
    BY DEF OneClient
  <2>1. ASSUME is_shutdown' = is_shutdown, ~is_shutdown PROVE Silent'
    BY <2>1 DEF Silent
  <2>2. CASE ~Registering(c)'
    BY <2>0, <2>2 DEF Silent
  <2>3. pc[c] = "core" => Registering(c)
    BY DEF Registering
  <2>4. is_shutdown => pc[c] # "core"
    BY <2>3 DEF Silent
  <2>5. is_shutdown \in BOOLEAN
    BY DEF IInv, Types, OwnTypes
  <2>6. QED
    BY <1>1, <2>1, <2>2, <2>4, <2>5, ClientFiles
<1>2. CASE MonitorStep
  <2>1. \A c \in Client : Registering(c)' = Registering(c)
    BY <1>2, ClientsStay DEF Registering, Stays
  <2>2. CASE is_shutdown
    BY <2>1, <2>2 DEF Silent
  <2>3. CASE ~is_shutdown /\ is_shutdown'
    <3>1. BuryDone \/ Enqueue \/ JudgeDead
      BY <1>2, <2>3 DEF MonitorStep, Copy, CheckCopy, PollNext, JudgeAlive, JudgeError, Listeners,
           PollDone, Unregister, Buried, RespawnStop, RespawnStart, RespawnDone, KillersDone,
           KillCore, CleanUp, flags
    <3>2. ~JudgeDead
      BY <2>3 DEF JudgeDead, Fatal
    <3>3. ~Enqueue
      BY <2>3 DEF Enqueue, Here, IInv, Rounds, AtWork, Polls
    <3>4. BuryDone /\ AllDead /\ pc[Monitor] = "bury"
      BY <2>3, <3>1, <3>2, <3>3 DEF BuryDone, Here
    <3>5. procs = <<>>
      BY <3>4 DEF AllDead
    <3>6. \A c \in Client : \A p \in Proc : ~ToStart(c, p)
      BY <3>4, <3>5, ListSets DEF IInv, Unstarted
    <3>7. QED
      BY <2>1, <3>6 DEF Silent, Owned
  <2>4. CASE ~is_shutdown'
    BY <2>4 DEF Silent
  <2>5. QED
    BY <2>2, <2>3, <2>4
<1>3. CASE \/ \E k \in Killer : KillerStep(k)
           \/ \E t \in Thread : \E p \in Proc : Calling(t, p) /\ UNCHANGED others
           \/ \E p \in Proc : Exit(p) /\ UNCHANGED others
           \/ UNCHANGED vars
  BY <1>3, OthersFile DEF Silent, flags
<1>4. QED
  BY <1>1, <1>2, <1>3, Steps

LEMMA DoomedStep ==
  ASSUME IInv, Filed, Silent, Doomed, [Next]_allvars
  PROVE  Doomed'
<1>0. Required' = Required /\ Core' = Core /\ queue \in Lists
  BY Steps DEF Required, Core, IInv, Types, OwnTypes
<1>1. ASSUME NEW c \in Client, ClientStep(c) PROVE Doomed'
  <2>1. /\ UNCHANGED <<process, postrun, setup>> /\ pc'[Monitor] = pc[Monitor]
        /\ \A t \in Killer \cup {Monitor} : Stays(t)
    BY <1>1, Steps, ClientKeeps, Threads, Apart DEF IInv
  <2>2. \A p \in Proc : (Running(p)' <=> Running(p)) /\ (ToKill(p) => ToKill(p)')
    BY <2>1 DEF Running, Safe, Respawn, ToKill, StoppedBy, Stays, process, postrun
  <2>3. QED
    BY <1>0, <2>1, <2>2 DEF Doomed, Stays, postrun
<1>2. CASE MonitorStep
  <2> SUFFICES ASSUME Required = {}, pc'[Monitor] \in {"killers", "cores"} PROVE Doomed'
    BY <1>0 DEF Doomed
  <2>1. UNCHANGED <<process, setup>> /\ \A k \in Killer : Stays(k)
    BY <1>2, Steps, MonitorKeeps, Threads, Apart DEF IInv
  <2>2. Enqueue \/ ((KillersDone \/ KillCore) /\ pc[Monitor] \in {"killers", "cores"} /\ queue' = queue)
    BY <1>2, MonitorMoves DEF IInv, MonitorStep, Moves, KillersDone, KillCore, postrun
  <2>3. Enqueue => pc[Monitor] = "post_run"
    BY DEF Enqueue, Here
  <2>4. ASSUME NEW p \in Proc, Running(p)' PROVE ToKill(p)'
    <3>1. Running(p)
      BY <2>1, <2>4 DEF Running, Safe, Respawn, process
    <3>2. pc[Monitor] \in Ending => ToKill(p)
      BY <2>2, <2>3, <3>1 DEF Doomed, Ending
    <3>3. QED
      BY <1>2, <3>1, <3>2, ToKillOwn DEF Running
  <2>5. ToSet(queue') \cap Core = {}
    <3>1. CASE Enqueue
      <4>1. ToSet(queue') = ToSet(procs) \ ToSet(core_procs)
        BY <3>1, TasksAreOrdinary DEF IInv, Enqueue, Ordinary
      <4>2. is_shutdown
        BY <2>3, <3>1 DEF IInv, Rounds, AtWork, Polls
      <4>3. \A c \in Client : pc[c] # "core"
        BY <4>2 DEF Silent, Registering
      <4>4. QED
        BY <2>3, <3>1, <4>1, <4>3 DEF Filed
    <3>2. CASE ~Enqueue
      BY <2>2, <3>2 DEF Doomed
    <3>3. QED
      BY <3>1, <3>2
  <2>6. ASSUME NEW k \in Killer, call'[k] \in Stops PROVE on'[k] \cap Core = {}
    <3>1. call[k] \in Stops /\ on'[k] = on[k]
      BY <2>1, <2>6 DEF Stays
    <3>2. ~Enqueue
      BY <2>3, <3>1 DEF IInv, KillerCalls, Ending, Stops
    <3>3. QED
      BY <2>2, <3>1, <3>2 DEF Doomed
  <2>7. QED
    BY <1>0, <2>4, <2>5, <2>6 DEF Doomed
<1>3. ASSUME NEW k \in Killer, KillerStep(k) PROVE Doomed'
  <2>1. /\ UNCHANGED <<process, cores, setup>> /\ pc'[Monitor] = pc[Monitor]
        /\ Stays(Monitor) /\ \A j \in Killer \ {k} : Stays(j)
        /\ call[k] = "none"
    BY <1>3, Steps, KillerKeeps, Threads, Apart DEF IInv
  <2>2. /\ ToSet(queue') \subseteq ToSet(queue)
        /\ \A p \in ToSet(queue) : p \in ToSet(queue') \/ (call'[k] = "stop" /\ on'[k] = {p})
        /\ call'[k] \in Stops => \E p \in ToSet(queue) : on'[k] = {p}
    <3>1. CASE TakeVictim(k)
      <4>1. queue # <<>> /\ queue' = Tail(queue) /\ call'[k] = "stop" /\ on'[k] = {Head(queue)}
        BY <3>1, Threads DEF TakeVictim, Invoke, IInv, Types, LocalTypes
      <4>2. queue \in Lists
        BY <1>0
      <4>3. ToSet(queue) = {Head(queue)} \cup ToSet(Tail(queue))
        BY <4>1, <4>2, ListSets
      <4>4. Head(queue) \in ToSet(queue)
        BY <4>3
      <4>5. ToSet(queue') \subseteq ToSet(queue)
        BY <4>1, <4>3
      <4>6. \A p \in ToSet(queue) : p \in ToSet(queue') \/ on'[k] = {p}
        BY <4>1, <4>3
      <4>7. QED
        BY <4>1, <4>4, <4>5, <4>6
    <3>2. CASE TaskDone(k) \/ KillerEnds(k)
      BY <2>1, <3>2 DEF TaskDone, KillerEnds, postrun, local, calls, Stops
    <3>3. QED
      BY <1>3, <3>1, <3>2 DEF KillerStep
  <2>3. ASSUME NEW p \in Proc, ToKill(p) PROVE ToKill(p)'
    <3>1. \A t \in Killer \cup {Monitor} : StoppedBy(t, p) => StoppedBy(t, p)'
      BY <2>1, Apart DEF StoppedBy, Stays, Stops
    <3>2. \A q \in ToSet(queue) : q \in ToSet(queue') \/ StoppedBy(k, q)'
      BY <2>2 DEF StoppedBy, Stops
    <3>3. QED
      BY <2>1, <2>3, <3>1, <3>2 DEF ToKill
  <2>4. \A p \in Proc : Running(p)' <=> Running(p)
    BY <2>1 DEF Running, Safe, Respawn, process
  <2>5. QED
    BY <1>0, <2>1, <2>2, <2>3, <2>4 DEF Doomed, Stays
<1>4. ASSUME NEW t \in Thread, NEW p \in Proc, Calling(t, p), UNCHANGED others PROVE Doomed'
  <2>1. Proceeds(t, p) /\ Touches(t, p)
    BY <1>4, CallEffect DEF IInv
  <2>2. UNCHANGED <<queue, cores, pc, setup>>
    BY <1>4, Steps DEF others, postrun
  <2> SUFFICES ASSUME Required = {}, pc[Monitor] \in {"killers", "cores"} PROVE Doomed'
    BY <1>0, <2>2 DEF Doomed
  <2>3. \A c \in Client : ~Registering(c)
    BY DEF Silent, IInv, Rounds, AtWork, Polls
  <2>4. ASSUME NEW q \in Proc, Running(q)' PROVE ToKill(q)'
    <3>1. Safe(q) /\ child'[q] = "running"
      BY <2>2, <2>4 DEF Running, Safe, Respawn
    <3>2. CASE child[q] # "running"
      <4>1. q = p
        BY <2>1, <3>1, <3>2 DEF Touches
      <4>2. QED
        BY <1>4, <2>3, <3>1, <3>2, <4>1, Revivers DEF ToStart, Registering
    <3>3. CASE child[q] = "running"
      <4>1. ToKill(q)
        BY <3>1, <3>3 DEF Doomed, Running
      <4>2. ASSUME NEW u \in Killer \cup {Monitor}, StoppedBy(u, q) PROVE StoppedBy(u, q)'
        <5>1. CASE u # t
          BY <2>1, <4>2, <5>1, Apart DEF Proceeds, StoppedBy
        <5>2. CASE u = t
          BY <2>1, <3>1, <4>2, <5>2 DEF Proceeds, Touches, StoppedBy, Stops
        <5>3. QED
          BY <5>1, <5>2
      <4>3. QED
        BY <2>2, <4>1, <4>2 DEF ToKill
    <3>4. QED
      BY <3>2, <3>3
  <2>5. ASSUME NEW k \in Killer, call'[k] \in Stops PROVE on'[k] \cap Core = {}
    <3>1. call[k] \in Stops /\ on'[k] = on[k]
      BY <2>1, <2>5, Threads DEF Proceeds, Stops
    <3>2. QED
      BY <3>1 DEF Doomed
  <2>6. QED
    BY <1>0, <2>2, <2>4, <2>5 DEF Doomed
<1>5. ASSUME NEW p \in Proc, Exit(p), UNCHANGED others PROVE Doomed'
  <2>1. UNCHANGED <<call, on, pc, queue, cores, setup>>
    BY <1>5, Steps DEF Exit, others, calls, postrun
  <2>2. \A q \in Proc : Running(q)' => Running(q)
    BY <1>5, <2>1 DEF Running, Safe, Respawn, Exit, IInv, Types, LocalTypes
  <2>3. \A q \in Proc : ToKill(q)' = ToKill(q)
    BY <2>1 DEF ToKill, StoppedBy
  <2>4. QED
    BY <1>0, <2>1, <2>2, <2>3 DEF Doomed
<1>6. CASE UNCHANGED vars
  BY <1>0, <1>6, Steps DEF Doomed, Running, Safe, Respawn, ToKill, StoppedBy, vars, local, process, calls, postrun
<1>7. QED
  BY <1>1, <1>2, <1>3, <1>4, <1>5, <1>6, Steps

-----------------------------------------------------------------------------
(* The theorem.                                                            *)

LEMMA CoreInvInit == Init => CoreInv
<1> SUFFICES ASSUME Init PROVE CoreInv
  OBVIOUS
<1>1. /\ pc[Monitor] = "loop" /\ procs = <<>> /\ core_procs = <<>> /\ ~is_shutdown
      /\ \A c \in Client : pc[c] = "idle" /\ call[c] = "none"
  BY Threads, Apart DEF Init, LocalInit
<1>2. QED
  BY <1>1, NoElements, OrderOfNone
     DEF CoreInv, Owned, Registering, Starts, Filed, InOrder, Countdown, Silent, Doomed

LEMMA CoreInvMeans ==
  ASSUME IInv, CoreInv
  PROVE  CoreLast
<1> SUFFICES ASSUME Required = {}, pc[Monitor] \in {"killers", "cores"},
                    NEW t \in Thread \ Client, NEW p \in on[t] \cap Core, Dying(t),
                    NEW q \in Proc \ {p}, Safe(q), child[q] = "running"
             PROVE  /\ q \in Core
                    /\ \A i, j \in DOMAIN procs : procs[i] = p /\ procs[j] = q => j < i
  BY DEF CoreLast
<1>1. call[t] \in Stops /\ p \in Proc /\ procs \in Lists
  BY DEF Dying, Stops, IInv, Types, OwnTypes, LocalTypes
<1>2. t = Monitor
  BY <1>1, Apart DEF CoreInv, Doomed
<1>3. pc[Monitor] = "cores"
  BY <1>1, <1>2 DEF IInv, MonitorCalls
<1>4. q \in ToSet(cores)
  BY <1>2, <1>3 DEF CoreInv, Doomed, Running, ToKill, StoppedBy
<1>5. q \in Core /\ Before(core_procs, q, p)
  BY <1>1, <1>2, <1>4 DEF CoreInv, Countdown
<1>6. ~Before(procs, p, q)
  BY <1>1, <1>5 DEF CoreInv, InOrder
<1>7. ASSUME NEW i \in DOMAIN procs, NEW j \in DOMAIN procs, procs[i] = p, procs[j] = q
      PROVE  j < i
  <2>1. i # j /\ ~(i < j)
    BY <1>6, <1>7 DEF Before
  <2>2. i \in Int /\ j \in Int
    BY <1>1, LenProperties DEF Lists
  <2>3. QED
    BY <2>1, <2>2
<1>8. QED
  BY <1>5, <1>7

\* When no process is required, so that only the client shuts the monitor down,
\* _post_run asks no core process to end before all ordinary processes and all
\* core processes registered after it have been stopped, whatever died, was
\* killed or respawned meanwhile.
THEOREM CoreLastAlways ==
  ASSUME OneClient
  PROVE  Spec => []CoreLast
<1>1. IInv /\ CoreInv /\ [Next]_allvars => CoreInv'
  BY OwnedStep, FiledStep, InOrderStep, CountdownStep, SilentStep, DoomedStep DEF CoreInv
<1>2. IInv /\ CoreInv => CoreLast
  BY CoreInvMeans
<1>3. QED
  BY Invariance, CoreInvInit, <1>1, <1>2, PTL DEF Spec

=============================================================================
