---------------------------- MODULE PackageLookup ----------------------------
(***************************************************************************)
(* roslib's own reader of rospack's cache file, packages.py: a Python      *)
(* process that keeps the packages of the file in memory, asks a rospack   *)
(* process for what it does not find there (get_pkg_dir), and searches the *)
(* package's directories (find_node, find_resource).  The rospack          *)
(* processes are those of RospackCache, one for each environment that the  *)
(* reader may ask in, and others that do not know of the reader.           *)
(***************************************************************************)
EXTENDS RospackCache

CONSTANTS
  Child,      \* the rospack processes that the reader starts
  Shell,      \* the rospack processes that others start
  Unset,      \* children in whose environment ROS_PACKAGE_PATH is not set
  Home,       \* the child with the reader's own environment
  Depth,      \* how many directories a package has; os.walk visits 1 .. Depth
  Contents,   \* bound: what a package may hold when its search begins
  MaxCalls    \* bound: calls of the reader

Kinds == {"none", "plain", "executable"}

ASSUME LookupAssumption ==
  /\ Child \subseteq Process
  /\ Shell \subseteq Process \ Child
  /\ Unset \subseteq Child
  /\ Home \in Child
  /\ Depth \in Nat
  /\ Contents \subseteq [1 .. Depth -> Kinds]
  /\ MaxCalls \in Nat

VARIABLES
  at,       \* where the reader is
  call,     \* its call: the operation, the child to ask and the package's name
  table,    \* _pkg_dir_cache: the paths, the environment they are for, and
            \* what the writer of the file has seen all the time
  dir,      \* the directory that get_pkg_dir has returned, in a set
  pos,      \* the directory of the walk that is next
  matches,  \* find_resource's list
  result,   \* what the call returned or raised
  node,     \* node[k]: the file that is asked for, in directory k of dir
  there,    \* packages that were there ever since the call began
  met,      \* packages that were there at some time since then
  was,      \* was[k]: what node[k] has been since the walk began
  asked,    \* count of calls
  made      \* count of changes to files

reader == <<at, call, table, dir, pos, matches, result, asked>>
files == <<node, there, met, was, made>>
lvars == <<vars, reader, files>>

NoTable == [env |-> <<>>, paths |-> <<>>, there |-> {}]
Raised(why) == [kind |-> why]

Nowhere == [k \in 1 .. Depth |-> "none"]
Now(n) == [k \in 1 .. Depth |-> {n[k]}]

LInit ==
  /\ Init
  /\ at = "idle"
  /\ call = [op |-> "dir", child |-> Home, name |-> {}]
  /\ table = NoTable
  /\ dir = {} /\ pos = 1 /\ matches = {}
  /\ result = Raised("none")
  /\ there = tree /\ met = tree
  /\ node = Nowhere /\ was = Now(Nowhere)
  /\ asked = 0 /\ made = 0

-----------------------------------------------------------------------------
(* get_pkg_dir.                                                            *)

\* A call begins: the package list is only read if there is none yet.
Begin(op, c, n) ==
  /\ at = "idle"
  /\ asked < MaxCalls /\ asked' = asked + 1
  /\ call' = [op |-> op, child |-> c, name |-> {n}]
  /\ at' = IF table.paths = <<>> THEN "read" ELSE "lookup"
  /\ dir' = {} /\ pos' = 1 /\ matches' = {}
  /\ result' = Raised("none")
  /\ there' = tree /\ met' = tree
  /\ node' = Nowhere /\ was' = Now(Nowhere)
  /\ UNCHANGED <<vars, table, made>>

\* _read_rospack_cache: the header comes first, so nothing is taken from a
\* file of another environment.  One open: the file is that of one writer.
ReadFor(c) ==
  table' = IF cache.exists /\ cache.header = Visible[c]
           THEN [env |-> Visible[c], paths |-> cache.paths, there |-> cache.there]
           ELSE table

\* A ROS_PACKAGE_PATH that is not set is None here, which equals no header.
Read ==
  /\ at = "read"
  /\ at' = "lookup"
  /\ IF call.child \in Unset THEN UNCHANGED table ELSE ReadFor(call.child)
  /\ UNCHANGED <<vars, files, call, dir, pos, matches, result, asked>>

\* _update_rospack_cache, for a list of packages to come; here a variable
\* that is not set is an empty one.
Update ==
  /\ at = "idle"
  /\ table.paths = <<>>
  /\ ReadFor(Home)
  /\ UNCHANGED <<vars, files, at, call, dir, pos, matches, result, asked>>

\* What the dictionary says of the name: the last line of the file with it.
Entry ==
  {table.paths[i] : i \in {j \in DOMAIN table.paths :
      /\ NameOf[table.paths[j]] \in call.name
      /\ \A k \in DOMAIN table.paths :
           k > j => NameOf[table.paths[k]] # NameOf[table.paths[j]]}}

\* The entry counts only for the environment that the list was read for.
Known == IF table.env = Visible[call.child] /\ call.child \notin Unset THEN Entry ELSE {}

\* get_pkg_dir returns x: the call is over, or its search begins, whatever
\* files there are.
Located(x, by) ==
  /\ dir' = {x}
  /\ UNCHANGED <<there, met, made>>
  /\ IF call.op = "dir"
     THEN /\ at' = "idle" /\ result' = [kind |-> "dir", path |-> x, by |-> by]
          /\ UNCHANGED <<node, was>>
     ELSE /\ at' = "walk" /\ UNCHANGED result
          /\ node' \in Contents /\ was' = Now(node')

\* Fault: an entry is not checked.
LookupUnchecked ==
  /\ at = "lookup"
  /\ \E x \in Known : Located(x, "table")
  /\ UNCHANGED <<vars, call, table, pos, matches, asked>>

Lookup ==
  /\ at = "lookup"
  /\ \E x \in Known : x \in tree /\ Located(x, "table")
  /\ UNCHANGED <<vars, call, table, pos, matches, asked>>

\* A directory that is no package any more takes the whole list with it.
Invalidate ==
  /\ at = "lookup"
  /\ Known # {} /\ Known \cap tree = {}
  /\ table' = NoTable
  /\ at' = "popen"
  /\ UNCHANGED <<vars, files, call, dir, pos, matches, result, asked>>

Miss ==
  /\ at = "lookup"
  /\ Known = {}
  /\ at' = "popen"
  /\ UNCHANGED <<vars, files, call, table, dir, pos, matches, result, asked>>

\* An exception; None instead, if the package is not required.
Raise(why) == at' = "idle" /\ result' = Raised(why) /\ UNCHANGED <<dir, files>>

Waiting(p) == at = "wait" /\ p = call.child

\* Popen: rospack find; the table is not updated from its answer.
Popen ==
  /\ at = "popen"
  /\ End(call.child)
  /\ at' = "wait"
  /\ UNCHANGED <<files, call, table, dir, pos, matches, result, asked>>

\* communicate() returns: no path, a path that is there, or one that has gone
\* since; rospack does not say which of its packages are left.
Collect ==
  /\ at = "wait"
  /\ pc[call.child] = "answered"
  /\ LET a == answer[call.child]
     IN \/ a = NotFound /\ Raise("missing")
        \/ a.kind = "path" /\ Located(a.path, "rospack")
        \/ a.kind = "path" /\ a.path \notin tree /\ Raise("gone")
  /\ End(call.child)
  /\ UNCHANGED <<call, table, pos, matches, asked>>

\* There may be no rospack to start.
PopenFails ==
  /\ at = "popen"
  /\ Raise("unable")
  /\ UNCHANGED <<vars, call, table, pos, matches, asked>>

-----------------------------------------------------------------------------
(* find_node and find_resource.                                            *)

Searching == at \in {"walk", "stat"}

Return(what) == at' = "idle" /\ result' = what

\* os.walk lists the next directory; one that has gone is passed over.
Walk ==
  /\ at = "walk" /\ pos <= Depth
  /\ \/ /\ node[pos] = "none"
        /\ pos' = pos + 1 /\ UNCHANGED <<at, matches>>
     \/ /\ node[pos] # "none" /\ call.op = "node"
        /\ at' = "stat" /\ UNCHANGED <<pos, matches>>
     \/ /\ node[pos] # "none" /\ call.op = "resource"
        /\ matches' = matches \cup {pos} /\ pos' = pos + 1 /\ UNCHANGED at
  /\ UNCHANGED <<vars, files, call, table, dir, result, asked>>

\* os.stat of what was listed raises when it has gone.
Stat ==
  /\ at = "stat"
  /\ \/ node[pos] = "none" /\ Return(Raised("OSError")) /\ UNCHANGED pos
     \/ node[pos] = "executable" /\ Return([kind |-> "node", in |-> pos]) /\ UNCHANGED pos
     \/ node[pos] = "plain" /\ pos' = pos + 1 /\ at' = "walk" /\ UNCHANGED result
  /\ UNCHANGED <<vars, files, call, table, dir, matches, asked>>

WalkDone ==
  /\ at = "walk" /\ pos > Depth
  /\ Return(IF call.op = "node" THEN Raised("None") ELSE [kind |-> "list", in |-> matches])
  /\ UNCHANGED <<vars, files, call, table, dir, pos, matches, asked>>

-----------------------------------------------------------------------------
(* The world.                                                              *)

\* The files of dir change to n, which matters while they are looked at.
FilesBecome(n) == node' = n /\ was' = [k \in 1 .. Depth |-> was[k] \cup {n[k]}]

\* A package comes or goes; one that goes takes its files with it.
LChange(x) ==
  /\ Change(x)
  /\ there' = there \cap tree' /\ met' = met \cup tree'
  /\ IF Searching /\ x \in dir THEN FilesBecome(Nowhere) ELSE UNCHANGED <<node, was>>
  /\ UNCHANGED <<reader, made>>

\* Somebody builds or cleans the package that is searched.
Make(k, kind) ==
  /\ Searching /\ dir \subseteq tree
  /\ changes + made < MaxChanges /\ made' = made + 1
  /\ FilesBecome([node EXCEPT ![k] = kind])
  /\ UNCHANGED <<vars, reader, there, met>>

\* A rospack process that somebody has started.
Working(p) == Waiting(p) \/ p \in Shell

ChildRuns(p) == Working(p) /\ Run(p) /\ UNCHANGED <<reader, files>>

\* rospack gets its argument from whoever has started it.
ChildAsked(p, n) ==
  /\ Working(p) /\ Ask(p, n)
  /\ Waiting(p) => n \in call.name
  /\ UNCHANGED <<reader, files>>

\* A rospack that is killed prints nothing.  Another one that is killed is one
\* that does nothing any more.
ChildEnds(p) ==
  /\ Waiting(p) /\ End(p)
  /\ Raise("killed")
  /\ UNCHANGED <<call, table, pos, matches, asked>>

LAge == Age /\ UNCHANGED <<reader, files>>

LFinished ==
  /\ at = "idle" /\ asked = MaxCalls /\ \A p \in Shell : pc[p] = "answered"
  /\ UNCHANGED lvars

Reading ==
  \/ Read \/ Lookup \/ Invalidate \/ Miss \/ Popen \/ PopenFails \/ Collect
  \/ Walk \/ Stat \/ WalkDone

LNext ==
  \/ Reading \/ Update
  \/ \E op \in {"dir", "node", "resource"}, c \in Child, n \in Name : Begin(op, c, n)
  \/ \E p \in Process : ChildRuns(p) \/ ChildEnds(p) \/ \E n \in Name : ChildAsked(p, n)
  \/ \E x \in Path : LChange(x)
  \/ \E k \in 1 .. Depth, kind \in Kinds : Make(k, kind)
  \/ LAge
  \/ LFinished

LSpec == LInit /\ [][LNext]_lvars

\* The reader runs, or else the rospack that it waits for.
Progress ==
  \/ Reading
  \/ \E p \in Process :
       Waiting(p) /\ (ChildRuns(p) \/ \E n \in Name : ChildAsked(p, n))

LFairSpec == LSpec /\ WF_lvars(Progress)

-----------------------------------------------------------------------------
(* Properties.                                                             *)

\* The list in memory is the list of one file, whole.
TableWhole == Whole(table.paths, table.env, table.there)

\* What get_pkg_dir returns was a package of that name at some time during the
\* call, and a package of the caller's environment if it comes from the list.
\* "Cannot locate" is said only of a name that no package had all the time, or
\* when a package that rospack has named goes before it can be used.
DirHonest ==
  /\ result.kind = "dir" =>
       /\ result.path \in met /\ NameOf[result.path] \in call.name
       /\ result.by = "table" => result.path \in ToSet(Visible[call.child])
  /\ result.kind = "missing" =>
       \A x \in there \cap ToSet(Visible[call.child]) : NameOf[x] \notin call.name
  /\ result.kind = "gone" => \E x \in met \ there : NameOf[x] \in call.name

\* find_node returns the first file that was executable, None only if no file
\* was executable all the time, and fails only if a file was removed;
\* find_resource lists every file that was there all the time, and no other
\* than one that was there.
SearchHonest ==
  /\ result.kind = "node" =>
       /\ "executable" \in was[result.in]
       /\ \A k \in 1 .. result.in - 1 : was[k] # {"executable"}
  /\ result.kind = "None" => \A k \in 1 .. Depth : was[k] # {"executable"}
  /\ result.kind = "OSError" =>
       \E k \in 1 .. Depth : "none" \in was[k] /\ was[k] # {"none"}
  /\ result.kind = "list" =>
       \A k \in 1 .. Depth :
         IF k \in result.in THEN was[k] # {"none"} ELSE "none" \in was[k]

\* roslib is honest about packages and their files, whoever writes the cache
\* file, changes packages or kills rospack meanwhile (packages.py:123).
LookupHonest == TableWhole /\ DirHonest /\ SearchHonest

\* A call comes to an end, if rospack does: get_pkg crawls at most once.
CallReturns == at # "idle" ~> at = "idle"
=============================================================================
