---------------------------- MODULE RospackCache ----------------------------
(***************************************************************************)
(* The package cache of tools/rospack/rospack.cpp: rospack processes that  *)
(* share one file, ROS_HOME/rospack_cache, with the paths a crawl found    *)
(* and the ROS_ROOT and ROS_PACKAGE_PATH it was made for.  Meanwhile       *)
(* packages come and go and processes may be killed.                       *)
(*                                                                         *)
(* An environment is the sequence of directories its processes crawl; each *)
(* directory may hold one package, named after the directory.  A process   *)
(* that has ended starts again as a new one.                               *)
(***************************************************************************)
EXTENDS Naturals, Sequences, SequencesExt, FiniteSets

CONSTANTS
  Process,
  Path, Name,
  NameOf,       \* NameOf[x]: the name of a package in directory x
  Visible,      \* Visible[p]: the directories of p's environment, in crawl order
  CacheTimeout, \* ROS_CACHE_TIMEOUT: "zero", "positive" or "negative"
  MaxChanges    \* bound: how many packages come or go

ASSUME CacheAssumption ==
  /\ NameOf \in [Path -> Name]
  /\ Visible \in [Process -> Seq(Path)]
  /\ CacheTimeout \in {"zero", "positive", "negative"}
  /\ MaxChanges \in Nat

NoFile == [exists |-> FALSE]
\* "there" is what the writer has seen all the time; no program reads it.
NewFile(visible, there) ==
  [exists |-> TRUE, header |-> visible, paths |-> <<>>, young |-> TRUE, there |-> there]

VARIABLES
  tree,       \* the directories that hold a manifest.xml
  cache,      \* the cache file
  tmp,        \* tmp[p]: p's temporary cache file
  pc,
  pkgs,       \* pkgs[p]: Package::pkgs, as the paths in their order
  from,       \* from[p]: the environment of the cache that p has loaded
  crawled,    \* crawled[p]
  rest,       \* rest[p]: directories p has still to crawl
  wanted,     \* wanted[p]: the argument of get_pkg
  answer,     \* answer[p]: what get_pkg returned or threw last
  steady,     \* steady[p]: packages that were there ever since p started
  seen,       \* seen[p]: packages that were there at some time since then
  changes

vars == <<tree, cache, tmp, pc, pkgs, from, crawled, rest, wanted, answer,
          steady, seen, changes>>

NoAnswer == [kind |-> "none"]
Returned(x) == [kind |-> "path", path |-> x]
NotFound == [kind |-> "error"]

Init ==
  /\ tree \in SUBSET Path
  /\ cache = NoFile
  /\ tmp = [p \in Process |-> NoFile]
  /\ pc = [p \in Process |-> "start"]
  /\ pkgs = [p \in Process |-> <<>>]
  /\ from = [p \in Process |-> <<>>]
  /\ crawled = [p \in Process |-> FALSE]
  /\ rest = [p \in Process |-> <<>>]
  /\ wanted = [p \in Process |-> {}]
  /\ answer = [p \in Process |-> NoAnswer]
  /\ steady = [p \in Process |-> tree]
  /\ seen = [p \in Process |-> tree]
  /\ changes = 0

Goto(p, l) == pc' = [pc EXCEPT ![p] = l]
memory == <<pkgs, from, crawled, rest, wanted, answer>>
history == <<steady, seen, changes>>

\* A crawl in the middle of get_pkg goes back to get_pkg.
Resume(p) == Goto(p, IF wanted[p] = {} THEN "ready" ELSE "get_pkg")

-----------------------------------------------------------------------------
(* Loading the cache.                                                      *)

\* cache_is_good: the file is there, new enough and of this environment.
TooOld(file) == CacheTimeout = "positive" /\ ~file.young

CacheIsGood(p) ==
  /\ CacheTimeout # "zero"
  /\ cache.exists
  /\ ~TooOld(cache)
  /\ cache.header = Visible[p]

CheckCache(p) ==
  /\ pc[p] = "start"
  /\ Goto(p, IF CacheIsGood(p) THEN "open" ELSE "crawl")
  /\ rest' = [rest EXCEPT ![p] = Visible[p]]
  /\ UNCHANGED <<tree, cache, tmp, pkgs, from, crawled, wanted, answer, history>>

\* add_package: the first package of a name is the one that counts.
AddPackage(ps, x) ==
  IF \E y \in ToSet(ps) : NameOf[y] = NameOf[x] THEN ps ELSE Append(ps, x)

\* The file is opened a second time and read; it is a whole file, for it is
\* only ever replaced.
LoadCache(p) ==
  /\ pc[p] = "open"
  /\ IF cache.exists
     THEN /\ pkgs' = [pkgs EXCEPT ![p] = FoldLeft(AddPackage, <<>>, cache.paths)]
          /\ from' = [from EXCEPT ![p] = cache.header]
          /\ Goto(p, "ready")
     ELSE Goto(p, "crawl") /\ UNCHANGED <<pkgs, from>>
  /\ UNCHANGED <<tree, cache, tmp, crawled, rest, wanted, answer, history>>

-----------------------------------------------------------------------------
(* Crawling.                                                               *)

Crawl(p) ==
  /\ pc[p] = "crawl"
  /\ rest[p] # <<>>
  /\ pkgs' = [pkgs EXCEPT ![p] =
                IF Head(rest[p]) \in tree THEN AddPackage(@, Head(rest[p])) ELSE @]
  /\ rest' = [rest EXCEPT ![p] = Tail(@)]
  /\ UNCHANGED <<tree, cache, tmp, pc, from, crawled, wanted, answer, history>>

\* Fault: the flag is not set.
CrawlDoneUnmarked(p) ==
  /\ pc[p] = "crawl"
  /\ rest[p] = <<>>
  /\ Goto(p, "create")
  /\ UNCHANGED <<tree, cache, tmp, pkgs, from, crawled, rest, wanted, answer, history>>

CrawlDone(p) ==
  /\ pc[p] = "crawl"
  /\ rest[p] = <<>>
  /\ crawled' = [crawled EXCEPT ![p] = TRUE]
  /\ Goto(p, "create")
  /\ UNCHANGED <<tree, cache, tmp, pkgs, from, rest, wanted, answer, history>>

\* mkstemp and fopen; on an error the cache is given up.
CreateTemp(p) ==
  /\ pc[p] = "create"
  /\ \/ /\ tmp' = [tmp EXCEPT ![p] = NewFile(Visible[p], steady[p])]
        /\ rest' = [rest EXCEPT ![p] = pkgs[p]]
        /\ Goto(p, "write")
     \/ Resume(p) /\ UNCHANGED <<tmp, rest>>
  /\ UNCHANGED <<tree, cache, pkgs, from, crawled, wanted, answer, history>>

WriteTemp(p) ==
  /\ pc[p] = "write"
  /\ rest[p] # <<>>
  /\ tmp' = [tmp EXCEPT ![p].paths = Append(@, Head(rest[p]))]
  /\ rest' = [rest EXCEPT ![p] = Tail(@)]
  /\ UNCHANGED <<tree, cache, pc, pkgs, from, crawled, wanted, answer, history>>

\* Fault: the temporary file takes its place before it is written.
RenameTempFirst(p) ==
  /\ pc[p] = "write"
  /\ cache' = tmp[p]
  /\ Goto(p, "rename")
  /\ UNCHANGED <<tree, tmp, memory, history>>

\* The old file is removed ...
RemoveOld(p) ==
  /\ pc[p] = "write"
  /\ rest[p] = <<>>
  /\ cache' = NoFile
  /\ Goto(p, "rename")
  /\ UNCHANGED <<tree, tmp, memory, history>>

\* ... and the temporary one takes its place, unless renaming fails.
RenameTemp(p) ==
  /\ pc[p] = "rename"
  /\ \/ cache' = tmp[p]
     \/ cache' = cache
  /\ tmp' = [tmp EXCEPT ![p] = NoFile]
  /\ Resume(p)
  /\ UNCHANGED <<tree, memory, history>>

-----------------------------------------------------------------------------
(* get_pkg.                                                                *)

Ask(p, n) ==
  /\ pc[p] = "ready"
  /\ wanted' = [wanted EXCEPT ![p] = {n}]
  /\ Goto(p, "get_pkg")
  /\ UNCHANGED <<tree, cache, tmp, pkgs, from, crawled, rest, answer, history>>

Matches(p) == {x \in ToSet(pkgs[p]) : NameOf[x] \in wanted[p]}

Answer(p, a) ==
  /\ answer' = [answer EXCEPT ![p] = a]
  /\ Goto(p, "answered")
  /\ UNCHANGED <<tree, cache, tmp, pkgs, from, crawled, rest, wanted, history>>

\* Fault: an answer from the cache is not checked either.
FoundUnchecked(p, x) ==
  /\ pc[p] = "get_pkg"
  /\ x \in Matches(p)
  /\ Answer(p, Returned(x))

\* After a crawl the answer is not checked; before, its manifest must exist.
Found(p, x) ==
  /\ pc[p] = "get_pkg"
  /\ x \in Matches(p)
  /\ crawled[p] \/ x \in tree
  /\ Answer(p, Returned(x))

\* An unknown package, or one that has gone since: crawl, once.
Recrawl(p) ==
  /\ pc[p] = "get_pkg"
  /\ ~crawled[p]
  /\ Matches(p) \cap tree = {}
  /\ pkgs' = [pkgs EXCEPT ![p] = <<>>]
  /\ from' = [from EXCEPT ![p] = <<>>]
  /\ rest' = [rest EXCEPT ![p] = Visible[p]]
  /\ Goto(p, "crawl")
  /\ UNCHANGED <<tree, cache, tmp, crawled, wanted, answer, history>>

Throw(p) ==
  /\ pc[p] = "get_pkg"
  /\ crawled[p]
  /\ Matches(p) = {}
  /\ Answer(p, NotFound)

-----------------------------------------------------------------------------
(* The world.                                                              *)

\* Process p ends, or is killed at any point, and a new one takes its place;
\* its temporary file, if any, stays behind and is never read.
End(p) ==
  /\ tmp' = [tmp EXCEPT ![p] = NoFile]
  /\ pc' = [pc EXCEPT ![p] = "start"]
  /\ pkgs' = [pkgs EXCEPT ![p] = <<>>]
  /\ from' = [from EXCEPT ![p] = <<>>]
  /\ crawled' = [crawled EXCEPT ![p] = FALSE]
  /\ rest' = [rest EXCEPT ![p] = <<>>]
  /\ wanted' = [wanted EXCEPT ![p] = {}]
  /\ answer' = [answer EXCEPT ![p] = NoAnswer]
  /\ steady' = [steady EXCEPT ![p] = tree]
  /\ seen' = [seen EXCEPT ![p] = tree]
  /\ UNCHANGED <<tree, cache, changes>>

\* A package comes or goes.
Change(x) ==
  /\ changes < MaxChanges /\ changes' = changes + 1
  /\ tree' = IF x \in tree THEN tree \ {x} ELSE tree \cup {x}
  /\ steady' = [p \in Process |-> steady[p] \cap tree']
  /\ seen' = [p \in Process |-> seen[p] \cup tree']
  /\ UNCHANGED <<cache, tmp, pc, memory>>

\* The cache file gets older than ROS_CACHE_TIMEOUT.
Age ==
  /\ cache.exists
  /\ cache' = [cache EXCEPT !.young = FALSE]
  /\ UNCHANGED <<tree, tmp, pc, memory, history>>

Run(p) ==
  \/ CheckCache(p) \/ LoadCache(p)
  \/ Crawl(p) \/ CrawlDone(p)
  \/ CreateTemp(p) \/ WriteTemp(p) \/ RemoveOld(p) \/ RenameTemp(p)
  \/ \E x \in Path : Found(p, x)
  \/ Recrawl(p) \/ Throw(p)

Next ==
  \/ \E p \in Process :
       Run(p) \/ End(p) \/ \E n \in Name : Ask(p, n)
  \/ \E x \in Path : Change(x)
  \/ Age

Spec == Init /\ [][Next]_vars

-----------------------------------------------------------------------------
(* Properties.                                                             *)

\* ps has, for every package of env that is in S, that package or one of the
\* same name that comes before it in env.
Covers(ps, env, S) ==
  \A i \in DOMAIN env :
    env[i] \in S =>
      \E j \in 1..i : NameOf[env[j]] = NameOf[env[i]] /\ env[j] \in ToSet(ps)

\* ps is a list of env with one package of each name that lacks none of S.
Whole(ps, env, S) ==
  /\ Covers(ps, env, S)
  /\ ToSet(ps) \subseteq ToSet(env)
  /\ \A i, j \in DOMAIN ps : NameOf[ps[i]] = NameOf[ps[j]] => i = j

\* The cache is never a torn file: it has every package that was there while
\* its writer ran, nothing of another environment, and each name once, so that
\* roslib, which keeps the last package of a name, and rospack, which keeps the
\* first, read the same list; whoever wrote, read, removed or aged the file in
\* the meantime.
CacheWhole == cache.exists => Whole(cache.paths, cache.header, cache.there)

\* get_pkg never names a directory that held no package while the process
\* ran, however old or foreign the cache it uses, and "couldn't find package"
\* is the answer only for a package that was not there all the time.
AnswerHonest ==
  \A p \in Process :
    /\ answer[p].kind = "path" => answer[p].path \in seen[p]
    /\ answer[p] = NotFound =>
         \A x \in steady[p] \cap ToSet(Visible[p]) : NameOf[x] \notin wanted[p]
=============================================================================
