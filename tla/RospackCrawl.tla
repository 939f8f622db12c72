---------------------------- MODULE RospackCrawl ----------------------------
(***************************************************************************)
(* The directory crawl of rospack (ROSPack::crawl_for_packages of          *)
(* tools/rospack/rospack.cpp), with its profiling mode: a step for every   *)
(* root, every entry of the queue and every directory that readdir finds.  *)
(*                                                                         *)
(* A world w describes what is on the disk, which does not change:         *)
(*   w.roots    the directories of ROS_ROOT and ROS_PACKAGE_PATH, in order *)
(*   w.sub      w.sub[d]: the subdirectories of d in the order of readdir  *)
(*              (a symbolic link may lead back to a parent)                *)
(*   w.name     w.name[d]: the last component of the path of d             *)
(*   w.package, w.nosubdirs, w.hidden, w.unreadable                        *)
(*              the directories with a manifest.xml, a rospack_nosubdirs,  *)
(*              a leading dot; that cannot be opened                       *)
(*   w.profile  says that the crawl is profiled                            *)
(* and, so that it is computed once,                                       *)
(*   w.inside   w.inside[d]: the directories that can be come to from d    *)
(***************************************************************************)
EXTENDS Integers, SequencesExt

CONSTANTS
  MaxDirectoryDepth,   \* MAX_DIRECTORY_DEPTH
  Worlds               \* bound: the worlds that are modelled

Directory(w) == DOMAIN w.sub

\* The subdirectories of d that are looked at.
Below(w, d) ==
  IF d \in w.package \cup w.unreadable THEN {}
  ELSE {s \in ToSet(w.sub[d]) \ w.hidden : s \in w.package \/ s \notin w.nosubdirs}

\* Nothing is said of the name, of links and of circles.
ASSUME WorldAssumption ==
  /\ MaxDirectoryDepth \in Nat
  /\ \A w \in Worlds :
       /\ w.roots \in Seq(Directory(w)) /\ w.roots # <<>>
       /\ w.sub \in [Directory(w) -> Seq(Directory(w))]
       /\ w.profile \in BOOLEAN
       /\ \A d \in Directory(w) :
            w.inside[d] = {d} \cup UNION {w.inside[s] : s \in Below(w, d)}

VARIABLES
  world,
  unqueued,     \* the roots that are not in the queue yet
  queue,        \* q, the deque of CrawlQueueEntry
  reading,      \* cqe, the entry whose directory is read
  entries,      \* what readdir has still to find there
  packages,     \* Package::pkgs, as directories
  duplicates,   \* packages whose name was there already
  total,        \* total_num_pkgs
  profile,      \* profile: the directories whose children have been crawled
  failure       \* what was thrown

crawling == <<unqueued, queue, reading, entries, packages, duplicates, total, profile, failure>>
crawlVars == <<world, crawling>>

\* CrawlQueueEntry.  start is -1 or the count of packages when the directory was
\* opened; root says which root it is below, which no program reads.
QueueEntry(d, depth, root) == [dir |-> d, depth |-> depth, start |-> -1, root |-> root]

\* Nothing will be crawled.
NotCrawling ==
  /\ unqueued = <<>> /\ queue = <<>> /\ entries = <<>>
  /\ reading = QueueEntry("none", 0, 0)
  /\ packages = <<>> /\ duplicates = <<>> /\ total = 0 /\ profile = <<>>
  /\ failure = "no crawl"

CrawlInit ==
  /\ world \in Worlds
  /\ unqueued = world.roots
  /\ queue = <<>> /\ entries = <<>>
  /\ reading = QueueEntry(world.roots[1], 0, 1)
  /\ packages = <<>> /\ duplicates = <<>> /\ total = 0 /\ profile = <<>>
  /\ failure = "none"

-----------------------------------------------------------------------------
\* ROS_ROOT is crawled in any case, another root unless it is no package and
\* must not be descended.
Kept(i) ==
  i = 1 \/ world.roots[i] \in world.package \/ world.roots[i] \notin world.nosubdirs

NextRoot == Len(world.roots) - Len(unqueued) + 1

QueueRoot ==
  /\ unqueued # <<>>
  /\ unqueued' = Tail(unqueued)
  /\ queue' = IF Kept(NextRoot) THEN Append(queue, QueueEntry(Head(unqueued), 1, NextRoot))
              ELSE queue
  /\ UNCHANGED <<world, reading, entries, packages, duplicates, total, profile, failure>>

\* add_package: the first package of a name is the one that counts.
ListPackage(d) ==
  IF \E i \in DOMAIN packages : world.name[packages[i]] = world.name[d]
  THEN duplicates' = Append(duplicates, d) /\ UNCHANGED packages
  ELSE packages' = Append(packages, d) /\ UNCHANGED duplicates

\* The loop over the queue goes on.
Visiting ==
  /\ unqueued = <<>> /\ entries = <<>> /\ queue # <<>>
  /\ failure = "none"

TooDeep ==
  /\ Visiting
  /\ Head(queue).depth > MaxDirectoryDepth
  /\ failure' = "circular directory structure"
  /\ queue' = Tail(queue)
  /\ UNCHANGED <<world, unqueued, reading, entries, packages, duplicates, total, profile>>

\* A root may itself be a package.
VisitPackage ==
  /\ Visiting
  /\ Head(queue).depth <= MaxDirectoryDepth
  /\ Head(queue).dir \in world.package
  /\ ListPackage(Head(queue).dir)
  /\ queue' = Tail(queue)
  /\ UNCHANGED <<world, unqueued, reading, entries, total, profile, failure>>

\* An entry that was put back: everything below it has been crawled.  It is a
\* zombie if no package was come across meanwhile.
Profiled ==
  /\ Visiting
  /\ Head(queue).depth <= MaxDirectoryDepth
  /\ Head(queue).dir \notin world.package
  /\ Head(queue).start # -1
  /\ profile' = Append(profile, [dir |-> Head(queue).dir, zombie |-> Head(queue).start = total])
  /\ queue' = Tail(queue)
  /\ UNCHANGED <<world, unqueued, reading, entries, packages, duplicates, total, failure>>

\* The directory is opened; when profiling, its entry is put back first.
OpenDirectory ==
  /\ Visiting
  /\ Head(queue).depth <= MaxDirectoryDepth
  /\ Head(queue).dir \notin world.package
  /\ Head(queue).start = -1
  /\ reading' = Head(queue)
  /\ entries' = IF Head(queue).dir \in world.unreadable THEN <<>> ELSE world.sub[Head(queue).dir]
  /\ queue' = (IF world.profile THEN <<[Head(queue) EXCEPT !.start = total]>> ELSE <<>>) \o Tail(queue)
  /\ UNCHANGED <<world, unqueued, packages, duplicates, total, profile, failure>>

\* Fault: the directory waits at the end of the queue.
EnqueueLast(d) ==
  queue' = queue \o <<QueueEntry(d, reading.depth + 1, reading.root)>>

\* push_front
Enqueue(d) ==
  queue' = <<QueueEntry(d, reading.depth + 1, reading.root)>> \o queue

\* One subdirectory.  Every package that is come across counts, also a duplicate.
ReadEntry ==
  /\ entries # <<>>
  /\ entries' = Tail(entries)
  /\ LET s == Head(entries)
     IN IF s \in world.hidden THEN UNCHANGED <<queue, packages, duplicates, total>>
        ELSE IF s \in world.package
        THEN ListPackage(s) /\ total' = total + 1 /\ UNCHANGED queue
        ELSE /\ IF s \in world.nosubdirs THEN UNCHANGED queue ELSE Enqueue(s)
             /\ UNCHANGED <<packages, duplicates, total>>
  /\ UNCHANGED <<world, unqueued, reading, profile, failure>>

CrawlNext ==
  QueueRoot \/ TooDeep \/ VisitPackage \/ Profiled \/ OpenDirectory \/ ReadEntry

CrawlSpec == CrawlInit /\ [][CrawlNext]_crawlVars

CrawlEnded == unqueued = <<>> /\ entries = <<>> /\ (queue = <<>> \/ failure # "none")

-----------------------------------------------------------------------------
(* Properties.                                                             *)

\* The packages that can be come to from root i
Offers(i) == IF Kept(i) THEN world.inside[world.roots[i]] \cap world.package ELSE {}

\* A crawl that ends well has missed nothing: every package that can be come to
\* has its name in the list, and of the packages of a name the list has one
\* from the first root that offers any, none twice and nothing else, although
\* directories are pushed in front of roots that wait (rospack.cpp:1933).
ListExact ==
  CrawlEnded /\ failure = "none" =>
    /\ \A i \in DOMAIN world.roots : \A d \in Offers(i) :
         \E k \in DOMAIN packages :
           /\ world.name[packages[k]] = world.name[d]
           /\ \E j \in 1 .. i : packages[k] \in Offers(j)
    /\ \A k \in DOMAIN packages : \E i \in DOMAIN world.roots : packages[k] \in Offers(i)
    /\ \A k, l \in DOMAIN packages :
         world.name[packages[k]] = world.name[packages[l]] => k = l

\* What the profile calls a zombie, which "profile --zombie-only" offers for
\* removal (rospack.cpp:1829), has no package below it, not even one that is
\* in no list because another of its name came first.
ZombiesEmpty ==
  \A k \in DOMAIN profile :
    profile[k].zombie => world.inside[profile[k].dir] \cap world.package = {}

CrawlExact == ListExact /\ ZombiesEmpty
=============================================================================
