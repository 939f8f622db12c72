---------------------------- MODULE RoslibListing ----------------------------
(***************************************************************************)
(* The third and fourth crawl of the repository, next to those of rospack  *)
(* and rosstack: list_pkgs_by_path of core/roslib/src/roslib/packages.py   *)
(* and list_stacks_by_path of stacks.py, which walk through one directory. *)
(* A Python process that wants all packages calls them for one root after  *)
(* the other, with the same list and cache.                                *)
(*                                                                         *)
(* The world has one more field: w.links, pairs <<d, s>> where the entry s *)
(* of d is a symbolic link.  The files rospack_nosubdirs and               *)
(* rosstack_nosubdirs are taken to be in the same directories.             *)
(***************************************************************************)
EXTENDS RosstackQueries

CONSTANT MaxLinks   \* how many links the system follows in one path

\* Of .svn and .git only one is left out.
WithoutVersions(w, d) ==
  LET first == IF \E s \in ToSet(w.sub[d]) : w.name[s] = ".svn" THEN ".svn" ELSE ".git"
  IN SelectSeq(w.sub[d], LAMBDA s : w.name[s] # first)

\* Hidden directories are removed from the list that the loop goes through:
\* the one after a removed one is never looked at.
WithoutHidden(w, d) ==
  FoldLeft(LAMBDA c, s : IF s \in w.hidden /\ ~c.shifted
                         THEN [c EXCEPT !.shifted = TRUE]
                         ELSE [dirs |-> Append(c.dirs, s), shifted |-> FALSE],
           [dirs |-> <<>>, shifted |-> FALSE], w.sub[d]).dirs

\* c.list has a name once, c.at is the cache.
Found(w, c, d) ==
  IF w.name[d] \in ToSet(c.list) THEN c
  ELSE [list |-> Append(c.list, w.name[d]), at |-> (w.name[d] :> d) @@ c.at]

\* os.walk does not follow links: the function calls itself for each, with a new
\* list and the same cache, before the walk goes on to the other directories.
\* What cannot be listed is passed over.
RECURSIVE Walk(_, _, _, _)
Walk(w, d, links, c) ==
  IF d \in w.unreadable \/ links > MaxLinks THEN c
  ELSE IF d \in w.package THEN Found(w, c, d)
  ELSE IF d \in w.leaf \cup w.nosubdirs THEN c
  ELSE LET dirs == IF w.tool = "rospack" THEN WithoutVersions(w, d) ELSE WithoutHidden(w, d)
           follow(acc, s) ==
             IF <<d, s>> \notin w.links THEN acc
             ELSE LET below == Walk(w, s, links + 1, [acc EXCEPT !.list = <<>>])
                  IN [list |-> acc.list \o below.list, at |-> below.at]
           descend(acc, s) == IF <<d, s>> \in w.links THEN acc ELSE Walk(w, s, links, acc)
       IN FoldLeft(descend, FoldLeft(follow, c, dirs), dirs)

WalkRoots(w) ==
  FoldLeft(LAMBDA c, d : Walk(w, d, 0, c), [list |-> <<>>, at |-> <<>>], w.roots)

ListPkgs(w) == WalkRoots([leaf |-> {}] @@ w)

ListStacks(w) == WalkRoots(w)

-----------------------------------------------------------------------------
\* Nothing else happens in the Python process.
List ==
  /\ ran = 0 /\ ran' = MaxCommands
  /\ cmd' = [NoCmd EXCEPT !.op = "listing"]
  /\ out' = IF world.tool = "rospack" THEN ListPkgs(world) ELSE ListStacks(world)
  /\ UNCHANGED <<crawlVars, mem, err>>

AllNext == ToolsNext \/ List

AllSpec == ToolsInit /\ [][AllNext]_vars

-----------------------------------------------------------------------------
\* roslib lists what rospack and rosstack find, and beyond that only what is in
\* hidden directories (packages.py:347, stacks.py:129).  Without links no name is
\* there twice, and a name stands for the directory that comes first in
\* ROS_PACKAGE_PATH.  A package in a directory that cannot be listed is found by
\* the others only; and rosstack takes ROS_ROOT for a stack in any case.
ListingRight ==
  Answered({"listing"}) =>
    LET secret == Inside([world EXCEPT !.hidden = {}], world.hidden)
        names == ToSet(out.list)
        found == {n \in world.names : world.where[n] \in world.package \ world.unreadable}
    IN /\ found \subseteq names
       /\ \A n \in names : n \in world.names \/ out.at[n] \in secret
       /\ world.links = {} =>
            /\ Len(out.list) = Cardinality(names)
            /\ \A n \in found : out.at[n] = world.where[n] \/ out.at[n] \in secret

\* Four crawls, one answer; and the owners of packages that rosstack prints are
\* the stacks that it lists them below.
PackagesFound == CrawlRight /\ ListingRight /\ OwnerRight
=============================================================================
