--------------------------- MODULE RosstackQueries --------------------------
(***************************************************************************)
(* rosstack (tools/rospack/rosstack.cpp): the same queries over stacks, in *)
(* code that was copied from rospack and has diverged.  A rosstack process *)
(* runs one command.  The world is one of RospackQueries in which          *)
(*   w.package  are the directories with a stack.xml                       *)
(*   w.leaf     are the packages that are no stacks: not descended         *)
(*   w.nosubdirs are marked rosstack_nosubdirs                             *)
(*   w.readonly says that the cache file cannot be written                 *)
(*   w.parent   w.parent[d] is the directory of d, or "none"               *)
(*   w.pkgroot  the directory that rospack finds a package in              *)
(* The Stack objects of the old list are deleted by a crawl; an access to  *)
(* one after that is undefined and ends the command here.                  *)
(***************************************************************************)
EXTENDS RospackQueries

CONSTANTS
  StackWorlds,   \* bound: the worlds that rosstack is run in
  StackCmds      \* bound: its command lines

StackRoots(w) == <<w.roots[1]>> \o SelectSeq(Tail(w.roots), LAMBDA d : d \notin w.nosubdirs)

\* add_stack and add_package keep the first of every name.
AddStack(w, c, d) ==
  IF \E i \in DOMAIN c.pkgs : w.name[c.pkgs[i]] = w.name[d]
  THEN [c EXCEPT !.duplicates = Append(@, d)]
  ELSE [c EXCEPT !.pkgs = Append(@, d)]

\* What readdir of d finds.
Visible(w, d) ==
  IF d \in w.unreadable THEN <<>> ELSE SelectSeq(w.sub[d], LAMBDA s : s \notin w.hidden)

\* crawl_for_stacks has no limit of the depth and leaves packages alone.
RECURSIVE CrawlStacks(_, _, _)
CrawlStacks(w, q, c) ==
  IF q = <<>> THEN c
  ELSE IF Head(q) \in w.package THEN CrawlStacks(w, Tail(q), AddStack(w, c, Head(q)))
  ELSE IF Head(q) \in w.leaf THEN CrawlStacks(w, Tail(q), c)
  ELSE LET seen == Visible(w, Head(q))
           below == SelectSeq(seen, LAMBDA s : s \notin w.package \cup w.leaf \cup w.nosubdirs)
       IN CrawlStacks(w, Reverse(below) \o Tail(q),
            FoldLeft(LAMBDA acc, d : AddStack(w, acc, d), c,
                     SelectSeq(seen, LAMBDA s : s \in w.package)))

\* ROS_ROOT is a stack whatever it holds; a cache that cannot be written is an
\* error, after the list is complete.
RecrawlStacks(w, m) ==
  LET none == [pkgs |-> <<w.roots[1]>>, duplicates |-> <<>>, err |-> "none"]
  IN [Crawled(w, m, CrawlStacks(w, StackRoots(w), none)) EXCEPT
        !.m.cacheFile = @ \/ ~w.readonly,
        !.err = IF w.readonly THEN "failed to create tmp cache file" ELSE @]

ConstructStack(w) ==
  IF w.cached THEN [Construct(w) EXCEPT !.m.cacheFile = TRUE]
  ELSE RecrawlStacks(w, EmptyMemory)

GetStack(w, m, n) ==
  IF m.crawled \/ \E p \in Called(m, n) : p.dir \in w.package
  THEN Select(m, {p \in Called(m, n) : m.crawled \/ p.dir \in w.package}, "couldn't find stack")
  ELSE Then(RecrawlStacks(w, m), LAMBDA m1, c : Select(m1, Called(m1, n), "couldn't find stack"))

Deleted(m, p) == p.gen < m.gen

\* One dependency of p, which r has looked up
DependStack(p, r, warn) ==
  IF r.err = "none" \/ warn
  THEN IF Deleted(r.m, p) THEN Throw(r.m, "use after delete") ELSE Depend(p, r, warn)
  ELSE Throw(r.m, "missing dependency")

RECURSIVE AddDirectStacks(_, _, _, _, _)
AddDirectStacks(w, m, p, rest, warn) ==
  IF rest = <<>> THEN Fine(Put(m, p, [Obj(m, p) EXCEPT !.ddDone = TRUE]), Obj(m, p).dd)
  ELSE IF Head(rest) = "noattr" THEN Throw(m, "invalid manifest")
  ELSE Then(DependStack(p, GetStack(w, m, Head(rest)), warn),
            LAMBDA m1, v : AddDirectStacks(w, m1, p, Tail(rest), warn))

\* manifest_root of a stack: deleteCache, when the manifest cannot be parsed.
StackRoot(w, m, p) ==
  [ManifestRoot(w, m, p) EXCEPT
     !.m.cacheFile = @ /\ ~(Unparsed(w, p) /\ ~Obj(m, p).failed)]

DirectStacks(w, m, p, warn) ==
  IF Obj(m, p).ddDone THEN Fine(m, Obj(m, p).dd)
  ELSE Then(StackRoot(w, m, p), LAMBDA m1, v : AddDirectStacks(w, m1, p, w.depend[p.dir], warn))

\* Only postorder is asked for.
RECURSIVE StackDeps(_, _, _, _)
StackDeps(w, m, p, depth) ==
  IF depth > MaxDepth THEN Throw(m, "circular dependency")
  ELSE IF Obj(m, p).depsDone THEN Fine(m, Obj(m, p).deps)
  ELSE Then(DirectStacks(w, m, p, FALSE), LAMBDA m1, dd :
         Then(FoldLeft(LAMBDA acc, d :
                Then(acc, LAMBDA m2, have :
                  Then(StackDeps(w, m2, d, depth + 1), LAMBDA m3, v :
                    Fine(m3, WithDeps(have, d, v, "post")))),
                Fine(m1, <<>>), dd),
           LAMBDA m4, all :
             Fine(Put(m4, p, [Obj(m4, p) EXCEPT !.deps = all, !.depsDone = TRUE]), all)))

\* _descendants may have been filled while its own circle was followed.
RECURSIVE StackDescendants(_, _, _, _), StackChild(_, _, _, _, _, _)
StackChild(w, have, q, r, n, depth) ==
  IF n \notin {r.val[i].name : i \in DOMAIN r.val} THEN Fine(r.m, have)
  ELSE LET below == StackDescendants(w, r.m, q, depth + 1)
       IN Fine(below.m, Append(have, q) \o below.val)

StackDescendants(w, m, p, depth) ==
  IF depth > MaxDepth THEN Throw(m, "circular dependency")
  ELSE IF Obj(m, p).descDone THEN Fine(m, Obj(m, p).desc)
  ELSE LET all == FoldLeft(LAMBDA acc, q :
                    StackChild(w, acc.val, q, DirectStacks(w, acc.m, q, TRUE), p.name, depth),
                    Fine(m, <<>>), m.pkgs)
       IN DescendantsDone(all, p, Obj(all.m, p).desc \o all.val)

\* lookup_owner: the nearest directory above the package that is a stack of
\* the list or an entry of ROS_PACKAGE_PATH; the latter has no name.
Owner(w, m, n) ==
  LET bases == {p.dir : p \in ToSet(m.pkgs)} \cup ToSet(Tail(w.roots))
      up[k \in 0 .. Cardinality(DOMAIN w.sub)] ==
        IF k = 0 THEN w.parent[w.pkgroot[n]]
        ELSE LET d == up[k - 1] IN IF d = "none" \/ d \in bases THEN d ELSE w.parent[d]
      base == up[Cardinality(DOMAIN w.sub)]
  IN IF base = "none" \/ base \in ToSet(Tail(w.roots)) THEN ""
     ELSE (CHOOSE p \in ToSet(m.pkgs) : p.dir = base).name

\* Fault: only the directory of the stack is looked at.
ContentsShallow(w, p) == SelectSeq(Visible(w, p.dir), LAMBDA d : d \in w.manifest)

\* partial_crawl of rospack, for the packages of one stack: like the crawl, but
\* neither is the directory itself looked at nor is there a limit of the depth.
RECURSIVE PartialCrawl(_, _, _)
PartialCrawl(w, q, c) ==
  IF q = <<>> THEN c.pkgs
  ELSE LET seen == Visible(w, Head(q))
           below == SelectSeq(seen, LAMBDA s : s \notin w.manifest \cup w.nosubdirs)
       IN PartialCrawl(w, Reverse(below) \o Tail(q),
            FoldLeft(LAMBDA acc, d : AddStack(w, acc, d), c,
                     SelectSeq(seen, LAMBDA s : s \in w.manifest)))

\* contents: the packages below the stack
Contents(w, p) == PartialCrawl(w, <<p.dir>>, [pkgs |-> <<>>, duplicates |-> <<>>])

\* Of the stack that was looked up, or a made-up one in its place.
UsersOfFound(w, c, m, r) ==
  LET ghost == New(m.gen, Nowhere, c.pkg)
  IN IF r.err = "none" THEN StackDescendants(w, m, r.val, 0)
     ELSE StackDescendants(w, [m EXCEPT !.pkgs = Append(@, ghost)], ghost, 0)

StackDependsOn(w, m, c) ==
  Then(RecrawlStacks(w, m), LAMBDA m1, v : UsersOfFound(w, c, m1, GetStack(w, m1, c.pkg)))

ExecuteStack(w, m, c) ==
  CASE c.op = "list" -> Fine(m, m.pkgs)
    [] c.op = "depends-on" -> StackDependsOn(w, m, c)
    [] c.op = "contains" ->
         IF c.pkg \in DOMAIN w.pkgroot THEN Fine(m, Owner(w, m, c.pkg))
         ELSE Throw(m, "couldn't find package")
    [] OTHER ->
         Then(GetStack(w, m, c.pkg), LAMBDA m1, p :
           CASE c.op = "find" -> Fine(m1, <<p>>)
             [] c.op = "contents" -> Fine(m1, Contents(w, p))
             [] c.op = "depends1" -> DirectStacks(w, m1, p, FALSE)
             [] c.op = "depends" -> StackDeps(w, m1, p, 0))

-----------------------------------------------------------------------------
\* As Facts; ROS_ROOT is always found.
StackFacts(w) ==
  LET found == (Inside([w EXCEPT !.package = @ \cup w.leaf], ToSet(StackRoots(w))) \cap w.package)
                 \cup {w.roots[1]}
      names == {w.name[d] : d \in found}
      root == [d \in found |-> Min({i \in DOMAIN w.roots : d \in Inside(w, {w.roots[i]})})]
      where == [n \in names |-> CHOOSE d \in found :
                  /\ w.name[d] = n
                  /\ \A e \in found : w.name[e] = n => root[d] <= root[e]]
  IN w @@ [found |-> found, names |-> names, where |-> where,
           depends |-> [n \in names |-> IF where[n] \in w.rootless THEN {} ELSE ToSet(w.depend[where[n]])]]

InitStack ==
  /\ world \in {StackFacts(w) : w \in StackWorlds}
  /\ NotCrawling
  /\ mem = ConstructStack(world).m
  /\ err = ConstructStack(world).err
  /\ cmd = NoCmd
  /\ out = <<>>
  /\ ran = 0

RunStack ==
  /\ world.tool = "rosstack"
  /\ ran = 0 /\ err = "none"
  /\ \E c \in StackCmds :
       LET r == ExecuteStack(world, mem, c)
       IN /\ cmd' = c
          /\ mem' = r.m
          /\ err' = r.err
          /\ out' = IF r.err = "none" THEN r.val ELSE <<>>
          /\ ran' = 1
  /\ UNCHANGED crawlVars

ToolsInit == Init \/ InitStack

ToolsNext == (world.tool = "rospack" /\ Next) \/ RunStack

ToolsSpec == ToolsInit /\ [][ToolsNext]_vars
-----------------------------------------------------------------------------
\* The two commands that relate stacks and packages (rosstack.cpp:552, :609)
\* agree: the stack that "contains" prints for a package lists it among its
\* "contents", and a package without an owner is in the contents of no stack,
\* other than those that are entries of ROS_PACKAGE_PATH: they own nothing.
OwnerRight ==
  Answered({"contains"}) =>
    LET holders == {p \in ToSet(mem.pkgs) : world.pkgroot[cmd.pkg] \in ToSet(Contents(world, p))}
    IN IF out = "" THEN \A p \in holders : p.dir \in ToSet(Tail(world.roots))
       ELSE \E p \in holders : p.name = out

=============================================================================
