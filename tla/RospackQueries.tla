--------------------------- MODULE RospackQueries ---------------------------
(***************************************************************************)
(* A ROSPack object and the commands it runs (tools/rospack/rospack.cpp):  *)
(* the dependency queries with their caches in the Package objects, over a *)
(* package list that get_pkg may replace in the middle of a query.         *)
(*                                                                         *)
(* First the crawl is made, step by step: the disk does not change while   *)
(* a process runs, so every crawl of a command gives the list of this one. *)
(*                                                                         *)
(* Besides the fields that RospackCrawl needs a world w has                *)
(*   w.cached   was the list loaded from the cache file, and which         *)
(*   w.cache    directories did it hold (some may have gone)               *)
(*   w.depend   w.depend[d]: names in the <depend> elements of d's         *)
(*              manifest, or of what TinyXML keeps of it if it is broken;  *)
(*              "noattr" is an element without its attribute               *)
(*   w.below    w.below[d]: the directories whose path begins with that of d *)
(*   w.stackxml the directories with a stack.xml                           *)
(*   w.broken   packages whose manifest does not parse, and which of them  *)
(*   w.rootless leave TinyXML not even a root element                      *)
(*   w.exports  packages that export something                             *)
(*   w.disabled packages named in ROS_LANG_DISABLE                         *)
(*   w.tool     "rospack", or "rosstack" in the worlds of RosstackQueries   *)
(*   w.cwd      the package that rospack is called in, or ""               *)
(*                                                                         *)
(* The whole memory of a ROSPack object is one record m; an operator that  *)
(* may change it or throw returns [m |-> memory, err |-> "none" or what    *)
(* was thrown, val |-> its value].                                         *)
(***************************************************************************)
EXTENDS RospackCrawl, FiniteSets

CONSTANTS
  Cmds,          \* bound: the command lines that are modelled
  MaxDepth,      \* MAX_DEPENDENCY_TREE_DEPTH
  MaxCommands    \* bound: commands that one object runs

VARIABLES
  mem,   \* the memory of the object
  cmd,   \* the last command line
  out,   \* what it printed
  err,   \* what was thrown
  ran    \* count of commands; -1 before the constructor has run

commands == <<mem, cmd, out, err, ran>>
vars == <<crawlVars, commands>>

Fine(m, v) == [m |-> m, err |-> "none", val |-> v]
Throw(m, e) == [m |-> m, err |-> e, val |-> <<>>]

\* What follows r, unless r threw.
Then(r, Op(_, _)) == IF r.err = "none" THEN Op(r.m, r.val) ELSE r

-----------------------------------------------------------------------------
(* Package objects.  One is known by its directory, its name and the crawl *)
(* that created it; objects of an earlier crawl live on in deleted_pkgs.   *)

New(gen, d, n) == [gen |-> gen, dir |-> d, name |-> n]

Blank == [failed |-> FALSE, dd |-> <<>>, ddDone |-> FALSE, deps |-> <<>>, depsDone |-> FALSE,
          desc |-> <<>>, descDone |-> FALSE]

Obj(m, p) == IF p \in DOMAIN m.obj THEN m.obj[p] ELSE Blank

Put(m, p, o) == [m EXCEPT !.obj = (p :> o) @@ @]

\* crawl_for_packages(true): the list is new, crawled is set at the end.
NewList(w, m, c) ==
  [m EXCEPT !.gen = @ + 1, !.crawled = c.err = "none",
            !.pkgs = [i \in DOMAIN c.pkgs |-> New(m.gen + 1, c.pkgs[i], w.name[c.pkgs[i]])]]

Crawled(w, m, c) == [m |-> NewList(w, m, c), err |-> c.err, val |-> c]

CrawlResult == [pkgs |-> packages, duplicates |-> duplicates, err |-> failure]

Recrawl(w, m) == Crawled(w, m, CrawlResult)

\* "profile --zombie-only": the topmost directories without a package.
Zombies(w) ==
  LET zombies == {p.dir : p \in {x \in ToSet(profile) : x.zombie}}
  IN {d \in zombies \ w.stackxml : ~\E z \in zombies : d # z /\ d \in w.below[z]}

\* cacheFile is for rosstack: is there a cache file?
EmptyMemory == [gen |-> 0, crawled |-> FALSE, obj |-> <<>>, pkgs |-> <<>>, cacheFile |-> FALSE]

\* The constructor loads the cache file or crawls.
Construct(w) ==
  LET m == EmptyMemory
  IN IF w.cached
     THEN Fine([m EXCEPT !.pkgs = [i \in DOMAIN w.cache |-> New(0, w.cache[i], w.name[w.cache[i]])]], <<>>)
     ELSE Recrawl(w, m)

\* One of the packages that were found
Select(m, found, kind) ==
  IF found = {} THEN Throw(m, kind) ELSE Fine(m, CHOOSE p \in found : TRUE)

Called(m, n) == {p \in ToSet(m.pkgs) : p.name = n}

\* Fault: the list is believed whatever has changed on the disk.
GetPkgListed(w, m, n) == Select(m, Called(m, n), "couldn't find package")

\* A package that is not in the list, or has gone from the disk since the
\* cache was written, makes rospack crawl, once.
GetPkg(w, m, n) ==
  IF m.crawled \/ \E p \in Called(m, n) : p.dir \in w.package
  THEN Select(m, {p \in Called(m, n) : m.crawled \/ p.dir \in w.package}, "couldn't find package")
  ELSE Then(Recrawl(w, m), LAMBDA m1, c : Select(m1, Called(m1, n), "couldn't find package"))

Unparsed(w, p) == p.dir \notin w.package \ w.broken

\* manifest_root: a manifest that cannot be parsed is an error once.  After that
\* (manifest_loaded) the object makes do with what the parser has kept, if that
\* has a root element.
ManifestRoot(w, m, p) ==
  IF ~Unparsed(w, p) THEN Fine(m, <<>>)
  ELSE IF ~Obj(m, p).failed
  THEN Throw(Put(m, p, [Obj(m, p) EXCEPT !.failed = TRUE]), "error parsing manifest file")
  ELSE IF p.dir \in w.package \ w.rootless THEN Fine(m, <<>>)
  ELSE Throw(m, "error parsing manifest file")

\* One dependency of p, which r has looked up
Depend(p, r, warn) ==
  IF r.err = "none" THEN Fine(Put(r.m, p, [Obj(r.m, p) EXCEPT !.dd = Append(@, r.val)]), <<>>)
  ELSE IF warn THEN Fine(r.m, <<>>)
  ELSE Throw(r.m, "missing dependency")

RECURSIVE AddDirect(_, _, _, _, _)
AddDirect(w, m, p, rest, warn) ==
  IF rest = <<>> THEN Fine(Put(m, p, [Obj(m, p) EXCEPT !.ddDone = TRUE]), Obj(m, p).dd)
  ELSE IF Head(rest) = "noattr" THEN Throw(m, "invalid manifest")
  ELSE IF Head(rest) = p.name THEN Throw(m, "self-dependency")
  ELSE Then(Depend(p, GetPkg(w, m, Head(rest)), warn),
            LAMBDA m1, v : AddDirect(w, m1, p, Tail(rest), warn))

\* Fault: a list that is not empty is taken for complete.
DirectDepsPartial(w, m, p, warn) ==
  IF Obj(m, p).ddDone \/ Obj(m, p).dd # <<>> THEN Fine(m, Obj(m, p).dd)
  ELSE Then(ManifestRoot(w, m, p), LAMBDA m1, v : AddDirect(w, m1, p, w.depend[p.dir], warn))

\* direct_deps: what an exception leaves in _direct_deps stays there.
DirectDeps(w, m, p, warn) ==
  IF Obj(m, p).ddDone THEN Fine(m, Obj(m, p).dd)
  ELSE Then(ManifestRoot(w, m, p), LAMBDA m1, v : AddDirect(w, m1, p, w.depend[p.dir], warn))

\* Fault: what is there already moves to the back in either order.
MergeBump(order, have, p) ==
  IF Contains(have, p) THEN Append(RemoveFirst(have, p), p) ELSE Append(have, p)

\* In preorder what is there already moves to the back.
Merge(order, have, p) ==
  IF ~Contains(have, p) THEN Append(have, p)
  ELSE IF order = "pre" THEN Append(RemoveFirst(have, p), p)
  ELSE have

\* have with the dependency d and those of d, which are v
WithDeps(have, d, v, order) ==
  LET front == have \o (IF order = "pre" THEN <<d>> ELSE <<>>)
      merged == FoldLeft(LAMBDA acc, x : Merge(order, acc, x), front, v)
  IN IF order = "post" /\ ~Contains(merged, d) THEN Append(merged, d) ELSE merged

RECURSIVE Deps(_, _, _, _, _), CollectDeps(_, _, _, _, _, _)
CollectDeps(w, m, p, rest, order, depth) ==
  IF rest = <<>> THEN Fine(Put(m, p, [Obj(m, p) EXCEPT !.depsDone = TRUE]), Obj(m, p).deps)
  ELSE Then(Deps(w, m, Head(rest), order, depth + 1),
         LAMBDA m1, v :
           CollectDeps(w, Put(m1, p, [Obj(m1, p) EXCEPT !.deps = WithDeps(@, Head(rest), v, order)]),
                       p, Tail(rest), order, depth))

\* Package::deps; _deps is not cleared and remembers no order.
Deps(w, m, p, order, depth) ==
  IF depth > MaxDepth THEN Throw(m, "circular dependency")
  ELSE IF Obj(m, p).depsDone THEN Fine(m, Obj(m, p).deps)
  ELSE Then(DirectDeps(w, m, p, FALSE), LAMBDA m1, v : CollectDeps(w, m1, p, v, order, depth))

\* Fault: a missing dependency is an error here, too.
HasParentStrict(w, m, p, n) ==
  [DirectDeps(w, m, p, FALSE) EXCEPT !.val = n \in {@[i].name : i \in DOMAIN @}]

HasParent(w, m, p, n) ==
  [DirectDeps(w, m, p, TRUE) EXCEPT !.val = n \in {@[i].name : i \in DOMAIN @}]

Collect(have, new, r) == Fine(r.m, IF r.val THEN have \o new ELSE have)

\* descendants1 goes through a copy of the list and ignores exceptions.
Descendants1(w, m, p) ==
  FoldLeft(LAMBDA acc, q : Collect(acc.val, <<q>>, HasParent(w, acc.m, q, p.name)),
           Fine(m, <<>>), m.pkgs)

OncePerName(pkgs) ==
  FoldLeft(LAMBDA acc, q : IF \E i \in DOMAIN acc : acc[i].name = q.name THEN acc ELSE Append(acc, q),
           <<>>, pkgs)

DescendantsDone(r, p, all) ==
  Fine(Put(r.m, p, [Obj(r.m, p) EXCEPT !.desc = OncePerName(all), !.descDone = TRUE]),
       OncePerName(all))

\* descendants calls itself for every child it finds; r says whether q is one.
RECURSIVE Descendants(_, _, _, _), Child(_, _, _, _, _)
Child(w, have, q, r, depth) ==
  IF ~r.val THEN Fine(r.m, have)
  ELSE LET below == Descendants(w, r.m, q, depth + 1)
       IN Fine(below.m, Append(have, q) \o below.val)

Descendants(w, m, p, depth) ==
  IF depth > MaxDepth THEN Throw(m, "circular dependency")
  ELSE IF Obj(m, p).descDone THEN Fine(m, Obj(m, p).desc)
  ELSE LET all == FoldLeft(LAMBDA acc, q :
                             Child(w, acc.val, q, HasParent(w, acc.m, q, p.name), depth),
                           Fine(m, <<>>), m.pkgs)
       IN DescendantsDone(all, p, all.val)

\* accumulate_deps: all chains; nothing bounds the recursion but the stack.
RECURSIVE Chains(_, _, _, _, _)
Chains(w, m, p, to, depth) ==
  IF depth > MaxDepth THEN Throw(m, "stack overflow")
  ELSE Then(DirectDeps(w, m, p, FALSE), LAMBDA m1, dd :
         FoldLeft(LAMBDA acc, d :
           IF acc.err = "none" /\ d.name = to THEN Fine(acc.m, Append(acc.val, <<p.name, to>>))
           ELSE Then(acc, LAMBDA m2, have :
             Then(Chains(w, m2, d, to, depth + 1), LAMBDA m3, v :
               Fine(m3, have \o [i \in DOMAIN v |-> <<p.name>> \o v[i]]))),
           Fine(m1, <<>>), dd))

\* cmd_depsindent, without the indentation
RECURSIVE DepsIndent(_, _, _, _)
DepsIndent(w, m, p, depth) ==
  IF depth > MaxDepth THEN Throw(m, "stack overflow")
  ELSE Then(DirectDeps(w, m, p, FALSE), LAMBDA m1, dd :
         FoldLeft(LAMBDA acc, d :
           Then(acc, LAMBDA m2, have :
             Then(DepsIndent(w, m2, d, depth + 1), LAMBDA m3, v : Fine(m3, have \o <<d>> \o v))),
           Fine(m1, <<>>), dd))

-----------------------------------------------------------------------------
(* Commands.                                                               *)

Nowhere == "nowhere"

\* What run() accepts: which option goes with which command.
Valid(c) ==
  /\ c.target # "" <=> c.op = "depends-why"
  /\ c.zombieOnly => c.op = "profile"
  /\ c.top # "" => c.op = "plugins"
  /\ c.lang # "" <=> c.op = "export"
  /\ c.attrib # "" <=> c.op \in {"export", "plugins"}
  /\ c.depsOnly => c.op \in {"export", "cflags-only-I", "libs-only-l"}
  /\ c.pkg # "" => c.op \notin {"list", "list-duplicates", "langs", "profile"}

\* direct_flags: what a package exports, if it does.
Exporting(w, pkgs) == SelectSeq(pkgs, LAMBDA q : q.dir \in w.exports)

\* Package::flags
Flags(w, m, p, depsOnly) ==
  LET r == Deps(w, m, p, "pre", 0)
  IN [r EXCEPT !.val = (IF depsOnly THEN <<>> ELSE <<p>>) \o Exporting(w, @)]

\* rosdep and vcs read the manifests of the package and of all it depends on.
Manifests(w, m, p) ==
  Then(ManifestRoot(w, m, p), LAMBDA m1, v :
    [Deps(w, m1, p, "post", 0) EXCEPT !.val = <<p>> \o @])

\* A command about the package p, with p already found.
Query(w, m, c, p) ==
  CASE c.op = "find" -> Fine(m, <<p>>)
    [] c.op \in {"depends", "depends-manifests"} -> Deps(w, m, p, "post", 0)
    [] c.op = "depends1" -> DirectDeps(w, m, p, FALSE)
    [] c.op = "depends-indent" -> DepsIndent(w, m, p, 0)
    [] c.op \in {"rosdep", "vcs"} -> Manifests(w, m, p)
    [] c.op \in {"export", "cflags-only-I", "libs-only-l"} -> Flags(w, m, p, c.depsOnly)

\* Of the package that was looked up, or a made-up one in its place.
DependsOnFound(w, c, r) ==
  LET ghost == New(r.m.gen, Nowhere, c.pkg)
      m == IF r.err = "none" THEN r.m ELSE [r.m EXCEPT !.pkgs = Append(@, ghost)]
      p == IF r.err = "none" THEN r.val ELSE ghost
  IN IF c.op = "depends-on" THEN Descendants(w, m, p, 0) ELSE Descendants1(w, m, p)

\* depends-on crawls first.
DependsOn(w, m, c) ==
  IF c.pkg = "" THEN Throw(m, "no package name given")
  ELSE Then(Recrawl(w, m), LAMBDA m1, v : DependsOnFound(w, c, GetPkg(w, m1, c.pkg)))

DependsWhy(w, m, c) ==
  Then(GetPkg(w, m, c.pkg), LAMBDA m1, from :
    Then(GetPkg(w, m1, c.target), LAMBDA m2, to : Chains(w, m2, from, to.name, 0)))

\* The names that --top allows, with top looked up
TopNames(w, m, c) ==
  IF c.top = "" THEN Fine(m, {})
  ELSE Then(GetPkg(w, m, c.top), LAMBDA m1, top :
         Then(Deps(w, m1, top, "post", 0), LAMBDA m2, deps :
           Fine(m2, {c.top} \cup {d.name : d \in ToSet(deps)})))

\* Packages that depend directly on p, and p, if they export for p and are
\* below the package of --top.
Plugins(w, m, c, p) ==
  Then(TopNames(w, m, c), LAMBDA m1, names :
    Then(Descendants1(w, m1, p), LAMBDA m2, desc :
      LET all == SelectSeq(Append(desc, p), LAMBDA q : names = {} \/ q.name \in names)
      IN Then(IF Contains(all, p) THEN ManifestRoot(w, m2, p) ELSE Fine(m2, <<>>),
              LAMBDA m3, root : Fine(m3, Exporting(w, all)))))

Langs(w, m) ==
  Then(GetPkg(w, m, "roslang"), LAMBDA m1, p :
    [Descendants1(w, m1, p) EXCEPT !.val = SelectSeq(@, LAMBDA q : q.name \notin w.disabled)])

\* run() with the command line c, after the package was defaulted
ExecuteOn(w, m, c) ==
  CASE c.op = "list" -> Fine(m, m.pkgs)
    [] c.op = "langs" -> Langs(w, m)
    [] c.op \in {"list-duplicates", "profile"} ->
         Then(Recrawl(w, m), LAMBDA m1, crawl :
           Fine(m1, IF c.op = "profile" THEN SetToSeq(Zombies(w)) ELSE crawl.duplicates))
    [] c.op \in {"depends-on", "depends-on1"} -> DependsOn(w, m, c)
    [] c.op = "depends-why" -> DependsWhy(w, m, c)
    [] OTHER ->
         Then(GetPkg(w, m, c.pkg), LAMBDA m1, p :
           IF c.op = "plugins" THEN Plugins(w, m1, c, p) ELSE Query(w, m1, c, p))

Execute(w, m, c) ==
  IF ~Valid(c) THEN Throw(m, "usage")
  ELSE ExecuteOn(w, m, [c EXCEPT !.pkg = IF @ = "" THEN w.cwd ELSE @])

-----------------------------------------------------------------------------
(* What is true of a world.                                                *)

\* Directories that can be reached from the roots, or from below d.
Inside(w, dirs) ==
  LET f[k \in 0 .. Cardinality(DOMAIN w.sub)] ==
        IF k = 0 THEN dirs
        ELSE LET S == f[k - 1] IN S \cup UNION {Below(w, d) : d \in S}
  IN f[Cardinality(DOMAIN w.sub)]

KeptRoots(w) ==
  {i \in DOMAIN w.roots : i = 1 \/ w.roots[i] \in w.package \/ w.roots[i] \notin w.nosubdirs}

\* A world with these facts, so that they are computed once; w.where[n] is the
\* package n that the order of the roots selects.
Facts(w) ==
  LET inside == [d \in DOMAIN w.sub |-> Inside(w, {d})]
      found == UNION {inside[w.roots[i]] : i \in KeptRoots(w)} \cap w.package
      names == {w.name[d] : d \in found}
      root == [d \in found |-> Min({i \in KeptRoots(w) : d \in inside[w.roots[i]]})]
      where == [n \in names |-> CHOOSE d \in found :
                  /\ w.name[d] = n
                  /\ \A e \in found : w.name[e] = n => root[d] <= root[e]]
  IN w @@ [inside |-> inside, found |-> found, names |-> names, where |-> where,
           depends |-> [n \in names |-> IF where[n] \in w.rootless THEN {} ELSE ToSet(w.depend[where[n]])]]

Names(w) == w.names

Depends(w, n) == IF n \in w.names THEN w.depends[n] ELSE {}

\* A manifest from which dependencies can be read, once it has been parsed.
Readable(w, n) ==
  /\ n \in w.names
  /\ "noattr" \notin Depends(w, n)
  /\ w.tool = "rospack" => n \notin Depends(w, n)

Closure(S, Succ(_), limit) ==
  LET f[k \in 0 .. limit] ==
        IF k = 0 THEN S ELSE LET T == f[k - 1] IN T \cup UNION {Succ(x) : x \in T}
  IN f[limit]

-----------------------------------------------------------------------------
NoCmd == [op |-> "none", pkg |-> "", target |-> "", top |-> "", lang |-> "", attrib |-> "",
          depsOnly |-> FALSE, zombieOnly |-> FALSE]

\* No process has begun.
NotStarted == mem = EmptyMemory /\ cmd = NoCmd /\ out = <<>> /\ err = "none" /\ ran = -1

Init == CrawlInit /\ NotStarted

Crawl == CrawlNext /\ UNCHANGED commands

\* The constructor
Start ==
  /\ CrawlEnded /\ ran = -1
  /\ mem' = Construct(world).m
  /\ err' = Construct(world).err
  /\ ran' = 0
  /\ UNCHANGED <<crawlVars, cmd, out>>

\* A command; it is profile only if the crawl is profiled.
Run ==
  /\ ran \in 0 .. MaxCommands - 1
  /\ ran = 0 => err = "none"        \* the constructor may have thrown
  /\ err # "stack overflow"
  /\ \E c \in {x \in Cmds : x.op = "profile" => world.profile} :
       LET r == Execute(world, mem, c)
       IN /\ cmd' = c
          /\ mem' = r.m
          /\ err' = r.err
          /\ out' = IF r.err = "none" THEN r.val ELSE <<>>
          /\ ran' = ran + 1
  /\ UNCHANGED crawlVars

Next == Crawl \/ Start \/ Run

Spec == Init /\ [][Next]_vars
-----------------------------------------------------------------------------
(* What the answers are compared with.                                    *)

AllDepends(w, n) ==
  LET Succ(x) == Depends(w, x) \cap Names(w)
  IN Closure(Succ(n), Succ, Cardinality(Names(w)))

\* Those that the parser has kept are possible users only.
PossibleUsers(w, n) == {q \in Names(w) : Readable(w, q) /\ n \in Depends(w, q)}

Users(w, n) == {q \in PossibleUsers(w, n) : w.where[q] \notin w.broken}

AllUsers(w, n, Of(_, _)) ==
  LET Succ(x) == Of(w, x) IN Closure(Of(w, n), Succ, Cardinality(Names(w)))

Subject == IF cmd.pkg = "" THEN world.cwd ELSE cmd.pkg

Answered(ops) == err = "none" /\ cmd.op \in ops

Printed == {out[i].name : i \in DOMAIN out}

-----------------------------------------------------------------------------
(* Properties.                                                             *)

\* "rospack depends" and "depends-indent" (rospack.cpp:157) print exactly what
\* can be reached from the package, whatever the object was asked before,
\* which of its caches are filled or half filled, and whether the list was
\* replaced in the middle.  The first query of a process lists a package after
\* all it depends on; the first request for flags (rospack.cpp:212) puts them
\* before those of what it depends on, as a linker wants it.
DependsRight ==
  /\ Answered({"depends", "depends-indent"}) => Printed = AllDepends(world, Subject)
  /\ Answered({"depends"}) /\ ran = 1 =>
       \A i \in DOMAIN out : \A n \in Depends(world, out[i].name) \cap Names(world) :
         \E j \in 1 .. i - 1 : out[j].name = n
  /\ Answered({"export"}) /\ ran = 1 =>
       \A i, j \in DOMAIN out :
         out[j].name \in AllDepends(world, out[i].name) =>
           \E k \in i + 1 .. Len(out) : out[k].name = out[j].name

\* depends-on1 (rospack.cpp:314) finds exactly the packages whose manifests parse
\* and name the package, in a tree with missing, broken and circular dependencies,
\* too. depends-on (:338) finds all that lead to it so, and besides only packages
\* with a broken manifest, for what the parser has kept of it, and their users:
\* the search looks at a manifest again and again, and it is an error only once.
\* depends-why (:666) prints every chain from one package to another.  Plugins
\* (:265) are those of the package and its users, nothing that --top excludes; all
\* of them when the list was no cached one to begin with.
UsersRight ==
  /\ Answered({"depends-on"}) =>
       /\ AllUsers(world, Subject, Users) \subseteq Printed
       /\ Printed \subseteq AllUsers(world, Subject, PossibleUsers)
  /\ Answered({"depends-on1"}) => Printed = Users(world, Subject)
  /\ Answered({"depends-why"}) =>
       ToSet(out) =
         {s \in UNION {TupleOf(Names(world), k) : k \in 2 .. Cardinality(Names(world))} :
            /\ s[1] = Subject
            /\ \A i \in DOMAIN s \ {1} : s[i] = cmd.target <=> i = Len(s)
            /\ \A i \in 1 .. Len(s) - 1 : s[i + 1] \in Depends(world, s[i])}
  /\ Answered({"plugins"}) =>
       LET Offered(users) ==
             {n \in users \cup {Subject} :
                /\ n \in world.names /\ world.where[n] \in world.exports
                /\ cmd.top = "" \/ n \in AllDepends(world, cmd.top) \cup {cmd.top}}
       IN /\ Printed \subseteq Offered(PossibleUsers(world, Subject))
          /\ ~world.cached => Offered(Users(world, Subject)) \subseteq Printed

\* What is thrown is so: there is a circle, a dependency or a package that does not
\* exist, or a manifest that does not parse, be it that of a package that was made
\* up by an earlier depends-on (rospack.cpp:864). For such a manifest rosstack has
\* removed the cache file (rosstack.cpp:376).
ErrorsJustified ==
  LET asked == {Subject, cmd.top}
      reached == asked \cup UNION {AllDepends(world, n) : n \in asked}
      Satisfied(n) == Depends(world, n) \ {"noattr"} \subseteq Names(world)
  IN /\ err \in {"circular dependency", "stack overflow"} =>
          \E n \in Names(world) : n \in AllDepends(world, n)
     /\ err = "missing dependency" => \E n \in reached : ~Satisfied(n)
     /\ err = "error parsing manifest file" =>
          /\ \E n \in reached \ {""} :
               n \in Names(world) => world.where[n] \in world.broken \/ ~Satisfied(n)
          /\ ~mem.cacheFile
     /\ err \in {"couldn't find package", "couldn't find stack"} =>
          \/ ~({Subject, cmd.target, cmd.top} \ {""} \subseteq Names(world))
          \/ cmd.op = "langs" /\ "roslang" \notin Names(world)
          \/ cmd.op = "contains" /\ Subject \notin DOMAIN world.pkgroot
          \/ Subject = ""

\* After a crawl the list holds every name that can be found, each in the
\* first of the roots that has it, and a directory that "profile --zombie-only"
\* offers for removal (the usage calls it one without manifests) has no package
\* below it, not even a duplicate.
CrawlRight ==
  /\ mem.crawled =>
       {p \in ToSet(mem.pkgs) : p.dir # Nowhere}
         = {New(mem.gen, world.where[n], n) : n \in world.names}
  /\ Answered({"profile"}) =>
       \A i \in DOMAIN out : Inside(world, {out[i]}) \cap world.package = {}
=============================================================================
