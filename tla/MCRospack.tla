------------------------------ MODULE MCRospack -----------------------------
(* The directories r1 > a1, s > (b1, n > c1), r2 > (b2, c2, l), and in some  *)
(* worlds z > z2 (a duplicate of a) below r2, or a link back to r1.          *)
EXTENDS RoslibListing

\* For rosstack: the stacks base, nav > (move, deep > move2) and ext, again base2
\* of the same name below the second root; move and amcl are packages.
Dir == {"r1", "a1", "s", "b1", "n", "c1", "r2", "b2", "c2", "l", "z", "z2", "e", "h", "h2", "k"}

Base ==
  [roots |-> <<"r1", "r2">>,
   sub |-> [d \in Dir |->
              CASE d = "r1" -> <<"s", "a1", "h">> [] d = "s" -> <<"n", "b1">>
                [] d = "n" -> <<"c1">> [] d = "r2" -> <<"b2", "z", "c2", "l">>
                [] d = "h2" -> <<"k">>
                [] d = "z" -> <<"e", "z2">> [] OTHER -> <<>>],
   below |-> [d \in Dir |->
              CASE d = "r1" -> {"s", "a1", "h", "n", "b1", "c1"} [] d = "s" -> {"n", "b1", "c1"}
                [] d = "n" -> {"c1"} [] d = "r2" -> {"b2", "z", "c2", "l", "e", "z2"}
                [] d = "z" -> {"e", "z2"} [] OTHER -> {}],
   name |-> [d \in Dir |->
              CASE d \in {"a1", "z2"} -> "a" [] d \in {"b1", "b2"} -> "b"
                [] d \in {"c1", "c2"} -> "c" [] d = "l" -> "roslang"
                [] d = "h" -> ".svn" [] d = "h2" -> ".git" [] OTHER -> d],
   package |-> {"a1", "b1", "c2", "b2", "l", "z2"}, nosubdirs |-> {"n"},
   hidden |-> {"h", "h2"}, links |-> {}, unreadable |-> {}, stackxml |-> {}, cached |-> FALSE, cache |-> <<>>,
   profile |-> FALSE, depend |-> [d \in Dir |-> <<>>], broken |-> {}, rootless |-> {}, exports |-> {"a1", "b1", "l"},
   disabled |-> {"b"}, cwd |-> "", tool |-> "rospack"]

Gone == [Base EXCEPT !.sub = [@ EXCEPT !["r2"] = <<"b2", "z", "c2">>], !.package = @ \ {"l"}]

\* What the cache file held, or no cache.
Caches == {<<>>, <<"a1", "b1", "c2", "l">>, <<"a1", "b1">>, <<"b1", "l">>}

DependA == {<<"c", "b">>, <<"b", "x", "c">>, <<"b", "roslang">>}
DependB == {<<>>, <<"c">>, <<"c", "noattr">>, <<"roslang", "b">>, <<"roslang">>}
DependC == {<<>>, <<"b">>, <<"a">>, <<"roslang", "x">>}

Trees ==
  {[Base EXCEPT !.depend = [@ EXCEPT !["a1"] = da, !["b1"] = db, !["c2"] = dc],
                !.cached = cache # <<>>, !.cache = cache, !.cwd = "b"] :
     da \in DependA, db \in DependB, dc \in DependC, cache \in Caches}

Special ==
  {[Base EXCEPT !.stackxml = {"z"}, !.unreadable = {"s"}],
   [Base EXCEPT !.package = @ \cup {"s"}, !.nosubdirs = @ \cup {"r2"}],
   [Base EXCEPT !.sub = [@ EXCEPT !["r1"] = <<"s", "h", "h2", "a1">>], !.package = @ \cup {"k"}],
   [Base EXCEPT !.sub = [@ EXCEPT !["s"] = <<"b1", "l">>, !["r2"] = <<"b2", "c2", "b1">>],
                !.links = {<<"s", "l">>, <<"r2", "b1">>}],
   [Base EXCEPT !.sub = [@ EXCEPT !["s"] = <<"b1", "r1">>], !.links = {<<"s", "r1">>}],
   [Base EXCEPT !.sub = [@ EXCEPT !["s"] = <<"b1", "r1">>], !.links = {<<"s", "r1">>},
                !.cached = TRUE, !.cache = <<"a1", "b1">>]}

MCWorlds ==
  {Facts(w) : w \in
     Trees
     \cup {[w EXCEPT !.package = Gone.package, !.sub = Gone.sub] :
             w \in {t \in Trees : t.depend["a1"] = <<"b", "roslang">> /\ t.cached}}
     \cup {[w EXCEPT !.broken = {"c2"}] : w \in {t \in Trees : t.depend["c2"] = <<"b">>}}
     \cup {[w EXCEPT !.broken = {"c2"}, !.rootless = {"c2"}] :
             w \in {t \in Trees : t.depend["c2"] = <<>> /\ t.depend["a1"] = <<"c", "b">> /\ ~t.cached}}
     \cup {[w EXCEPT !.broken = {"a1"}] :
             w \in {t \in Trees : t.depend["b1"] = <<"roslang">> /\ t.depend["c2"] = <<>>}}
     \cup Special
     \cup {[w EXCEPT !.profile = TRUE] :
             w \in Special \cup {t \in Trees : t.depend["a1"] = <<"c", "b">> /\ t.depend["b1"] = <<>>}}}

Cmd(op, pkg) == [NoCmd EXCEPT !.op = op, !.pkg = pkg]

MCCmds ==
  {Cmd(op, pkg) : op \in {"depends", "depends-on"}, pkg \in {"a", "b", "c"}}
    \cup {Cmd(op, "a") : op \in {"find", "depends1", "depends-indent", "rosdep", "depends-on1"}}
    \cup {Cmd(op, "") : op \in {"list", "langs", "list-duplicates", "find"}}
    \cup {[Cmd("export", "a") EXCEPT !.lang = "cpp", !.attrib = "cflags"],
          [Cmd("export", "c") EXCEPT !.lang = "cpp", !.attrib = "cflags", !.depsOnly = TRUE],
          [Cmd("depends-why", "a") EXCEPT !.target = "c"],
          [Cmd("plugins", "roslang") EXCEPT !.attrib = "x"],
          [Cmd("plugins", "roslang") EXCEPT !.attrib = "x", !.top = "c"],
          [Cmd("profile", "") EXCEPT !.zombieOnly = TRUE],
          Cmd("depends-on", "x"), Cmd("depends-on", "y"), [Cmd("find", "x") EXCEPT !.top = "a"]}

StackDir == {"r1", "base", "x1", "r2", "nav", "move", "deep", "amcl", "ext", "base2", "h", "h2"}

StackBase ==
  [roots |-> <<"r1", "r2">>, tool |-> "rosstack",
   sub |-> [d \in StackDir |->
              CASE d = "r1" -> <<"h", "h2", "base">> [] d = "base" -> <<"x1">>
                [] d = "r2" -> <<"ext", "nav", "base2", "amcl">>
                [] d = "nav" -> <<"deep">> [] d = "deep" -> <<"move">> [] OTHER -> <<>>],
   parent |-> [d \in StackDir |->
              CASE d \in {"base", "h", "h2"} -> "r1" [] d = "x1" -> "base" [] d = "move" -> "deep"
                [] d \in {"nav", "ext", "base2", "amcl"} -> "r2" [] d = "deep" -> "nav"
                [] OTHER -> "none"],
   name |-> [d \in StackDir |-> IF d = "base2" THEN "base" ELSE d],
   package |-> {"base", "nav", "ext", "base2"}, leaf |-> {"x1", "move", "amcl"},
   manifest |-> {"x1", "move", "amcl"},
   pkgroot |-> ("x1" :> "x1") @@ ("move" :> "move") @@ ("amcl" :> "amcl"),
   nosubdirs |-> {}, hidden |-> {"h", "h2"}, links |-> {}, unreadable |-> {}, stackxml |-> {},
   cached |-> FALSE, cache |-> <<>>, depend |-> [d \in StackDir |-> <<>>], broken |-> {},
   rootless |-> {}, exports |-> {}, disabled |-> {}, cwd |-> "", readonly |-> FALSE]

StackCaches == {<<>>, <<"r1", "base", "nav", "ext">>, <<"r1", "nav", "ext">>, <<"r1", "base">>}

StackTrees ==
  {[StackBase EXCEPT !.depend = [@ EXCEPT !["nav"] = dn, !["ext"] = de, !["base"] = db],
                     !.cached = cache # <<>>, !.cache = cache] :
     dn \in {<<"base">>, <<"ext", "base">>, <<"base", "gone">>}, de \in {<<>>, <<"base">>, <<"nav", "noattr">>},
     db \in {<<>>, <<"nav">>}, cache \in StackCaches}

MCStackWorlds ==
  StackTrees
    \cup {[w EXCEPT !.package = @ \ {"ext"}] : w \in {t \in StackTrees : t.cached}}
    \cup {[w EXCEPT !.broken = {"nav"}] : w \in {t \in StackTrees : t.depend["ext"] = <<"base">>}}
    \cup {[StackBase EXCEPT !.readonly = TRUE], [StackBase EXCEPT !.broken = {"base"}],
          [StackBase EXCEPT !.broken = {"base"}, !.rootless = {"base"}],
          [StackBase EXCEPT !.package = @ \cup {"h2"}],
          [StackBase EXCEPT !.sub = [@ EXCEPT !["r2"] = <<"ext", "nav", "base">>], !.links = {<<"r2", "base">>}],
          [StackBase EXCEPT !.package = @ \cup {"r2"}], [StackBase EXCEPT !.package = @ \cup {"r1", "deep"}],
          [StackBase EXCEPT !.nosubdirs = {"r2"}], [StackBase EXCEPT !.unreadable = {"nav"}, !.pkgroot = ("x1" :> "x1")]}

MCStackCmds ==
  {Cmd(op, n) : op \in {"depends", "depends1", "depends-on", "contents", "find"}, n \in {"base", "nav", "ext"}}
    \cup {Cmd("contains", n) : n \in {"x1", "move", "amcl", "gone"}}
    \cup {Cmd("list", ""), Cmd("depends-on", "gone"), Cmd("find", "gone")}
=============================================================================
