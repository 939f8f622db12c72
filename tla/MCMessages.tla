----------------------------- MODULE MCMessages -----------------------------
(* nav embeds messages of geo, and geo those of std_msgs; loose does not     *)
(* say that it depends on geo.  Robot has no package roslib, whose Header is *)
(* registered all the same.                                                  *)
EXTENDS Genpy

F(pkg, type, arr, name) == [type |-> <<pkg, type>>, arr |-> arr, name |-> name]
B(type, name) == F("", type, "no", name)

Files ==
  (StdHeader :> <<B("uint32", "seq"), B("time", "stamp"), B("string", "frame_id")>>) @@
  (<<"geo", "Point">> :> <<B("float64", "x"), B("float64", "y")>>) @@
  (<<"geo", "Pose">> :> <<B("bool", "ok"), B("Point", "p"), B("string", "id"), B("int8", "n")>>) @@
  (<<"geo", "Path">> :> <<B("Header", "header"), F("", "Pose", "var", "poses"), B("int32", "n")>>) @@
  (<<"nav", "Goal">> :>
     <<F("geo", "Path", "fixed", "paths"), F("", "string", "var", "tags"),
       F("", "uint8", "var", "raw"), B("duration", "d"), F("roslib", "Header", "no", "old"),
       F("", "time", "var", "times"), F("geo", "Pose", "no", "last")>>) @@
  (<<"nav", "Pose">> :> <<F("geo", "Pose", "no", "p"), F("std_msgs", "Header", "var", "h")>>) @@
  (<<"nav", "Twice">> :> <<B("int8", "x"), B("int8", "x")>>) @@
  (<<"nav", "Bad">> :> <<B("Twice", "t")>>) @@
  (<<"nav", "Lost">> :> <<F("geo", "Gone", "no", "g")>>) @@
  (<<"nav", "Knot">> :> <<F("", "Knot", "var", "k")>>) @@
  (<<"loose", "Thing">> :> <<F("geo", "Point", "no", "p")>>)

Services ==
  (<<"nav", "Plan">> :> <<<<F("geo", "Point", "no", "to")>>, <<F("geo", "Path", "no", "path")>>>>)

Robot ==
  [packages |-> {"std_msgs", "geo", "nav", "loose"},
   direct |-> ("std_msgs" :> <<>>) @@ ("geo" :> <<"std_msgs">>) @@ ("nav" :> <<"geo", "gone">>)
              @@ ("loose" :> <<>>),
   depends |-> ("std_msgs" :> <<>>) @@ ("geo" :> <<"std_msgs">>) @@ ("loose" :> <<>>),
   files |-> Files, services |-> Services]

\* nav's dependencies are all there, and so is roslib
Whole ==
  [Robot EXCEPT !.packages = @ \cup {"roslib"},
                !.direct = [@ EXCEPT !["nav"] = <<"geo">>] @@ ("roslib" :> <<>>),
                !.depends = ("nav" :> <<"geo", "std_msgs">>) @@ ("roslib" :> <<>>) @@ @]

\* Points have grown a coordinate.
Newer ==
  [Whole EXCEPT !.files[<<"geo", "Point">>] = Append(@, B("float64", "z"))]

\* Only the standard messages, or not even these
Station(packages) ==
  [packages |-> packages, direct |-> [p \in packages |-> <<>>], depends |-> [p \in packages |-> <<>>],
   files |-> StdHeader :> Files[StdHeader], services |-> <<>>]

MCMachines == {Robot, Whole, Newer, Station({"std_msgs"}), Station({})}
MCNames == STRING
MCTargets ==
  {<<"geo", "Path">>, <<"geo", "Pose">>, <<"nav", "Goal">>, <<"nav", "Pose">>, <<"nav", "Bad">>, <<"nav", "Twice">>,
   <<"nav", "Lost">>, <<"nav", "Knot">>, <<"nav", "Plan">>, <<"loose", "Thing">>}
=============================================================================
