----------------------------- MODULE MCRosMake ------------------------------
(* The packages a -> b -> c, a -> c and a -> rospack; x and y depend on each *)
(* other; m depends on lost, which rospkg does not find, and lost on b.      *)
EXTENDS RosMake, TLC

CONSTANTS a, b, c, m, x, y, rospack, lost

MCPackage == {a, b, c, m, x, y, rospack, lost}
MCDeps1 == (a :> {b, c, rospack}) @@ (b :> {c}) @@ (c :> {}) @@ (m :> {c, lost})
             @@ (x :> {y}) @@ (y :> {x}) @@ (rospack :> {}) @@ (lost :> {b})
\* rospack prints nothing for packages in a circle.
MCDeps == [MCDeps1 EXCEPT ![x] = {}, ![y] = {}, ![lost] = {b, c}, ![m] = {b, c, lost}]
MCLost == {lost}
MCNoBuild == {c}
MCNoMakefile == {b}

Plain == [specified |-> {a}, extra |-> {}, stacks |-> FALSE, bootstrap |-> FALSE,
          unmark_installed |-> FALSE, rosdep_install |-> FALSE,
          specified_only |-> FALSE, pre_clean |-> FALSE, building |-> TRUE,
          testing |-> FALSE, robust |-> FALSE, best_effort |-> FALSE,
          mark_installed |-> FALSE, target |-> "none", log_dir_is_file |-> FALSE,
          no_status |-> FALSE]

MCCommands ==
  {Plain,
   [Plain EXCEPT !.specified = {}, !.log_dir_is_file = TRUE],
   [Plain EXCEPT !.specified = {}],
   [Plain EXCEPT !.specified = {}, !.stacks = TRUE, !.extra = {b, c}, !.no_status = TRUE],
   [Plain EXCEPT !.specified = {b, c}, !.unmark_installed = TRUE],
   [Plain EXCEPT !.testing = TRUE, !.mark_installed = TRUE, !.rosdep_install = TRUE,
                 !.specified = {a, b}],
   [Plain EXCEPT !.best_effort = TRUE, !.pre_clean = TRUE, !.target = "clean"],
   [Plain EXCEPT !.specified = {a, c}, !.specified_only = TRUE, !.testing = TRUE],
   [Plain EXCEPT !.building = FALSE, !.testing = TRUE, !.mark_installed = TRUE,
                 !.specified = {b, c, rospack}],
   [Plain EXCEPT !.robust = TRUE, !.specified = {m}],
   [Plain EXCEPT !.robust = TRUE, !.specified = {b, m}, !.specified_only = TRUE],
   [Plain EXCEPT !.specified = {m}],
   [Plain EXCEPT !.specified = {x}],
   [Plain EXCEPT !.target = "test", !.testing = TRUE, !.specified = {b}]}
=============================================================================
