--------------------------- MODULE MCPackageLookup ---------------------------
EXTENDS PackageLookup, TLC

CONSTANTS overlay, base, nav, p1, p2, p3

\* Both directories hold a package of one name.
Names == (overlay :> nav) @@ (base :> nav)

\* p1 does not know the overlay.
Environments == [p \in Process |-> IF p = p1 THEN <<base>> ELSE <<overlay, base>>]

OneOfEach == {<<"plain", "executable">>}
=============================================================================
