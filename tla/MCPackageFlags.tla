--------------------------- MODULE MCPackageFlags ---------------------------
EXTENDS PackageFlags, TLC

CONSTANTS a, b, c, t1, t2

\* a <- b <- c, so c depends on both.
ChainDeps == (a :> {}) @@ (b :> {a}) @@ (c :> {a, b})

Symmetry == Permutations({t1, t2})
=============================================================================
