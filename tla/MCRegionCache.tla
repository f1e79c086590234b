--------------------------- MODULE MCRegionCache ---------------------------
(* The reading node for TLC: requests of a kind are interchangeable.       *)
EXTENDS RegionCache

Symmetry == Permutations(Readers) \union Permutations(Invalidators)
=============================================================================
