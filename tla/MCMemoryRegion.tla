--------------------------- MODULE MCMemoryRegion ---------------------------
(* Instances of MrPublication for TLC.                                     *)
EXTENDS MrPublication, TLC

\* Callers and connections are interchangeable.
Symmetry == Permutations(Callers) \union Permutations(Conns)
=============================================================================
