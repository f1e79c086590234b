---------------------------- MODULE MCCoherence ----------------------------
(* Two guards of one node and one of another.                              *)
EXTENDS Coherence, TLC

CONSTANTS g1, g2, g3, n1, n2

MCNodeOf == (g1 :> n1) @@ (g2 :> n1) @@ (g3 :> n2)
=============================================================================
