--------------------------- MODULE MC_Algorithms ---------------------------
(* Instances of Algorithms: three backends, one configured without a weight. *)
EXTENDS Algorithms

ThreeBackends == <<1, 2, 3>>
ThreeWeights  == <<2, 0, 1>>
=============================================================================
