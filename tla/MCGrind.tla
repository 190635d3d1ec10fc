------------------------------ MODULE MCGrind -------------------------------
(* Grind with its threads and the key they look for. *)
EXTENDS Grind

CONSTANTS w1, w2, k1
=============================================================================
