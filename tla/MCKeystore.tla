----------------------------- MODULE MCKeystore -----------------------------
(* Keystore with its processes and secrets. *)
EXTENDS Keystore

CONSTANTS p1, p2, k1, k2, k3
=============================================================================
