------------------------------- MODULE MCInit -------------------------------
(* InitCommand with its processes, secrets and threads. *)
EXTENDS InitCommand

CONSTANTS p1, p2, k1, k2, w1, w2
=============================================================================
