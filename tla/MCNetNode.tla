----------------------------- MODULE MCNetNode ------------------------------
(* NetNode with its tasks and records. *)
EXTENDS NetNode

CONSTANTS r1, s1, good, junk, huge
=============================================================================
