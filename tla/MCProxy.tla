------------------------------ MODULE MCProxy -------------------------------
(* Proxy with a handful of connections. *)
EXTENDS Proxy

CONSTANTS c1, c2, c3
=============================================================================
