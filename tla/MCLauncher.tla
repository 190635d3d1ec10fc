----------------------------- MODULE MCLauncher -----------------------------
(* Launcher with two games and a handful of agents. *)
EXTENDS Launcher

CONSTANTS j1, j2
=============================================================================
