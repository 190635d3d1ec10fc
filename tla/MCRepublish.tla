---------------------------- MODULE MCRepublish -----------------------------
(* Republish in minutes: ttl 10, skew 5, a put takes up to one, and so does  *)
(* (rounded up) the pause before a retry.                                    *)
EXTENDS Republish

CONSTANTS home, away, abroad
=============================================================================
