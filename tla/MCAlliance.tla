----------------------------- MODULE MCAlliance -----------------------------
(* Small instances of Alliance for TLC; the players are model values. *)
EXTENDS Alliance

CONSTANTS a, b, c, r
=============================================================================
