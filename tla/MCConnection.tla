---------------------------- MODULE MCConnection ----------------------------
(* Small instances of Connection for TLC. *)
EXTENDS Connection

(* Not many datagrams with reliable data, or acks, are in flight at a time. *)
FewInFlight ==
    /\ Cardinality(to_client) <= 2
    /\ Cardinality(to_server) <= 1

(* A login that is still going on: LoginSucceeds holds of every behaviour  *)
(* that leaves these states.                                               *)
LoginGoesOn ==
    /\ state # "FREE"
    /\ Alive
    /\ ~(state = "PLAYING" /\ phase = "playing")
=============================================================================
