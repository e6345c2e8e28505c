------------------------------ MODULE MCRaces ------------------------------
(* A small instance of Races for TLC. *)
EXTENDS Races, TLC

CONSTANTS ann, bob, cat

(* Three players, or two when the dead recover at any time. *)
PlayersOf == [limited \in BOOLEAN |-> IF limited THEN 3 ELSE 2]

Symmetric == Permutations(Player)
=============================================================================
