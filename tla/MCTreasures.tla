---------------------------- MODULE MCTreasures ----------------------------
(* A small instance of Treasures for TLC. *)
EXTENDS Treasures

CONSTANTS ann, bob, s1, s2, s3, red, blue

SidesOfTwo == [x \in {ann, bob} \cup {1, 2} |-> IF x \in {ann, 1} THEN red ELSE blue]

(* The options' defaults, and all of them changed. *)
Default == [captureTheFlag |-> FALSE, multipleConnectors |-> TRUE,
            treasureCollisionDestroys |-> TRUE, ballCollisionDetaches |-> FALSE,
            treasureKillTeam |-> FALSE, endOfRoundReset |-> TRUE]

Other == [o \in DOMAIN Default |-> ~Default[o]]

TwoOptions == {Default, Other}

(* Other objects only where somebody points to or has connected to: those  *)
(* elsewhere only take up memory.                                          *)
InTheWay ==
    \A s \in Slot \ Balls :
        Free(s) => \E p \in Player : ptr[p] = s

Symmetry == Permutations({s1, s2, s3})
=============================================================================
