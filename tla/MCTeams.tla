------------------------------ MODULE MCTeams ------------------------------
(* Small instances of Teams for TLC; the players are model values. *)
EXTENDS Teams, TLC

CONSTANTS a, b, c, r

OneEach == [t \in Team |-> 1]

(* Pauses that give up the base come with limited lives, and both only     *)
(* with the default settings for robots.                                   *)
SomeOptions ==
    {o \in [baselessPausing : BOOLEAN, restrictRobots : BOOLEAN,
            reserveRobotTeam : BOOLEAN, limitedLives : BOOLEAN,
            robotTeam : {2}, maxRobots : {1}] :
        /\ o.baselessPausing = o.limitedLives
        /\ o.baselessPausing => o.reserveRobotTeam
        /\ o.reserveRobotTeam => o.restrictRobots}

Symmetric == Permutations(Human)
=============================================================================
