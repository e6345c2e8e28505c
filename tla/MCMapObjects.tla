---------------------------- MODULE MCMapObjects ----------------------------
(* Small instances of MapObjects for TLC. *)
EXTENDS MapObjects

CONSTANTS block, poly, k, t, f, p, q

(* A polygon for each mortal object, when there is one. *)
MCGroup == [x \in Poly |-> IF x = p THEN k ELSE t]
MCTeam == [x \in Target |-> 1]

(* One story at a time: only one of the cannon, the target and the fuel    *)
(* station changes, and one of the clients plays but for the first frame.   *)
Changed(o) == last_change[o] > 0 \/ Shown(o) # Assumed(o)
OneStory ==
    /\ Cardinality({o \in Object \ Poly : Changed(o)}) <= 1
    /\ frame_loops > 0 => Cardinality(logged_in) <= 1
=============================================================================
