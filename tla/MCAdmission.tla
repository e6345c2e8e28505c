---------------------------- MODULE MCAdmission ----------------------------
(* A small instance of Admission for TLC. *)
EXTENDS Admission

CONSTANTS ann, bob, cat, p, q

(* ann and cat want the same nick. *)
Nicks == [x \in Client |-> IF x = bob THEN 2 ELSE 1]

Symmetry == Permutations({ann, cat}) \cup Permutations({p, q})
=============================================================================
