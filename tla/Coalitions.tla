----------------------------- MODULE Coalitions -----------------------------
(***************************************************************************)
(* What alliances promise (the help text of option allowAlliances): they   *)
(* partition the players, two of them become one when any of their members *)
(* come together, and players leave one at a time.                         *)
(***************************************************************************)
CONSTANT Player

VARIABLE allies     \* the other members of a player's alliance

Init == allies = [p \in Player |-> {}]

(* "If members from different alliances join, all their allies do so." *)
Unite(p, q) ==
    LET union == allies[p] \cup allies[q] \cup {p, q}
    IN  allies' = [r \in Player |-> IF r \in union THEN union \ {r}
                                                   ELSE allies[r]]

Quit(p) ==
    allies' = [q \in Player |-> IF q = p THEN {} ELSE allies[q] \ {p}]

Next == \E p \in Player : Quit(p) \/ \E q \in Player \ {p} : Unite(p, q)

Spec == Init /\ [][Next]_allies
=============================================================================
