---------------------------- MODULE MCControls ----------------------------
(* A small instance of Controls for TLC. *)
EXTENDS Controls
CONSTANTS keys, nokeys

(* Bound: the player moves the mouse, which changes what the keyboard      *)
(* packets acknowledge, maybe first without direction prediction; or       *)
(* presses keys, talks and types a command; or talks twice.  The ship is   *)
(* sent home while there is nothing to say.                                *)
OneHand ==
    /\ \/ /\ client.moved = 0 /\ client.dirPrediction
          /\ client.talk_str \in Commands => Len(typed) = 1
          /\ Len(typed) < 2 \/ client.last_keyboard_change = 0
       \/ /\ typed = <<>> /\ client.keyv = nokeys
          /\ ~client.dirPrediction => client.last_keyboard_change = 0
    /\ connp.sent_home => typed = <<>>
===========================================================================
