----------------------------- MODULE ByteStream -----------------------------
(***************************************************************************)
(* What the reliable half of a game connection promises: the bytes the     *)
(* server writes come out at the client in the order they were written,    *)
(* each exactly once, whatever the datagrams underneath do.                *)
(*                                                                         *)
(* sent is everything the server has written, got everything the client    *)
(* has been handed.  ReliableStream implements this specification.         *)
(***************************************************************************)
EXTENDS Naturals, Sequences

VARIABLES sent, got

vars == <<sent, got>>

Init == sent = <<>> /\ got = <<>>

(* The server appends bytes: what was written before is not touched. *)
Write == /\ Len(sent') > Len(sent)
         /\ SubSeq(sent', 1, Len(sent)) = sent
         /\ UNCHANGED got

(* The client is handed bytes it has not seen yet, up to the n-th. *)
Deliver(n) == /\ got' = SubSeq(sent, 1, n)
              /\ UNCHANGED sent

DeliverSome == \E n \in Len(got) + 1 .. Len(sent) : Deliver(n)

Next == Write \/ DeliverSome

Spec == Init /\ [][Next]_vars
=============================================================================
