-------------------------- MODULE MCReliableStream --------------------------
(* A small instance of ReliableStream for TLC. *)
EXTENDS ReliableStream, FiniteSets

(* Two bytes or three are written at a time. *)
MCChunks == {<<1, 2>>, <<2, 1, 2>>}

(* Bound: datagrams under way in each direction, enough for a burst of two *)
(* packets or for an old one beside a new one; another can be sent once    *)
(* one of them is lost.                                                    *)
FewDatagrams == Cardinality(to_client) <= 2 /\ Cardinality(to_server) <= 2
=============================================================================
