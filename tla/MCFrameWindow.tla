--------------------------- MODULE MCFrameWindow ---------------------------
(* A small instance of FrameWindow for TLC. *)
EXTENDS FrameWindow
=============================================================================
